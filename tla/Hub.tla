--------------------------------- MODULE Hub ---------------------------------
(***************************************************************************)
(* The websocket hub of one game: rooms, clients, and the goroutines that  *)
(* join, leave, broadcast and write.                                       *)
(*                                                                         *)
(* Hub.mu guards the map of rooms, room.mu the clients of one room and     *)
(* Client.mu the send channel of one client; a section under one of them   *)
(* is one action.  Join and Broadcast find the room under Hub.mu and use   *)
(* it under room.mu after Hub.mu was unlocked, so each is two actions;     *)
(* Leave holds Hub.mu all the way and is one.  Rooms are numbered as they  *)
(* are made; room 0 is "no room in the map".                               *)
(***************************************************************************)
EXTENDS Naturals, Sequences

CONSTANTS
    Clients,   \* connections; UserOf says whose
    Messages,  \* broadcasts, each by one goroutine of its own
    Users, UserOf,
    SendCap,   \* capacity of Client.send (64)
    MaxRooms   \* bound on the rooms ever made

ASSUME ClientsAssumption == Clients \cap Messages = {}
ASSUME UserOfAssumption == UserOf \in [Clients -> Users]
ASSUME SendCapAssumption == SendCap \in Nat \ {0}
ASSUME MaxRoomsAssumption == MaxRooms \in Nat \ {0}

VARIABLES
    room,      \* hub.rooms[game]
    made,      \* rooms made so far
    members,   \* members[r]: the clients of room r
    pc,        \* handleGameWS of each client
    found,     \* the room that a Join or a broadcast has found
    closed,    \* Client.closed, set together with close(send)
    queue,     \* Client.send
    pump,      \* WritePump of each client
    written,   \* what WritePump wrote to the connection
    msg,       \* each message: not sent, room found, sent
    panicked   \* a goroutine sent on a closed channel

vars == <<room, made, members, pc, found, closed, queue, pump, written, msg,
          panicked>>

Rooms == 1..MaxRooms

Init ==
    /\ room = 0
    /\ made = 0
    /\ members = [r \in Rooms |-> {}]
    /\ pc = [c \in Clients |-> "new"]
    /\ found = [x \in Clients \cup Messages |-> 0]
    /\ closed = [c \in Clients |-> FALSE]
    /\ queue = [c \in Clients |-> <<>>]
    /\ pump = [c \in Clients |-> "none"]
    /\ written = [c \in Clients |-> <<>>]
    /\ msg = [m \in Messages |-> "new"]
    /\ panicked = FALSE

-----------------------------------------------------------------------------
(* The life of a connection in handleGameWS.                               *)

(* Join under Hub.mu: the room of the game, made if there is none.         *)
JoinFind(c) ==
    /\ pc[c] = "new"
    /\ \/ /\ room # 0
          /\ UNCHANGED <<room, made>>
       \/ /\ room = 0 /\ made < MaxRooms
          /\ made' = made + 1
          /\ room' = made'
    /\ found' = [found EXCEPT ![c] = room']
    /\ pc' = [pc EXCEPT ![c] = "joining"]
    /\ UNCHANGED <<members, closed, queue, pump, written, msg, panicked>>

(* Join under room.mu; then the handler starts WritePump.                  *)
JoinAdd(c) ==
    /\ pc[c] = "joining"
    /\ members' = [members EXCEPT ![found[c]] = @ \cup {c}]
    /\ pc' = [pc EXCEPT ![c] = "open"]
    /\ pump' = [pump EXCEPT ![c] = "running"]
    /\ UNCHANGED <<room, made, found, closed, queue, written, msg, panicked>>

(* Mutant: the connection ends without Client.Close.                       *)
CloseForgotten(c) ==
    /\ pc[c] = "open"
    /\ pc' = [pc EXCEPT ![c] = "leaving"]
    /\ UNCHANGED <<room, made, members, found, closed, queue, pump, written,
                   msg, panicked>>

(* The read loop ends: the deferred Client.Close runs first ...            *)
Close(c) ==
    /\ pc[c] = "open"
    /\ closed' = [closed EXCEPT ![c] = TRUE]
    /\ pc' = [pc EXCEPT ![c] = "leaving"]
    /\ UNCHANGED <<room, made, members, found, queue, pump, written, msg,
                   panicked>>

(* Mutant: an empty room stays in the map.                                 *)
LeaveRoomBehind(c) ==
    /\ pc[c] = "leaving"
    /\ members' = [r \in Rooms |-> IF r = room THEN members[r] \ {c}
                                             ELSE members[r]]
    /\ pc' = [pc EXCEPT ![c] = "gone"]
    /\ UNCHANGED <<room, made, found, closed, queue, pump, written, msg,
                   panicked>>

(* ... then Hub.Leave: the client is removed from the room in the map, and *)
(* the room from the map when it is empty.                                 *)
Leave(c) ==
    /\ pc[c] = "leaving"
    /\ members' = [r \in Rooms |-> IF r = room THEN members[r] \ {c}
                                             ELSE members[r]]
    /\ room' = IF room # 0 /\ members'[room] = {} THEN 0 ELSE room
    /\ pc' = [pc EXCEPT ![c] = "gone"]
    /\ UNCHANGED <<made, found, closed, queue, pump, written, msg, panicked>>

-----------------------------------------------------------------------------
(* Broadcast and SendToUser.                                               *)

(* Under Hub.mu.RLock: without a room the message goes nowhere.            *)
Find(m) ==
    /\ msg[m] = "new"
    /\ found' = [found EXCEPT ![m] = room]
    /\ msg' = [msg EXCEPT ![m] = IF room = 0 THEN "sent" ELSE "found"]
    /\ UNCHANGED <<room, made, members, pc, closed, queue, pump, written,
                   panicked>>

(* Mutant: Client.Send does not look at closed.                            *)
EnqueueClosed(m, to) ==
    /\ queue' = [c \in Clients |->
                   IF c \in to /\ Len(queue[c]) < SendCap
                     THEN Append(queue[c], m) ELSE queue[c]]
    /\ panicked' = (panicked \/ \E c \in to : closed[c])

(* Client.Send to each of the clients in to: dropped when the client is    *)
(* closed or its buffer is full.                                           *)
Enqueue(m, to) ==
    /\ queue' = [c \in Clients |->
                   IF c \in to /\ ~closed[c] /\ Len(queue[c]) < SendCap
                     THEN Append(queue[c], m) ELSE queue[c]]
    /\ UNCHANGED panicked

(* Broadcast: under room.mu the message goes to every client of the room.  *)
Broadcast(m) ==
    /\ msg[m] = "found"
    /\ Enqueue(m, members[found[m]])
    /\ msg' = [msg EXCEPT ![m] = "sent"]
    /\ UNCHANGED <<room, made, members, pc, found, closed, pump, written>>

(* SendToUser: to the first client of the user that the iteration of the   *)
(* map meets, which may be any.                                            *)
SendToUser(m, u) ==
    /\ msg[m] = "found"
    /\ LET own == {c \in members[found[m]] : UserOf[c] = u} IN
         IF own = {} THEN UNCHANGED <<queue, panicked>>
                     ELSE \E c \in own : Enqueue(m, {c})
    /\ msg' = [msg EXCEPT ![m] = "sent"]
    /\ UNCHANGED <<room, made, members, pc, found, closed, pump, written>>

-----------------------------------------------------------------------------
(* WritePump.                                                              *)

(* A message is taken from the channel and written.                        *)
Write(c) ==
    /\ pump[c] = "running"
    /\ queue[c] # <<>>
    /\ queue' = [queue EXCEPT ![c] = Tail(@)]
    /\ written' = [written EXCEPT ![c] = Append(@, Head(queue[c]))]
    /\ UNCHANGED <<room, made, members, pc, found, closed, pump, msg, panicked>>

(* Writing a message or a ping fails: WritePump closes the connection, so  *)
(* that the handler's read fails and it closes and leaves in turn.         *)
WriteFails(c) ==
    /\ pump[c] = "running"
    /\ pump' = [pump EXCEPT ![c] = "ended"]
    /\ queue' = [queue EXCEPT ![c] = IF @ = <<>> THEN @ ELSE Tail(@)]
    /\ UNCHANGED <<room, made, members, pc, found, closed, written, msg,
                   panicked>>

(* The channel is closed and drained: WritePump says goodbye and ends.     *)
PumpEnds(c) ==
    /\ pump[c] = "running"
    /\ closed[c] /\ queue[c] = <<>>
    /\ pump' = [pump EXCEPT ![c] = "ended"]
    /\ UNCHANGED <<room, made, members, pc, found, closed, queue, written, msg,
                   panicked>>

-----------------------------------------------------------------------------
(* A connection whose WritePump has ended is closed, and its read fails.   *)
MustClose(c) == pump[c] = "ended" /\ Close(c)

Next ==
    \/ \E c \in Clients : \/ JoinFind(c) \/ JoinAdd(c) \/ Close(c) \/ Leave(c)
                          \/ Write(c) \/ WriteFails(c) \/ PumpEnds(c)
    \/ \E m \in Messages : Find(m) \/ Broadcast(m)
    \/ \E m \in Messages, u \in Users : SendToUser(m, u)

(* Goroutines run.  A connection may stay open for ever; a broken one is   *)
(* noticed, because the pings of WritePump fail.                           *)
Fairness ==
    /\ \A c \in Clients : /\ WF_vars(JoinAdd(c)) /\ WF_vars(MustClose(c))
                          /\ WF_vars(Leave(c)) /\ WF_vars(Write(c) \/ PumpEnds(c))
    /\ \A m \in Messages : WF_vars(Broadcast(m) \/ \E u \in Users : SendToUser(m, u))

Spec == Init /\ [][Next]_vars /\ Fairness

-----------------------------------------------------------------------------
(* Types; the buffer never exceeds its capacity.                           *)
TypeOK ==
    /\ room \in 0..made /\ made \in 0..MaxRooms
    /\ members \in [Rooms -> SUBSET Clients]
    /\ pc \in [Clients -> {"new", "joining", "open", "leaving", "gone"}]
    /\ found \in [Clients \cup Messages -> 0..made]
    /\ closed \in [Clients -> BOOLEAN]
    /\ queue \in [Clients -> Seq(Messages)]
    /\ \A c \in Clients : Len(queue[c]) <= SendCap
    /\ written \in [Clients -> Seq(Messages)]
    /\ pump \in [Clients -> {"none", "running", "ended"}]
    /\ msg \in [Messages -> {"new", "found", "sent"}]
    /\ panicked \in BOOLEAN

(* Closing a client races with every broadcast that has already found its  *)
(* room; none of them sends on the closed channel.                         *)
NoSendOnClosed == ~panicked

(* Message a comes before message b in the sequence s.                     *)
Before(s, a, b) == \E i, j \in DOMAIN s : i < j /\ s[i] = a /\ s[j] = b

(* Two connections that get the same messages get them in the same order,  *)
(* however many of them a full buffer drops; and none gets one twice.      *)
SameOrder ==
    \A c, d \in Clients : \A a, b \in Messages :
        ~(Before(written[c], a, b) /\ Before(written[d], b, a))

(* The goroutines that broadcast, close and write share a client's channel *)
(* safely: nothing is sent after the close, nothing is reordered.          *)
ChannelsSound == NoSendOnClosed /\ SameOrder

(* Nothing is left behind: when every connection is gone the map holds no  *)
(* room, however joins and leaves have crossed.                            *)
RoomsReclaimed == (\A c \in Clients : pc[c] = "gone") => room = 0

(* Whichever of the reader and the writer of a connection ends first, the  *)
(* other follows and the client leaves the hub: no goroutine outlives it.  *)
ConnectionsEnd ==
    \A c \in Clients : (pump[c] = "ended" \/ pc[c] = "leaving")
                          ~> (pump[c] = "ended" /\ pc[c] = "gone")

=============================================================================
