------------------------------ MODULE HubProofs ------------------------------
(* Theorems about module Hub, for every set of clients and messages, every *)
(* assignment of clients to users and every capacity of Client.send; and   *)
(* about module GamePage, the other end of the connection, for every       *)
(* number of problems, breaks and failures.                                *)
EXTENDS Hub, GamePage, TLAPS

(* What a client got and will get: written, then still in its channel.     *)
Out(c) == written[c] \o queue[c]

(* Message a occurs in the sequence s.                                     *)
Occurs(s, a) == \E i \in DOMAIN s : s[i] = a

(* A goroutine past the lookup has found a room.                           *)
RoomFound ==
    /\ \A c \in Clients : pc[c] = "joining" => found[c] # 0
    /\ \A m \in Messages : msg[m] = "found" => found[m] # 0

(* A room that was not made yet has no clients.                            *)
UnmadeEmpty == \A r \in Rooms : r > made => members[r] = {}

(* The room in the map holds connections that will still call Leave; a     *)
(* room that was dropped from the map may keep one that is gone.           *)
RegisteredLive ==
    room # 0 => \A c \in members[room] : pc[c] \in {"open", "leaving"}

(* The room in the map has a client, or one that is about to be added.     *)
RoomUsed ==
    room # 0 => \/ members[room] # {}
                \/ \E c \in Clients : pc[c] = "joining" /\ found[c] = room

(* Only a message that was sent is on its way.                             *)
SentOnly ==
    \A c \in Clients, a \in Messages : Occurs(Out(c), a) => msg[a] = "sent"

(* The clients' streams, unwritten tails included, agree on one order.     *)
OneOrder ==
    \A c, d \in Clients : \A a, b \in Messages :
        ~(Before(Out(c), a, b) /\ Before(Out(d), b, a))

(* The inductive invariant, in its two independent parts.                  *)
RoomInv == TypeOK /\ RoomFound /\ UnmadeEmpty /\ RegisteredLive /\ RoomUsed

StreamInv == TypeOK /\ SentOnly /\ OneOrder /\ NoSendOnClosed

-----------------------------------------------------------------------------
(* Types.                                                                  *)

(* What Client.Send does to a queue keeps its type and its bound.          *)
LEMMA EnqueueType ==
    ASSUME TypeOK, NEW m \in Messages, NEW to, Enqueue(m, to)
    PROVE  /\ queue' \in [Clients -> Seq(Messages)]
           /\ \A c \in Clients : Len(queue'[c]) <= SendCap
           /\ panicked' = panicked
<1>1. ASSUME NEW c \in Clients
      PROVE  queue'[c] \in Seq(Messages) /\ Len(queue'[c]) <= SendCap
  <2>1. queue[c] \in Seq(Messages) /\ Len(queue[c]) \in Nat
        /\ Len(queue[c]) <= SendCap
    BY DEF TypeOK
  <2>2. CASE queue'[c] = queue[c]
    BY <2>1, <2>2
  <2>3. CASE queue'[c] # queue[c]
    <3>1. queue'[c] = Append(queue[c], m) /\ Len(queue[c]) < SendCap
      BY <2>3 DEF Enqueue
    <3>2. /\ Append(queue[c], m) \in Seq(Messages)
          /\ Len(Append(queue[c], m)) = Len(queue[c]) + 1
      BY <2>1
    <3> QED  BY <2>1, <3>1, <3>2, SendCapAssumption
  <2> QED  BY <2>2, <2>3
<1>2. queue' = [c \in Clients |-> queue'[c]] /\ panicked' = panicked
  BY DEF Enqueue
<1> QED  BY <1>1, <1>2

(* The first state has its types.                                          *)
LEMMA InitType == Init => TypeOK
<1> SUFFICES ASSUME Init PROVE TypeOK
  OBVIOUS
<1>1. <<>> \in Seq(Messages) /\ Len(<<>>) = 0
  OBVIOUS
<1>2. /\ queue \in [Clients -> Seq(Messages)]
      /\ written \in [Clients -> Seq(Messages)]
      /\ \A c \in Clients : Len(queue[c]) <= SendCap
  BY <1>1, SendCapAssumption DEF Init
<1>3. /\ room \in 0..made /\ made \in 0..MaxRooms
      /\ found \in [Clients \cup Messages -> 0..made]
      /\ members \in [Rooms -> SUBSET Clients]
  BY MaxRoomsAssumption DEF Init
<1> QED  BY <1>2, <1>3 DEF Init, TypeOK

(* Every step keeps the types.                                             *)
LEMMA NextType == TypeOK /\ [Next]_vars => TypeOK'
<1> SUFFICES ASSUME TypeOK, [Next]_vars PROVE TypeOK'
  OBVIOUS
<1> USE MaxRoomsAssumption, SendCapAssumption DEF TypeOK, Rooms
<1>1. ASSUME NEW c \in Clients, JoinFind(c) PROVE TypeOK'
  <2>1. room' \in 0..made' /\ made' \in 0..MaxRooms /\ made <= made'
    BY <1>1 DEF JoinFind
  <2>2. found' \in [Clients \cup Messages -> 0..made']
    BY <1>1, <2>1 DEF JoinFind
  <2>3. pc' \in [Clients -> {"new", "joining", "open", "leaving", "gone"}]
    BY <1>1 DEF JoinFind
  <2> QED  BY <1>1, <2>1, <2>2, <2>3 DEF JoinFind
<1>2. ASSUME NEW c \in Clients, JoinAdd(c) PROVE TypeOK'
  <2>1. members' \in [Rooms -> SUBSET Clients]
    BY <1>2 DEF JoinAdd
  <2>2. /\ pc' \in [Clients -> {"new", "joining", "open", "leaving", "gone"}]
        /\ pump' \in [Clients -> {"none", "running", "ended"}]
    BY <1>2 DEF JoinAdd
  <2> QED  BY <1>2, <2>1, <2>2 DEF JoinAdd
<1>3. ASSUME NEW c \in Clients, Close(c) PROVE TypeOK'
  BY <1>3 DEF Close
<1>4. ASSUME NEW c \in Clients, Leave(c) PROVE TypeOK'
  <2>1. members' \in [Rooms -> SUBSET Clients]
    BY <1>4 DEF Leave
  <2>2. room' \in 0..made
    BY <1>4 DEF Leave
  <2> QED  BY <1>4, <2>1, <2>2 DEF Leave
<1>5. ASSUME NEW c \in Clients, Write(c) PROVE TypeOK'
  <2>1. queue[c] \in Seq(Messages) /\ queue[c] # <<>> /\ Len(queue[c]) \in Nat
    BY <1>5 DEF Write
  <2>2. /\ Tail(queue[c]) \in Seq(Messages) /\ Head(queue[c]) \in Messages
        /\ Len(Tail(queue[c])) = Len(queue[c]) - 1
    BY <2>1
  <2>3. Append(written[c], Head(queue[c])) \in Seq(Messages)
    BY <2>2
  <2>4. queue' \in [Clients -> Seq(Messages)]
        /\ written' \in [Clients -> Seq(Messages)]
    BY <1>5, <2>2, <2>3 DEF Write
  <2>5. \A d \in Clients : Len(queue'[d]) <= SendCap
    BY <1>5, <2>1, <2>2 DEF Write
  <2> QED  BY <1>5, <2>4, <2>5 DEF Write
<1>6. ASSUME NEW c \in Clients, WriteFails(c) PROVE TypeOK'
  <2> DEFINE q == IF queue[c] = <<>> THEN queue[c] ELSE Tail(queue[c])
  <2>1. queue[c] \in Seq(Messages) /\ Len(queue[c]) \in Nat
    OBVIOUS
  <2>2. q \in Seq(Messages) /\ Len(q) <= Len(queue[c]) /\ Len(q) \in Nat
    BY <2>1
  <2>3. queue' = [queue EXCEPT ![c] = q]
    BY <1>6 DEF WriteFails
  <2> HIDE DEF q
  <2>4. queue' \in [Clients -> Seq(Messages)]
        /\ \A d \in Clients : Len(queue'[d]) <= SendCap
    BY <2>1, <2>2, <2>3
  <2> QED  BY <1>6, <2>4 DEF WriteFails
<1>7. ASSUME NEW c \in Clients, PumpEnds(c) PROVE TypeOK'
  BY <1>7 DEF PumpEnds
<1>8. ASSUME NEW m \in Messages, Find(m) PROVE TypeOK'
  BY <1>8 DEF Find
<1>9. ASSUME NEW m \in Messages, Broadcast(m) PROVE TypeOK'
  BY <1>9, EnqueueType DEF Broadcast
<1>10. ASSUME NEW m \in Messages, NEW u \in Users, SendToUser(m, u) PROVE TypeOK'
  <2>1. /\ queue' \in [Clients -> Seq(Messages)]
        /\ \A c \in Clients : Len(queue'[c]) <= SendCap
        /\ panicked' = panicked
    <3>1. CASE UNCHANGED <<queue, panicked>>
      BY <3>1
    <3>2. CASE \E c : Enqueue(m, {c})
      BY <3>2, EnqueueType
    <3> QED  BY <1>10, <3>1, <3>2 DEF SendToUser
  <2> QED  BY <1>10, <2>1 DEF SendToUser
<1>11. CASE UNCHANGED vars
  BY <1>11 DEF vars
<1> QED  BY <1>1, <1>2, <1>3, <1>4, <1>5, <1>6, <1>7, <1>8, <1>9, <1>10, <1>11
        DEF Next

-----------------------------------------------------------------------------
(* Rooms: Join and Leave, and the lookups that run beside them.            *)

(* The first state satisfies the invariant of the rooms.                   *)
LEMMA InitRooms == Init => RoomInv
BY InitType
   DEF Init, RoomInv, RoomFound, UnmadeEmpty, RegisteredLive, RoomUsed, Rooms

(* Every step keeps the invariant of the rooms.                            *)
LEMMA NextRooms == RoomInv /\ [Next]_vars => RoomInv'
<1> SUFFICES ASSUME RoomInv, [Next]_vars PROVE RoomInv'
  OBVIOUS
<1>0. TypeOK /\ TypeOK'
  BY NextType DEF RoomInv
<1> USE MaxRoomsAssumption DEF Rooms
<1>1. ASSUME NEW c \in Clients, JoinFind(c) PROVE RoomInv'
  <2>1. room' # 0 /\ found'[c] = room' /\ pc'[c] = "joining"
    BY <1>0, <1>1 DEF JoinFind, TypeOK
  <2>2. RoomFound'
    BY <1>0, <1>1, <2>1, ClientsAssumption DEF JoinFind, RoomInv, RoomFound, TypeOK
  <2>3. UnmadeEmpty'
    BY <1>0, <1>1 DEF JoinFind, RoomInv, UnmadeEmpty, TypeOK
  <2>4. RegisteredLive'
    <3>1. CASE room = 0
      <4>1. room' \in Rooms /\ room' > made
        BY <1>0, <1>1, <3>1 DEF JoinFind, TypeOK
      <4>2. members'[room'] = {}
        BY <1>1, <4>1 DEF JoinFind, RoomInv, UnmadeEmpty
      <4> QED  BY <4>2 DEF RegisteredLive
    <3>2. CASE room # 0
      BY <1>0, <1>1, <3>2 DEF JoinFind, RoomInv, RegisteredLive, TypeOK
    <3> QED  BY <3>1, <3>2
  <2>5. RoomUsed'
    BY <2>1 DEF RoomUsed
  <2> QED  BY <1>0, <2>2, <2>3, <2>4, <2>5 DEF RoomInv
<1>2. ASSUME NEW c \in Clients, JoinAdd(c) PROVE RoomInv'
  <2>1. found[c] # 0 /\ found[c] \in Rooms /\ found[c] <= made
    BY <1>0, <1>2 DEF JoinAdd, RoomInv, RoomFound, TypeOK
  <2>2. RoomFound'
    BY <1>0, <1>2 DEF JoinAdd, RoomInv, RoomFound, TypeOK
  <2>3. UnmadeEmpty'
    BY <1>0, <1>2, <2>1 DEF JoinAdd, RoomInv, UnmadeEmpty, TypeOK
  <2>4. RegisteredLive'
    BY <1>0, <1>2, <2>1 DEF JoinAdd, RoomInv, RegisteredLive, TypeOK
  <2>5. RoomUsed'
    <3> SUFFICES ASSUME room # 0
                 PROVE  \/ members'[room] # {}
                        \/ \E d \in Clients : pc'[d] = "joining" /\ found'[d] = room
      BY <1>2 DEF JoinAdd, RoomUsed
    <3>1. CASE found[c] = room
      BY <1>0, <1>2, <2>1, <3>1 DEF JoinAdd, TypeOK
    <3>2. CASE members[room] # {}
      BY <1>0, <1>2, <2>1, <3>2 DEF JoinAdd, TypeOK
    <3>3. CASE \E d \in Clients : pc[d] = "joining" /\ found[d] = room
      BY <1>0, <1>2, <3>1, <3>3, ZenonT(60) DEF JoinAdd, TypeOK
    <3> QED  BY <3>2, <3>3 DEF RoomInv, RoomUsed
  <2> QED  BY <1>0, <2>2, <2>3, <2>4, <2>5 DEF RoomInv
<1>3. ASSUME NEW c \in Clients, Close(c) PROVE RoomInv'
  <2>1. RoomFound' /\ UnmadeEmpty' /\ RegisteredLive' /\ RoomUsed'
    BY <1>0, <1>3
       DEF Close, RoomInv, RoomFound, UnmadeEmpty, RegisteredLive, RoomUsed, TypeOK
  <2> QED  BY <1>0, <2>1 DEF RoomInv
<1>4. ASSUME NEW c \in Clients, Leave(c) PROVE RoomInv'
  <2>1. RoomFound' /\ UnmadeEmpty'
    BY <1>0, <1>4 DEF Leave, RoomInv, RoomFound, UnmadeEmpty, TypeOK
  <2>2. room' # 0 => /\ room' = room /\ room \in Rooms
                     /\ members'[room] = members[room] \ {c}
                     /\ members'[room] # {}
    <3>1. room' # 0 => room' = room /\ members'[room] # {}
      BY <1>4 DEF Leave
    <3>2. room # 0 => room \in Rooms
      BY <1>0 DEF TypeOK
    <3>3. room \in Rooms => members'[room] = members[room] \ {c}
      BY <1>4 DEF Leave
    <3> QED  BY <3>1, <3>2, <3>3
  <2>3. RegisteredLive'
    BY <1>0, <1>4, <2>2 DEF Leave, RoomInv, RegisteredLive, TypeOK
  <2>4. RoomUsed'
    <3>1. room' # 0 => members'[room'] # {}
      BY <2>2
    <3> QED  BY <3>1 DEF RoomUsed
  <2> QED  BY <1>0, <2>1, <2>3, <2>4 DEF RoomInv
<1>5. ASSUME UNCHANGED <<room, made, members, pc, found, msg>> PROVE RoomInv'
  <2>1. RoomFound' /\ UnmadeEmpty' /\ RegisteredLive' /\ RoomUsed'
    BY <1>5 DEF RoomInv, RoomFound, UnmadeEmpty, RegisteredLive, RoomUsed
  <2> QED  BY <1>0, <2>1 DEF RoomInv
<1>6. ASSUME NEW c \in Clients, Write(c) \/ WriteFails(c) \/ PumpEnds(c)
      PROVE  RoomInv'
  BY <1>5, <1>6 DEF Write, WriteFails, PumpEnds
<1>7. ASSUME NEW m \in Messages, Find(m) PROVE RoomInv'
  <2>1. \A c \in Clients : found'[c] = found[c]
    BY <1>0, <1>7, ClientsAssumption DEF Find, TypeOK
  <2>2. RoomFound'
    BY <1>0, <1>7, <2>1 DEF Find, RoomInv, RoomFound, TypeOK
  <2>3. UnmadeEmpty' /\ RegisteredLive' /\ RoomUsed'
    BY <1>7, <2>1 DEF Find, RoomInv, UnmadeEmpty, RegisteredLive, RoomUsed
  <2> QED  BY <1>0, <2>2, <2>3 DEF RoomInv
<1>8. ASSUME NEW m \in Messages, Broadcast(m) \/ \E u \in Users : SendToUser(m, u)
      PROVE  RoomInv'
  <2>1. /\ UNCHANGED <<room, made, members, pc, found>>
        /\ msg' = [msg EXCEPT ![m] = "sent"]
    BY <1>8 DEF Broadcast, SendToUser
  <2>2. RoomFound' /\ UnmadeEmpty' /\ RegisteredLive' /\ RoomUsed'
    BY <1>0, <2>1
       DEF RoomInv, RoomFound, UnmadeEmpty, RegisteredLive, RoomUsed, TypeOK
  <2> QED  BY <1>0, <2>2 DEF RoomInv
<1>9. CASE UNCHANGED vars
  BY <1>5, <1>9 DEF vars
<1> QED  BY <1>1, <1>2, <1>3, <1>4, <1>6, <1>7, <1>8, <1>9 DEF Next

(* Hub.Join and Hub.Leave leave no room behind: when every connection has  *)
(* left, hub.rooms holds nothing, in whatever order lookups, insertions    *)
(* and removals have crossed.                                              *)
THEOREM HubRoomsReclaimed == Spec => []RoomsReclaimed
<1>1. RoomInv => RoomsReclaimed
  <2> SUFFICES ASSUME RoomInv, \A c \in Clients : pc[c] = "gone", room # 0
               PROVE  FALSE
    BY DEF RoomsReclaimed
  <2>1. members[room] \subseteq Clients
    BY MaxRoomsAssumption DEF RoomInv, TypeOK, Rooms
  <2>2. members[room] = {}
    BY <2>1 DEF RoomInv, RegisteredLive
  <2> QED  BY <2>2 DEF RoomInv, RoomUsed
<1> QED  BY <1>1, InitRooms, NextRooms, PTL DEF Spec

-----------------------------------------------------------------------------
(* Streams: sequences, and what the writers do to them.                    *)

(* Writing moves a message from the channel to the connection.             *)
LEMMA WriteKeepsOut ==
    ASSUME NEW w \in Seq(Messages), NEW q \in Seq(Messages), q # <<>>
    PROVE  Append(w, Head(q)) \o Tail(q) = w \o q
<1> DEFINE l == Append(w, Head(q)) \o Tail(q)
           r == w \o q
<1>1. /\ Append(w, Head(q)) \in Seq(Messages) /\ Tail(q) \in Seq(Messages)
      /\ Len(Append(w, Head(q))) = Len(w) + 1 /\ Len(Tail(q)) = Len(q) - 1
      /\ Len(w) \in Nat /\ Len(q) \in Nat /\ Len(q) > 0
  OBVIOUS
<1>2. l \in Seq(Messages) /\ r \in Seq(Messages) /\ Len(l) = Len(r)
  BY <1>1
<1>3. ASSUME NEW i \in 1..Len(r) PROVE l[i] = r[i]
  <2>1. CASE i <= Len(w)
    BY <1>1, <2>1
  <2>2. CASE i = Len(w) + 1
    BY <1>1, <2>2
  <2>3. CASE i > Len(w) + 1
    BY <1>1, <2>3
  <2> QED  BY <1>1, <2>1, <2>2, <2>3
<1> QED  BY <1>2, <1>3

(* A message that the failing write loses leaves the others in order.      *)
LEMMA DropKeepsOrder ==
    ASSUME NEW w \in Seq(Messages), NEW q \in Seq(Messages), q # <<>>,
           NEW a, NEW b
    PROVE  /\ Occurs(w \o Tail(q), a) => Occurs(w \o q, a)
           /\ Before(w \o Tail(q), a, b) => Before(w \o q, a, b)
<1> DEFINE l == w \o Tail(q)
           r == w \o q
           At(i) == IF i <= Len(w) THEN i ELSE i + 1
<1>1. /\ Tail(q) \in Seq(Messages) /\ Len(Tail(q)) = Len(q) - 1
      /\ Len(w) \in Nat /\ Len(q) \in Nat /\ Len(q) > 0
  OBVIOUS
<1>2. /\ l \in Seq(Messages) /\ r \in Seq(Messages)
      /\ DOMAIN l = 1..(Len(w) + Len(q) - 1) /\ DOMAIN r = 1..(Len(w) + Len(q))
  BY <1>1
<1>3. ASSUME NEW i \in DOMAIN l PROVE At(i) \in DOMAIN r /\ r[At(i)] = l[i]
  <2>1. CASE i <= Len(w)
    BY <1>1, <1>2, <2>1
  <2>2. CASE i > Len(w)
    BY <1>1, <1>2, <2>2
  <2> QED  BY <1>1, <1>2, <2>1, <2>2
<1>4. ASSUME NEW i \in DOMAIN l, NEW j \in DOMAIN l, i < j PROVE At(i) < At(j)
  BY <1>1, <1>2, <1>4
<1> HIDE DEF l, r, At
<1>5. Occurs(l, a) => Occurs(r, a)
  BY <1>3 DEF Occurs
<1>6. Before(l, a, b) => Before(r, a, b)
  BY <1>3, <1>4 DEF Before
<1> QED  BY <1>5, <1>6 DEF l, r

(* A message appended comes last.                                          *)
LEMMA AppendOrder ==
    ASSUME NEW s \in Seq(Messages), NEW m \in Messages, NEW a, NEW b
    PROVE  /\ Occurs(Append(s, m), a) => Occurs(s, a) \/ a = m
           /\ Before(Append(s, m), a, b) =>
                Before(s, a, b) \/ (b = m /\ Occurs(s, a))
<1> DEFINE t == Append(s, m)
<1>1. /\ Len(s) \in Nat /\ DOMAIN s = 1..Len(s) /\ DOMAIN t = 1..(Len(s) + 1)
      /\ \A i \in 1..Len(s) : t[i] = s[i]
      /\ t[Len(s) + 1] = m
  OBVIOUS
<1> HIDE DEF t
<1>2. Occurs(t, a) => Occurs(s, a) \/ a = m
  BY <1>1 DEF Occurs
<1>3. Before(t, a, b) => Before(s, a, b) \/ (b = m /\ Occurs(s, a))
  BY <1>1 DEF Before, Occurs
<1> QED  BY <1>2, <1>3 DEF t

(* What is in a part of a stream is in the stream, in the same order.      *)
LEMMA PrefixOrder ==
    ASSUME NEW w \in Seq(Messages), NEW q \in Seq(Messages), NEW a, NEW b
    PROVE  Before(w, a, b) => Before(w \o q, a, b)
<1>1. /\ DOMAIN w \subseteq DOMAIN (w \o q)
      /\ \A i \in DOMAIN w : (w \o q)[i] = w[i]
  OBVIOUS
<1> QED  BY <1>1 DEF Before

(* Appending to the second of two sequences appends to both together.      *)
LEMMA AppendConcat ==
    ASSUME NEW w \in Seq(Messages), NEW q \in Seq(Messages), NEW m \in Messages
    PROVE  w \o Append(q, m) = Append(w \o q, m)
OBVIOUS

(* What a client gets is a sequence of messages.                           *)
LEMMA OutType == ASSUME TypeOK, NEW c \in Clients PROVE Out(c) \in Seq(Messages)
BY DEF TypeOK, Out

(* A step that adds nothing to any stream and reorders none.               *)
LEMMA StreamsShrink ==
    ASSUME StreamInv, TypeOK', panicked' = panicked,
           \A m \in Messages : msg[m] = "sent" => msg'[m] = "sent",
           \A c \in Clients, a \in Messages :
               Occurs(Out(c)', a) => Occurs(Out(c), a),
           \A c \in Clients, a, b \in Messages :
               Before(Out(c)', a, b) => Before(Out(c), a, b)
    PROVE  StreamInv'
<1>1. SentOnly'
  BY DEF StreamInv, SentOnly
<1>2. OneOrder'
  BY DEF StreamInv, OneOrder
<1> QED  BY <1>1, <1>2 DEF StreamInv, NoSendOnClosed

(* Sending a message that was not sent before puts it behind everything    *)
(* that any client has been sent.                                          *)
LEMMA EnqueueStreams ==
    ASSUME StreamInv, TypeOK', NEW m \in Messages, NEW to, Enqueue(m, to),
           msg[m] = "found", msg' = [msg EXCEPT ![m] = "sent"],
           UNCHANGED written
    PROVE  StreamInv'
<1>0. TypeOK
  BY DEF StreamInv
<1>1. ASSUME NEW c \in Clients
      PROVE  Out(c)' = Out(c) \/ Out(c)' = Append(Out(c), m)
  <2>1. queue'[c] = queue[c] \/ queue'[c] = Append(queue[c], m)
    BY DEF Enqueue
  <2>2. queue[c] \in Seq(Messages) /\ written[c] \in Seq(Messages)
    BY <1>0 DEF TypeOK
  <2> QED  BY <2>1, <2>2, AppendConcat DEF Out
<1>2. \A c \in Clients : ~Occurs(Out(c), m)
  BY DEF StreamInv, SentOnly
<1>3. ASSUME NEW c \in Clients, NEW a \in Messages, Occurs(Out(c)', a)
      PROVE  Occurs(Out(c), a) \/ a = m
  BY <1>0, <1>1, <1>3, OutType, AppendOrder
<1>4. ASSUME NEW c \in Clients, NEW a \in Messages, NEW b \in Messages,
             Before(Out(c)', a, b)
      PROVE  Before(Out(c), a, b) \/ (b = m /\ Occurs(Out(c), a))
  BY <1>0, <1>1, <1>4, OutType, AppendOrder
<1>5. SentOnly'
  <2>1. \A x \in Messages : msg'[x] = IF x = m THEN "sent" ELSE msg[x]
    BY <1>0 DEF TypeOK
  <2> QED  BY <1>3, <2>1 DEF StreamInv, SentOnly
<1>6. OneOrder'
  <2> SUFFICES ASSUME NEW c \in Clients, NEW d \in Clients,
                      NEW a \in Messages, NEW b \in Messages,
                      Before(Out(c)', a, b), Before(Out(d)', b, a)
               PROVE  FALSE
    BY DEF OneOrder
  <2>1. \A e \in Clients, x, y \in Messages :
            Before(Out(e), x, y) => Occurs(Out(e), x) /\ Occurs(Out(e), y)
    BY DEF Before, Occurs
  <2> QED  BY <1>2, <1>4, <2>1 DEF StreamInv, OneOrder
<1> QED  BY <1>5, <1>6 DEF StreamInv, NoSendOnClosed, Enqueue

(* The first state satisfies the invariant of the streams.                 *)
LEMMA InitStreams == Init => StreamInv
<1> SUFFICES ASSUME Init PROVE StreamInv
  OBVIOUS
<1>1. TypeOK /\ NoSendOnClosed
  BY InitType DEF Init, NoSendOnClosed
<1>2. \A c \in Clients : Out(c) = <<>> \o <<>>
  BY DEF Init, Out
<1>3. DOMAIN (<<>> \o <<>>) = {}
  <2>1. <<>> \in Seq(Messages)
    OBVIOUS
  <2> QED  BY <2>1
<1> QED  BY <1>1, <1>2, <1>3 DEF StreamInv, SentOnly, OneOrder, Occurs, Before

(* Every step keeps the invariant of the streams.                          *)
LEMMA NextStreams == StreamInv /\ [Next]_vars => StreamInv'
<1> SUFFICES ASSUME StreamInv, [Next]_vars PROVE StreamInv'
  OBVIOUS
<1>0. TypeOK /\ TypeOK'
  BY NextType DEF StreamInv
<1>1. ASSUME UNCHANGED <<queue, written, msg, panicked>> PROVE StreamInv'
  BY <1>0, <1>1, StreamsShrink DEF Out
<1>2. ASSUME NEW c \in Clients,
             JoinFind(c) \/ JoinAdd(c) \/ Close(c) \/ Leave(c) \/ PumpEnds(c)
      PROVE  StreamInv'
  BY <1>1, <1>2 DEF JoinFind, JoinAdd, Close, Leave, PumpEnds
<1>3. ASSUME NEW c \in Clients, Write(c) PROVE StreamInv'
  <2>1. \A d \in Clients : Out(d)' = Out(d)
    <3> SUFFICES ASSUME NEW d \in Clients PROVE Out(d)' = Out(d)
      OBVIOUS
    <3>1. /\ written[d] \in Seq(Messages) /\ queue[d] \in Seq(Messages)
          /\ c = d => queue[d] # <<>>
      BY <1>0, <1>3 DEF TypeOK, Write
    <3>2. c = d => /\ written'[d] = Append(written[d], Head(queue[d]))
                   /\ queue'[d] = Tail(queue[d])
      BY <1>0, <1>3 DEF TypeOK, Write
    <3>3. c # d => written'[d] = written[d] /\ queue'[d] = queue[d]
      BY <1>0, <1>3 DEF TypeOK, Write
    <3> QED  BY <3>1, <3>2, <3>3, WriteKeepsOut DEF Out
  <2>2. UNCHANGED <<msg, panicked>>
    BY <1>3 DEF Write
  <2> QED  BY <1>0, <2>1, <2>2, StreamsShrink
<1>4. ASSUME NEW c \in Clients, WriteFails(c) PROVE StreamInv'
  <2>1. ASSUME NEW d \in Clients
        PROVE  \/ Out(d)' = Out(d)
               \/ queue[d] # <<>> /\ Out(d)' = written[d] \o Tail(queue[d])
    BY <1>0, <1>4, ZenonT(60) DEF TypeOK, WriteFails, Out
  <2>2. ASSUME NEW d \in Clients, NEW a \in Messages, NEW b \in Messages
        PROVE  /\ Occurs(Out(d)', a) => Occurs(Out(d), a)
               /\ Before(Out(d)', a, b) => Before(Out(d), a, b)
    <3>1. written[d] \in Seq(Messages) /\ queue[d] \in Seq(Messages)
      BY <1>0 DEF TypeOK
    <3> QED  BY <2>1, <3>1, DropKeepsOrder DEF Out
  <2>3. UNCHANGED <<msg, panicked>>
    BY <1>4 DEF WriteFails
  <2> QED  BY <1>0, <2>2, <2>3, StreamsShrink
<1>5. ASSUME NEW m \in Messages, Find(m) PROVE StreamInv'
  <2>1. /\ UNCHANGED <<queue, written, panicked>>
        /\ \A x \in Messages : msg[x] = "sent" => msg'[x] = "sent"
    BY <1>0, <1>5 DEF Find, TypeOK
  <2> QED  BY <1>0, <2>1, StreamsShrink DEF Out
<1>6. ASSUME NEW m \in Messages, Broadcast(m) PROVE StreamInv'
  BY <1>0, <1>6, EnqueueStreams DEF Broadcast
<1>7. ASSUME NEW m \in Messages, NEW u \in Users, SendToUser(m, u)
      PROVE  StreamInv'
  <2>1. /\ msg[m] = "found" /\ msg' = [msg EXCEPT ![m] = "sent"]
        /\ UNCHANGED written
    BY <1>7 DEF SendToUser
  <2>2. CASE UNCHANGED <<queue, panicked>>
    <3>1. \A x \in Messages : msg[x] = "sent" => msg'[x] = "sent"
      BY <1>0, <2>1 DEF TypeOK
    <3> QED  BY <1>0, <2>1, <2>2, <3>1, StreamsShrink DEF Out
  <2>3. CASE \E c : Enqueue(m, {c})
    BY <1>0, <2>1, <2>3, EnqueueStreams
  <2> QED  BY <1>7, <2>2, <2>3 DEF SendToUser
<1>8. CASE UNCHANGED vars
  BY <1>1, <1>8 DEF vars
<1> QED  BY <1>2, <1>3, <1>4, <1>5, <1>6, <1>7, <1>8 DEF Next

(* Hub.Broadcast, Client.Close and WritePump share Client.send safely:     *)
(* nothing is sent on a closed channel, and any two connections write the  *)
(* messages they both get in the same order, each at most once.            *)
THEOREM HubChannelsSound == Spec => []ChannelsSound
<1>1. StreamInv => ChannelsSound
  <2> SUFFICES ASSUME StreamInv, NEW c \in Clients, NEW d \in Clients,
                      NEW a \in Messages, NEW b \in Messages,
                      Before(written[c], a, b), Before(written[d], b, a)
               PROVE  FALSE
    BY DEF ChannelsSound, SameOrder, StreamInv
  <2>1. /\ written[c] \in Seq(Messages) /\ queue[c] \in Seq(Messages)
        /\ written[d] \in Seq(Messages) /\ queue[d] \in Seq(Messages)
    BY DEF StreamInv, TypeOK
  <2>2. Before(Out(c), a, b) /\ Before(Out(d), b, a)
    BY <2>1, PrefixOrder DEF Out
  <2> QED  BY <2>2 DEF StreamInv, OneOrder
<1> QED  BY <1>1, InitStreams, NextStreams, PTL DEF Spec

(* Joins, broadcasts and lookups name rooms that exist, and no buffer of a *)
(* client exceeds its capacity.                                            *)
THEOREM HubTypeCorrect == Spec => []TypeOK
BY InitType, NextType, PTL DEF Spec

-----------------------------------------------------------------------------
(* The game page.                                                          *)

(* The messages that choose a problem.                                     *)
Steers(m) == m.type = "state" \/ (m.type = "advanced" /\ m.own)

(* A connection on which none is under way, ...                            *)
Silent(w) == \A i \in DOMAIN w : ~Steers(w[i])

(* ... and one on which the last of them chooses p.                        *)
LeadsTo(w, p) ==
    \E i \in DOMAIN w : /\ Steers(w[i]) /\ w[i].p = p
                        /\ \A j \in DOMAIN w : j > i => ~Steers(w[j])

(* None of them chooses a problem beyond p.                                *)
Bounded(w, p) == \A i \in DOMAIN w : Steers(w[i]) => w[i].p <= p

(* The row only moves on: whatever is shown, was asked for, was read or is *)
(* under way was the player's problem once.                                *)
Reached ==
    /\ shown = Nothing \/ shown <= idx
    /\ readIdx <= idx
    /\ \A f \in fetches : f.p <= idx
    /\ Bounded(wire, idx)
    /\ \A m \in pending : Steers(m) => m.p <= idx

(* Requests under way are told apart by their numbers.                     *)
Numbered ==
    /\ \A f \in fetches : f.n <= asked /\ f.n # applied
    /\ \A f, g \in fetches : f.n = g.n => f = g

(* The latest request is for p and under way, or its answer is shown.      *)
Settled(p) == \/ \E f \in fetches : f.n = asked /\ f.p = p
              \/ applied = asked /\ shown = p

(* The page is connected, was sent its state and has missed nothing.       *)
InTouch == door = "done" /\ idx < N /\ ~AdvanceToCome /\ ~missed

(* It is then led to the problem of the row, or was and has asked for it.  *)
Led == InTouch => LeadsTo(wire, idx) \/ (Silent(wire) /\ Settled(idx))

(* The inductive invariant of the page.                                    *)
PageInv ==
    /\ PageTypeOK
    /\ door # "closed" => game = "active"
    /\ Reached /\ Numbered /\ Led

(* Messages that choose nothing change nothing, wherever they are added.   *)
LEMMA ConcatSilent ==
    ASSUME NEW w \in Seq(PageMessages), NEW v \in Seq(PageMessages), Silent(v)
    PROVE  /\ Silent(w) => Silent(w \o v)
           /\ \A p : LeadsTo(w, p) => LeadsTo(w \o v, p)
           /\ \A p : Bounded(w, p) => Bounded(w \o v, p)
<1>1. /\ DOMAIN (w \o v) = 1..(Len(w) + Len(v)) /\ DOMAIN w = 1..Len(w)
      /\ Len(w) \in Nat /\ Len(v) \in Nat /\ DOMAIN v = 1..Len(v)
  OBVIOUS
<1>2. \A i \in DOMAIN w : (w \o v)[i] = w[i]
  OBVIOUS
<1>3. \A i \in DOMAIN (w \o v) : i > Len(w) => ~Steers((w \o v)[i])
  <2> SUFFICES ASSUME NEW i \in DOMAIN (w \o v), i > Len(w) PROVE ~Steers((w \o v)[i])
    OBVIOUS
  <2>1. (w \o v)[i] = v[i - Len(w)] /\ i - Len(w) \in DOMAIN v
    BY <1>1
  <2> QED  BY <2>1 DEF Silent
<1>4. \A i \in DOMAIN (w \o v) : i \in DOMAIN w \/ i > Len(w)
  BY <1>1
<1>5. DOMAIN w \subseteq DOMAIN (w \o v) /\ \A i \in DOMAIN (w \o v) : i \in Nat
  BY <1>1
<1> HIDE <1>1
<1> DEFINE x == w \o v
<1> HIDE DEF x
<1>6. /\ \A i \in DOMAIN w : x[i] = w[i]
      /\ \A i \in DOMAIN x : i > Len(w) => ~Steers(x[i])
      /\ \A i \in DOMAIN x : i \in DOMAIN w \/ i > Len(w)
      /\ DOMAIN w \subseteq DOMAIN x /\ \A i \in DOMAIN x : i \in Nat
  BY <1>2, <1>3, <1>4, <1>5 DEF x
<1>7. Silent(w) => Silent(x)
  BY <1>6 DEF Silent
<1>8. \A p : LeadsTo(w, p) => LeadsTo(x, p)
  <2> SUFFICES ASSUME NEW p, LeadsTo(w, p) PROVE LeadsTo(x, p)
    OBVIOUS
  <2>1. PICK i \in DOMAIN w : /\ Steers(w[i]) /\ w[i].p = p
                              /\ \A j \in DOMAIN w : j > i => ~Steers(w[j])
    BY DEF LeadsTo
  <2>2. i \in DOMAIN x /\ Steers(x[i]) /\ x[i].p = p
    BY <1>6, <2>1
  <2>3. \A j \in DOMAIN x : j > i => ~Steers(x[j])
    BY <1>6, <2>1
  <2> QED  BY <2>2, <2>3 DEF LeadsTo
<1>9. \A p : Bounded(w, p) => Bounded(x, p)
  BY <1>6 DEF Bounded
<1> QED  BY <1>7, <1>8, <1>9 DEF x

(* The last message is the one that counts.                                *)
LEMMA AppendSteers ==
    ASSUME NEW w \in Seq(PageMessages), NEW m \in PageMessages, Steers(m)
    PROVE  /\ LeadsTo(Append(w, m), m.p)
           /\ \A p : Bounded(w, p) /\ m.p <= p => Bounded(Append(w, m), p)
<1> DEFINE x == Append(w, m)
<1>1. /\ DOMAIN x = 1..(Len(w) + 1) /\ Len(w) \in Nat /\ DOMAIN w = 1..Len(w)
      /\ x[Len(w) + 1] = m /\ \A i \in DOMAIN w : x[i] = w[i]
  OBVIOUS
<1> HIDE DEF x
<1>2. Len(w) + 1 \in DOMAIN x /\ \A j \in DOMAIN x : ~(j > Len(w) + 1)
  BY <1>1
<1>3. \A i \in DOMAIN x : i \in DOMAIN w \/ i = Len(w) + 1
  BY <1>1
<1>4. LeadsTo(x, m.p)
  BY <1>1, <1>2 DEF LeadsTo
<1>5. \A p : Bounded(w, p) /\ m.p <= p => Bounded(x, p)
  BY <1>1, <1>3 DEF Bounded
<1> QED  BY <1>4, <1>5 DEF x

(* What is left when the first message was read.                           *)
LEMMA TailOf ==
    ASSUME NEW w \in Seq(PageMessages), w # <<>>
    PROVE  /\ Tail(w) \in Seq(PageMessages) /\ Head(w) \in PageMessages
           /\ \A p : LeadsTo(w, p) => \/ LeadsTo(Tail(w), p)
                                      \/ /\ Steers(Head(w)) /\ Head(w).p = p
                                         /\ Silent(Tail(w))
           /\ Silent(w) => Silent(Tail(w)) /\ ~Steers(Head(w))
           /\ \A p : Bounded(w, p) =>
                 Bounded(Tail(w), p) /\ (Steers(Head(w)) => Head(w).p <= p)
<1> DEFINE x == Tail(w)
<1>1. /\ DOMAIN w = 1..Len(w) /\ Len(w) \in Nat /\ Len(w) >= 1
      /\ Head(w) = w[1] /\ Head(w) \in PageMessages
      /\ x \in Seq(PageMessages) /\ DOMAIN x = 1..(Len(w) - 1)
      /\ \A i \in DOMAIN x : x[i] = w[i + 1]
  OBVIOUS
<1> HIDE DEF x
<1>2. 1 \in DOMAIN w /\ \A i \in DOMAIN x : i + 1 \in DOMAIN w /\ i + 1 > 1
  BY <1>1
<1>3. \A i \in DOMAIN w : i = 1 \/ (i > 1 /\ i - 1 \in DOMAIN x /\ x[i - 1] = w[i])
  BY <1>1
<1>4. ASSUME NEW p, LeadsTo(w, p)
      PROVE  LeadsTo(x, p) \/ (Steers(Head(w)) /\ Head(w).p = p /\ Silent(x))
  <2>1. PICK i \in DOMAIN w : /\ Steers(w[i]) /\ w[i].p = p
                              /\ \A j \in DOMAIN w : j > i => ~Steers(w[j])
    BY <1>4 DEF LeadsTo
  <2>2. CASE i = 1
    BY <1>1, <1>2, <2>1, <2>2 DEF Silent
  <2>3. CASE i # 1
    <3>1. i - 1 \in DOMAIN x /\ x[i - 1] = w[i]
      BY <1>3, <2>3
    <3>2. ASSUME NEW j \in DOMAIN x, j > i - 1 PROVE ~Steers(x[j])
      <4>1. j + 1 \in DOMAIN w /\ j + 1 > i /\ x[j] = w[j + 1]
        BY <1>1, <3>2
      <4> QED  BY <2>1, <4>1
    <3> QED  BY <2>1, <3>1, <3>2 DEF LeadsTo
  <2> QED  BY <2>2, <2>3
<1>5. Silent(w) => Silent(x) /\ ~Steers(Head(w))
  BY <1>1, <1>2 DEF Silent
<1>6. \A p : Bounded(w, p) => Bounded(x, p) /\ (Steers(Head(w)) => Head(w).p <= p)
  BY <1>1, <1>2 DEF Bounded
<1> QED  BY <1>1, <1>4, <1>5, <1>6 DEF x

(* The empty connection.                                                    *)
LEMMA EmptyWire == <<>> \in Seq(PageMessages) /\ \A p : Bounded(<<>>, p)
BY DEF Bounded

(* The broadcasts; the player's own advances choose a problem.             *)
LEMMA BroadcastKinds ==
    /\ Finished \in Broadcasts /\ ~Steers(Finished)
    /\ \A own \in BOOLEAN, p \in 0..N :
          /\ Advanced(own, p) \in Broadcasts
          /\ Advanced(own, p).p = p /\ Steers(Advanced(own, p)) = own
    /\ \A m \in Broadcasts :
          /\ m \in PageMessages
          /\ Steers(m) => m.p \in 0..N /\ m = Advanced(TRUE, m.p)
BY DEF Finished, Advanced, Broadcasts, PageMessages, Steers

(* The bound on faults is kept.                                            *)
LEMMA FaultsBounded ==
    ASSUME PageTypeOK, UNCHANGED faults \/ Fault PROVE faults' \in 0..MaxFaults
BY MaxFaultsAssumption DEF Fault, PageTypeOK

(* A message that chooses nothing, added at the end.                       *)
LEMMA AppendQuiet ==
    ASSUME NEW w \in Seq(PageMessages), NEW m \in PageMessages, ~Steers(m)
    PROVE  /\ Append(w, m) \in Seq(PageMessages)
           /\ Silent(w) => Silent(Append(w, m))
           /\ \A p : LeadsTo(w, p) => LeadsTo(Append(w, m), p)
           /\ \A p : Bounded(w, p) => Bounded(Append(w, m), p)
<1>1. <<m>> \in Seq(PageMessages) /\ Silent(<<m>>)
  BY DEF Silent
<1>2. Append(w, m) = w \o <<m>> /\ Append(w, m) \in Seq(PageMessages)
  OBVIOUS
<1> QED  BY <1>1, <1>2, ConcatSilent

(* A message for the player alone chooses nothing, sent or lost.           *)
LEMMA ToUserQuiet ==
    ASSUME PageTypeOK, NEW t \in {"result", "error"}, ToUser([type |-> t])
    PROVE  /\ wire' \in Seq(PageMessages) /\ cut' \in BOOLEAN
           /\ faults' \in 0..MaxFaults
           /\ Silent(wire) => Silent(wire')
           /\ \A p : LeadsTo(wire, p) => LeadsTo(wire', p)
           /\ \A p : Bounded(wire, p) => Bounded(wire', p)
<1> DEFINE m == [type |-> t]
<1>1. m \in PageMessages /\ ~Steers(m)
  BY DEF PageMessages, Steers
<1>2. wire \in Seq(PageMessages) /\ faults \in 0..MaxFaults /\ cut \in BOOLEAN
  BY DEF PageTypeOK
<1>3. \/ wire' = Append(wire, m) /\ UNCHANGED <<faults, cut>>
      \/ (UNCHANGED faults \/ Fault) /\ cut' = TRUE /\ UNCHANGED wire
  BY DEF ToUser
<1> HIDE DEF m
<1>4. cut' \in BOOLEAN /\ faults' \in 0..MaxFaults
  <2>1. cut' \in BOOLEAN
    BY <1>2, <1>3
  <2> QED  BY <1>3, <2>1, FaultsBounded
<1>5. CASE wire' = Append(wire, m)
  BY <1>1, <1>2, <1>4, <1>5, AppendQuiet
<1>6. CASE UNCHANGED wire
  BY <1>2, <1>4, <1>6
<1> QED  BY <1>3, <1>5, <1>6

(* A step that leaves the requests and what is shown alone.                *)
LEMMA NothingAsked ==
    ASSUME PageInv, PageTypeOK', door' # "closed" => game' = "active",
           UNCHANGED <<shown, asked, fetches, applied>>,
           idx <= idx', readIdx' <= idx', Bounded(wire', idx'),
           \A m \in pending' : Steers(m) => m.p <= idx',
           InTouch' => \/ LeadsTo(wire', idx')
                       \/ /\ InTouch /\ idx' = idx
                          /\ Silent(wire) => Silent(wire')
                          /\ LeadsTo(wire, idx) => LeadsTo(wire', idx)
    PROVE  PageInv'
<1> USE NAssumption DEF PageInv
<1>1. idx \in 0..N /\ idx' \in 0..N
  BY DEF PageTypeOK
<1>2. Reached'
  <2>1. shown' = Nothing \/ shown' <= idx'
    BY <1>1 DEF Reached, PageTypeOK
  <2>2. \A f \in fetches : f.p \in Nat
    BY DEF PageTypeOK, Fetches
  <2>3. \A f \in fetches' : f.p <= idx'
    BY <1>1, <2>2 DEF Reached
  <2> QED  BY <2>1, <2>3 DEF Reached
<1>3. Numbered'
  BY DEF Numbered
<1>4. Led'
  BY DEF Led, Settled
<1> QED  BY <1>2, <1>3, <1>4

(* What a bound on the messages allows when the row moves on.              *)
LEMMA BoundedGrows ==
    ASSUME NEW w \in Seq(PageMessages), NEW p \in Nat, NEW q \in Nat, p <= q, Bounded(w, p)
    PROVE  Bounded(w, q)
<1>1. \A m \in PageMessages : Steers(m) => m.p \in Nat
  BY NAssumption DEF PageMessages, Broadcasts, Steers
<1>2. \A i \in DOMAIN w : w[i] \in PageMessages
  OBVIOUS
<1> QED  BY <1>1, <1>2 DEF Bounded

(* What the invariant says of the variables that most steps leave alone.   *)
LEMMA PageParts ==
    ASSUME PageInv
    PROVE  /\ idx \in Nat /\ readIdx \in Nat /\ idx <= N /\ readIdx <= idx
           /\ N \in Nat /\ wire \in Seq(PageMessages) /\ Bounded(wire, idx)
           /\ door # "closed" => game = "active"
           /\ pending \subseteq Broadcasts /\ \A m \in pending : Steers(m) => m.p <= idx
           /\ faults \in 0..MaxFaults
BY NAssumption DEF PageInv, PageTypeOK, Reached

(* The connection is made, step by step.                                   *)
LEMMA ConnectKeeps ==
    PageInv /\ (Connect \/ ConnectFails \/ Upgrade \/ Join) => PageInv'
<1> SUFFICES ASSUME PageInv, Connect \/ ConnectFails \/ Upgrade \/ Join PROVE PageInv'
  OBVIOUS
<1>1. /\ UNCHANGED <<rows, job, pending, readIdx, ghosts, view, net, history>>
      /\ door' \in {"closed", "checked", "open", "todo"} /\ member' \in BOOLEAN
      /\ door' # "closed" => game = "active"
  <2>1. CASE Connect
    BY <2>1 DEF Connect, PageInv, PageTypeOK
  <2>2. CASE ConnectFails
    BY <2>2 DEF ConnectFails, PageInv, PageTypeOK
  <2>3. CASE Upgrade
    BY <2>3 DEF Upgrade, PageInv, PageTypeOK
  <2>4. CASE Join
    BY <2>4 DEF Join, PageInv, PageTypeOK
  <2> QED  BY <2>1, <2>2, <2>3, <2>4
<1>2. PageTypeOK'
  BY <1>1 DEF PageInv, PageTypeOK, rows, view, net, history
<1> QED  BY <1>1, <1>2, PageParts, NothingAsked DEF rows, view, net, history, InTouch

(* The row is read for player_state, or the read is missed.                *)
LEMMA ReadStateKeeps == PageInv /\ ReadState => PageInv'
<1> SUFFICES ASSUME PageInv, ReadState PROVE PageInv'
  OBVIOUS
<1>1. /\ UNCHANGED <<rows, job, pending, member, ghosts, view, wire, drops, cut, deaf>>
      /\ door = "todo" /\ door' \in {"read", "done"} /\ readIdx' \in {idx, readIdx}
      /\ missed' \in BOOLEAN /\ (door' = "done" => missed' = TRUE)
      /\ UNCHANGED faults \/ Fault
  BY DEF ReadState, PageInv, PageTypeOK
<1>2. PageTypeOK'
  <2>1. faults' \in 0..MaxFaults
    BY <1>1, FaultsBounded DEF PageInv
  <2> QED  BY <1>1, <2>1 DEF PageInv, PageTypeOK, rows, view
<1>3. ~InTouch'
  BY <1>1 DEF InTouch
<1> QED  BY <1>1, <1>2, <1>3, PageParts, NothingAsked DEF rows, view

(* The state is sent: it leads to the row as it was read.                  *)
LEMMA SendStateKeeps == PageInv /\ SendState => PageInv'
<1> SUFFICES ASSUME PageInv, SendState PROVE PageInv'
  OBVIOUS
<1> DEFINE m == [type |-> "state", p |-> readIdx]
<1>1. m \in PageMessages /\ Steers(m) /\ m.p = readIdx
  BY PageParts DEF PageMessages, Steers
<1>2. /\ door = "read" /\ door' = "done"
      /\ UNCHANGED <<rows, job, pending, member, readIdx, ghosts, view, drops, cut, deaf>>
      /\ \/ /\ wire' = IF readIdx = N THEN wire ELSE Append(wire, m)
            /\ missed' = (readIdx # idx /\ ~AdvanceToCome) /\ UNCHANGED faults
         \/ Fault /\ missed' = TRUE /\ UNCHANGED wire
  BY DEF SendState
<1> HIDE DEF m
<1>3. wire' \in Seq(PageMessages) /\ Bounded(wire', idx)
  <2>1. wire \in Seq(PageMessages) /\ Bounded(wire, idx) /\ m.p <= idx
    BY <1>1, PageParts
  <2>2. Append(wire, m) \in Seq(PageMessages) /\ Bounded(Append(wire, m), idx)
    BY <1>1, <2>1, AppendSteers
  <2> QED  BY <1>2, <2>1, <2>2
<1>4. PageTypeOK'
  <2>1. missed' \in BOOLEAN
    BY <1>2
  <2>2. faults' \in 0..MaxFaults
    BY <1>2, FaultsBounded DEF PageInv
  <2> QED  BY <1>2, <1>3, <2>1, <2>2 DEF PageInv, PageTypeOK, rows, view
<1>5. InTouch' => LeadsTo(wire', idx)
  <2> SUFFICES ASSUME InTouch' PROVE LeadsTo(wire', idx)
    OBVIOUS
  <2>1. UNCHANGED <<job, pending, idx>>
    BY <1>2 DEF rows
  <2>2. ~missed' /\ ~AdvanceToCome /\ idx < N
    BY <2>1 DEF InTouch, AdvanceToCome
  <2>3. /\ wire' = IF readIdx = N THEN wire ELSE Append(wire, m)
        /\ missed' = (readIdx # idx /\ ~AdvanceToCome)
    BY <1>2, <2>2
  <2>4. readIdx = idx
    BY <2>2, <2>3, Zenon
  <2> QED  BY <1>1, <2>2, <2>3, <2>4, PageParts, AppendSteers
<1> QED  BY <1>2, <1>3, <1>4, <1>5, PageParts, NothingAsked DEF rows, view

(* The connection is closed at the page.                                   *)
LEMMA Closed ==
    ASSUME PageTypeOK, CloseSocket
    PROVE  /\ door' = "closed" /\ member' = FALSE /\ ~InTouch'
           /\ wire' = <<>> /\ wire' \in Seq(PageMessages) /\ \A p : Bounded(wire', p)
           /\ job' \in {"none", "sent", "judging", "failed", "advanced", "won"}
BY EmptyWire DEF CloseSocket, PageTypeOK, InTouch

(* The connection breaks.                                                  *)
LEMMA DropKeeps == PageInv /\ Drop => PageInv'
<1> SUFFICES ASSUME PageInv, Drop PROVE PageInv'
  OBVIOUS
<1>1. /\ door' = "closed" /\ member' = FALSE /\ ~InTouch'
      /\ wire' \in Seq(PageMessages) /\ Bounded(wire', idx)
      /\ job' \in {"none", "sent", "judging", "failed", "advanced", "won"}
  BY Closed DEF Drop, PageInv
<1>2. /\ drops' \in 0..MaxDrops /\ ghosts' \in Nat
      /\ UNCHANGED <<rows, pending, readIdx, view, faults, missed>>
  BY MaxDropsAssumption DEF PageInv, PageTypeOK, Drop
<1>3. cut' \in BOOLEAN /\ deaf' \in BOOLEAN
  BY DEF Drop
<1>4. PageTypeOK'
  BY <1>1, <1>2, <1>3 DEF PageInv, PageTypeOK, rows, view
<1> QED  BY <1>1, <1>2, <1>4, PageParts, NothingAsked DEF rows, view

(* The server notices that it broke, or reads a solution, ...              *)
LEMMA NoticeKeeps == PageInv /\ (Notice \/ ReadSubmission) => PageInv'
<1> SUFFICES ASSUME PageInv, Notice \/ ReadSubmission PROVE PageInv'
  OBVIOUS
<1>1. /\ UNCHANGED <<rows, opening, pending, view, net, history>>
      /\ ghosts' \in Nat
      /\ job' \in {job, "judging"} /\ (job' = job \/ job = "sent")
  <2>1. CASE Notice
    BY <2>1 DEF Notice, PageInv, PageTypeOK
  <2>2. CASE ReadSubmission
    BY <2>2 DEF ReadSubmission, PageInv, PageTypeOK
  <2> QED  BY <2>1, <2>2
<1>2. PageTypeOK'
  BY <1>1 DEF PageInv, PageTypeOK, rows, opening, view, net, history
<1>3. InTouch' => InTouch
  BY <1>1 DEF InTouch, AdvanceToCome, rows, opening, history
<1> QED  BY <1>1, <1>2, <1>3, PageParts, NothingAsked DEF rows, opening, view, net

(* ... which was submitted, ...                                            *)
LEMMA SubmitKeeps == PageInv /\ Submit => PageInv'
<1> SUFFICES ASSUME PageInv, Submit PROVE PageInv'
  OBVIOUS
<1>1. PageTypeOK'
  BY DEF PageInv, PageTypeOK, Submit, rows, opening, net
<1>2. InTouch' => InTouch
  BY DEF Submit, InTouch, AdvanceToCome, rows, opening
<1> QED  BY <1>1, <1>2, PageParts, NothingAsked DEF Submit, rows, opening, net

(* ... and refused or rejected: a message that chooses nothing.            *)
LEMMA JudgeKeeps == PageInv /\ (SendError \/ JudgeRejects) => PageInv'
<1> SUFFICES ASSUME PageInv, SendError \/ JudgeRejects PROVE PageInv'
  OBVIOUS
<1>1. ToUser([type |-> "error"]) \/ ToUser([type |-> "result"])
  BY DEF SendError, JudgeRejects
<1>2. /\ wire' \in Seq(PageMessages) /\ cut' \in BOOLEAN /\ faults' \in 0..MaxFaults
      /\ Silent(wire) => Silent(wire')
      /\ \A p : LeadsTo(wire, p) => LeadsTo(wire', p)
      /\ \A p : Bounded(wire, p) => Bounded(wire', p)
  BY <1>1, ToUserQuiet DEF PageInv
<1>3. /\ UNCHANGED <<rows, pending, opening, ghosts, view, drops, missed, deaf>>
      /\ job \in {"judging", "failed"} /\ job' = "none"
  BY DEF SendError, JudgeRejects
<1>4. PageTypeOK'
  BY <1>2, <1>3 DEF PageInv, PageTypeOK, rows, opening, view
<1>5. InTouch' => InTouch
  BY <1>3 DEF InTouch, AdvanceToCome, rows, opening
<1> QED  BY <1>2, <1>3, <1>4, <1>5, PageParts, NothingAsked DEF rows, opening, view

(* The row moves on.                                                       *)
LEMMA AcceptKeeps == PageInv /\ JudgeAccepts => PageInv'
<1> SUFFICES ASSUME PageInv, JudgeAccepts PROVE PageInv'
  OBVIOUS
<1>1. idx' = idx + 1 /\ idx' \in 0..N /\ job' = "advanced"
  BY PageParts DEF JudgeAccepts
<1>2. PageTypeOK'
  BY <1>1 DEF PageInv, PageTypeOK, JudgeAccepts, opening, view, net, history
<1>3. Bounded(wire', idx')
  BY <1>1, PageParts, BoundedGrows DEF JudgeAccepts, net
<1>4. \A m \in pending' : Steers(m) => m.p <= idx'
  <2> SUFFICES ASSUME NEW m \in pending, Steers(m) PROVE m.p <= idx + 1
    BY <1>1 DEF JudgeAccepts
  <2>1. m.p \in Nat /\ m.p <= idx
    BY PageParts DEF Broadcasts, Steers
  <2> QED  BY <2>1, PageParts
<1>5. ~InTouch'
  BY <1>1 DEF InTouch, AdvanceToCome
<1> QED  BY <1>1, <1>2, <1>3, <1>4, <1>5, PageParts, NothingAsked
         DEF JudgeAccepts, opening, view, net, history

(* An advance, or the end of the game, is about to be announced; the       *)
(* result chooses nothing.                                                 *)
LEMMA AnnounceKeeps == PageInv /\ (AnnounceAdvance \/ AnnounceWin) => PageInv'
<1> SUFFICES ASSUME PageInv, AnnounceAdvance \/ AnnounceWin PROVE PageInv'
  OBVIOUS
<1>1. /\ wire' \in Seq(PageMessages) /\ cut' \in BOOLEAN /\ faults' \in 0..MaxFaults
      /\ Silent(wire) => Silent(wire')
      /\ \A p : LeadsTo(wire, p) => LeadsTo(wire', p)
      /\ \A p : Bounded(wire, p) => Bounded(wire', p)
  <2>1. ToUser([type |-> "result"])
    BY DEF AnnounceAdvance, AnnounceWin
  <2> QED  BY <2>1, ToUserQuiet DEF PageInv
<1>2. /\ job' = "none" /\ job \in {"advanced", "won"}
      /\ UNCHANGED <<rows, opening, ghosts, view, drops, missed, deaf>>
      /\ \/ pending' = pending \cup {Advanced(TRUE, idx)}
         \/ pending' = pending \cup {Finished} /\ job = "won"
  BY DEF AnnounceAdvance, AnnounceWin
<1>3. /\ pending' \subseteq Broadcasts
      /\ \A m \in pending' : Steers(m) => m.p <= idx
  <2>1. idx \in 0..N
    BY PageParts
  <2>2. Advanced(TRUE, idx) \in Broadcasts /\ Advanced(TRUE, idx).p = idx
    BY <2>1, BroadcastKinds
  <2>3. Finished \in Broadcasts /\ ~Steers(Finished)
    BY BroadcastKinds
  <2>4. pending' \subseteq Broadcasts
    BY <1>2, <2>2, <2>3, PageParts
  <2>5. ASSUME NEW m \in pending', Steers(m) PROVE m.p <= idx
    <3>1. CASE m \in pending
      BY <2>5, <3>1, PageParts
    <3>2. CASE m = Advanced(TRUE, idx)
      BY <3>2, PageParts DEF Advanced
    <3> QED  BY <1>2, <2>3, <2>5, <3>1, <3>2
  <2> QED  BY <2>4, <2>5
<1>4. PageTypeOK'
  BY <1>1, <1>2, <1>3 DEF PageInv, PageTypeOK, rows, opening, view
<1>5. InTouch' => InTouch
  <2>1. CASE pending' = pending \cup {Advanced(TRUE, idx)}
    BY <1>2, <2>1 DEF InTouch, AdvanceToCome, rows
  <2>2. CASE pending' = pending \cup {Finished} /\ job = "won"
    BY <1>2, <2>2 DEF InTouch, AdvanceToCome, rows, opening
  <2> QED  BY <1>2, <2>1, <2>2
<1> QED  BY <1>1, <1>2, <1>3, <1>4, <1>5, PageParts, NothingAsked
         DEF rows, opening, view

(* The game is won, or was over before: the row has no further problem.    *)
(* Or the submission fails after the row has moved, and that is missed.    *)
LEMMA UnheardKeeps == PageInv /\ (WinGame \/ TooLate \/ AdvanceFails) => PageInv'
<1> SUFFICES ASSUME PageInv, WinGame \/ TooLate \/ AdvanceFails PROVE PageInv'
  OBVIOUS
<1>1. /\ UNCHANGED <<solo, idx, other, pending, opening, ghosts, view, wire, drops,
                     cut, deaf>>
      /\ job' \in {"none", "won", "failed"} /\ missed' \in BOOLEAN
      /\ status' \in {"active", "won", "ended", "cancelled"}
      /\ idx = N \/ missed'
      /\ UNCHANGED faults \/ Fault
  <2>1. CASE WinGame
    BY <2>1 DEF WinGame, net, history, PageInv, PageTypeOK
  <2>2. CASE TooLate
    BY <2>2 DEF TooLate, rows, net, history, PageInv, PageTypeOK
  <2>3. CASE AdvanceFails
    BY <2>3 DEF AdvanceFails, PageInv, PageTypeOK
  <2> QED  BY <2>1, <2>2, <2>3
<1>2. faults' \in 0..MaxFaults
  BY <1>1, FaultsBounded DEF PageInv
<1>3. PageTypeOK'
  BY <1>1, <1>2 DEF PageInv, PageTypeOK, opening, view
<1>4. ~InTouch'
  BY <1>1, PageParts DEF InTouch
<1> QED  BY <1>1, <1>3, <1>4, PageParts, NothingAsked DEF opening, view

(* A broadcast leads to the row as it is, chooses nothing or is missed.    *)
LEMMA BroadcastKeeps == ASSUME PageInv, NEW m \in pending, Announce(m) PROVE PageInv'
<1>1. /\ pending' = pending \ {m}
      /\ UNCHANGED <<rows, job, opening, ghosts, view, drops, cut>>
      /\ missed' \in BOOLEAN /\ deaf' \in BOOLEAN
      /\ wire' \in {wire, Append(wire, m)}
      /\ UNCHANGED faults \/ Fault
  BY DEF Announce, PageInv, PageTypeOK, history
<1>2. /\ m \in PageMessages /\ wire \in Seq(PageMessages) /\ Bounded(wire, idx)
      /\ Steers(m) <=> m.type = "advanced" /\ m.own
      /\ Steers(m) => m.p <= idx /\ (m.p = idx => m = Advanced(TRUE, idx))
  <2>1. m \in PageMessages /\ (Steers(m) => m = Advanced(TRUE, m.p))
    BY PageParts, BroadcastKinds
  <2>2. Steers(m) <=> m.type = "advanced" /\ m.own
    BY PageParts DEF Broadcasts, Steers
  <2> QED  BY <2>1, <2>2, PageParts
<1>3. wire' \in Seq(PageMessages) /\ Bounded(wire', idx)
  <2>1. Append(wire, m) \in Seq(PageMessages)
    BY <1>2
  <2>2. Bounded(Append(wire, m), idx)
    BY <1>2, AppendSteers, AppendQuiet
  <2> QED  BY <1>1, <1>2, <2>1, <2>2
<1>4. PageTypeOK'
  <2>1. faults' \in 0..MaxFaults /\ pending' \subseteq Broadcasts
    BY <1>1, PageParts, FaultsBounded DEF PageInv
  <2> QED  BY <1>1, <1>3, <2>1 DEF PageInv, PageTypeOK, rows, opening, view
<1>5. ASSUME InTouch'
      PROVE  \/ LeadsTo(wire', idx)
             \/ /\ InTouch
                /\ Silent(wire) => Silent(wire')
                /\ LeadsTo(wire, idx) => LeadsTo(wire', idx)
  <2>1. /\ ~missed' /\ ~AdvanceToCome' /\ idx < N /\ door = "done" /\ job # "advanced"
        /\ Advanced(TRUE, idx) \notin pending'
    BY <1>1, <1>5 DEF InTouch, AdvanceToCome, rows, opening
  <2>2. m # Advanced(TRUE, idx) => ~AdvanceToCome
    BY <1>1, <2>1 DEF AdvanceToCome
  <2>3. CASE /\ wire' = Append(wire, m)
             /\ missed' = IF m.type = "advanced" /\ m.own
                          THEN m.p # idx /\ ~AdvanceToCome' ELSE missed
    <3>1. CASE Steers(m)
      <4>1. m.p = idx
        BY <1>2, <2>1, <2>3, <3>1, Zenon
      <4> QED  BY <1>2, <2>3, <3>1, <4>1, AppendSteers
    <3>2. CASE ~Steers(m)
      <4>1. ~missed /\ m # Advanced(TRUE, idx)
        BY <1>2, <2>1, <2>3, <3>2 DEF Steers, Advanced
      <4>2. InTouch
        BY <2>1, <2>2, <4>1 DEF InTouch
      <4> QED  BY <1>2, <2>3, <3>2, <4>2, AppendQuiet
    <3> QED  BY <3>1, <3>2
  <2>4. CASE wire' = wire /\ missed' = (missed \/ m = Advanced(TRUE, idx))
    <3>1. ~missed /\ m # Advanced(TRUE, idx)
      BY <2>1, <2>4, Zenon
    <3> QED  BY <2>1, <2>2, <2>4, <3>1 DEF InTouch
  <2> QED  BY <2>3, <2>4 DEF Announce
<1> QED  BY <1>1, <1>3, <1>4, <1>5, PageParts, NothingAsked DEF rows, opening, view

(* The opponent's advance chooses nothing, nor does the opponent's win.    *)
LEMMA OtherKeeps == PageInv /\ (OtherAdvances \/ OtherWins) => PageInv'
<1> SUFFICES ASSUME PageInv, OtherAdvances \/ OtherWins PROVE PageInv'
  OBVIOUS
<1>1. /\ UNCHANGED <<solo, idx, job, opening, ghosts, view, net, history>>
      /\ status' \in {"active", "won"} /\ other' \in 0..N
      /\ \/ pending' = pending \cup {Advanced(FALSE, other')}
         \/ pending' = pending \cup {Finished}
  <2>1. CASE OtherAdvances
    BY <2>1, NAssumption DEF OtherAdvances, PageInv, PageTypeOK
  <2>2. CASE OtherWins
    BY <2>2 DEF OtherWins, PageInv, PageTypeOK
  <2> QED  BY <2>1, <2>2
<1>2. /\ pending' \subseteq Broadcasts
      /\ \A m \in pending' : Steers(m) => m.p <= idx
      /\ Advanced(TRUE, idx) \in pending => Advanced(TRUE, idx) \in pending'
  <2>1. Advanced(FALSE, other') \in Broadcasts /\ ~Steers(Advanced(FALSE, other'))
    BY <1>1, BroadcastKinds, Zenon
  <2>2. Finished \in Broadcasts /\ ~Steers(Finished)
    BY BroadcastKinds
  <2> QED  BY <1>1, <2>1, <2>2, PageParts
<1>3. PageTypeOK'
  BY <1>1, <1>2 DEF PageInv, PageTypeOK, opening, view, net, history
<1>4. InTouch' => InTouch
  BY <1>1, <1>2 DEF InTouch, AdvanceToCome, opening, history
<1> QED  BY <1>1, <1>2, <1>3, <1>4, PageParts, NothingAsked DEF opening, view, net

(* The game ends without a word; the page's clock runs out, and it leaves. *)
LEMMA EndKeeps == PageInv /\ (EndQuietly \/ TimerFires \/ NavigateAway) => PageInv'
<1>1. ASSUME PageInv, EndQuietly \/ TimerFires PROVE PageInv'
  <2>1. /\ UNCHANGED <<solo, idx, other, job, pending, opening, ghosts, page, game, shown,
                       asked, fetches, applied, submitting, net, history>>
        /\ status' \in {"active", "won", "ended", "cancelled"} /\ timedOut' \in BOOLEAN
    <3>1. CASE EndQuietly
      BY <1>1, <3>1 DEF EndQuietly, view, PageInv, PageTypeOK
    <3>2. CASE TimerFires
      BY <1>1, <3>2 DEF TimerFires, PageInv, PageTypeOK
    <3> QED  BY <1>1, <3>1, <3>2
  <2>2. PageTypeOK'
    BY <1>1, <2>1 DEF PageInv, PageTypeOK, opening, net, history
  <2>3. InTouch' => InTouch
    BY <2>1 DEF InTouch, AdvanceToCome, opening, history
  <2> QED  BY <1>1, <2>1, <2>2, <2>3, PageParts, NothingAsked DEF opening, net
<1>2. ASSUME PageInv, NavigateAway PROVE PageInv'
  <2>1. /\ door' = "closed" /\ member' = FALSE /\ ~InTouch'
        /\ wire' \in Seq(PageMessages) /\ Bounded(wire', idx)
        /\ job' \in {"none", "sent", "judging", "failed", "advanced", "won"}
    BY <1>2, Closed DEF NavigateAway, PageInv
  <2>2. /\ UNCHANGED <<rows, pending, readIdx, ghosts, game, shown, asked, fetches,
                       applied, submitting, timedOut, drops, faults, history>>
        /\ page' = "away"
    BY <1>2 DEF NavigateAway
  <2>3. PageTypeOK'
    BY <1>2, <2>1, <2>2 DEF PageInv, PageTypeOK, rows, history
  <2> QED  BY <1>2, <2>1, <2>2, <2>3, PageParts, NothingAsked DEF rows
<1> QED  BY <1>1, <1>2


(* A request for a problem that was reached gets the next number.          *)
LEMMA AskNumbers ==
    ASSUME PageInv, NEW p \in 0..N, NEW first \in BOOLEAN, Ask(p, first)
    PROVE  /\ asked' = asked + 1 /\ asked' \in Nat /\ applied \in 0..asked'
           /\ fetches' \subseteq Fetches
           /\ applied' = applied => Numbered'
           /\ applied' = applied /\ shown' = shown => Settled(p)'
           /\ p <= idx => \A f \in fetches' : f.p <= idx
<1> DEFINE r == [n |-> asked + 1, p |-> p, first |-> first]
<1>1. asked \in Nat /\ applied \in 0..asked /\ fetches \subseteq Fetches
  BY DEF PageInv, PageTypeOK
<1>2. r \in Fetches /\ r.n = asked + 1 /\ r.p = p
  BY <1>1 DEF Fetches
<1>3. asked' = asked + 1 /\ fetches' = fetches \cup {r}
  BY DEF Ask
<1> HIDE DEF r
<1>4. \A f \in fetches : f.n \in Nat /\ f.n <= asked /\ f.n # applied
  BY <1>1 DEF PageInv, Numbered, Fetches
<1>5. applied' = applied => Numbered'
  <2> SUFFICES ASSUME applied' = applied PROVE Numbered'
    OBVIOUS
  <2>1. \A f \in fetches' : f.n <= asked' /\ f.n # applied'
    BY <1>1, <1>2, <1>3, <1>4
  <2>2. \A f, g \in fetches' : f.n = g.n => f = g
    BY <1>1, <1>2, <1>3, <1>4 DEF PageInv, Numbered
  <2> QED  BY <2>1, <2>2 DEF Numbered
<1>6. Settled(p)'
  BY <1>2, <1>3 DEF Settled
<1>7. p <= idx => \A f \in fetches' : f.p <= idx
  BY <1>2, <1>3 DEF PageInv, Reached
<1> QED  BY <1>1, <1>2, <1>3, <1>5, <1>6, <1>7

(* The game is fetched before there is a connection.                       *)
LEMMA FetchGameKeeps == PageInv /\ FetchGame => PageInv'
<1> SUFFICES ASSUME PageInv, FetchGame PROVE PageInv'
  OBVIOUS
<1>1. door = "closed"
  BY NothingAssumption DEF PageInv, FetchGame
<1>2. /\ UNCHANGED <<server, shown, applied, submitting, timedOut, wire, drops, cut, missed>>
      /\ deaf' \in BOOLEAN
  BY DEF FetchGame, PageInv, PageTypeOK
<1>3. ~InTouch'
  BY <1>1, <1>2 DEF InTouch, server, opening
<1>4. CASE UNCHANGED <<game, asked, fetches>> /\ page' \in {"away", "error"}
           /\ (UNCHANGED faults \/ Fault)
  <2>1. faults' \in 0..MaxFaults
    BY <1>4, MaxFaultsAssumption DEF Fault, PageInv, PageTypeOK
  <2>2. PageTypeOK'
    BY <1>2, <1>4, <2>1 DEF PageInv, PageTypeOK, server, rows, opening
  <2> QED  BY <1>1, <1>2, <1>3, <1>4, <2>2, PageParts, NothingAsked
           DEF server, rows, opening
<1>5. CASE /\ game' \in {"active", "cancelled"}
           /\ Ask(0, TRUE) /\ UNCHANGED <<page, faults>>
  <2>1. 0 \in 0..N /\ 0 <= idx
    BY PageParts
  <2>2. /\ asked' \in Nat /\ applied \in 0..asked' /\ fetches' \subseteq Fetches
        /\ Numbered' /\ \A f \in fetches' : f.p <= idx
    BY <1>2, <1>5, <2>1, AskNumbers
  <2>3. PageTypeOK'
    BY <1>2, <1>5, <2>2 DEF PageInv, PageTypeOK, server, rows, opening
  <2>4. Reached'
    BY <1>2, <2>2 DEF PageInv, Reached, server, rows, opening
  <2> QED  BY <1>1, <1>2, <1>3, <2>2, <2>3, <2>4 DEF PageInv, Led, server, opening
<1> QED  BY <1>4, <1>5 DEF FetchGame

(* An answer that was not overtaken shows the problem asked for last; one  *)
(* that was overtaken is missed unless it shows the same problem.          *)
LEMMA AnswerKeeps == ASSUME PageInv, NEW f \in fetches, Answer(f) PROVE PageInv'
<1>1. /\ asked \in Nat /\ applied \in 0..asked /\ fetches \subseteq Fetches
      /\ f.n \in Nat /\ f.p \in 0..N
  BY DEF PageInv, PageTypeOK, Fetches
<1>2. /\ f.n <= asked /\ f.n # applied
      /\ \A g, h \in fetches : g.n = h.n => g = h
      /\ \A g \in fetches : g.n <= asked /\ g.n # applied
  BY DEF PageInv, Numbered
<1>3. /\ fetches' = fetches \ {f} /\ shown' = f.p
      /\ applied' = IF f.n > applied THEN f.n ELSE applied
      /\ missed' = (missed \/ (f.n < applied /\ f.p # shown))
      /\ page' = IF f.first THEN "shown" ELSE page
      /\ UNCHANGED <<server, game, asked, submitting, timedOut, net, cut, deaf>>
  BY DEF Answer
<1>4. applied' \in 0..asked
  BY <1>1, <1>2, <1>3
<1>5. PageTypeOK'
  <2>1. missed' \in BOOLEAN
    BY <1>3
  <2> QED  BY <1>1, <1>3, <1>4, <2>1
           DEF PageInv, PageTypeOK, server, rows, opening, net
<1>6. Reached'
  BY <1>1, <1>3 DEF PageInv, Reached, server, rows, opening, net
<1>7. Numbered'
  <2>1. \A g \in fetches' : g.n <= asked' /\ g.n # applied'
    BY <1>2, <1>3
  <2> QED  BY <1>2, <1>3, <2>1 DEF Numbered
<1>8. ASSUME InTouch' PROVE InTouch /\ (f.n < applied => f.p = shown)
  <2>1. ~missed' /\ UNCHANGED <<door, idx, job, pending>>
    BY <1>3, <1>8 DEF InTouch, server, rows, opening
  <2>2. ~missed /\ ~(f.n < applied /\ f.p # shown)
    BY <1>3, <2>1, Zenon
  <2> QED  BY <1>8, <2>1, <2>2 DEF InTouch, AdvanceToCome
<1>9. ASSUME NEW p \in Nat, Settled(p), f.n < applied => f.p = shown PROVE Settled(p)'
  <2>1. CASE f.n = asked
    <3>1. applied # asked
      BY <1>2, <2>1
    <3>2. f.p = p
      BY <1>2, <1>9, <2>1, <3>1 DEF Settled
    <3>3. applied' = asked
      BY <1>1, <1>3, <2>1, <3>1
    <3> QED  BY <1>3, <3>2, <3>3 DEF Settled
  <2>2. CASE f.n # asked
    <3>1. CASE \E g \in fetches : g.n = asked /\ g.p = p
      BY <1>3, <2>2, <3>1 DEF Settled
    <3>2. CASE applied = asked /\ shown = p
      <4>1. f.n < applied
        BY <1>1, <1>2, <3>2
      <4>2. applied' = applied /\ shown' = shown
        BY <1>1, <1>3, <1>9, <4>1
      <4> QED  BY <1>3, <3>2, <4>2 DEF Settled
    <3> QED  BY <1>9, <3>1, <3>2 DEF Settled
  <2> QED  BY <2>1, <2>2
<1>10. UNCHANGED <<wire, idx, door, game>>
  BY <1>3 DEF server, rows, opening, net
<1>11. Led'
  <2> SUFFICES ASSUME InTouch'
               PROVE  LeadsTo(wire', idx') \/ (Silent(wire') /\ Settled(idx)')
    BY <1>10 DEF Led
  <2>1. LeadsTo(wire, idx) \/ (Silent(wire) /\ Settled(idx))
    BY <1>8 DEF PageInv, Led
  <2>2. Settled(idx) => Settled(idx)'
    BY <1>8, <1>9, <1>10, PageParts
  <2> QED  BY <1>10, <2>1, <2>2
<1> QED  BY <1>5, <1>6, <1>7, <1>10, <1>11 DEF PageInv

(* A request that fails is missed.                                         *)
LEMMA AnswerFailsKeeps == ASSUME PageInv, NEW f \in fetches, AnswerFails(f) PROVE PageInv'
<1>1. /\ fetches' = fetches \ {f} /\ missed' = TRUE
      /\ page' = IF f.first THEN "error" ELSE page
      /\ UNCHANGED <<server, game, shown, asked, applied, submitting, timedOut, wire,
                     drops, cut, deaf>>
  BY DEF AnswerFails
<1>2. faults' \in 0..MaxFaults
  BY MaxFaultsAssumption DEF AnswerFails, Fault, PageInv, PageTypeOK
<1>3. PageTypeOK'
  BY <1>1, <1>2 DEF PageInv, PageTypeOK, server, rows, opening
<1>4. Reached' /\ Numbered'
  BY <1>1 DEF PageInv, Reached, Numbered, server, rows, opening
<1>5. ~InTouch'
  BY <1>1 DEF InTouch
<1> QED  BY <1>1, <1>3, <1>4, <1>5 DEF PageInv, Led, server, opening

(* A message is read: a request for the problem it chooses goes out.       *)
LEMMA ReceiveKeeps == PageInv /\ Receive => PageInv'
<1> SUFFICES ASSUME PageInv, Receive PROVE PageInv'
  OBVIOUS
<1> DEFINE m == Head(wire)
<1>1. wire \in Seq(PageMessages) /\ wire # <<>> /\ door # "closed"
  BY PageParts DEF Receive, SocketOpen
<1>2. m \in PageMessages /\ Tail(wire) \in Seq(PageMessages)
  BY <1>1, TailOf
<1>3. /\ IF m.type = "state" THEN OnState(m)
         ELSE IF m.type = "advanced" THEN OnAdvanced(m)
         ELSE UNCHANGED <<asked, fetches>>
      /\ submitting' = (submitting /\ m.type \notin Resets)
      /\ IF m.type = "finished"
         THEN game' = "finished" /\ CloseSocket
         ELSE wire' = Tail(wire) /\ UNCHANGED <<game, door, member, job>>
      /\ UNCHANGED <<rows, pending, readIdx, ghosts, page, shown, applied, timedOut,
                     drops, faults, history>>
  BY DEF Receive
<1>4. Steers(m) => m.p \in 0..N /\ m.p <= idx /\ m.type # "finished"
  <2>1. Steers(m) => m.p \in 0..N /\ m.type # "finished"
    BY <1>2 DEF PageMessages, Broadcasts, Steers
  <2> QED  BY <1>1, <2>1, TailOf, PageParts
<1>5. IF Steers(m) THEN Ask(m.p, FALSE) ELSE UNCHANGED <<asked, fetches>>
  BY <1>3 DEF Steers, OnState, OnAdvanced
<1>6. /\ wire' \in Seq(PageMessages) /\ Bounded(wire', idx)
  <2>1. CloseSocket => wire' \in Seq(PageMessages) /\ Bounded(wire', idx)
    BY Closed DEF PageInv
  <2>2. Tail(wire) \in Seq(PageMessages) /\ Bounded(Tail(wire), idx)
    BY <1>1, TailOf, PageParts
  <2> HIDE DEF m
  <2> QED  BY <1>3, <2>1, <2>2
<1> HIDE DEF m
<1>7. /\ asked' \in Nat /\ applied \in 0..asked' /\ fetches' \subseteq Fetches
      /\ Numbered' /\ \A f \in fetches' : f.p <= idx
      /\ Steers(m) => \A p : p = m.p => Settled(p)'
      /\ ~Steers(m) => \A p : Settled(p) => Settled(p)'
  <2>1. CASE Steers(m)
    <3>1. PICK p : p = m.p
      OBVIOUS
    <3>2. p \in 0..N /\ p <= idx /\ Ask(p, FALSE)
      BY <1>4, <1>5, <2>1, <3>1
    <3>3. Settled(p)' /\ Numbered'
      BY <1>3, <3>2, AskNumbers
    <3>4. /\ asked' \in Nat /\ applied \in 0..asked' /\ fetches' \subseteq Fetches
          /\ \A f \in fetches' : f.p <= idx
      BY <3>2, AskNumbers
    <3> QED  BY <2>1, <3>1, <3>3, <3>4
  <2>2. CASE ~Steers(m)
    BY <1>3, <1>5, <2>2 DEF PageInv, PageTypeOK, Numbered, Reached, Settled
  <2> QED  BY <2>1, <2>2
<1>8. PageTypeOK'
  <2>1. submitting' \in BOOLEAN
    BY <1>3
  <2>2. /\ game' \in {game, "finished"} /\ door' \in {door, "closed"}
        /\ member' \in BOOLEAN
        /\ job' \in {"none", "sent", "judging", "failed", "advanced", "won"}
    BY <1>3, Closed DEF PageInv, PageTypeOK
  <2> QED  BY <1>3, <1>6, <1>7, <2>1, <2>2 DEF PageInv, PageTypeOK, rows, history
<1>9. Reached'
  BY <1>3, <1>6, <1>7 DEF PageInv, Reached, rows
<1>10. door' # "closed" => game' = "active"
  BY <1>3, Closed DEF PageInv
<1>11. Led'
  <2> SUFFICES ASSUME InTouch'
               PROVE  LeadsTo(wire', idx') \/ (Silent(wire') /\ Settled(idx)')
    BY DEF Led
  <2>1. m.type # "finished" /\ wire' = Tail(wire)
        /\ UNCHANGED <<door, idx, job, pending, missed>>
    BY <1>3, Closed DEF PageInv, InTouch, rows, history
  <2>2. InTouch
    BY <2>1 DEF InTouch, AdvanceToCome
  <2>3. CASE LeadsTo(wire, idx)
    <3>1. \/ LeadsTo(Tail(wire), idx)
          \/ Steers(m) /\ m.p = idx /\ Silent(Tail(wire))
      BY <1>1, <2>3, TailOf DEF m
    <3>2. Steers(m) /\ m.p = idx => Settled(idx)'
      <4>1. PICK p : p = idx
        OBVIOUS
      <4>2. Steers(m) /\ m.p = p => Settled(p)'
        BY <1>7
      <4> QED  BY <2>1, <4>1, <4>2
    <3> QED  BY <2>1, <3>1, <3>2
  <2>4. CASE Silent(wire) /\ Settled(idx)
    <3>1. Silent(Tail(wire)) /\ ~Steers(m)
      BY <1>1, <2>4, TailOf DEF m
    <3>2. Settled(idx)'
      BY <1>3, <1>5, <2>1, <2>4, <3>1 DEF Settled
    <3> QED  BY <2>1, <3>1, <3>2
  <2> QED  BY <2>2, <2>3, <2>4 DEF PageInv, Led
<1> QED  BY <1>7, <1>8, <1>9, <1>10, <1>11 DEF PageInv

(* The page is opened.                                                     *)
LEMMA PageInvInit == PageInit => PageInv
<1> SUFFICES ASSUME PageInit PROVE PageInv
  OBVIOUS
<1>1. PageTypeOK
  <2>1. idx \in 0..N /\ other \in 0..N /\ readIdx \in 0..N
    BY NAssumption DEF PageInit
  <2>2. drops \in 0..MaxDrops /\ faults \in 0..MaxFaults /\ applied \in 0..asked
    BY MaxDropsAssumption, MaxFaultsAssumption DEF PageInit
  <2> QED  BY <2>1, <2>2, EmptyWire DEF PageInit, PageTypeOK
<1>2. Reached /\ Numbered
  BY NAssumption DEF PageInit, Reached, Numbered, Bounded
<1>3. ~InTouch /\ door = "closed"
  BY DEF PageInit, InTouch
<1> QED  BY <1>1, <1>2, <1>3 DEF PageInv, Led

(* Every step of the page, its server and its game keeps the invariant.    *)
LEMMA PageStep == PageInv /\ [PageNext]_pageVars => PageInv'
<1> SUFFICES ASSUME PageInv, [PageNext]_pageVars PROVE PageInv'
  OBVIOUS
<1>1. CASE UNCHANGED pageVars
  <2>1. PageTypeOK'
    BY <1>1 DEF PageInv, PageTypeOK, pageVars, server, rows, opening, view, net, history
  <2>2. InTouch' => InTouch
    BY <1>1 DEF pageVars, server, rows, opening, history, InTouch, AdvanceToCome
  <2> QED  BY <1>1, <2>1, <2>2, PageParts, NothingAsked
           DEF pageVars, server, rows, opening, view, net
<1>2. CASE \E f \in fetches : Answer(f) \/ AnswerFails(f)
  BY <1>2, AnswerKeeps, AnswerFailsKeeps
<1>3. CASE SubmissionStep
  BY <1>3, JudgeKeeps, AcceptKeeps, AnnounceKeeps, UnheardKeeps DEF SubmissionStep
<1>4. CASE HandlerStep
  BY <1>4, ConnectKeeps, ReadStateKeeps, SendStateKeeps, NoticeKeeps DEF HandlerStep
<1>5. CASE BroadcastStep
  BY <1>5, BroadcastKeeps DEF BroadcastStep
<1> QED  BY <1>1, <1>2, <1>3, <1>4, <1>5, FetchGameKeeps, ConnectKeeps, DropKeeps,
            NoticeKeeps, ReceiveKeeps, SubmitKeeps, OtherKeeps, EndKeeps
         DEF PageNext

(* The invariant holds throughout, for every number of problems, broken    *)
(* connections and failed requests.                                        *)
THEOREM PageInductive == PageSpec => []PageInv
BY PageInvInit, PageStep, PTL DEF PageSpec

(* What the page and the server know of each other keeps its type.         *)
THEOREM PageTypeCorrect == PageSpec => []PageTypeOK
<1>1. PageInv => PageTypeOK
  BY DEF PageInv
<1> QED  BY <1>1, PageInductive, PTL

(* GamePage.tsx shows no problem that its player has not reached; and it   *)
(* shows the problem of the row once nothing is under way and nothing   *)
(* was missed, in whatever order broadcasts, answers of getProblem, breaks *)
(* of the connection and player_state come.                                *)
THEOREM PageShowsRow == PageSpec => []PageFollowsRow
<1>1. PageInv => PageFollowsRow
  <2> SUFFICES ASSUME PageInv PROVE PageFollowsRow
    OBVIOUS
  <2>1. shown = Nothing \/ shown <= idx
    BY DEF PageInv, Reached
  <2>2. ASSUME /\ page = "shown" /\ door = "done" /\ wire = <<>> /\ fetches = {}
               /\ ~AdvanceToCome /\ idx < N /\ ~missed
        PROVE  shown = idx
    <3>1. ~LeadsTo(wire, idx)
      BY <2>2 DEF LeadsTo
    <3>2. Settled(idx)
      BY <2>2, <3>1 DEF PageInv, Led, InTouch
    <3> QED  BY <2>2, <3>2 DEF Settled
  <2> QED  BY <2>1, <2>2 DEF PageFollowsRow
<1> QED  BY <1>1, PageInductive, PTL
=============================================================================
