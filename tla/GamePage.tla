------------------------------ MODULE GamePage ------------------------------
(***************************************************************************)
(* The game page of one player against the server: what the page shows     *)
(* while websocket messages, answers to its own requests, reconnections    *)
(* and the steps of the game interleave.                                   *)
(*                                                                         *)
(* The page loads the game and its first problem, connects when the game   *)
(* is active, is sent its state, and from then on follows messages.  The   *)
(* answers of getProblem are applied as they come, in any order.           *)
(*                                                                         *)
(* handleGameWS checks the game, upgrades the connection, joins the room,  *)
(* sends the state and only then reads submissions; the game goes on       *)
(* between any two of these, and no message waits for a page that is not   *)
(* in the room yet.  A room that another connection's Leave has deleted    *)
(* between the two sections of Join is found by nobody, and a full buffer  *)
(* swallows a message.  A broken connection is replaced; the server may    *)
(* notice the break later, and until then holds dead connections of the    *)
(* user, of which SendToUser may pick one.                                 *)
(*                                                                         *)
(* Problems are known by their index in the game, 0 to N - 1.              *)
(***************************************************************************)
EXTENDS Naturals, Sequences

CONSTANTS
    Nothing,    \* null
    N,          \* problems of the game
    MaxDrops,   \* bound on broken connections
    MaxFaults   \* bound on failed requests and statements and full buffers

ASSUME NothingAssumption == Nothing \notin {"active", "cancelled", "finished"}
ASSUME NAssumption == N \in Nat \ {0}
ASSUME MaxDropsAssumption == MaxDrops \in Nat
ASSUME MaxFaultsAssumption == MaxFaults \in Nat

VARIABLES
    \* the server
    solo,       \* games.is_solo
    status,     \* "won" is finished with a broadcast, "ended" without
    idx,        \* the player's row: current_problem_index
    other,      \* the same of an opponent
    job,        \* the player's submission, from the page to its answer
    pending,    \* broadcasts that goroutines are about to make
    door,       \* how far handleGameWS is with the page's connection
    member,     \* ... which is in the room that the hub knows
    readIdx,    \* the index sendPlayerState has read
    ghosts,     \* broken connections the server has not noticed
    \* the page
    page,       \* loading, shown, error, away
    game,       \* game.status as the page knows it
    shown,      \* the problem on the page
    asked,      \* requests for a problem so far
    fetches,    \* those under way
    applied,    \* the latest request whose answer was applied
    submitting, timedOut,
    wire,       \* the messages on the connection
    drops, faults,
    \* what happened, for the properties
    cut,        \* the answer to the latest submission was lost
    missed,     \* the page was led to an older problem, or to none
    deaf        \* the end of the game was announced to others only

rows == <<solo, status, idx, other>>
opening == <<door, member, readIdx>>
server == <<rows, job, pending, opening, ghosts>>
view == <<page, game, shown, asked, fetches, applied, submitting, timedOut>>
net == <<wire, drops, faults>>
history == <<cut, missed, deaf>>
pageVars == <<server, view, net, history>>

Broadcasts ==
    [type : {"finished"}] \cup [type : {"advanced"}, own : BOOLEAN, p : 0..N]
PageMessages ==
    Broadcasts \cup [type : {"result", "error"}]
               \cup [type : {"state"}, p : 0..N]
Fetches == [n : Nat \ {0}, p : 0..N, first : BOOLEAN]

(* Every variable keeps its type.                                          *)
PageTypeOK ==
    /\ solo \in BOOLEAN /\ idx \in 0..N /\ other \in 0..N
    /\ status \in {"active", "won", "ended", "cancelled"}
    /\ job \in {"none", "sent", "judging", "failed", "advanced", "won"}
    /\ pending \subseteq Broadcasts
    /\ door \in {"closed", "checked", "open", "todo", "read", "done"}
    /\ member \in BOOLEAN /\ readIdx \in 0..N /\ ghosts \in Nat
    /\ page \in {"loading", "shown", "error", "away"}
    /\ game \in {Nothing, "active", "cancelled", "finished"}
    /\ shown \in {Nothing} \cup 0..N
    /\ asked \in Nat /\ applied \in 0..asked /\ fetches \subseteq Fetches
    /\ submitting \in BOOLEAN /\ timedOut \in BOOLEAN
    /\ wire \in Seq(PageMessages)
    /\ drops \in 0..MaxDrops /\ faults \in 0..MaxFaults
    /\ cut \in BOOLEAN /\ missed \in BOOLEAN /\ deaf \in BOOLEAN

(* The page is opened at any time during the game.                         *)
PageInit ==
    /\ solo \in BOOLEAN
    /\ status = "active" /\ idx \in 0..(N - 1) /\ other = 0
    /\ job = "none" /\ pending = {}
    /\ door = "closed" /\ member = FALSE /\ readIdx = 0 /\ ghosts = 0
    /\ page = "loading" /\ game = Nothing /\ shown = Nothing
    /\ asked = 0 /\ fetches = {} /\ applied = 0
    /\ submitting = FALSE /\ timedOut = FALSE
    /\ wire = <<>>
    /\ drops = 0 /\ faults = 0
    /\ cut = FALSE /\ missed = FALSE /\ deaf = FALSE

Fault == faults < MaxFaults /\ faults' = faults + 1

Finished == [type |-> "finished"]
Advanced(own, p) == [type |-> "advanced", own |-> own, p |-> p]

(* The row has moved, and the broadcast about that is still to be made.    *)
AdvanceToCome == job = "advanced" \/ Advanced(TRUE, idx) \in pending

(* The same of the end of the game.                                        *)
EndToCome == job = "won" \/ Finished \in pending

-----------------------------------------------------------------------------
(* Requests of the page                                                    *)

Ask(p, first) ==
    /\ asked' = asked + 1
    /\ fetches' = fetches \cup {[n |-> asked + 1, p |-> p, first |-> first]}

(* fetchGame: a finished game is shown elsewhere, any other is kept and    *)
(* its first problem asked for.  The answer may date from when the page    *)
(* was opened and the game active.                                         *)
FetchGame ==
    /\ page = "loading" /\ game = Nothing
    /\ \/ /\ status \in {"won", "ended"}
          /\ page' = "away"
          /\ UNCHANGED <<game, asked, fetches, faults, deaf>>
       \/ /\ game' \in {"active"} \cup ({status} \cap {"cancelled"})
          /\ Ask(0, TRUE)
          /\ deaf' = (deaf \/ (status = "won" /\ ~EndToCome))
          /\ UNCHANGED <<page, faults>>
       \/ /\ Fault
          /\ page' = "error"
          /\ UNCHANGED <<game, asked, fetches, deaf>>
    /\ UNCHANGED <<server, shown, applied, submitting, timedOut, wire, drops,
                  cut, missed>>

(* setProblem with the answer of a request, whatever was asked since.      *)
Answer(f) ==
    /\ page # "away"
    /\ fetches' = fetches \ {f}
    /\ shown' = f.p
    /\ applied' = IF f.n > applied THEN f.n ELSE applied
    /\ missed' = (missed \/ (f.n < applied /\ f.p # shown))
    /\ page' = IF f.first THEN "shown" ELSE page
    /\ UNCHANGED <<server, game, asked, submitting, timedOut, net, cut, deaf>>

(* A failed request leaves the problem; the first one leaves an error page.*)
AnswerFails(f) ==
    /\ page # "away"
    /\ Fault
    /\ fetches' = fetches \ {f}
    /\ page' = IF f.first THEN "error" ELSE page
    /\ missed' = TRUE
    /\ UNCHANGED <<server, game, shown, asked, applied, submitting, timedOut,
                  wire, drops, cut, deaf>>

-----------------------------------------------------------------------------
(* The connection                                                          *)

SocketOpen == door \in {"open", "todo", "read", "done"}

(* connect, at once and three seconds after each break: handleGameWS       *)
(* refuses unless the game is active, and the page then tries again.       *)
Connect ==
    /\ game = "active" /\ page # "away" /\ door = "closed"
    /\ status = "active"
    /\ door' = "checked"
    /\ UNCHANGED <<rows, job, pending, member, readIdx, ghosts, view, net,
                  history>>

(* The query for the participant or the handshake fails, ...               *)
ConnectFails ==
    /\ door = "checked"
    /\ door' = "closed"
    /\ UNCHANGED <<rows, job, pending, member, readIdx, ghosts, view, net,
                  history>>

(* ... or the page has a connection, which nobody knows of yet.            *)
Upgrade ==
    /\ door = "checked"
    /\ door' = "open"
    /\ UNCHANGED <<rows, job, pending, member, readIdx, ghosts, view, net,
                  history>>

(* Hub.Join: another connection that leaves between its two sections takes *)
(* the room from the map, and the page is in a room that nobody finds.     *)
Join ==
    /\ door = "open"
    /\ door' = "todo"
    /\ \/ member' = TRUE
       \/ (~solo \/ drops > 0) /\ member' = FALSE
    /\ UNCHANGED <<rows, job, pending, readIdx, ghosts, view, net, history>>

(* sendPlayerState reads the row, or fails and sends nothing ...           *)
ReadState ==
    /\ door = "todo"
    /\ \/ /\ door' = "read" /\ readIdx' = idx
          /\ UNCHANGED <<faults, missed>>
       \/ /\ door' = "done" /\ UNCHANGED readIdx
          /\ Fault /\ missed' = TRUE
    /\ UNCHANGED <<rows, job, pending, member, ghosts, view, wire, drops, cut,
                  deaf>>

(* ... and sends the problem at that index, if there is one, to its own    *)
(* connection.  The row may have moved in between, and the message about   *)
(* that be on the wire.  Or the problem is not found, the buffer is full.  *)
SendState ==
    /\ door = "read"
    /\ door' = "done"
    /\ \/ /\ wire' = IF readIdx = N THEN wire
                     ELSE Append(wire, [type |-> "state", p |-> readIdx])
          /\ missed' = (readIdx # idx /\ ~AdvanceToCome)
          /\ UNCHANGED faults
       \/ /\ Fault /\ missed' = TRUE
          /\ UNCHANGED wire
    /\ UNCHANGED <<rows, job, pending, member, readIdx, ghosts, view, drops,
                  cut, deaf>>

(* The connection is closed at the page; a submission on it may still      *)
(* reach the server.                                                       *)
CloseSocket ==
    /\ door' = "closed" /\ member' = FALSE /\ wire' = <<>>
    /\ job' \in IF job = "sent" THEN {"none", "judging"} ELSE {job}

OnWire(types) == \E i \in DOMAIN wire : wire[i].type \in types

(* The connection breaks; what is on the wire is lost, in both directions. *)
Drop ==
    /\ SocketOpen /\ drops < MaxDrops
    /\ drops' = drops + 1
    /\ ghosts' = ghosts + 1
    /\ CloseSocket
    /\ cut' = (\/ cut \/ OnWire({"result", "error", "finished"})
               \/ job = "sent" /\ job' = "none")
    /\ deaf' = (deaf \/ OnWire({"finished"}))
    /\ UNCHANGED <<rows, pending, readIdx, view, faults, missed>>

(* The server's read fails at last, and the connection leaves the hub.     *)
Notice ==
    /\ ghosts > 0
    /\ ghosts' = ghosts - 1
    /\ UNCHANGED <<rows, opening, job, pending, view, net, history>>

(* Hub.SendToUser: the page gets the message, unless it is not in the room,*)
(* a dead connection of the user is met first or the buffer is full.       *)
ToUser(m) ==
    \/ /\ member
       /\ wire' = Append(wire, m)
       /\ UNCHANGED <<faults, cut>>
    \/ /\ \/ (~member \/ ghosts > 0) /\ UNCHANGED faults
          \/ member /\ Fault
       /\ cut' = TRUE
       /\ UNCHANGED wire

(* Hub.Broadcast, by a goroutine of its own.                               *)
Announce(m) ==
    /\ pending' = pending \ {m}
    /\ UNCHANGED <<rows, job, opening, ghosts, view, drops, cut>>
    /\ \/ /\ member
          /\ wire' = Append(wire, m)
          /\ missed' = IF m.type = "advanced" /\ m.own
                       THEN m.p # idx /\ ~AdvanceToCome' ELSE missed
          /\ UNCHANGED <<faults, deaf>>
       \/ /\ \/ ~member /\ UNCHANGED faults
             \/ member /\ Fault
          /\ missed' = (missed \/ m = Advanced(TRUE, idx))
          /\ deaf' = (deaf \/ (m = Finished /\ game = "active"))
          /\ UNCHANGED wire

(* Mutant: everyone's advance loads a problem.                             *)
OnAdvancedOfAnyone(m) == Ask(m.p, FALSE)

(* player_advanced: only the player's own changes the problem.             *)
OnAdvanced(m) ==
    IF m.own THEN Ask(m.p, FALSE) ELSE UNCHANGED <<asked, fetches>>

(* player_state: the problem the server says the player is at.             *)
OnState(m) == Ask(m.p, FALSE)

(* Mutant: an error only shows its text.                                   *)
ResetsOnResults == {"result", "finished"}

(* The messages that bring the submit button back.                         *)
Resets == {"result", "error", "finished"}

(* onmessage.  The end of the game closes the connection.                  *)
Receive ==
    /\ SocketOpen /\ wire # <<>>
    /\ LET m == Head(wire) IN
        /\ IF m.type = "state" THEN OnState(m)
           ELSE IF m.type = "advanced" THEN OnAdvanced(m)
           ELSE UNCHANGED <<asked, fetches>>
        /\ submitting' = (submitting /\ m.type \notin Resets)
        /\ IF m.type = "finished"
           THEN game' = "finished" /\ CloseSocket
           ELSE /\ wire' = Tail(wire)
                /\ UNCHANGED <<game, door, member, job>>
    /\ UNCHANGED <<rows, pending, readIdx, ghosts, page, shown, applied,
                  timedOut, drops, faults, history>>

-----------------------------------------------------------------------------
(* The player submits                                                      *)

(* handleSubmit, and the button that is disabled while it makes no sense.  *)
Submit ==
    /\ page = "shown" /\ game = "active" /\ SocketOpen
    /\ ~submitting /\ ~timedOut
    /\ submitting' = TRUE
    /\ job = "none" /\ job' = "sent"
    /\ cut' = FALSE
    /\ UNCHANGED <<rows, pending, opening, ghosts, page, game, shown, asked,
                  fetches, applied, timedOut, net, missed, deaf>>

(* The read loop of handleGameWS, which sendPlayerState comes before.      *)
ReadSubmission ==
    /\ job = "sent" /\ door = "done"
    /\ job' = "judging"
    /\ UNCHANGED <<rows, pending, opening, ghosts, view, net, history>>

(* processSubmit: an error - refused, timed out, or a statement failed ... *)
SendError ==
    /\ job \in {"judging", "failed"}
    /\ job' = "none"
    /\ ToUser([type |-> "error"])
    /\ UNCHANGED <<rows, pending, opening, ghosts, view, drops, missed, deaf>>

(* ... judged and rejected, ...                                            *)
JudgeRejects ==
    /\ job = "judging" /\ idx < N
    /\ job' = "none"
    /\ ToUser([type |-> "result"])
    /\ UNCHANGED <<rows, pending, opening, ghosts, view, drops, missed, deaf>>

(* ... or accepted, which moves the row even when the game is over.        *)
JudgeAccepts ==
    /\ job = "judging" /\ idx < N
    /\ job' = "advanced"
    /\ idx' = idx + 1
    /\ UNCHANGED <<solo, status, other, pending, opening, ghosts, view, net,
                  history>>

(* More problems are left: the result, and then the advance for everyone.  *)
AnnounceAdvance ==
    /\ job = "advanced" /\ idx < N
    /\ job' = "none"
    /\ ToUser([type |-> "result"])
    /\ pending' = pending \cup {Advanced(TRUE, idx)}
    /\ UNCHANGED <<rows, opening, ghosts, view, drops, missed, deaf>>

(* The last problem: the game is won, ...                                  *)
WinGame ==
    /\ job = "advanced" /\ idx = N
    /\ status = "active"
    /\ status' = "won"
    /\ job' = "won"
    /\ UNCHANGED <<solo, idx, other, pending, opening, ghosts, view, net,
                  history>>

(* ... the player has the result, and everyone is to hear of the end, ...  *)
AnnounceWin ==
    /\ job = "won"
    /\ job' = "none"
    /\ ToUser([type |-> "result"])
    /\ pending' = pending \cup {Finished}
    /\ UNCHANGED <<rows, opening, ghosts, view, drops, missed, deaf>>

(* ... or it was over already: AlreadyAdvanced, and nobody is told.        *)
TooLate ==
    /\ job = "advanced" /\ idx = N
    /\ status # "active"
    /\ job' = "none"
    /\ UNCHANGED <<rows, pending, opening, ghosts, view, net, history>>

(* A statement after the advance fails, or the context ended with the      *)
(* connection: the row has moved, the player hears of an error.  The game  *)
(* may have been completed when the answer to that commit was lost.        *)
AdvanceFails ==
    /\ job = "advanced"
    /\ Fault \/ ((drops > 0 \/ door = "closed") /\ UNCHANGED faults)
    /\ job' = "failed"
    /\ missed' = TRUE
    /\ \/ UNCHANGED status
       \/ idx = N /\ status = "active" /\ status' = "ended"
    /\ UNCHANGED <<solo, idx, other, pending, opening, ghosts, view, wire,
                  drops, cut, deaf>>

SubmissionStep ==
    \/ SendError \/ JudgeRejects \/ JudgeAccepts
    \/ AnnounceAdvance \/ WinGame \/ AnnounceWin \/ TooLate \/ AdvanceFails

-----------------------------------------------------------------------------
(* The rest of the game                                                    *)

OtherAdvances ==
    /\ ~solo /\ status = "active" /\ other + 1 < N
    /\ other' = other + 1
    /\ pending' = pending \cup {Advanced(FALSE, other')}
    /\ UNCHANGED <<solo, status, idx, job, opening, ghosts, view, net, history>>

OtherWins ==
    /\ ~solo /\ status = "active"
    /\ status' = "won"
    /\ pending' = pending \cup {Finished}
    /\ UNCHANGED <<solo, idx, other, job, opening, ghosts, view, net, history>>

(* CompleteGame, CancelGame: nothing is broadcast.                         *)
EndQuietly ==
    /\ status = "active"
    /\ status' \in {"ended", "cancelled"}
    /\ UNCHANGED <<solo, idx, other, job, pending, opening, ghosts, view, net,
                  history>>

(* The page's own clock: it asks for the timeout, whatever the answer, ... *)
TimerFires ==
    /\ solo /\ game = "active" /\ page # "away" /\ ~timedOut
    /\ timedOut' = TRUE
    /\ \/ UNCHANGED status
       \/ status = "active" /\ status' = "ended"
    /\ UNCHANGED <<solo, idx, other, job, pending, opening, ghosts, page, game,
                  shown, asked, fetches, applied, submitting, net, history>>

(* ... and goes to the results two seconds later.                          *)
NavigateAway ==
    /\ timedOut /\ page # "away"
    /\ page' = "away"
    /\ CloseSocket
    /\ UNCHANGED <<rows, pending, readIdx, ghosts, game, shown, asked, fetches,
                  applied, submitting, timedOut, drops, faults, history>>

(* What the handler of the connection does without being asked.            *)
HandlerStep == Join \/ ReadState \/ SendState \/ ReadSubmission

BroadcastStep == \E m \in pending : Announce(m)

PageNext ==
    \/ FetchGame
    \/ \E f \in fetches : Answer(f) \/ AnswerFails(f)
    \/ Connect \/ ConnectFails \/ Upgrade \/ HandlerStep \/ Drop \/ Notice
    \/ BroadcastStep \/ Receive
    \/ Submit \/ SubmissionStep
    \/ OtherAdvances \/ OtherWins \/ EndQuietly
    \/ TimerFires \/ NavigateAway

(* A browser delivers what arrives on an open connection, a request for    *)
(* the game is answered or fails, a submission ends at the latest with its *)
(* two-minute context, and goroutines that have what they need go on.      *)
(* Nothing is assumed of answers with problems, of reconnecting or of the  *)
(* server's noticing a break.                                              *)
PageFairness ==
    /\ WF_pageVars(FetchGame) /\ WF_pageVars(Receive)
    /\ WF_pageVars(HandlerStep) /\ WF_pageVars(SubmissionStep)
    /\ WF_pageVars(BroadcastStep)

PageSpec == PageInit /\ [][PageNext]_pageVars /\ PageFairness

-----------------------------------------------------------------------------
(* Properties                                                              *)

(* The page never shows a problem the player has not reached, whoever      *)
(* advances.  And once the connection is set up and nothing is under way,  *)
(* it shows the problem that the player's next submission is judged        *)
(* against, unless since the last player_state or player_advanced of its   *)
(* own it missed a step: sendPlayerState failed in silence, an answer of   *)
(* getProblem failed or was overtaken, a statement after the advance       *)
(* failed, the broadcast of an advance found no room or a full buffer or   *)
(* was overtaken by a later one, or player_state told of a row that had    *)
(* moved on before.  (Only these two messages choose the problem.)         *)
PageFollowsRow ==
    /\ shown = Nothing \/ shown <= idx
    /\ (/\ page = "shown" /\ door = "done" /\ wire = <<>> /\ fetches = {}
        /\ ~AdvanceToCome /\ idx < N /\ ~missed)
       => shown = idx

(* The submit button comes back after every submission, unless the answer  *)
(* was lost - with a broken connection, to a dead one, in a room that      *)
(* nobody finds or to a full buffer - or the player's last problem was     *)
(* accepted after the game had ended without a broadcast (AlreadyAdvanced  *)
(* answers nothing) or with one that passed the page by.  And the page     *)
(* learns that the game was won, unless the broadcast was made while it    *)
(* was not in the room - not connected, not joined yet, in a deleted room -*)
(* or was lost in a full buffer or with the connection.                    *)
PageHearsBack ==
    /\ submitting ~> \/ ~submitting \/ cut \/ page = "away"
                     \/ idx = N /\ (status \in {"ended", "cancelled"} \/ deaf)
    /\ status = "won" ~> game = "finished" \/ deaf \/ page \in {"away", "error"}

=============================================================================
