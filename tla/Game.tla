-------------------------------- MODULE Game --------------------------------
(***************************************************************************)
(* One game of Byte-Battle: its rows in the database and the submissions   *)
(* that race on them.                                                      *)
(*                                                                         *)
(* Every operation of GameService that opens a transaction first locks the *)
(* game's row (SELECT ... FOR UPDATE), so it is one action.  What is NOT   *)
(* covered by that lock is kept as separate steps: TimeoutGame (an         *)
(* unlocked check, then an unconditional UPDATE) and the whole submission  *)
(* pipeline (status, index, judging, solution, advance, count, complete,   *)
(* messages), each step of which other requests may precede.               *)
(*                                                                         *)
(* CompleteGame and DeleteGame also read the row without the lock, but     *)
(* only to look at creator_id, which no statement ever changes, so their   *)
(* check and their write are one action.                                   *)
(*                                                                         *)
(* The submit slot of a user (ExecutionService.TryAcquireSlot) is a mutex  *)
(* here; module ExecutionSlots models how it is built.                     *)
(***************************************************************************)
EXTENDS Naturals, Sequences, FiniteSets

CONSTANTS
    Users,            \* the users who may create, join and play
    Submissions,      \* identifiers of processSubmit goroutines
    TimeoutRequests,  \* identifiers of concurrent POST /games/{id}/timeout
    Slugs,            \* the problems a game may be made of
    MaxGameProblems,  \* maxGameProblems of game_service.go (20)
    MaxFaults,        \* bound on disconnects, expiries, lost answers, crashes
    NoUser, NoSub

ASSUME NoUserAssumption == NoUser \notin Users
ASSUME NoSubAssumption == NoSub \notin Submissions
ASSUME MaxProblemsAssumption == MaxGameProblems \in Nat \ {0}
ASSUME MaxFaultsAssumption == MaxFaults \in Nat

VARIABLES
    status,     \* games.status; "none" before the row exists, "deleted" after
    creator,    \* games.creator_id
    solo,       \* games.is_solo
    winner,     \* games.winner_id
    problems,   \* game_problems in the order of problem_index
    parts,      \* game_participants
    idx,        \* game_participants.current_problem_index (0 without a row)
    solutions,  \* rows of solutions with this game_id: <<user, slug>>
    timingOut,  \* timeout requests between their check and their UPDATE
    conn,       \* users with an open game socket
    slot,       \* submit slot of each user: the goroutine that holds it
    sub,        \* the processSubmit goroutines
    finishedMsgs, \* winners named by the game_finished broadcasts, in order
    shown,      \* the progress that the last player_advanced broadcast showed
    solved,     \* history: problem indices that a user's code was accepted for
    late,       \* history: advances of a user while the game was not active
    faults      \* number of faults so far

row  == <<status, creator, solo, winner, problems, parts>>
vars == <<status, creator, solo, winner, problems, parts, idx, solutions,
          timingOut, conn, slot, sub, finishedMsgs, shown, solved, late,
          faults>>

Statuses == {"none", "pending", "active", "finished", "cancelled", "deleted"}

(* Where a processSubmit goroutine is.  The names in Holding are the steps *)
(* of SubmissionService.Submit, which holds the user's slot; the others    *)
(* are the messages sent after Submit has returned and released the slot.  *)
Holding == {"admitted", "reading", "judging", "saving", "advancing",
            "counting", "completing", "rereading"}
Replying == {"answering", "won", "advanced", "showing"}
PCs == {"idle"} \cup Holding \cup Replying

NoProgress == [u \in Users |-> 0]

IdleSub == [pc |-> "idle", user |-> NoUser, live |-> TRUE, at |-> 0,
            winner |-> NoUser, snap |-> NoProgress]

Total == Len(problems)

(* A full program: what a user has solved when every problem is solved.    *)
AllProblems == 0..(Total - 1)

ProblemLists == UNION {[1..n -> Slugs] : n \in 1..MaxGameProblems}

Init ==
    /\ status = "none"
    /\ creator = NoUser
    /\ solo = FALSE
    /\ winner = NoUser
    /\ problems = <<>>
    /\ parts = {}
    /\ idx = NoProgress
    /\ solutions = {}
    /\ timingOut = {}
    /\ conn = {}
    /\ slot = [u \in Users |-> NoSub]
    /\ sub = [s \in Submissions |-> IdleSub]
    /\ finishedMsgs = <<>>
    /\ shown = NoProgress
    /\ solved = [u \in Users |-> {}]
    /\ late = NoProgress
    /\ faults = 0

-----------------------------------------------------------------------------
(* The lifecycle of the game's row.                                        *)

(* CreateGame: the row, its problems and the creator's participation are   *)
(* inserted in one transaction.                                            *)
CreateGame(u, ps, isSolo) ==
    /\ status = "none"
    /\ status' = "pending"
    /\ creator' = u
    /\ solo' = isSolo
    /\ problems' = ps
    /\ parts' = {u}
    /\ UNCHANGED <<winner, idx, solutions, timingOut, conn, slot, sub,
                   finishedMsgs, shown, solved, late, faults>>

(* JoinGame, reached through an invite token.  The token lookup before the *)
(* transaction yields the game's id, which never changes; the transaction  *)
(* checks the rest again.                                                  *)
JoinGame(u) ==
    /\ status = "pending"
    /\ u \notin parts
    /\ parts' = parts \cup {u}
    /\ UNCHANGED <<status, creator, solo, winner, problems, idx, solutions,
                   timingOut, conn, slot, sub, finishedMsgs, shown, solved,
                   late, faults>>

LeaveGame(u) ==
    /\ status = "pending"
    /\ u # creator
    /\ u \in parts
    /\ parts' = parts \ {u}
    /\ UNCHANGED <<status, creator, solo, winner, problems, idx, solutions,
                   timingOut, conn, slot, sub, finishedMsgs, shown, solved,
                   late, faults>>

MinPlayers == IF solo THEN 1 ELSE 2

StartGame(u) ==
    /\ status = "pending"
    /\ u = creator
    /\ Cardinality(parts) >= MinPlayers
    /\ status' = "active"
    /\ UNCHANGED <<creator, solo, winner, problems, parts, idx, solutions,
                   timingOut, conn, slot, sub, finishedMsgs, shown, solved,
                   late, faults>>

(* CompleteGame: the creator names a winner among the participants.        *)
CompleteGame(u, w) ==
    /\ u = creator
    /\ status = "active"
    /\ w \in parts
    /\ status' = "finished"
    /\ winner' = w
    /\ UNCHANGED <<creator, solo, problems, parts, idx, solutions,
                   timingOut, conn, slot, sub, finishedMsgs, shown, solved,
                   late, faults>>

(* Mutant: a finished game may be cancelled.                               *)
CancelFinished(u) ==
    /\ u = creator
    /\ status \in {"pending", "active", "finished"}
    /\ status' = "cancelled"
    /\ UNCHANGED <<creator, solo, winner, problems, parts, idx, solutions,
                   timingOut, conn, slot, sub, finishedMsgs, shown, solved,
                   late, faults>>

CancelGame(u) ==
    /\ u = creator
    /\ status \in {"pending", "active"}
    /\ status' = "cancelled"
    /\ UNCHANGED <<creator, solo, winner, problems, parts, idx, solutions,
                   timingOut, conn, slot, sub, finishedMsgs, shown, solved,
                   late, faults>>

(* DeleteGame: the participants and problems go with the row (ON DELETE    *)
(* CASCADE), the solutions stay but lose their game_id (ON DELETE SET      *)
(* NULL).                                                                  *)
DeleteGame(u) ==
    /\ u = creator
    /\ status \notin {"none", "deleted"}
    /\ status' = "deleted"
    /\ problems' = <<>>
    /\ parts' = {}
    /\ winner' = NoUser
    /\ idx' = NoProgress
    /\ solutions' = {}
    /\ UNCHANGED <<creator, solo, timingOut, conn, slot, sub, finishedMsgs,
                   shown, solved, late, faults>>

(* TimeoutGame, first half: the checks, on a row read without the lock.    *)
TimeoutCheck(r, u) ==
    /\ r \notin timingOut
    /\ solo
    /\ u = creator
    /\ status = "active"
    /\ timingOut' = timingOut \cup {r}
    /\ UNCHANGED <<status, creator, solo, winner, problems, parts, idx,
                   solutions, conn, slot, sub, finishedMsgs, shown, solved,
                   late, faults>>

(* Mutant: the UPDATE also clears winner_id.                               *)
TimeoutClearsWinner(r) ==
    /\ r \in timingOut
    /\ timingOut' = timingOut \ {r}
    /\ status' = IF status = "deleted" THEN status ELSE "finished"
    /\ winner' = NoUser
    /\ UNCHANGED <<creator, solo, problems, parts, idx, solutions, conn, slot,
                   sub, finishedMsgs, shown, solved, late, faults>>

(* TimeoutGame, second half: UPDATE games SET status = 'finished' WHERE    *)
(* id = $1, whatever the status has become; no row, no effect.             *)
TimeoutWrite(r) ==
    /\ r \in timingOut
    /\ timingOut' = timingOut \ {r}
    /\ status' = IF status = "deleted" THEN status ELSE "finished"
    /\ UNCHANGED <<creator, solo, winner, problems, parts, idx, solutions,
                   conn, slot, sub, finishedMsgs, shown, solved, late,
                   faults>>

-----------------------------------------------------------------------------
(* The game socket and the submissions that arrive on it.                  *)

(* handleGameWS admits a participant of an active game.                    *)
Connect(u) ==
    /\ u \notin conn
    /\ status = "active"
    /\ u \in parts
    /\ conn' = conn \cup {u}
    /\ UNCHANGED <<row, idx, solutions, timingOut, slot, sub, finishedMsgs,
                   shown, solved, late, faults>>

(* Submit has returned: its deferred ReleaseSlot has run.                  *)
Return(s, rec) ==
    /\ slot' = [slot EXCEPT ![sub[s].user] = NoSub]
    /\ sub' = [sub EXCEPT ![s] = rec]

(* Mutant: an error path that forgets the slot.                            *)
RefuseKeepingSlot(s) ==
    /\ sub' = [sub EXCEPT ![s].pc = "answering"]
    /\ UNCHANGED slot

(* Submit returned an error or a rejection: one message to this user.      *)
Refuse(s) == Return(s, [sub[s] EXCEPT !.pc = "answering"])

(* Mutant: no slot is needed.                                              *)
SubmitWithoutSlot(s, u) ==
    /\ u \in conn
    /\ sub[s].pc = "idle"
    /\ slot' = [slot EXCEPT ![u] = s]
    /\ sub' = [sub EXCEPT ![s] = [IdleSub EXCEPT !.pc = "admitted",
                                                 !.user = u]]
    /\ UNCHANGED <<row, idx, solutions, timingOut, conn, finishedMsgs, shown,
                   solved, late, faults>>

(* TryAcquireSlot; without the slot the user is told that an execution is  *)
(* in progress.                                                            *)
Submit(s, u) ==
    /\ u \in conn
    /\ sub[s].pc = "idle"
    /\ IF slot[u] = NoSub
         THEN /\ slot' = [slot EXCEPT ![u] = s]
              /\ sub' = [sub EXCEPT ![s] = [IdleSub EXCEPT !.pc = "admitted",
                                                           !.user = u]]
         ELSE /\ sub' = [sub EXCEPT ![s] = [IdleSub EXCEPT !.pc = "answering",
                                                           !.user = u]]
              /\ UNCHANGED slot
    /\ UNCHANGED <<row, idx, solutions, timingOut, conn, finishedMsgs, shown,
                   solved, late, faults>>

(* Mutant: the status is not looked at.                                    *)
ReadAnyStatus(s) ==
    /\ sub[s].pc = "admitted"
    /\ \/ /\ sub[s].live
          /\ sub' = [sub EXCEPT ![s].pc = "reading"]
          /\ UNCHANGED slot
       \/ Refuse(s)
    /\ UNCHANGED <<row, idx, solutions, timingOut, conn, finishedMsgs, shown,
                   solved, late, faults>>

(* CheckRateLimit, then the status read of getCurrentProblemForSubmission. *)
(* The limiter may refuse at any time; the outcome is then an error.       *)
ReadStatus(s) ==
    /\ sub[s].pc = "admitted"
    /\ \/ /\ status = "active"
          /\ sub[s].live
          /\ sub' = [sub EXCEPT ![s].pc = "reading"]
          /\ UNCHANGED slot
       \/ Refuse(s)
    /\ UNCHANGED <<row, idx, solutions, timingOut, conn, finishedMsgs, shown,
                   solved, late, faults>>

(* The participant's index, then the problem at that index.                *)
ReadProblem(s) ==
    /\ sub[s].pc = "reading"
    /\ IF /\ sub[s].live
          /\ sub[s].user \in parts
          /\ idx[sub[s].user] < Total
         THEN /\ sub' = [sub EXCEPT ![s] = [sub[s] EXCEPT !.pc = "judging",
                                              !.at = idx[sub[s].user]]]
              /\ UNCHANGED slot
         ELSE Refuse(s)
    /\ UNCHANGED <<row, idx, solutions, timingOut, conn, finishedMsgs, shown,
                   solved, late, faults>>

(* Mutant: a failed test does not reject.                                  *)
JudgeLeniently(s) ==
    /\ sub[s].pc = "judging"
    /\ sub' = [sub EXCEPT ![s].pc = "saving"]
    /\ UNCHANGED <<row, idx, solutions, timingOut, conn, slot, finishedMsgs,
                   shown, solved, late, faults>>

(* executeAgainstProblem: every test case passes, or the first that does   *)
(* not (a dead context counts as a failed test) rejects the submission.    *)
Judge(s) ==
    /\ sub[s].pc = "judging"
    /\ \/ /\ sub[s].live
          /\ sub' = [sub EXCEPT ![s].pc = "saving"]
          /\ solved' = [solved EXCEPT ![sub[s].user] = @ \cup {sub[s].at}]
          /\ UNCHANGED slot
       \/ Refuse(s) /\ UNCHANGED solved
    /\ UNCHANGED <<row, idx, solutions, timingOut, conn, finishedMsgs, shown,
                   late, faults>>

(* InsertSolution: ON CONFLICT DO NOTHING; an error (a dead context, a     *)
(* deleted game) is logged and the submission goes on.                     *)
SaveSolution(s) ==
    /\ sub[s].pc = "saving"
    /\ \/ /\ sub[s].live
          /\ sub[s].at < Total
          /\ solutions' = solutions \cup
                            {<<sub[s].user, problems[sub[s].at + 1]>>}
       \/ UNCHANGED solutions
    /\ sub' = [sub EXCEPT ![s].pc = "advancing"]
    /\ UNCHANGED <<row, idx, timingOut, conn, slot, finishedMsgs, shown,
                   solved, late, faults>>

(* UPDATE game_participants SET current_problem_index = ... + 1, committed *)
(* on its own and whatever the status of the game is.                      *)
Bump(u) ==
    /\ u \in parts
    /\ idx' = [idx EXCEPT ![u] = @ + 1]
    /\ late' = IF status = "active" THEN late ELSE [late EXCEPT ![u] = @ + 1]

(* HandleAcceptedSubmission, first statement.                              *)
Advance(s) ==
    /\ sub[s].pc = "advancing"
    /\ \/ /\ sub[s].live
          /\ Bump(sub[s].user)
          /\ sub' = [sub EXCEPT ![s] = [sub[s] EXCEPT !.pc = "counting",
                                              !.at = idx[sub[s].user] + 1]]
          /\ UNCHANGED slot
       \/ /\ ~sub[s].live \/ sub[s].user \notin parts
          /\ Refuse(s)
          /\ UNCHANGED <<idx, late>>
    /\ UNCHANGED <<row, solutions, timingOut, conn, finishedMsgs, shown,
                   solved, faults>>

(* Mutant: an index equal to the number of problems is not the end.        *)
CountOneOver(s) ==
    /\ sub[s].pc = "counting"
    /\ sub' = [sub EXCEPT ![s].pc = IF sub[s].at <= Total
                                      THEN "rereading"
                                      ELSE "completing"]
    /\ UNCHANGED <<row, idx, solutions, timingOut, conn, slot, finishedMsgs,
                   shown, solved, late, faults>>

(* CountGameProblems and, when problems remain, GetGameByID.               *)
Count(s) ==
    /\ sub[s].pc = "counting"
    /\ \/ /\ sub[s].live
          /\ Total > 0
          /\ sub' = [sub EXCEPT ![s].pc = IF sub[s].at < Total
                                            THEN "rereading"
                                            ELSE "completing"]
          /\ UNCHANGED slot
       \/ /\ ~sub[s].live \/ Total = 0
          /\ Refuse(s)
    /\ UNCHANGED <<row, idx, solutions, timingOut, conn, finishedMsgs, shown,
                   solved, late, faults>>

(* The winner that HandleAcceptedSubmission stores.                        *)
WinnerFor(u) == IF solo THEN creator ELSE u

(* Mutant: the status is not checked again under the lock.                 *)
CompleteUnchecked(s) ==
    /\ sub[s].pc = "completing"
    /\ sub[s].live
    /\ status # "deleted"
    /\ status' = "finished"
    /\ winner' = WinnerFor(sub[s].user)
    /\ Return(s, [sub[s] EXCEPT !.pc = "won", !.winner = winner'])
    /\ UNCHANGED <<creator, solo, problems, parts, idx, solutions, timingOut,
                   conn, finishedMsgs, shown, solved, late, faults>>

(* The locked transaction of HandleAcceptedSubmission.  If the game is no  *)
(* longer active Submit reports AlreadyAdvanced and nothing is sent.       *)
Complete(s) ==
    /\ sub[s].pc = "completing"
    /\ \/ /\ sub[s].live
          /\ status = "active"
          /\ status' = "finished"
          /\ winner' = WinnerFor(sub[s].user)
          /\ Return(s, [sub[s] EXCEPT !.pc = "won", !.winner = winner'])
       \/ /\ sub[s].live
          /\ status \in {"finished", "cancelled"}
          /\ Return(s, IdleSub)
          /\ UNCHANGED <<status, winner>>
       \/ /\ ~sub[s].live \/ status = "deleted"
          /\ Refuse(s)
          /\ UNCHANGED <<status, winner>>
    /\ UNCHANGED <<creator, solo, problems, parts, idx, solutions, timingOut,
                   conn, finishedMsgs, shown, solved, late, faults>>

(* completeAcceptedSubmission reads the index again to name the next       *)
(* problem.                                                                *)
Reread(s) ==
    /\ sub[s].pc = "rereading"
    /\ IF /\ sub[s].live
          /\ sub[s].user \in parts
          /\ idx[sub[s].user] < Total
         THEN Return(s, [sub[s] EXCEPT !.pc = "advanced",
                                       !.at = idx[sub[s].user]])
         ELSE Refuse(s)
    /\ UNCHANGED <<row, idx, solutions, timingOut, conn, finishedMsgs, shown,
                   solved, late, faults>>

-----------------------------------------------------------------------------
(* processSubmit after Submit has returned: the slot is free again, so     *)
(* these steps race with the user's next submission.                       *)

(* The result or the error goes to the user; nothing is broadcast.         *)
Answer(s) ==
    /\ sub[s].pc = "answering"
    /\ sub' = [sub EXCEPT ![s] = IdleSub]
    /\ UNCHANGED <<row, idx, solutions, timingOut, conn, slot, finishedMsgs,
                   shown, solved, late, faults>>

(* The result goes to the user, then game_finished to the room.            *)
AnnounceWinner(s) ==
    /\ sub[s].pc = "won"
    /\ finishedMsgs' = Append(finishedMsgs, sub[s].winner)
    /\ sub' = [sub EXCEPT ![s] = IdleSub]
    /\ UNCHANGED <<row, idx, solutions, timingOut, conn, slot, shown, solved,
                   late, faults>>

(* The progress of all participants is read (none with a dead context) ... *)
ReadProgress(s) ==
    /\ sub[s].pc = "advanced"
    /\ sub' = [sub EXCEPT ![s] = [sub[s] EXCEPT
                             !.pc = "showing",
                             !.snap = IF sub[s].live THEN idx ELSE NoProgress]]
    /\ UNCHANGED <<row, idx, solutions, timingOut, conn, slot, finishedMsgs,
                   shown, solved, late, faults>>

(* ... and broadcast; it replaces what the clients show.                   *)
ShowProgress(s) ==
    /\ sub[s].pc = "showing"
    /\ shown' = sub[s].snap
    /\ sub' = [sub EXCEPT ![s] = IdleSub]
    /\ UNCHANGED <<row, idx, solutions, timingOut, conn, slot, finishedMsgs,
                   solved, late, faults>>

-----------------------------------------------------------------------------
(* What may go wrong around a submission.                                  *)

Fault == faults < MaxFaults /\ faults' = faults + 1

(* The socket closes: handleGameWS returns and cancels connCtx, the parent *)
(* of the context of every submission that arrived on it.                  *)
Disconnect(u) ==
    /\ Fault
    /\ u \in conn
    /\ conn' = conn \ {u}
    /\ sub' = [s \in Submissions |-> IF sub[s].user = u
                                       THEN [sub[s] EXCEPT !.live = FALSE]
                                       ELSE sub[s]]
    /\ UNCHANGED <<row, idx, solutions, timingOut, slot, finishedMsgs, shown,
                   solved, late>>

(* The two-minute deadline of processSubmit passes (or the database stops  *)
(* answering this goroutine).                                              *)
Expire(s) ==
    /\ Fault
    /\ sub[s].pc \in Holding \cup {"advanced"}
    /\ sub' = [sub EXCEPT ![s].live = FALSE]
    /\ UNCHANGED <<row, idx, solutions, timingOut, conn, slot, finishedMsgs,
                   shown, solved, late>>

(* The context dies after the server has applied the statement and before  *)
(* its answer arrives: the effect stays, Submit returns an error.          *)
AdvanceUnanswered(s) ==
    /\ Fault
    /\ sub[s].pc = "advancing"
    /\ sub[s].live
    /\ Bump(sub[s].user)
    /\ Refuse(s)
    /\ UNCHANGED <<row, solutions, timingOut, conn, finishedMsgs, shown,
                   solved>>

(* The same for the commit of the completing transaction.                  *)
CompleteUnanswered(s) ==
    /\ Fault
    /\ sub[s].pc = "completing"
    /\ sub[s].live
    /\ status = "active"
    /\ status' = "finished"
    /\ winner' = WinnerFor(sub[s].user)
    /\ Refuse(s)
    /\ UNCHANGED <<creator, solo, problems, parts, idx, solutions, timingOut,
                   conn, finishedMsgs, shown, solved, late>>

(* The server process dies and is started again: sockets, goroutines and   *)
(* slots are gone, the database is what it was.                            *)
Crash ==
    /\ Fault
    /\ timingOut' = {}
    /\ conn' = {}
    /\ slot' = [u \in Users |-> NoSub]
    /\ sub' = [s \in Submissions |-> IdleSub]
    /\ UNCHANGED <<row, idx, solutions, finishedMsgs, shown, solved, late>>

-----------------------------------------------------------------------------
(* The steps of one processSubmit goroutine.                               *)
Step(s) ==
    \/ ReadStatus(s) \/ ReadProblem(s) \/ Judge(s) \/ SaveSolution(s)
    \/ Advance(s) \/ Count(s) \/ Complete(s) \/ Reread(s)
    \/ Answer(s) \/ AnnounceWinner(s) \/ ReadProgress(s) \/ ShowProgress(s)

Next ==
    \/ \E u \in Users, ps \in ProblemLists, b \in BOOLEAN : CreateGame(u, ps, b)
    \/ \E u \in Users : \/ JoinGame(u) \/ LeaveGame(u) \/ StartGame(u)
                        \/ CancelGame(u) \/ DeleteGame(u) \/ Connect(u)
                        \/ Disconnect(u)
    \/ \E u, w \in Users : CompleteGame(u, w)
    \/ \E r \in TimeoutRequests, u \in Users : TimeoutCheck(r, u)
    \/ \E r \in TimeoutRequests : TimeoutWrite(r)
    \/ \E s \in Submissions, u \in Users : Submit(s, u)
    \/ \E s \in Submissions : \/ Step(s) \/ Expire(s)
                              \/ AdvanceUnanswered(s) \/ CompleteUnanswered(s)
    \/ Crash

(* A goroutine keeps running: its database calls and executions are        *)
(* bounded by its context, so each of its steps is eventually taken.       *)
Spec == Init /\ [][Next]_vars /\ \A s \in Submissions : WF_vars(Step(s))

-----------------------------------------------------------------------------
(* Types.                                                                  *)

SubType == [pc : PCs, user : Users \cup {NoUser}, live : BOOLEAN, at : Nat,
            winner : Users \cup {NoUser}, snap : [Users -> Nat]]

(* Every variable holds a value its column, channel or local can hold.     *)
TypeOK ==
    /\ status \in Statuses
    /\ creator \in Users \cup {NoUser}
    /\ solo \in BOOLEAN
    /\ winner \in Users \cup {NoUser}
    /\ problems \in Seq(Slugs)
    /\ parts \subseteq Users
    /\ idx \in [Users -> Nat]
    /\ solutions \subseteq (Users \cup {NoUser}) \X Slugs
    /\ timingOut \subseteq TimeoutRequests
    /\ conn \subseteq Users
    /\ slot \in [Users -> Submissions \cup {NoSub}]
    /\ sub \in [Submissions -> SubType]
    /\ finishedMsgs \in Seq(Users \cup {NoUser})
    /\ shown \in [Users -> Nat]
    /\ solved \in [Users -> SUBSET Nat]
    /\ late \in [Users -> Nat]
    /\ faults \in Nat

-----------------------------------------------------------------------------
(* Safety.                                                                 *)

(* A participant's index counts problems whose tests the participant's     *)
(* code passed: AdvanceParticipantProblem increments blindly, yet no       *)
(* problem is skipped and the index never runs past the last problem.      *)
ProgressEarned ==
    \A u \in parts : /\ idx[u] <= Total
                     /\ \A i \in 0..(idx[u] - 1) : i \in solved[u]

(* Only a finished game has a winner, and the winner is on its roster,     *)
(* although HandleAcceptedSubmission stores one without asking             *)
(* IsGameParticipant.                                                      *)
WinnerIsPlayer ==
    winner # NoUser => status = "finished" /\ winner \in parts

(* However many submissions finish at once, the room hears game_finished   *)
(* at most once, and it names the winner that the row holds.               *)
OneAnnouncement ==
    /\ Len(finishedMsgs) <= 1
    /\ status # "deleted" =>
         \A k \in 1..Len(finishedMsgs) : finishedMsgs[k] = winner

(* A game_finished broadcast means that some participant passed every      *)
(* problem of the game: the winner, unless the game is solo, where         *)
(* HandleAcceptedSubmission names the creator.                             *)
AnnouncedWinEarned ==
    (finishedMsgs # <<>> /\ status # "deleted") =>
        \E u \in parts : /\ AllProblems \subseteq solved[u]
                         /\ ~solo => u = winner

(* Advancing is not tied to the status, so a submission judged before the  *)
(* end may still advance after it: once per user, never more, because the  *)
(* slot admits one submission and the next one reads the status first.     *)
LateAdvanceAtMostOnce == \A u \in Users : late[u] <= 1

(* Progress is read and broadcast after the slot was released, so it may   *)
(* be old; it never shows a problem that the row does not count.           *)
ShownNeverAhead ==
    status # "deleted" => \A u \in Users : shown[u] <= idx[u]

(* A row of solutions belongs to a participant whose code passed that very *)
(* problem, and it is there before the index counts it or not at all.      *)
SolutionsEarned ==
    \A x \in solutions : /\ x[1] \in parts
                         /\ \E i \in solved[x[1]] :
                               i < Total /\ problems[i + 1] = x[2]

(* A game_finished broadcast is the only one, names the winner in the row  *)
(* and was earned by passing every problem.                                *)
AnnouncementsTrue == OneAnnouncement /\ AnnouncedWinEarned

(* What players are shown and what is stored for them, the broadcast       *)
(* progress and the solutions, is never ahead of what they passed.         *)
RecordsEarned == SolutionsEarned /\ ShownNeverAhead

(* No later completion, timeout or cancellation replaces a winner.         *)
WinnerWriteOnce ==
    [][winner # NoUser => (winner' = winner \/ status' = "deleted")]_vars

(* Nobody joins or leaves once the game has started, whichever unlocked    *)
(* reads and late writes follow: the solver, its opponents and the solo    *)
(* timer argue about the same roster.                                      *)
RosterFrozen ==
    [][(status \in {"active", "finished"}) =>
         (parts' = parts \/ status' = "deleted")]_vars

(* What the rows show is what module GameLifecycle promises.               *)
Lifecycle ==
    INSTANCE GameLifecycle WITH status <- status, creator <- creator,
        solo <- solo, parts <- parts, winner <- winner
LifecycleSpec == Lifecycle!Spec

-----------------------------------------------------------------------------
(* The inductive invariant behind the properties above.                    *)

(* A submission inside Submit owns its user's slot, so no two of them      *)
(* belong to the same user.                                                *)
SlotOwned ==
    \A s \in Submissions :
        /\ sub[s].pc # "idle" => sub[s].user \in Users
        /\ sub[s].pc \in Holding => slot[sub[s].user] = s

(* Before the game starts nobody is connected and nothing has been solved. *)
NothingBeforeStart ==
    status \in {"none", "pending"} =>
        /\ idx = NoProgress
        /\ solved = [u \in Users |-> {}]
        /\ late = NoProgress
        /\ solutions = {}
        /\ timingOut = {}
        /\ conn = {}
        /\ shown = NoProgress
        /\ finishedMsgs = <<>>
        /\ \A s \in Submissions : sub[s].pc = "idle"

(* The rows exist together: creator, roster and problems.                  *)
RowsTogether ==
    /\ status \in {"none", "deleted"} =>
         parts = {} /\ problems = <<>> /\ winner = NoUser /\ solutions = {}
    /\ status \notin {"none", "deleted"} =>
         creator \in parts /\ problems # <<>>
    /\ status # "deleted" => conn \subseteq parts

(* Only requests on a started solo game are between check and UPDATE.      *)
TimeoutsAreSolo == timingOut # {} => solo

(* The index that a submission read is still the user's index when it      *)
(* advances, because only the owner of the slot moves it.                  *)
IndexIsCurrent ==
    \A s \in Submissions : status # "deleted" =>
        /\ sub[s].pc \in Holding \ {"admitted", "reading"} =>
             sub[s].user \in parts /\ sub[s].at = idx[sub[s].user]
        /\ sub[s].pc \in {"judging", "saving", "advancing"} =>
             sub[s].at < Total
        /\ sub[s].pc = "completing" => sub[s].at >= Total

(* What is about to be saved and counted has been judged.                  *)
JudgedFirst ==
    \A s \in Submissions :
        sub[s].pc \in {"saving", "advancing"} =>
            sub[s].at \in solved[sub[s].user]

(* A won submission is the only one, nothing was announced before it, and  *)
(* the game is over.                                                       *)
OneWonSubmission ==
    /\ \A s \in Submissions : sub[s].pc = "won" =>
         /\ status \in {"finished", "deleted"}
         /\ finishedMsgs = <<>>
         /\ sub[s].winner \in Users
         /\ status # "deleted" => sub[s].winner = winner
         /\ \A t \in Submissions : sub[t].pc = "won" => t = s
    /\ finishedMsgs # <<>> => status \in {"finished", "deleted"}

(* The win behind a won submission or an announcement was earned.          *)
WinEarned ==
    (/\ status # "deleted"
     /\ \/ finishedMsgs # <<>>
        \/ \E s \in Submissions : sub[s].pc = "won")
      => \E u \in parts : /\ AllProblems \subseteq solved[u]
                          /\ ~solo => u = winner

(* A user who advanced late has no submission left that could do it again. *)
NoSecondLateAdvance ==
    /\ status = "active" => late = NoProgress
    /\ \A s \in Submissions :
         sub[s].pc \in {"reading", "judging", "saving", "advancing"} =>
             late[sub[s].user] = 0

(* Progress read for a broadcast is not ahead of the rows either.          *)
SnapshotNeverAhead ==
    \A s \in Submissions : (sub[s].pc = "showing" /\ status # "deleted") =>
        \A u \in Users : sub[s].snap[u] <= idx[u]

IInv ==
    /\ TypeOK
    /\ SlotOwned
    /\ NothingBeforeStart
    /\ RowsTogether
    /\ TimeoutsAreSolo
    /\ IndexIsCurrent
    /\ JudgedFirst
    /\ OneWonSubmission
    /\ WinEarned
    /\ NoSecondLateAdvance
    /\ SnapshotNeverAhead
    /\ ProgressEarned
    /\ WinnerIsPlayer
    /\ OneAnnouncement
    /\ LateAdvanceAtMostOnce
    /\ ShownNeverAhead
    /\ SolutionsEarned

-----------------------------------------------------------------------------
(* Liveness.                                                               *)

(* A user who submits is not locked out: Submit returns, by success,       *)
(* refusal, dead context or crash, and with it goes the slot.              *)
SlotReleased == \A u \in Users : []<>(slot[u] = NoSub)

(* "If the player has now solved all problems they win the game": when     *)
(* some participant's code has passed every problem, the game does not     *)
(* stay active, as long as no context dies and no server crashes on the    *)
(* way from the accepted code to the commit.                               *)
SolvedAllEndsGameUnlessFault ==
    \A u \in Users :
        (u \in parts /\ status = "active" /\ AllProblems \subseteq solved[u])
            ~> (status # "active" \/ faults > 0)

=============================================================================
