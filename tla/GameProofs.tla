----------------------------- MODULE GameProofs -----------------------------
(* Theorems about module Game, for every set of users, submissions,        *)
(* timeout requests and problems and every bound on problems and faults.   *)
EXTENDS Game, FiniteSetTheorems, TLAPS

(* A game's problem list is a sequence of slugs of length 1 or more.       *)
LEMMA ProblemListsAreSeqs ==
    \A ps \in ProblemLists : ps \in Seq(Slugs) /\ ps # <<>>
BY MaxProblemsAssumption DEF ProblemLists

(* The element at a zero-based index of a sequence.                        *)
LEMMA ElementAt ==
    ASSUME NEW S, NEW q \in Seq(S), NEW i \in Nat, i < Len(q)
    PROVE  q[i + 1] \in S
<1>1. Len(q) \in Nat /\ i + 1 \in 1..Len(q)
  OBVIOUS
<1> QED  BY <1>1

(* A submission before its first message has the type of a submission.     *)
LEMMA IdleSubType == IdleSub \in SubType
BY DEF IdleSub, SubType, PCs, NoProgress

(* The updates that the actions make to a submission keep its type.        *)
LEMMA SubUpdates ==
    /\ \A r \in SubType : [r EXCEPT !.live = FALSE] \in SubType
    /\ \A r \in SubType, pc \in PCs : [r EXCEPT !.pc = pc] \in SubType
    /\ \A r \in SubType, pc \in PCs, n \in Nat :
         [r EXCEPT !.pc = pc, !.at = n] \in SubType
    /\ \A r \in SubType, pc \in PCs, w \in Users \cup {NoUser} :
         [r EXCEPT !.pc = pc, !.winner = w] \in SubType
    /\ \A r \in SubType, pc \in PCs, f \in [Users -> Nat] :
         [r EXCEPT !.pc = pc, !.snap = f] \in SubType
    /\ \A pc \in PCs, u \in Users :
         [IdleSub EXCEPT !.pc = pc, !.user = u] \in SubType
BY IdleSubType DEF SubType

(* The places a submission passes through, one by one.                     *)
LEMMA PCsListed ==
    /\ "idle" \in PCs /\ "admitted" \in PCs /\ "reading" \in PCs
    /\ "judging" \in PCs /\ "saving" \in PCs /\ "advancing" \in PCs
    /\ "counting" \in PCs /\ "completing" \in PCs /\ "rereading" \in PCs
    /\ "answering" \in PCs /\ "won" \in PCs /\ "advanced" \in PCs
    /\ "showing" \in PCs
BY DEF PCs, Holding, Replying

(* Replacing one value of a function keeps its type.                       *)
LEMMA FunUpdate ==
    ASSUME NEW A, NEW B, NEW f \in [A -> B], NEW x, NEW v,
           x \in A => v \in B
    PROVE  [f EXCEPT ![x] = v] \in [A -> B]
OBVIOUS

(* Leaving Submit keeps the types of the slots and the submissions.        *)
LEMMA ReturnType ==
    ASSUME TypeOK, NEW s \in Submissions, NEW rec \in SubType, Return(s, rec)
    PROVE  /\ sub' \in [Submissions -> SubType]
           /\ slot' \in [Users -> Submissions \cup {NoSub}]
BY DEF Return, TypeOK

(* Refusing a submission keeps the types.                                  *)
LEMMA RefuseType ==
    ASSUME TypeOK, NEW s \in Submissions, Refuse(s)
    PROVE  /\ sub' \in [Submissions -> SubType]
           /\ slot' \in [Users -> Submissions \cup {NoSub}]
<1>1. [sub[s] EXCEPT !.pc = "answering"] \in SubType
  <2>1. sub[s] \in SubType
    BY DEF TypeOK
  <2> QED  BY <2>1, SubUpdates, PCsListed
<1> QED  BY <1>1, ReturnType DEF Refuse

(* Advancing keeps the types of the index and of the history of advances.  *)
LEMMA BumpType ==
    ASSUME TypeOK, NEW u \in Users, Bump(u)
    PROVE  idx' \in [Users -> Nat] /\ late' \in [Users -> Nat]
<1>1. /\ idx \in [Users -> Nat] /\ late \in [Users -> Nat]
      /\ idx[u] + 1 \in Nat /\ late[u] + 1 \in Nat
  BY DEF TypeOK
<1>2. idx' \in [Users -> Nat]
  BY <1>1 DEF Bump
<1>3. CASE status = "active"
  BY <1>1, <1>2, <1>3 DEF Bump
<1>4. CASE status # "active"
  BY <1>1, <1>2, <1>4 DEF Bump
<1> QED  BY <1>3, <1>4

(* The steps of one submission keep the types.                             *)
LEMMA StepType == ASSUME TypeOK, NEW s \in Submissions, Step(s) PROVE TypeOK'
<1> USE DEF TypeOK, row
<1>0. sub[s] \in SubType
  OBVIOUS
<1>1. /\ sub[s].user \in Users \cup {NoUser} /\ sub[s].at \in Nat
      /\ sub[s].winner \in Users \cup {NoUser}
      /\ sub[s].snap \in [Users -> Nat]
  BY <1>0 DEF SubType
<1>2. \A pc \in PCs : [sub[s] EXCEPT !.pc = pc] \in SubType
  BY <1>0, SubUpdates
<1>3. CASE ReadStatus(s)
  <2>1. [sub[s] EXCEPT !.pc = "reading"] \in SubType
    BY <1>2, PCsListed
  <2>2. /\ sub' \in [Submissions -> SubType]
        /\ slot' \in [Users -> Submissions \cup {NoSub}]
    BY <1>3, <2>1, RefuseType DEF ReadStatus
  <2> QED  BY <1>3, <2>2 DEF ReadStatus
<1>4. CASE ReadProblem(s)
  <2>1. CASE Refuse(s)
    BY <1>4, <2>1, RefuseType DEF ReadProblem
  <2>2. CASE ~Refuse(s)
    <3>1. sub[s].user \in Users /\ idx[sub[s].user] \in Nat
      BY <1>4, <2>2 DEF ReadProblem
    <3>2. [sub[s] EXCEPT !.pc = "judging", !.at = idx[sub[s].user]] \in SubType
      BY <1>0, <3>1, SubUpdates, PCsListed
    <3>3. sub' \in [Submissions -> SubType]
      BY <1>4, <2>2, <3>2 DEF ReadProblem
    <3> QED  BY <1>4, <2>2, <3>3 DEF ReadProblem
  <2> QED  BY <2>1, <2>2
<1>5. CASE Judge(s)
  <2>1. solved' \in [Users -> SUBSET Nat]
    <3>1. sub[s].user \in Users =>
            solved[sub[s].user] \cup {sub[s].at} \in SUBSET Nat
      BY <1>1
    <3>2. [solved EXCEPT ![sub[s].user] = solved[sub[s].user] \cup {sub[s].at}]
            \in [Users -> SUBSET Nat]
      BY <3>1, FunUpdate, SMTT(30)
    <3> QED  BY <1>5, <3>2 DEF Judge
  <2>2. [sub[s] EXCEPT !.pc = "saving"] \in SubType
    BY <1>2, PCsListed
  <2>3. /\ sub' \in [Submissions -> SubType]
        /\ slot' \in [Users -> Submissions \cup {NoSub}]
    BY <1>5, <2>2, RefuseType DEF Judge
  <2> QED  BY <1>5, <2>1, <2>3 DEF Judge
<1>6. CASE SaveSolution(s)
  <2>1. [sub[s] EXCEPT !.pc = "advancing"] \in SubType
    BY <1>2, PCsListed
  <2>2. sub' \in [Submissions -> SubType]
    BY <1>6, <2>1 DEF SaveSolution
  <2>3. solutions' \subseteq (Users \cup {NoUser}) \X Slugs
    <3>1. sub[s].at < Total => problems[sub[s].at + 1] \in Slugs
      BY <1>1, ElementAt DEF Total
    <3> QED  BY <1>1, <1>6, <3>1 DEF SaveSolution
  <2> QED  BY <1>6, <2>2, <2>3 DEF SaveSolution
<1>7. CASE Advance(s)
  <2>1. CASE Bump(sub[s].user) /\ ~Refuse(s)
    <3>1. sub[s].user \in Users
      BY <2>1 DEF Bump
    <3>2. idx' \in [Users -> Nat] /\ late' \in [Users -> Nat]
      BY <2>1, <3>1, BumpType
    <3>3. [sub[s] EXCEPT !.pc = "counting", !.at = idx[sub[s].user] + 1]
            \in SubType
      <4>1. idx[sub[s].user] + 1 \in Nat
        BY <3>1
      <4> QED  BY <1>0, <4>1, SubUpdates, PCsListed
    <3>4. sub' \in [Submissions -> SubType]
      BY <1>7, <2>1, <3>3 DEF Advance
    <3> QED  BY <1>7, <2>1, <3>2, <3>4 DEF Advance
  <2>2. CASE Refuse(s) /\ UNCHANGED <<idx, late>>
    BY <1>7, <2>2, RefuseType DEF Advance
  <2>3. CASE Refuse(s) /\ Bump(sub[s].user)
    BY <1>7, <2>3, RefuseType, BumpType DEF Advance, Bump
  <2> QED  BY <1>7, <2>1, <2>2, <2>3 DEF Advance
<1>8. CASE Count(s)
  <2>1. CASE Refuse(s)
    BY <1>8, <2>1, RefuseType DEF Count
  <2>2. CASE ~Refuse(s)
    <3>1. /\ [sub[s] EXCEPT !.pc = "rereading"] \in SubType
          /\ [sub[s] EXCEPT !.pc = "completing"] \in SubType
      BY <1>2, PCsListed
    <3>2. sub' \in [Submissions -> SubType]
      BY <1>8, <2>2, <3>1 DEF Count
    <3> QED  BY <1>8, <2>2, <3>2 DEF Count
  <2> QED  BY <2>1, <2>2
<1>9. CASE Complete(s)
  <2>1. CASE Refuse(s) /\ UNCHANGED <<status, winner>>
    BY <1>9, <2>1, RefuseType DEF Complete
  <2>2. CASE Return(s, IdleSub) /\ UNCHANGED <<status, winner>>
    BY <1>9, <2>2, ReturnType, IdleSubType DEF Complete
  <2>3. CASE /\ status' = "finished"
             /\ winner' = WinnerFor(sub[s].user)
             /\ Return(s, [sub[s] EXCEPT !.pc = "won", !.winner = winner'])
    <3>1. winner' \in Users \cup {NoUser}
      BY <1>1, <2>3 DEF WinnerFor
    <3>2. [sub[s] EXCEPT !.pc = "won", !.winner = winner'] \in SubType
      BY <1>0, <3>1, SubUpdates, PCsListed
    <3>3. /\ sub' \in [Submissions -> SubType]
          /\ slot' \in [Users -> Submissions \cup {NoSub}]
      BY <2>3, <3>2, ReturnType
    <3> QED  BY <1>9, <2>3, <3>1, <3>3 DEF Complete, Statuses
  <2> QED  BY <1>9, <2>1, <2>2, <2>3 DEF Complete
<1>10. CASE Reread(s)
  <2>1. CASE Refuse(s)
    BY <1>10, <2>1, RefuseType DEF Reread
  <2>2. CASE ~Refuse(s)
    <3>1. sub[s].user \in Users /\ idx[sub[s].user] \in Nat
      BY <1>10, <2>2 DEF Reread
    <3>2. [sub[s] EXCEPT !.pc = "advanced", !.at = idx[sub[s].user]] \in SubType
      BY <1>0, <3>1, SubUpdates, PCsListed
    <3>3. /\ sub' \in [Submissions -> SubType]
          /\ slot' \in [Users -> Submissions \cup {NoSub}]
      BY <1>10, <2>2, <3>2, ReturnType DEF Reread
    <3> QED  BY <1>10, <2>2, <3>3 DEF Reread
  <2> QED  BY <2>1, <2>2
<1>11. CASE Answer(s)
  BY <1>11, IdleSubType DEF Answer
<1>12. CASE AnnounceWinner(s)
  <2>1. finishedMsgs' \in Seq(Users \cup {NoUser})
    BY <1>1, <1>12 DEF AnnounceWinner
  <2>2. sub' \in [Submissions -> SubType]
    BY <1>12, IdleSubType DEF AnnounceWinner
  <2> QED  BY <1>12, <2>1, <2>2 DEF AnnounceWinner
<1>13. CASE ReadProgress(s)
  <2>1. (IF sub[s].live THEN idx ELSE NoProgress) \in [Users -> Nat]
    BY DEF NoProgress
  <2>2. [sub[s] EXCEPT !.pc = "showing",
                       !.snap = IF sub[s].live THEN idx ELSE NoProgress]
          \in SubType
    BY <1>0, <2>1, SubUpdates, PCsListed
  <2>3. sub' \in [Submissions -> SubType]
    BY <1>13, <2>2 DEF ReadProgress
  <2> QED  BY <1>13, <2>3 DEF ReadProgress
<1>14. CASE ShowProgress(s)
  BY <1>1, <1>14, IdleSubType DEF ShowProgress
<1> QED
  BY <1>3, <1>4, <1>5, <1>6, <1>7, <1>8, <1>9, <1>10, <1>11, <1>12, <1>13,
     <1>14 DEF Step

(* The types hold in the initial states and every step keeps them.         *)
LEMMA TypeInit == Init => TypeOK
<1> SUFFICES ASSUME Init PROVE TypeOK
  OBVIOUS
<1>1. sub \in [Submissions -> SubType]
  BY IdleSubType DEF Init
<1>2. problems \in Seq(Slugs) /\ finishedMsgs \in Seq(Users \cup {NoUser})
  BY DEF Init
<1> QED  BY <1>1, <1>2 DEF Init, TypeOK, Statuses, NoProgress

(* Every step, of a submission or of the rest of the program, keeps the    *)
(* types.                                                                  *)
LEMMA TypeStep == ASSUME TypeOK, [Next]_vars PROVE TypeOK'
<1> USE DEF TypeOK
<1>1. CASE UNCHANGED vars
  BY <1>1 DEF vars
<1>2. ASSUME NEW u \in Users, NEW ps \in ProblemLists, NEW b \in BOOLEAN,
             CreateGame(u, ps, b)
      PROVE  TypeOK'
  BY <1>2, ProblemListsAreSeqs DEF CreateGame, Statuses
<1>3. ASSUME NEW u \in Users, JoinGame(u) PROVE TypeOK'
  BY <1>3 DEF JoinGame
<1>4. ASSUME NEW u \in Users, LeaveGame(u) PROVE TypeOK'
  BY <1>4 DEF LeaveGame
<1>5. ASSUME NEW u \in Users, StartGame(u) PROVE TypeOK'
  BY <1>5 DEF StartGame, Statuses
<1>6. ASSUME NEW u \in Users, CancelGame(u) PROVE TypeOK'
  BY <1>6 DEF CancelGame, Statuses
<1>7. ASSUME NEW u \in Users, DeleteGame(u) PROVE TypeOK'
  BY <1>7 DEF DeleteGame, Statuses, NoProgress
<1>8. ASSUME NEW u \in Users, Connect(u) PROVE TypeOK'
  BY <1>8 DEF Connect, row
<1>9. ASSUME NEW u \in Users, Disconnect(u) PROVE TypeOK'
  <2>1. sub' \in [Submissions -> SubType]
    BY <1>9, SubUpdates DEF Disconnect
  <2> QED  BY <1>9, <2>1, SMTT(30) DEF Disconnect, Fault, row
<1>10. ASSUME NEW u \in Users, NEW w \in Users, CompleteGame(u, w)
       PROVE  TypeOK'
  BY <1>10 DEF CompleteGame, Statuses
<1>11. ASSUME NEW r \in TimeoutRequests, NEW u \in Users, TimeoutCheck(r, u)
       PROVE  TypeOK'
  BY <1>11 DEF TimeoutCheck
<1>12. ASSUME NEW r \in TimeoutRequests, TimeoutWrite(r) PROVE TypeOK'
  BY <1>12 DEF TimeoutWrite, Statuses
<1>13. ASSUME NEW s \in Submissions, NEW u \in Users, Submit(s, u)
       PROVE  TypeOK'
  <2> USE <1>13, SubUpdates, PCsListed
  <2>1. sub' \in [Submissions -> SubType]
    <3>1. /\ [IdleSub EXCEPT !.pc = "admitted", !.user = u] \in SubType
          /\ [IdleSub EXCEPT !.pc = "answering", !.user = u] \in SubType
      OBVIOUS
    <3> QED  BY <3>1 DEF Submit
  <2>2. slot' \in [Users -> Submissions \cup {NoSub}]
    BY DEF Submit
  <2> QED  BY <2>1, <2>2 DEF Submit, row
<1>14. ASSUME NEW s \in Submissions, Step(s) PROVE TypeOK'
  BY <1>14, StepType
<1>15. ASSUME NEW s \in Submissions, Expire(s) PROVE TypeOK'
  <2>1. sub' \in [Submissions -> SubType]
    BY <1>15, SubUpdates DEF Expire
  <2> QED  BY <1>15, <2>1 DEF Expire, Fault, row
<1>16. ASSUME NEW s \in Submissions, AdvanceUnanswered(s) PROVE TypeOK'
  <2>1. sub[s].user \in Users
    BY <1>16 DEF AdvanceUnanswered, Bump
  <2>2. idx' \in [Users -> Nat] /\ late' \in [Users -> Nat]
    BY <1>16, <2>1, BumpType DEF AdvanceUnanswered
  <2>3. /\ sub' \in [Submissions -> SubType]
        /\ slot' \in [Users -> Submissions \cup {NoSub}]
    BY <1>16, RefuseType DEF AdvanceUnanswered
  <2> QED
    BY <1>16, <2>2, <2>3, SMTT(30) DEF AdvanceUnanswered, Fault, row
<1>17. ASSUME NEW s \in Submissions, CompleteUnanswered(s) PROVE TypeOK'
  <2>1. winner' \in Users \cup {NoUser}
    BY <1>17 DEF CompleteUnanswered, WinnerFor, SubType
  <2> QED
    BY <1>17, <2>1, RefuseType DEF CompleteUnanswered, Fault, Statuses
<1>18. CASE Crash
  BY <1>18, IdleSubType DEF Crash, Fault, row
<1> QED
  BY ZenonT(60), <1>1, <1>2, <1>3, <1>4, <1>5, <1>6, <1>7, <1>8, <1>9, <1>10, <1>11,
     <1>12, <1>13, <1>14, <1>15, <1>16, <1>17, <1>18 DEF Next

(* Every value that the program stores has the type of its variable.       *)
THEOREM TypeCorrect == Spec => []TypeOK
<1>1. TypeOK /\ [Next]_vars => TypeOK'
  BY TypeStep
<1> QED  BY <1>1, TypeInit, PTL DEF Spec

-----------------------------------------------------------------------------
(* What the steps of a submission do, field by field.  The proofs of the   *)
(* invariants below use these summaries instead of the definitions.        *)

Others(s) == \A t \in Submissions : t # s => sub'[t] = sub[t]

Goes(s, from, to) ==
    /\ sub[s].pc \in from
    /\ Others(s)
    /\ sub'[s].pc = to
    /\ sub'[s].user = sub[s].user

Goner(s, from) == sub[s].pc \in from /\ Others(s) /\ sub'[s].pc = "idle"

Frees(s) == slot' = [slot EXCEPT ![sub[s].user] = NoSub]

Refused(s) ==
    /\ Goes(s, Holding, "answering") /\ Frees(s)
    /\ UNCHANGED <<row, idx, solutions, finishedMsgs, shown, solved, late>>

Admitted(s) ==
    /\ Goes(s, {"admitted"}, "reading") /\ status = "active"
    /\ UNCHANGED <<slot, row, idx, solutions, finishedMsgs, shown, solved, late>>

Loaded(s) ==
    /\ Goes(s, {"reading"}, "judging")
    /\ sub'[s].at = idx[sub[s].user]
    /\ sub[s].user \in parts /\ idx[sub[s].user] < Total
    /\ UNCHANGED <<slot, row, idx, solutions, finishedMsgs, shown, solved, late>>

Accepted(s) ==
    /\ Goes(s, {"judging"}, "saving")
    /\ sub'[s].at = sub[s].at
    /\ solved' = [solved EXCEPT ![sub[s].user] =
                    solved[sub[s].user] \cup {sub[s].at}]
    /\ UNCHANGED <<slot, row, idx, solutions, finishedMsgs, shown, late>>

Saved(s) ==
    /\ Goes(s, {"saving"}, "advancing")
    /\ sub'[s].at = sub[s].at
    /\ \/ solutions' = solutions
       \/ /\ sub[s].at < Total
          /\ solutions' = solutions \cup
                            {<<sub[s].user, problems[sub[s].at + 1]>>}
    /\ UNCHANGED <<slot, row, idx, finishedMsgs, shown, solved, late>>

Bumped(s) ==
    /\ Bump(sub[s].user)
    /\ UNCHANGED <<row, solutions, finishedMsgs, shown, solved>>

Advanced(s) ==
    /\ Goes(s, {"advancing"}, "counting")
    /\ sub'[s].at = idx[sub[s].user] + 1
    /\ Bumped(s)
    /\ UNCHANGED slot

Counted(s) ==
    /\ Total > 0
    /\ \/ Goes(s, {"counting"}, "rereading") /\ sub[s].at < Total
       \/ Goes(s, {"counting"}, "completing") /\ ~(sub[s].at < Total)
    /\ sub'[s].at = sub[s].at
    /\ UNCHANGED <<slot, row, idx, solutions, finishedMsgs, shown, solved, late>>

Finished(s) ==
    /\ status = "active" /\ status' = "finished"
    /\ winner' = WinnerFor(sub[s].user)
    /\ Frees(s)
    /\ UNCHANGED <<creator, solo, problems, parts, idx, solutions,
                   finishedMsgs, shown, solved, late>>

Won(s) ==
    /\ Goes(s, {"completing"}, "won")
    /\ sub'[s].winner = winner'
    /\ Finished(s)

Overtaken(s) ==
    /\ Goner(s, {"completing"}) /\ Frees(s)
    /\ UNCHANGED <<row, idx, solutions, finishedMsgs, shown, solved, late>>

Reloaded(s) ==
    /\ Goes(s, {"rereading"}, "advanced") /\ Frees(s)
    /\ UNCHANGED <<row, idx, solutions, finishedMsgs, shown, solved, late>>

Answered(s) ==
    /\ Goner(s, {"answering"})
    /\ UNCHANGED <<slot, row, idx, solutions, finishedMsgs, shown, solved, late>>

Announced(s) ==
    /\ Goner(s, {"won"})
    /\ finishedMsgs' = Append(finishedMsgs, sub[s].winner)
    /\ UNCHANGED <<slot, row, idx, solutions, shown, solved, late>>

Snapped(s) ==
    /\ Goes(s, {"advanced"}, "showing")
    /\ sub'[s].snap \in {idx, NoProgress}
    /\ UNCHANGED <<slot, row, idx, solutions, finishedMsgs, shown, solved, late>>

Showed(s) ==
    /\ Goner(s, {"showing"})
    /\ shown' = sub[s].snap
    /\ UNCHANGED <<slot, row, idx, solutions, finishedMsgs, solved, late>>

Stepped(s) ==
    \/ Refused(s) \/ Admitted(s) \/ Loaded(s) \/ Accepted(s) \/ Saved(s)
    \/ Advanced(s) \/ Counted(s) \/ Won(s) \/ Overtaken(s) \/ Reloaded(s)
    \/ Answered(s) \/ Announced(s) \/ Snapped(s) \/ Showed(s)

(* Assigning one or two fields of a submission leaves the others alone.    *)
LEMMA MoveEffect ==
    ASSUME TypeOK, NEW s \in Submissions, NEW pc,
           sub' = [sub EXCEPT ![s].pc = pc]
    PROVE  /\ Others(s) /\ sub'[s].pc = pc
           /\ sub'[s].user = sub[s].user /\ sub'[s].at = sub[s].at
BY DEF TypeOK, SubType, Others

(* What leaving Submit does to the slots and to the submission.            *)
LEMMA ReturnEffect ==
    ASSUME TypeOK, NEW s \in Submissions, NEW rec, Return(s, rec)
    PROVE  Others(s) /\ sub'[s] = rec /\ Frees(s)
BY DEF TypeOK, Return, Others, Frees

(* A refused submission is about to answer and holds no slot.              *)
LEMMA RefuseEffect ==
    ASSUME TypeOK, NEW s \in Submissions, Refuse(s)
    PROVE  /\ Others(s) /\ Frees(s)
           /\ sub'[s].pc = "answering" /\ sub'[s].user = sub[s].user
BY DEF TypeOK, SubType, Refuse, Return, Others, Frees

(* What going back to idle does to one submission and to the others.       *)
LEMMA IdleEffect ==
    ASSUME TypeOK, NEW s \in Submissions, sub' = [sub EXCEPT ![s] = IdleSub]
    PROVE  Others(s) /\ sub'[s].pc = "idle"
BY DEF TypeOK, Others, IdleSub

(* Assigning a submission leaves every other one as it was.                *)
LEMMA AssignEffect ==
    ASSUME TypeOK, NEW s \in Submissions, NEW rec,
           sub' = [sub EXCEPT ![s] = rec]
    PROVE  Others(s) /\ sub'[s] = rec
BY DEF TypeOK, Others

(* Every step of a submission is one of the summaries.                     *)
LEMMA StepSummary ==
    ASSUME TypeOK, NEW s \in Submissions, Step(s)
    PROVE  Stepped(s)
<1>1. ASSUME Refuse(s), sub[s].pc \in Holding,
             UNCHANGED <<row, idx, solutions, finishedMsgs, shown, solved, late>>
      PROVE  Stepped(s)
  BY <1>1, RefuseEffect DEF Stepped, Refused, Goes
<1>2. CASE ReadStatus(s)
  <2>1. CASE Refuse(s)
    BY <1>1, <1>2, <2>1 DEF ReadStatus, Holding
  <2>2. CASE ~Refuse(s)
    <3>1. Admitted(s)
      BY <1>2, <2>2, MoveEffect DEF ReadStatus, Admitted, Goes
    <3> QED  BY <3>1 DEF Stepped
  <2> QED  BY <2>1, <2>2
<1>3. CASE ReadProblem(s)
  <2>1. CASE Refuse(s)
    BY <1>1, <1>3, <2>1 DEF ReadProblem, Holding
  <2>2. CASE ~Refuse(s)
    <3>1. Others(s) /\ sub'[s] = [sub[s] EXCEPT !.pc = "judging",
                                                !.at = idx[sub[s].user]]
      BY <1>3, <2>2, AssignEffect DEF ReadProblem
    <3>2. /\ sub'[s].pc = "judging" /\ sub'[s].user = sub[s].user
          /\ sub'[s].at = idx[sub[s].user]
      BY <3>1 DEF TypeOK, SubType
    <3>3. Loaded(s)
      BY <1>3, <2>2, <3>1, <3>2 DEF ReadProblem, Loaded, Goes
    <3> QED  BY <3>3 DEF Stepped
  <2> QED  BY <2>1, <2>2
<1>4. CASE Judge(s)
  <2>1. CASE Refuse(s) /\ UNCHANGED solved
    BY <1>1, <1>4, <2>1 DEF Judge, Holding
  <2>2. CASE ~(Refuse(s) /\ UNCHANGED solved)
    <3>1. Accepted(s)
      BY <1>4, <2>2, MoveEffect DEF Judge, Accepted, Goes
    <3> QED  BY <3>1 DEF Stepped
  <2> QED  BY <2>1, <2>2
<1>5. CASE SaveSolution(s)
  <2>1. Saved(s)
    BY <1>5, MoveEffect DEF SaveSolution, Saved, Goes
  <2> QED  BY <2>1 DEF Stepped
<1>6. CASE Advance(s)
  <2>1. CASE Refuse(s) /\ UNCHANGED <<idx, late>>
    BY <1>1, <1>6, <2>1 DEF Advance, Holding
  <2>2. CASE ~(Refuse(s) /\ UNCHANGED <<idx, late>>)
    <3>1. Others(s) /\ sub'[s] = [sub[s] EXCEPT !.pc = "counting",
                                                !.at = idx[sub[s].user] + 1]
      BY <1>6, <2>2, AssignEffect DEF Advance
    <3>2. /\ sub'[s].pc = "counting" /\ sub'[s].user = sub[s].user
          /\ sub'[s].at = idx[sub[s].user] + 1
      BY <3>1 DEF TypeOK, SubType
    <3>3. Advanced(s)
      BY <1>6, <2>2, <3>1, <3>2 DEF Advance, Advanced, Bumped, Goes
    <3> QED  BY <3>3 DEF Stepped
  <2> QED  BY <2>1, <2>2
<1>7. CASE Count(s)
  <2>1. CASE Refuse(s)
    BY <1>1, <1>7, <2>1 DEF Count, Holding
  <2>2. CASE ~Refuse(s)
    <3>1. Counted(s)
      BY <1>7, <2>2, MoveEffect DEF Count, Counted, Goes
    <3> QED  BY <3>1 DEF Stepped
  <2> QED  BY <2>1, <2>2
<1>8. CASE Complete(s)
  <2>1. CASE Refuse(s) /\ UNCHANGED <<status, winner>>
    BY <1>1, <1>8, <2>1 DEF Complete, Holding, row
  <2>2. CASE Return(s, IdleSub) /\ UNCHANGED <<status, winner>>
    <3>1. Others(s) /\ Frees(s) /\ sub'[s].pc = "idle"
      BY <2>2, ReturnEffect DEF IdleSub
    <3>2. Overtaken(s)
      BY <1>8, <2>2, <3>1 DEF Complete, Overtaken, Goner, row
    <3> QED  BY <3>2 DEF Stepped
  <2>3. CASE /\ status = "active" /\ status' = "finished"
             /\ winner' = WinnerFor(sub[s].user)
             /\ Return(s, [sub[s] EXCEPT !.pc = "won", !.winner = winner'])
    <3>1. Others(s) /\ Frees(s)
          /\ sub'[s] = [sub[s] EXCEPT !.pc = "won", !.winner = winner']
      BY <2>3, ReturnEffect
    <3>2. /\ sub'[s].pc = "won" /\ sub'[s].winner = winner'
          /\ sub'[s].user = sub[s].user
      BY <3>1 DEF TypeOK, SubType
    <3>3. Won(s)
      BY <1>8, <2>3, <3>1, <3>2 DEF Complete, Won, Finished, Goes
    <3> QED  BY <3>3 DEF Stepped
  <2> QED  BY <1>8, <2>1, <2>2, <2>3 DEF Complete
<1>9. CASE Reread(s)
  <2>1. CASE Refuse(s)
    BY <1>1, <1>9, <2>1 DEF Reread, Holding
  <2>2. CASE ~Refuse(s)
    <3>1. Others(s) /\ Frees(s)
          /\ sub'[s] = [sub[s] EXCEPT !.pc = "advanced",
                                      !.at = idx[sub[s].user]]
      BY <1>9, <2>2, ReturnEffect DEF Reread
    <3>2. sub'[s].pc = "advanced" /\ sub'[s].user = sub[s].user
      BY <3>1 DEF TypeOK, SubType
    <3>3. Reloaded(s)
      BY <1>9, <2>2, <3>1, <3>2 DEF Reread, Reloaded, Goes
    <3> QED  BY <3>3 DEF Stepped
  <2> QED  BY <2>1, <2>2
<1>10. CASE Answer(s)
  <2>1. Answered(s)
    BY <1>10, IdleEffect DEF Answer, Answered, Goner
  <2> QED  BY <2>1 DEF Stepped
<1>11. CASE AnnounceWinner(s)
  <2>1. Announced(s)
    BY <1>11, IdleEffect DEF AnnounceWinner, Announced, Goner
  <2> QED  BY <2>1 DEF Stepped
<1>12. CASE ReadProgress(s)
  <2> DEFINE f == IF sub[s].live THEN idx ELSE NoProgress
  <2>1. Others(s) /\ sub'[s] = [sub[s] EXCEPT !.pc = "showing", !.snap = f]
    BY <1>12, AssignEffect DEF ReadProgress
  <2>2. /\ sub'[s].pc = "showing" /\ sub'[s].user = sub[s].user
        /\ sub'[s].snap = f
    <3> HIDE DEF f
    <3> QED  BY <2>1 DEF TypeOK, SubType
  <2>3. Snapped(s)
    BY <1>12, <2>1, <2>2 DEF ReadProgress, Snapped, Goes
  <2> QED  BY <2>3 DEF Stepped
<1>13. CASE ShowProgress(s)
  <2>1. Showed(s)
    BY <1>13, IdleEffect DEF ShowProgress, Showed, Goner
  <2> QED  BY <2>1 DEF Stepped
<1> QED
  BY <1>2, <1>3, <1>4, <1>5, <1>6, <1>7, <1>8, <1>9, <1>10, <1>11, <1>12,
     <1>13 DEF Step

(* The actions that touch the row and leave every submission alone.        *)
RowStep ==
    \/ \E u \in Users, ps \in ProblemLists, b \in BOOLEAN : CreateGame(u, ps, b)
    \/ \E u \in Users : \/ JoinGame(u) \/ LeaveGame(u) \/ StartGame(u)
                        \/ CancelGame(u) \/ DeleteGame(u) \/ Connect(u)
    \/ \E u, w \in Users : CompleteGame(u, w)
    \/ \E r \in TimeoutRequests, u \in Users : TimeoutCheck(r, u)
    \/ \E r \in TimeoutRequests : TimeoutWrite(r)

Submitted(s, u) ==
    /\ u \in conn
    /\ sub[s].pc = "idle" /\ Others(s) /\ sub'[s].user = u
    /\ \/ /\ slot[u] = NoSub /\ slot' = [slot EXCEPT ![u] = s]
          /\ sub'[s].pc = "admitted"
       \/ slot' = slot /\ sub'[s].pc = "answering"
    /\ UNCHANGED <<row, idx, solutions, finishedMsgs, shown, solved, late,
                   timingOut, conn>>

(* Contexts die; nothing else about the submissions changes.               *)
Killed ==
    /\ \A s \in Submissions :
         /\ sub'[s].pc = sub[s].pc /\ sub'[s].user = sub[s].user
         /\ sub'[s].at = sub[s].at /\ sub'[s].winner = sub[s].winner
         /\ sub'[s].snap = sub[s].snap
    /\ conn' \subseteq conn
    /\ UNCHANGED <<slot, row, idx, solutions, finishedMsgs, shown, solved, late,
                   timingOut>>

Unanswered(s) ==
    /\ Frees(s)
    /\ \/ Goes(s, {"advancing"}, "answering") /\ Bumped(s)
       \/ Goes(s, {"completing"}, "answering") /\ Finished(s)
    /\ UNCHANGED <<timingOut, conn>>

Restarted ==
    /\ \A s \in Submissions : sub'[s].pc = "idle"
    /\ timingOut' = {} /\ conn' = {}
    /\ UNCHANGED <<row, idx, solutions, finishedMsgs, shown, solved, late>>

(* Every step of the specification is one of the summaries.                *)
LEMMA NextSummary ==
    ASSUME TypeOK, [Next]_vars
    PROVE  \/ UNCHANGED vars \/ RowStep \/ Killed \/ Restarted
           \/ \E s \in Submissions, u \in Users : Submitted(s, u)
           \/ \E s \in Submissions :
                \/ Stepped(s) /\ UNCHANGED <<timingOut, conn>>
                \/ Unanswered(s)
<1>1. CASE RowStep
  BY <1>1
<1>2. ASSUME NEW u \in Users, Disconnect(u) PROVE Killed
  BY <1>2 DEF Disconnect, Killed, TypeOK, SubType
<1>3. ASSUME NEW s \in Submissions, Expire(s) PROVE Killed
  BY <1>3 DEF Expire, Killed, TypeOK, SubType
<1>4. ASSUME NEW s \in Submissions, NEW u \in Users, Submit(s, u)
      PROVE  Submitted(s, u)
  <2>1. CASE slot[u] = NoSub
    <3>1. Others(s) /\ sub'[s] = [IdleSub EXCEPT !.pc = "admitted", !.user = u]
      BY <1>4, <2>1, AssignEffect DEF Submit
    <3>2. sub'[s].pc = "admitted" /\ sub'[s].user = u
      BY <3>1 DEF IdleSub
    <3> QED  BY <1>4, <2>1, <3>1, <3>2 DEF Submit, Submitted
  <2>2. CASE slot[u] # NoSub
    <3>1. Others(s) /\ sub'[s] = [IdleSub EXCEPT !.pc = "answering", !.user = u]
      BY <1>4, <2>2, AssignEffect DEF Submit
    <3>2. sub'[s].pc = "answering" /\ sub'[s].user = u
      BY <3>1 DEF IdleSub
    <3> QED  BY <1>4, <2>2, <3>1, <3>2 DEF Submit, Submitted
  <2> QED  BY <2>1, <2>2
<1>5. ASSUME NEW s \in Submissions, Step(s)
      PROVE  Stepped(s) /\ UNCHANGED <<timingOut, conn>>
  <2>1. UNCHANGED <<timingOut, conn>>
    BY <1>5 DEF Step, ReadStatus, ReadProblem, Judge, SaveSolution, Advance,
       Count, Complete, Reread, Answer, AnnounceWinner, ReadProgress,
       ShowProgress
  <2> QED  BY <1>5, <2>1, StepSummary
<1>6. ASSUME NEW s \in Submissions, AdvanceUnanswered(s) PROVE Unanswered(s)
  BY <1>6, RefuseEffect DEF AdvanceUnanswered, Unanswered, Goes, Bumped
<1>7. ASSUME NEW s \in Submissions, CompleteUnanswered(s) PROVE Unanswered(s)
  BY <1>7, RefuseEffect DEF CompleteUnanswered, Unanswered, Goes, Finished
<1>8. CASE Crash
  <2>1. Restarted
    BY <1>8 DEF Crash, Restarted, IdleSub
  <2> QED  BY <2>1
<1>9. ASSUME Next PROVE
           \/ RowStep \/ Crash
           \/ \E u \in Users : Disconnect(u)
           \/ \E s \in Submissions, u \in Users : Submit(s, u)
           \/ \E s \in Submissions : \/ Step(s) \/ Expire(s)
                                     \/ AdvanceUnanswered(s)
                                     \/ CompleteUnanswered(s)
  BY <1>9 DEF Next, RowStep
<1> QED
  BY <1>1, <1>2, <1>3, <1>4, <1>5, <1>6, <1>7, <1>8, <1>9

-----------------------------------------------------------------------------
(* The conjuncts of the inductive invariant, one by one.                   *)

(* A slot stays with the one submission past admission that took it.       *)
LEMMA SlotOwnedStep == ASSUME IInv, [Next]_vars PROVE SlotOwned'
<1> USE DEF SlotOwned
<1>0. /\ TypeOK /\ SlotOwned /\ conn \subseteq Users
      /\ slot \in [Users -> Submissions \cup {NoSub}]
  BY DEF IInv, TypeOK
<1>1. CASE UNCHANGED <<sub, slot>>
  BY <1>0, <1>1
<1>2. CASE Killed
  BY <1>0, <1>2 DEF Killed
<1>3. CASE Restarted
  BY <1>0, <1>3 DEF Restarted, Holding
<1>4. ASSUME NEW s \in Submissions, NEW u \in Users, Submitted(s, u)
      PROVE  SlotOwned'
  BY <1>0, <1>4, NoSubAssumption DEF Submitted, Others, Holding
<1>5. ASSUME NEW s \in Submissions, sub[s].pc \in Holding, Others(s),
             sub'[s].pc \notin Holding, Frees(s),
             sub'[s].pc # "idle" => sub'[s].user = sub[s].user
      PROVE  SlotOwned'
  BY <1>0, <1>5 DEF Others, Frees, Holding
<1>6. ASSUME NEW s \in Submissions, sub[s].pc # "idle", Others(s), slot' = slot,
             sub'[s].pc # "idle" => sub'[s].user = sub[s].user,
             sub'[s].pc \in Holding => sub[s].pc \in Holding
      PROVE  SlotOwned'
  BY <1>0, <1>6 DEF Others, Holding
<1>7. ASSUME NEW s \in Submissions, Stepped(s) PROVE SlotOwned'
  <2>1. CASE Refused(s) \/ Won(s) \/ Overtaken(s) \/ Reloaded(s)
    BY <1>5, <2>1 DEF Refused, Won, Finished, Overtaken, Reloaded, Goes, Goner,
       Holding
  <2>2. CASE \/ Admitted(s) \/ Loaded(s) \/ Accepted(s) \/ Saved(s)
             \/ Advanced(s) \/ Counted(s)
    BY <1>6, <2>2 DEF Admitted, Loaded, Accepted, Saved, Advanced, Counted,
       Goes, Holding
  <2>3. CASE Answered(s) \/ Announced(s) \/ Snapped(s) \/ Showed(s)
    BY <1>6, <2>3 DEF Answered, Announced, Snapped, Showed, Goes, Goner, Holding
  <2> QED  BY <1>7, <2>1, <2>2, <2>3 DEF Stepped
<1>8. ASSUME NEW s \in Submissions, Unanswered(s) PROVE SlotOwned'
  BY <1>5, <1>8 DEF Unanswered, Goes, Holding
<1>9. CASE RowStep
  <2>1. UNCHANGED <<sub, slot>>
    BY <1>9 DEF RowStep, CreateGame, JoinGame, LeaveGame, StartGame,
       CancelGame, DeleteGame, Connect, CompleteGame, TimeoutCheck,
       TimeoutWrite
  <2> QED  BY <1>1, <2>1
<1>10. CASE UNCHANGED vars
  BY <1>1, <1>10 DEF vars
<1> QED
  BY <1>0, <1>2, <1>3, <1>4, <1>7, <1>8, <1>9, <1>10, NextSummary

(* A step of a submission starts from a submission that is not idle and    *)
(* ends the game or leaves its row alone.                                  *)
LEMMA StepFrame ==
    ASSUME NEW s \in Submissions, Stepped(s) \/ Unanswered(s)
    PROVE  /\ sub[s].pc # "idle"
           /\ Others(s)
           /\ UNCHANGED <<creator, solo, problems, parts>>
           /\ \/ UNCHANGED <<status, winner>>
              \/ /\ status = "active" /\ status' = "finished"
                 /\ sub[s].pc = "completing"
                 /\ winner' = WinnerFor(sub[s].user)
                 /\ UNCHANGED <<idx, solutions, finishedMsgs, shown, solved, late>>
<1> USE DEF Goes, Goner, row, Holding
<1>1. CASE \/ Refused(s) \/ Admitted(s) \/ Loaded(s) \/ Accepted(s)
  BY <1>1 DEF Refused, Admitted, Loaded, Accepted
<1>2. CASE Saved(s) \/ Advanced(s) \/ Counted(s) \/ Won(s)
  BY <1>2 DEF Saved, Advanced, Bumped, Counted, Won, Finished
<1>3. CASE Overtaken(s) \/ Reloaded(s) \/ Answered(s) \/ Announced(s)
  BY <1>3 DEF Overtaken, Reloaded, Answered, Announced
<1>4. CASE Snapped(s) \/ Showed(s)
  BY <1>4 DEF Snapped, Showed
<1>5. CASE Unanswered(s)
  BY <1>5 DEF Unanswered, Bumped, Finished
<1> QED  BY <1>1, <1>2, <1>3, <1>4, <1>5 DEF Stepped

(* Before the start no submission is past its status read and no index has *)
(* moved: Start is the only step out of that state and moves neither.      *)
LEMMA NothingBeforeStartStep ==
    ASSUME IInv, [Next]_vars PROVE NothingBeforeStart'
<1> SUFFICES ASSUME status' \in {"none", "pending"}
             PROVE  NothingBeforeStart'
  BY DEF NothingBeforeStart
<1>0. TypeOK /\ NothingBeforeStart
  BY DEF IInv
<1>1. CASE UNCHANGED vars
  BY <1>0, <1>1 DEF vars, NothingBeforeStart
<1>2. CASE RowStep
  <2>1. /\ status \in {"none", "pending"}
        /\ UNCHANGED <<idx, solved, late, solutions, timingOut, conn, shown,
                       finishedMsgs, sub>>
    BY <1>2 DEF RowStep, CreateGame, JoinGame, LeaveGame, StartGame,
       CancelGame, DeleteGame, Connect, row, CompleteGame, TimeoutCheck,
       TimeoutWrite
  <2> QED  BY <1>0, <2>1 DEF NothingBeforeStart
<1>3. CASE Killed
  BY <1>0, <1>3 DEF NothingBeforeStart, Killed, row
<1>4. CASE Restarted
  BY <1>0, <1>4 DEF NothingBeforeStart, Restarted, row
<1>5. ASSUME NEW s \in Submissions, NEW u \in Users, Submitted(s, u)
      PROVE  FALSE
  BY <1>0, <1>5 DEF NothingBeforeStart, Submitted, row
<1>6. ASSUME NEW s \in Submissions, Stepped(s) \/ Unanswered(s)
      PROVE  FALSE
  BY <1>0, <1>6, StepFrame DEF NothingBeforeStart
<1> QED  BY <1>0, <1>1, <1>2, <1>3, <1>4, <1>5, <1>6, NextSummary

(* The rows of a game appear, change and vanish together.                  *)
LEMMA RowsTogetherStep == ASSUME IInv, [Next]_vars PROVE RowsTogether'
<1>0. /\ TypeOK /\ RowsTogether /\ NothingBeforeStart /\ JudgedFirst
      /\ WinnerIsPlayer
  BY DEF IInv
<1>1. CASE UNCHANGED vars
  BY <1>0, <1>1 DEF vars, RowsTogether
<1>2. ASSUME NEW u \in Users, NEW ps \in ProblemLists, NEW b \in BOOLEAN,
             CreateGame(u, ps, b)
      PROVE  RowsTogether'
  BY <1>0, <1>2, ProblemListsAreSeqs
     DEF CreateGame, RowsTogether, NothingBeforeStart
<1>3. ASSUME NEW u \in Users, JoinGame(u) \/ LeaveGame(u)
      PROVE  RowsTogether'
  BY <1>0, <1>3 DEF JoinGame, LeaveGame, RowsTogether, NothingBeforeStart
<1>4. ASSUME NEW u \in Users, StartGame(u) \/ CancelGame(u) \/ Connect(u)
      PROVE  RowsTogether'
  BY <1>0, <1>4 DEF StartGame, CancelGame, Connect, row, RowsTogether
<1>5. ASSUME NEW u \in Users, DeleteGame(u) PROVE RowsTogether'
  BY <1>0, <1>5 DEF DeleteGame, RowsTogether
<1>6. ASSUME NEW u \in Users, NEW w \in Users, CompleteGame(u, w)
      PROVE  RowsTogether'
  BY <1>0, <1>6 DEF CompleteGame, RowsTogether
<1>7. ASSUME NEW r \in TimeoutRequests, NEW u \in Users, TimeoutCheck(r, u)
      PROVE  RowsTogether'
  BY <1>0, <1>7 DEF TimeoutCheck, RowsTogether
<1>8. ASSUME NEW r \in TimeoutRequests, TimeoutWrite(r)
      PROVE  RowsTogether'
  BY <1>0, <1>8 DEF TimeoutWrite, RowsTogether, NothingBeforeStart
<1>9. CASE RowStep
  BY <1>2, <1>3, <1>4, <1>5, <1>6, <1>7, <1>8, <1>9 DEF RowStep
<1>10. CASE Killed \/ Restarted
  BY <1>0, <1>10 DEF Killed, Restarted, row, RowsTogether
<1>11. ASSUME NEW s \in Submissions, NEW u \in Users, Submitted(s, u)
       PROVE  RowsTogether'
  BY <1>0, <1>11 DEF Submitted, row, RowsTogether
<1>12. ASSUME NEW s \in Submissions,
              \/ Stepped(s) /\ UNCHANGED <<timingOut, conn>>
              \/ Unanswered(s)
       PROVE  RowsTogether'
  <2>1. UNCHANGED conn
    BY <1>12 DEF Unanswered
  <2>2. status \in {"none", "deleted"} => solutions' = {}
    <3>1. CASE Saved(s)
      <4>1. sub[s].at \in Nat
        BY <1>0 DEF TypeOK, SubType
      <4>2. problems = <<>> => ~(sub[s].at < Total)
        BY <4>1 DEF Total
      <4> QED  BY <1>0, <3>1, <4>2 DEF Saved, RowsTogether, Goes, row
    <3>2. CASE ~Saved(s)
      <4>1. solutions' = solutions
        BY <1>12, <3>2 DEF Stepped, Unanswered, Bumped, Finished, Refused,
           Admitted, Loaded, Accepted, Advanced, Counted, Won, Overtaken,
           Reloaded, Answered, Announced, Snapped, Showed
      <4> QED  BY <1>0, <4>1 DEF RowsTogether
    <3> QED  BY <3>1, <3>2
  <2> QED  BY <1>0, <1>12, <2>1, <2>2, StepFrame DEF RowsTogether
<1> QED  BY <1>0, <1>1, <1>9, <1>10, <1>11, <1>12, NextSummary

(* A timeout that passed its check concerns a solo game, and a game never  *)
(* changes its kind.                                                       *)
LEMMA TimeoutsAreSoloStep == ASSUME IInv, [Next]_vars PROVE TimeoutsAreSolo'
<1>0. TypeOK /\ TimeoutsAreSolo /\ NothingBeforeStart
  BY DEF IInv
<1>1. CASE UNCHANGED vars
  BY <1>0, <1>1 DEF vars, TimeoutsAreSolo
<1>2. CASE RowStep
  BY <1>0, <1>2 DEF TimeoutsAreSolo, NothingBeforeStart, RowStep, CreateGame,
     JoinGame, LeaveGame, StartGame, CancelGame, DeleteGame, Connect, row,
     CompleteGame, TimeoutCheck, TimeoutWrite
<1>3. CASE Killed \/ Restarted
  BY <1>0, <1>3 DEF TimeoutsAreSolo, Killed, Restarted, row
<1>4. ASSUME NEW s \in Submissions, NEW u \in Users, Submitted(s, u)
      PROVE  TimeoutsAreSolo'
  BY <1>0, <1>4 DEF TimeoutsAreSolo, Submitted, row
<1>5. ASSUME NEW s \in Submissions,
             \/ Stepped(s) /\ UNCHANGED <<timingOut, conn>>
             \/ Unanswered(s)
      PROVE  TimeoutsAreSolo'
  BY <1>0, <1>5, StepFrame DEF TimeoutsAreSolo, Unanswered
<1> QED  BY <1>0, <1>1, <1>2, <1>3, <1>4, <1>5, NextSummary

(* Before the start every submission is idle, so the row actions that      *)
(* change the roster or the problems meet no submission.                   *)
LEMMA RowFrame ==
    ASSUME NothingBeforeStart, RowStep
    PROVE  /\ UNCHANGED <<sub, slot, solved, late, shown, finishedMsgs>>
           /\ \/ status' = "deleted"
              \/ \A s \in Submissions : sub[s].pc = "idle"
              \/ /\ status \notin {"none", "pending", "deleted"}
                 /\ UNCHANGED <<idx, parts, problems, creator, solo, solutions>>
BY DEF RowStep, NothingBeforeStart, CreateGame, JoinGame, LeaveGame, StartGame,
   CancelGame, DeleteGame, Connect, row, CompleteGame, TimeoutCheck,
   TimeoutWrite

(* The types that the leaves below need, without the rest of TypeOK.       *)
LEMMA Types ==
    ASSUME TypeOK
    PROVE  /\ idx \in [Users -> Nat] /\ late \in [Users -> Nat]
           /\ Total \in Nat /\ parts \subseteq Users
           /\ shown \in [Users -> Nat]
           /\ solved \in [Users -> SUBSET Nat]
           /\ \A s \in Submissions : /\ sub[s].at \in Nat
                                     /\ sub[s].snap \in [Users -> Nat]
BY DEF TypeOK, SubType, Total

(* The index a submission read stays the current one until it advances:    *)
(* the slot keeps every other submission of the user out.                  *)
LEMMA IndexIsCurrentStep == ASSUME IInv, [Next]_vars PROVE IndexIsCurrent'
<1> SUFFICES ASSUME status' # "deleted", NEW t \in Submissions
             PROVE  /\ sub'[t].pc \in Holding \ {"admitted", "reading"} =>
                         /\ sub'[t].user \in parts'
                         /\ sub'[t].at = idx'[sub'[t].user]
                    /\ sub'[t].pc \in {"judging", "saving", "advancing"} =>
                         sub'[t].at < Total'
                    /\ sub'[t].pc = "completing" => sub'[t].at >= Total'
  BY DEF IndexIsCurrent
<1>0. /\ TypeOK /\ IndexIsCurrent /\ NothingBeforeStart /\ SlotOwned
      /\ RowsTogether
  BY DEF IInv
<1> USE DEF Holding, Total
<1>1. CASE UNCHANGED vars
  BY <1>0, <1>1 DEF vars, IndexIsCurrent
<1>2. CASE RowStep
  BY <1>0, <1>2, RowFrame DEF IndexIsCurrent
<1>3. CASE Killed
  BY <1>0, <1>3 DEF Killed, row, IndexIsCurrent
<1>4. CASE Restarted
  BY <1>0, <1>4 DEF Restarted
<1>5. ASSUME NEW s \in Submissions, NEW u \in Users, Submitted(s, u)
      PROVE  /\ UNCHANGED <<status, parts, problems, idx>>
             /\ sub'[t].pc \in {"admitted", "answering"} \/ sub'[t] = sub[t]
  BY <1>5 DEF Submitted, Others, row
<1>6. ASSUME NEW s \in Submissions, Stepped(s) \/ Unanswered(s)
      PROVE  \/ /\ UNCHANGED <<parts, problems, idx>> /\ status # "deleted"
                /\ sub'[t] = sub[t]
             \/ sub'[t].pc \notin Holding \ {"admitted", "reading"}
             \/ /\ sub'[t].user \in parts'
                /\ sub'[t].at = idx'[sub'[t].user]
                /\ sub'[t].pc \in {"judging", "saving", "advancing"} =>
                     sub'[t].at < Total'
                /\ sub'[t].pc = "completing" => sub'[t].at >= Total'
  <2>1. /\ UNCHANGED <<parts, problems>> /\ status # "deleted"
        /\ t # s => sub'[t] = sub[t]
    BY <1>6, StepFrame DEF Others
  <2>2. CASE Bumped(s) /\ sub[s].pc = "advancing"
    <3>1. sub[s].user \in Users /\ slot[sub[s].user] = s
      BY <1>0, <2>2 DEF SlotOwned
    <3>2. idx' = [idx EXCEPT ![sub[s].user] = idx[sub[s].user] + 1]
      BY <2>2 DEF Bumped, Bump
    <3>3. CASE t = s
      BY <1>0, <1>6, <2>1, <2>2, <3>1, <3>2, <3>3, Types
         DEF IndexIsCurrent, Stepped, Unanswered, Goes, Goner, Refused,
             Admitted, Loaded, Accepted, Saved, Advanced, Counted, Won,
             Overtaken, Reloaded, Answered, Announced, Snapped, Showed
    <3>4. CASE t # s /\ sub[t].pc \in Holding
      <4>1. sub[t].user # sub[s].user
        BY <1>0, <3>1, <3>4 DEF SlotOwned
      <4>2. idx'[sub[t].user] = idx[sub[t].user]
        BY <3>2, <4>1, <1>0, <3>4, Types DEF SlotOwned
      <4> QED  BY <1>0, <2>1, <3>4, <4>2 DEF IndexIsCurrent
    <3>5. CASE t # s /\ sub[t].pc \notin Holding
      BY <2>1, <3>5
    <3> QED  BY <3>3, <3>4, <3>5
  <2>3. CASE ~(Bumped(s) /\ sub[s].pc = "advancing")
    <3>1. UNCHANGED idx
      BY <1>6, <2>3 DEF Stepped, Unanswered, Goes, Finished, Refused,
         Admitted, Loaded, Accepted, Saved, Advanced, Counted, Won,
         Overtaken, Reloaded, Answered, Announced, Snapped, Showed
    <3>2. CASE t # s
      BY <2>1, <3>1, <3>2
    <3>3. CASE t = s /\ Loaded(s)
      BY <1>0, <2>1, <3>1, <3>3, Types DEF Loaded, Goes
    <3>4. CASE t = s /\ (Accepted(s) \/ Saved(s) \/ Counted(s))
      BY <1>0, <2>1, <3>1, <3>4, Types
         DEF Accepted, Saved, Counted, Goes, IndexIsCurrent
    <3>5. CASE t = s /\ ~(Loaded(s) \/ Accepted(s) \/ Saved(s) \/ Counted(s))
      BY <1>6, <2>3, <3>5 DEF Stepped, Unanswered, Goes, Goner, Refused,
         Admitted, Advanced, Won, Overtaken, Reloaded, Answered, Announced,
         Snapped, Showed
    <3> QED  BY <3>2, <3>3, <3>4, <3>5
  <2> QED  BY <2>2, <2>3
<1>7. ASSUME NEW s \in Submissions, NEW u \in Users, Submitted(s, u)
      PROVE  /\ sub'[t].pc \in Holding \ {"admitted", "reading"} =>
                  /\ sub'[t].user \in parts'
                  /\ sub'[t].at = idx'[sub'[t].user]
             /\ sub'[t].pc \in {"judging", "saving", "advancing"} =>
                  sub'[t].at < Total'
             /\ sub'[t].pc = "completing" => sub'[t].at >= Total'
  BY <1>0, <1>5, <1>7 DEF IndexIsCurrent
<1>8. ASSUME NEW s \in Submissions, Stepped(s) \/ Unanswered(s)
      PROVE  /\ sub'[t].pc \in Holding \ {"admitted", "reading"} =>
                  /\ sub'[t].user \in parts'
                  /\ sub'[t].at = idx'[sub'[t].user]
             /\ sub'[t].pc \in {"judging", "saving", "advancing"} =>
                  sub'[t].at < Total'
             /\ sub'[t].pc = "completing" => sub'[t].at >= Total'
  BY <1>0, <1>6, <1>8 DEF IndexIsCurrent
<1> QED  BY <1>0, <1>1, <1>2, <1>3, <1>4, <1>7, <1>8, NextSummary

(* A submission saves and advances only what was judged accepted.          *)
LEMMA JudgedFirstStep == ASSUME IInv, [Next]_vars PROVE JudgedFirst'
<1> SUFFICES ASSUME NEW t \in Submissions,
                    sub'[t].pc \in {"saving", "advancing"}
             PROVE  sub'[t].at \in solved'[sub'[t].user]
  BY DEF JudgedFirst
<1>0. TypeOK /\ JudgedFirst /\ NothingBeforeStart /\ SlotOwned
  BY DEF IInv
<1>1. CASE UNCHANGED <<sub, solved>>
  BY <1>0, <1>1 DEF JudgedFirst
<1>2. CASE RowStep
  BY <1>0, <1>1, <1>2, RowFrame
<1>3. CASE Killed
  BY <1>0, <1>3 DEF Killed, JudgedFirst
<1>4. CASE Restarted
  BY <1>4 DEF Restarted
<1>5. ASSUME NEW s \in Submissions, NEW u \in Users, Submitted(s, u)
      PROVE  sub'[t].at \in solved'[sub'[t].user]
  BY <1>0, <1>5 DEF Submitted, Others, JudgedFirst
<1>6. ASSUME NEW s \in Submissions, Stepped(s) \/ Unanswered(s)
      PROVE  sub'[t].at \in solved'[sub'[t].user]
  <2>1. CASE Accepted(s)
    <3>1. sub[s].user \in Users
      BY <1>0, <2>1 DEF SlotOwned, Accepted, Goes
    <3>2. CASE t = s
      BY <1>0, <2>1, <3>1, <3>2, Types DEF Accepted, Goes
    <3>3. CASE t # s
      <4>1. sub'[t] = sub[t] /\ sub[t].user \in Users
        BY <1>0, <2>1, <3>3 DEF SlotOwned, Accepted, Goes, Others
      <4> QED
        BY <1>0, <2>1, <3>1, <4>1, Types DEF Accepted, JudgedFirst
    <3> QED  BY <3>2, <3>3
  <2>2. CASE ~Accepted(s)
    <3>1. UNCHANGED solved
      BY <1>6, <2>2 DEF Stepped, Unanswered, Bumped, Finished, Refused,
         Admitted, Loaded, Saved, Advanced, Counted, Won, Overtaken, Reloaded,
         Answered, Announced, Snapped, Showed
    <3>2. CASE t # s
      BY <1>0, <1>6, <3>1, <3>2, StepFrame DEF Others, JudgedFirst
    <3>3. CASE t = s
      <4>1. Saved(s)
        BY <1>6, <2>2, <3>3 DEF Stepped, Unanswered, Refused, Admitted,
           Loaded, Advanced, Counted, Won, Overtaken, Reloaded, Answered,
           Announced, Snapped, Showed, Goes, Goner
      <4> QED  BY <1>0, <3>1, <3>3, <4>1 DEF Saved, Goes, JudgedFirst
    <3> QED  BY <3>2, <3>3
  <2> QED  BY <2>1, <2>2
<1>7. CASE UNCHANGED vars
  BY <1>1, <1>7 DEF vars
<1> QED  BY <1>0, <1>2, <1>3, <1>4, <1>5, <1>6, <1>7, NextSummary

(* A game that is over stays over, and keeps its winner until its row is   *)
(* deleted.                                                                *)
LEMMA OverStaysOver ==
    ASSUME TypeOK, NothingBeforeStart, [Next]_vars,
           status \in {"finished", "deleted"}
    PROVE  /\ status' \in {"finished", "deleted"}
           /\ status = "deleted" => status' = "deleted"
           /\ status' # "deleted" =>
                UNCHANGED <<winner, parts, problems, creator, solo>>
<1>1. CASE RowStep
  BY <1>1 DEF RowStep, CreateGame, JoinGame, LeaveGame, StartGame,
     CancelGame, DeleteGame, Connect, row, CompleteGame, TimeoutCheck,
     TimeoutWrite
<1>2. CASE UNCHANGED vars \/ Killed \/ Restarted
  BY <1>2 DEF vars, Killed, Restarted, row
<1>3. ASSUME NEW s \in Submissions, NEW u \in Users, Submitted(s, u)
      PROVE  UNCHANGED row
  BY <1>3 DEF Submitted
<1>4. ASSUME NEW s \in Submissions, Stepped(s) \/ Unanswered(s)
      PROVE  UNCHANGED row
  BY <1>4, StepFrame DEF row
<1> QED  BY <1>1, <1>2, <1>3, <1>4, NextSummary DEF row

(* The steps after which a submission is "won", and those that announce.   *)
LEMMA AnnounceFrame ==
    ASSUME NEW s \in Submissions, Stepped(s) \/ Unanswered(s)
    PROVE  \/ Won(s)
           \/ Announced(s)
           \/ sub'[s].pc # "won" /\ UNCHANGED finishedMsgs
BY DEF Stepped, Unanswered, Bumped, Finished, Refused, Admitted, Loaded,
   Accepted, Saved, Advanced, Counted, Overtaken, Reloaded, Answered, Snapped,
   Showed, Goes, Goner

(* Two submissions cannot both win: the completing transaction sees the    *)
(* finished status the other one committed.                                *)
LEMMA OneWonSubmissionStep == ASSUME IInv, [Next]_vars PROVE OneWonSubmission'
<1>0. /\ TypeOK /\ OneWonSubmission /\ NothingBeforeStart /\ SlotOwned
      /\ RowsTogether
  BY DEF IInv
<1>1. ASSUME \A t \in Submissions : sub'[t].pc = "won" =>
               sub[t].pc = "won" /\ sub'[t].winner = sub[t].winner,
             UNCHANGED finishedMsgs
      PROVE  OneWonSubmission'
  BY <1>0, <1>1, OverStaysOver DEF OneWonSubmission
<1>2. CASE UNCHANGED vars
  BY <1>1, <1>2 DEF vars
<1>3. CASE RowStep
  BY <1>0, <1>1, <1>3, RowFrame
<1>4. CASE Killed \/ Restarted
  BY <1>1, <1>4 DEF Killed, Restarted
<1>5. ASSUME NEW s \in Submissions, NEW u \in Users, Submitted(s, u)
      PROVE  OneWonSubmission'
  BY <1>1, <1>5 DEF Submitted, Others
<1>6. ASSUME NEW s \in Submissions, Stepped(s) \/ Unanswered(s)
      PROVE  OneWonSubmission'
  <2>1. CASE Won(s)
    <3>1. sub[s].user \in Users
      BY <1>0, <2>1 DEF SlotOwned, Won, Goes
    <3>2. creator \in Users
      BY <1>0, <2>1 DEF RowsTogether, TypeOK, Won, Finished
    <3>3. winner' \in Users
      BY <2>1, <3>1, <3>2 DEF Won, Finished, WinnerFor
    <3> QED
      BY <1>0, <2>1, <3>3 DEF Won, Finished, Goes, Others, OneWonSubmission
  <2>2. CASE Announced(s)
    BY <1>0, <2>2 DEF Announced, Goner, Others, OneWonSubmission, row
  <2>3. CASE sub'[s].pc # "won" /\ UNCHANGED finishedMsgs
    BY <1>1, <1>6, <2>3, StepFrame DEF Others
  <2> QED  BY <1>6, <2>1, <2>2, <2>3, AnnounceFrame
<1> QED  BY <1>0, <1>2, <1>3, <1>4, <1>5, <1>6, NextSummary

(* What has been solved stays solved.                                      *)
LEMMA SolvedGrows ==
    ASSUME IInv, [Next]_vars
    PROVE  \A u \in Users : solved[u] \subseteq solved'[u]
<1>0. TypeOK /\ NothingBeforeStart
  BY DEF IInv
<1>1. CASE RowStep \/ UNCHANGED vars \/ Killed \/ Restarted
  BY <1>0, <1>1, RowFrame DEF vars, Killed, Restarted
<1>2. ASSUME NEW s \in Submissions, NEW u \in Users, Submitted(s, u)
      PROVE  UNCHANGED solved
  BY <1>2 DEF Submitted
<1>3. ASSUME NEW s \in Submissions, Stepped(s) \/ Unanswered(s)
      PROVE  \A u \in Users : solved[u] \subseteq solved'[u]
  <2>1. CASE Accepted(s)
    BY <1>0, <2>1, Types DEF Accepted
  <2>2. CASE ~Accepted(s)
    BY <1>3, <2>2 DEF Stepped, Unanswered, Bumped, Finished, Refused,
       Admitted, Loaded, Saved, Advanced, Counted, Won, Overtaken, Reloaded,
       Answered, Announced, Snapped, Showed
  <2> QED  BY <2>1, <2>2
<1> QED  BY <1>0, <1>1, <1>2, <1>3, NextSummary

(* A submission that won had passed every problem of the game.             *)
LEMMA WinEarnedStep == ASSUME IInv, [Next]_vars PROVE WinEarned'
<1> SUFFICES ASSUME status' # "deleted",
                    \/ finishedMsgs' # <<>>
                    \/ \E s \in Submissions : sub'[s].pc = "won"
             PROVE  \E u \in parts' : /\ AllProblems' \subseteq solved'[u]
                                      /\ ~solo' => u = winner'
  BY DEF WinEarned
<1>0. /\ TypeOK /\ WinEarned /\ OneWonSubmission /\ NothingBeforeStart
      /\ IndexIsCurrent /\ ProgressEarned
  BY DEF IInv
<1>1. ASSUME \/ finishedMsgs # <<>>
             \/ \E s \in Submissions : sub[s].pc = "won"
      PROVE  \E u \in parts' : /\ AllProblems' \subseteq solved'[u]
                               /\ ~solo' => u = winner'
  <2>1. /\ status # "deleted"
        /\ UNCHANGED <<winner, parts, problems, solo>>
    BY <1>0, <1>1, OverStaysOver DEF OneWonSubmission
  <2>2. PICK u \in parts : /\ AllProblems \subseteq solved[u]
                           /\ ~solo => u = winner
    BY <1>0, <1>1, <2>1 DEF WinEarned
  <2>3. solved[u] \subseteq solved'[u]
    BY <1>0, SolvedGrows, Types
  <2> QED  BY <2>1, <2>2, <2>3 DEF AllProblems, Total
<1>2. ASSUME NEW s \in Submissions, Won(s)
      PROVE  \E u \in parts' : /\ AllProblems' \subseteq solved'[u]
                               /\ ~solo' => u = winner'
  <2>1. /\ sub[s].user \in parts
        /\ idx[sub[s].user] >= Total
    BY <1>0, <1>2 DEF Won, Finished, Goes, IndexIsCurrent, Holding
  <2>2. AllProblems \subseteq solved[sub[s].user]
    BY <1>0, <2>1, Types DEF ProgressEarned, AllProblems
  <2> QED
    BY <1>2, <2>1, <2>2 DEF Won, Finished, WinnerFor, AllProblems, Total
<1>3. ASSUME ~(\/ finishedMsgs # <<>>
               \/ \E s \in Submissions : sub[s].pc = "won")
      PROVE  \E s \in Submissions : Won(s)
  <2>1. CASE RowStep \/ UNCHANGED vars \/ Killed \/ Restarted
    BY <1>0, <1>3, <2>1, RowFrame DEF vars, Killed, Restarted
  <2>2. ASSUME NEW s \in Submissions, NEW u \in Users, Submitted(s, u)
        PROVE  FALSE
    BY <1>3, <2>2 DEF Submitted, Others
  <2>3. ASSUME NEW s \in Submissions, Stepped(s) \/ Unanswered(s), ~Won(s)
        PROVE  FALSE
    BY <1>3, <2>3, AnnounceFrame, StepFrame DEF Others, Announced, Goner
  <2> QED  BY <1>0, <2>1, <2>2, <2>3, NextSummary
<1> QED  BY <1>1, <1>2, <1>3

(* The index and the history of late advances move only by Bump, which the *)
(* owner of the slot executes.                                             *)
LEMMA BumpFrame ==
    ASSUME IInv, [Next]_vars
    PROVE  \/ UNCHANGED late /\ (UNCHANGED idx \/ status' = "deleted")
           \/ \E s \in Submissions :
                /\ sub[s].pc = "advancing" /\ Others(s)
                /\ sub'[s].pc \in {"counting", "answering"}
                /\ Bumped(s)
<1>0. TypeOK /\ NothingBeforeStart
  BY DEF IInv
<1>1. CASE RowStep
  BY <1>1 DEF RowStep, CreateGame, JoinGame, LeaveGame, StartGame,
     CancelGame, DeleteGame, Connect, row, CompleteGame, TimeoutCheck,
     TimeoutWrite
<1>2. CASE UNCHANGED vars \/ Killed \/ Restarted
  BY <1>2 DEF vars, Killed, Restarted
<1>3. ASSUME NEW s \in Submissions, NEW u \in Users, Submitted(s, u)
      PROVE  UNCHANGED <<idx, late>>
  BY <1>3 DEF Submitted
<1>4. ASSUME NEW s \in Submissions, Stepped(s) \/ Unanswered(s)
      PROVE  \/ UNCHANGED <<idx, late>>
             \/ /\ sub[s].pc = "advancing" /\ Others(s)
                /\ sub'[s].pc \in {"counting", "answering"}
                /\ Bumped(s)
  BY <1>4 DEF Stepped, Unanswered, Finished, Refused, Admitted, Loaded,
     Accepted, Saved, Advanced, Counted, Won, Overtaken, Reloaded, Answered,
     Announced, Snapped, Showed, Goes
<1> QED  BY <1>0, <1>1, <1>2, <1>3, <1>4, NextSummary

(* A submission gets past the status read only while the game is active.   *)
LEMMA EarlyFrame ==
    ASSUME IInv, [Next]_vars, NEW t \in Submissions,
           sub'[t].pc \in {"reading", "judging", "saving", "advancing"}
    PROVE  \/ /\ sub[t].pc \in {"reading", "judging", "saving", "advancing"}
              /\ sub'[t].user = sub[t].user
           \/ /\ status = "active" /\ UNCHANGED late
              /\ sub[t].pc = "admitted" /\ sub'[t].user = sub[t].user
<1>0. TypeOK /\ NothingBeforeStart
  BY DEF IInv
<1>1. CASE RowStep \/ UNCHANGED vars \/ Killed \/ Restarted
  BY <1>0, <1>1, RowFrame DEF vars, Killed, Restarted
<1>2. ASSUME NEW s \in Submissions, NEW u \in Users, Submitted(s, u)
      PROVE  sub'[t] = sub[t]
  BY <1>2 DEF Submitted, Others
<1>3. ASSUME NEW s \in Submissions, Stepped(s) \/ Unanswered(s)
      PROVE  \/ sub'[t] = sub[t]
             \/ /\ sub[t].pc \in {"reading", "judging", "saving", "advancing"}
                /\ sub'[t].user = sub[t].user
             \/ /\ status = "active" /\ UNCHANGED late
                /\ sub[t].pc = "admitted" /\ sub'[t].user = sub[t].user
  <2>1. CASE t = s
    BY <1>3, <2>1 DEF Stepped, Unanswered, Refused, Admitted, Loaded,
       Accepted, Saved, Advanced, Counted, Won, Overtaken, Reloaded, Answered,
       Announced, Snapped, Showed, Goes, Goner
  <2>2. CASE t # s
    BY <1>3, <2>2, StepFrame DEF Others
  <2> QED  BY <2>1, <2>2
<1> QED  BY <1>0, <1>1, <1>2, <1>3, NextSummary

(* The game becomes active only by its start, when nothing is late.        *)
LEMMA ActiveFrame ==
    ASSUME IInv, [Next]_vars, status' = "active"
    PROVE  \/ status = "active"
           \/ status = "pending" /\ UNCHANGED late
<1>0. TypeOK /\ NothingBeforeStart
  BY DEF IInv
<1>1. CASE RowStep
  BY <1>1 DEF RowStep, CreateGame, JoinGame, LeaveGame, StartGame,
     CancelGame, DeleteGame, Connect, row, CompleteGame, TimeoutCheck,
     TimeoutWrite
<1>2. CASE UNCHANGED vars \/ Killed \/ Restarted
  BY <1>2 DEF vars, Killed, Restarted, row
<1>3. ASSUME NEW s \in Submissions, NEW u \in Users, Submitted(s, u)
      PROVE  UNCHANGED status
  BY <1>3 DEF Submitted, row
<1>4. ASSUME NEW s \in Submissions, Stepped(s) \/ Unanswered(s)
      PROVE  UNCHANGED status
  BY <1>4, StepFrame
<1> QED  BY <1>0, <1>1, <1>2, <1>3, <1>4, NextSummary

(* A late advance uses up the one submission of its user that read the     *)
(* active status; none passes that read afterwards.                        *)
LEMMA LateStep ==
    ASSUME IInv, [Next]_vars
    PROVE  NoSecondLateAdvance' /\ LateAdvanceAtMostOnce'
<1>0. /\ TypeOK /\ NoSecondLateAdvance /\ LateAdvanceAtMostOnce
      /\ NothingBeforeStart /\ SlotOwned
  BY DEF IInv
<1>1. status' = "active" => late' = NoProgress
  <2>1. ASSUME status = "active" PROVE UNCHANGED late
    BY <2>1, BumpFrame DEF Bumped, Bump
  <2> QED  BY <1>0, <2>1, ActiveFrame DEF NoSecondLateAdvance, NothingBeforeStart
<1>2. LateAdvanceAtMostOnce'
  <2>1. CASE UNCHANGED late
    BY <1>0, <2>1 DEF LateAdvanceAtMostOnce
  <2>2. ASSUME NEW s \in Submissions, sub[s].pc = "advancing", Bumped(s)
        PROVE  LateAdvanceAtMostOnce'
    <3>1. late[sub[s].user] = 0 /\ sub[s].user \in Users
      BY <1>0, <2>2 DEF NoSecondLateAdvance, SlotOwned
    <3> QED
      BY <1>0, <2>2, <3>1, Types DEF LateAdvanceAtMostOnce, Bumped, Bump
  <2> QED  BY <2>1, <2>2, BumpFrame
<1>3. ASSUME NEW t \in Submissions,
             sub'[t].pc \in {"reading", "judging", "saving", "advancing"}
      PROVE  late'[sub'[t].user] = 0
  <2>1. CASE status = "active" /\ UNCHANGED late /\ sub[t].pc = "admitted"
             /\ sub'[t].user = sub[t].user
    <3>1. sub[t].user \in Users
      BY <1>0, <2>1 DEF SlotOwned
    <3> QED
      BY <1>0, <2>1, <3>1 DEF NoSecondLateAdvance, NoProgress
  <2>2. CASE /\ sub[t].pc \in {"reading", "judging", "saving", "advancing"}
             /\ sub'[t].user = sub[t].user
    <3>1. late[sub[t].user] = 0
      BY <1>0, <2>2 DEF NoSecondLateAdvance
    <3>2. CASE UNCHANGED late
      BY <2>2, <3>1, <3>2
    <3>3. ASSUME NEW s \in Submissions, sub[s].pc = "advancing", Others(s),
                 sub'[s].pc \in {"counting", "answering"}, Bumped(s)
          PROVE  late'[sub'[t].user] = 0
      <4>1. t # s
        BY <1>3, <3>3
      <4>2. sub[t].user # sub[s].user /\ sub[t].user \in Users
        BY <1>0, <2>2, <3>3, <4>1 DEF SlotOwned, Holding
      <4> QED
        BY <1>0, <2>2, <3>1, <3>3, <4>2, Types DEF Bumped, Bump
    <3> QED  BY <3>2, <3>3, BumpFrame
  <2> QED  BY <1>3, <2>1, <2>2, EarlyFrame
<1> QED  BY <1>1, <1>2, <1>3 DEF NoSecondLateAdvance

(* Indices never go down, except with the row.                             *)
LEMMA IndexGrows ==
    ASSUME IInv, [Next]_vars, status' # "deleted"
    PROVE  \A u \in Users : idx[u] <= idx'[u] /\ idx'[u] \in Nat
<1>0. TypeOK
  BY DEF IInv
<1>1. CASE UNCHANGED idx
  BY <1>0, <1>1, Types
<1>2. ASSUME NEW s \in Submissions, Bumped(s)
      PROVE  \A u \in Users : idx[u] <= idx'[u] /\ idx'[u] \in Nat
  BY <1>0, <1>2, Types DEF Bumped, Bump
<1> QED  BY <1>1, <1>2, BumpFrame

(* A snapshot of the progress, and what was shown of it, is never ahead of *)
(* the indices, which only grow.                                           *)
LEMMA ShownStep ==
    ASSUME IInv, [Next]_vars
    PROVE  SnapshotNeverAhead' /\ ShownNeverAhead'
<1> SUFFICES ASSUME status' # "deleted"
             PROVE  /\ \A t \in Submissions : sub'[t].pc = "showing" =>
                         \A u \in Users : sub'[t].snap[u] <= idx'[u]
                    /\ \A u \in Users : shown'[u] <= idx'[u]
  BY DEF SnapshotNeverAhead, ShownNeverAhead
<1>0. /\ TypeOK /\ SnapshotNeverAhead /\ ShownNeverAhead /\ NothingBeforeStart
      /\ \A u \in Users : idx[u] <= idx'[u] /\ idx'[u] \in Nat
  BY IndexGrows DEF IInv
<1>1. status # "deleted"
  BY <1>0, OverStaysOver
<1>2. ASSUME NEW f \in [Users -> Nat], \A u \in Users : f[u] <= idx[u]
      PROVE  \A u \in Users : f[u] <= idx'[u]
  <2> TAKE u \in Users
  <2>1. f[u] \in Nat /\ idx[u] \in Nat /\ idx'[u] \in Nat
    BY <1>0, Types
  <2> QED  BY <1>0, <1>2, <2>1
<1>3. \/ UNCHANGED shown
      \/ \E s \in Submissions : sub[s].pc = "showing" /\ shown' = sub[s].snap
  <2>1. CASE RowStep \/ UNCHANGED vars \/ Killed \/ Restarted
    BY <1>0, <2>1, RowFrame DEF vars, Killed, Restarted
  <2>2. ASSUME NEW s \in Submissions, NEW u \in Users, Submitted(s, u)
        PROVE  UNCHANGED shown
    BY <2>2 DEF Submitted
  <2>3. ASSUME NEW s \in Submissions, Stepped(s) \/ Unanswered(s)
        PROVE  UNCHANGED shown \/ (sub[s].pc = "showing" /\ shown' = sub[s].snap)
    BY <2>3 DEF Stepped, Unanswered, Bumped, Finished, Refused, Admitted,
       Loaded, Accepted, Saved, Advanced, Counted, Won, Overtaken, Reloaded,
       Answered, Announced, Snapped, Showed, Goner
  <2> QED  BY <1>0, <2>1, <2>2, <2>3, NextSummary
<1>4. \A u \in Users : shown'[u] <= idx'[u]
  <2>1. CASE UNCHANGED shown
    BY <1>0, <1>1, <1>2, <2>1, Types DEF ShownNeverAhead
  <2>2. ASSUME NEW s \in Submissions, sub[s].pc = "showing",
               shown' = sub[s].snap
        PROVE  \A u \in Users : shown'[u] <= idx'[u]
    BY <1>0, <1>1, <1>2, <2>2, Types DEF SnapshotNeverAhead
  <2> QED  BY <1>3, <2>1, <2>2
<1>5. ASSUME NEW t \in Submissions, sub'[t].pc = "showing"
      PROVE  \/ sub[t].pc = "showing" /\ sub'[t].snap = sub[t].snap
             \/ sub'[t].snap \in {idx, NoProgress}
  <2>1. CASE RowStep \/ UNCHANGED vars \/ Killed \/ Restarted
    BY <1>0, <1>5, <2>1, RowFrame DEF vars, Killed, Restarted
  <2>2. ASSUME NEW s \in Submissions, NEW u \in Users, Submitted(s, u)
        PROVE  sub'[t] = sub[t]
    BY <1>5, <2>2 DEF Submitted, Others
  <2>3. ASSUME NEW s \in Submissions, Stepped(s) \/ Unanswered(s)
        PROVE  sub'[t] = sub[t] \/ sub'[t].snap \in {idx, NoProgress}
    <3>1. CASE t # s
      BY <2>3, <3>1, StepFrame DEF Others
    <3>2. CASE t = s
      BY <1>5, <2>3, <3>2 DEF Stepped, Unanswered, Refused, Admitted, Loaded,
         Accepted, Saved, Advanced, Counted, Won, Overtaken, Reloaded,
         Answered, Announced, Snapped, Showed, Goes, Goner
    <3> QED  BY <3>1, <3>2
  <2> QED  BY <1>0, <1>5, <2>1, <2>2, <2>3, NextSummary
<1>6. ASSUME NEW t \in Submissions, sub'[t].pc = "showing", NEW u \in Users
      PROVE  sub'[t].snap[u] <= idx'[u]
  <2>1. CASE sub[t].pc = "showing" /\ sub'[t].snap = sub[t].snap
    <3>1. \A v \in Users : sub[t].snap[v] <= idx[v]
      BY <1>0, <1>1, <2>1 DEF SnapshotNeverAhead
    <3> QED  BY <1>0, <1>2, <2>1, <3>1, Types
  <2>2. CASE sub'[t].snap = idx
    BY <1>0, <2>2
  <2>3. CASE sub'[t].snap = NoProgress
    BY <1>0, <2>3 DEF NoProgress
  <2> QED  BY <1>5, <1>6, <2>1, <2>2, <2>3
<1> QED  BY <1>4, <1>6

(* Roster and problems of a game that has started do not change.           *)
LEMMA RosterFrame ==
    ASSUME IInv, [Next]_vars, status' # "deleted"
    PROVE  \/ UNCHANGED <<parts, problems, solo, creator>>
           \/ status \in {"none", "pending"}
<1>0. TypeOK
  BY DEF IInv
<1>1. CASE RowStep
  BY <1>1 DEF RowStep, CreateGame, JoinGame, LeaveGame, StartGame,
     CancelGame, DeleteGame, Connect, row, CompleteGame, TimeoutCheck,
     TimeoutWrite
<1>2. CASE UNCHANGED vars \/ Killed \/ Restarted
  BY <1>2 DEF vars, Killed, Restarted, row
<1>3. ASSUME NEW s \in Submissions, NEW u \in Users, Submitted(s, u)
      PROVE  UNCHANGED row
  BY <1>3 DEF Submitted
<1>4. ASSUME NEW s \in Submissions, Stepped(s) \/ Unanswered(s)
      PROVE  UNCHANGED <<parts, problems, solo, creator>>
  BY <1>4, StepFrame
<1> QED  BY <1>0, <1>1, <1>2, <1>3, <1>4, NextSummary DEF row

(* An index grows by one for a problem that its user passed.               *)
LEMMA ProgressEarnedStep == ASSUME IInv, [Next]_vars PROVE ProgressEarned'
<1>0. /\ TypeOK /\ ProgressEarned /\ NothingBeforeStart /\ IndexIsCurrent
      /\ JudgedFirst /\ RowsTogether /\ SlotOwned
  BY DEF IInv
<1>1. CASE status' = "deleted"
  BY <1>1, RowsTogetherStep DEF RowsTogether, ProgressEarned
<1>2. CASE status' # "deleted" /\ status \in {"none", "pending"}
  <2>1. UNCHANGED idx
    BY <1>0, <1>2, BumpFrame DEF NothingBeforeStart
  <2>2. TypeOK'
    BY <1>0, TypeStep
  <2>3. Total' \in Nat /\ parts' \subseteq Users
    BY <2>2 DEF TypeOK, Total
  <2>4. \A u \in Users : idx'[u] = 0
    BY <1>0, <1>2, <2>1 DEF NothingBeforeStart, NoProgress
  <2> QED  BY <2>3, <2>4 DEF ProgressEarned
<1>3. CASE status' # "deleted" /\ status \notin {"none", "pending"}
  <2>1. UNCHANGED <<parts, problems>> /\ Total' = Total
    BY <1>3, RosterFrame DEF Total
  <2>2. \A u \in Users : solved[u] \subseteq solved'[u]
    BY SolvedGrows
  <2>3. CASE UNCHANGED idx
    BY <1>0, <2>1, <2>2, <2>3, Types DEF ProgressEarned
  <2>4. ASSUME NEW s \in Submissions, sub[s].pc = "advancing", Bumped(s)
        PROVE  ProgressEarned'
    <3>1. status # "deleted"
      BY <1>0, <2>4 DEF Bumped, Bump, RowsTogether
    <3>2. /\ sub[s].at = idx[sub[s].user] /\ sub[s].at < Total
          /\ sub[s].at \in solved[sub[s].user] /\ sub[s].user \in Users
      BY <1>0, <2>4, <3>1 DEF IndexIsCurrent, JudgedFirst, SlotOwned, Holding
    <3>3. idx' = [idx EXCEPT ![sub[s].user] = idx[sub[s].user] + 1]
      BY <2>4 DEF Bumped, Bump
    <3> SUFFICES ASSUME NEW u \in parts
                 PROVE  /\ idx'[u] <= Total
                        /\ \A i \in 0..(idx'[u] - 1) : i \in solved'[u]
      BY <2>1 DEF ProgressEarned
    <3>4. /\ idx[u] <= Total /\ idx[u] \in Nat /\ u \in Users
          /\ \A i \in 0..(idx[u] - 1) : i \in solved'[u]
      BY <1>0, <2>2, Types DEF ProgressEarned
    <3>5. CASE u = sub[s].user
      <4>1. idx'[u] = idx[u] + 1 /\ idx[u] \in solved'[u] /\ idx[u] < Total
        BY <1>0, <2>2, <3>2, <3>3, <3>5, Types
      <4> QED  BY <1>0, <3>4, <4>1, Types
    <3>6. CASE u # sub[s].user
      <4>1. idx'[u] = idx[u]
        BY <1>0, <3>3, <3>4, <3>6, Types
      <4> QED  BY <3>4, <4>1
    <3> QED  BY <3>5, <3>6
  <2> QED  BY <1>3, <2>3, <2>4, BumpFrame
<1> QED  BY <1>1, <1>2, <1>3

(* Whoever is written as winner is a participant, and the roster is fixed  *)
(* by then.                                                                *)
LEMMA WinnerIsPlayerStep == ASSUME IInv, [Next]_vars PROVE WinnerIsPlayer'
<1>0. /\ TypeOK /\ WinnerIsPlayer /\ RowsTogether /\ IndexIsCurrent
      /\ NothingBeforeStart
  BY DEF IInv
<1>1. CASE RowStep
  BY <1>0, <1>1 DEF WinnerIsPlayer, RowStep, CreateGame, JoinGame, LeaveGame,
     StartGame, CancelGame, DeleteGame, Connect, row, CompleteGame,
     TimeoutCheck, TimeoutWrite
<1>2. CASE UNCHANGED vars \/ Killed \/ Restarted
  BY <1>0, <1>2 DEF vars, Killed, Restarted, row, WinnerIsPlayer
<1>3. ASSUME NEW s \in Submissions, NEW u \in Users, Submitted(s, u)
      PROVE  WinnerIsPlayer'
  BY <1>0, <1>3 DEF Submitted, row, WinnerIsPlayer
<1>4. ASSUME NEW s \in Submissions, Stepped(s) \/ Unanswered(s)
      PROVE  WinnerIsPlayer'
  <2>1. CASE UNCHANGED <<status, winner>>
    BY <1>0, <1>4, <2>1, StepFrame DEF WinnerIsPlayer
  <2>2. CASE /\ status = "active" /\ status' = "finished"
             /\ sub[s].pc = "completing" /\ winner' = WinnerFor(sub[s].user)
    <3>1. sub[s].user \in parts /\ creator \in parts
      BY <1>0, <2>2 DEF IndexIsCurrent, RowsTogether, Holding
    <3> QED  BY <1>4, <2>2, <3>1, StepFrame DEF WinnerFor, WinnerIsPlayer
  <2> QED  BY <1>4, <2>1, <2>2, StepFrame
<1> QED  BY <1>0, <1>1, <1>2, <1>3, <1>4, NextSummary

(* A game is announced once, by the submission that completed it.          *)
LEMMA OneAnnouncementStep == ASSUME IInv, [Next]_vars PROVE OneAnnouncement'
<1>0. /\ TypeOK /\ OneAnnouncement /\ OneWonSubmission /\ NothingBeforeStart
      /\ finishedMsgs \in Seq(Users \cup {NoUser})
  BY DEF IInv, TypeOK
<1>1. CASE UNCHANGED finishedMsgs
  <2>1. CASE finishedMsgs = <<>>
    BY <1>1, <2>1 DEF OneAnnouncement
  <2>2. CASE finishedMsgs # <<>>
    BY <1>0, <1>1, <2>2, OverStaysOver DEF OneAnnouncement, OneWonSubmission
  <2> QED  BY <2>1, <2>2
<1>2. ASSUME NEW s \in Submissions, Announced(s) PROVE OneAnnouncement'
  <2>1. finishedMsgs = <<>> /\ (status # "deleted" => sub[s].winner = winner)
    BY <1>0, <1>2 DEF Announced, Goner, OneWonSubmission
  <2>2. finishedMsgs' = <<sub[s].winner>>
    BY <1>2, <2>1 DEF Announced
  <2> QED  BY <1>2, <2>1, <2>2 DEF OneAnnouncement, Announced, row
<1>3. CASE RowStep \/ UNCHANGED vars \/ Killed \/ Restarted
  BY <1>0, <1>1, <1>3, RowFrame DEF vars, Killed, Restarted
<1>4. ASSUME NEW s \in Submissions, NEW u \in Users, Submitted(s, u)
      PROVE  OneAnnouncement'
  BY <1>1, <1>4 DEF Submitted
<1>5. ASSUME NEW s \in Submissions, Stepped(s) \/ Unanswered(s)
      PROVE  OneAnnouncement'
  BY <1>1, <1>2, <1>5, AnnounceFrame DEF Won, Finished
<1> QED  BY <1>0, <1>3, <1>4, <1>5, NextSummary

(* A solution is saved for the problem the submission was judged on.       *)
LEMMA SolutionsEarnedStep == ASSUME IInv, [Next]_vars PROVE SolutionsEarned'
<1>0. /\ TypeOK /\ SolutionsEarned /\ NothingBeforeStart /\ RowsTogether
      /\ IndexIsCurrent /\ JudgedFirst
  BY DEF IInv
<1>1. CASE status' = "deleted"
  BY <1>1, RowsTogetherStep DEF RowsTogether, SolutionsEarned
<1>2. CASE status' # "deleted" /\ UNCHANGED solutions
  <2>1. CASE solutions = {}
    BY <1>2, <2>1 DEF SolutionsEarned
  <2>2. CASE solutions # {}
    <3>1. UNCHANGED <<parts, problems>> /\ Total' = Total
      BY <1>0, <1>2, <2>2, RosterFrame DEF NothingBeforeStart, Total
    <3>2. \A u \in Users : solved[u] \subseteq solved'[u]
      BY SolvedGrows
    <3> SUFFICES ASSUME NEW x \in solutions
                 PROVE  /\ x[1] \in parts
                        /\ \E i \in solved'[x[1]] :
                             i < Total /\ problems[i + 1] = x[2]
      BY <1>2, <3>1 DEF SolutionsEarned
    <3>3. x[1] \in parts /\ x[1] \in Users
      BY <1>0, Types DEF SolutionsEarned
    <3>4. PICK i \in solved[x[1]] : i < Total /\ problems[i + 1] = x[2]
      BY <1>0 DEF SolutionsEarned
    <3> QED  BY <3>2, <3>3, <3>4
  <2> QED  BY <2>1, <2>2
<1>3. ASSUME NEW s \in Submissions, Saved(s), status' # "deleted",
             solutions' # solutions
      PROVE  SolutionsEarned'
  <2>1. /\ UNCHANGED <<status, parts, problems, solved>> /\ Total' = Total
        /\ sub[s].pc = "saving" /\ sub[s].at < Total
        /\ solutions' = solutions \cup
                          {<<sub[s].user, problems[sub[s].at + 1]>>}
    BY <1>3 DEF Saved, Goes, row, Total
  <2>2. sub[s].user \in parts /\ sub[s].at \in solved[sub[s].user]
    BY <1>0, <1>3, <2>1 DEF IndexIsCurrent, JudgedFirst, Holding
  <2> SUFFICES ASSUME NEW x \in solutions'
               PROVE  /\ x[1] \in parts
                      /\ \E i \in solved[x[1]] :
                           i < Total /\ problems[i + 1] = x[2]
    BY <2>1 DEF SolutionsEarned
  <2>3. CASE x \in solutions
    BY <1>0, <2>3 DEF SolutionsEarned
  <2>4. CASE x = <<sub[s].user, problems[sub[s].at + 1]>>
    BY <2>1, <2>2, <2>4
  <2> QED  BY <2>1, <2>3, <2>4
<1>4. CASE RowStep
  <2>1. status' = "deleted" \/ UNCHANGED solutions
    BY <1>4 DEF RowStep, CreateGame, JoinGame, LeaveGame, StartGame,
       CancelGame, DeleteGame, Connect, row, CompleteGame, TimeoutCheck,
       TimeoutWrite
  <2> QED  BY <1>1, <1>2, <2>1
<1>5. CASE UNCHANGED vars \/ Killed \/ Restarted
  BY <1>1, <1>2, <1>5 DEF vars, Killed, Restarted
<1>6. ASSUME NEW s \in Submissions, NEW u \in Users, Submitted(s, u)
      PROVE  SolutionsEarned'
  BY <1>1, <1>2, <1>6 DEF Submitted
<1>7. ASSUME NEW s \in Submissions, Stepped(s) \/ Unanswered(s)
      PROVE  SolutionsEarned'
  <2>1. Saved(s) \/ UNCHANGED solutions
    BY <1>7 DEF Stepped, Unanswered, Bumped, Finished, Refused, Admitted,
       Loaded, Accepted, Advanced, Counted, Won, Overtaken, Reloaded,
       Answered, Announced, Snapped, Showed
  <2> QED  BY <1>1, <1>2, <1>3, <2>1
<1> QED  BY <1>0, <1>4, <1>5, <1>6, <1>7, NextSummary

-----------------------------------------------------------------------------
(* The inductive invariant holds in every state: it is what makes the      *)
(* blind increment, the unlocked reads and the late messages of the        *)
(* submission pipeline harmless.                                           *)
THEOREM Inductive == Spec => []IInv
<1>1. Init => IInv
  <2> SUFFICES ASSUME Init PROVE IInv
    OBVIOUS
  <2>1. TypeOK
    BY TypeInit
  <2>2. \A s \in Submissions : sub[s].pc = "idle"
    BY DEF Init, IdleSub
  <2>3. \A u \in Users : shown[u] <= idx[u] /\ late[u] <= 1
    BY DEF Init, NoProgress
  <2> QED
    BY <2>1, <2>2, <2>3 DEF Init, IInv, SlotOwned, NothingBeforeStart,
       RowsTogether, TimeoutsAreSolo, IndexIsCurrent, JudgedFirst,
       OneWonSubmission, WinEarned, NoSecondLateAdvance, SnapshotNeverAhead,
       ProgressEarned, WinnerIsPlayer, OneAnnouncement,
       LateAdvanceAtMostOnce, ShownNeverAhead, SolutionsEarned, Holding
<1>2. IInv /\ [Next]_vars => IInv'
  <2> SUFFICES ASSUME IInv, [Next]_vars PROVE IInv'
    OBVIOUS
  <2>1. TypeOK'
    BY TypeStep DEF IInv
  <2> QED
    BY <2>1, SlotOwnedStep, NothingBeforeStartStep, RowsTogetherStep,
       TimeoutsAreSoloStep, IndexIsCurrentStep, JudgedFirstStep,
       OneWonSubmissionStep, WinEarnedStep, LateStep, ShownStep,
       ProgressEarnedStep, WinnerIsPlayerStep, OneAnnouncementStep,
       SolutionsEarnedStep DEF IInv
<1> QED  BY <1>1, <1>2, PTL DEF Spec

(* A participant's index counts only problems that the participant's code  *)
(* passed, one after the other.                                            *)
THEOREM ProgressIsEarned == Spec => []ProgressEarned
<1>1. IInv => ProgressEarned
  BY DEF IInv
<1> QED  BY <1>1, Inductive, PTL

(* The room hears of at most one winner, the one in the row, and that      *)
(* winner's side passed every problem.                                     *)
THEOREM AnnouncementsAreTrue == Spec => []AnnouncementsTrue
<1>1. IInv => AnnouncementsTrue
  BY DEF IInv, WinEarned, AnnouncedWinEarned, AnnouncementsTrue
<1> QED  BY <1>1, Inductive, PTL

(* Whoever completes the game, its winner is one of its participants.      *)
THEOREM WinnersPlay == Spec => []WinnerIsPlayer
<1>1. IInv => WinnerIsPlayer
  BY DEF IInv
<1> QED  BY <1>1, Inductive, PTL

(* After the end of a game each user's index moves at most once more.      *)
THEOREM LateAdvances == Spec => []LateAdvanceAtMostOnce
<1>1. IInv => LateAdvanceAtMostOnce
  BY DEF IInv
<1> QED  BY <1>1, Inductive, PTL

(* Solutions belong to participants who passed the problem, and broadcast  *)
(* progress is never ahead of the rows.                                    *)
THEOREM RecordsAreEarned == Spec => []RecordsEarned
<1>1. IInv => RecordsEarned
  BY DEF IInv, RecordsEarned
<1> QED  BY <1>1, Inductive, PTL

(* A winner is never replaced.                                             *)
THEOREM WinnersStay == Spec => WinnerWriteOnce
<1>1. IInv /\ [Next]_vars =>
        [winner # NoUser => (winner' = winner \/ status' = "deleted")]_vars
  <2> SUFFICES ASSUME IInv, [Next]_vars, winner # NoUser
               PROVE  winner' = winner \/ status' = "deleted"
    OBVIOUS
  <2> QED
    BY OverStaysOver DEF IInv, WinnerIsPlayer
<1> QED  BY <1>1, Inductive, PTL DEF Spec, WinnerWriteOnce

(* The roster of a started game is fixed.                                  *)
THEOREM RosterIsFrozen == Spec => RosterFrozen
<1>1. IInv /\ [Next]_vars =>
        [(status \in {"active", "finished"}) =>
           (parts' = parts \/ status' = "deleted")]_vars
  <2> SUFFICES ASSUME IInv, [Next]_vars, status \in {"active", "finished"}
               PROVE  parts' = parts \/ status' = "deleted"
    OBVIOUS
  <2> QED  BY RosterFrame
<1> QED  BY <1>1, Inductive, PTL DEF Spec, RosterFrozen

(* A set with two or more elements holds two different ones.               *)
LEMMA TwoMembers ==
    ASSUME NEW S, Cardinality(S) >= 2
    PROVE  \E x, y \in S : x # y
<1> SUFFICES ASSUME \A x, y \in S : x = y PROVE FALSE
  OBVIOUS
<1>1. CASE S = {}
  BY <1>1, FS_EmptySet
<1>2. CASE S # {}
  <2>1. PICK x \in S : TRUE
    BY <1>2
  <2>2. S = {x}
    BY <2>1
  <2>3. Cardinality(S) = 1
    BY <2>2, FS_Singleton
  <2> QED  BY <2>3
<1> QED  BY <1>1, <1>2

(* The rows of the game implement the lifecycle that GameLifecycle states. *)
THEOREM ImplementsLifecycle == Spec => LifecycleSpec
<1>1. Init => Lifecycle!Init
  BY DEF Init, Lifecycle!Init
<1>2. IInv /\ [Next]_vars => [Lifecycle!Next]_(Lifecycle!vars)
  <2> SUFFICES ASSUME IInv, [Next]_vars
               PROVE  [Lifecycle!Next]_(Lifecycle!vars)
    OBVIOUS
  <2> USE DEF Lifecycle!Next, Lifecycle!vars
  <2>0. /\ TypeOK /\ RowsTogether /\ NothingBeforeStart /\ TimeoutsAreSolo
        /\ IndexIsCurrent
    BY DEF IInv
  <2>1. ASSUME NEW u \in Users, NEW ps \in ProblemLists, NEW b \in BOOLEAN,
               CreateGame(u, ps, b)
        PROVE  Lifecycle!Open(u, b)
    BY <2>1 DEF CreateGame, Lifecycle!Open
  <2>2. ASSUME NEW u \in Users, JoinGame(u) \/ LeaveGame(u)
        PROVE  Lifecycle!ChangeRoster(u)
    BY <2>0, <2>2 DEF JoinGame, LeaveGame, RowsTogether,
       Lifecycle!ChangeRoster
  <2>3. ASSUME NEW u \in Users, StartGame(u) PROVE Lifecycle!Begin
    <3>1. solo \/ \E x, y \in parts : x # y
      BY <2>3, TwoMembers DEF StartGame, MinPlayers
    <3> QED  BY <2>3, <3>1 DEF StartGame, Lifecycle!Begin
  <2>4. ASSUME NEW u \in Users, CancelGame(u) PROVE Lifecycle!Cancel
    BY <2>4 DEF CancelGame, Lifecycle!Cancel
  <2>5. ASSUME NEW u \in Users, DeleteGame(u) PROVE Lifecycle!Delete
    BY <2>0, <2>5 DEF DeleteGame, Lifecycle!Delete, TypeOK, Statuses
  <2>6. ASSUME NEW u \in Users, NEW w \in Users, CompleteGame(u, w)
        PROVE  Lifecycle!Win(w)
    BY <2>6 DEF CompleteGame, Lifecycle!Win
  <2>7. ASSUME NEW r \in TimeoutRequests, TimeoutWrite(r)
        PROVE  Lifecycle!TimeUp \/ UNCHANGED Lifecycle!vars
    BY <2>0, <2>7 DEF TimeoutWrite, TimeoutsAreSolo, NothingBeforeStart,
       TypeOK, Statuses, Lifecycle!TimeUp
  <2>8. ASSUME NEW u \in Users,
               Connect(u) \/ \E r \in TimeoutRequests : TimeoutCheck(r, u)
        PROVE  UNCHANGED Lifecycle!vars
    BY <2>8 DEF Connect, row, TimeoutCheck
  <2>9. CASE RowStep
    BY <2>1, <2>2, <2>3, <2>4, <2>5, <2>6, <2>7, <2>8, <2>9 DEF RowStep
  <2>10. CASE UNCHANGED vars \/ Killed \/ Restarted
    BY <2>10 DEF vars, Killed, Restarted, row
  <2>11. ASSUME NEW s \in Submissions, NEW u \in Users, Submitted(s, u)
         PROVE  UNCHANGED Lifecycle!vars
    BY <2>11 DEF Submitted, row
  <2>12. ASSUME NEW s \in Submissions, Stepped(s) \/ Unanswered(s)
         PROVE  [Lifecycle!Next]_(Lifecycle!vars)
    <3>1. CASE UNCHANGED <<status, winner>>
      BY <2>12, <3>1, StepFrame
    <3>2. CASE /\ status = "active" /\ status' = "finished"
               /\ sub[s].pc = "completing"
               /\ winner' = WinnerFor(sub[s].user)
      <4>1. WinnerFor(sub[s].user) \in parts
        BY <2>0, <3>2 DEF IndexIsCurrent, RowsTogether, Holding, WinnerFor
      <4>2. Lifecycle!Win(WinnerFor(sub[s].user))
        BY <2>12, <3>2, <4>1, StepFrame DEF Lifecycle!Win
      <4>3. WinnerFor(sub[s].user) \in Users
        BY <2>0, <4>1 DEF TypeOK
      <4> QED  BY <4>2, <4>3
    <3> QED  BY <2>12, <3>1, <3>2, StepFrame
  <2> QED  BY <2>0, <2>9, <2>10, <2>11, <2>12, NextSummary
<1> QED
  BY <1>1, <1>2, Inductive, PTL DEF Spec, LifecycleSpec, Lifecycle!Spec

=============================================================================
