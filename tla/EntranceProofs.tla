--------------------------- MODULE EntranceProofs ---------------------------
(* Theorems about module Entrance, for every number of requests of each    *)
(* kind, attempts, codes, sessions and faults.                             *)
EXTENDS Entrance, FiniteSetTheorems, TLAPS

(* The requests that hold the hash of code g and have yet to compare it.   *)
Comparing(g) ==
    {v \in Verifiers : verifier[v].pc = "comparing" /\ verifier[v].gen = g}

(* The attempts that code g may have been counted: those in its row, or,   *)
(* once the row is deleted or replaced, the limit.                         *)
Budget(g) == IF g = code.gen THEN code.attempts ELSE MaxAttempts

(* Codes are numbered as they are saved.                                   *)
GenInv ==
    /\ code.gen <= issued
    /\ \A v \in Verifiers :
          verifier[v].pc = "comparing" => verifier[v].gen \in 1..issued

(* The guesses made of a code and those under way were counted.            *)
GuessInv ==
    \A g \in Codes :
        /\ IsFiniteSet(Comparing(g))
        /\ compared[g] + Cardinality(Comparing(g)) <= Budget(g)
        /\ g > issued => compared[g] = 0

(* The requests that have passed the cooldown and have yet to save.        *)
Saving == {s \in Senders : sender[s].pc = "saving"}

(* While the stored code is new no request passes the cooldown, but for a  *)
(* fault: those that will still replace it passed before it was saved.     *)
CooldownInv ==
    IF code.age = "new"
      THEN overrun + Cardinality(Saving) < Cardinality(Senders) + faults
      ELSE overrun = 0

(* The inductive invariant.                                                *)
IInv == TypeOK /\ GenInv /\ GuessInv /\ StoredCodeMailed /\ CooldownInv

-----------------------------------------------------------------------------
(* Types.                                                                  *)

(* The places of a request that brings a code.                             *)
VerifierPCs ==
    {"idle", "counting", "comparing", "finding", "creating", "refinding",
     "verifying", "deleting", "opening", "entered"}

(* The first state has its types.                                          *)
LEMMA InitType == Init => TypeOK
<1> SUFFICES ASSUME Init PROVE TypeOK
  OBVIOUS
<1> USE EntranceAssumption DEF Init
<1>1. code \in [gen : 0..MaxCodes, age : {"new", "old", "expired"},
               attempts : 0..MaxAttempts]
  BY DEF NoCode
<1>2. session \in [Sessions -> {"none", "ended", "expired"} \cup Alive]
  OBVIOUS
<1>3. sender \in [Senders -> [pc : {"idle", "saving", "mailing", "deleting"},
                             gen : 0..MaxCodes]]
  OBVIOUS
<1>4. verifier \in [Verifiers -> [pc : VerifierPCs, gen : 0..MaxCodes]]
  BY DEF VerifierPCs
<1>5. client \in [Clients -> [pc : {"idle", "refreshing", "inside"},
                             id : 0..MaxSessions]]
  OBVIOUS
<1>6. /\ issued \in 0..MaxCodes /\ compared \in [Codes -> Nat]
      /\ faults \in 0..MaxFaults /\ overrun \in Nat
  OBVIOUS
<1>7. mailed \in BOOLEAN /\ account \in {"none", "unverified", "verified"}
  OBVIOUS
<1> HIDE DEF Init
<1> QED  BY <1>1, <1>2, <1>3, <1>4, <1>5, <1>6, <1>7 DEF TypeOK, VerifierPCs

(* Replacing one value of a function keeps its type.                       *)
LEMMA FunUpdate ==
    ASSUME NEW A, NEW B, NEW f \in [A -> B], NEW x, NEW v, x \in A => v \in B
    PROVE  [f EXCEPT ![x] = v] \in [A -> B]
OBVIOUS

(* Leave and Step keep the type of the requests that bring a code.         *)
LEMMA VerifierType ==
    ASSUME TypeOK, NEW v \in Verifiers, NEW pc \in VerifierPCs,
           Leave(v, pc) \/ Step(v, pc)
    PROVE  verifier' \in [Verifiers -> [pc : VerifierPCs, gen : 0..MaxCodes]]
<1> USE EntranceAssumption
<1>1. verifier[v] \in [pc : VerifierPCs, gen : 0..MaxCodes]
  BY DEF TypeOK, VerifierPCs
<1>2. /\ [pc |-> pc, gen |-> 0] \in [pc : VerifierPCs, gen : 0..MaxCodes]
      /\ [verifier[v] EXCEPT !.pc = pc] \in [pc : VerifierPCs, gen : 0..MaxCodes]
  BY <1>1
<1>3. verifier \in [Verifiers -> [pc : VerifierPCs, gen : 0..MaxCodes]]
  BY DEF TypeOK, VerifierPCs
<1> QED  BY <1>2, <1>3 DEF Leave, Step

(* Moving on or ending keeps the type of the requests that ask for one.    *)
LEMMA SenderType ==
    ASSUME TypeOK, NEW s \in Senders,
           NEW pc \in {"idle", "saving", "mailing", "deleting"},
           NEW g \in 0..MaxCodes,
           \/ sender' = [sender EXCEPT ![s] = [pc |-> pc, gen |-> g]]
           \/ sender' = [sender EXCEPT ![s].pc = pc]
    PROVE  sender' \in [Senders -> [pc : {"idle", "saving", "mailing", "deleting"},
                                    gen : 0..MaxCodes]]
<1>1. sender[s] \in [pc : {"idle", "saving", "mailing", "deleting"},
                     gen : 0..MaxCodes]
  BY DEF TypeOK
<1> QED  BY <1>1 DEF TypeOK

(* The same for the requests that bring a session's token.                 *)
LEMMA ClientType ==
    ASSUME TypeOK, NEW c \in Clients, NEW pc \in {"idle", "refreshing", "inside"},
           NEW i \in 0..MaxSessions,
           \/ client' = [client EXCEPT ![c] = [pc |-> pc, id |-> i]]
           \/ client' = [client EXCEPT ![c].pc = pc]
    PROVE  client' \in [Clients -> [pc : {"idle", "refreshing", "inside"},
                                    id : 0..MaxSessions]]
<1>1. client[c] \in [pc : {"idle", "refreshing", "inside"}, id : 0..MaxSessions]
  BY DEF TypeOK
<1> QED  BY <1>1 DEF TypeOK

(* The steps of a request for a code.                                      *)
LEMMA SenderStepType ==
    ASSUME TypeOK, NEW s \in Senders,
           AskForCode(s) \/ AskUnseen(s) \/ Send(s) \/ SendFails(s)
    PROVE  TypeOK'
<1> USE EntranceAssumption
<1>0. 0 \in 0..MaxCodes /\ faults \in 0..MaxFaults
      /\ (faults < MaxFaults => faults + 1 \in 0..MaxFaults)
  BY DEF TypeOK
<1>1. CASE AskForCode(s)
  <2>1. sender' = [sender EXCEPT ![s].pc = "saving"]
    BY <1>1 DEF AskForCode
  <2> QED  BY <1>0, <1>1, <2>1, SenderType DEF AskForCode, TypeOK, codeVars
<1>2. CASE AskUnseen(s)
  <2>1. sender' = [sender EXCEPT ![s].pc = "saving"] /\ faults' \in 0..MaxFaults
    BY <1>0, <1>2 DEF AskUnseen
  <2> QED  BY <1>0, <1>2, <2>1, SenderType DEF AskUnseen, TypeOK, codeVars
<1>3. CASE SaveCode(s)
  <2>1. /\ issued + 1 \in 0..MaxCodes /\ overrun' \in Nat
        /\ code' \in [gen : 0..MaxCodes, age : {"new", "old", "expired"},
                      attempts : 0..MaxAttempts]
    BY <1>3 DEF SaveCode, TypeOK
  <2>2. sender' = [sender EXCEPT ![s] = [pc |-> "mailing", gen |-> issued + 1]]
    BY <1>3 DEF SaveCode
  <2>3. sender' \in [Senders -> [pc : {"idle", "saving", "mailing", "deleting"},
                                 gen : 0..MaxCodes]]
    BY <2>1, <2>2, SenderType
  <2> QED  BY <1>3, <2>1, <2>3 DEF SaveCode, TypeOK
<1>4. CASE Mail(s)
  <2>1. mailed' \in BOOLEAN
    BY <1>4 DEF Mail, TypeOK
  <2>2. sender' \in [Senders -> [pc : {"idle", "saving", "mailing", "deleting"},
                                 gen : 0..MaxCodes]]
    BY <1>0, <1>4, SenderType DEF Mail
  <2> QED  BY <1>4, <2>1, <2>2 DEF Mail, TypeOK
<1>5. CASE Withdraw(s)
  <2>1. sender' \in [Senders -> [pc : {"idle", "saving", "mailing", "deleting"},
                                 gen : 0..MaxCodes]]
    BY <1>0, <1>5, SenderType DEF Withdraw
  <2>2. code' \in [gen : 0..MaxCodes, age : {"new", "old", "expired"},
                   attempts : 0..MaxAttempts]
    BY <1>5 DEF Withdraw, DeleteRow, NoCode
  <2> QED  BY <1>5, <2>1, <2>2 DEF Withdraw, DeleteRow, TypeOK
<1>6. CASE SendFails(s)
  <2>1. sender' \in [Senders -> [pc : {"idle", "saving", "mailing", "deleting"},
                                 gen : 0..MaxCodes]]
    BY <1>0, <1>6, SenderType DEF SendFails
  <2> QED  BY <1>0, <1>6, <2>1 DEF SendFails, TypeOK, codeVars
<1> QED  BY <1>1, <1>2, <1>3, <1>4, <1>5, <1>6 DEF Send

(* The steps of a request that brings a code.                              *)
LEMMA VerifierStepType ==
    ASSUME TypeOK, NEW v \in Verifiers, BringCode(v) \/ Verify(v) \/ VerifyFails(v)
    PROVE  TypeOK'
<1> DEFINE VType == [Verifiers -> [pc : VerifierPCs, gen : 0..MaxCodes]]
           CType == [gen : 0..MaxCodes, age : {"new", "old", "expired"},
                     attempts : 0..MaxAttempts]
<1> USE EntranceAssumption
<1>0. /\ verifier \in VType /\ code \in CType /\ code.gen \in 0..MaxCodes
      /\ code.attempts \in 0..MaxAttempts /\ faults \in 0..MaxFaults
      /\ (faults < MaxFaults => faults + 1 \in 0..MaxFaults)
  BY DEF TypeOK, VerifierPCs
<1>a. ASSUME verifier' \in VType, UNCHANGED <<codeVars, account, session, sender,
                                              client, faults>>
      PROVE  TypeOK'
  BY <1>a DEF TypeOK, VerifierPCs, codeVars
<1>b. \A pc : Leave(v, pc) \/ Step(v, pc) => (pc \in VerifierPCs => verifier' \in VType)
  BY VerifierType
<1>c. \A pc \in VerifierPCs, g \in 0..MaxCodes :
        [verifier EXCEPT ![v] = [pc |-> pc, gen |-> g]] \in VType
  BY <1>0
<1>1. CASE BringCode(v)
  <2>1. verifier' \in VType
    BY <1>0, <1>1, <1>c DEF BringCode, VerifierPCs
  <2> QED  BY <1>1, <1>a, <2>1 DEF BringCode
<1>2. CASE CountAttempt(v)
  <2>1. CASE code.gen # 0 /\ code.attempts < MaxAttempts
    <3>1. verifier' \in VType
      BY <1>0, <1>2, <1>c, <2>1 DEF CountAttempt, VerifierPCs
    <3>2. code.attempts + 1 \in 0..MaxAttempts
      BY <1>0, <2>1
    <3>3. code' = [code EXCEPT !.attempts = code.attempts + 1]
      BY <1>2, <2>1 DEF CountAttempt
    <3>4. code' \in CType
      BY <1>0, <3>2, <3>3
    <3> QED  BY <1>2, <3>1, <3>4 DEF CountAttempt, TypeOK, VerifierPCs
  <2>2. CASE ~(code.gen # 0 /\ code.attempts < MaxAttempts)
    <3>1. verifier' \in VType /\ UNCHANGED code
      BY <1>2, <1>b, <2>2 DEF CountAttempt, VerifierPCs
    <3> QED  BY <1>2, <1>a, <3>1 DEF CountAttempt, codeVars
  <2> QED  BY <2>1, <2>2
<1>3. CASE Compare(v)
  <2>1. verifier' \in VType
    BY <1>3, <1>b DEF Compare, VerifierPCs
  <2>2. compared' \in [Codes -> Nat]
    <3> DEFINE g == verifier[v].gen
    <3>1. compared \in [Codes -> Nat] /\ (g \in Codes => compared[g] + 1 \in Nat)
      BY DEF TypeOK
    <3>2. [compared EXCEPT ![g] = compared[g] + 1] \in [Codes -> Nat]
      BY <3>1, FunUpdate
    <3> QED  BY <1>3, <3>2 DEF Compare
  <2> QED  BY <1>3, <2>1, <2>2 DEF Compare, TypeOK, VerifierPCs
<1>4. CASE FindUser(v)
  <2>1. verifier' \in VType
    BY <1>4, <1>b DEF FindUser, VerifierPCs
  <2> QED  BY <1>4, <1>a, <2>1 DEF FindUser
<1>5. CASE CreateUser(v)
  <2>1. verifier' \in VType
    BY <1>5, <1>b DEF CreateUser, VerifierPCs
  <2> QED  BY <1>5, <2>1 DEF CreateUser, TypeOK, VerifierPCs, codeVars
<1>6. CASE FindAgain(v)
  <2>1. verifier' \in VType
    BY <1>6, <1>b DEF FindAgain, VerifierPCs
  <2> QED  BY <1>6, <1>a, <2>1 DEF FindAgain
<1>7. CASE SetEmailVerified(v)
  <2>1. verifier' \in VType
    BY <1>7, <1>b DEF SetEmailVerified, VerifierPCs
  <2> QED  BY <1>7, <2>1 DEF SetEmailVerified, TypeOK, VerifierPCs, codeVars
<1>8. CASE DeleteCode(v)
  <2>1. verifier' \in VType
    BY <1>8, <1>b DEF DeleteCode, VerifierPCs
  <2>2. code' \in CType /\ mailed' \in BOOLEAN /\ overrun' \in Nat
        /\ faults' \in 0..MaxFaults
    <3>1. CASE DeleteRow /\ UNCHANGED faults
      <4>1. NoCode \in CType
        BY DEF NoCode
      <4> QED  BY <1>0, <3>1, <4>1 DEF DeleteRow
    <3>2. CASE ~(DeleteRow /\ UNCHANGED faults)
      BY <1>0, <1>8, <3>2 DEF DeleteCode, TypeOK
    <3> QED  BY <3>1, <3>2
  <2> QED  BY <1>8, <2>1, <2>2 DEF DeleteCode, TypeOK, VerifierPCs
<1>9. CASE OpenSession(v)
  <2>1. verifier' \in VType
    BY <1>9, <1>b DEF OpenSession, VerifierPCs
  <2>2. session' \in [Sessions -> {"none", "ended", "expired"} \cup Alive]
    BY <1>9 DEF OpenSession, TypeOK, Alive
  <2> QED  BY <1>9, <2>1, <2>2 DEF OpenSession, TypeOK, VerifierPCs, codeVars
<1>10. CASE Answered(v)
  <2>1. verifier' \in VType
    BY <1>10, <1>b DEF Answered, VerifierPCs
  <2> QED  BY <1>10, <1>a, <2>1 DEF Answered
<1>11. CASE VerifyFails(v)
  <2>1. verifier' \in VType /\ faults' \in 0..MaxFaults
    BY <1>0, <1>11, <1>b DEF VerifyFails, VerifierPCs
  <2> QED  BY <1>11, <2>1 DEF VerifyFails, TypeOK, VerifierPCs, codeVars
<1> QED  BY <1>1, <1>2, <1>3, <1>4, <1>5, <1>6, <1>7, <1>8, <1>9, <1>10, <1>11
        DEF Verify

(* The steps of a request with a session.                                  *)
LEMMA ClientStepType ==
    ASSUME TypeOK, NEW c \in Clients,
           \/ Authenticate(c) \/ Refresh(c) \/ RefreshFails(c)
           \/ Logout(c) \/ Serve(c)
    PROVE  TypeOK'
<1> DEFINE XType == [Clients -> [pc : {"idle", "refreshing", "inside"},
                                 id : 0..MaxSessions]]
           SType == [Sessions -> {"none", "ended", "expired"} \cup Alive]
<1> USE EntranceAssumption
<1>0. /\ session \in SType /\ 0 \in 0..MaxSessions /\ faults \in 0..MaxFaults
      /\ (faults < MaxFaults => faults + 1 \in 0..MaxFaults)
  BY DEF TypeOK
<1>a. ASSUME client' \in XType, session' \in SType, faults' \in 0..MaxFaults,
             UNCHANGED <<codeVars, account, sender, verifier>>
      PROVE  TypeOK'
  BY <1>a DEF TypeOK, codeVars
<1>1. CASE Authenticate(c)
  <2>1. PICK i \in Sessions : client' = [client EXCEPT ![c] =
                [pc |-> IF session[i] = "short" THEN "refreshing" ELSE "inside",
                 id |-> i]]
    BY <1>1 DEF Authenticate
  <2>2. i \in 0..MaxSessions
    BY DEF Sessions
  <2>3. client' \in XType
    BY <2>1, <2>2, ClientType
  <2> QED  BY <1>0, <1>1, <1>a, <2>3 DEF Authenticate
<1>2. CASE Refresh(c)
  <2>1. client' \in XType
    BY <1>0, <1>2, ClientType DEF Refresh
  <2>2. session' \in SType
    BY <1>0, <1>2 DEF Refresh, Alive
  <2> QED  BY <1>0, <1>2, <1>a, <2>1, <2>2 DEF Refresh
<1>3. CASE RefreshFails(c)
  <2>1. client' \in XType /\ faults' \in 0..MaxFaults
    BY <1>0, <1>3, ClientType DEF RefreshFails
  <2> QED  BY <1>0, <1>3, <1>a, <2>1 DEF RefreshFails
<1>4. CASE Logout(c)
  <2>1. client' \in XType
    BY <1>0, <1>4, ClientType DEF Logout
  <2>2. session' \in SType
    BY <1>0, <1>4 DEF Logout, Alive
  <2> QED  BY <1>0, <1>4, <1>a, <2>1, <2>2 DEF Logout
<1>5. CASE Serve(c)
  <2>1. client' \in XType
    BY <1>0, <1>5, ClientType DEF Serve
  <2> QED  BY <1>0, <1>5, <1>a, <2>1 DEF Serve
<1> QED  BY <1>1, <1>2, <1>3, <1>4, <1>5

(* Every step keeps the types.                                             *)
LEMMA NextType == TypeOK /\ [Next]_vars => TypeOK'
<1> SUFFICES ASSUME TypeOK, [Next]_vars PROVE TypeOK'
  OBVIOUS
<1>1. ASSUME NEW i \in Sessions, SessionAges(i) PROVE TypeOK'
  BY <1>1 DEF SessionAges, TypeOK, codeVars, Alive
<1>2. CASE CodeAges
  <2>1. code' \in [gen : 0..MaxCodes, age : {"new", "old", "expired"},
                   attempts : 0..MaxAttempts]
    BY <1>2 DEF CodeAges, TypeOK
  <2> QED  BY <1>2, <2>1 DEF CodeAges, TypeOK
<1>3. CASE Crash
  BY <1>3, EntranceAssumption DEF Crash, TypeOK, codeVars
<1>4. CASE UNCHANGED vars
  BY <1>4 DEF vars, TypeOK
<1> QED  BY <1>1, <1>2, <1>3, <1>4, SenderStepType, VerifierStepType, ClientStepType
        DEF Next

-----------------------------------------------------------------------------
(* Codes are numbered as they are saved.                                   *)

(* Every step keeps what is known of the generations of codes.             *)
LEMMA NextGen == TypeOK /\ GenInv /\ [Next]_vars => GenInv'
<1> SUFFICES ASSUME TypeOK, GenInv, [Next]_vars PROVE GenInv'
  OBVIOUS
<1> USE EntranceAssumption DEF TypeOK, GenInv
<1>1. ASSUME NEW s \in Senders,
             AskForCode(s) \/ AskUnseen(s) \/ Mail(s) \/ SendFails(s)
      PROVE  GenInv'
  BY <1>1 DEF AskForCode, AskUnseen, Mail, SendFails, codeVars
<1>2. ASSUME NEW s \in Senders, SaveCode(s) PROVE GenInv'
  BY <1>2 DEF SaveCode
<1>3. ASSUME NEW s \in Senders, Withdraw(s) PROVE GenInv'
  BY <1>3 DEF Withdraw, DeleteRow, NoCode
<1>4. ASSUME NEW v \in Verifiers, BringCode(v) PROVE GenInv'
  BY <1>4 DEF BringCode, codeVars
<1>5. ASSUME NEW v \in Verifiers, CountAttempt(v) PROVE GenInv'
  <2>1. CASE code.gen # 0 /\ code.attempts < MaxAttempts
    <3>1. code'.gen = code.gen /\ issued' = issued
      BY <1>5, <2>1 DEF CountAttempt
    <3>2. verifier' = [verifier EXCEPT ![v] = [pc |-> "comparing", gen |-> code.gen]]
      BY <1>5, <2>1 DEF CountAttempt
    <3>3. code.gen \in 1..issued
      BY <2>1
    <3> QED  BY <3>1, <3>2, <3>3
  <2>2. CASE ~(code.gen # 0 /\ code.attempts < MaxAttempts)
    BY <1>5, <2>2 DEF CountAttempt, Leave
  <2> QED  BY <2>1, <2>2
<1>6. ASSUME NEW v \in Verifiers, Compare(v) PROVE GenInv'
  BY <1>6 DEF Compare, Leave
<1>7. ASSUME NEW v \in Verifiers, DeleteCode(v) PROVE GenInv'
  BY <1>7 DEF DeleteCode, DeleteRow, NoCode, Step
<1>8. ASSUME NEW v \in Verifiers,
             \/ FindUser(v) \/ CreateUser(v) \/ FindAgain(v) \/ SetEmailVerified(v)
             \/ OpenSession(v) \/ Answered(v) \/ VerifyFails(v)
      PROVE  GenInv'
  <2>1. UNCHANGED <<code, issued>>
    BY <1>8 DEF FindUser, CreateUser, FindAgain, SetEmailVerified, OpenSession,
                Answered, VerifyFails, codeVars
  <2>2. PICK pc \in VerifierPCs \ {"comparing"} : Leave(v, pc) \/ Step(v, pc)
    BY <1>8 DEF FindUser, CreateUser, FindAgain, SetEmailVerified, OpenSession,
                Answered, VerifyFails, VerifierPCs
  <2> QED  BY <2>1, <2>2 DEF Leave, Step
<1>9. ASSUME UNCHANGED <<code, issued, verifier>> PROVE GenInv'
  BY <1>9
<1>10. ASSUME NEW c \in Clients,
             \/ Authenticate(c) \/ Refresh(c) \/ RefreshFails(c)
             \/ Logout(c) \/ Serve(c)
      PROVE  GenInv'
  BY <1>9, <1>10 DEF Authenticate, Refresh, RefreshFails, Logout, Serve, codeVars
<1>11. ASSUME NEW i \in Sessions, SessionAges(i) PROVE GenInv'
  BY <1>9, <1>11 DEF SessionAges, codeVars
<1>12. CASE CodeAges
  BY <1>12 DEF CodeAges
<1>13. CASE Crash
  BY <1>13 DEF Crash, codeVars
<1>14. CASE UNCHANGED vars
  BY <1>9, <1>14 DEF vars
<1> QED  BY <1>1, <1>2, <1>3, <1>4, <1>5, <1>6, <1>7, <1>8, <1>10, <1>11, <1>12,
           <1>13, <1>14 DEF Next, Send, Verify

-----------------------------------------------------------------------------
(* Guesses.                                                                *)

(* A step that adds no guess under way and takes no budget from a code.    *)
LEMMA GuessesKept ==
    ASSUME TypeOK, TypeOK', GuessInv,
           \A g \in Codes : /\ Comparing(g)' \in SUBSET Comparing(g)
                            /\ Budget(g) <= Budget(g)'
           , compared' = compared, issued' >= issued
    PROVE  GuessInv'
<1> SUFFICES ASSUME NEW g \in Codes
             PROVE  /\ IsFiniteSet(Comparing(g)')
                    /\ compared'[g] + Cardinality(Comparing(g)') <= Budget(g)'
                    /\ g > issued' => compared'[g] = 0
  BY DEF GuessInv
<1>1. /\ IsFiniteSet(Comparing(g))
      /\ compared[g] + Cardinality(Comparing(g)) <= Budget(g)
      /\ g > issued => compared[g] = 0
  BY DEF GuessInv
<1>2. /\ IsFiniteSet(Comparing(g)') /\ Cardinality(Comparing(g)') \in Nat
      /\ Cardinality(Comparing(g)) \in Nat
      /\ Cardinality(Comparing(g)') <= Cardinality(Comparing(g))
  BY <1>1, FS_Subset, FS_CardinalityType
<1>3. compared[g] \in Nat /\ Budget(g) \in Nat /\ Budget(g)' \in Nat
      /\ issued \in Nat /\ issued' \in Nat /\ g \in Nat
  BY EntranceAssumption DEF TypeOK, Budget, Codes
<1> QED  BY <1>1, <1>2, <1>3

(* Every step keeps the account of guesses: those counted, those compared  *)
(* and those under way.                                                    *)
LEMMA NextGuesses ==
    TypeOK /\ GenInv /\ GuessInv /\ [Next]_vars => GuessInv'
<1> SUFFICES ASSUME TypeOK, GenInv, GuessInv, [Next]_vars PROVE GuessInv'
  OBVIOUS
<1>0. TypeOK' /\ GenInv'
  BY NextType, NextGen
<1> USE EntranceAssumption
<1>a. /\ code.gen \in 0..MaxCodes /\ code.attempts \in 0..MaxAttempts
      /\ issued \in Nat /\ issued' \in Nat
  BY <1>0 DEF TypeOK
<1>b. ASSUME UNCHANGED <<compared, issued, verifier>>, code'.gen = code.gen,
             code'.attempts = code.attempts
      PROVE  GuessInv'
  BY <1>0, <1>a, <1>b, GuessesKept DEF Comparing, Budget
<1>c. ASSUME UNCHANGED <<compared, issued>>, code'.gen = 0,
             \A g \in Codes : Comparing(g)' \in SUBSET Comparing(g)
      PROVE  GuessInv'
  <2>1. \A g \in Codes : Budget(g) <= Budget(g)'
    BY <1>a, <1>c DEF Budget, Codes
  <2> QED  BY <1>0, <1>a, <1>c, <2>1, GuessesKept
<1>d. ASSUME NEW v \in Verifiers, NEW pc \in VerifierPCs \ {"comparing"},
             Leave(v, pc) \/ Step(v, pc)
      PROVE  \A g \in Codes : Comparing(g)' \in SUBSET Comparing(g)
  BY <1>d DEF Leave, Step, Comparing, TypeOK
<1>e. ASSUME UNCHANGED <<code, compared, issued>>,
             \A g \in Codes : Comparing(g)' \in SUBSET Comparing(g)
      PROVE  GuessInv'
  <2>1. \A g \in Codes : Budget(g) <= Budget(g)'
    BY <1>a, <1>e DEF Budget
  <2> QED  BY <1>0, <1>a, <1>e, <2>1, GuessesKept
<1>1. ASSUME NEW s \in Senders,
             AskForCode(s) \/ AskUnseen(s) \/ Mail(s) \/ SendFails(s)
      PROVE  GuessInv'
  BY <1>1, <1>b DEF AskForCode, AskUnseen, Mail, SendFails, codeVars
<1>2. ASSUME NEW s \in Senders, SaveCode(s) PROVE GuessInv'
  <2>1. /\ code'.gen = issued + 1 /\ code'.attempts = 0 /\ issued' = issued + 1
        /\ UNCHANGED <<compared, verifier>>
    BY <1>2 DEF SaveCode
  <2> SUFFICES ASSUME NEW g \in Codes
               PROVE  /\ IsFiniteSet(Comparing(g)')
                      /\ compared'[g] + Cardinality(Comparing(g)') <= Budget(g)'
                      /\ g > issued' => compared'[g] = 0
    BY DEF GuessInv
  <2>2. /\ IsFiniteSet(Comparing(g)) /\ Cardinality(Comparing(g)) \in Nat
        /\ compared[g] + Cardinality(Comparing(g)) <= Budget(g)
        /\ g > issued => compared[g] = 0
        /\ compared[g] \in Nat /\ g \in Nat
    BY FS_CardinalityType DEF GuessInv, TypeOK, Codes
  <2>3. Comparing(g)' = Comparing(g)
    BY <2>1 DEF Comparing
  <2>4. CASE g = issued + 1
    <3>1. Comparing(g) = {}
      BY <1>a, <2>4 DEF Comparing, GenInv
    <3>2. Cardinality(Comparing(g)') = 0
      BY <2>3, <3>1, FS_EmptySet
    <3> QED  BY <1>a, <2>1, <2>2, <2>3, <2>4, <3>2 DEF Budget
  <2>5. CASE g # issued + 1
    <3>1. Budget(g) <= MaxAttempts /\ Budget(g) \in Nat /\ Budget(g)' = MaxAttempts
      BY <1>a, <2>1, <2>5 DEF Budget
    <3> QED  BY <1>a, <2>1, <2>2, <2>3, <3>1
  <2> QED  BY <2>4, <2>5
<1>3. ASSUME NEW s \in Senders, Withdraw(s) PROVE GuessInv'
  <2>1. code'.gen = 0 /\ UNCHANGED <<compared, issued, verifier>>
    BY <1>3 DEF Withdraw, DeleteRow, NoCode
  <2> QED  BY <1>c, <2>1 DEF Comparing
<1>4. ASSUME NEW v \in Verifiers, BringCode(v) PROVE GuessInv'
  <2>1. \A g \in Codes : Comparing(g)' \in SUBSET Comparing(g)
    BY <1>4 DEF BringCode, Comparing, TypeOK
  <2> QED  BY <1>4, <1>e, <2>1 DEF BringCode, codeVars
<1>5. ASSUME NEW v \in Verifiers, CountAttempt(v) PROVE GuessInv'
  <2>1. CASE code.gen # 0 /\ code.attempts < MaxAttempts
    <3>1. /\ code'.gen = code.gen /\ code'.attempts = code.attempts + 1
          /\ UNCHANGED <<compared, issued>>
      BY <1>5, <2>1 DEF CountAttempt, TypeOK
    <3>2. verifier' = [verifier EXCEPT ![v] = [pc |-> "comparing", gen |-> code.gen]]
          /\ verifier[v].pc = "counting"
      BY <1>5, <2>1 DEF CountAttempt
    <3> SUFFICES ASSUME NEW g \in Codes
                 PROVE  /\ IsFiniteSet(Comparing(g)')
                        /\ compared'[g] + Cardinality(Comparing(g)') <= Budget(g)'
                        /\ g > issued' => compared'[g] = 0
      BY DEF GuessInv
    <3>3. /\ IsFiniteSet(Comparing(g)) /\ Cardinality(Comparing(g)) \in Nat
          /\ compared[g] + Cardinality(Comparing(g)) <= Budget(g)
          /\ g > issued => compared[g] = 0
          /\ compared[g] \in Nat /\ g \in Nat
      BY FS_CardinalityType DEF GuessInv, TypeOK, Codes
    <3>4. CASE g = code.gen
      <4>1. Comparing(g)' = Comparing(g) \cup {v} /\ v \notin Comparing(g)
        BY <3>2, <3>4 DEF Comparing, TypeOK
      <4>2. /\ IsFiniteSet(Comparing(g)')
            /\ Cardinality(Comparing(g)') = Cardinality(Comparing(g)) + 1
        BY <3>3, <4>1, FS_AddElement
      <4>3. Budget(g)' = Budget(g) + 1 /\ Budget(g) \in Nat
        BY <1>a, <3>1, <3>4 DEF Budget
      <4> QED  BY <3>1, <3>3, <4>2, <4>3
    <3>5. CASE g # code.gen
      <4>1. Comparing(g)' = Comparing(g)
        BY <3>2, <3>5 DEF Comparing, TypeOK
      <4>2. Budget(g)' = Budget(g)
        BY <3>1, <3>5 DEF Budget
      <4> QED  BY <3>1, <3>3, <4>1, <4>2
    <3> QED  BY <3>4, <3>5
  <2>2. CASE ~(code.gen # 0 /\ code.attempts < MaxAttempts)
    <3>1. Leave(v, "idle") /\ UNCHANGED <<code, compared, issued>>
      BY <1>5, <2>2 DEF CountAttempt
    <3> QED  BY <1>d, <1>e, <3>1 DEF VerifierPCs
  <2> QED  BY <2>1, <2>2
<1>6. ASSUME NEW v \in Verifiers, Compare(v) PROVE GuessInv'
  <2> DEFINE h == verifier[v].gen
  <2>1. /\ h \in Codes /\ h <= issued /\ v \in Comparing(h)
        /\ compared' = [compared EXCEPT ![h] = compared[h] + 1]
        /\ UNCHANGED <<code, issued>>
    BY <1>6 DEF Compare, GenInv, Codes, Comparing, TypeOK
  <2>2. PICK pc \in {"idle", "finding"} : Leave(v, pc)
    BY <1>6 DEF Compare
  <2> SUFFICES ASSUME NEW g \in Codes
               PROVE  /\ IsFiniteSet(Comparing(g)')
                      /\ compared'[g] + Cardinality(Comparing(g)') <= Budget(g)'
                      /\ g > issued' => compared'[g] = 0
    BY DEF GuessInv
  <2>3. /\ IsFiniteSet(Comparing(g)) /\ Cardinality(Comparing(g)) \in Nat
        /\ compared[g] + Cardinality(Comparing(g)) <= Budget(g)
        /\ g > issued => compared[g] = 0
        /\ compared[g] \in Nat /\ g \in Nat /\ Budget(g) \in Nat
        /\ Budget(g)' = Budget(g)
    <3>1. Budget(g) \in Nat /\ Budget(g)' = Budget(g)
      BY <1>a, <2>1 DEF Budget
    <3> QED  BY <3>1, FS_CardinalityType DEF GuessInv, TypeOK, Codes
  <2>4. Comparing(g)' = Comparing(g) \ {v}
    BY <2>2 DEF Leave, Comparing, TypeOK
  <2>5. /\ IsFiniteSet(Comparing(g)')
        /\ Cardinality(Comparing(g)') = IF v \in Comparing(g)
              THEN Cardinality(Comparing(g)) - 1 ELSE Cardinality(Comparing(g))
    BY <2>3, <2>4, FS_RemoveElement
  <2>6. (v \in Comparing(g)) <=> (g = h)
    BY <2>1 DEF Comparing
  <2>7. compared'[g] = IF g = h THEN compared[g] + 1 ELSE compared[g]
    BY <2>1 DEF TypeOK
  <2> HIDE DEF h
  <2>8. compared'[g] + Cardinality(Comparing(g)')
          = compared[g] + Cardinality(Comparing(g))
    BY <2>3, <2>5, <2>6, <2>7
  <2>9. g > issued' => compared'[g] = 0
    BY <1>a, <2>1, <2>3, <2>7
  <2> QED  BY <2>3, <2>5, <2>8, <2>9
<1>7. ASSUME NEW v \in Verifiers, DeleteCode(v) PROVE GuessInv'
  <2>1. \A g \in Codes : Comparing(g)' \in SUBSET Comparing(g)
    BY <1>7, <1>d DEF DeleteCode, VerifierPCs
  <2>2. UNCHANGED <<compared, issued>> /\ (code' = NoCode \/ code' = code)
    BY <1>7 DEF DeleteCode, DeleteRow
  <2> QED  BY <1>c, <1>e, <2>1, <2>2 DEF NoCode
<1>8. ASSUME NEW v \in Verifiers,
             \/ FindUser(v) \/ CreateUser(v) \/ FindAgain(v) \/ SetEmailVerified(v)
             \/ OpenSession(v) \/ Answered(v) \/ VerifyFails(v)
      PROVE  GuessInv'
  <2>1. UNCHANGED <<code, compared, issued>>
    BY <1>8 DEF FindUser, CreateUser, FindAgain, SetEmailVerified, OpenSession,
                Answered, VerifyFails, codeVars
  <2>2. PICK pc \in VerifierPCs \ {"comparing"} : Leave(v, pc) \/ Step(v, pc)
    BY <1>8 DEF FindUser, CreateUser, FindAgain, SetEmailVerified, OpenSession,
                Answered, VerifyFails, VerifierPCs
  <2> QED  BY <1>d, <1>e, <2>1, <2>2
<1>9. ASSUME NEW c \in Clients,
             \/ Authenticate(c) \/ Refresh(c) \/ RefreshFails(c)
             \/ Logout(c) \/ Serve(c)
      PROVE  GuessInv'
  BY <1>b, <1>9 DEF Authenticate, Refresh, RefreshFails, Logout, Serve, codeVars
<1>10. ASSUME NEW i \in Sessions, SessionAges(i) PROVE GuessInv'
  BY <1>b, <1>10 DEF SessionAges, codeVars
<1>11. CASE CodeAges
  <2>1. code'.gen = code.gen /\ code'.attempts = code.attempts
    BY <1>11 DEF CodeAges, TypeOK
  <2> QED  BY <1>b, <1>11, <2>1 DEF CodeAges
<1>12. CASE Crash
  <2>1. \A g \in Codes : Comparing(g)' \in SUBSET Comparing(g)
    BY <1>12 DEF Crash, Comparing
  <2> QED  BY <1>e, <1>12, <2>1 DEF Crash, codeVars
<1>13. CASE UNCHANGED vars
  BY <1>b, <1>13 DEF vars
<1> QED  BY <1>1, <1>2, <1>3, <1>4, <1>5, <1>6, <1>7, <1>8, <1>9, <1>10, <1>11,
           <1>12, <1>13 DEF Next, Send, Verify

-----------------------------------------------------------------------------
(* The mail.                                                               *)

(* Every step keeps the stored code one that was mailed, or is about to    *)
(* be.                                                                     *)
LEMMA NextMailed == TypeOK /\ StoredCodeMailed /\ [Next]_vars => StoredCodeMailed'
<1> SUFFICES ASSUME TypeOK, StoredCodeMailed, [Next]_vars,
                    faults' = 0, code'.gen # 0
             PROVE  mailed' \/ \E s \in Senders : sender'[s].gen = code'.gen
  BY DEF StoredCodeMailed
<1> DEFINE Done == mailed' \/ \E s \in Senders : sender'[s].gen = code'.gen
<1>0. faults \in Nat /\ faults + 1 # 0 /\ faults' # faults + 1
  BY EntranceAssumption DEF TypeOK
<1>a. ASSUME UNCHANGED <<mailed, sender, faults>>, code'.gen = code.gen PROVE Done
  BY <1>a DEF StoredCodeMailed
<1>1. ASSUME NEW s \in Senders, AskForCode(s) PROVE Done
  <2>1. UNCHANGED <<code, mailed, faults>>
        /\ sender' = [sender EXCEPT ![s].pc = "saving"]
    BY <1>1 DEF AskForCode, codeVars
  <2>2. \A t \in Senders : sender'[t].gen = sender[t].gen
    BY <2>1 DEF TypeOK
  <2> QED  BY <2>1, <2>2 DEF StoredCodeMailed
<1>2. ASSUME NEW s \in Senders, SaveCode(s) PROVE Done
  <2>1. code'.gen = issued + 1 /\ sender'[s].gen = issued + 1
    BY <1>2 DEF SaveCode, TypeOK
  <2> QED  BY <2>1
<1>3. ASSUME NEW s \in Senders, Mail(s) PROVE Done
  <2>1. UNCHANGED <<code, faults>>
    BY <1>3 DEF Mail
  <2>2. CASE mailed
    BY <1>3, <2>2 DEF Mail
  <2>3. CASE ~mailed
    <3>1. PICK t \in Senders : sender[t].gen = code.gen
      BY <2>1, <2>3 DEF StoredCodeMailed
    <3>2. CASE mailed' = (mailed \/ sender[s].gen = code.gen)
               /\ sender' = [sender EXCEPT ![s] = [pc |-> "idle", gen |-> 0]]
      BY <2>1, <3>1, <3>2 DEF TypeOK
    <3>3. CASE sender' = [sender EXCEPT ![s].pc = "deleting"]
      <4>1. sender'[t].gen = sender[t].gen
        BY <3>3 DEF TypeOK
      <4> QED  BY <2>1, <3>1, <4>1
    <3> QED  BY <1>3, <3>2, <3>3 DEF Mail
  <2> QED  BY <2>2, <2>3
<1>4. ASSUME NEW s \in Senders, Withdraw(s) PROVE Done
  BY <1>4 DEF Withdraw, DeleteRow, NoCode
<1>5. ASSUME NEW s \in Senders, AskUnseen(s) \/ SendFails(s) PROVE Done
  BY <1>0, <1>5 DEF AskUnseen, SendFails
<1>6. ASSUME NEW v \in Verifiers, VerifyFails(v) PROVE Done
  BY <1>0, <1>6 DEF VerifyFails
<1>7. ASSUME NEW v \in Verifiers, CountAttempt(v) PROVE Done
  <2>1. code'.gen = code.gen
    BY <1>7 DEF CountAttempt, TypeOK
  <2> QED  BY <1>7, <1>a, <2>1 DEF CountAttempt
<1>8. ASSUME NEW v \in Verifiers, DeleteCode(v) PROVE Done
  BY <1>0, <1>8 DEF DeleteCode, DeleteRow, NoCode
<1>9. ASSUME NEW v \in Verifiers,
             \/ BringCode(v) \/ Compare(v) \/ FindUser(v) \/ CreateUser(v)
             \/ FindAgain(v) \/ SetEmailVerified(v) \/ OpenSession(v) \/ Answered(v)
      PROVE  Done
  BY <1>a, <1>9 DEF BringCode, Compare, FindUser, CreateUser, FindAgain,
                    SetEmailVerified, OpenSession, Answered, codeVars
<1>10. ASSUME NEW c \in Clients, Authenticate(c) \/ Refresh(c) \/ Logout(c) \/ Serve(c)
       PROVE  Done
  BY <1>a, <1>10 DEF Authenticate, Refresh, Logout, Serve, codeVars
<1>11. ASSUME NEW c \in Clients, RefreshFails(c) PROVE Done
  BY <1>0, <1>11 DEF RefreshFails
<1>12. ASSUME NEW i \in Sessions, SessionAges(i) PROVE Done
  BY <1>a, <1>12 DEF SessionAges, codeVars
<1>13. CASE CodeAges
  <2>1. code'.gen = code.gen
    BY <1>13 DEF CodeAges, TypeOK
  <2> QED  BY <1>a, <1>13, <2>1 DEF CodeAges
<1>14. CASE Crash
  BY <1>0, <1>14 DEF Crash
<1>15. CASE UNCHANGED vars
  BY <1>a, <1>15 DEF vars
<1> QED  BY <1>1, <1>2, <1>3, <1>4, <1>5, <1>6, <1>7, <1>8, <1>9, <1>10, <1>11,
           <1>12, <1>13, <1>14, <1>15 DEF Next, Send, Verify

-----------------------------------------------------------------------------
(* The cooldown.                                                           *)

(* Only finitely many requests are about to store a code, no more than     *)
(* there are senders.                                                      *)
LEMMA SavingFinite ==
    /\ IsFiniteSet(Saving) /\ Cardinality(Saving) \in Nat
    /\ Cardinality(Senders) \in Nat
    /\ Cardinality(Saving) <= Cardinality(Senders)
<1>1. Saving \in SUBSET Senders
  BY DEF Saving
<1> QED  BY <1>1, EntranceAssumption, FS_Subset, FS_CardinalityType

(* Every step keeps the account of mails sent within a cooldown.           *)
LEMMA NextCooldown == TypeOK /\ CooldownInv /\ [Next]_vars => CooldownInv'
<1> SUFFICES ASSUME TypeOK, CooldownInv, [Next]_vars PROVE CooldownInv'
  OBVIOUS
<1> USE EntranceAssumption
<1>0. /\ faults \in Nat /\ overrun \in Nat
      /\ IsFiniteSet(Saving) /\ Cardinality(Saving) \in Nat
      /\ Cardinality(Senders) \in Nat
  BY SavingFinite DEF TypeOK
(* No new sender past the check, and not fewer faults.                     *)
<1>a. ASSUME Saving' \in SUBSET Saving, faults' \in Nat, faults' >= faults,
             \/ code'.age = code.age /\ overrun' = overrun
             \/ code'.age # "new" /\ overrun' = 0
      PROVE  CooldownInv'
  <2>1. /\ Cardinality(Saving') \in Nat
        /\ Cardinality(Saving') <= Cardinality(Saving)
    BY <1>0, <1>a, FS_Subset, FS_CardinalityType
  <2> QED  BY <1>0, <1>a, <2>1 DEF CooldownInv
<1>b. ASSUME UNCHANGED <<sender, code, overrun>>, faults' = faults \/ faults' = faults + 1
      PROVE  CooldownInv'
  BY <1>0, <1>a, <1>b DEF Saving
<1>1. ASSUME NEW s \in Senders, AskForCode(s) PROVE CooldownInv'
  BY <1>1 DEF AskForCode, MaySend, CooldownInv, codeVars
<1>2. ASSUME NEW s \in Senders, AskUnseen(s) PROVE CooldownInv'
  <2>1. Saving' = Saving \cup {s} /\ s \notin Saving
    BY <1>2 DEF AskUnseen, Saving, TypeOK
  <2>2. Cardinality(Saving') = Cardinality(Saving) + 1
    BY <1>0, <2>1, FS_AddElement
  <2>3. UNCHANGED <<code, overrun>> /\ faults' = faults + 1
    BY <1>2 DEF AskUnseen, codeVars
  <2> QED  BY <1>0, <2>2, <2>3 DEF CooldownInv
<1>3. ASSUME NEW s \in Senders, SaveCode(s) PROVE CooldownInv'
  <2>1. Saving' = Saving \ {s} /\ s \in Saving
    BY <1>3 DEF SaveCode, Saving, TypeOK
  <2>2. Cardinality(Saving') = Cardinality(Saving) - 1
    BY <1>0, <2>1, FS_RemoveElement
  <2>3. /\ code'.age = "new" /\ faults' = faults
        /\ overrun' = IF code.age = "new" THEN overrun + 1 ELSE 0
    BY <1>3 DEF SaveCode
  <2>4. Cardinality(Saving) <= Cardinality(Senders)
    BY SavingFinite
  <2> QED  BY <1>0, <2>2, <2>3, <2>4 DEF CooldownInv
<1>4. ASSUME NEW s \in Senders, Mail(s) PROVE CooldownInv'
  <2>1. Saving' \in SUBSET Saving
    BY <1>4 DEF Mail, Saving, TypeOK
  <2> QED  BY <1>0, <1>4, <1>a, <2>1 DEF Mail
<1>5. ASSUME NEW s \in Senders, Withdraw(s) PROVE CooldownInv'
  <2>1. Saving' \in SUBSET Saving
    BY <1>5 DEF Withdraw, Saving, TypeOK
  <2> QED  BY <1>0, <1>5, <1>a, <2>1 DEF Withdraw, DeleteRow, NoCode
<1>6. ASSUME NEW s \in Senders, SendFails(s) PROVE CooldownInv'
  <2>1. Saving' \in SUBSET Saving
    BY <1>6 DEF SendFails, Saving, TypeOK
  <2> QED  BY <1>0, <1>6, <1>a, <2>1 DEF SendFails, codeVars
<1>7. ASSUME NEW v \in Verifiers, CountAttempt(v) PROVE CooldownInv'
  <2>1. code'.age = code.age /\ UNCHANGED <<sender, overrun, faults>>
    BY <1>7 DEF CountAttempt, TypeOK
  <2> QED  BY <1>0, <1>a, <2>1 DEF Saving
<1>8. ASSUME NEW v \in Verifiers, DeleteCode(v) PROVE CooldownInv'
  BY <1>0, <1>a, <1>8 DEF DeleteCode, DeleteRow, NoCode, Saving
<1>9. ASSUME NEW v \in Verifiers,
             \/ BringCode(v) \/ Compare(v) \/ FindUser(v) \/ CreateUser(v)
             \/ FindAgain(v) \/ SetEmailVerified(v) \/ OpenSession(v) \/ Answered(v)
             \/ VerifyFails(v)
      PROVE  CooldownInv'
  BY <1>b, <1>9 DEF BringCode, Compare, FindUser, CreateUser, FindAgain, VerifyFails,
                    SetEmailVerified, OpenSession, Answered, codeVars
<1>10. ASSUME NEW c \in Clients,
              \/ Authenticate(c) \/ Refresh(c) \/ RefreshFails(c)
              \/ Logout(c) \/ Serve(c)
       PROVE  CooldownInv'
  BY <1>b, <1>10 DEF Authenticate, Refresh, RefreshFails, Logout, Serve, codeVars
<1>11. ASSUME NEW i \in Sessions, SessionAges(i) PROVE CooldownInv'
  BY <1>b, <1>11 DEF SessionAges, codeVars
<1>12. CASE CodeAges
  <2>1. code'.age # "new" /\ overrun' = 0 /\ UNCHANGED <<sender, faults>>
    BY <1>12 DEF CodeAges, TypeOK
  <2> QED  BY <1>0, <1>a, <2>1 DEF Saving
<1>13. CASE Crash
  <2>1. Saving' \in SUBSET Saving
    BY <1>13 DEF Crash, Saving
  <2> QED  BY <1>0, <1>13, <1>a, <2>1 DEF Crash, codeVars
<1>14. CASE UNCHANGED vars
  BY <1>b, <1>14 DEF vars
<1> QED  BY <1>1, <1>2, <1>3, <1>4, <1>5, <1>6, <1>7, <1>8, <1>9, <1>10, <1>11,
           <1>12, <1>13, <1>14 DEF Next, Send, Verify

-----------------------------------------------------------------------------
(* The theorems.                                                           *)

(* The first state satisfies the invariant.                                *)
LEMMA InitIInv == Init => IInv
<1> SUFFICES ASSUME Init PROVE IInv
  OBVIOUS
<1>1. TypeOK
  BY InitType
<1>2. GenInv /\ StoredCodeMailed
  BY DEF Init, GenInv, StoredCodeMailed, NoCode
<1>3. GuessInv
  <2>1. \A g \in Codes : Comparing(g) = {} /\ compared[g] = 0 /\ Budget(g) \in Nat
    BY EntranceAssumption DEF Init, Comparing, Budget, NoCode
  <2> QED  BY <2>1, FS_EmptySet DEF GuessInv
<1>4. CooldownInv
  BY DEF Init, CooldownInv, NoCode
<1> QED  BY <1>1, <1>2, <1>3, <1>4 DEF IInv

(* Every step keeps the invariant.                                         *)
LEMMA NextIInv == IInv /\ [Next]_vars => IInv'
BY NextType, NextGen, NextGuesses, NextMailed, NextCooldown DEF IInv

(* The inductive invariant of SendCode, VerifyCode and the sessions.       *)
THEOREM EntranceInductive == Spec => []IInv
BY InitIInv, NextIInv, PTL DEF Spec

(* The rows, counters and requests keep their types; in particular the     *)
(* counter of attempts in the row never exceeds the limit.                 *)
THEOREM EntranceTypeCorrect == Spec => []TypeOK
BY InitType, NextType, PTL DEF Spec

(* VerifyCode compares no code with more than MaxAttempts guesses, however *)
(* many requests it serves at once and whenever SendCode replaces the code. *)
THEOREM EntranceGuessesBounded == Spec => []GuessesBounded
<1>1. IInv => GuessesBounded
  <2> SUFFICES ASSUME IInv, NEW g \in Codes PROVE compared[g] <= MaxAttempts
    BY DEF GuessesBounded
  <2>1. /\ Cardinality(Comparing(g)) \in Nat
        /\ compared[g] + Cardinality(Comparing(g)) <= Budget(g)
    BY FS_CardinalityType DEF IInv, GuessInv
  <2>2. Budget(g) <= MaxAttempts /\ Budget(g) \in Nat /\ compared[g] \in Nat
        /\ MaxAttempts \in Nat
    BY EntranceAssumption DEF IInv, TypeOK, Budget
  <2> QED  BY <2>1, <2>2
<1> QED  BY <1>1, EntranceInductive, PTL

(* SendCode leaves no code that holds up the next one without its having   *)
(* been mailed or being mailed, as long as no statement fails.             *)
THEOREM EntranceStoredCodeMailed == Spec => []StoredCodeMailed
<1>1. IInv => StoredCodeMailed
  BY DEF IInv
<1> QED  BY <1>1, EntranceInductive, PTL

(* The check of the cooldown and the saving of the code are two statements *)
(* of SendCode: within one cooldown fewer codes replace a new one than     *)
(* there are requests at once and failed queries.                          *)
THEOREM EntranceCooldownOverrunBounded == Spec => []CooldownOverrunBounded
<1>1. IInv => CooldownOverrunBounded
  <2> SUFFICES ASSUME IInv PROVE overrun < Cardinality(Senders) + faults
    BY DEF CooldownOverrunBounded
  <2>1. /\ Cardinality(Saving) \in Nat /\ Cardinality(Senders) \in Nat
        /\ faults \in Nat /\ overrun \in Nat
    BY SavingFinite, EntranceAssumption DEF IInv, TypeOK
  <2>2. Cardinality(Senders) # 0
    BY EntranceAssumption, FS_EmptySet
  <2> QED  BY <2>1, <2>2 DEF IInv, CooldownInv
<1> QED  BY <1>1, EntranceInductive, PTL

(* No step brings back a session that was logged out.                      *)
LEMMA EndedStays ==
    ASSUME TypeOK, [Next]_vars, NEW i \in Sessions, session[i] = "ended"
    PROVE  session'[i] = "ended"
<1>1. ASSUME UNCHANGED session PROVE session'[i] = "ended"
  BY <1>1
<1>2. ASSUME NEW s \in Senders,
             AskForCode(s) \/ AskUnseen(s) \/ Send(s) \/ SendFails(s)
      PROVE  session'[i] = "ended"
  BY <1>1, <1>2 DEF AskForCode, AskUnseen, Send, SaveCode, Mail, Withdraw, SendFails
<1>3. ASSUME NEW v \in Verifiers, OpenSession(v) PROVE session'[i] = "ended"
  BY <1>3 DEF OpenSession, Opened, TypeOK
<1>4. ASSUME NEW v \in Verifiers,
             \/ BringCode(v) \/ CountAttempt(v) \/ Compare(v) \/ FindUser(v)
             \/ CreateUser(v) \/ FindAgain(v) \/ SetEmailVerified(v)
             \/ DeleteCode(v) \/ Answered(v) \/ VerifyFails(v)
      PROVE  session'[i] = "ended"
  BY <1>1, <1>4 DEF BringCode, CountAttempt, Compare, FindUser, CreateUser, FindAgain,
                    SetEmailVerified, DeleteCode, Answered, VerifyFails
<1>5. ASSUME NEW c \in Clients, Refresh(c) \/ Logout(c)
      PROVE  session'[i] = "ended"
  BY <1>5 DEF Refresh, Logout, TypeOK
<1>6. ASSUME NEW c \in Clients, Authenticate(c) \/ RefreshFails(c) \/ Serve(c)
      PROVE  session'[i] = "ended"
  BY <1>1, <1>6 DEF Authenticate, RefreshFails, Serve
<1>7. ASSUME NEW j \in Sessions, SessionAges(j) PROVE session'[i] = "ended"
  BY <1>7 DEF SessionAges, Alive, TypeOK
<1>8. CASE CodeAges \/ Crash \/ UNCHANGED vars
  BY <1>1, <1>8 DEF CodeAges, Crash, vars
<1> QED  BY <1>2, <1>3, <1>4, <1>5, <1>6, <1>7, <1>8 DEF Next, Verify

(* A session that Logout deleted is never alive again: the TryRefresh of a *)
(* request that read it before finds no row to prolong.                    *)
THEOREM EntranceLogoutFinal == Spec => LogoutFinal
<1>1. TypeOK /\ [Next]_vars
        => [\A i \in Sessions : session[i] = "ended" => session'[i] = "ended"]_vars
  BY EndedStays
<1> QED  BY <1>1, EntranceTypeCorrect, PTL DEF Spec, LogoutFinal

(* The places of a request whose code was right, before it has a session.  *)
Admitted == {"finding", "creating", "refinding", "verifying", "deleting", "opening"}

(* A guess that was admitted goes back to idle only by a failure.          *)
LEMMA AdmittedGoesOn ==
    ASSUME TypeOK, [Next]_vars, NEW v \in Verifiers,
           verifier[v].pc \in Admitted, verifier'[v].pc = "idle"
    PROVE  faults' > faults
<1>0. verifier[v].pc # "idle" /\ faults \in Nat
  BY EntranceAssumption DEF Admitted, TypeOK
<1>1. ASSUME UNCHANGED verifier PROVE FALSE
  BY <1>0, <1>1
<1>2. ASSUME NEW s \in Senders,
             AskForCode(s) \/ AskUnseen(s) \/ Send(s) \/ SendFails(s)
      PROVE  FALSE
  BY <1>1, <1>2 DEF AskForCode, AskUnseen, Send, SaveCode, Mail, Withdraw, SendFails
<1>3. ASSUME NEW w \in Verifiers, BringCode(w) \/ CountAttempt(w) \/ Compare(w)
                                  \/ Answered(w)
      PROVE  FALSE
  <2>1. w # v
    BY <1>3 DEF BringCode, CountAttempt, Compare, Answered, Admitted
  <2> QED  BY <1>0, <1>3, <2>1
           DEF BringCode, CountAttempt, Compare, Answered, Leave, TypeOK
<1>4. ASSUME NEW w \in Verifiers,
             \/ FindUser(w) \/ CreateUser(w) \/ FindAgain(w) \/ SetEmailVerified(w)
             \/ DeleteCode(w) \/ OpenSession(w)
      PROVE  FALSE
  <2>1. PICK pc : (Leave(w, pc) \/ Step(w, pc)) /\ pc # "idle"
    BY <1>4 DEF FindUser, CreateUser, FindAgain, SetEmailVerified, DeleteCode,
                OpenSession
  <2> QED  BY <1>0, <2>1 DEF Leave, Step, TypeOK
<1>5. ASSUME NEW w \in Verifiers, VerifyFails(w) PROVE faults' > faults
  BY <1>0, <1>5 DEF VerifyFails
<1>6. ASSUME NEW c \in Clients,
             \/ Authenticate(c) \/ Refresh(c) \/ RefreshFails(c)
             \/ Logout(c) \/ Serve(c)
      PROVE  FALSE
  BY <1>1, <1>6 DEF Authenticate, Refresh, RefreshFails, Logout, Serve
<1>7. ASSUME NEW j \in Sessions, SessionAges(j) PROVE FALSE
  BY <1>1, <1>7 DEF SessionAges
<1>8. CASE CodeAges \/ UNCHANGED vars
  BY <1>1, <1>8 DEF CodeAges, vars
<1>9. CASE Crash
  BY <1>0, <1>9 DEF Crash
<1> QED  BY <1>2, <1>3, <1>4, <1>5, <1>6, <1>7, <1>8, <1>9 DEF Next, Verify

(* Whoever brought the right code to VerifyCode gets a session, also when  *)
(* several register the address at once, unless a statement fails.         *)
THEOREM EntranceRightCodeEnters == Spec => RightCodeEnters
<1>1. TypeOK /\ [Next]_vars
        => [\A v \in Verifiers :
              /\ verifier[v].pc \in {"finding", "creating", "refinding",
                                    "verifying", "deleting", "opening"}
              /\ verifier'[v].pc = "idle"
              => faults' > faults]_vars
  BY AdmittedGoesOn DEF Admitted
<1> QED  BY <1>1, EntranceTypeCorrect, PTL DEF Spec, RightCodeEnters

=============================================================================
