------------------------------ MODULE Entrance ------------------------------
(***************************************************************************)
(* How a user gets in and out: the code sent by mail, its verification     *)
(* with a limited number of attempts, the account made on the first        *)
(* entrance, and the sessions with their sliding expiry and logout.        *)
(*                                                                         *)
(* One mail address is modelled: every row involved is found by the        *)
(* address or belongs to its account.  Each request is a goroutine; a step *)
(* is one statement on the database, which commits by itself, or one call  *)
(* of the mailer.  Lifetimes are abstracted to what the code compares: a   *)
(* code is "new" within the cooldown of its sending, a session is "long"   *)
(* while more than half of its duration is left.                           *)
(***************************************************************************)
EXTENDS Integers, FiniteSets

CONSTANTS
    Senders,         \* requests that ask for a code
    Verifiers,       \* requests that bring a code
    Clients,         \* requests that bring a session's token
    MaxAttempts,     \* EntranceConfig.MaxAttempts
    MaxCodes,        \* bound: codes generated
    MaxSessions,     \* bound: sessions opened
    MaxFaults        \* bound: failing statements and crashes of the server

ASSUME EntranceAssumption ==
    /\ IsFiniteSet(Senders) /\ Senders # {}
    /\ MaxAttempts \in Nat \ {0}
    /\ MaxCodes \in Nat \ {0}
    /\ MaxSessions \in Nat \ {0}
    /\ MaxFaults \in Nat

VARIABLES
    code,       \* the row of verification_codes; gen numbers the codes, 0: none
    issued,     \* codes saved so far
    mailed,     \* whether the stored code was mailed
    compared,   \* how often each code was compared with a guess
    overrun,    \* how many new codes the stored new one has replaced
    account,    \* the row of users: "none", "unverified", "verified"
    session,    \* the rows of sessions, "none" before and "ended" after
    sender, verifier, client,
    faults

codeVars == <<code, issued, mailed, compared, overrun>>
vars == <<code, issued, mailed, compared, overrun, account, session, sender,
          verifier, client, faults>>

Codes == 1..MaxCodes
Sessions == 1..MaxSessions
NoCode == [gen |-> 0, age |-> "expired", attempts |-> 0]

\* DeleteVerificationCode: by the address, whichever code is stored.
DeleteRow == code' = NoCode /\ mailed' = FALSE /\ overrun' = 0
Alive == {"long", "short"}

TypeOK ==
    /\ code \in [gen : 0..MaxCodes, age : {"new", "old", "expired"},
                 attempts : 0..MaxAttempts]
    /\ issued \in 0..MaxCodes
    /\ mailed \in BOOLEAN
    /\ compared \in [Codes -> Nat]
    /\ overrun \in Nat
    /\ account \in {"none", "unverified", "verified"}
    /\ session \in [Sessions -> {"none", "ended", "expired"} \cup Alive]
    /\ sender \in [Senders -> [pc : {"idle", "saving", "mailing", "deleting"},
                               gen : 0..MaxCodes]]
    /\ verifier \in [Verifiers ->
            [pc : {"idle", "counting", "comparing", "finding", "creating",
                   "refinding", "verifying", "deleting", "opening",
                   "entered"},
             gen : 0..MaxCodes]]
    /\ client \in [Clients -> [pc : {"idle", "refreshing", "inside"},
                               id : 0..MaxSessions]]
    /\ faults \in 0..MaxFaults

Init ==
    /\ code = NoCode
    /\ issued = 0
    /\ mailed = FALSE
    /\ compared = [g \in Codes |-> 0]
    /\ overrun = 0
    /\ account = "none"
    /\ session = [i \in Sessions |-> "none"]
    /\ sender = [s \in Senders |-> [pc |-> "idle", gen |-> 0]]
    /\ verifier = [v \in Verifiers |-> [pc |-> "idle", gen |-> 0]]
    /\ client = [c \in Clients |-> [pc |-> "idle", id |-> 0]]
    /\ faults = 0

------------------------------------------------------------------------------
(* SendCode *)

\* Mutant: a code that nobody tried does not hold up the next one.
MaySendUntried == code.age # "new" \/ code.attempts = 0

\* The cooldown: no second code while the stored one is new.
MaySend == code.age # "new"

AskForCode(s) ==
    /\ sender[s].pc = "idle"
    /\ MaySend
    /\ sender' = [sender EXCEPT ![s].pc = "saving"]
    /\ UNCHANGED <<codeVars, account, session, verifier, client, faults>>

\* The query fails: the cooldown is not applied.
AskUnseen(s) ==
    /\ sender[s].pc = "idle"
    /\ faults < MaxFaults
    /\ faults' = faults + 1
    /\ sender' = [sender EXCEPT ![s].pc = "saving"]
    /\ UNCHANGED <<codeVars, account, session, verifier, client>>

\* A code is generated, hashed and upserted, with its attempts reset.
SaveCode(s) ==
    /\ sender[s].pc = "saving"
    /\ issued < MaxCodes
    /\ issued' = issued + 1
    /\ code' = [gen |-> issued + 1, age |-> "new", attempts |-> 0]
    /\ overrun' = IF code.age = "new" THEN overrun + 1 ELSE 0
    /\ mailed' = FALSE
    /\ sender' = [sender EXCEPT ![s] = [pc |-> "mailing", gen |-> issued + 1]]
    /\ UNCHANGED <<compared, account, session, verifier, client,
                   faults>>

\* Mutant: a failing mail leaves the code where it is.
MailUnchecked(s) ==
    /\ sender[s].pc = "mailing"
    /\ \/ mailed' = (mailed \/ sender[s].gen = code.gen)
       \/ UNCHANGED mailed
    /\ sender' = [sender EXCEPT ![s] = [pc |-> "idle", gen |-> 0]]
    /\ UNCHANGED <<code, issued, compared, overrun, account, session,
                   verifier, client, faults>>

\* The mailer succeeds or fails.
Mail(s) ==
    /\ sender[s].pc = "mailing"
    /\ \/ /\ mailed' = (mailed \/ sender[s].gen = code.gen)
          /\ sender' = [sender EXCEPT ![s] = [pc |-> "idle", gen |-> 0]]
       \/ /\ sender' = [sender EXCEPT ![s].pc = "deleting"]
          /\ UNCHANGED mailed
    /\ UNCHANGED <<code, issued, compared, overrun, account, session,
                   verifier, client, faults>>

\* A code that could not be sent is deleted: whichever the address has now.
Withdraw(s) ==
    /\ sender[s].pc = "deleting"
    /\ DeleteRow
    /\ sender' = [sender EXCEPT ![s] = [pc |-> "idle", gen |-> 0]]
    /\ UNCHANGED <<issued, compared, account, session, verifier, client,
                   faults>>

------------------------------------------------------------------------------
(* VerifyCode *)

Entering == {v \in Verifiers : verifier[v].pc \notin {"idle", "entered"}}
Opened == {i \in Sessions : session[i] # "none"}

Leave(v, pc) == verifier' = [verifier EXCEPT ![v] = [pc |-> pc, gen |-> 0]]
Step(v, pc) == verifier' = [verifier EXCEPT ![v].pc = pc]

\* The stored code is read; without one, or with an expired one, the request
\* ends.
BringCode(v) ==
    /\ verifier[v].pc = "idle"
    /\ Cardinality(Opened) + Cardinality(Entering) < MaxSessions
    /\ code.age # "expired"
    /\ verifier' = [verifier EXCEPT ![v] = [pc |-> "counting",
                                           gen |-> code.gen]]
    /\ UNCHANGED <<codeVars, account, session, sender, client, faults>>

\* Mutant: the row returned by the update is dropped, the hash compared is
\* that of the row read before.
CountKeepingHash(v) ==
    /\ verifier[v].pc = "counting"
    /\ IF code.gen # 0 /\ code.attempts < MaxAttempts
       THEN /\ code' = [code EXCEPT !.attempts = @ + 1]
            /\ Step(v, "comparing")
       ELSE Leave(v, "idle") /\ UNCHANGED code
    /\ UNCHANGED <<issued, mailed, compared, overrun, account, session,
                   sender, client, faults>>

\* IncrementAttemptsIfBelowLimit: one statement counts the attempt and
\* returns the row whose hash is compared.
CountAttempt(v) ==
    /\ verifier[v].pc = "counting"
    /\ IF code.gen # 0 /\ code.attempts < MaxAttempts
       THEN /\ code' = [code EXCEPT !.attempts = @ + 1]
            /\ verifier' = [verifier EXCEPT ![v] = [pc |-> "comparing",
                                                   gen |-> code.gen]]
       ELSE Leave(v, "idle") /\ UNCHANGED code
    /\ UNCHANGED <<issued, mailed, compared, overrun, account, session,
                   sender, client, faults>>

\* bcrypt.CompareHashAndPassword: the code brought is right or wrong.
Compare(v) ==
    /\ verifier[v].pc = "comparing"
    /\ compared' = [compared EXCEPT ![verifier[v].gen] = @ + 1]
    /\ Leave(v, "idle") \/ Leave(v, "finding")
    /\ UNCHANGED <<code, issued, mailed, overrun, account, session, sender,
                   client, faults>>

FindUser(v) ==
    /\ verifier[v].pc = "finding"
    /\ Step(v, IF account = "none" THEN "creating" ELSE "verifying")
    /\ UNCHANGED <<codeVars, account, session, sender, client, faults>>

\* Mutant: the conflict on the address is an error like any other.
CreateUserOrFail(v) ==
    /\ verifier[v].pc = "creating"
    /\ IF account = "none"
       THEN account' = "unverified" /\ Step(v, "verifying")
       ELSE UNCHANGED account /\ Leave(v, "idle")
    /\ UNCHANGED <<codeVars, session, sender, client, faults>>

\* CreateUserByEmail: UNIQUE (email) refuses a second account.  A clash of
\* random user names is retried with another name.
CreateUser(v) ==
    /\ verifier[v].pc = "creating"
    /\ IF account = "none"
       THEN account' = "unverified" /\ Step(v, "verifying")
       ELSE UNCHANGED account /\ Step(v, "refinding")
    /\ UNCHANGED <<codeVars, session, sender, client, faults>>

\* Another request registered the address meanwhile: its account is used.
FindAgain(v) ==
    /\ verifier[v].pc = "refinding"
    /\ account # "none"
    /\ Step(v, "verifying")
    /\ UNCHANGED <<codeVars, account, session, sender, client, faults>>

SetEmailVerified(v) ==
    /\ verifier[v].pc = "verifying"
    /\ account' = "verified"
    /\ Step(v, "deleting")
    /\ UNCHANGED <<codeVars, session, sender, client, faults>>

\* The code is used up; a failure to delete it is only logged.
DeleteCode(v) ==
    /\ verifier[v].pc = "deleting"
    /\ \/ DeleteRow /\ UNCHANGED faults
       \/ /\ faults < MaxFaults
          /\ faults' = faults + 1
          /\ UNCHANGED <<code, mailed, overrun>>
    /\ Step(v, "opening")
    /\ UNCHANGED <<issued, compared, account, session, sender, client>>

OpenSession(v) ==
    /\ verifier[v].pc = "opening"
    /\ \E i \in Sessions \ Opened :
          /\ \A j \in 1..(i - 1) : j \in Opened
          /\ session' = [session EXCEPT ![i] = "long"]
    /\ Leave(v, "entered")
    /\ UNCHANGED <<codeVars, account, sender, client, faults>>

Answered(v) ==
    /\ verifier[v].pc = "entered"
    /\ Leave(v, "idle")
    /\ UNCHANGED <<codeVars, account, session, sender, client, faults>>

------------------------------------------------------------------------------
(* Sessions *)

\* The middleware: ValidateToken reads the session, TryRefresh looks at the
\* time it has left.  A token without a live session leaves the request
\* anonymous.
Authenticate(c) ==
    /\ client[c].pc = "idle"
    /\ \E i \in Sessions :
          /\ session[i] \in Alive
          /\ client' = [client EXCEPT ![c] =
                [pc |-> IF session[i] = "short" THEN "refreshing" ELSE "inside",
                 id |-> i]]
    /\ UNCHANGED <<codeVars, account, session, sender, verifier, faults>>

\* Mutant: the refresh inserts the session when it finds no row.
RefreshUpserting(c) ==
    /\ client[c].pc = "refreshing"
    /\ session' = [session EXCEPT ![client[c].id] = "long"]
    /\ client' = [client EXCEPT ![c].pc = "inside"]
    /\ UNCHANGED <<codeVars, account, sender, verifier, faults>>

\* RefreshSession: an update by id, which finds no row after a logout.
Refresh(c) ==
    /\ client[c].pc = "refreshing"
    /\ session' = [session EXCEPT ![client[c].id] =
                      IF @ = "ended" THEN "ended" ELSE "long"]
    /\ client' = [client EXCEPT ![c].pc = "inside"]
    /\ UNCHANGED <<codeVars, account, sender, verifier, faults>>

\* The handler: the logout deletes the session, any other leaves it.
Logout(c) ==
    /\ client[c].pc = "inside"
    /\ session' = [session EXCEPT ![client[c].id] = "ended"]
    /\ client' = [client EXCEPT ![c] = [pc |-> "idle", id |-> 0]]
    /\ UNCHANGED <<codeVars, account, sender, verifier, faults>>

Serve(c) ==
    /\ client[c].pc = "inside"
    /\ client' = [client EXCEPT ![c] = [pc |-> "idle", id |-> 0]]
    /\ UNCHANGED <<codeVars, account, session, sender, verifier, faults>>

------------------------------------------------------------------------------
(* Time and failures *)

CodeAges ==
    /\ code.age # "expired"
    /\ code' = [code EXCEPT !.age = IF @ = "new" THEN "old" ELSE "expired"]
    /\ overrun' = 0
    /\ UNCHANGED <<issued, mailed, compared, account, session,
                   sender, verifier, client, faults>>

SessionAges(i) ==
    /\ session[i] \in Alive
    /\ session' = [session EXCEPT ![i] =
                      IF @ = "long" THEN "short" ELSE "expired"]
    /\ UNCHANGED <<codeVars, account, sender, verifier, client, faults>>

\* A statement of a request fails and the request ends with an error.  A
\* refresh that fails is ignored.
SendFails(s) ==
    /\ sender[s].pc \in {"saving", "deleting"}
    /\ faults < MaxFaults
    /\ faults' = faults + 1
    /\ sender' = [sender EXCEPT ![s] = [pc |-> "idle", gen |-> 0]]
    /\ UNCHANGED <<codeVars, account, session, verifier, client>>

VerifyFails(v) ==
    /\ verifier[v].pc \in {"counting", "finding", "creating", "refinding",
                           "verifying", "opening"}
    /\ faults < MaxFaults
    /\ faults' = faults + 1
    /\ Leave(v, "idle")
    /\ UNCHANGED <<codeVars, account, session, sender, client>>

RefreshFails(c) ==
    /\ client[c].pc = "refreshing"
    /\ faults < MaxFaults
    /\ faults' = faults + 1
    /\ client' = [client EXCEPT ![c].pc = "inside"]
    /\ UNCHANGED <<codeVars, account, session, sender, verifier>>

\* The server dies and starts again: the requests are gone, the rows stay.
Crash ==
    /\ faults < MaxFaults
    /\ faults' = faults + 1
    /\ sender' = [s \in Senders |-> [pc |-> "idle", gen |-> 0]]
    /\ verifier' = [v \in Verifiers |-> [pc |-> "idle", gen |-> 0]]
    /\ client' = [c \in Clients |-> [pc |-> "idle", id |-> 0]]
    /\ UNCHANGED <<codeVars, account, session>>

Send(s) == SaveCode(s) \/ Mail(s) \/ Withdraw(s)

Verify(v) ==
    \/ CountAttempt(v) \/ Compare(v) \/ FindUser(v) \/ CreateUser(v)
    \/ FindAgain(v) \/ SetEmailVerified(v) \/ DeleteCode(v)
    \/ OpenSession(v) \/ Answered(v)

Next ==
    \/ \E s \in Senders :
          AskForCode(s) \/ AskUnseen(s) \/ Send(s) \/ SendFails(s)
    \/ \E v \in Verifiers : BringCode(v) \/ Verify(v) \/ VerifyFails(v)
    \/ \E c \in Clients :
          \/ Authenticate(c) \/ Refresh(c) \/ RefreshFails(c)
          \/ Logout(c) \/ Serve(c)
    \/ \E i \in Sessions : SessionAges(i)
    \/ CodeAges
    \/ Crash

Spec == Init /\ [][Next]_vars

------------------------------------------------------------------------------
(* Properties *)

\* No code is compared with more than MaxAttempts guesses, however many
\* requests bring one at once and whenever a new code replaces it: the hash
\* compared is that of the row whose attempt was counted.
GuessesBounded == \A g \in Codes : compared[g] <= MaxAttempts

\* A stored code, which holds up the next one for the cooldown, was mailed
\* or its sender is still at it: a failing mail does not lock the user out.
StoredCodeMailed ==
    faults = 0 /\ code.gen # 0 =>
        \/ mailed
        \/ \E s \in Senders : sender[s].gen = code.gen

\* Concurrent requests may pass the cooldown together, since the check and
\* the saving are two statements; each does so at most once, and once more
\* for each query that failed.
CooldownOverrunBounded == overrun < Cardinality(Senders) + faults

\* Whoever brought the right code is not sent away, also when several
\* register the address at once, unless a statement fails: the request goes
\* on until it has a session.
RightCodeEnters ==
    [][\A v \in Verifiers :
          /\ verifier[v].pc \in {"finding", "creating", "refinding",
                                "verifying", "deleting", "opening"}
          /\ verifier'[v].pc = "idle"
          => faults' > faults]_vars

\* A session that was logged out stays so, also when another request that
\* found it alive refreshes it afterwards.
LogoutFinal ==
    [][\A i \in Sessions : session[i] = "ended" => session'[i] = "ended"]_vars

------------------------------------------------------------------------------
=============================================================================
