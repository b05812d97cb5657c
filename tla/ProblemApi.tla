----------------------------- MODULE ProblemApi -----------------------------
(***************************************************************************)
(* One problem as the API's readers see it: the catalogue row with its     *)
(* owner, visibility and current version, the files of each version, and   *)
(* the store's cache in between, while uploads, changes of visibility and  *)
(* restarts happen.                                                        *)
(*                                                                         *)
(* The row of a version is committed before its files are renamed into     *)
(* place, so a reader may come in between; ProblemCatalog has the          *)
(* transactions and the batches of an upload, which are single steps here. *)
(* A version's directory arrives by one rename, and the manifest is the    *)
(* first file a load reads: a load sees the whole directory or none of it. *)
(* Every problem is inserted as "published" and with a current version.    *)
(***************************************************************************)
EXTENDS HttpPipeline

CONSTANTS
    Users, Requests,
    Nobody,          \* owner_user_id IS NULL: a built-in problem
    MaxVersion,      \* bound: versions of the problem
    MaxFaults        \* bound: failing statements, failing moves and restarts

ASSUME ProblemApiAssumption ==
    /\ NoUser \notin Users /\ Nobody \notin Users /\ Nobody # NoUser
    /\ MaxVersion \in Nat \ {0}
    /\ MaxFaults \in Nat

VARIABLES
    row,        \* the problem's row; current is 0 while there is none
    phase,      \* of each version: "none", "committed", "moved", "done"
                \* (the cache entry deleted) or "lost"
    cache,      \* Store.cache
    pin,        \* the version a game was created with, or 0
    req, faults

vars == <<row, phase, cache, pin, req, faults>>

Versions == 1..MaxVersion
Nil == 0                \* a nil *Problem
NotCached == -1

Visibilities == {"public", "unlisted", "private"}

HasFiles(v) == phase[v] \in {"moved", "done"}
Missing == {v \in Versions : phase[v] \in {"committed", "lost"}}

\* Mutant: any session will do for a private problem.
MayReadIfKnown(u) == row.visibility # "private" \/ u # NoUser

\* What the readers ask of the row: a private problem is its owner's.
MayRead(u) == row.visibility # "private" \/ row.owner = u

Free == [pc |-> "free"]

Ops == ProblemOps \cup {"CreateGame", "Submit"}

\* The places of a request, and what it has so far.
Places == {"catalog", "artifact", "pinned", "lookup", "load", "store", "update",
           "count", "list", "mine", "answered"}

Request ==
    [pc : Places, op : Ops, user : Users \cup {NoUser}, ver : Versions \cup {0},
     http : Nat, served : Versions \cup {Nil}, listed : BOOLEAN, saw : BOOLEAN,
     currents : SUBSET (Versions \cup {0}), missing : BOOLEAN, excuse : BOOLEAN]

RowType ==
    [owner : Users \cup {Nobody}, visibility : Visibilities,
     current : Versions \cup {0}]

TypeOK ==
    /\ row \in RowType
    /\ phase \in [Versions -> {"none", "committed", "moved", "done", "lost"}]
    /\ cache \in [Versions -> Versions \cup {Nil, NotCached}]
    /\ pin \in Versions \cup {0}
    /\ req \in [Requests -> {Free} \cup Request]
    /\ faults \in 0..MaxFaults

\* No problem yet, or a built-in one that the seeding has loaded.
Init ==
    /\ \E builtin \in BOOLEAN :
          /\ row = [owner |-> Nobody, visibility |-> "public",
                    current |-> IF builtin THEN 1 ELSE 0]
          /\ phase = [v \in Versions |->
                         IF builtin /\ v = 1 THEN "done" ELSE "none"]
          /\ cache = [v \in Versions |->
                         IF builtin /\ v = 1 THEN 1 ELSE NotCached]
    /\ pin = 0
    /\ req = [r \in Requests |-> Free]
    /\ faults = 0

------------------------------------------------------------------------------
(* What a request could have seen since it came *)

\* Whether what the operation shows, or makes a game of, was open to its user.
Open(op, u, theRow) ==
    /\ theRow.current # 0
    /\ \/ theRow.visibility = "public"
       \/ /\ op # "ListProblems"
          /\ theRow.visibility = "unlisted" \/ theRow.owner = u

Shows == {"GetProblem", "ListProblems", "CreateGame"}

\* Once the request has a path: which versions were current, and whether
\* the files of the path were missing.
Witness(q, theRow, missing) ==
    [q EXCEPT !.saw = @ \/ (q.op \in Shows /\ Open(q.op, q.user, theRow)),
              !.currents = IF q.op = "GetProblem" /\ q.ver # 0
                           THEN @ \cup {theRow.current} ELSE @,
              !.missing = @ \/ q.ver \in missing]

WitnessAll ==
    req' = [r \in Requests |->
               IF req[r].pc = "free" THEN req[r]
               ELSE Witness(req[r], row', Missing')]

------------------------------------------------------------------------------
(* Requests *)

FirstStatement(op) ==
    CASE op = "ListProblems" -> "count"
      [] op = "ListMyProblems" -> "mine"
      [] op = "Submit" -> "pinned"
      [] OTHER -> "catalog"

Answer(q, http) == [q EXCEPT !.pc = "answered", !.http = http]
Refuse(q, code) == Answer(q, httpStatusCode(code))

Step(r, q) ==
    /\ req' = [req EXCEPT ![r] = q]
    /\ UNCHANGED <<row, phase, pin, faults>>

Arrive(r, op, u, wellFormed) ==
    LET gate == IF op = "Submit" THEN 0 ELSE Gate(op, u, wellFormed)
        q == [pc |-> FirstStatement(op), op |-> op, user |-> u, ver |-> 0,
              http |-> 0, served |-> Nil, listed |-> FALSE, saw |-> FALSE,
              currents |-> {}, missing |-> FALSE, excuse |-> FALSE]
    IN
    /\ req[r].pc = "free"
    /\ wellFormed \/ u = NoUser                 \* refused whoever sent it
    /\ op = "Submit" => pin # 0 /\ u = NoUser   \* any player: all are alike here
    /\ Step(r, IF gate # 0 THEN Answer(q, gate) ELSE Witness(q, row, Missing))
    /\ UNCHANGED cache

At(r, ops, pc) == req[r].pc = pc /\ req[r].op \in ops

\* GetProblem: the catalogue row is read and checked,
GetCatalog(r) ==
    /\ At(r, {"GetProblem"}, "catalog")
    /\ Step(r, IF row.current = 0 \/ ~MayRead(req[r].user)
               THEN Refuse(req[r], "PROBLEM_NOT_FOUND")
               ELSE [req[r] EXCEPT !.pc = "artifact"])
    /\ UNCHANGED cache

\* then the path of the current version, by another statement.
GetArtifact(r) ==
    /\ At(r, {"GetProblem"}, "artifact")
    /\ Step(r, Witness([req[r] EXCEPT !.pc = "lookup", !.ver = row.current],
                       row, Missing))
    /\ UNCHANGED cache

\* GetGameProblemByIndex joins the version the game was created with.
PinnedPath == pin

GetPinned(r) ==
    /\ At(r, {"Submit"}, "pinned")
    /\ Step(r, Witness([req[r] EXCEPT !.pc = "lookup", !.ver = PinnedPath],
                       row, Missing))
    /\ UNCHANGED cache

\* Mutant: the cache is keyed by the problem's slug.
SlugKey(v) == 1

\* Store.cache is keyed by the artifact path.
Key(v) == v

\* The handler has the problem p; a nil one is a panic that is answered 500.
Serve(r, p) ==
    Step(r, [Answer(req[r], IF p = Nil THEN 500 ELSE 200) EXCEPT !.served = p])

\* GetByPath: under the read lock.
Lookup(r) ==
    /\ req[r].pc = "lookup"
    /\ LET p == cache[Key(req[r].ver)] IN
       IF p # NotCached
       THEN Serve(r, p)
       ELSE Step(r, [req[r] EXCEPT !.pc = "load"])
    /\ UNCHANGED cache

\* Mutant: what the load returned is stored before its error is looked at.
LoadAnything(r) ==
    /\ req[r].pc = "load"
    /\ Step(r, [req[r] EXCEPT !.pc = "store",
                    !.served = IF HasFiles(req[r].ver) THEN req[r].ver ELSE Nil])
    /\ UNCHANGED cache

\* loadProblemFromDir, without a lock; an error is a plain one.
Load(r) ==
    /\ req[r].pc = "load"
    /\ Step(r, IF HasFiles(req[r].ver)
               THEN [req[r] EXCEPT !.pc = "store", !.served = req[r].ver]
               ELSE Refuse(req[r], "load problem"))
    /\ UNCHANGED cache

\* Under the write lock.
Store(r) ==
    /\ req[r].pc = "store"
    /\ cache' = [cache EXCEPT ![Key(req[r].ver)] = req[r].served]
    /\ Serve(r, req[r].served)

\* PatchProblem reads the owner
ReadOwner(r) ==
    /\ At(r, {"PatchProblem"}, "catalog")
    /\ Step(r, IF row.current = 0 THEN Refuse(req[r], "PROBLEM_NOT_FOUND")
               ELSE IF row.owner # req[r].user THEN Refuse(req[r], "NOT_PROBLEM_OWNER")
               ELSE [req[r] EXCEPT !.pc = "update"])
    /\ UNCHANGED cache

\* and updates; a value that is no visibility fails the table's CHECK.
UpdateVisibility(r) ==
    /\ At(r, {"PatchProblem"}, "update")
    /\ \/ /\ Step(r, [Refuse(req[r], "check constraint") EXCEPT !.excuse = TRUE])
          /\ UNCHANGED cache
       \/ \E vis \in Visibilities :
             /\ row' = [row EXCEPT !.visibility = vis]
             /\ UNCHANGED <<phase, cache, pin, faults>>
             /\ req' = [q \in Requests |->
                           IF q = r THEN Answer(req[r], 200)
                           ELSE IF req[q].pc = "free" THEN req[q]
                           ELSE Witness(req[q], row', Missing)]

\* ListProblems: CountPublicProblems, then one page.
CountProblems(r) ==
    /\ At(r, {"ListProblems"}, "count")
    /\ Step(r, [req[r] EXCEPT !.pc = "list"])
    /\ UNCHANGED cache

\* The limit has a lower bound and, unlike that of ListGames, no upper one.
DefaultLimit == 1
Limit(n) == Int32(IF n > 0 THEN n ELSE DefaultLimit)

ListPublicProblems(r) ==
    /\ At(r, {"ListProblems"}, "list")
    /\ \E l, o \in PageArguments :
          LET limit == Limit(l)
              offset == Int32(IF o >= 0 THEN o ELSE 0)
          IN  Step(r, IF limit < 0 \/ offset < 0
                      THEN [Refuse(req[r], "must not be negative") EXCEPT
                               !.excuse = l >= 2^(Width - 1) \/ o >= 2^(Width - 1)]
                      ELSE [Answer(req[r], 200) EXCEPT
                               !.listed = /\ row.current # 0
                                          /\ row.visibility = "public"
                                          /\ limit > 0 /\ offset = 0])
    /\ UNCHANGED cache

ListMyProblems(r) ==
    /\ At(r, {"ListMyProblems"}, "mine")
    /\ Step(r, [Answer(req[r], 200) EXCEPT
                   !.listed = row.current # 0 /\ row.owner = req[r].user])
    /\ UNCHANGED cache

\* CreateGame: resolveProblemVersion, in the transaction that pins it.
ResolveProblemVersion(r) ==
    /\ At(r, {"CreateGame"}, "catalog")
    /\ IF row.current = 0 \/ ~MayRead(req[r].user)
       THEN /\ req' = [req EXCEPT ![r] = Refuse(@, "PROBLEM_NOT_FOUND")]
            /\ UNCHANGED pin
       ELSE /\ req' = [req EXCEPT ![r] = [Answer(@, 201) EXCEPT !.served = row.current]]
            /\ pin' = IF pin = 0 THEN row.current ELSE pin
    /\ UNCHANGED <<row, phase, cache, faults>>

\* A statement fails.  GetProblem takes any error of its second statement
\* for a problem that is not there.
Fail(r) ==
    /\ req[r].pc \notin {"free", "answered"}
    /\ faults < MaxFaults
    /\ faults' = faults + 1
    /\ req' = [req EXCEPT ![r] =
                  IF @.pc = "artifact" THEN Refuse(@, "PROBLEM_NOT_FOUND")
                  ELSE [Answer(@, 500) EXCEPT !.excuse = TRUE]]
    /\ UNCHANGED <<row, phase, cache, pin>>

Return(r) ==
    /\ req[r].pc = "answered"
    /\ Step(r, Free)
    /\ UNCHANGED cache

Handle(r) ==
    \/ GetCatalog(r) \/ GetArtifact(r) \/ GetPinned(r)
    \/ Lookup(r) \/ Load(r) \/ Store(r)
    \/ ReadOwner(r) \/ UpdateVisibility(r)
    \/ CountProblems(r) \/ ListPublicProblems(r) \/ ListMyProblems(r)
    \/ ResolveProblemVersion(r) \/ Fail(r)

------------------------------------------------------------------------------
(* Uploads *)

\* The transaction of UploadProblem.
Upload(u, vis) ==
    /\ row.current = 0
    /\ row' = [owner |-> u, visibility |-> vis, current |-> 1]
    /\ phase' = [phase EXCEPT ![1] = "committed"]
    /\ WitnessAll
    /\ UNCHANGED <<cache, pin, faults>>

\* The transaction of uploadNewVersion; built-in problems have none.
UploadVersion ==
    /\ row.current \in 1..(MaxVersion - 1)
    /\ row.owner # Nobody
    /\ row' = [row EXCEPT !.current = @ + 1]
    /\ phase' = [phase EXCEPT ![row.current + 1] = "committed"]
    /\ WitnessAll
    /\ UNCHANGED <<cache, pin, faults>>

\* moveProblemDir, which may fail and leaves the version without files,
Move(v) ==
    /\ phase[v] = "committed"
    /\ \/ /\ phase' = [phase EXCEPT ![v] = "moved"]
          /\ UNCHANGED faults
       \/ /\ faults < MaxFaults
          /\ faults' = faults + 1
          /\ phase' = [phase EXCEPT ![v] = "lost"]
    /\ UNCHANGED <<row, cache, pin, req>>

\* and then the cache forgets what it may have of the path.
Evict(v) ==
    /\ phase[v] = "moved"
    /\ phase' = [phase EXCEPT ![v] = "done"]
    /\ cache' = [cache EXCEPT ![Key(v)] = NotCached]
    /\ UNCHANGED <<row, pin, req, faults>>

\* The server restarts: requests and uploads end where they are.
Restart ==
    /\ faults < MaxFaults
    /\ faults' = faults + 1
    /\ req' = [r \in Requests |-> Free]
    /\ cache' = [v \in Versions |-> NotCached]
    /\ phase' = [v \in Versions |-> CASE phase[v] = "committed" -> "lost"
                                      [] phase[v] = "moved" -> "done"
                                      [] OTHER -> phase[v]]
    /\ UNCHANGED <<row, pin>>

Uploads ==
    \/ \E u \in Users, vis \in Visibilities : Upload(u, vis)
    \/ UploadVersion
    \/ \E v \in Versions : Move(v) \/ Evict(v)

\* An answer decides nothing any more, so it may as well leave at once.
Next ==
    \/ \E r \in Requests : Return(r)
    \/ /\ \A r \in Requests : req[r].pc # "answered"
       /\ \/ \E r \in Requests :
                \/ \E op \in Ops, u \in Users \cup {NoUser}, b \in BOOLEAN :
                      Arrive(r, op, u, b)
                \/ Handle(r)
          \/ Uploads
          \/ Restart

Spec == Init /\ [][Next]_vars

------------------------------------------------------------------------------
(* Properties *)

Answered(r, http) == req[r].pc = "answered" /\ req[r].http = http

\* Whoever reads a problem, or makes a game of it, was allowed to see it at
\* some moment of the request, and what a public list shows was public:
\* the checks are made on a row that is read again, or not at all, later.
VisibleWhenServed ==
    \A r \in Requests :
        /\ Answered(r, 200) /\ req[r].op = "GetProblem" => req[r].saw
        /\ Answered(r, 200) /\ req[r].op = "ListProblems" => (req[r].listed => req[r].saw)
        /\ Answered(r, 201) => req[r].saw

\* The version that is served was the current one at some moment after the
\* request read its path: the cache never hides a new version.
CurrentWhenServed ==
    \A r \in Requests :
        Answered(r, 200) /\ req[r].op = "GetProblem" =>
            req[r].served \in req[r].currents

\* An internal error has a cause in this very request: a version whose
\* files were not there after its path was read, a failing statement, a
\* visibility the database refuses, or a page parameter beyond an int32.
\* In particular a load that failed once is not remembered.  Every other
\* status is one the API's description declares, or a named omission.
ErrorsExplained ==
    \A r \in Requests :
        /\ Answered(r, 500) => req[r].excuse \/ req[r].missing
        /\ req[r].pc = "answered" /\ req[r].http # 500 /\ req[r].op # "Submit" =>
               req[r].http \in Known(req[r].op)

\* All submissions of a game are judged by the version it was created with,
\* whatever is uploaded, hidden, cached or restarted meanwhile.
JudgedAlike ==
    \A r \in Requests :
        Answered(r, 200) /\ req[r].op = "Submit" => req[r].served = pin

\* Readers get the current version, the submissions of a game its own.
VersionsServed == CurrentWhenServed /\ JudgedAlike

=============================================================================
