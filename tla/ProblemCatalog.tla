--------------------------- MODULE ProblemCatalog ---------------------------
(***************************************************************************)
(* The catalogue of problems: uploads of archives by users, new versions,  *)
(* the seeding of the built-in problems at startup, and crashes.           *)
(*                                                                         *)
(* A problem lives in two places that no transaction spans: its rows in    *)
(* the database (problems, problem_versions) and its files under           *)
(* problems/<slug>/v<version>.  An upload extracts the archive into a      *)
(* temporary directory, checks the limits with plain queries, inserts the  *)
(* rows in a transaction and then renames the temporary directory to its   *)
(* place.  At startup the server walks the directories and inserts rows    *)
(* for those that have none.                                               *)
(*                                                                         *)
(* A request starts here with an archive that module ArchiveValidation     *)
(* accepted.  What the rest of the server reads of a problem, its          *)
(* visibility and the store's cache, is in module ProblemApi.              *)
(***************************************************************************)
EXTENDS Integers, Sequences, FiniteSets, FiniteSetsExt

CONSTANTS
    Slugs,                 \* names of problems
    Builtins,              \* those shipped with the server as directories
    Users,
    Requests,              \* upload requests being served
    Nobody,                \* owner_user_id IS NULL: a built-in problem
    New,                   \* a manifest without slug: a new problem
    MaxBatch,              \* bound: problems in one archive
    MaxProblemsPerUser, MaxVersionsPerProblem,
    MaxFaults              \* bound: failing queries, failing file
                           \* operations and crashes of the server

ASSUME CatalogAssumption ==
    /\ Builtins \subseteq Slugs
    /\ Nobody \notin Users
    /\ New \notin Slugs
    /\ MaxBatch \in Nat \ {0}
    /\ MaxProblemsPerUser \in Nat
    /\ MaxVersionsPerProblem \in Nat \ {0}
    /\ MaxFaults \in Nat

ASSUME RequestsAssumption == IsFiniteSet(Requests) /\ Requests # {}

VARIABLES
    server,     \* "seeding", "serving", "down" or "refused" (log.Fatalf)
    row,        \* the rows of each slug
    lock,       \* SELECT ... FOR UPDATE on the problem's row
    dirs,       \* the slugs that have a directory
    disk,       \* the version directories of each slug, with who put them
    visited,    \* directories the seeding has dealt with
    req,        \* the upload requests
    leftover,   \* archive shapes whose temporary directory outlived a request
    faults

vars == <<server, row, lock, dirs, disk, visited, req, leftover, faults>>

Owner == Users \cup {Nobody}
Versions == Nat \ {0}

NoRow == [owner |-> Nobody, versions |-> {}, current |-> 0]

\* A row and its first version are inserted in one transaction.
Listed(s) == row[s].versions # {}

\* The archives that pass validation: a manifest at the root, or one
\* directory per problem.
Archive ==
    {[layout |-> "root", items |-> <<i>>] : i \in Slugs \cup {New}}
        \cup {[layout |-> "folders", items |-> q] :
                 q \in UNION {[1..n -> Slugs \cup {New}] : n \in 1..MaxBatch}}

Shape(a) ==
    IF a.layout = "root" THEN "root"
    ELSE IF Len(a.items) = 1 THEN "lone" ELSE "many"

\* A request slot that serves nobody; "clash" is one whose last request
\* failed because its version number was taken.
Free == {"idle", "clash"}
Working == {"checking", "uploading", "inserting", "locking", "locked",
            "committing", "making", "renaming"}

Upload == [pc : Working, user : Users,
           archive : [layout : {"root", "folders"},
                      items : Seq(Slugs \cup {New}) \ {<<>>}],
           at : Nat \ {0}, slug : Slugs \cup {New}, ver : Nat]

TypeOK ==
    /\ server \in {"seeding", "serving", "down", "refused"}
    /\ row \in [Slugs -> [owner : Owner, versions : SUBSET Versions,
                          current : Nat]]
    /\ lock \in [Slugs -> SUBSET Requests]
    /\ dirs \subseteq Slugs
    /\ disk \in [Slugs -> SUBSET (Versions \X Owner)]
    /\ visited \subseteq Slugs
    /\ req \in [Requests -> [pc : Free] \cup Upload]
    /\ leftover \subseteq {"root", "lone", "many"}
    /\ faults \in 0..MaxFaults

Init ==
    /\ server = "seeding"
    /\ row = [s \in Slugs |-> NoRow]
    /\ lock = [s \in Slugs |-> {}]
    /\ dirs = Builtins
    /\ disk = [s \in Slugs |-> IF s \in Builtins THEN {<<1, Nobody>>} ELSE {}]
    /\ visited = {}
    /\ req = [r \in Requests |-> [pc |-> "idle"]]
    /\ leftover = {}
    /\ faults = 0

------------------------------------------------------------------------------
(* The upload handlers *)

\* Slug and version of the directory v stands for.
HasFiles(s, v) == \E u \in Owner : <<v, u>> \in disk[s]

\* The handler returns.  os.RemoveAll and os.Rename act on validated[0].Dir,
\* which is the temporary directory itself for a manifest at the root; for
\* several problems the parent is removed.
Return(r, outcome) ==
    /\ req' = [req EXCEPT ![r] = [pc |-> outcome]]
    /\ leftover' = leftover \cup
           (IF Shape(req[r].archive) = "lone" THEN {"lone"} ELSE {})

Goto(r, pc) == req' = [req EXCEPT ![r].pc = pc] /\ UNCHANGED leftover

\* POST /problems: the archive has been validated.
BeginUpload(r) ==
    /\ server = "serving"
    /\ req[r].pc \in Free
    /\ \E u \in Users, a \in Archive :
          req' = [req EXCEPT ![r] = [pc |-> "checking", user |-> u,
                                     archive |-> a, at |-> 1,
                                     slug |-> New, ver |-> 0]]
    /\ UNCHANGED <<server, row, lock, dirs, disk, visited, leftover, faults>>

\* POST /problems/{slug}/versions: one problem, whose manifest's slug is
\* ignored in favour of the one in the URL.  An archive of several is refused
\* and removed before anything else happens.
BeginVersion(r) ==
    /\ server = "serving"
    /\ req[r].pc \in Free
    /\ \E u \in Users, s \in Slugs, l \in {"root", "folders"} :
          req' = [req EXCEPT ![r] = [pc |-> "checking", user |-> u,
                                     archive |-> [layout |-> l,
                                                  items |-> <<s>>],
                                     at |-> 1, slug |-> New, ver |-> 0]]
    /\ UNCHANGED <<server, row, lock, dirs, disk, visited, leftover, faults>>

Item(r) == req[r].archive.items[req[r].at]
Checked(r) == req[r].at > Len(req[r].archive.items)
NewProblems(r) ==
    Cardinality({i \in DOMAIN req[r].archive.items :
                    req[r].archive.items[i] = New})
OwnedBy(u) == {s \in Slugs : Listed(s) /\ row[s].owner = u}

\* What the checks before an upload ask of a slug.
MayUpload(u, s) ==
    /\ Listed(s)
    /\ row[s].owner = u
    /\ Cardinality(row[s].versions) < MaxVersionsPerProblem

\* One problem of the archive is checked.
CheckItem(r) ==
    /\ req[r].pc = "checking"
    /\ ~Checked(r)
    /\ IF Item(r) = New \/ MayUpload(req[r].user, Item(r))
       THEN req' = [req EXCEPT ![r].at = @ + 1] /\ UNCHANGED leftover
       ELSE Return(r, "idle")
    /\ UNCHANGED <<server, row, lock, dirs, disk, visited, faults>>

\* Mutant: the problems of the archive itself are not counted.
MayAddOne(r) ==
    \/ NewProblems(r) = 0
    \/ Cardinality(OwnedBy(req[r].user)) < MaxProblemsPerUser

\* The user's problems are counted, once, before any of them is uploaded.
MayAdd(r) ==
    \/ NewProblems(r) = 0
    \/ Cardinality(OwnedBy(req[r].user)) + NewProblems(r)
           <= MaxProblemsPerUser

CountProblems(r) ==
    /\ req[r].pc = "checking"
    /\ Checked(r)
    /\ IF MayAdd(r)
       THEN /\ req' = [req EXCEPT ![r].pc = "uploading", ![r].at = 1]
            /\ UNCHANGED leftover
       ELSE Return(r, "idle")
    /\ UNCHANGED <<server, row, lock, dirs, disk, visited, faults>>

\* Mutant: the files are moved before the rows are inserted.
MoveFirst(r) ==
    /\ req[r].pc = "uploading"
    /\ Item(r) = New
    /\ \E s \in Slugs \ Builtins :
          /\ ~Listed(s)
          /\ req' = [req EXCEPT ![r].pc = "making", ![r].slug = s,
                                ![r].ver = 1]
    /\ UNCHANGED <<server, row, lock, dirs, disk, visited, leftover, faults>>

\* generateSlug: a name that no row has yet.  It gives up after ten names
\* that exist.
GenerateSlug(r) ==
    /\ req[r].pc = "uploading"
    /\ Item(r) = New
    /\ \/ /\ \E s \in Slugs \ Builtins :
             /\ ~Listed(s)
             /\ req' = [req EXCEPT ![r].pc = "inserting", ![r].slug = s]
          /\ UNCHANGED leftover
       \/ /\ \E s \in Slugs \ Builtins : Listed(s)
          /\ Return(r, "idle")
    /\ UNCHANGED <<server, row, lock, dirs, disk, visited, faults>>

\* The transaction that inserts a new problem: catalogue row, version 1 and
\* current_version_id.  UNIQUE (slug) refuses a name taken meanwhile.
InsertProblem(r) ==
    /\ req[r].pc = "inserting"
    /\ LET s == req[r].slug IN
       IF Listed(s)
       THEN Return(r, "idle") /\ UNCHANGED row
       ELSE /\ row' = [row EXCEPT ![s] = [owner |-> req[r].user,
                                         versions |-> {1}, current |-> 1]]
            /\ req' = [req EXCEPT ![r].pc = "making", ![r].ver = 1]
            /\ UNCHANGED leftover
    /\ UNCHANGED <<server, lock, dirs, disk, visited, faults>>

\* uploadNewVersion finds the problem, computes the checksum and begins.
FindProblem(r) ==
    /\ req[r].pc = "uploading"
    /\ Item(r) # New
    /\ IF Listed(Item(r))
       THEN /\ req' = [req EXCEPT ![r].pc = "locking", ![r].slug = Item(r)]
            /\ UNCHANGED leftover
       ELSE Return(r, "idle")
    /\ UNCHANGED <<server, row, lock, dirs, disk, visited, faults>>

\* Mutant: a plain SELECT, without FOR UPDATE.
ReadProblem(r) ==
    /\ req[r].pc = "locking"
    /\ Goto(r, "locked")
    /\ UNCHANGED <<server, row, lock, dirs, disk, visited, faults>>

LockProblem(r) ==
    /\ req[r].pc = "locking"
    /\ lock[req[r].slug] = {}
    /\ lock' = [lock EXCEPT ![req[r].slug] = {r}]
    /\ Goto(r, "locked")
    /\ UNCHANGED <<server, row, dirs, disk, visited, faults>>

ReadMaxVersion(r) ==
    /\ req[r].pc = "locked"
    /\ req' = [req EXCEPT ![r].pc = "committing",
                          ![r].ver = Max(row[req[r].slug].versions) + 1]
    /\ UNCHANGED <<server, row, lock, dirs, disk, visited, leftover, faults>>

\* Mutant: current_version_id stays at the version it had.
CommitWithoutCurrent(r) ==
    /\ req[r].pc = "committing"
    /\ LET s == req[r].slug
           v == req[r].ver IN
       /\ IF v \in row[s].versions
          THEN Return(r, "clash") /\ UNCHANGED row
          ELSE /\ row' = [row EXCEPT ![s].versions = @ \cup {v}]
               /\ Goto(r, "making")
       /\ lock' = [lock EXCEPT ![s] = @ \ {r}]
    /\ UNCHANGED <<server, dirs, disk, visited, faults>>

\* The version row, current_version_id and the commit, which releases the
\* lock.  UNIQUE (problem_id, version) refuses a number that is taken.
CommitVersion(r) ==
    /\ req[r].pc = "committing"
    /\ LET s == req[r].slug
           v == req[r].ver IN
       /\ IF v \in row[s].versions
          THEN Return(r, "clash") /\ UNCHANGED row
          ELSE /\ row' = [row EXCEPT ![s].versions = @ \cup {v},
                                     ![s].current = v]
               /\ Goto(r, "making")
       /\ lock' = [lock EXCEPT ![s] = @ \ {r}]
    /\ UNCHANGED <<server, dirs, disk, visited, faults>>

\* moveProblemDir: os.MkdirAll of the slug's directory ...
MakeDir(r) ==
    /\ req[r].pc = "making"
    /\ dirs' = dirs \cup {req[r].slug}
    /\ Goto(r, "renaming")
    /\ UNCHANGED <<server, row, lock, disk, visited, faults>>

\* ... and os.Rename into it, which needs the parent and an empty place.
\* Then the next problem of the archive, or the response.
CanRename(r) == req[r].slug \in dirs /\ ~HasFiles(req[r].slug, req[r].ver)

Rename(r) ==
    /\ req[r].pc = "renaming"
    /\ IF CanRename(r)
       THEN /\ disk' = [disk EXCEPT ![req[r].slug] =
                           @ \cup {<<req[r].ver, req[r].user>>}]
            /\ IF req[r].at = Len(req[r].archive.items)
               THEN Return(r, "idle")
               ELSE /\ req' = [req EXCEPT ![r].pc = "uploading",
                                          ![r].at = @ + 1,
                                          ![r].slug = New, ![r].ver = 0]
                    /\ UNCHANGED leftover
       ELSE Return(r, "idle") /\ UNCHANGED disk
    /\ UNCHANGED <<server, row, lock, dirs, visited, faults>>

\* A query or a file operation fails: the transaction is rolled back, the
\* temporary directory cleaned up and the request refused.  Problems of the
\* archive that were uploaded before stay.
Fault(r) ==
    /\ req[r].pc \in Working
    /\ faults < MaxFaults
    /\ faults' = faults + 1
    /\ Return(r, "idle")
    /\ lock' = [s \in Slugs |-> lock[s] \ {r}]
    /\ UNCHANGED <<server, row, dirs, disk, visited>>

------------------------------------------------------------------------------
(* The process *)

\* The server dies: the requests end where they are, the database rolls
\* their transactions back.
Crash ==
    /\ server \in {"seeding", "serving"}
    /\ faults < MaxFaults
    /\ faults' = faults + 1
    /\ server' = "down"
    /\ req' = [r \in Requests |-> [pc |-> "idle"]]
    /\ lock' = [s \in Slugs |-> {}]
    /\ UNCHANGED <<row, dirs, disk, visited, leftover>>

Restart ==
    /\ server = "down"
    /\ server' = "seeding"
    /\ visited' = {}
    /\ UNCHANGED <<row, lock, dirs, disk, req, leftover, faults>>

\* seedSlug: a directory whose problem has a current version is passed over;
\* one without a version directory stops the start; for any other the newest
\* version directory becomes a built-in problem.
SeedSlug(s) ==
    /\ server = "seeding"
    /\ s \in dirs \ visited
    /\ \/ /\ row[s].current # 0
          /\ visited' = visited \cup {s}
          /\ UNCHANGED <<server, row>>
       \/ /\ row[s].current = 0
          /\ disk[s] = {}
          /\ server' = "refused"
          /\ UNCHANGED <<row, visited>>
       \/ /\ row[s].current = 0
          /\ disk[s] # {}
          /\ LET v == Max({d[1] : d \in disk[s]}) IN
             row' = [row EXCEPT ![s] = [owner |-> Nobody, versions |-> {v},
                                       current |-> v]]
          /\ visited' = visited \cup {s}
          /\ UNCHANGED server
    /\ UNCHANGED <<lock, dirs, disk, req, leftover, faults>>

\* A failing query during the seeding ends the process.
SeedFault ==
    /\ server = "seeding"
    /\ dirs # visited
    /\ faults < MaxFaults
    /\ faults' = faults + 1
    /\ server' = "down"
    /\ UNCHANGED <<row, lock, dirs, disk, visited, req, leftover>>

Serve ==
    /\ server = "seeding"
    /\ dirs = visited
    /\ server' = "serving"
    /\ UNCHANGED <<row, lock, dirs, disk, visited, req, leftover, faults>>

Handle(r) ==
    \/ CheckItem(r) \/ CountProblems(r)
    \/ GenerateSlug(r) \/ InsertProblem(r)
    \/ FindProblem(r) \/ ReadMaxVersion(r) \/ CommitVersion(r)
    \/ MakeDir(r) \/ Rename(r)

Start == Restart \/ Serve \/ (\E s \in Slugs : SeedSlug(s))

Next ==
    \/ \E r \in Requests :
          \/ BeginUpload(r) \/ BeginVersion(r)
          \/ Handle(r) \/ LockProblem(r) \/ Fault(r)
    \/ Start \/ SeedFault \/ Crash

Spec == Init /\ [][Next]_vars

------------------------------------------------------------------------------
(* Properties *)

\* The limits are checked before the uploads and outside their transactions,
\* so concurrent uploads, and two versions of a problem in one archive, may
\* exceed them; never by more than the problems under way in the other
\* requests, and in the other places of the archive.
LimitOvershootBounded ==
    LET adds == Min({MaxBatch, MaxProblemsPerUser}) IN
    /\ \A u \in Users :
          Cardinality(OwnedBy(u))
              <= MaxProblemsPerUser + (Cardinality(Requests) - 1) * adds
    /\ \A s \in Slugs :
          Cardinality(row[s].versions)
              <= MaxVersionsPerProblem + Cardinality(Requests) * MaxBatch - 1

\* The row lock makes reading the highest version and inserting the next one
\* safe: no upload of a version fails because its number is taken.
VersionsNeverClash == \A r \in Requests : req[r].pc # "clash"

\* Without faults and crashes every version in the database has its files,
\* or the upload that inserted it is about to move them.
VersionsHaveFiles ==
    faults = 0 =>
        \A s \in Slugs : \A v \in row[s].versions :
            \/ HasFiles(s, v)
            \/ \E r \in Requests : /\ req[r].pc \in {"making", "renaming"}
                                  /\ req[r].slug = s
                                  /\ req[r].ver = v

\* Whatever crashes in between, the files of an upload belong to a version
\* of a problem that its uploader owns: the seeding at the next start never
\* turns a user's upload into a public built-in problem.
UploadsStayOwned ==
    \A s \in Slugs : \A d \in disk[s] :
        d[2] # Nobody => row[s].owner = d[2] /\ d[1] \in row[s].versions

\* No directory that uploads and crashes leave behind stops the next start.
StartNeverRefused == server # "refused"

\* Only the archive with one problem in a directory leaves its temporary
\* directory behind: RemoveAll and Rename act on the directory inside.
LeftoverOnlyLone == leftover \subseteq {"lone"}

\* Rows and files, which no transaction spans, stay in agreement: versions
\* have their files, files of users their rows, seeding finds neither
\* files it would take over nor debris it cannot read, and of the files
\* unpacked on the way only those of a lone problem's archive may stay.
RowsAndFilesAgree ==
    VersionsHaveFiles /\ UploadsStayOwned /\ StartNeverRefused /\ LeftoverOnlyLone

\* What the rows show to their readers is what module Publication promises,
\* whatever requests race, fail half way or die with the server: ownership
\* is checked long before the transaction that relies on it, the name of a
\* new problem before the one that inserts it, and the seeding of a restart
\* meets the rows and files of earlier uploads.
Publishing == INSTANCE Publication WITH Problems <- Slugs, book <- row
PublicationSpec == Publishing!Spec

------------------------------------------------------------------------------
=============================================================================
