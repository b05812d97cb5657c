------------------------ MODULE ProblemCatalogProofs ------------------------
(* Theorems about module ProblemCatalog, for every set of problems, users  *)
(* and requests, and every number of faults and crashes; and about module  *)
(* ArchiveValidation, for every archive: the two stages of an upload.      *)
EXTENDS ProblemCatalog, ArchiveValidation, FiniteSetTheorems,
        SequenceTheorems, WellFoundedInduction, NaturalsInduction, TLAPS

(* Places at which an upload has its rows and not yet its files.           *)
Moving == {"making", "renaming"}

(* Places inside the transaction of a new version.                         *)
Locked == {"locked", "committing"}

(* What the checks establish for a problem of an archive, and no other     *)
(* request and no seeding undoes: it is new, or its row is the user's.     *)
Owns(u, s) == Listed(s) /\ row[s].owner = u
Passed(u, i) == i = New \/ Owns(u, i)

(* The versions of a problem are numbered without a gap, which is why the  *)
(* number read under the lock is free; built-in problems belong to nobody. *)
RowInv ==
    \A s \in Slugs : /\ row[s].versions = 1..row[s].current
                     /\ s \in Builtins /\ Listed(s) => row[s].owner = Nobody

(* Where files come from: the server's own, or an upload whose row is      *)
(* there already.  A directory without files is one that has a row.        *)
FileInv ==
    /\ \A s \in Builtins : <<1, Nobody>> \in disk[s]
    /\ \A s \in Slugs : \A d \in disk[s] :
          d[2] = Nobody => s \in Builtins /\ d[1] = 1
    /\ \A s \in dirs : s \in Builtins \/ Listed(s)
    /\ UploadsStayOwned
    /\ StartNeverRefused

(* An upload at each of its places.                                        *)
ReqOK(r) ==
    /\ req[r].pc # "clash"
    /\ req[r].pc \in Working => \A i \in 1..Len(req[r].archive.items) :
          (req[r].pc = "checking" => i < req[r].at) =>
              Passed(req[r].user, req[r].archive.items[i])
    /\ req[r].pc \in Working \ {"checking"} =>
          req[r].at <= Len(req[r].archive.items)
    /\ req[r].pc = "inserting" => req[r].slug \in Slugs \ Builtins
    /\ req[r].pc \in {"locking"} \cup Locked \cup Moving =>
          req[r].slug \in Slugs /\ Owns(req[r].user, req[r].slug)
    /\ req[r].pc = "committing" => req[r].ver = row[req[r].slug].current + 1
    /\ req[r].pc \in Moving => /\ req[r].ver \in row[req[r].slug].versions
                               /\ ~HasFiles(req[r].slug, req[r].ver)
    /\ req[r].pc = "renaming" => req[r].slug \in dirs

(* FOR UPDATE: one transaction at a time, and none holds it afterwards.    *)
LockInv ==
    /\ \A r \in Requests : req[r].pc \in Locked => lock[req[r].slug] = {r}
    /\ \A s \in Slugs : \A r \in lock[s] : req[r].pc \in Locked /\ req[r].slug = s

(* Two uploads never move files to the same place.                         *)
MoveInv ==
    \A q, r \in Requests :
        q # r /\ req[q].pc \in Moving /\ req[r].pc \in Moving =>
            req[q].slug # req[r].slug \/ req[q].ver # req[r].ver

IInv ==
    /\ TypeOK
    /\ RowInv
    /\ FileInv
    /\ \A r \in Requests : ReqOK(r)
    /\ LockInv
    /\ MoveInv
    /\ VersionsHaveFiles

-----------------------------------------------------------------------------
(* Types.                                                                  *)

Slot == [pc : Free] \cup Upload
Row == [owner : Owner, versions : SUBSET Versions, current : Nat]

(* The types, variable by variable.                                        *)
LEMMA TypeOKParts ==
    ASSUME TypeOK
    PROVE  /\ req \in [Requests -> Slot] /\ row \in [Slugs -> Row]
           /\ disk \in [Slugs -> SUBSET (Versions \X Owner)]
           /\ lock \in [Slugs -> SUBSET Requests]
           /\ dirs \subseteq Slugs /\ faults \in Nat
BY CatalogAssumption DEF TypeOK, Slot, Row

(* A request that is being served has the fields of an upload.             *)
LEMMA Serving ==
    ASSUME TypeOK, NEW r \in Requests, req[r].pc \in Working
    PROVE  /\ req[r] \in Upload /\ req[r].user \in Users
           /\ req[r].at \in Nat \ {0} /\ req[r].ver \in Nat
           /\ req[r].slug \in Slugs \cup {New}
           /\ req[r].archive.items \in Seq(Slugs \cup {New})
           /\ Len(req[r].archive.items) \in Nat \ {0}
           /\ \A i \in 1..Len(req[r].archive.items) :
                 req[r].archive.items[i] \in Slugs \cup {New}
<1>1. req[r] \in Upload
  BY TypeOKParts DEF Slot, Free, Working
<1>2. /\ req[r].archive.items \in Seq(Slugs \cup {New})
      /\ req[r].archive.items # <<>>
  BY <1>1 DEF Upload
<1>3. /\ Len(req[r].archive.items) \in Nat \ {0}
      /\ \A i \in 1..Len(req[r].archive.items) :
            req[r].archive.items[i] \in Slugs \cup {New}
  BY <1>2
<1> QED  BY <1>1, <1>2, <1>3 DEF Upload

(* The archives that validation accepts.                                   *)
LEMMA ArchiveType ==
    ASSUME NEW a \in Archive
    PROVE  a \in [layout : {"root", "folders"},
                  items : Seq(Slugs \cup {New}) \ {<<>>}]
<1>1. CASE \E i \in Slugs \cup {New} : a = [layout |-> "root", items |-> <<i>>]
  BY <1>1
<1>2. CASE \E n \in 1..MaxBatch : \E q \in [1..n -> Slugs \cup {New}] :
              a = [layout |-> "folders", items |-> q]
  <2>0. PICK n \in 1..MaxBatch : \E q \in [1..n -> Slugs \cup {New}] :
              a = [layout |-> "folders", items |-> q]
    BY <1>2
  <2>1. PICK q \in [1..n -> Slugs \cup {New}] : a = [layout |-> "folders", items |-> q]
    BY <2>0
  <2>2. n \in Nat /\ n >= 1
    BY CatalogAssumption
  <2>3. q \in Seq(Slugs \cup {New})
    BY <2>2
  <2>4. q # <<>>
    <3>1. 1 \in DOMAIN q
      BY <2>2
    <3> QED  BY <3>1
  <2> QED  BY <2>1, <2>3, <2>4
<1> QED  BY <1>1, <1>2 DEF Archive

(* What returning and going on do to the requests.                         *)
LEMMA ReturnFields ==
    ASSUME TypeOK, NEW r \in Requests, NEW o \in Free, Return(r, o)
    PROVE  /\ req' \in [Requests -> Slot]
           /\ \A q \in Requests : q # r => req'[q] = req[q]
           /\ req'[r].pc = o
           /\ leftover' \subseteq leftover \cup {"lone"}
<1>1. [pc |-> o] \in Slot
  BY DEF Slot
<1> QED  BY <1>1, TypeOKParts DEF Return

(* What going on leaves of an upload.                                      *)
LEMMA GotoFields ==
    ASSUME TypeOK, NEW r \in Requests, req[r].pc \in Working,
           NEW pc \in Working, Goto(r, pc)
    PROVE  /\ req' \in [Requests -> Slot]
           /\ \A q \in Requests : q # r => req'[q] = req[q]
           /\ req'[r] = [req[r] EXCEPT !.pc = pc]
           /\ req'[r].pc = pc
           /\ req'[r].user = req[r].user /\ req'[r].archive = req[r].archive
           /\ req'[r].at = req[r].at /\ req'[r].slug = req[r].slug
           /\ req'[r].ver = req[r].ver
           /\ UNCHANGED leftover
<1>1. req[r] \in Upload /\ req \in [Requests -> Slot]
  BY Serving, TypeOKParts
<1>2. [req[r] EXCEPT !.pc = pc] \in Upload
  BY <1>1 DEF Upload
<1>3. req' = [req EXCEPT ![r] = [req[r] EXCEPT !.pc = pc]] /\ UNCHANGED leftover
  BY DEF Goto
<1> QED  BY <1>1, <1>2, <1>3 DEF Slot, Upload

(* An upload goes on with other values in its fields.                      *)
LEMMA Updated ==
    ASSUME TypeOK, NEW r \in Requests, NEW x \in Slot,
           req' = [req EXCEPT ![r] = x]
    PROVE  /\ req' \in [Requests -> Slot] /\ req'[r] = x
           /\ \A q \in Requests : q # r => req'[q] = req[q]
BY TypeOKParts

(* Types after a step of an upload, from the types of what it changes.     *)
LEMMA TypeKept ==
    ASSUME TypeOK, req' \in [Requests -> Slot], row' \in [Slugs -> Row],
           disk' \in [Slugs -> SUBSET (Versions \X Owner)],
           lock' \in [Slugs -> SUBSET Requests], dirs' \subseteq Slugs,
           leftover' \subseteq leftover \cup {"lone"},
           UNCHANGED <<server, visited>>, UNCHANGED faults \/ faults' \in 0..MaxFaults
    PROVE  TypeOK'
BY DEF TypeOK, Slot, Row

-----------------------------------------------------------------------------
(* What one request does to the invariant of the others.                   *)

(* Rows and directories only grow, the version a transaction has computed  *)
(* stays the next one, and nobody else moves files to a request's place.   *)
LEMMA ReqKept ==
    ASSUME TypeOK, NEW q \in Requests, ReqOK(q), req'[q] = req[q],
           \A s \in Slugs : Listed(s) =>
             /\ row'[s].versions # {} /\ row'[s].owner = row[s].owner
             /\ row[s].versions \subseteq row'[s].versions,
           dirs \subseteq dirs',
           req[q].pc = "committing" =>
             row'[req[q].slug].current = row[req[q].slug].current,
           req[q].pc \in Moving =>
             \A u \in Owner : <<req[q].ver, u>> \in disk'[req[q].slug] =>
                              <<req[q].ver, u>> \in disk[req[q].slug]
    PROVE  ReqOK(q)'
<1>1. CASE req[q].pc \notin Working
  BY <1>1 DEF ReqOK, Working, Locked, Moving
<1>2. CASE req[q].pc \in Working
  <2>1. /\ \A i \in 1..Len(req[q].archive.items) :
             req[q].archive.items[i] \in Slugs \cup {New}
        /\ req[q].slug \in Slugs \cup {New}
    BY <1>2, Serving
  <2>2. \A u : \A s \in Slugs : Owns(u, s) => row'[s].versions # {} /\ row'[s].owner = u
    BY DEF Owns
  <2>3. \A i \in 1..Len(req[q].archive.items) :
          (req[q].pc = "checking" => i < req[q].at) =>
            \/ req[q].archive.items[i] = New
            \/ /\ row'[req[q].archive.items[i]].versions # {}
               /\ row'[req[q].archive.items[i]].owner = req[q].user
    BY <1>2, <2>1, <2>2 DEF ReqOK, Passed
  <2>4. req[q].pc \in {"locking"} \cup Locked \cup Moving =>
          /\ req[q].slug \in Slugs
          /\ row'[req[q].slug].versions # {} /\ row'[req[q].slug].owner = req[q].user
    BY <2>2 DEF ReqOK
  <2>5. req[q].pc \in Moving => /\ req[q].ver \in row'[req[q].slug].versions
                                /\ \A u \in Owner : <<req[q].ver, u>> \notin disk'[req[q].slug]
    BY DEF ReqOK, Owns, HasFiles
  <2>6. /\ req[q].pc # "clash"
        /\ req[q].pc \in Working \ {"checking"} =>
              req[q].at <= Len(req[q].archive.items)
        /\ req[q].pc = "inserting" => req[q].slug \in Slugs \ Builtins
        /\ req[q].pc = "committing" => req[q].ver = row'[req[q].slug].current + 1
        /\ req[q].pc = "renaming" => req[q].slug \in dirs'
    BY DEF ReqOK
  <2> QED  BY <2>3, <2>4, <2>5, <2>6 DEF ReqOK, Passed, Owns, Listed, HasFiles
<1> QED  BY <1>1, <1>2

(* A step that changes nothing but one request, which neither enters nor   *)
(* leaves a transaction and has no files to move.                          *)
LEMMA Quiet ==
    ASSUME IInv, NEW r \in Requests, req' \in [Requests -> Slot], ReqOK(r)',
           \A q \in Requests : q # r => req'[q] = req[q],
           UNCHANGED <<server, row, lock, dirs, disk, visited, faults>>,
           leftover' \subseteq leftover \cup {"lone"},
           req[r].pc \notin Moving, req'[r].pc \notin Moving,
           req'[r].pc \in Locked <=> req[r].pc \in Locked,
           req[r].pc \in Locked => req'[r].slug = req[r].slug
    PROVE  IInv'
<1>1. TypeOK'
  BY TypeOKParts, TypeKept DEF IInv
<1>2. RowInv' /\ FileInv'
  BY DEF IInv, RowInv, FileInv, Listed, UploadsStayOwned, StartNeverRefused
<1>3. \A q \in Requests : ReqOK(q)'
  <2> SUFFICES ASSUME NEW q \in Requests, q # r PROVE ReqOK(q)'
    OBVIOUS
  <2> QED  BY ReqKept DEF IInv, Listed
<1>4. LockInv'
  <2>1. \A s \in Slugs : \A q \in lock[s] : q \in Requests
    BY TypeOKParts DEF IInv
  <2>2. \A q \in Requests : req'[q].pc \in Locked =>
           req[q].pc \in Locked /\ req'[q].slug = req[q].slug
    OBVIOUS
  <2>3. \A q \in Requests : req[q].pc \in Locked =>
           req'[q].pc \in Locked /\ req'[q].slug = req[q].slug
    OBVIOUS
  <2> QED  BY <2>1, <2>2, <2>3 DEF IInv, LockInv
<1>5. \A q \in Requests : req'[q].pc \in Moving \/ req[q].pc \in Moving => req'[q] = req[q]
  OBVIOUS
<1>6. MoveInv'
  BY <1>5 DEF IInv, MoveInv
<1>7. VersionsHaveFiles'
  <2> SUFFICES ASSUME faults = 0, NEW s \in Slugs, NEW v \in row[s].versions,
                      ~\E u \in Owner : <<v, u>> \in disk[s]
               PROVE  \E q \in Requests : /\ req'[q].pc \in Moving
                                          /\ req'[q].slug = s /\ req'[q].ver = v
    BY DEF VersionsHaveFiles, HasFiles, Moving
  <2>1. PICK q \in Requests : req[q].pc \in Moving /\ req[q].slug = s /\ req[q].ver = v
    BY DEF IInv, VersionsHaveFiles, HasFiles, Moving
  <2> QED  BY <1>5, <2>1
<1> QED  BY <1>1, <1>2, <1>3, <1>4, <1>6, <1>7 DEF IInv

(* The handler returns from where it has no lock and nothing to move.      *)
LEMMA QuietReturn ==
    ASSUME IInv, NEW r \in Requests, Return(r, "idle"),
           req[r].pc \notin Locked \cup Moving,
           UNCHANGED <<server, row, lock, dirs, disk, visited, faults>>
    PROVE  IInv'
<1>1. TypeOK /\ "idle" \in Free
  BY DEF IInv, Free
<1>2. /\ req' \in [Requests -> Slot]
      /\ \A q \in Requests : q # r => req'[q] = req[q]
      /\ req'[r].pc = "idle"
      /\ leftover' \subseteq leftover \cup {"lone"}
  BY <1>1, ReturnFields
<1>3. ReqOK(r)'
  BY <1>2 DEF ReqOK, Working, Locked, Moving
<1> QED  BY <1>2, <1>3, Quiet DEF Locked, Moving

-----------------------------------------------------------------------------
(* The steps of the handlers.                                              *)

(* An upload begins.                                                       *)
LEMMA BeginSteps ==
    ASSUME IInv, NEW r \in Requests, BeginUpload(r) \/ BeginVersion(r)
    PROVE  IInv'
<1>1. PICK u \in Users, a \in [layout : {"root", "folders"},
                               items : Seq(Slugs \cup {New}) \ {<<>>}] :
         req' = [req EXCEPT ![r] = [pc |-> "checking", user |-> u, archive |-> a,
                                    at |-> 1, slug |-> New, ver |-> 0]]
  <2>1. CASE BeginUpload(r)
    BY <2>1, ArchiveType DEF BeginUpload
  <2>2. CASE BeginVersion(r)
    <3>1. PICK u \in Users, s \in Slugs, l \in {"root", "folders"} :
             req' = [req EXCEPT ![r] = [pc |-> "checking", user |-> u,
                                     archive |-> [layout |-> l, items |-> <<s>>],
                                     at |-> 1, slug |-> New, ver |-> 0]]
      BY <2>2 DEF BeginVersion
    <3>2. <<s>> \in Seq(Slugs \cup {New}) \ {<<>>}
      OBVIOUS
    <3>3. [layout |-> l, items |-> <<s>>] \in
             [layout : {"root", "folders"}, items : Seq(Slugs \cup {New}) \ {<<>>}]
      BY <3>2
    <3> QED  BY <3>1, <3>3
  <2> QED  BY <2>1, <2>2
<1> DEFINE x == [pc |-> "checking", user |-> u, archive |-> a,
                 at |-> 1, slug |-> New, ver |-> 0]
<1>2. x \in Slot
  BY DEF Slot, Upload, Working
<1>3. /\ req' \in [Requests -> Slot] /\ req'[r] = x
      /\ \A q \in Requests : q # r => req'[q] = req[q]
  BY <1>1, <1>2, Updated DEF IInv
<1>4. ReqOK(r)'
  <2>1. req'[r].pc = "checking" /\ req'[r].at = 1
    BY <1>3
  <2>2. \A i \in 1..Len(req'[r].archive.items) : ~(i < 1)
    OBVIOUS
  <2> QED  BY <2>1, <2>2 DEF ReqOK, Working, Locked, Moving
<1>5. /\ UNCHANGED <<server, row, lock, dirs, disk, visited, leftover, faults>>
      /\ req[r].pc \in Free
  BY DEF BeginUpload, BeginVersion
<1> QED  BY <1>3, <1>4, <1>5, Quiet DEF Free, Locked, Moving

(* The checks before an upload.                                            *)
LEMMA CheckSteps ==
    ASSUME IInv, NEW r \in Requests, CheckItem(r) \/ CountProblems(r)
    PROVE  IInv'
<1> DEFINE items == req[r].archive.items
<1>0. /\ req[r].pc = "checking" /\ TypeOK /\ ReqOK(r)
      /\ UNCHANGED <<server, row, lock, dirs, disk, visited, faults>>
      /\ req[r].pc \notin Locked \cup Moving
  BY DEF CheckItem, CountProblems, IInv, Locked, Moving
<1>1. /\ req[r] \in Upload /\ req[r].at \in Nat \ {0} /\ Len(items) \in Nat \ {0}
      /\ req[r].pc \in Working
  BY <1>0, Serving DEF Working
<1>2. CASE Return(r, "idle")
  BY <1>0, <1>2, QuietReturn
<1>3. CASE /\ ~Checked(r) /\ (Item(r) = New \/ MayUpload(req[r].user, Item(r)))
           /\ req' = [req EXCEPT ![r] = [req[r] EXCEPT !.at = req[r].at + 1]]
           /\ UNCHANGED leftover
  <2>1. [req[r] EXCEPT !.at = req[r].at + 1] \in Upload
    BY <1>1 DEF Upload
  <2>2. /\ req' \in [Requests -> Slot] /\ req'[r] = [req[r] EXCEPT !.at = req[r].at + 1]
        /\ \A q \in Requests : q # r => req'[q] = req[q]
    BY <1>0, <1>3, <2>1, Updated DEF Slot
  <2>3. /\ req'[r].pc = "checking" /\ req'[r].at = req[r].at + 1
        /\ req'[r].user = req[r].user /\ req'[r].archive = req[r].archive
    BY <1>0, <1>1, <2>2 DEF Upload
  <2>4. Passed(req[r].user, items[req[r].at])
    BY <1>3 DEF Item, Passed, Owns, MayUpload
  <2>5. \A i \in 1..Len(items) : i < req[r].at + 1 => Passed(req[r].user, items[i])
    <3>1. \A i \in 1..Len(items) : i < req[r].at + 1 => i < req[r].at \/ i = req[r].at
      BY <1>1
    <3>2. \A i \in 1..Len(items) : i < req[r].at => Passed(req[r].user, items[i])
      BY <1>0, <1>1 DEF ReqOK
    <3> QED  BY <2>4, <3>1, <3>2
  <2>6. ReqOK(r)'
    BY <1>0, <2>3, <2>5 DEF ReqOK, Passed, Owns, Listed, Locked, Moving
  <2> QED  BY <1>0, <1>3, <2>2, <2>3, <2>6, Quiet DEF Locked, Moving
<1>4. CASE /\ Checked(r) /\ UNCHANGED leftover
           /\ req' = [req EXCEPT ![r].pc = "uploading", ![r].at = 1]
  <2> DEFINE x == [req[r] EXCEPT !.pc = "uploading", !.at = 1]
  <2>0. 1 \in Nat \ {0} /\ "uploading" \in Working
    BY DEF Working
  <2>1. x \in Upload
    BY <1>1, <2>0 DEF Upload
  <2>2. req' = [req EXCEPT ![r] = x]
    BY <1>4, <1>0, TypeOKParts
  <2>3. /\ req' \in [Requests -> Slot] /\ req'[r] = x
        /\ \A q \in Requests : q # r => req'[q] = req[q]
    BY <1>0, <2>1, <2>2, Updated DEF Slot
  <2>4. /\ req'[r].pc = "uploading" /\ req'[r].at = 1
        /\ req'[r].user = req[r].user /\ req'[r].archive = req[r].archive
    BY <1>1, <2>3 DEF Upload
  <2>5. \A i \in 1..Len(items) : Passed(req[r].user, items[i])
    <3>1. \A i \in 1..Len(items) : i < req[r].at
      BY <1>1, <1>4 DEF Checked
    <3> QED  BY <1>0, <1>1, <3>1 DEF ReqOK
  <2>6. ReqOK(r)'
    BY <1>0, <1>1, <2>4, <2>5 DEF ReqOK, Passed, Owns, Listed, Locked, Moving
  <2> QED  BY <1>0, <1>4, <2>3, <2>4, <2>6, Quiet DEF Locked, Moving
<1> QED  BY <1>2, <1>3, <1>4 DEF CheckItem, CountProblems

(* What a request past the checks knows of its archive.                    *)
LEMMA AtItem ==
    ASSUME IInv, NEW r \in Requests, req[r].pc \in Working \ {"checking"}
    PROVE  /\ req[r].at \in 1..Len(req[r].archive.items)
           /\ Item(r) \in Slugs \cup {New} /\ Passed(req[r].user, Item(r))
           /\ \A i \in 1..Len(req[r].archive.items) :
                 Passed(req[r].user, req[r].archive.items[i])
<1>1. /\ req[r].at \in Nat \ {0} /\ Len(req[r].archive.items) \in Nat \ {0}
      /\ \A i \in 1..Len(req[r].archive.items) :
            req[r].archive.items[i] \in Slugs \cup {New}
  BY Serving DEF IInv
<1>2. /\ req[r].at <= Len(req[r].archive.items)
      /\ \A i \in 1..Len(req[r].archive.items) :
            Passed(req[r].user, req[r].archive.items[i])
  BY DEF IInv, ReqOK
<1>3. req[r].at \in 1..Len(req[r].archive.items)
  BY <1>1, <1>2
<1> QED  BY <1>1, <1>2, <1>3 DEF Item

(* A name is generated, or the problem of a version found.                 *)
LEMMA NameSteps ==
    ASSUME IInv, NEW r \in Requests, GenerateSlug(r) \/ FindProblem(r)
    PROVE  IInv'
<1>0. /\ req[r].pc = "uploading" /\ TypeOK /\ ReqOK(r)
      /\ UNCHANGED <<server, row, lock, dirs, disk, visited, faults>>
      /\ req[r].pc \notin Locked \cup Moving /\ req[r].pc \in Working \ {"checking"}
  BY DEF GenerateSlug, FindProblem, IInv, Locked, Moving, Working
<1>1. /\ req[r] \in Upload
      /\ req[r].at \in 1..Len(req[r].archive.items)
      /\ Item(r) \in Slugs \cup {New} /\ Passed(req[r].user, Item(r))
      /\ \A i \in 1..Len(req[r].archive.items) :
            Passed(req[r].user, req[r].archive.items[i])
  BY <1>0, AtItem, Serving
<1>2. CASE Return(r, "idle")
  BY <1>0, <1>2, QuietReturn
<1>3. ASSUME NEW pc, NEW s \in Slugs, UNCHANGED leftover,
             req' = [req EXCEPT ![r].pc = pc, ![r].slug = s],
             \/ pc = "inserting" /\ s \notin Builtins
             \/ pc = "locking" /\ Owns(req[r].user, s)
      PROVE  IInv'
  <2> DEFINE x == [req[r] EXCEPT !.pc = pc, !.slug = s]
  <2>1. x \in Upload
    BY <1>1, <1>3 DEF Upload, Working
  <2>2. req' = [req EXCEPT ![r] = x]
    BY <1>0, <1>3, TypeOKParts
  <2>3. /\ req' \in [Requests -> Slot] /\ req'[r] = x
        /\ \A q \in Requests : q # r => req'[q] = req[q]
    BY <1>0, <2>1, <2>2, Updated DEF Slot
  <2>4. /\ req'[r].pc = pc /\ req'[r].slug = s /\ req'[r].at = req[r].at
        /\ req'[r].user = req[r].user /\ req'[r].archive = req[r].archive
    BY <1>1, <2>3 DEF Upload
  <2>5. req[r].at <= Len(req[r].archive.items)
    BY <1>0 DEF ReqOK
  <2>6. ReqOK(r)'
    BY <1>0, <1>1, <1>3, <2>4, <2>5, ZenonT(60) DEF ReqOK, Passed, Owns, Listed, Locked, Moving
  <2> QED  BY <1>0, <1>3, <2>3, <2>4, <2>6, Quiet DEF Locked, Moving
<1>4. CASE GenerateSlug(r)
  BY <1>2, <1>3, <1>4 DEF GenerateSlug
<1>5. CASE FindProblem(r)
  <2>1. Item(r) \in Slugs /\ Owns(req[r].user, Item(r))
    BY <1>1, <1>5 DEF FindProblem, Passed
  <2> QED  BY <1>2, <1>3, <1>5, <2>1 DEF FindProblem
<1> QED  BY <1>4, <1>5

(* VersionsHaveFiles, to use and to establish.                             *)
LEMMA FilesOwed ==
    ASSUME VersionsHaveFiles, faults = 0, NEW s \in Slugs, NEW v \in row[s].versions,
           \A u \in Owner : <<v, u>> \notin disk[s]
    PROVE  \E q \in Requests : /\ req[q].pc \in Moving
                               /\ req[q].slug = s /\ req[q].ver = v
<1>1. ~HasFiles(s, v)
  BY DEF HasFiles
<1>2. \E q \in Requests : /\ req[q].pc \in {"making", "renaming"}
                          /\ req[q].slug = s /\ req[q].ver = v
  BY <1>1 DEF VersionsHaveFiles
<1> QED  BY <1>2 DEF Moving

(* Versions have their files once each has them, is being moved, or        *)
(* something failed.                                                       *)
LEMMA FilesGiven ==
    ASSUME \A s \in Slugs : \A v \in row'[s].versions :
              \/ faults' # 0
              \/ \E u \in Owner : <<v, u>> \in disk'[s]
              \/ \E q \in Requests : /\ req'[q].pc \in Moving
                                     /\ req'[q].slug = s /\ req'[q].ver = v
    PROVE  VersionsHaveFiles'
BY DEF VersionsHaveFiles, HasFiles, Moving

(* A version is inserted: its number is the next one, its row the user's   *)
(* and not a built-in problem's, so that no files can be in its place.     *)
LEMMA VersionAdded ==
    ASSUME IInv, NEW r \in Requests, req[r].pc \in {"inserting", "committing"},
           req[r].slug \in Slugs \ Builtins,
           Listed(req[r].slug) => row[req[r].slug].owner = req[r].user,
           req'[r].ver = row[req[r].slug].current + 1,
           row' \in [Slugs -> Row],
           \A t \in Slugs : t # req[r].slug => row'[t] = row[t],
           row'[req[r].slug].owner = req[r].user,
           row'[req[r].slug].current = req'[r].ver,
           row'[req[r].slug].versions = row[req[r].slug].versions \cup {req'[r].ver},
           \A q \in Requests : q # r /\ req[q].pc = "committing" =>
                                  req[q].slug # req[r].slug,
           req' \in [Requests -> Slot],
           \A q \in Requests : q # r => req'[q] = req[q],
           req'[r].pc = "making", req'[r].slug = req[r].slug,
           req'[r].user = req[r].user, req'[r].archive = req[r].archive,
           req'[r].at = req[r].at,
           lock' \in [Slugs -> SUBSET Requests],
           \A t \in Slugs : lock'[t] = lock[t] \ {r},
           UNCHANGED <<server, dirs, disk, visited, faults, leftover>>
    PROVE  IInv'
<1> DEFINE s == req[r].slug
           v == req'[r].ver
<1>a. /\ s \in Slugs /\ s \notin Builtins /\ v = row[s].current + 1
      /\ req'[r].slug = s /\ req'[r].ver = v
      /\ Listed(s) => row[s].owner = req[r].user
      /\ \A q \in Requests : q # r /\ req[q].pc = "committing" => req[q].slug # s
  OBVIOUS
<1>2. /\ \A t \in Slugs : t # s => row'[t] = row[t]
      /\ row'[s].owner = req[r].user /\ row'[s].current = v
      /\ row'[s].versions = row[s].versions \cup {v}
  OBVIOUS
<1> HIDE DEF s, v
<1>0. /\ TypeOK /\ row \in [Slugs -> Row] /\ row[s].current \in Nat
      /\ row[s].versions = 1..row[s].current /\ req[r].user \in Users
      /\ req[r].pc \in Working \ {"checking"}
  <2>1. req[r].pc \in Working \ {"checking"}
    BY DEF Working
  <2>2. TypeOK /\ row \in [Slugs -> Row]
    BY TypeOKParts DEF IInv
  <2> QED  BY <1>a, <2>1, <2>2, Serving DEF IInv, RowInv, Row
<1>1. v \notin row[s].versions /\ row[s].versions \cup {v} = 1..v /\ v \in Versions
  BY <1>0, <1>a DEF Versions
<1>3. TypeOK'
  BY <1>0, TypeOKParts, TypeKept
<1>4. \A t \in Slugs : Listed(t) =>
         /\ row'[t].versions # {} /\ row'[t].owner = row[t].owner
         /\ row[t].versions \subseteq row'[t].versions
  BY <1>2, <1>a DEF Listed
<1>5. RowInv'
  <2>1. row'[s].versions = 1..row'[s].current
    BY <1>1, <1>2
  <2>2. \A t \in Slugs : t # s =>
           /\ row'[t].versions = 1..row'[t].current
           /\ t \in Builtins /\ row'[t].versions # {} => row'[t].owner = Nobody
    <3>1. \A t \in Slugs : t # s => row'[t] = row[t]
      BY <1>2
    <3>2. \A t \in Slugs : /\ row[t].versions = 1..row[t].current
                           /\ t \in Builtins /\ row[t].versions # {} => row[t].owner = Nobody
      BY DEF IInv, RowInv, Listed
    <3> QED  BY <3>1, <3>2
  <2> QED  BY <1>a, <2>1, <2>2 DEF RowInv, Listed
<1>6. \A d \in disk[s] : d[2] # Nobody /\ row[s].owner = d[2] /\ d[1] \in row[s].versions
  BY <1>a DEF IInv, FileInv, UploadsStayOwned
<1>7. FileInv'
  <2>1. \A t \in dirs : t \in Builtins \/ row'[t].versions # {}
    BY <1>0, <1>4, TypeOKParts DEF IInv, FileInv
  <2>2. \A t \in Slugs : \A d \in disk[t] :
           d[2] # Nobody => row'[t].owner = d[2] /\ d[1] \in row'[t].versions
    <3>1. \A t \in Slugs : \A d \in disk[t] :
             d[2] # Nobody => /\ row[t].owner = d[2] /\ d[1] \in row[t].versions
                              /\ Listed(t)
      BY DEF IInv, FileInv, UploadsStayOwned, Listed
    <3> QED  BY <1>4, <3>1
  <2> QED  BY <2>1, <2>2 DEF IInv, FileInv, Listed, UploadsStayOwned, StartNeverRefused
<1>8. \A q \in Requests : ReqOK(q)'
  <2>1. ASSUME NEW q \in Requests, q # r PROVE ReqOK(q)'
    <3>1. req[q].pc = "committing" => row'[req[q].slug].current = row[req[q].slug].current
      BY <1>2, <1>a, <2>1, SMTT(30) DEF IInv, ReqOK, Locked
    <3> QED  BY <1>0, <1>4, <2>1, <3>1, ReqKept DEF IInv
  <2>2. ReqOK(r)'
    <3>1. /\ \A i \in 1..Len(req[r].archive.items) :
               /\ Passed(req[r].user, req[r].archive.items[i])
               /\ req[r].archive.items[i] \in Slugs \cup {New}
          /\ req[r].at <= Len(req[r].archive.items)
      BY <1>0, AtItem, Serving DEF IInv, ReqOK
    <3>2. \A i \in 1..Len(req[r].archive.items) :
               \/ req[r].archive.items[i] = New
               \/ /\ row'[req[r].archive.items[i]].versions # {}
                  /\ row'[req[r].archive.items[i]].owner = req[r].user
      BY <1>4, <3>1 DEF Passed, Owns
    <3>3. row'[s].versions # {} /\ v \in row'[s].versions
      BY <1>2
    <3>4. \A u \in Owner : <<v, u>> \notin disk[s]
      BY <1>1, <1>6
    <3>5. \A i \in 1..Len(req'[r].archive.items) :
               \/ req'[r].archive.items[i] = New
               \/ /\ row'[req'[r].archive.items[i]].versions # {}
                  /\ row'[req'[r].archive.items[i]].owner = req'[r].user
      BY <3>2
    <3>6. /\ req'[r].slug \in Slugs /\ row'[req'[r].slug].versions # {}
          /\ row'[req'[r].slug].owner = req'[r].user
          /\ req'[r].ver \in row'[req'[r].slug].versions
          /\ \A u \in Owner : <<req'[r].ver, u>> \notin disk'[req'[r].slug]
      BY <1>2, <1>a, <3>3, <3>4
    <3>7. req'[r].at <= Len(req'[r].archive.items)
      BY <3>1
    <3> QED  BY <3>5, <3>6, <3>7, ZenonT(60) DEF ReqOK, Passed, Owns, Listed, HasFiles
  <2> QED  BY <2>1, <2>2
<1>9. LockInv'
  <2>1. \A q \in Requests : req'[q].pc \in Locked =>
           q # r /\ req[q].pc \in Locked /\ req'[q].slug = req[q].slug
    BY DEF Locked
  <2>2. \A q \in Requests : req[q].pc \in Locked => req[q].slug \in Slugs
    BY DEF IInv, ReqOK
  <2>3. \A t \in Slugs : \A q \in lock'[t] : q \in Requests /\ q # r /\ q \in lock[t]
    BY <1>0, TypeOKParts
  <2>4. ASSUME NEW q \in Requests, req'[q].pc \in Locked PROVE lock'[req'[q].slug] = {q}
    <3>1. /\ q # r /\ lock[req[q].slug] = {q} /\ req[q].slug \in Slugs
          /\ req'[q].slug = req[q].slug
      BY <2>1, <2>2, <2>4 DEF IInv, LockInv
    <3>2. lock'[req[q].slug] = lock[req[q].slug] \ {r}
      BY <3>1
    <3> QED  BY <3>1, <3>2
  <2>5. \A t \in Slugs : \A q \in lock'[t] : req'[q].pc \in Locked /\ req'[q].slug = t
    BY <2>3 DEF IInv, LockInv
  <2> QED  BY <2>4, <2>5 DEF LockInv
<1>10. MoveInv'
  <2>1. \A q \in Requests : q # r /\ req[q].pc \in Moving => req[q].slug # s \/ req[q].ver # v
    BY <1>1 DEF IInv, ReqOK
  <2> QED  BY <1>a, <2>1 DEF IInv, MoveInv
<1>11. VersionsHaveFiles'
  <2>1. ASSUME NEW t \in Slugs, NEW w \in row'[t].versions, faults = 0,
               \A u \in Owner : <<w, u>> \notin disk[t]
        PROVE  \E q \in Requests : /\ req'[q].pc \in Moving
                                   /\ req'[q].slug = t /\ req'[q].ver = w
    <3>1. CASE t = s /\ w = v
      BY <1>a, <3>1 DEF Moving
    <3>2. CASE w \in row[t].versions
      <4>1. VersionsHaveFiles
        BY DEF IInv
      <4>2. PICK q \in Requests : req[q].pc \in Moving /\ req[q].slug = t /\ req[q].ver = w
        BY <2>1, <3>2, <4>1, FilesOwed
      <4>3. q # r
        BY <4>2 DEF Moving
      <4> QED  BY <4>2, <4>3
    <3> QED  BY <1>2, <3>1, <3>2
  <2> QED  BY <2>1, FilesGiven
<1> QED  BY <1>3, <1>5, <1>7, <1>8, <1>9, <1>10, <1>11 DEF IInv

(* A problem is inserted.                                                  *)
LEMMA InsertStep ==
    ASSUME IInv, NEW r \in Requests, InsertProblem(r)
    PROVE  IInv'
<1> DEFINE s == req[r].slug
<1>0. /\ req[r].pc = "inserting" /\ TypeOK /\ s \in Slugs \ Builtins
      /\ req[r].pc \in Working \ {"checking"} /\ req[r].pc \notin Locked \cup Moving
      /\ UNCHANGED <<server, lock, dirs, disk, visited, faults>>
  BY DEF InsertProblem, IInv, ReqOK, Working, Locked, Moving
<1>1. CASE Return(r, "idle") /\ UNCHANGED row
  BY <1>0, <1>1, QuietReturn
<1>2. CASE /\ ~Listed(s) /\ UNCHANGED leftover
           /\ row' = [row EXCEPT ![s] = [owner |-> req[r].user, versions |-> {1},
                                         current |-> 1]]
           /\ req' = [req EXCEPT ![r].pc = "making", ![r].ver = 1]
  <2> DEFINE x == [req[r] EXCEPT !.pc = "making", !.ver = 1]
  <2>1. req[r] \in Upload
    BY <1>0, Serving
  <2>2. x \in Upload
    BY <2>1 DEF Upload, Working
  <2>3. req' = [req EXCEPT ![r] = x]
    BY <1>0, <1>2, TypeOKParts
  <2>4. /\ req' \in [Requests -> Slot] /\ req'[r] = x
        /\ \A q \in Requests : q # r => req'[q] = req[q]
    BY <1>0, <2>2, <2>3, Updated DEF Slot
  <2>5. /\ req'[r].pc = "making" /\ req'[r].slug = s /\ req'[r].ver = 1
        /\ req'[r].user = req[r].user /\ req'[r].archive = req[r].archive
        /\ req'[r].at = req[r].at
    BY <2>1, <2>4 DEF Upload
  <2> HIDE DEF x, s
  <2>6. row[s].versions = {} /\ row[s].current = 0
    <3>1. row[s].versions = {} /\ row[s].versions = 1..row[s].current
      BY <1>0, <1>2 DEF Listed, IInv, RowInv
    <3>2. row[s].current \in Nat
      BY <1>0, TypeOKParts DEF Row
    <3>3. CASE row[s].current >= 1
      <4>1. 1 \in 1..row[s].current
        BY <3>2, <3>3
      <4> QED  BY <3>1, <4>1
    <3> QED  BY <3>1, <3>2, <3>3
  <2>7. /\ row' \in [Slugs -> Row]
        /\ \A t \in Slugs : t # s => row'[t] = row[t]
        /\ row'[s].owner = req[r].user /\ row'[s].current = req'[r].ver
        /\ row'[s].versions = row[s].versions \cup {req'[r].ver}
        /\ req'[r].ver = row[s].current + 1
    <3>1. row \in [Slugs -> Row] /\ req[r].user \in Users
      BY <1>0, TypeOKParts, Serving
    <3>2. [owner |-> req[r].user, versions |-> {1}, current |-> 1] \in Row
      BY <3>1 DEF Row, Owner, Versions
    <3>3. row' \in [Slugs -> Row] /\ \A t \in Slugs : t # s => row'[t] = row[t]
      BY <1>2, <3>1, <3>2
    <3>4. row'[s].owner = req[r].user /\ row'[s].current = 1 /\ row'[s].versions = {1}
      BY <1>0, <1>2, <3>1
    <3>5. row[s].versions \cup {1} = {1} /\ row[s].current + 1 = 1
      BY <2>6
    <3> QED  BY <2>5, <3>3, <3>4, <3>5
  <2>8. \A q \in Requests : req[q].pc = "committing" => req[q].slug # s
    BY <1>2 DEF IInv, ReqOK, Locked, Owns
  <2>9. /\ lock' \in [Slugs -> SUBSET Requests]
        /\ \A t \in Slugs : lock'[t] = lock[t] \ {r}
    BY <1>0, TypeOKParts DEF IInv, LockInv
  <2> QED  BY <1>0, <1>2, <2>4, <2>5, <2>7, <2>8, <2>9, VersionAdded DEF s
<1> QED  BY <1>0, <1>1, <1>2 DEF InsertProblem

(* A problem's row is locked.                                              *)
LEMMA LockStep ==
    ASSUME IInv, NEW r \in Requests, LockProblem(r)
    PROVE  IInv'
<1> DEFINE s == req[r].slug
<1>0. /\ req[r].pc = "locking" /\ TypeOK /\ s \in Slugs /\ lock[s] = {}
      /\ req[r].pc \in Working /\ Goto(r, "locked") /\ "locked" \in Working
      /\ lock' = [lock EXCEPT ![s] = {r}]
      /\ UNCHANGED <<server, row, dirs, disk, visited, faults>>
  BY DEF LockProblem, IInv, ReqOK, Working
<1>1. /\ req' \in [Requests -> Slot] /\ UNCHANGED leftover
      /\ \A q \in Requests : q # r => req'[q] = req[q]
      /\ req'[r].pc = "locked" /\ req'[r].user = req[r].user
      /\ req'[r].archive = req[r].archive /\ req'[r].at = req[r].at
      /\ req'[r].slug = req[r].slug
  BY <1>0, GotoFields
<1>2. /\ lock' \in [Slugs -> SUBSET Requests]
      /\ \A t \in Slugs : lock'[t] = IF t = s THEN {r} ELSE lock[t]
  BY <1>0, TypeOKParts
<1>3. TypeOK'
  BY <1>0, <1>1, <1>2, TypeOKParts, TypeKept
<1>4. RowInv' /\ FileInv'
  BY <1>0 DEF IInv, RowInv, FileInv, Listed, UploadsStayOwned, StartNeverRefused
<1>5. \A q \in Requests : ReqOK(q)'
  <2>1. ASSUME NEW q \in Requests, q # r PROVE ReqOK(q)'
    BY <1>0, <1>1, <2>1, ReqKept DEF IInv, Listed
  <2>2. ReqOK(r)'
    <3>1. ReqOK(r)
      BY DEF IInv
    <3> QED  BY <1>0, <1>1, <3>1 DEF ReqOK, Passed, Owns, Listed, Working, Locked, Moving
  <2> QED  BY <2>1, <2>2
<1>6. LockInv'
  <2>1. \A q \in Requests : q # r /\ req[q].pc \in Locked => req[q].slug # s /\ req[q].slug \in Slugs
    BY <1>0 DEF IInv, LockInv, ReqOK
  <2>2. \A t \in Slugs : \A q \in lock[t] :
           q \in Requests /\ q # r /\ req[q].pc \in Locked /\ req[q].slug = t
    BY <1>0, TypeOKParts DEF IInv, LockInv, Locked
  <2>3. \A q \in Requests : req'[q].pc \in Locked => lock'[req'[q].slug] = {q}
    BY <1>0, <1>1, <1>2, <2>1 DEF IInv, LockInv
  <2>4. \A t \in Slugs : \A q \in lock'[t] : req'[q].pc \in Locked /\ req'[q].slug = t
    BY <1>1, <1>2, <2>2 DEF Locked
  <2> QED  BY <2>3, <2>4 DEF LockInv
<1>7. \A q \in Requests : req'[q].pc \in Moving \/ req[q].pc \in Moving => req'[q] = req[q]
  BY <1>0, <1>1 DEF Moving
<1>8. MoveInv'
  BY <1>7 DEF IInv, MoveInv
<1>9. VersionsHaveFiles'
  <2> SUFFICES ASSUME faults = 0, NEW t \in Slugs, NEW v \in row[t].versions,
                      ~\E u \in Owner : <<v, u>> \in disk[t]
               PROVE  \E q \in Requests : /\ req'[q].pc \in Moving
                                          /\ req'[q].slug = t /\ req'[q].ver = v
    BY <1>0 DEF VersionsHaveFiles, HasFiles, Moving
  <2>1. PICK q \in Requests : req[q].pc \in Moving /\ req[q].slug = t /\ req[q].ver = v
    BY DEF IInv, VersionsHaveFiles, HasFiles, Moving
  <2> QED  BY <1>7, <2>1
<1> QED  BY <1>3, <1>4, <1>5, <1>6, <1>8, <1>9 DEF IInv

(* The highest of the versions 1 to n is n.                                *)
LEMMA MaxOfInterval ==
    ASSUME NEW n \in Nat, n >= 1
    PROVE  Max(1..n) = n
<1>1. n \in 1..n /\ \A y \in 1..n : n >= y
  OBVIOUS
<1>2. \A x \in 1..n : (\A y \in 1..n : x >= y) => x = n
  BY <1>1
<1> QED  BY <1>1, <1>2 DEF Max

(* A problem with rows has at least version 1.                             *)
LEMMA ListedCurrent ==
    ASSUME TypeOK, RowInv, NEW s \in Slugs
    PROVE  /\ row[s].current \in Nat /\ row[s].versions = 1..row[s].current
           /\ Listed(s) <=> row[s].current # 0
           /\ Listed(s) => row[s].current >= 1
<1>1. row[s].current \in Nat /\ row[s].versions = 1..row[s].current
  BY TypeOKParts DEF Row, RowInv
<1>2. CASE row[s].current = 0
  BY <1>1, <1>2 DEF Listed
<1>3. CASE row[s].current # 0
  <2>1. 1 \in 1..row[s].current
    BY <1>1, <1>3
  <2> QED  BY <1>1, <1>3, <2>1 DEF Listed
<1> QED  BY <1>1, <1>2, <1>3

(* The next version is read under the lock.                                *)
LEMMA ReadStep ==
    ASSUME IInv, NEW r \in Requests, ReadMaxVersion(r)
    PROVE  IInv'
<1> DEFINE s == req[r].slug
<1>0. /\ req[r].pc = "locked" /\ TypeOK /\ ReqOK(r) /\ RowInv
      /\ req[r].pc \in Working \ {"checking"} /\ req[r].pc \notin Moving
      /\ s \in Slugs /\ Listed(s)
      /\ UNCHANGED <<server, row, lock, dirs, disk, visited, leftover, faults>>
  BY DEF ReadMaxVersion, IInv, ReqOK, Owns, Working, Locked, Moving
<1>1. Max(row[s].versions) + 1 = row[s].current + 1 /\ row[s].current \in Nat
  BY <1>0, ListedCurrent, MaxOfInterval
<1>2. req[r] \in Upload
  BY <1>0, Serving
<1> DEFINE v == row[s].current + 1
           x == [req[r] EXCEPT !.pc = "committing", !.ver = v]
<1>3. v \in Nat
  BY <1>1
<1>4. req' = [req EXCEPT ![r] = x]
  <2>1. req' = [req EXCEPT ![r].pc = "committing", ![r].ver = v]
    BY <1>1 DEF ReadMaxVersion
  <2> HIDE DEF v
  <2> QED  BY <1>0, <2>1, TypeOKParts
<1> HIDE DEF v
<1>5. x \in Upload
  BY <1>2, <1>3 DEF Upload, Working
<1>6. /\ req' \in [Requests -> Slot] /\ req'[r] = x
      /\ \A q \in Requests : q # r => req'[q] = req[q]
  BY <1>0, <1>4, <1>5, Updated DEF Slot
<1>7. /\ req'[r].pc = "committing" /\ req'[r].slug = s /\ req'[r].ver = v
      /\ req'[r].user = req[r].user /\ req'[r].archive = req[r].archive
      /\ req'[r].at = req[r].at
  BY <1>2, <1>6 DEF Upload
<1>8. ReqOK(r)'
  BY <1>0, <1>7, SMTT(30) DEF ReqOK, Passed, Owns, Listed, Working, Locked, Moving, v
<1> QED  BY <1>0, <1>6, <1>7, <1>8, Quiet DEF Locked, Moving

(* The lock makes the number that was read the next one until the commit.  *)
LEMMA CommitStep ==
    ASSUME IInv, NEW r \in Requests, CommitVersion(r)
    PROVE  IInv'
<1> DEFINE s == req[r].slug
           v == req[r].ver
<1>0. /\ req[r].pc = "committing" /\ TypeOK /\ ReqOK(r) /\ RowInv
      /\ req[r].pc \in Working
      /\ s \in Slugs /\ Listed(s) /\ row[s].owner = req[r].user
      /\ v = row[s].current + 1
      /\ lock' = [lock EXCEPT ![s] = lock[s] \ {r}]
      /\ UNCHANGED <<server, dirs, disk, visited, faults>>
  BY DEF CommitVersion, IInv, ReqOK, Owns, Working, Locked
<1>1. row[s].versions = 1..row[s].current /\ row[s].current \in Nat
  BY <1>0, ListedCurrent
<1>2. v \notin row[s].versions
  BY <1>0, <1>1
<1>3. s \notin Builtins
  <2>1. req[r].user \in Users
    BY <1>0, Serving
  <2> QED  BY <1>0, <2>1, CatalogAssumption DEF RowInv
<1>4. /\ Goto(r, "making") /\ "making" \in Working
      /\ row' = [row EXCEPT ![s].versions = row[s].versions \cup {v},
                            ![s].current = v]
  BY <1>2 DEF CommitVersion, Working
<1>5. /\ req' \in [Requests -> Slot] /\ UNCHANGED leftover
      /\ \A q \in Requests : q # r => req'[q] = req[q]
      /\ req'[r].pc = "making" /\ req'[r].user = req[r].user
      /\ req'[r].archive = req[r].archive /\ req'[r].at = req[r].at
      /\ req'[r].slug = s /\ req'[r].ver = v
  BY <1>0, <1>4, GotoFields
<1> HIDE DEF s, v
<1>6. /\ row' \in [Slugs -> Row]
      /\ \A t \in Slugs : t # s => row'[t] = row[t]
      /\ row'[s].owner = req[r].user /\ row'[s].current = req'[r].ver
      /\ row'[s].versions = row[s].versions \cup {req'[r].ver}
  <2> DEFINE V == row[s].versions \cup {v}
             y == [row[s] EXCEPT !.versions = V, !.current = v]
  <2>1. row[s] \in Row /\ row \in [Slugs -> Row]
    BY <1>0, TypeOKParts
  <2>2. V \in SUBSET Versions /\ v \in Nat
    <3>1. row[s].versions \in SUBSET Versions
      BY <2>1 DEF Row
    <3> QED  BY <1>0, <1>1, <3>1 DEF Versions
  <2>3. row' = [row EXCEPT ![s] = y]
    BY <1>0, <1>4, <2>1
  <2> HIDE DEF V
  <2>4. y \in Row /\ y.owner = row[s].owner /\ y.versions = V /\ y.current = v
    BY <2>1, <2>2 DEF Row
  <2> HIDE DEF y
  <2>5. row' \in [Slugs -> Row] /\ row'[s] = y /\ \A t \in Slugs : t # s => row'[t] = row[t]
    BY <1>0, <2>1, <2>3, <2>4
  <2> QED  BY <1>0, <1>5, <2>4, <2>5 DEF V
<1>7. \A q \in Requests : q # r /\ req[q].pc = "committing" => req[q].slug # s
  <2>1. lock[s] = {r}
    BY <1>0 DEF IInv, LockInv, Locked, s
  <2> QED  BY <2>1 DEF IInv, LockInv, Locked
<1>8. /\ lock' \in [Slugs -> SUBSET Requests]
      /\ \A t \in Slugs : lock'[t] = lock[t] \ {r}
  <2>1. lock \in [Slugs -> SUBSET Requests]
    BY <1>0, TypeOKParts
  <2>2. \A t \in Slugs : t # s => r \notin lock[t]
    BY DEF IInv, LockInv, s
  <2> QED  BY <1>0, <2>1, <2>2
<1> QED  BY <1>0, <1>3, <1>5, <1>6, <1>7, <1>8, VersionAdded DEF s, v

(* The directory of the slug is made.                                      *)
LEMMA MakeDirStep ==
    ASSUME IInv, NEW r \in Requests, MakeDir(r)
    PROVE  IInv'
<1>0. /\ req[r].pc = "making" /\ TypeOK /\ ReqOK(r) /\ req[r].pc \in Working
      /\ req[r].slug \in Slugs /\ Listed(req[r].slug)
      /\ Goto(r, "renaming") /\ "renaming" \in Working
      /\ dirs' = dirs \cup {req[r].slug}
      /\ UNCHANGED <<server, row, lock, disk, visited, faults>>
  BY DEF MakeDir, IInv, ReqOK, Owns, Working, Moving
<1>1. /\ req' \in [Requests -> Slot] /\ UNCHANGED leftover
      /\ \A q \in Requests : q # r => req'[q] = req[q]
      /\ req'[r].pc = "renaming" /\ req'[r].user = req[r].user
      /\ req'[r].archive = req[r].archive /\ req'[r].at = req[r].at
      /\ req'[r].slug = req[r].slug /\ req'[r].ver = req[r].ver
  BY <1>0, GotoFields
<1>2. TypeOK'
  BY <1>0, <1>1, TypeOKParts, TypeKept
<1>3. RowInv' /\ FileInv'
  BY <1>0 DEF IInv, RowInv, FileInv, Listed, UploadsStayOwned, StartNeverRefused
<1>4. \A q \in Requests : ReqOK(q)'
  <2>1. ASSUME NEW q \in Requests, q # r PROVE ReqOK(q)'
    BY <1>0, <1>1, <2>1, ReqKept, SMTT(30) DEF IInv, Listed
  <2>2. ReqOK(r)'
    BY <1>0, <1>1 DEF ReqOK, Passed, Owns, Listed, HasFiles, Working, Locked, Moving
  <2> QED  BY <2>1, <2>2
<1>5. LockInv'
  <2>1. \A q \in Requests : /\ req'[q].pc \in Locked <=> req[q].pc \in Locked
                            /\ req'[q].slug = req[q].slug
    BY <1>0, <1>1 DEF Locked
  <2>2. \A t \in Slugs : \A q \in lock[t] : q \in Requests
    BY <1>0, TypeOKParts
  <2> QED  BY <1>0, <2>1, <2>2 DEF IInv, LockInv
<1>6. \A q \in Requests : /\ req'[q].pc \in Moving <=> req[q].pc \in Moving
                          /\ req'[q].slug = req[q].slug /\ req'[q].ver = req[q].ver
  BY <1>0, <1>1 DEF Moving
<1>7. MoveInv'
  BY <1>6 DEF IInv, MoveInv
<1>8. VersionsHaveFiles'
  BY <1>0, <1>6 DEF IInv, VersionsHaveFiles, HasFiles, Moving
<1> QED  BY <1>2, <1>3, <1>4, <1>5, <1>7, <1>8 DEF IInv

(* The place is always free: Rename cannot fail for what another request   *)
(* did.  Then the next problem of the archive, or the response.            *)
LEMMA RenameStep ==
    ASSUME IInv, NEW r \in Requests, Rename(r)
    PROVE  IInv'
<1> DEFINE s == req[r].slug
           v == req[r].ver
           u == req[r].user
<1>0. /\ req[r].pc = "renaming" /\ TypeOK /\ ReqOK(r)
      /\ req[r].pc \in Working \ {"checking"}
      /\ s \in Slugs /\ Listed(s) /\ row[s].owner = u /\ v \in row[s].versions
      /\ UNCHANGED <<server, row, lock, dirs, visited, faults>>
  BY DEF Rename, IInv, ReqOK, Owns, Working, Moving
<1>1. CanRename(r)
  BY <1>0 DEF CanRename, ReqOK, Moving
<1>2. disk' = [disk EXCEPT ![s] = disk[s] \cup {<<v, u>>}]
  BY <1>1 DEF Rename
<1>3. /\ req[r] \in Upload /\ u \in Users /\ u # Nobody /\ v \in Versions
      /\ req[r].at \in 1..Len(req[r].archive.items)
      /\ Len(req[r].archive.items) \in Nat
  <2>1. req[r] \in Upload /\ u \in Users /\ Len(req[r].archive.items) \in Nat
    BY <1>0, Serving
  <2>2. v \in Versions
    BY <1>0, TypeOKParts DEF Row
  <2> QED  BY <1>0, <2>1, <2>2, AtItem, CatalogAssumption
<1>4. /\ req' \in [Requests -> Slot] /\ leftover' \subseteq leftover \cup {"lone"}
      /\ \A q \in Requests : q # r => req'[q] = req[q]
      /\ req'[r].pc \in {"idle", "uploading"}
      /\ ReqOK(r)'
  <2>1. CASE Return(r, "idle")
    <3>1. /\ req' \in [Requests -> Slot] /\ leftover' \subseteq leftover \cup {"lone"}
          /\ \A q \in Requests : q # r => req'[q] = req[q]
          /\ req'[r].pc = "idle"
      BY <1>0, <2>1, ReturnFields DEF Free
    <3>2. ReqOK(r)'
      BY <3>1 DEF ReqOK, Working, Locked, Moving
    <3> QED  BY <3>1, <3>2
  <2>2. CASE /\ req[r].at # Len(req[r].archive.items) /\ UNCHANGED leftover
             /\ req' = [req EXCEPT ![r].pc = "uploading", ![r].at = req[r].at + 1,
                                   ![r].slug = New, ![r].ver = 0]
    <3> DEFINE n == req[r].at + 1
               x == [req[r] EXCEPT !.pc = "uploading", !.at = n, !.slug = New, !.ver = 0]
    <3>1. n \in Nat \ {0} /\ n <= Len(req[r].archive.items)
      BY <1>3, <2>2
    <3>2. req' = [req EXCEPT ![r] = x]
      <4> HIDE DEF n
      <4>1. req' = [req EXCEPT ![r].pc = "uploading", ![r].at = n,
                              ![r].slug = New, ![r].ver = 0]
        BY <2>2 DEF n
      <4> QED  BY <1>0, <4>1, TypeOKParts
    <3> HIDE DEF n
    <3>3. x \in Upload
      <4>1. "uploading" \in Working /\ 0 \in Nat /\ New \in Slugs \cup {New}
        BY DEF Working
      <4> QED  BY <1>3, <3>1, <4>1 DEF Upload
    <3>4. /\ req' \in [Requests -> Slot] /\ req'[r] = x
          /\ \A q \in Requests : q # r => req'[q] = req[q]
      BY <1>0, <3>2, <3>3, Updated DEF Slot
    <3>5. /\ req'[r].pc = "uploading" /\ req'[r].at = n
          /\ req'[r].user = req[r].user /\ req'[r].archive = req[r].archive
      BY <1>3, <3>4 DEF Upload
    <3>6. ReqOK(r)'
      BY <1>0, <3>1, <3>5 DEF ReqOK, Passed, Owns, Listed, Working, Locked, Moving
    <3> QED  BY <2>2, <3>4, <3>5, <3>6
  <2> QED  BY <1>1, <2>1, <2>2 DEF Rename
<1> HIDE DEF s, v, u
<1>5. /\ disk' \in [Slugs -> SUBSET (Versions \X Owner)]
      /\ disk'[s] = disk[s] \cup {<<v, u>>}
      /\ \A t \in Slugs : t # s => disk'[t] = disk[t]
  <2>1. disk \in [Slugs -> SUBSET (Versions \X Owner)] /\ <<v, u>> \in Versions \X Owner
    BY <1>0, <1>3, TypeOKParts DEF Owner
  <2>2. disk[s] \cup {<<v, u>>} \in SUBSET (Versions \X Owner)
    BY <1>0, <2>1
  <2> QED  BY <1>0, <1>2, <2>1, <2>2
<1>6. TypeOK'
  BY <1>0, <1>4, <1>5, TypeOKParts, TypeKept
<1>7. RowInv'
  BY <1>0 DEF IInv, RowInv, Listed
<1>8. FileInv'
  <2>1. \A t \in Slugs : \A d \in disk'[t] :
           d \in disk[t] \/ (t = s /\ d = <<v, u>>)
    BY <1>5
  <2>2. \A t \in Slugs : disk[t] \subseteq disk'[t]
    BY <1>5
  <2>3. <<v, u>>[1] = v /\ <<v, u>>[2] = u
    OBVIOUS
  <2>4. \A t \in Slugs : \A d \in disk'[t] : d[2] = Nobody => t \in Builtins /\ d[1] = 1
    BY <1>3, <2>1, <2>3 DEF IInv, FileInv
  <2>5. \A t \in Slugs : \A d \in disk'[t] :
           d[2] # Nobody => row[t].owner = d[2] /\ d[1] \in row[t].versions
    BY <1>0, <2>1, <2>3 DEF IInv, FileInv, UploadsStayOwned
  <2>6. \A t \in Builtins : <<1, Nobody>> \in disk'[t]
    BY <2>2, CatalogAssumption DEF IInv, FileInv
  <2> QED  BY <1>0, <2>4, <2>5, <2>6
           DEF IInv, FileInv, Listed, UploadsStayOwned, StartNeverRefused
<1>9. \A q \in Requests : ReqOK(q)'
  <2> SUFFICES ASSUME NEW q \in Requests, q # r PROVE ReqOK(q)'
    BY <1>4
  <2>1. req[q].pc \in Moving => req[q].slug \in Slugs /\ (req[q].slug # s \/ req[q].ver # v)
    BY <1>0 DEF IInv, ReqOK, MoveInv, Moving, s, v
  <2>2. req[q].pc \in Moving => \A w \in Owner :
           <<req[q].ver, w>> \in disk'[req[q].slug] => <<req[q].ver, w>> \in disk[req[q].slug]
    BY <1>5, <2>1
  <2> QED  BY <1>0, <1>4, <2>2, ReqKept DEF IInv, Listed
<1>10. LockInv'
  <2>1. \A q \in Requests : req'[q].pc \in Locked \/ req[q].pc \in Locked => req'[q] = req[q]
    BY <1>0, <1>4 DEF Locked
  <2>2. \A t \in Slugs : \A q \in lock[t] : q \in Requests
    BY <1>0, TypeOKParts
  <2> QED  BY <1>0, <2>1, <2>2 DEF IInv, LockInv
<1>11. \A q \in Requests : /\ req'[q].pc \in Moving => q # r /\ req'[q] = req[q]
                           /\ req[q].pc \in Moving /\ q # r => req'[q] = req[q]
  BY <1>4 DEF Moving
<1>12. MoveInv'
  BY <1>11 DEF IInv, MoveInv
<1>13. VersionsHaveFiles'
  <2>1. ASSUME NEW t \in Slugs, NEW w \in row[t].versions, faults = 0,
               \A o \in Owner : <<w, o>> \notin disk'[t]
        PROVE  \E q \in Requests : /\ req'[q].pc \in Moving
                                   /\ req'[q].slug = t /\ req'[q].ver = w
    <3>1. VersionsHaveFiles /\ u \in Owner
      BY <1>3 DEF IInv, Owner
    <3>2. \A o \in Owner : <<w, o>> \notin disk[t]
      BY <1>5, <2>1
    <3>3. PICK q \in Requests : req[q].pc \in Moving /\ req[q].slug = t /\ req[q].ver = w
      BY <2>1, <3>1, <3>2, FilesOwed
    <3>4. q # r
      BY <1>5, <2>1, <3>1, <3>3 DEF s, v
    <3> QED  BY <1>11, <3>3, <3>4
  <2> QED  BY <1>0, <2>1, FilesGiven
<1> QED  BY <1>4, <1>6, <1>7, <1>8, <1>9, <1>10, <1>12, <1>13 DEF IInv

(* Requests that end where they are, by a fault or a crash, drop what they *)
(* held.  Files and rows stay as they are, and the fault is counted.       *)
LEMMA RequestsEnd ==
    ASSUME IInv, TypeOK', UNCHANGED <<row, dirs, disk>>, server' # "refused",
           faults' # 0, NEW Q \in SUBSET Requests,
           \A q \in Q : req'[q].pc = "idle",
           \A q \in Requests \ Q : req'[q] = req[q],
           \A s \in Slugs : lock'[s] = lock[s] \ Q
    PROVE  IInv'
<1>1. TypeOK
  BY DEF IInv
<1>2. RowInv' /\ FileInv'
  BY DEF IInv, RowInv, FileInv, Listed, UploadsStayOwned, StartNeverRefused
<1>3. \A q \in Requests : ReqOK(q)'
  <2>1. ASSUME NEW q \in Q PROVE ReqOK(q)'
    BY <2>1 DEF ReqOK, Working, Locked, Moving
  <2>2. ASSUME NEW q \in Requests \ Q PROVE ReqOK(q)'
    BY <1>1, <2>2, ReqKept DEF IInv, Listed
  <2> QED  BY <2>1, <2>2
<1>4. LockInv'
  <2>1. ASSUME NEW q \in Requests, req'[q].pc \in Locked PROVE lock'[req'[q].slug] = {q}
    <3>1. q \notin Q /\ req'[q] = req[q]
      BY <2>1 DEF Locked
    <3>2. lock[req[q].slug] = {q} /\ req[q].slug \in Slugs
      BY <2>1, <3>1 DEF IInv, LockInv, ReqOK
    <3>3. lock'[req[q].slug] = lock[req[q].slug] \ Q
      BY <3>2
    <3> QED  BY <3>1, <3>2, <3>3
  <2>2. \A s \in Slugs : \A q \in lock'[s] : q \in Requests \ Q /\ q \in lock[s]
    BY <1>1, TypeOKParts
  <2>3. \A s \in Slugs : \A q \in lock'[s] : req'[q].pc \in Locked /\ req'[q].slug = s
    BY <2>2 DEF IInv, LockInv
  <2> QED  BY <2>1, <2>3 DEF LockInv
<1>5. \A q \in Requests : req'[q].pc \in Moving => req'[q] = req[q]
  BY DEF Moving
<1>6. MoveInv'
  BY <1>5 DEF IInv, MoveInv
<1>7. VersionsHaveFiles'
  BY FilesGiven
<1> QED  BY <1>2, <1>3, <1>4, <1>6, <1>7 DEF IInv

(* A step of an upload fails.                                              *)
LEMMA FaultStep ==
    ASSUME IInv, NEW r \in Requests, Fault(r)
    PROVE  IInv'
<1>0. /\ TypeOK /\ Return(r, "idle") /\ "idle" \in Free
      /\ lock' = [s \in Slugs |-> lock[s] \ {r}]
      /\ UNCHANGED <<server, row, dirs, disk, visited>>
      /\ faults < MaxFaults /\ faults' = faults + 1
  BY DEF Fault, IInv, Free
<1>1. /\ req' \in [Requests -> Slot] /\ leftover' \subseteq leftover \cup {"lone"}
      /\ \A q \in Requests : q # r => req'[q] = req[q]
      /\ req'[r].pc = "idle"
  BY <1>0, ReturnFields
<1>2. faults' # 0 /\ faults' \in 0..MaxFaults
  BY <1>0, TypeOKParts, CatalogAssumption DEF TypeOK
<1>3. lock' \in [Slugs -> SUBSET Requests] /\ \A s \in Slugs : lock'[s] = lock[s] \ {r}
  BY <1>0, TypeOKParts
<1>4. TypeOK'
  BY <1>0, <1>1, <1>2, <1>3, TypeOKParts, TypeKept
<1>5. server' # "refused"
  BY <1>0 DEF IInv, FileInv, StartNeverRefused
<1> QED  BY <1>0, <1>1, <1>2, <1>3, <1>4, <1>5, RequestsEnd

(* The process dies.                                                       *)
LEMMA CrashStep ==
    ASSUME IInv, Crash
    PROVE  IInv'
<1>0. /\ TypeOK /\ server' = "down"
      /\ req' = [r \in Requests |-> [pc |-> "idle"]]
      /\ lock' = [s \in Slugs |-> {}]
      /\ UNCHANGED <<row, dirs, disk, visited, leftover>>
      /\ faults < MaxFaults /\ faults' = faults + 1
  BY DEF Crash, IInv
<1>1. faults' # 0 /\ faults' \in 0..MaxFaults
  BY <1>0, TypeOKParts, CatalogAssumption DEF TypeOK
<1>2. req' \in [Requests -> [pc : Free] \cup Upload] /\ lock' \in [Slugs -> SUBSET Requests]
  BY <1>0 DEF Free
<1>3. TypeOK'
  BY <1>0, <1>1, <1>2 DEF TypeOK
<1>4. \A s \in Slugs : lock'[s] = lock[s] \ Requests
  BY <1>0, TypeOKParts
<1>5. \A q \in Requests : req'[q].pc = "idle"
  BY <1>0
<1> QED  BY <1>0, <1>1, <1>3, <1>4, <1>5, RequestsEnd

(* A seeded directory has the server's own files and nothing else: the     *)
(* rows of an upload are there before its files.                           *)
LEMMA SeedStep ==
    ASSUME IInv, NEW s \in Slugs, SeedSlug(s)
    PROVE  IInv'
<1>0. /\ TypeOK /\ RowInv /\ s \in dirs
      /\ UNCHANGED <<lock, dirs, disk, req, leftover, faults>>
  BY DEF SeedSlug, IInv
<1>1. CASE row[s].current # 0 /\ visited' = visited \cup {s} /\ UNCHANGED <<server, row>>
  <2>1. TypeOK'
    BY <1>0, <1>1 DEF TypeOK
  <2>2. RowInv' /\ FileInv'
    BY <1>0, <1>1 DEF IInv, RowInv, FileInv, Listed, UploadsStayOwned, StartNeverRefused
  <2>3. \A q \in Requests : ReqOK(q)'
    BY <1>0, <1>1, ReqKept DEF IInv, Listed
  <2>4. LockInv' /\ MoveInv'
    BY <1>0 DEF IInv, LockInv, MoveInv
  <2>5. VersionsHaveFiles'
    BY <1>0, <1>1 DEF IInv, VersionsHaveFiles, HasFiles
  <2> QED  BY <2>1, <2>2, <2>3, <2>4, <2>5 DEF IInv
<1>2. CASE row[s].current = 0
  <2>1. ~Listed(s) /\ row[s].versions = {}
    BY <1>0, <1>2, ListedCurrent DEF Listed
  <2>2. s \in Builtins /\ <<1, Nobody>> \in disk[s]
    BY <1>0, <2>1 DEF IInv, FileInv
  <2>3. \A d \in disk[s] : d[2] = Nobody /\ d[1] = 1
    BY <2>1 DEF IInv, FileInv, UploadsStayOwned
  <2>4. {d[1] : d \in disk[s]} = {1}
    BY <2>2, <2>3
  <2>5. Max({1}) = 1
    BY DEF Max
  <2>6. /\ row' = [row EXCEPT ![s] = [owner |-> Nobody, versions |-> {1}, current |-> 1]]
        /\ visited' = visited \cup {s} /\ UNCHANGED server
    BY <1>2, <2>2, <2>4, <2>5 DEF SeedSlug
  <2>7. row \in [Slugs -> Row] /\ [owner |-> Nobody, versions |-> {1}, current |-> 1] \in Row
    BY <1>0, TypeOKParts DEF Row, Owner, Versions
  <2>8. /\ row' \in [Slugs -> Row] /\ \A t \in Slugs : t # s => row'[t] = row[t]
        /\ row'[s].owner = Nobody /\ row'[s].versions = {1} /\ row'[s].current = 1
    BY <2>6, <2>7
  <2>9. TypeOK'
    BY <1>0, <2>6, <2>8 DEF TypeOK, Row
  <2>10. RowInv'
    <3>1. {1} = 1..1
      OBVIOUS
    <3>2. \A t \in Slugs : t # s =>
             /\ row'[t].versions = 1..row'[t].current
             /\ t \in Builtins /\ row'[t].versions # {} => row'[t].owner = Nobody
      <4>1. \A t \in Slugs :
               /\ row[t].versions = 1..row[t].current
               /\ t \in Builtins /\ row[t].versions # {} => row[t].owner = Nobody
        BY <1>0 DEF RowInv, Listed
      <4> QED  BY <2>8, <4>1
    <3> QED  BY <2>8, <3>1, <3>2 DEF RowInv, Listed
  <2>11. \A t \in Slugs : Listed(t) =>
           /\ row'[t].versions # {} /\ row'[t].owner = row[t].owner
           /\ row[t].versions \subseteq row'[t].versions
           /\ row'[t].current = row[t].current
    BY <2>1, <2>8 DEF Listed
  <2>12. FileInv'
    <3>1. \A t \in dirs : t \in Builtins \/ row'[t].versions # {}
      BY <1>0, <2>11, TypeOKParts DEF IInv, FileInv
    <3>2. \A t \in Slugs : \A d \in disk[t] :
             d[2] # Nobody => row'[t].owner = d[2] /\ d[1] \in row'[t].versions
      BY <2>3, <2>8 DEF IInv, FileInv, UploadsStayOwned
    <3> QED  BY <1>0, <2>6, <3>1, <3>2
             DEF IInv, FileInv, Listed, UploadsStayOwned, StartNeverRefused
  <2>13. \A q \in Requests : ReqOK(q)'
    <3> SUFFICES ASSUME NEW q \in Requests PROVE ReqOK(q)'
      OBVIOUS
    <3>1. req[q].pc = "committing" => row'[req[q].slug].current = row[req[q].slug].current
      BY <2>11 DEF IInv, ReqOK, Owns, Locked
    <3> QED  BY <1>0, <2>11, <3>1, ReqKept DEF IInv
  <2>14. LockInv' /\ MoveInv'
    BY <1>0 DEF IInv, LockInv, MoveInv
  <2>15. VersionsHaveFiles'
    <3>1. ASSUME NEW t \in Slugs, NEW w \in row'[t].versions, faults = 0,
                 \A o \in Owner : <<w, o>> \notin disk[t]
          PROVE  \E q \in Requests : /\ req[q].pc \in Moving
                                     /\ req[q].slug = t /\ req[q].ver = w
      <4>1. VersionsHaveFiles
        BY DEF IInv
      <4>2. t # s
        BY <2>2, <2>8, <3>1 DEF Owner
      <4> QED  BY <2>8, <3>1, <4>1, <4>2, FilesOwed
    <3> QED  BY <1>0, <3>1, FilesGiven
  <2> QED  BY <2>9, <2>10, <2>12, <2>13, <2>14, <2>15 DEF IInv
<1> QED  BY <1>1, <1>2 DEF SeedSlug

(* The process starts and serves.                                          *)
LEMMA ProcessSteps ==
    ASSUME IInv, Restart \/ Serve \/ SeedFault \/ UNCHANGED vars
    PROVE  IInv'
<1>0. /\ TypeOK /\ UNCHANGED <<row, lock, dirs, disk, req, leftover>>
      /\ server' # "refused"
  BY DEF Restart, Serve, SeedFault, vars, IInv, FileInv, StartNeverRefused
<1>1. faults' \in 0..MaxFaults /\ (faults' = faults \/ faults' # 0)
  <2>1. CASE SeedFault
    BY <1>0, <2>1, TypeOKParts, CatalogAssumption DEF SeedFault, TypeOK
  <2>2. CASE UNCHANGED faults
    BY <1>0, <2>2 DEF TypeOK
  <2> QED  BY <2>1, <2>2 DEF Restart, Serve, vars
<1>2. server' \in {"seeding", "serving", "down", "refused"} /\ visited' \subseteq Slugs
  BY <1>0 DEF Restart, Serve, SeedFault, vars, TypeOK
<1>3. TypeOK'
  BY <1>0, <1>1, <1>2 DEF TypeOK
<1>4. RowInv' /\ FileInv'
  BY <1>0 DEF IInv, RowInv, FileInv, Listed, UploadsStayOwned, StartNeverRefused
<1>5. \A q \in Requests : ReqOK(q)'
  BY <1>0, ReqKept DEF IInv, Listed
<1>6. LockInv' /\ MoveInv'
  BY <1>0 DEF IInv, LockInv, MoveInv
<1>7. VersionsHaveFiles'
  BY <1>0, <1>1 DEF IInv, VersionsHaveFiles, HasFiles
<1> QED  BY <1>3, <1>4, <1>5, <1>6, <1>7 DEF IInv

-----------------------------------------------------------------------------
(* The first state satisfies the invariant.                                *)
LEMMA InitInv == Init => IInv
<1> SUFFICES ASSUME Init PROVE IInv
  OBVIOUS
<1>1. /\ \A s \in Slugs : row[s] = NoRow /\ row[s].versions = {} /\ row[s].current = 0
      /\ \A r \in Requests : req[r].pc = "idle"
      /\ \A s \in Slugs : lock[s] = {}
      /\ \A s \in Slugs : disk[s] = IF s \in Builtins THEN {<<1, Nobody>>} ELSE {}
      /\ dirs = Builtins /\ server = "seeding"
  BY DEF Init, NoRow
<1>2. TypeOK
  <2>1. NoRow \in Row
    BY DEF NoRow, Row, Owner
  <2>2. <<1, Nobody>> \in Versions \X Owner
    BY DEF Versions, Owner
  <2>3. row \in [Slugs -> Row] /\ disk \in [Slugs -> SUBSET (Versions \X Owner)]
    BY <2>1, <2>2 DEF Init
  <2>4. req \in [Requests -> [pc : Free] \cup Upload] /\ lock \in [Slugs -> SUBSET Requests]
    BY DEF Init, Free
  <2>5. faults \in 0..MaxFaults
    BY CatalogAssumption DEF Init
  <2> QED  BY <2>3, <2>4, <2>5, CatalogAssumption DEF Init, TypeOK, Row
<1>3. RowInv
  <2>1. 1..0 = {}
    OBVIOUS
  <2> QED  BY <1>1, <2>1 DEF RowInv, Listed
<1>4. FileInv
  BY <1>1, CatalogAssumption DEF FileInv, UploadsStayOwned, StartNeverRefused
<1>5. \A r \in Requests : ReqOK(r)
  BY <1>1 DEF ReqOK, Working, Locked, Moving
<1>6. LockInv /\ MoveInv
  BY <1>1 DEF LockInv, MoveInv, Locked, Moving
<1>7. VersionsHaveFiles
  BY <1>1 DEF VersionsHaveFiles
<1> QED  BY <1>2, <1>3, <1>4, <1>5, <1>6, <1>7 DEF IInv

(* Every step of an upload, of the seeding and of the process keeps the    *)
(* invariant.                                                              *)
THEOREM CatalogInductive == Spec => []IInv
<1>1. IInv /\ [Next]_vars => IInv'
  BY BeginSteps, CheckSteps, NameSteps, InsertStep, LockStep, ReadStep, CommitStep,
     MakeDirStep, RenameStep, FaultStep, CrashStep, SeedStep, ProcessSteps
     DEF Next, Handle, Start
<1> QED  BY <1>1, InitInv, PTL DEF Spec

(* Types, in particular of the requests at every place of the handlers.    *)
THEOREM CatalogTypeCorrect == Spec => []TypeOK
<1>1. IInv => TypeOK
  BY DEF IInv
<1> QED  BY <1>1, CatalogInductive, PTL

(* The row lock makes reading the highest version and inserting the next   *)
(* one safe, for any number of uploads at a time, faults and crashes.      *)
THEOREM CatalogVersionsNeverClash == Spec => []VersionsNeverClash
<1>1. IInv => VersionsNeverClash
  BY DEF IInv, ReqOK, VersionsNeverClash
<1> QED  BY <1>1, CatalogInductive, PTL

(* Only an archive of one problem in a folder of its own leaves its        *)
(* temporary directory behind when its request ends, whichever of the      *)
(* handler's returns it takes.                                             *)
THEOREM CatalogLeftoverOnlyLone == Spec => []LeftoverOnlyLone
<1>1. Init => LeftoverOnlyLone
  BY DEF Init, LeftoverOnlyLone
<1>2. LeftoverOnlyLone /\ [Next]_vars => LeftoverOnlyLone'
  <2>1. SUFFICES ASSUME LeftoverOnlyLone, [Next]_vars
                 PROVE  leftover' \subseteq leftover \cup {"lone"}
    BY DEF LeftoverOnlyLone
  <2>2. ASSUME NEW r \in Requests, NEW o, Return(r, o) \/ Goto(r, o)
        PROVE  leftover' \subseteq leftover \cup {"lone"}
    BY <2>2, SMTT(30) DEF Return, Goto
  <2>3. ASSUME NEW r \in Requests, Handle(r) \/ LockProblem(r) \/ Fault(r)
        PROVE  leftover' \subseteq leftover \cup {"lone"}
    BY <2>2, <2>3 DEF Handle, CheckItem, CountProblems, GenerateSlug,
       InsertProblem, FindProblem, LockProblem, ReadMaxVersion, CommitVersion, MakeDir, Rename, Fault
  <2>4. CASE UNCHANGED vars
    BY <2>4 DEF vars
  <2> QED  BY <2>1, <2>3, <2>4 DEF Next, Start, BeginUpload, BeginVersion, Crash,
              Restart, SeedSlug, SeedFault, Serve
<1> QED  BY <1>1, <1>2, PTL DEF Spec

(* Rows and files, which no transaction spans, stay in agreement: versions *)
(* have their files unless something failed, files of users their rows,    *)
(* the next start finds nothing that it takes over or cannot read, and     *)
(* nothing unpacked stays but for the one kind of archive.                 *)
THEOREM CatalogRowsAndFilesAgree == Spec => []RowsAndFilesAgree
<1>1. IInv /\ LeftoverOnlyLone => RowsAndFilesAgree
  BY DEF IInv, FileInv, RowsAndFilesAgree
<1> QED  BY <1>1, CatalogInductive, CatalogLeftoverOnlyLone, PTL

-----------------------------------------------------------------------------
(* The limits: what uploads under way may still add *)

(* Places of an upload past the counting of its user's problems.           *)
Uploading == Working \ {"checking"}

(* For a request x: its new problems, the places of its archive that are   *)
(* still to come, and the new problems and versions of s among these.  A   *)
(* version counts from the check of its place on.                          *)
NewsOf(x) == {i \in DOMAIN x.archive.items : x.archive.items[i] = New}
Ahead(x) ==
    {i \in DOMAIN x.archive.items :
        i > x.at \/ (i = x.at /\ x.pc \notin Moving)}
NewsLeft(x) ==
    IF x.pc \in Uploading THEN {i \in Ahead(x) : x.archive.items[i] = New}
    ELSE {}
VersionsLeft(x, s) ==
    IF x.pc = "checking"
    THEN {i \in DOMAIN x.archive.items : i < x.at /\ x.archive.items[i] = s}
    ELSE IF x.pc \in Uploading THEN {i \in Ahead(x) : x.archive.items[i] = s}
    ELSE {}

(* What user u may still get, one element per new problem, and what may    *)
(* still be committed of problem s.                                        *)
ToAdd(u) ==
    {p \in Requests \X (1..MaxBatch) :
        /\ p[2] <= Cardinality(NewsLeft(req[p[1]]))
        /\ req[p[1]].user = u}
ToCommit(s) ==
    {p \in Requests \X (1..MaxBatch) : p[2] \in VersionsLeft(req[p[1]], s)}

(* An archive has a bounded size, its new problems were within the limit   *)
(* when they were counted, and the transactions are those of the place it  *)
(* is at.                                                                  *)
SizeOK(x) ==
    /\ x.pc \in Working => Len(x.archive.items) <= MaxBatch
    /\ x.pc \in Uploading => Cardinality(NewsOf(x)) <= MaxProblemsPerUser
    /\ x.pc = "inserting" => x.archive.items[x.at] = New
    /\ x.pc \in {"locking"} \cup Locked => x.archive.items[x.at] = x.slug

(* What is there and what is still to come stay within the bound.          *)
Adds == Min({MaxBatch, MaxProblemsPerUser})
MaxOwned == MaxProblemsPerUser + (Cardinality(Requests) - 1) * Adds
MaxCurrent == MaxVersionsPerProblem + Cardinality(Requests) * MaxBatch - 1

OwnedInv ==
    \A u \in Users : /\ IsFiniteSet(OwnedBy(u))
                     /\ Cardinality(OwnedBy(u)) + Cardinality(ToAdd(u)) <= MaxOwned

CurrentInv ==
    \A s \in Slugs : row[s].current + Cardinality(ToCommit(s)) <= MaxCurrent

LimitInv == (\A r \in Requests : SizeOK(req[r])) /\ OwnedInv /\ CurrentInv

(* The smaller of the two limits.                                          *)
LEMMA AddsIsMin ==
    /\ Adds \in Nat /\ Adds <= MaxBatch /\ Adds <= MaxProblemsPerUser
    /\ \A n \in Nat : n <= MaxBatch /\ n <= MaxProblemsPerUser => n <= Adds
<1> DEFINE S == {MaxBatch, MaxProblemsPerUser}
<1>1. MaxBatch \in Nat /\ MaxProblemsPerUser \in Nat
  BY CatalogAssumption
<1>2. \E x \in S : \A y \in S : x <= y
  BY <1>1
<1>3. Adds \in S /\ \A y \in S : Adds <= y
  BY <1>2 DEF Adds, Min
<1> QED  BY <1>1, <1>3

(* Numbers of requests and of places.                                      *)
LEMMA Numbers ==
    /\ Cardinality(Requests) \in Nat /\ Cardinality(Requests) >= 1
    /\ (Cardinality(Requests) - 1) * Adds \in Nat
    /\ Cardinality(Requests) * MaxBatch \in Nat
    /\ Cardinality(Requests) * MaxBatch >= 1
    /\ MaxOwned \in Nat /\ MaxCurrent \in Nat
    /\ MaxCurrent >= 1
<1>1. Cardinality(Requests) \in Nat /\ Cardinality(Requests) # 0
  BY RequestsAssumption, FS_CardinalityType, FS_EmptySet
<1>2. Adds \in Nat /\ MaxBatch \in Nat /\ MaxBatch >= 1
  BY AddsIsMin, CatalogAssumption
<1>3. \A m, n \in Nat : m * n \in Nat /\ (m >= 1 /\ n >= 1 => m * n >= 1)
  OBVIOUS
<1>4. Cardinality(Requests) - 1 \in Nat
  BY <1>1
<1>5. /\ (Cardinality(Requests) - 1) * Adds \in Nat
      /\ Cardinality(Requests) * MaxBatch \in Nat
      /\ Cardinality(Requests) * MaxBatch >= 1
  BY <1>1, <1>2, <1>3, <1>4
<1> QED  BY <1>1, <1>5, CatalogAssumption DEF MaxOwned, MaxCurrent

(* Places of an archive, and how many of them may hold new problems.       *)
LEMMA PlacesOf ==
    ASSUME NEW x \in Upload, SizeOK(x)
    PROVE  /\ DOMAIN x.archive.items = 1..Len(x.archive.items)
           /\ x.at \in Nat \ {0} /\ Len(x.archive.items) \in Nat
           /\ DOMAIN x.archive.items \subseteq 1..MaxBatch
           /\ IsFiniteSet(NewsOf(x)) /\ Cardinality(NewsOf(x)) \in Nat
           /\ Cardinality(NewsOf(x)) <= MaxBatch
<1>1. /\ x.pc \in Working
      /\ x.archive.items \in Seq(Slugs \cup {New}) /\ x.at \in Nat \ {0}
  BY DEF Upload
<1> DEFINE n == Len(x.archive.items)
<1>2. DOMAIN x.archive.items = 1..n /\ n \in Nat
  BY <1>1
<1>3. n <= MaxBatch /\ MaxBatch \in Nat
  BY <1>1, CatalogAssumption DEF SizeOK
<1> HIDE DEF n
<1>4. IsFiniteSet(1..n) /\ Cardinality(1..n) = n
  BY <1>2, FS_Interval
<1>5. NewsOf(x) \in SUBSET (1..n)
  BY <1>2 DEF NewsOf
<1>6. IsFiniteSet(NewsOf(x)) /\ Cardinality(NewsOf(x)) <= n
  BY <1>4, <1>5, FS_Subset
<1>7. Cardinality(NewsOf(x)) \in Nat
  BY <1>6, FS_CardinalityType
<1>8. 1..n \subseteq 1..MaxBatch
  BY <1>2, <1>3
<1> QED  BY <1>1, <1>2, <1>3, <1>6, <1>7, <1>8 DEF n

(* New problems still to come are within both limits.                      *)
LEMMA NewsLeftBound ==
    ASSUME NEW x \in Slot, SizeOK(x)
    PROVE  /\ IsFiniteSet(NewsLeft(x)) /\ Cardinality(NewsLeft(x)) \in 0..Adds
           /\ Adds <= MaxBatch
<1>1. CASE x.pc \notin Uploading
  <2>1. NewsLeft(x) = {}
    BY <1>1 DEF NewsLeft
  <2> QED  BY <2>1, FS_EmptySet, AddsIsMin
<1>2. CASE x.pc \in Uploading
  <2>1. x \in Upload
    BY <1>2 DEF Slot, Free, Uploading, Working
  <2>2. NewsLeft(x) \in SUBSET NewsOf(x)
    BY DEF NewsLeft, NewsOf, Ahead
  <2>3. /\ IsFiniteSet(NewsOf(x)) /\ Cardinality(NewsOf(x)) \in Nat
        /\ Cardinality(NewsOf(x)) <= MaxBatch
    BY <2>1, PlacesOf
  <2>4. IsFiniteSet(NewsLeft(x)) /\ Cardinality(NewsLeft(x)) <= Cardinality(NewsOf(x))
    BY <2>2, <2>3, FS_Subset
  <2>5. Cardinality(NewsOf(x)) <= MaxProblemsPerUser
    BY <1>2 DEF SizeOK
  <2>6. Cardinality(NewsOf(x)) <= Adds
    BY <2>3, <2>5, AddsIsMin
  <2>7. Cardinality(NewsLeft(x)) \in Nat
    BY <2>4, FS_CardinalityType
  <2> QED  BY <2>3, <2>4, <2>6, <2>7, AddsIsMin
<1> QED  BY <1>1, <1>2

(* What is to come is finite, and what of it belongs to the other requests *)
(* is bounded by their number.                                             *)
LEMMA ToAddBound ==
    ASSUME req \in [Requests -> Slot], \A q \in Requests : SizeOK(req[q]), NEW u
    PROVE  /\ IsFiniteSet(ToAdd(u)) /\ Cardinality(ToAdd(u)) \in Nat
           /\ \A r \in Requests :
                 /\ IsFiniteSet({p \in ToAdd(u) : p[1] # r})
                 /\ Cardinality({p \in ToAdd(u) : p[1] # r})
                       <= (Cardinality(Requests) - 1) * Adds
<1>1. Adds \in Nat /\ MaxBatch \in Nat
  BY AddsIsMin, CatalogAssumption
<1>2. IsFiniteSet(1..MaxBatch) /\ IsFiniteSet(1..Adds) /\ Cardinality(1..Adds) = Adds
  BY <1>1, FS_Interval
<1>3. IsFiniteSet(ToAdd(u)) /\ Cardinality(ToAdd(u)) \in Nat
  <2>1. IsFiniteSet(Requests \X (1..MaxBatch))
    BY <1>2, RequestsAssumption, FS_Product
  <2>2. ToAdd(u) \in SUBSET (Requests \X (1..MaxBatch))
    BY DEF ToAdd
  <2>3. IsFiniteSet(ToAdd(u))
    BY <2>1, <2>2, FS_Subset
  <2> QED  BY <2>3, FS_CardinalityType
<1>4. ASSUME NEW r \in Requests
      PROVE  /\ IsFiniteSet({p \in ToAdd(u) : p[1] # r})
             /\ Cardinality({p \in ToAdd(u) : p[1] # r})
                   <= (Cardinality(Requests) - 1) * Adds
  <2> DEFINE R == Requests \ {r}
             P == {p \in ToAdd(u) : p[1] # r}
  <2>1. IsFiniteSet(R) /\ Cardinality(R) = Cardinality(Requests) - 1
    BY RequestsAssumption, FS_RemoveElement
  <2>2. IsFiniteSet(R \X (1..Adds)) /\ Cardinality(R \X (1..Adds)) = Cardinality(R) * Adds
    BY <1>2, <2>1, FS_Product
  <2>3. P \in SUBSET (R \X (1..Adds))
    <3> SUFFICES ASSUME NEW p \in P PROVE p \in R \X (1..Adds)
      OBVIOUS
    <3>1. /\ p \in Requests \X (1..MaxBatch) /\ p[1] # r
          /\ p[2] <= Cardinality(NewsLeft(req[p[1]]))
      BY DEF ToAdd
    <3>2. Cardinality(NewsLeft(req[p[1]])) \in 0..Adds
      BY <3>1, NewsLeftBound
    <3>3. p[2] \in 1..Adds
      BY <1>1, <3>1, <3>2
    <3> QED  BY <3>1, <3>3
  <2>4. IsFiniteSet(P) /\ Cardinality(P) <= Cardinality(R) * Adds
    BY <2>2, <2>3, FS_Subset
  <2> QED  BY <2>1, <2>4
<1> QED  BY <1>3, <1>4

(* What may still be committed is at most every place of every request.    *)
LEMMA ToCommitBound ==
    ASSUME NEW s
    PROVE  /\ IsFiniteSet(ToCommit(s)) /\ Cardinality(ToCommit(s)) \in Nat
           /\ Cardinality(ToCommit(s)) <= Cardinality(Requests) * MaxBatch
<1>1. IsFiniteSet(1..MaxBatch) /\ Cardinality(1..MaxBatch) = MaxBatch
  BY FS_Interval, CatalogAssumption
<1>2. /\ IsFiniteSet(Requests \X (1..MaxBatch))
      /\ Cardinality(Requests \X (1..MaxBatch)) = Cardinality(Requests) * MaxBatch
  BY <1>1, RequestsAssumption, FS_Product
<1>3. ToCommit(s) \in SUBSET (Requests \X (1..MaxBatch))
  BY DEF ToCommit
<1>4. IsFiniteSet(ToCommit(s)) /\ Cardinality(ToCommit(s)) <= Cardinality(Requests) * MaxBatch
  BY <1>2, <1>3, FS_Subset
<1> QED  BY <1>4, FS_CardinalityType

-----------------------------------------------------------------------------
(* Steps that add nothing to what is to come *)

(* Nothing is added to what is to come of a request.                       *)
Shrinks(x, y) ==
    /\ NewsLeft(y) \subseteq NewsLeft(x)
    /\ NewsLeft(y) # {} => y.user = x.user
    /\ \A s \in Slugs : VersionsLeft(y, s) \subseteq VersionsLeft(x, s)

(* One user's problems, when nothing is added for that user.               *)
LEMMA OwnedKept ==
    ASSUME req \in [Requests -> Slot], LimitInv, req' \in [Requests -> Slot],
           \A q \in Requests : SizeOK(req'[q]),
           NEW u \in Users, OwnedBy(u)' = OwnedBy(u),
           \A q \in Requests : req'[q].user = u /\ NewsLeft(req'[q]) # {} =>
               NewsLeft(req'[q]) \subseteq NewsLeft(req[q]) /\ req[q].user = u
    PROVE  /\ IsFiniteSet(OwnedBy(u)')
           /\ Cardinality(OwnedBy(u)') + Cardinality(ToAdd(u)') <= MaxOwned
<1>1. \A q \in Requests : SizeOK(req[q])
  BY DEF LimitInv
<1>2. /\ IsFiniteSet(OwnedBy(u)) /\ IsFiniteSet(ToAdd(u))
      /\ Cardinality(OwnedBy(u)) \in Nat /\ Cardinality(ToAdd(u)) \in Nat
      /\ Cardinality(OwnedBy(u)) + Cardinality(ToAdd(u)) <= MaxOwned
  BY <1>1, ToAddBound, FS_CardinalityType DEF LimitInv, OwnedInv
<1>3. ToAdd(u)' \in SUBSET ToAdd(u)
  <2> SUFFICES ASSUME NEW p \in Requests \X (1..MaxBatch),
                      p[2] <= Cardinality(NewsLeft(req'[p[1]])), req'[p[1]].user = u
               PROVE  p[2] <= Cardinality(NewsLeft(req[p[1]])) /\ req[p[1]].user = u
    BY DEF ToAdd
  <2> DEFINE x == req[p[1]]
             y == req'[p[1]]
  <2>1. /\ IsFiniteSet(NewsLeft(x)) /\ Cardinality(NewsLeft(x)) \in Nat
        /\ IsFiniteSet(NewsLeft(y)) /\ Cardinality(NewsLeft(y)) \in Nat
    BY <1>1, NewsLeftBound, FS_CardinalityType
  <2>2. p[2] \in Nat /\ p[2] >= 1
    OBVIOUS
  <2>3. Cardinality(NewsLeft(y)) # 0
    BY <2>1, <2>2
  <2>4. NewsLeft(y) # {}
    BY <2>3, FS_EmptySet
  <2>5. NewsLeft(y) \in SUBSET NewsLeft(x) /\ req[p[1]].user = u
    BY <2>4
  <2>6. Cardinality(NewsLeft(y)) <= Cardinality(NewsLeft(x))
    BY <2>1, <2>5, FS_Subset
  <2> QED  BY <2>1, <2>2, <2>5, <2>6
<1>4. IsFiniteSet(ToAdd(u)') /\ Cardinality(ToAdd(u)') <= Cardinality(ToAdd(u))
  BY <1>2, <1>3, FS_Subset
<1>5. Cardinality(ToAdd(u)') \in Nat
  BY <1>4, FS_CardinalityType
<1> QED  BY <1>2, <1>4, <1>5, Numbers

(* One problem's versions, when nothing of it is added.                    *)
LEMMA CurrentKept ==
    ASSUME LimitInv, NEW s \in Slugs,
           row[s].current \in Nat, row'[s].current = row[s].current,
           \A q \in Requests : VersionsLeft(req'[q], s) \subseteq VersionsLeft(req[q], s)
    PROVE  row'[s].current + Cardinality(ToCommit(s)') <= MaxCurrent
<1>1. ToCommit(s)' \in SUBSET ToCommit(s)
  BY DEF ToCommit
<1>2. /\ IsFiniteSet(ToCommit(s)) /\ Cardinality(ToCommit(s)) \in Nat
      /\ row[s].current + Cardinality(ToCommit(s)) <= MaxCurrent
  BY ToCommitBound DEF LimitInv, CurrentInv
<1>3. IsFiniteSet(ToCommit(s)') /\ Cardinality(ToCommit(s)') <= Cardinality(ToCommit(s))
  BY <1>1, <1>2, FS_Subset
<1>4. Cardinality(ToCommit(s)') \in Nat
  BY <1>3, FS_CardinalityType
<1> QED  BY <1>2, <1>3, <1>4, Numbers

(* A problem that has no row is in no archive that passed its checks, so   *)
(* its first version is within the limit.                                  *)
LEMMA FirstVersion ==
    ASSUME IInv, NEW s \in Slugs, ~Listed(s), row'[s].current = 1,
           \A q \in Requests : VersionsLeft(req'[q], s) \subseteq VersionsLeft(req[q], s)
    PROVE  row'[s].current + Cardinality(ToCommit(s)') <= MaxCurrent
<1>1. ASSUME NEW q \in Requests PROVE VersionsLeft(req[q], s) = {}
  <2>1. CASE req[q].pc \notin Working
    BY <2>1 DEF VersionsLeft, Uploading, Working
  <2>2. CASE req[q].pc \in Working
    <3>1. /\ DOMAIN req[q].archive.items = 1..Len(req[q].archive.items)
          /\ ReqOK(q) /\ s # New
      BY <2>2, Serving, CatalogAssumption DEF IInv
    <3>2. ASSUME NEW i \in VersionsLeft(req[q], s) PROVE FALSE
      <4>1. /\ i \in 1..Len(req[q].archive.items) /\ req[q].archive.items[i] = s
            /\ req[q].pc = "checking" => i < req[q].at
        BY <3>1, <3>2 DEF VersionsLeft, Ahead, Uploading
      <4>2. Passed(req[q].user, s)
        BY <2>2, <3>1, <4>1 DEF ReqOK
      <4> QED  BY <3>1, <4>2 DEF Passed, Owns
    <3> QED  BY <3>2
  <2> QED  BY <2>1, <2>2
<1>2. ToCommit(s)' = {}
  BY <1>1 DEF ToCommit
<1>3. Cardinality(ToCommit(s)') = 0
  BY <1>2, FS_EmptySet
<1> QED  BY <1>3, Numbers

(* A step of one request that adds nothing to what is to come and leaves   *)
(* the rows alone.                                                         *)
LEMMA OneShrinks ==
    ASSUME IInv, LimitInv, NEW r \in Requests, req' \in [Requests -> Slot],
           \A q \in Requests : q # r => req'[q] = req[q],
           SizeOK(req'[r]), Shrinks(req[r], req'[r]), UNCHANGED row
    PROVE  LimitInv'
<1>1. req \in [Requests -> Slot] /\ \A s \in Slugs : row[s].current \in Nat
  BY TypeOKParts DEF IInv, Row
<1>2. \A q \in Requests : SizeOK(req'[q])
  BY DEF LimitInv
<1>3. \A q \in Requests : Shrinks(req[q], req'[q])
  BY DEF Shrinks
<1>4. \A u \in Users : OwnedBy(u)' = OwnedBy(u)
  BY DEF OwnedBy, Listed
<1>5. OwnedInv'
  BY <1>1, <1>2, <1>3, <1>4, OwnedKept DEF OwnedInv, Shrinks
<1>6. CurrentInv'
  BY <1>1, <1>3, CurrentKept DEF CurrentInv, Shrinks
<1> QED  BY <1>2, <1>5, <1>6 DEF LimitInv

(* A request that is over has nothing to come.                             *)
LEMMA OverShrinks ==
    ASSUME NEW x, NEW y, y.pc \in Free
    PROVE  SizeOK(y) /\ Shrinks(x, y)
BY DEF SizeOK, Shrinks, NewsLeft, VersionsLeft, Free, Uploading, Working, Locked

(* A request that goes on at the same place of its archive.                *)
LEMMA StayShrinks ==
    ASSUME NEW x, NEW y, x.pc \in Uploading, y.pc \in Uploading,
           y.archive = x.archive, y.at = x.at, y.user = x.user,
           x.pc \in Moving => y.pc \in Moving
    PROVE  Shrinks(x, y)
<1>1. Ahead(y) \subseteq Ahead(x)
  BY DEF Ahead
<1>2. x.pc # "checking" /\ y.pc # "checking"
  BY DEF Uploading
<1> QED  BY <1>1, <1>2 DEF Shrinks, NewsLeft, VersionsLeft

(* A return of the handler.                                                *)
LEMMA ReturnLimits ==
    ASSUME IInv, LimitInv, NEW r \in Requests, NEW o \in Free, Return(r, o),
           UNCHANGED row
    PROVE  LimitInv'
<1>1. /\ req' \in [Requests -> Slot] /\ req'[r].pc = o
      /\ \A q \in Requests : q # r => req'[q] = req[q]
  BY ReturnFields DEF IInv
<1> QED  BY <1>1, OverShrinks, OneShrinks

-----------------------------------------------------------------------------
(* The steps of the handlers, for the limits *)

(* An upload begins: nothing of its archive is checked yet.                *)
LEMMA BeginLimits ==
    ASSUME IInv, LimitInv, NEW r \in Requests, BeginUpload(r) \/ BeginVersion(r)
    PROVE  LimitInv'
<1>1. PICK u \in Users, a \in [layout : {"root", "folders"},
                               items : Seq(Slugs \cup {New}) \ {<<>>}] :
         /\ req' = [req EXCEPT ![r] = [pc |-> "checking", user |-> u, archive |-> a,
                                       at |-> 1, slug |-> New, ver |-> 0]]
         /\ Len(a.items) <= MaxBatch
  <2>1. CASE BeginUpload(r)
    <3>1. PICK u \in Users, a \in Archive :
             req' = [req EXCEPT ![r] = [pc |-> "checking", user |-> u, archive |-> a,
                                        at |-> 1, slug |-> New, ver |-> 0]]
      BY <2>1 DEF BeginUpload
    <3>2. Len(a.items) <= MaxBatch
      <4>1. CASE \E i \in Slugs \cup {New} : a = [layout |-> "root", items |-> <<i>>]
        <5>1. Len(a.items) = 1
          BY <4>1
        <5> QED  BY <5>1, CatalogAssumption
      <4>2. CASE \E n \in 1..MaxBatch : \E q \in [1..n -> Slugs \cup {New}] :
                    a = [layout |-> "folders", items |-> q]
        <5>1. PICK n \in 1..MaxBatch : \E q \in [1..n -> Slugs \cup {New}] :
                    a = [layout |-> "folders", items |-> q]
          BY <4>2
        <5>2. PICK q \in [1..n -> Slugs \cup {New}] :
                 a = [layout |-> "folders", items |-> q]
          BY <5>1
        <5>3. Len(q) = n
          BY CatalogAssumption
        <5> QED  BY <5>2, <5>3
      <4> QED  BY <4>1, <4>2 DEF Archive
    <3> QED  BY <3>1, <3>2, ArchiveType
  <2>2. CASE BeginVersion(r)
    <3>1. PICK u \in Users, s \in Slugs, l \in {"root", "folders"} :
             req' = [req EXCEPT ![r] = [pc |-> "checking", user |-> u,
                                     archive |-> [layout |-> l, items |-> <<s>>],
                                     at |-> 1, slug |-> New, ver |-> 0]]
      BY <2>2 DEF BeginVersion
    <3> DEFINE a == [layout |-> l, items |-> <<s>>]
    <3>2. <<s>> \in Seq(Slugs \cup {New}) \ {<<>>} /\ Len(<<s>>) = 1
      OBVIOUS
    <3>3. a \in [layout : {"root", "folders"}, items : Seq(Slugs \cup {New}) \ {<<>>}]
      BY <3>2
    <3>4. Len(a.items) <= MaxBatch
      BY <3>2, CatalogAssumption
    <3> QED  BY <3>1, <3>3, <3>4
  <2> QED  BY <2>1, <2>2
<1> DEFINE y == [pc |-> "checking", user |-> u, archive |-> a,
                 at |-> 1, slug |-> New, ver |-> 0]
<1>2. y \in Slot /\ y.pc = "checking" /\ y.at = 1 /\ y.archive = a
  BY DEF Slot, Upload, Working
<1>3. /\ req' \in [Requests -> Slot] /\ req'[r] = y
      /\ \A q \in Requests : q # r => req'[q] = req[q]
  BY <1>1, <1>2, Updated DEF IInv
<1>4. UNCHANGED row
  BY DEF BeginUpload, BeginVersion
<1> HIDE DEF y
<1>5. SizeOK(y)
  BY <1>1, <1>2 DEF SizeOK, Uploading, Locked
<1>6. Shrinks(req[r], y)
  <2>1. DOMAIN y.archive.items \subseteq Nat \ {0}
    BY <1>2
  <2>2. \A s : VersionsLeft(y, s) = {}
    BY <1>2, <2>1 DEF VersionsLeft
  <2>3. NewsLeft(y) = {}
    BY <1>2 DEF NewsLeft, Uploading
  <2> QED  BY <2>2, <2>3 DEF Shrinks
<1> QED  BY <1>3, <1>4, <1>5, <1>6, OneShrinks

(* A place is checked: the problem had fewer versions than the limit, and  *)
(* all that may come is what all the requests may bring.                   *)
LEMMA CheckItemLimits ==
    ASSUME IInv, LimitInv, NEW r \in Requests, CheckItem(r)
    PROVE  LimitInv'
<1> DEFINE x == req[r]
<1>1. x.pc = "checking" /\ ~Checked(r) /\ UNCHANGED row
  BY DEF CheckItem
<1>2. /\ x \in Upload /\ x.at \in Nat \ {0}
      /\ DOMAIN x.archive.items = 1..Len(x.archive.items)
      /\ Len(x.archive.items) \in Nat
  BY <1>1, Serving DEF IInv, Working
<1>3. CASE Return(r, "idle")
  BY <1>1, <1>3, ReturnLimits DEF Free
<1>4. CASE /\ Item(r) = New \/ MayUpload(x.user, Item(r))
           /\ req' = [req EXCEPT ![r].at = @ + 1]
  <2> DEFINE y == [x EXCEPT !.at = x.at + 1]
  <2>1. /\ y \in Slot /\ y.pc = "checking" /\ y.at = x.at + 1
        /\ y.archive = x.archive /\ y.user = x.user
    BY <1>1, <1>2 DEF Upload, Slot
  <2>2. req' = [req EXCEPT ![r] = y]
    BY <1>4, TypeOKParts DEF IInv
  <2>3. /\ req' \in [Requests -> Slot] /\ req'[r] = y
        /\ \A q \in Requests : q # r => req'[q] = req[q]
    BY <2>1, <2>2, Updated DEF IInv
  <2> HIDE DEF y
  <2>4. \A q \in Requests : SizeOK(req'[q])
    <3>1. SizeOK(x)
      BY DEF LimitInv
    <3>2. SizeOK(y)
      BY <1>1, <2>1, <3>1 DEF SizeOK, Uploading, Locked
    <3> QED  BY <2>3, <3>2 DEF LimitInv
  <2>5. NewsLeft(y) = {}
    BY <2>1 DEF NewsLeft, Uploading
  <2>6. OwnedInv'
    <3>1. \A u \in Users : OwnedBy(u)' = OwnedBy(u)
      BY <1>1 DEF OwnedBy, Listed
    <3>2. req \in [Requests -> Slot]
      BY TypeOKParts DEF IInv
    <3> QED  BY <2>3, <2>4, <2>5, <3>1, <3>2, OwnedKept DEF OwnedInv
  <2>7. ASSUME NEW s \in Slugs
        PROVE  row'[s].current + Cardinality(ToCommit(s)') <= MaxCurrent
    <3>1. row[s].current \in Nat /\ row[s].versions = 1..row[s].current
      BY TypeOKParts DEF IInv, Row, RowInv
    <3>2. CASE Item(r) # s
      <4>1. VersionsLeft(y, s) \subseteq VersionsLeft(x, s)
        BY <1>1, <1>2, <2>1, <3>2, SMTT(30) DEF VersionsLeft, Item
      <4> QED  BY <1>1, <2>3, <3>1, <4>1, CurrentKept
    <3>3. CASE Item(r) = s
      <4>1. Cardinality(row[s].versions) < MaxVersionsPerProblem
        BY <1>4, <3>3, CatalogAssumption DEF MayUpload
      <4>2. Cardinality(row[s].versions) = row[s].current
        BY <3>1, FS_Interval
      <4>3. \A m \in Nat : m <= Cardinality(Requests) * MaxBatch =>
                            row[s].current + m <= MaxCurrent
        <5> DEFINE P == Cardinality(Requests) * MaxBatch
        <5>1. P \in Nat /\ MaxCurrent = MaxVersionsPerProblem + P - 1
          BY Numbers DEF MaxCurrent
        <5> HIDE DEF P
        <5>2. row[s].current + 1 <= MaxVersionsPerProblem
          BY <3>1, <4>1, <4>2, CatalogAssumption
        <5>3. \A m \in Nat : m <= P => row[s].current + m <= MaxCurrent
          BY <3>1, <5>1, <5>2, CatalogAssumption
        <5> QED  BY <5>3 DEF P
      <4>4. /\ Cardinality(ToCommit(s)') \in Nat
            /\ Cardinality(ToCommit(s)') <= Cardinality(Requests) * MaxBatch
        <5> DEFINE C == {p \in Requests \X (1..MaxBatch) : p[2] \in VersionsLeft(req'[p[1]], s)}
        <5>1. IsFiniteSet(1..MaxBatch) /\ Cardinality(1..MaxBatch) = MaxBatch
          BY FS_Interval, CatalogAssumption
        <5>2. /\ IsFiniteSet(Requests \X (1..MaxBatch))
              /\ Cardinality(Requests \X (1..MaxBatch)) = Cardinality(Requests) * MaxBatch
          BY <5>1, RequestsAssumption, FS_Product
        <5>3. C \in SUBSET (Requests \X (1..MaxBatch)) /\ ToCommit(s)' = C
          BY DEF ToCommit
        <5>4. IsFiniteSet(C) /\ Cardinality(C) <= Cardinality(Requests) * MaxBatch
          BY <5>2, <5>3, FS_Subset
        <5> QED  BY <5>3, <5>4, FS_CardinalityType
      <4> QED  BY <1>1, <4>3, <4>4
    <3> QED  BY <3>2, <3>3
  <2> QED  BY <2>4, <2>6, <2>7 DEF LimitInv, CurrentInv
<1> QED  BY <1>3, <1>4 DEF CheckItem

(* A user's problems have been counted with the N new ones of request r:   *)
(* the new ones of the others are bounded by their number.                 *)
LEMMA Counted ==
    ASSUME req \in [Requests -> Slot], \A q \in Requests : SizeOK(req[q]),
           NEW r \in Requests, \A q \in Requests : q # r => req'[q] = req[q],
           NEW N \in Nat, N = Cardinality(NewsLeft(req'[r])),
           NEW u \in Users, IsFiniteSet(OwnedBy(u)),
           Cardinality(OwnedBy(u)) + N <= MaxProblemsPerUser
    PROVE  Cardinality(OwnedBy(u)) + Cardinality(ToAdd(u)') <= MaxOwned
<1> DEFINE O == {p \in ToAdd(u) : p[1] # r}
           I == 1..N
           M == {r} \X I
           K == (Cardinality(Requests) - 1) * Adds
           C == {p \in Requests \X (1..MaxBatch) :
                    p[2] <= Cardinality(NewsLeft(req'[p[1]])) /\ req'[p[1]].user = u}
<1>1. IsFiniteSet(O) /\ Cardinality(O) <= K /\ K \in Nat
  BY ToAddBound, Numbers
<1>2. Cardinality(O) \in Nat
  BY <1>1, FS_CardinalityType
<1>3. IsFiniteSet({r}) /\ Cardinality({r}) = 1
  BY FS_Singleton
<1>4. IsFiniteSet(I) /\ Cardinality(I) = N
  BY FS_Interval
<1>5. C \in SUBSET (O \cup M)
  <2> SUFFICES ASSUME NEW p \in C PROVE p \in O \cup M
    OBVIOUS
  <2>1. CASE p[1] = r
    <3>1. p[2] \in I
      BY <2>1, CatalogAssumption
    <3> QED  BY <2>1, <3>1
  <2>2. CASE p[1] # r
    BY <2>2 DEF ToAdd
  <2> QED  BY <2>1, <2>2
<1>6. O \cap M = {}
  OBVIOUS
<1>7. ToAdd(u)' = C
  BY DEF ToAdd
<1>8. MaxOwned = MaxProblemsPerUser + K
  BY DEF MaxOwned
<1>9. Cardinality(OwnedBy(u)) \in Nat /\ MaxProblemsPerUser \in Nat
  BY FS_CardinalityType, CatalogAssumption
<1> HIDE DEF O, I, C, K
<1>10. IsFiniteSet(M) /\ Cardinality(M) = Cardinality({r}) * Cardinality(I)
  BY <1>3, <1>4, FS_Product
<1>11. Cardinality(M) = N
  BY <1>3, <1>4, <1>10
<1> HIDE DEF M
<1>12. /\ IsFiniteSet(O \cup M)
       /\ Cardinality(O \cup M) = Cardinality(O) + Cardinality(M) - Cardinality(O \cap M)
  BY <1>1, <1>10, FS_Union
<1>13. Cardinality(O \cap M) = 0
  BY <1>6, FS_EmptySet
<1>14. IsFiniteSet(C) /\ Cardinality(C) <= Cardinality(O \cup M)
  BY <1>5, <1>12, FS_Subset
<1>15. Cardinality(C) \in Nat
  BY <1>14, FS_CardinalityType
<1>16. Cardinality(C) <= Cardinality(O) + N
  BY <1>2, <1>11, <1>12, <1>13, <1>14, <1>15
<1> QED  BY <1>1, <1>2, <1>7, <1>8, <1>9, <1>15, <1>16

(* The user's problems are counted: those there are and the new ones of    *)
(* this archive are within the limit, the others' are bounded by their     *)
(* number.                                                                 *)
LEMMA CountLimits ==
    ASSUME IInv, LimitInv, NEW r \in Requests, CountProblems(r)
    PROVE  LimitInv'
<1> DEFINE x == req[r]
<1>1. x.pc = "checking" /\ Checked(r) /\ UNCHANGED row
  BY DEF CountProblems
<1>2. /\ x \in Upload /\ x.at \in Nat \ {0} /\ x.user \in Users
      /\ DOMAIN x.archive.items = 1..Len(x.archive.items)
      /\ Len(x.archive.items) \in Nat
  BY <1>1, Serving DEF IInv, Working
<1>3. CASE Return(r, "idle")
  BY <1>1, <1>3, ReturnLimits DEF Free
<1>4. CASE /\ MayAdd(r)
           /\ req' = [req EXCEPT ![r].pc = "uploading", ![r].at = 1]
  <2> DEFINE y == [x EXCEPT !.pc = "uploading", !.at = 1]
             N == Cardinality(NewsOf(x))
  <2>0. 1 \in Nat \ {0} /\ "uploading" \in Working
    BY DEF Working
  <2>1. /\ y \in Slot /\ y.pc = "uploading" /\ y.at = 1
        /\ y.archive = x.archive /\ y.user = x.user
    BY <1>2, <2>0 DEF Upload, Slot
  <2>2. req' = [req EXCEPT ![r] = y]
    BY <1>4, TypeOKParts DEF IInv
  <2>3. /\ req' \in [Requests -> Slot] /\ req'[r] = y
        /\ \A q \in Requests : q # r => req'[q] = req[q]
    BY <2>1, <2>2, Updated DEF IInv
  <2> HIDE DEF y
  <2>4. SizeOK(x) /\ \A q \in Requests : SizeOK(req[q])
    BY DEF LimitInv
  <2>5. /\ IsFiniteSet(NewsOf(x)) /\ N \in Nat /\ N = NewProblems(r)
    BY <1>2, <2>4, PlacesOf DEF NewsOf, NewProblems
  <2>6. /\ IsFiniteSet(OwnedBy(x.user)) /\ Cardinality(OwnedBy(x.user)) \in Nat
    BY <1>2, FS_CardinalityType DEF LimitInv, OwnedInv
  <2>7. N = 0 \/ Cardinality(OwnedBy(x.user)) + N <= MaxProblemsPerUser
    BY <1>4, <2>5 DEF MayAdd
  <2>8. N <= MaxProblemsPerUser
    BY <2>5, <2>6, <2>7, CatalogAssumption
  <2>9. \A q \in Requests : SizeOK(req'[q])
    <3>1. NewsOf(y) = NewsOf(x)
      BY <2>1 DEF NewsOf
    <3>2. SizeOK(y)
      BY <1>1, <2>1, <2>4, <2>8, <3>1 DEF SizeOK, Uploading, Locked, Working
    <3> QED  BY <2>3, <2>4, <3>2
  <2>10. Ahead(y) = DOMAIN x.archive.items
    BY <1>2, <2>1 DEF Ahead, Moving
  <2>11. NewsLeft(y) = NewsOf(x) /\ NewsLeft(x) = {}
    BY <1>1, <2>1, <2>10 DEF NewsLeft, NewsOf, Uploading, Working
  <2>12. CurrentInv'
    <3>1. \A s \in Slugs : VersionsLeft(y, s) \subseteq VersionsLeft(x, s)
      BY <1>1, <1>2, <2>1, <2>10 DEF VersionsLeft, Uploading, Working, Checked
    <3>2. \A s \in Slugs : row[s].current \in Nat
      BY TypeOKParts DEF IInv, Row
    <3> QED  BY <1>1, <2>3, <3>1, <3>2, CurrentKept DEF CurrentInv
  <2>13. \A v \in Users : OwnedBy(v)' = OwnedBy(v)
    BY <1>1 DEF OwnedBy, Listed
  <2>14. req \in [Requests -> Slot]
    BY TypeOKParts DEF IInv
  <2>15. ASSUME NEW v \in Users, v # x.user \/ N = 0
         PROVE  /\ IsFiniteSet(OwnedBy(v)')
                /\ Cardinality(OwnedBy(v)') + Cardinality(ToAdd(v)') <= MaxOwned
    <3>1. N = 0 => NewsLeft(y) = {}
      BY <2>5, <2>11, FS_EmptySet
    <3>2. y.user = v /\ NewsLeft(y) # {} => FALSE
      BY <2>1, <2>15, <3>1
    <3>3. \A q \in Requests : req'[q].user = v /\ NewsLeft(req'[q]) # {} =>
               NewsLeft(req'[q]) \subseteq NewsLeft(req[q]) /\ req[q].user = v
      BY <2>3, <3>2
    <3> QED  BY <2>3, <2>9, <2>13, <2>14, <3>3, OwnedKept
  <2>16. ASSUME NEW v \in Users, v = x.user, N # 0
         PROVE  /\ IsFiniteSet(OwnedBy(v)')
                /\ Cardinality(OwnedBy(v)') + Cardinality(ToAdd(v)') <= MaxOwned
    <3>1. N = Cardinality(NewsLeft(req'[r])) /\ N \in Nat
      BY <2>3, <2>5, <2>11
    <3>2. IsFiniteSet(OwnedBy(v)) /\ Cardinality(OwnedBy(v)) + N <= MaxProblemsPerUser
      BY <2>6, <2>7, <2>16
    <3> HIDE DEF N
    <3>3. Cardinality(OwnedBy(v)) + Cardinality(ToAdd(v)') <= MaxOwned
      BY <2>3, <2>4, <2>14, <3>1, <3>2, Counted
    <3> QED  BY <2>13, <3>2, <3>3
  <2>17. ASSUME NEW v \in Users
         PROVE  (/\ IsFiniteSet(OwnedBy(v))
                 /\ Cardinality(OwnedBy(v)) + Cardinality(ToAdd(v)) <= MaxOwned)'
    BY <2>15, <2>16
  <2>18. OwnedInv'
    BY <2>17 DEF OwnedInv
  <2> QED  BY <2>9, <2>12, <2>18 DEF LimitInv
<1> QED  BY <1>3, <1>4 DEF CountProblems

(* A place whose rows are there is no longer to come.                      *)
LEMMA PlaceDone ==
    ASSUME NEW x \in Upload, NEW y, x.pc \in Uploading \ Moving, y.pc = "making",
           x.at \in DOMAIN x.archive.items, SizeOK(x),
           y.archive = x.archive, y.at = x.at, y.user = x.user
    PROVE  /\ Shrinks(x, y) /\ SizeOK(y)
           /\ x.at \in Ahead(x) /\ Ahead(y) = Ahead(x) \ {x.at}
           /\ x.archive.items[x.at] = New =>
                 x.at \in NewsLeft(x) /\ NewsLeft(y) = NewsLeft(x) \ {x.at}
           /\ \A s : x.archive.items[x.at] = s =>
                 x.at \in VersionsLeft(x, s) /\ x.at \notin VersionsLeft(y, s)
<1>1. y.pc \in Moving /\ y.pc \in Uploading /\ y.pc # "checking" /\ x.pc # "checking"
  BY DEF Moving, Uploading, Working
<1>2. DOMAIN x.archive.items \subseteq Nat /\ x.at \in Nat
  <2>1. x.archive.items \in Seq(Slugs \cup {New}) /\ x.at \in Nat
    BY DEF Upload
  <2> QED  BY <2>1
<1>3. x.at \in Ahead(x) /\ Ahead(y) = Ahead(x) \ {x.at}
  BY <1>1, <1>2 DEF Ahead
<1>4. SizeOK(y)
  <2>1. NewsOf(y) = NewsOf(x)
    BY DEF NewsOf
  <2>2. x.pc \in Working
    BY DEF Uploading
  <2> QED  BY <2>1, <2>2 DEF SizeOK, Locked
<1>5. Shrinks(x, y)
  BY <1>1, <1>3 DEF Shrinks, NewsLeft, VersionsLeft
<1> QED  BY <1>1, <1>3, <1>4, <1>5 DEF NewsLeft, VersionsLeft

(* A new problem is inserted: its user has one more, and one less to come. *)
LEMMA Inserted ==
    ASSUME IInv, LimitInv, NEW r \in Requests, NEW u \in Users, NEW s \in Slugs,
           req[r].pc = "inserting", req[r].user = u, ~Listed(s),
           req' \in [Requests -> Slot], \A q \in Requests : q # r => req'[q] = req[q],
           req'[r].pc = "making", req'[r].user = u,
           req'[r].archive = req[r].archive, req'[r].at = req[r].at,
           \A t \in Slugs : t # s => row'[t] = row[t],
           row'[s].owner = u, row'[s].versions = {1}, row'[s].current = 1
    PROVE  LimitInv'
<1> DEFINE x == req[r]
           y == req'[r]
           k == Cardinality(NewsLeft(x))
<1>1. /\ x \in Upload /\ x.pc \in Uploading \ Moving /\ x.at \in DOMAIN x.archive.items
      /\ req \in [Requests -> Slot] /\ x \in Slot
  <2>1. x.pc \in Working \ {"checking"} /\ x.pc \notin Moving
    BY DEF Working, Moving
  <2>2. x \in Upload /\ x.archive.items \in Seq(Slugs \cup {New})
    BY <2>1, Serving DEF IInv
  <2>3. x.at \in DOMAIN x.archive.items
    BY <2>1, <2>2, AtItem
  <2> QED  BY <2>1, <2>2, <2>3, TypeOKParts DEF Uploading, IInv
<1>2. SizeOK(x) /\ x.archive.items[x.at] = New /\ \A q \in Requests : SizeOK(req[q])
  BY DEF LimitInv, SizeOK
<1>3. /\ Shrinks(x, y) /\ SizeOK(y)
      /\ x.at \in NewsLeft(x) /\ NewsLeft(y) = NewsLeft(x) \ {x.at}
  BY <1>1, <1>2, PlaceDone
<1>4. /\ \A q \in Requests : SizeOK(req'[q])
      /\ \A q \in Requests : Shrinks(req[q], req'[q])
  BY <1>2, <1>3 DEF Shrinks
<1>5. IsFiniteSet(NewsLeft(x)) /\ k \in 0..MaxBatch /\ MaxBatch \in Nat
  <2>1. IsFiniteSet(NewsLeft(x)) /\ k \in 0..Adds /\ Adds <= MaxBatch
    BY <1>1, <1>2, NewsLeftBound
  <2> QED  BY <2>1, AddsIsMin, CatalogAssumption
<1>6. k # 0 /\ Cardinality(NewsLeft(y)) = k - 1
  <2> DEFINE S == NewsLeft(x)
             i == x.at
  <2>1. IsFiniteSet(S) /\ i \in S /\ NewsLeft(y) = S \ {i} /\ k = Cardinality(S)
    BY <1>3, <1>5
  <2> HIDE DEF S, i, k, y
  <2>2. S # {}
    BY <2>1
  <2>3. Cardinality(S) # 0
    BY <2>1, <2>2, FS_EmptySet
  <2>4. Cardinality(S \ {i}) = Cardinality(S) - 1
    BY <2>1, FS_RemoveElement
  <2> QED  BY <2>1, <2>3, <2>4
<1> HIDE DEF k
<1>7. k \in 1..MaxBatch /\ k \in Nat /\ ~(k <= k - 1)
  BY <1>5, <1>6
<1>8. ASSUME NEW v \in Users, v # u
      PROVE  (/\ IsFiniteSet(OwnedBy(v))
              /\ Cardinality(OwnedBy(v)) + Cardinality(ToAdd(v)) <= MaxOwned)'
  <2>1. OwnedBy(v)' = OwnedBy(v)
    BY <1>8 DEF OwnedBy, Listed
  <2> QED  BY <1>1, <1>4, <2>1, OwnedKept DEF Shrinks
<1>9. (/\ IsFiniteSet(OwnedBy(u))
       /\ Cardinality(OwnedBy(u)) + Cardinality(ToAdd(u)) <= MaxOwned)'
  <2> DEFINE B == OwnedBy(u)
             T == ToAdd(u)
             C == {p \in Requests \X (1..MaxBatch) :
                      p[2] <= Cardinality(NewsLeft(req'[p[1]])) /\ req'[p[1]].user = u}
             e == <<r, k>>
  <2>1. /\ IsFiniteSet(B) /\ Cardinality(B) \in Nat
        /\ IsFiniteSet(T) /\ Cardinality(T) \in Nat
        /\ Cardinality(B) + Cardinality(T) <= MaxOwned
    BY <1>1, <1>2, ToAddBound, FS_CardinalityType DEF LimitInv, OwnedInv
  <2>2. OwnedBy(u)' = B \cup {s} /\ s \notin B
    BY DEF OwnedBy, Listed
  <2>3. e \in T
    BY <1>7 DEF ToAdd, k
  <2>4. ToAdd(u)' = C
    BY DEF ToAdd
  <2>5. C \in SUBSET (T \ {e})
    <3> SUFFICES ASSUME NEW p \in C PROVE p \in T /\ p # e
      OBVIOUS
    <3>1. CASE p[1] = r
      <4>1. p[2] \in Nat /\ p[2] <= k - 1
        BY <1>6, <3>1, CatalogAssumption
      <4>2. p[2] <= k /\ p[2] # k
        BY <1>7, <4>1
      <4> QED  BY <3>1, <4>2 DEF ToAdd, k
    <3>2. CASE p[1] # r
      BY <3>2 DEF ToAdd
    <3> QED  BY <3>1, <3>2
  <2> HIDE DEF B, T, C, e
  <2>6. IsFiniteSet(B \cup {s}) /\ Cardinality(B \cup {s}) = Cardinality(B) + 1
    BY <2>1, <2>2, FS_AddElement
  <2>7. IsFiniteSet(T \ {e}) /\ Cardinality(T \ {e}) = Cardinality(T) - 1
    BY <2>1, <2>3, FS_RemoveElement
  <2>8. IsFiniteSet(C) /\ Cardinality(C) <= Cardinality(T \ {e})
    BY <2>5, <2>7, FS_Subset
  <2>9. Cardinality(C) \in Nat
    BY <2>8, FS_CardinalityType
  <2>10. Cardinality(B \cup {s}) + Cardinality(C) <= MaxOwned
    BY <2>1, <2>6, <2>7, <2>8, <2>9, Numbers
  <2> QED  BY <2>2, <2>4, <2>6, <2>10
<1>10. OwnedInv'
  BY <1>8, <1>9 DEF OwnedInv
<1>11. ASSUME NEW t \in Slugs
       PROVE  row'[t].current + Cardinality(ToCommit(t)') <= MaxCurrent
  <2>1. row[t].current \in Nat
    BY TypeOKParts DEF IInv, Row
  <2>2. \A q \in Requests : VersionsLeft(req'[q], t) \subseteq VersionsLeft(req[q], t)
    BY <1>4 DEF Shrinks
  <2> QED  BY <2>1, <2>2, FirstVersion, CurrentKept
<1> QED  BY <1>4, <1>10, <1>11 DEF LimitInv, CurrentInv

(* The transaction of a new problem.                                       *)
LEMMA InsertLimits ==
    ASSUME IInv, LimitInv, NEW r \in Requests, InsertProblem(r)
    PROVE  LimitInv'
<1> DEFINE s == req[r].slug
           u == req[r].user
<1>0. /\ req[r].pc = "inserting" /\ TypeOK /\ s \in Slugs
      /\ req[r].pc \in Working
  BY DEF InsertProblem, IInv, ReqOK, Working
<1>1. CASE Return(r, "idle") /\ UNCHANGED row
  BY <1>1, ReturnLimits DEF Free
<1>2. CASE /\ ~Listed(s)
           /\ row' = [row EXCEPT ![s] = [owner |-> u, versions |-> {1}, current |-> 1]]
           /\ req' = [req EXCEPT ![r].pc = "making", ![r].ver = 1]
  <2> DEFINE y == [req[r] EXCEPT !.pc = "making", !.ver = 1]
  <2>1. req[r] \in Upload /\ u \in Users
    BY <1>0, Serving
  <2>2. y \in Upload
    BY <2>1 DEF Upload, Working
  <2>3. req' = [req EXCEPT ![r] = y]
    BY <1>0, <1>2, TypeOKParts
  <2>4. /\ req' \in [Requests -> Slot] /\ req'[r] = y
        /\ \A q \in Requests : q # r => req'[q] = req[q]
    BY <1>0, <2>2, <2>3, Updated DEF Slot
  <2>5. /\ req'[r].pc = "making" /\ req'[r].user = u
        /\ req'[r].archive = req[r].archive /\ req'[r].at = req[r].at
    BY <2>1, <2>4 DEF Upload
  <2> HIDE DEF y, s, u
  <2>6. /\ \A t \in Slugs : t # s => row'[t] = row[t]
        /\ row'[s].owner = u /\ row'[s].versions = {1} /\ row'[s].current = 1
    BY <1>0, <1>2, TypeOKParts
  <2>7. req[r].user = u
    BY DEF u
  <2> QED  BY <1>0, <1>2, <2>1, <2>4, <2>5, <2>6, <2>7, Inserted
<1> QED  BY <1>1, <1>2 DEF InsertProblem

(* A version is committed: the problem has one more, and one less to come. *)
LEMMA Committed ==
    ASSUME IInv, LimitInv, NEW r \in Requests, NEW s \in Slugs,
           req[r].pc = "committing", req[r].slug = s,
           req' \in [Requests -> Slot], \A q \in Requests : q # r => req'[q] = req[q],
           req'[r].pc = "making", req'[r].user = req[r].user,
           req'[r].archive = req[r].archive, req'[r].at = req[r].at,
           \A t \in Slugs : t # s => row'[t] = row[t],
           row'[s].owner = row[s].owner, Listed(s), row'[s].versions # {},
           row'[s].current = row[s].current + 1
    PROVE  LimitInv'
<1> DEFINE x == req[r]
           y == req'[r]
<1>1. /\ x \in Upload /\ x.pc \in Uploading \ Moving /\ x.at \in DOMAIN x.archive.items
      /\ req \in [Requests -> Slot] /\ x.at \in 1..Len(x.archive.items)
      /\ Len(x.archive.items) \in Nat /\ x.pc \in Working
  <2>1. x.pc \in Working \ {"checking"} /\ x.pc \notin Moving
    BY DEF Working, Moving
  <2>2. /\ x \in Upload /\ x.archive.items \in Seq(Slugs \cup {New})
        /\ Len(x.archive.items) \in Nat
    BY <2>1, Serving DEF IInv
  <2>3. x.at \in DOMAIN x.archive.items /\ x.at \in 1..Len(x.archive.items)
    BY <2>1, <2>2, AtItem
  <2> QED  BY <2>1, <2>2, <2>3, TypeOKParts DEF Uploading, IInv
<1>2. /\ SizeOK(x) /\ x.archive.items[x.at] = s /\ Len(x.archive.items) <= MaxBatch
      /\ \A q \in Requests : SizeOK(req[q])
  BY <1>1 DEF LimitInv, SizeOK, Locked
<1>3. /\ Shrinks(x, y) /\ SizeOK(y)
      /\ x.at \in VersionsLeft(x, s) /\ x.at \notin VersionsLeft(y, s)
  BY <1>1, <1>2, PlaceDone
<1>4. /\ \A q \in Requests : SizeOK(req'[q])
      /\ \A q \in Requests : Shrinks(req[q], req'[q])
  BY <1>2, <1>3 DEF Shrinks
<1>5. OwnedInv'
  <2>1. \A u \in Users : OwnedBy(u)' = OwnedBy(u)
    BY DEF OwnedBy, Listed
  <2> QED  BY <1>1, <1>4, <2>1, OwnedKept DEF OwnedInv, Shrinks
<1>6. \A t \in Slugs : row[t].current \in Nat
  BY TypeOKParts DEF IInv, Row
<1>7. ASSUME NEW t \in Slugs, t # s
      PROVE  row'[t].current + Cardinality(ToCommit(t)') <= MaxCurrent
  <2>1. \A q \in Requests : VersionsLeft(req'[q], t) \subseteq VersionsLeft(req[q], t)
    BY <1>4 DEF Shrinks
  <2> QED  BY <1>6, <1>7, <2>1, CurrentKept
<1>8. row'[s].current + Cardinality(ToCommit(s)') <= MaxCurrent
  <2> DEFINE T == ToCommit(s)
             C == {p \in Requests \X (1..MaxBatch) : p[2] \in VersionsLeft(req'[p[1]], s)}
             e == <<r, x.at>>
  <2>1. /\ IsFiniteSet(T) /\ Cardinality(T) \in Nat
        /\ row[s].current + Cardinality(T) <= MaxCurrent
    BY ToCommitBound DEF LimitInv, CurrentInv
  <2>2. e \in T
    <3>1. x.at \in 1..MaxBatch
      BY <1>1, <1>2, CatalogAssumption
    <3> QED  BY <1>3, <3>1 DEF ToCommit
  <2>3. ToCommit(s)' = C
    BY DEF ToCommit
  <2>4. C \in SUBSET (T \ {e})
    <3> SUFFICES ASSUME NEW p \in C PROVE p \in T /\ p # e
      OBVIOUS
    <3>1. p[2] \in VersionsLeft(req[p[1]], s)
      BY <1>4 DEF Shrinks
    <3>2. p # e
      BY <1>3
    <3> QED  BY <3>1, <3>2 DEF ToCommit
  <2> HIDE DEF T, C, e
  <2>5. IsFiniteSet(T \ {e}) /\ Cardinality(T \ {e}) = Cardinality(T) - 1
    BY <2>1, <2>2, FS_RemoveElement
  <2>6. IsFiniteSet(C) /\ Cardinality(C) <= Cardinality(T \ {e})
    BY <2>4, <2>5, FS_Subset
  <2>7. Cardinality(C) \in Nat
    BY <2>6, FS_CardinalityType
  <2>8. row[s].current + 1 + Cardinality(C) <= MaxCurrent
    BY <1>6, <2>1, <2>5, <2>6, <2>7, Numbers
  <2> QED  BY <2>3, <2>8
<1> QED  BY <1>4, <1>5, <1>7, <1>8 DEF LimitInv, CurrentInv

(* The transaction of a new version.                                       *)
LEMMA CommitLimits ==
    ASSUME IInv, LimitInv, NEW r \in Requests, CommitVersion(r)
    PROVE  LimitInv'
<1> DEFINE s == req[r].slug
           v == req[r].ver
<1>0. /\ req[r].pc = "committing" /\ TypeOK /\ req[r].pc \in Working
      /\ s \in Slugs /\ Listed(s) /\ v = row[s].current + 1
  BY DEF CommitVersion, IInv, ReqOK, Owns, Working, Locked
<1>1. CASE Return(r, "clash") /\ UNCHANGED row
  BY <1>1, ReturnLimits DEF Free
<1>2. CASE /\ Goto(r, "making")
           /\ row' = [row EXCEPT ![s].versions = row[s].versions \cup {v},
                                 ![s].current = v]
  <2>1. /\ req' \in [Requests -> Slot]
        /\ \A q \in Requests : q # r => req'[q] = req[q]
        /\ req'[r].pc = "making" /\ req'[r].user = req[r].user
        /\ req'[r].archive = req[r].archive /\ req'[r].at = req[r].at
    BY <1>0, <1>2, GotoFields DEF Working
  <2> DEFINE V == row[s].versions \cup {v}
             y == [row[s] EXCEPT !.versions = V, !.current = v]
  <2>2. row[s] \in Row /\ row \in [Slugs -> Row]
    BY <1>0, TypeOKParts
  <2>3. V # {} /\ req[r].slug = s /\ v = row[s].current + 1
    BY <1>0
  <2> HIDE DEF s, v
  <2>4. row' = [row EXCEPT ![s] = y]
    BY <1>0, <1>2, <2>2
  <2> HIDE DEF V
  <2>5. y.owner = row[s].owner /\ y.versions = V /\ y.current = v
    BY <2>2 DEF Row
  <2> HIDE DEF y
  <2>6. row'[s] = y /\ \A t \in Slugs : t # s => row'[t] = row[t]
    BY <1>0, <2>2, <2>4
  <2> QED  BY <1>0, <2>1, <2>3, <2>5, <2>6, Committed
<1> QED  BY <1>1, <1>2 DEF CommitVersion

(* A name is generated, or the problem of a version found: the place of    *)
(* the archive decides which.                                              *)
LEMMA NameLimits ==
    ASSUME IInv, LimitInv, NEW r \in Requests, GenerateSlug(r) \/ FindProblem(r)
    PROVE  LimitInv'
<1>0. /\ req[r].pc = "uploading" /\ TypeOK /\ UNCHANGED row
      /\ req[r].pc \in Uploading \ Moving /\ req[r].pc \in Working
  BY DEF GenerateSlug, FindProblem, IInv, Moving, Working, Uploading
<1>1. req[r] \in Upload /\ SizeOK(req[r])
  BY <1>0, Serving DEF LimitInv
<1>2. CASE Return(r, "idle")
  BY <1>0, <1>2, ReturnLimits DEF Free
<1>3. ASSUME NEW pc, NEW s \in Slugs \cup {New},
             req' = [req EXCEPT ![r].pc = pc, ![r].slug = s],
             \/ pc = "inserting" /\ Item(r) = New
             \/ pc = "locking" /\ Item(r) = s
      PROVE  LimitInv'
  <2> DEFINE x == req[r]
             y == [x EXCEPT !.pc = pc, !.slug = s]
  <2>1. pc \in Working /\ pc \in Uploading /\ pc \notin Locked
    BY <1>3 DEF Working, Uploading, Locked
  <2>2. y \in Upload
    BY <1>1, <2>1 DEF Upload
  <2>3. req' = [req EXCEPT ![r] = y]
    BY <1>0, <1>3, TypeOKParts
  <2>4. /\ req' \in [Requests -> Slot] /\ req'[r] = y
        /\ \A q \in Requests : q # r => req'[q] = req[q]
    BY <1>0, <2>2, <2>3, Updated DEF Slot
  <2>5. /\ y.pc = pc /\ y.slug = s /\ y.at = x.at
        /\ y.user = x.user /\ y.archive = x.archive
    BY <1>1 DEF Upload
  <2> HIDE DEF y
  <2>6. SizeOK(y)
    <3>1. NewsOf(y) = NewsOf(x)
      BY <2>5 DEF NewsOf
    <3> QED  BY <1>0, <1>1, <1>3, <2>1, <2>5, <3>1 DEF SizeOK, Item
  <2>7. Shrinks(x, y)
    BY <1>0, <2>1, <2>5, StayShrinks
  <2> QED  BY <1>0, <2>4, <2>6, <2>7, OneShrinks
<1>4. CASE GenerateSlug(r)
  BY <1>2, <1>3, <1>4 DEF GenerateSlug
<1>5. CASE FindProblem(r)
  <2>1. Item(r) \in Slugs \cup {New}
    BY <1>0, AtItem DEF Uploading
  <2> QED  BY <1>2, <1>3, <1>5, <2>1 DEF FindProblem
<1> QED  BY <1>4, <1>5

(* The steps inside a transaction, and the making of the directory.        *)
LEMMA StayLimits ==
    ASSUME IInv, LimitInv, NEW r \in Requests,
           LockProblem(r) \/ ReadMaxVersion(r) \/ MakeDir(r)
    PROVE  LimitInv'
<1> DEFINE x == req[r]
           y == req'[r]
<1>0. /\ x.pc \in {"locking", "locked", "making"} /\ TypeOK /\ UNCHANGED row
      /\ x.pc \in Working /\ x.pc \in Uploading
  BY DEF LockProblem, ReadMaxVersion, MakeDir, IInv, Working, Uploading
<1>1. /\ req' \in [Requests -> Slot] /\ \A q \in Requests : q # r => req'[q] = req[q]
      /\ y.archive = x.archive /\ y.at = x.at /\ y.user = x.user /\ y.slug = x.slug
      /\ \/ x.pc \in {"locking", "locked"} /\ y.pc \in Locked
         \/ x.pc = "making" /\ y.pc = "renaming"
  <2>1. CASE LockProblem(r) \/ MakeDir(r)
    BY <1>0, <2>1, GotoFields DEF LockProblem, MakeDir, Working, Locked
  <2>2. CASE ReadMaxVersion(r)
    <3> DEFINE v == Max(row[x.slug].versions) + 1
               z == [x EXCEPT !.pc = "committing", !.ver = v]
    <3>1. x.pc = "locked" /\ req' = [req EXCEPT ![r].pc = "committing", ![r].ver = v]
      BY <2>2 DEF ReadMaxVersion
    <3>2. x \in Upload
      BY <1>0, Serving
    <3>3. v \in Nat
      <4>1. x.slug \in Slugs /\ Listed(x.slug)
        BY <3>1 DEF IInv, ReqOK, Owns, Locked
      <4>2. v = row[x.slug].current + 1 /\ row[x.slug].current \in Nat
        BY <4>1, ListedCurrent, MaxOfInterval DEF IInv
      <4> QED  BY <4>2
    <3> HIDE DEF v
    <3>4. z \in Upload
      BY <3>2, <3>3 DEF Upload, Working
    <3>5. req' = [req EXCEPT ![r] = z]
      BY <1>0, <3>1, TypeOKParts
    <3>6. /\ req' \in [Requests -> Slot] /\ req'[r] = z
          /\ \A q \in Requests : q # r => req'[q] = req[q]
      BY <1>0, <3>4, <3>5, Updated DEF Slot
    <3>7. /\ z.pc = "committing" /\ z.slug = x.slug /\ z.at = x.at
          /\ z.user = x.user /\ z.archive = x.archive
      BY <3>2 DEF Upload
    <3> QED  BY <3>1, <3>6, <3>7 DEF Locked
  <2> QED  BY <2>1, <2>2
<1>2. SizeOK(y)
  <2>1. SizeOK(x)
    BY DEF LimitInv
  <2>2. NewsOf(y) = NewsOf(x)
    BY <1>1 DEF NewsOf
  <2> QED  BY <1>0, <1>1, <2>1, <2>2 DEF SizeOK, Locked
<1>3. Shrinks(x, y)
  <2>1. y.pc \in Uploading /\ (x.pc \in Moving => y.pc \in Moving)
    BY <1>1 DEF Uploading, Working, Locked, Moving
  <2> QED  BY <1>0, <1>1, <2>1, StayShrinks
<1> QED  BY <1>0, <1>1, <1>2, <1>3, OneShrinks

(* The files are in place: the next problem of the archive is next, as it  *)
(* was.                                                                    *)
LEMMA RenameLimits ==
    ASSUME IInv, LimitInv, NEW r \in Requests, Rename(r)
    PROVE  LimitInv'
<1> DEFINE x == req[r]
<1>0. /\ x.pc = "renaming" /\ TypeOK /\ x.pc \in Working /\ x.pc \in Uploading
      /\ x.pc \in Moving /\ UNCHANGED row /\ "uploading" \in Working
  BY DEF Rename, IInv, Working, Uploading, Moving
<1>1. /\ x \in Upload /\ x.at \in Nat \ {0}
      /\ DOMAIN x.archive.items = 1..Len(x.archive.items)
      /\ Len(x.archive.items) \in Nat
  BY <1>0, Serving
<1>2. CASE Return(r, "idle")
  BY <1>0, <1>2, ReturnLimits DEF Free
<1>3. CASE req' = [req EXCEPT ![r].pc = "uploading", ![r].at = x.at + 1,
                              ![r].slug = New, ![r].ver = 0]
  <2> DEFINE n == x.at + 1
             y == [x EXCEPT !.pc = "uploading", !.at = n, !.slug = New, !.ver = 0]
  <2>1. n \in Nat \ {0}
    BY <1>1
  <2>2. req' = [req EXCEPT ![r] = y]
    <3> HIDE DEF n
    <3>1. req' = [req EXCEPT ![r].pc = "uploading", ![r].at = n,
                            ![r].slug = New, ![r].ver = 0]
      BY <1>3 DEF n
    <3> QED  BY <1>0, <3>1, TypeOKParts
  <2> HIDE DEF n
  <2>3. y \in Upload
    <3>1. 0 \in Nat /\ New \in Slugs \cup {New}
      OBVIOUS
    <3> QED  BY <1>0, <1>1, <2>1, <3>1 DEF Upload
  <2>4. /\ req' \in [Requests -> Slot] /\ req'[r] = y
        /\ \A q \in Requests : q # r => req'[q] = req[q]
    BY <1>0, <2>2, <2>3, Updated DEF Slot
  <2>5. y.pc = "uploading" /\ y.at = n /\ y.user = x.user /\ y.archive = x.archive
    BY <1>1 DEF Upload
  <2> HIDE DEF y
  <2>6. SizeOK(y)
    <3>1. SizeOK(x)
      BY DEF LimitInv
    <3>2. NewsOf(y) = NewsOf(x)
      BY <2>5 DEF NewsOf
    <3> QED  BY <1>0, <2>5, <3>1, <3>2 DEF SizeOK, Locked
  <2>7. Ahead(y) = Ahead(x)
    BY <1>0, <1>1, <2>5, SMTT(30) DEF Ahead, Moving, n
  <2>8. Shrinks(x, y)
    <3>1. y.pc \in Uploading /\ y.pc # "checking" /\ x.pc # "checking"
      BY <1>0, <2>5 DEF Uploading
    <3> QED  BY <1>0, <2>5, <2>7, <3>1 DEF Shrinks, NewsLeft, VersionsLeft
  <2> QED  BY <1>0, <2>4, <2>6, <2>8, OneShrinks
<1> QED  BY <1>2, <1>3 DEF Rename

(* A built-in problem gets its first version, and no user gets a problem.  *)
LEMMA SeedLimits ==
    ASSUME IInv, LimitInv, NEW s \in Slugs, SeedSlug(s), IInv'
    PROVE  LimitInv'
<1>1. UNCHANGED req /\ req \in [Requests -> Slot] /\ row \in [Slugs -> Row]
  BY TypeOKParts DEF SeedSlug, IInv
<1>2. \A q \in Requests : SizeOK(req'[q])
  BY <1>1 DEF LimitInv
<1>3. ASSUME UNCHANGED row PROVE LimitInv'
  BY <1>1, <1>3 DEF LimitInv, OwnedInv, CurrentInv, OwnedBy, Listed, ToAdd, ToCommit
<1>4. ASSUME NEW v, row[s].current = 0,
             row' = [row EXCEPT ![s] = [owner |-> Nobody, versions |-> {v}, current |-> v]]
      PROVE  LimitInv'
  <2>1. /\ \A t \in Slugs : t # s => row'[t] = row[t]
        /\ row'[s].owner = Nobody /\ row'[s].versions = {v} /\ row'[s].current = v
    BY <1>1, <1>4
  <2>2. ~Listed(s)
    BY <1>4, ListedCurrent DEF IInv, Listed
  <2>3. {v} = 1..v /\ v \in Nat
    <3>1. RowInv' /\ TypeOK'
      BY DEF IInv
    <3>2. row'[s].versions = 1..row'[s].current
      BY <3>1 DEF RowInv
    <3>3. row'[s].current \in Nat
      BY <3>1 DEF TypeOK
    <3> QED  BY <2>1, <3>2, <3>3
  <2>4. v = 1
    <3>1. v \in 1..v
      BY <2>3
    <3>2. v >= 1 /\ 1 \in 1..v
      BY <2>3, <3>1
    <3> QED  BY <2>3, <3>2
  <2>5. \A u \in Users : OwnedBy(u)' = OwnedBy(u)
    BY <2>1, <2>2, CatalogAssumption DEF OwnedBy, Listed
  <2>6. OwnedInv'
    BY <1>1, <1>2, <2>5, OwnedKept DEF OwnedInv
  <2>7. \A t \in Slugs : row[t].current \in Nat
    BY <1>1 DEF Row
  <2>8. CurrentInv'
    BY <1>1, <2>1, <2>2, <2>4, <2>7, FirstVersion, CurrentKept DEF CurrentInv
  <2> QED  BY <1>2, <2>6, <2>8 DEF LimitInv
<1> QED  BY <1>3, <1>4 DEF SeedSlug

(* A fault ends one request, a crash all of them; starting and serving     *)
(* touch none.                                                             *)
LEMMA OtherLimits ==
    ASSUME IInv, LimitInv,
           \/ \E r \in Requests : Fault(r)
           \/ Crash \/ Restart \/ Serve \/ SeedFault \/ UNCHANGED vars
    PROVE  LimitInv'
<1>1. ASSUME NEW r \in Requests, Fault(r) PROVE LimitInv'
  BY <1>1, ReturnLimits DEF Fault, Free
<1>2. CASE UNCHANGED <<req, row>>
  BY <1>2 DEF LimitInv, OwnedInv, CurrentInv, OwnedBy, Listed, ToAdd, ToCommit
<1>3. CASE Crash
  <2>1. /\ req' \in [Requests -> Slot] /\ UNCHANGED row
        /\ \A q \in Requests : req'[q].pc \in Free
    BY <1>3 DEF Crash, Slot, Free
  <2>2. \A q \in Requests : SizeOK(req'[q]) /\ Shrinks(req[q], req'[q])
    BY <2>1, OverShrinks
  <2>3. req \in [Requests -> Slot] /\ \A s \in Slugs : row[s].current \in Nat
    BY TypeOKParts DEF IInv, Row
  <2>4. \A u \in Users : OwnedBy(u)' = OwnedBy(u)
    BY <2>1 DEF OwnedBy, Listed
  <2>5. OwnedInv'
    BY <2>1, <2>2, <2>3, <2>4, OwnedKept DEF OwnedInv, Shrinks
  <2>6. CurrentInv'
    BY <2>1, <2>2, <2>3, CurrentKept DEF CurrentInv, Shrinks
  <2> QED  BY <2>2, <2>5, <2>6 DEF LimitInv
<1> QED  BY <1>1, <1>2, <1>3 DEF Restart, Serve, SeedFault, vars

(* At the start there is nothing.                                          *)
LEMMA InitLimits == Init => LimitInv
<1> SUFFICES ASSUME Init PROVE LimitInv
  OBVIOUS
<1>1. /\ \A s \in Slugs : row[s].versions = {} /\ row[s].current = 0
      /\ \A r \in Requests : req[r].pc \in Free /\ req[r].pc = "idle"
  BY DEF Init, NoRow, Free
<1>2. \A r \in Requests : SizeOK(req[r])
  BY <1>1, OverShrinks
<1>3. \A r \in Requests : NewsLeft(req[r]) = {} /\ \A s : VersionsLeft(req[r], s) = {}
  BY <1>1 DEF NewsLeft, VersionsLeft, Uploading, Working
<1>4. ASSUME NEW u \in Users
      PROVE  /\ IsFiniteSet(OwnedBy(u))
             /\ Cardinality(OwnedBy(u)) + Cardinality(ToAdd(u)) <= MaxOwned
  <2>1. OwnedBy(u) = {}
    BY <1>1 DEF OwnedBy, Listed
  <2>2. Cardinality({}) = 0 /\ IsFiniteSet({})
    BY FS_EmptySet
  <2>3. ToAdd(u) = {}
    <3>1. \A r \in Requests : Cardinality(NewsLeft(req[r])) = 0
      BY <1>3, <2>2
    <3>2. \A i \in 1..MaxBatch : ~(i <= 0)
      BY CatalogAssumption
    <3> QED  BY <3>1, <3>2 DEF ToAdd
  <2> QED  BY <2>1, <2>2, <2>3, Numbers
<1>5. ASSUME NEW s \in Slugs
      PROVE  row[s].current + Cardinality(ToCommit(s)) <= MaxCurrent
  <2>1. ToCommit(s) = {}
    BY <1>3 DEF ToCommit
  <2>2. Cardinality(ToCommit(s)) = 0
    BY <2>1, FS_EmptySet
  <2> QED  BY <1>1, <2>2, Numbers
<1> QED  BY <1>2, <1>4, <1>5 DEF LimitInv, OwnedInv, CurrentInv

(* The limits on problems and versions, which are checked before the       *)
(* uploads and outside their transactions, are exceeded by no more than    *)
(* what the other requests and the other places of an archive have under   *)
(* way, whatever faults and crashes come in between.                       *)
THEOREM CatalogLimitOvershootBounded == Spec => []LimitOvershootBounded
<1>1. Init => LimitInv
  BY InitLimits
<1>2. IInv /\ LimitInv /\ [Next]_vars /\ IInv' => LimitInv'
  BY BeginLimits, CheckItemLimits, CountLimits, NameLimits, InsertLimits, StayLimits,
     CommitLimits, RenameLimits, SeedLimits, OtherLimits
     DEF Next, Handle, Start
<1>3. IInv /\ LimitInv => LimitOvershootBounded
  <2> SUFFICES ASSUME IInv, LimitInv PROVE LimitOvershootBounded
    OBVIOUS
  <2>1. ASSUME NEW u \in Users PROVE Cardinality(OwnedBy(u)) <= MaxOwned
    <3>1. /\ Cardinality(OwnedBy(u)) \in Nat /\ Cardinality(ToAdd(u)) \in Nat
          /\ Cardinality(OwnedBy(u)) + Cardinality(ToAdd(u)) <= MaxOwned
      BY ToAddBound, TypeOKParts, FS_CardinalityType DEF IInv, LimitInv, OwnedInv
    <3> QED  BY <3>1, Numbers
  <2>2. ASSUME NEW s \in Slugs PROVE Cardinality(row[s].versions) <= MaxCurrent
    <3>1. row[s].versions = 1..row[s].current /\ row[s].current \in Nat
      BY TypeOKParts DEF IInv, RowInv, Row
    <3>2. Cardinality(row[s].versions) = row[s].current
      BY <3>1, FS_Interval
    <3>3. /\ Cardinality(ToCommit(s)) \in Nat
          /\ row[s].current + Cardinality(ToCommit(s)) <= MaxCurrent
      BY ToCommitBound DEF LimitInv, CurrentInv
    <3> QED  BY <3>1, <3>2, <3>3, Numbers
  <2> QED  BY <2>1, <2>2 DEF LimitOvershootBounded, MaxOwned, MaxCurrent, Adds
<1> QED  BY <1>1, <1>2, <1>3, CatalogInductive, PTL DEF Spec

-----------------------------------------------------------------------------
(* The rows as their readers see them.                                     *)

(* A row that was not there gets its first version.                        *)
LEMMA RowPublished ==
    ASSUME NEW s \in Slugs, NEW u \in Owner, row[s].current = 0,
           row' = [row EXCEPT ![s] = [owner |-> u, versions |-> {1}, current |-> 1]]
    PROVE  Publishing!Next
<1>1. 1..1 = {1}
  OBVIOUS
<1>2. Publishing!Publish(s, u)
  BY <1>1 DEF Publishing!Publish, Publishing!Entry
<1> QED  BY <1>2 DEF Publishing!Next, Owner

(* A new problem: the name is looked up again in its transaction.          *)
LEMMA InsertPublishes ==
    ASSUME IInv, NEW r \in Requests, InsertProblem(r)
    PROVE  Publishing!Next \/ UNCHANGED row
<1>1. TypeOK /\ RowInv /\ req[r].pc \in Working /\ req[r].slug \in Slugs
  BY DEF IInv, InsertProblem, ReqOK, Working
<1>2. CASE Listed(req[r].slug)
  BY <1>2 DEF InsertProblem
<1>3. CASE ~Listed(req[r].slug)
  <2>1. row' = [row EXCEPT ![req[r].slug] = [owner |-> req[r].user, versions |-> {1},
                                             current |-> 1]]
    BY <1>3 DEF InsertProblem
  <2>2. row[req[r].slug].current = 0
    BY <1>1, <1>3, ListedCurrent
  <2>3. req[r].user \in Owner
    BY <1>1, Serving DEF Owner
  <2> QED  BY <1>1, <2>1, <2>2, <2>3, RowPublished
<1> QED  BY <1>2, <1>3

(* A new version: the number read under the lock is the next one, and the  *)
(* problem is still the user's.                                            *)
LEMMA CommitRevises ==
    ASSUME IInv, NEW r \in Requests, CommitVersion(r)
    PROVE  Publishing!Next
<1> DEFINE s == req[r].slug
           n == row[s].current
<1>1. /\ TypeOK /\ RowInv /\ req[r].pc \in Working
      /\ s \in Slugs /\ Listed(s) /\ row[s].owner = req[r].user
      /\ req[r].ver = n + 1
  BY DEF CommitVersion, IInv, ReqOK, Owns, Working, Locked
<1>2. n \in Nat /\ n # 0 /\ row[s].versions = 1..n
  BY <1>1, ListedCurrent
<1>3. row[s].owner # Nobody
  BY <1>1, Serving, CatalogAssumption
<1>4. n + 1 \notin row[s].versions /\ row[s].versions \cup {n + 1} = 1..(n + 1)
  BY <1>2
<1>5. row' = [row EXCEPT ![s].versions = row[s].versions \cup {n + 1}, ![s].current = n + 1]
  BY <1>1, <1>4 DEF CommitVersion
<1>6. row \in [Slugs -> Row] /\ row[s] \in Row
  BY <1>1, TypeOKParts
<1> DEFINE V == row[s].versions \cup {n + 1}
<1>7. row' = [row EXCEPT ![s] = [row[s] EXCEPT !.versions = V, !.current = n + 1]]
  <2> HIDE DEF V
  <2>1. row' = [row EXCEPT ![s].versions = V, ![s].current = n + 1]
    BY <1>5 DEF V
  <2> HIDE DEF s, n
  <2> QED  BY <1>1, <1>6, <2>1
<1>8. [row[s] EXCEPT !.versions = V, !.current = n + 1]
         = [owner |-> row[s].owner, versions |-> V, current |-> n + 1]
  <2>1. ASSUME NEW x \in Row, NEW W, NEW m
        PROVE  [x EXCEPT !.versions = W, !.current = m]
                  = [owner |-> x.owner, versions |-> W, current |-> m]
    <3> DEFINE y == [x EXCEPT !.versions = W, !.current = m]
    <3>1. DOMAIN x = {"owner", "versions", "current"}
      BY DEF Row
    <3>2. y = [f \in {"owner", "versions", "current"} |->
                  IF f = "owner" THEN x.owner ELSE IF f = "versions" THEN W ELSE m]
      BY <3>1
    <3> QED  BY <3>2
  <2> QED  BY <1>6, <2>1
<1>9. Publishing!Revise(s)
  <2> HIDE DEF s
  <2>1. Publishing!Entry(row[s].owner, n + 1)
          = [owner |-> row[s].owner, versions |-> V, current |-> n + 1]
    BY <1>4 DEF Publishing!Entry
  <2>2. row' = [row EXCEPT ![s] = Publishing!Entry(row[s].owner, n + 1)]
    BY <1>7, <1>8, <2>1
  <2>3. row' = [row EXCEPT ![s] = Publishing!Entry(@.owner, @.current + 1)]
    BY <1>1, <2>2
  <2> QED  BY <1>2, <1>3, <2>3 DEF Publishing!Revise
<1> QED  BY <1>1, <1>9 DEF Publishing!Next

(* The seeding publishes what has no row, and only built-in problems.      *)
LEMMA SeedPublishes ==
    ASSUME IInv, NEW s \in Slugs, SeedSlug(s)
    PROVE  Publishing!Next \/ UNCHANGED row
<1>0. /\ TypeOK /\ RowInv /\ s \in dirs
  BY DEF SeedSlug, IInv
<1>1. CASE row[s].current # 0
  BY <1>1 DEF SeedSlug
<1>2. CASE row[s].current = 0
  <2>1. ~Listed(s) /\ row[s].versions = {}
    BY <1>0, <1>2, ListedCurrent DEF Listed
  <2>2. s \in Builtins /\ <<1, Nobody>> \in disk[s]
    BY <1>0, <2>1 DEF IInv, FileInv
  <2>3. \A d \in disk[s] : d[2] = Nobody /\ d[1] = 1
    BY <2>1 DEF IInv, FileInv, UploadsStayOwned
  <2>4. {d[1] : d \in disk[s]} = {1}
    BY <2>2, <2>3
  <2>5. Max({1}) = 1
    BY DEF Max
  <2>6. row' = [row EXCEPT ![s] = [owner |-> Nobody, versions |-> {1}, current |-> 1]]
    BY <1>2, <2>2, <2>4, <2>5 DEF SeedSlug
  <2>7. Nobody \in Owner
    BY DEF Owner
  <2> QED  BY <1>2, <2>6, <2>7, RowPublished
<1> QED  BY <1>1, <1>2

(* The catalogue implements what Publication promises to its readers, with *)
(* any number of uploads, faults and crashes: owners stay, versions are    *)
(* numbered one by one and never taken back, and the current one is the    *)
(* newest (UploadProblem, uploadNewVersion, seedSlug).                     *)
THEOREM CatalogPublishes == Spec => PublicationSpec
<1>1. Init => Publishing!Init
  <2> SUFFICES ASSUME Init PROVE Publishing!Init
    OBVIOUS
  <2>1. 1..0 = {}
    OBVIOUS
  <2>2. NoRow = Publishing!Entry(Nobody, 0)
    BY <2>1 DEF NoRow, Publishing!Entry
  <2> QED  BY <2>2 DEF Init, Publishing!Init
<1>2. IInv /\ [Next]_vars => [Publishing!Next]_row
  <2> SUFFICES ASSUME IInv, [Next]_vars PROVE Publishing!Next \/ UNCHANGED row
    OBVIOUS
  <2>1. ASSUME NEW r \in Requests, InsertProblem(r) \/ CommitVersion(r)
        PROVE  Publishing!Next \/ UNCHANGED row
    BY <2>1, InsertPublishes, CommitRevises
  <2>2. ASSUME NEW s \in Slugs, SeedSlug(s) PROVE Publishing!Next \/ UNCHANGED row
    BY <2>2, SeedPublishes
  <2>3. ASSUME NEW r \in Requests,
               \/ BeginUpload(r) \/ BeginVersion(r) \/ CheckItem(r) \/ CountProblems(r)
               \/ GenerateSlug(r) \/ FindProblem(r) \/ ReadMaxVersion(r)
               \/ MakeDir(r) \/ Rename(r) \/ LockProblem(r) \/ Fault(r)
        PROVE  UNCHANGED row
    BY <2>3 DEF BeginUpload, BeginVersion, CheckItem, CountProblems, GenerateSlug,
       FindProblem, ReadMaxVersion, MakeDir, Rename, LockProblem, Fault
  <2>4. ASSUME Restart \/ Serve \/ SeedFault \/ Crash \/ UNCHANGED vars
        PROVE  UNCHANGED row
    BY <2>4 DEF Restart, Serve, SeedFault, Crash, vars
  <2> QED  BY <2>1, <2>2, <2>3, <2>4 DEF Next, Handle, Start
<1> QED  BY <1>1, <1>2, CatalogInductive, PTL DEF Spec, PublicationSpec, Publishing!Spec

-----------------------------------------------------------------------------
(* Induction over numbers and what a recursive function computes.          *)

(* A set of natural numbers that is not empty has a least member.          *)
LEMMA LeastMember ==
    ASSUME NEW S \in SUBSET Nat, S # {}
    PROVE  \E x \in S : \A y \in S : x <= y
<1>1. PICK x \in S : \A y \in S : ~(<<y, x>> \in OpToRel(<, Nat))
  BY WFMin, NatLessThanWellFounded
<1>2. \A y \in S : ~(y < x)
  BY <1>1, Zenon DEF OpToRel
<1> QED  BY <1>2

(* Induction from 0 to n, for a set.                                       *)
LEMMA InductionTo ==
    ASSUME NEW n \in Nat, NEW P, 0 \in P, \A k \in 1..n : k - 1 \in P => k \in P
    PROVE  \A k \in 0..n : k \in P
<1> DEFINE off == {k \in 0..n : k \notin P}
<1>1. SUFFICES ASSUME off # {} PROVE FALSE
  OBVIOUS
<1>2. PICK k \in off : \A j \in off : k <= j
  <2>1. off \in SUBSET Nat
    OBVIOUS
  <2> HIDE DEF off
  <2> QED  BY <1>1, <2>1, LeastMember
<1>3. k \in 1..n /\ k - 1 \in 0..n /\ ~(k <= k - 1)
  OBVIOUS
<1>4. k - 1 \notin off
  <2> HIDE DEF off
  <2> QED  BY <1>2, <1>3
<1> QED  BY <1>3, <1>4

(* The steps of a recursion whose step is the function F.                  *)
Steps(g, b, F, n) == /\ DOMAIN g = 0..n
                     /\ g[0] = b
                     /\ \A k \in 1..n : g[k] = F[k][g[k - 1]]

(* There is a sequence of them, of any length.                           *)
LEMMA StepsExist ==
    ASSUME NEW S, NEW b \in S, NEW n \in Nat, NEW F \in [1..n -> [S -> S]]
    PROVE  \E g \in [0..n -> S] : Steps(g, b, F, n)
<1> DEFINE bad == {k \in 0..n : ~ \E g \in [0..k -> S] : Steps(g, b, F, k)}
<1>1. SUFFICES ASSUME bad # {} PROVE FALSE
  OBVIOUS
<1>2. PICK k \in bad : \A j \in bad : k <= j
  <2>1. bad \in SUBSET Nat
    OBVIOUS
  <2> HIDE DEF bad
  <2> QED  BY <1>1, <2>1, LeastMember
<1>3. k # 0
  <2> DEFINE g == [i \in 0..0 |-> b]
  <2>1. g \in [0..0 -> S] /\ Steps(g, b, F, 0)
    BY DEF Steps
  <2> QED  BY <2>1
<1>4. k \in 1..n /\ k - 1 \in 0..n /\ k - 1 \notin bad
  <2>1. k \in 0..n
    OBVIOUS
  <2>2. k - 1 \in 0..n /\ ~(k <= k - 1)
    BY <1>3, <2>1
  <2> HIDE DEF bad
  <2> QED  BY <1>2, <1>3, <2>1, <2>2
<1>5. PICK g \in [0..(k - 1) -> S] : Steps(g, b, F, k - 1)
  BY <1>4
<1> DEFINE h == [i \in 0..k |-> IF i = k THEN F[k][g[k - 1]] ELSE g[i]]
<1>6. F[k][g[k - 1]] \in S
  <2>1. g[k - 1] \in S
    BY <1>4, <1>5
  <2> QED  BY <1>4, <2>1
<1>7. h \in [0..k -> S]
  BY <1>4, <1>5, <1>6
<1>8. \A i \in 1..k : h[i] = F[i][h[i - 1]]
  <2> SUFFICES ASSUME NEW i \in 1..k PROVE h[i] = F[i][h[i - 1]]
    OBVIOUS
  <2>1. h[i - 1] = g[i - 1]
    BY <1>4
  <2>2. CASE i = k
    BY <1>4, <2>1, <2>2
  <2>3. CASE i # k
    BY <1>4, <1>5, <2>1, <2>3 DEF Steps
  <2> QED  BY <2>2, <2>3
<1>9. Steps(h, b, F, k)
  BY <1>3, <1>4, <1>5, <1>8 DEF Steps
<1> QED  BY <1>7, <1>9

(* The steps of filepath.Clean keep a path a path.                         *)
LEMMA CleanStepType ==
    ASSUME NEW path \in Seq(Component), NEW c \in Component, NEW rooted
    PROVE  CleanStep(path, c, rooted) \in Seq(Component)
<1>1. Append(path, c) \in Seq(Component)
  OBVIOUS
<1>2. path # <<>> => Front(path) \in Seq(Component)
  BY DEF Front
<1> QED  BY <1>1, <1>2 DEF CleanStep

(* Clean computes what its recursion says, from paths to paths.            *)
LEMMA CleanSteps ==
    ASSUME NEW name \in Seq(Component)
    PROVE  \E g \in [0..Len(name) -> Seq(Component)] :
              /\ g[0] = <<>>
              /\ \A n \in 1..Len(name) :
                    g[n] = CleanStep(g[n - 1], name[n], Rooted(name))
              /\ Clean(name) = g[Len(name)]
<1> DEFINE rooted == Rooted(name)
           Def(c) == [n \in 0..Len(name) |->
                        IF n = 0 THEN <<>> ELSE CleanStep(c[n - 1], name[n], rooted)]
           F == [n \in 1..Len(name) |->
                    [p \in Seq(Component) |-> CleanStep(p, name[n], rooted)]]
           cleaned == CHOOSE c : c = Def(c)
<1>1. F \in [1..Len(name) -> [Seq(Component) -> Seq(Component)]]
  <2> HIDE DEF rooted
  <2> QED  BY CleanStepType
<1>2. Len(name) \in Nat /\ <<>> \in Seq(Component)
  OBVIOUS
<1>3. PICK g \in [0..Len(name) -> Seq(Component)] : Steps(g, <<>>, F, Len(name))
  <2> HIDE DEF F
  <2> QED  BY <1>1, <1>2, StepsExist
<1>4. g = Def(g)
  <2>1. \A n \in 1..Len(name) : g[n] = CleanStep(g[n - 1], name[n], rooted)
    <3> SUFFICES ASSUME NEW n \in 1..Len(name)
                 PROVE  g[n] = CleanStep(g[n - 1], name[n], rooted)
      OBVIOUS
    <3> HIDE DEF rooted
    <3>1. g[n - 1] \in Seq(Component)
      BY <1>2
    <3>2. F[n][g[n - 1]] = CleanStep(g[n - 1], name[n], rooted)
      BY <3>1
    <3>3. g[n] = F[n][g[n - 1]]
      BY <1>3 DEF Steps
    <3> QED  BY <3>2, <3>3
  <2>2. g[0] = <<>>
    BY <1>3 DEF Steps
  <2> HIDE DEF rooted
  <2> QED  BY <1>2, <2>1, <2>2
<1>5. cleaned = Def(cleaned)
  <2> HIDE DEF Def
  <2> QED  BY <1>4, Zenon
<1>6. Clean(name) = cleaned[Len(name)]
  BY Zenon DEF Clean
<1> HIDE DEF cleaned, rooted
<1>7. /\ DOMAIN cleaned = 0..Len(name)
      /\ cleaned[0] = <<>>
      /\ \A n \in 1..Len(name) : cleaned[n] = CleanStep(cleaned[n - 1], name[n], rooted)
  BY <1>2, <1>5
<1>8. \A n \in 0..Len(name) : cleaned[n] \in Seq(Component)
  <2> DEFINE P == {n \in 0..Len(name) : cleaned[n] \in Seq(Component)}
  <2>1. 0 \in P
    <3>1. cleaned[0] \in Seq(Component)
      BY <1>7
    <3>2. 0 \in 0..Len(name)
      BY <1>2
    <3> QED  BY <3>1, <3>2
  <2>2. ASSUME NEW n \in 1..Len(name), n - 1 \in P PROVE n \in P
    <3>1. cleaned[n - 1] \in Seq(Component) /\ name[n] \in Component
      BY <2>2
    <3>2. CleanStep(cleaned[n - 1], name[n], rooted) \in Seq(Component)
      BY <3>1, CleanStepType
    <3>3. n \in 0..Len(name)
      BY <1>2
    <3> QED  BY <1>7, <3>2, <3>3
  <2>3. \A n \in 0..Len(name) : n \in P
    <3> HIDE DEF P
    <3> QED  BY <1>2, <2>1, <2>2, InductionTo
  <2> QED  BY <2>3
<1>9. cleaned \in [0..Len(name) -> Seq(Component)]
  BY <1>5, <1>8
<1> QED  BY <1>6, <1>7, <1>9 DEF rooted

(* A clean path is a path.                                                 *)
LEMMA CleanType ==
    ASSUME NEW name \in Seq(Component)
    PROVE  Clean(name) \in Seq(Component)
<1>1. PICK g \in [0..Len(name) -> Seq(Component)] : Clean(name) = g[Len(name)]
  BY CleanSteps
<1>2. Len(name) \in 0..Len(name)
  OBVIOUS
<1> QED  BY <1>1, <1>2

-----------------------------------------------------------------------------
(* The archive, while ValidateArchive works on it.                         *)

(* The names of directories and files.                                     *)
Paths == Seq(Component) \ {<<>>}

(* The temporary directory is there while the archive is worked on.        *)
RootThere ==
    /\ <<"tmp">> \in DOMAIN fs /\ fs[<<"tmp">>] = Dir
    /\ stage \in Busy => IsDir(Root)
    /\ stage = "idle" => ~Exists(Root)

(* No more is on the disk than was counted.                                *)
BytesCounted == IsFiniteSet(Bytes) /\ Cardinality(Bytes) <= total

(* A file that was cut short has used up the limit, which is looked at     *)
(* before anything else happens.                                           *)
CutIsNoticed ==
    /\ stage \in {"scanning", "validating", "judging", "accepted"}
           => total <= MaxExtractedBytes
    /\ total <= MaxExtractedBytes => \A p \in DOMAIN fs : fs[p].whole

(* What was found well formed still is.                                    *)
ResultsGood ==
    /\ stage \in {"idle", "extracting", "scanning"} => results = {}
    /\ \A d \in results : WellFormed(d)
    /\ stage = "judging" => current \in todo /\ WellFormed(current)
    /\ stage = "accepted" => results # {}

(* The inductive invariant of an archive.                                  *)
ArchiveInv ==
    /\ ArchiveTypeOK
    /\ InsideRoot /\ RootThere /\ RefusedCleansUp
    /\ BytesCounted /\ CutIsNoticed /\ ResultsGood

(* The temporary directory is two names deep.                              *)
LEMMA RootType == Root \in Seq(Component) /\ Len(Root) = 2 /\ <<"tmp">> \in Paths
<1>1. "tmp" \in Component /\ "bb-upload" \in Component
  BY DEF Component
<1> QED  BY <1>1 DEF Root, Paths

(* The temporary directory, what it holds, and the directory it is in.     *)
Below(p) == /\ p \in Paths
            /\ p[1] = "tmp"
            /\ Len(p) >= 2 => p[2] = "bb-upload"

(* What isUnder asks of a target, name by name.                            *)
LEMMA PrefixOfRoot ==
    ASSUME NEW p \in Seq(Component)
    PROVE  IsPrefix(Root, p) <=> Below(p) /\ Len(p) >= 2
<1> USE RootType
<1>1. ASSUME Len(p) >= 2
      PROVE  SubSeq(Root, 1, 2) = SubSeq(p, 1, 2) <=> p[1] = Root[1] /\ p[2] = Root[2]
  <2>1. SubSeq(p, 1, 2) \in Seq(Component) /\ Len(SubSeq(p, 1, 2)) = 2
    BY <1>1
  <2>2. SubSeq(Root, 1, 2) \in Seq(Component) /\ Len(SubSeq(Root, 1, 2)) = 2
    OBVIOUS
  <2>3. /\ SubSeq(p, 1, 2)[1] = p[1] /\ SubSeq(p, 1, 2)[2] = p[2]
        /\ SubSeq(Root, 1, 2)[1] = Root[1] /\ SubSeq(Root, 1, 2)[2] = Root[2]
    BY <1>1
  <2>4. ASSUME p[1] = Root[1], p[2] = Root[2] PROVE SubSeq(Root, 1, 2) = SubSeq(p, 1, 2)
    <3>1. \A i \in 1..2 : SubSeq(Root, 1, 2)[i] = SubSeq(p, 1, 2)[i]
      BY <2>3, <2>4
    <3> QED  BY <2>1, <2>2, <3>1, SeqEqual
  <2> QED  BY <2>3, <2>4
<1>2. Root[1] = "tmp" /\ Root[2] = "bb-upload"
  BY DEF Root
<1>3. Len(p) >= 2 => p # <<>>
  OBVIOUS
<1> QED  BY <1>1, <1>2, <1>3 DEF IsPrefix, Below, Paths

(* The same with the directory that holds the temporary one.               *)
LEMMA BelowOrAbove ==
    ASSUME NEW p \in Seq(Component), p # <<>>
    PROVE  (p = <<"tmp">> \/ IsPrefix(Root, p)) <=> Below(p)
<1>1. CASE Len(p) = 1
  <2>1. p = <<"tmp">> <=> p[1] = "tmp"
    BY <1>1
  <2> QED  BY <1>1, <2>1, PrefixOfRoot DEF Below, Paths
<1>2. CASE Len(p) >= 2
  <2>1. Below(p) => IsPrefix(Root, p)
    BY <1>2, PrefixOfRoot
  <2>2. IsPrefix(Root, p) => Below(p)
    BY PrefixOfRoot
  <2>3. ASSUME p = <<"tmp">> PROVE FALSE
    <3>1. Len(<<"tmp">>) = 1
      OBVIOUS
    <3>2. Len(p) = 1
      BY <2>3, <3>1, Zenon
    <3> QED  BY <1>2, <3>2
  <2> QED  BY <2>1, <2>2, <2>3
<1> QED  BY <1>1, <1>2

(* MkdirAll makes no directory that is elsewhere.                          *)
LEMMA WayBelow ==
    ASSUME NEW p, Below(p), NEW q \in Way(p)
    PROVE  Below(q)
<1>1. PICK n \in 1..Len(p) : q = SubSeq(p, 1, n)
  BY DEF Way
<1>2. p \in Seq(Component)
  BY DEF Below, Paths
<1>3. q \in Seq(Component) /\ Len(q) = n /\ \A i \in 1..n : q[i] = p[i]
  BY <1>1, <1>2
<1>4. q # <<>>
  BY <1>3
<1> QED  BY <1>1, <1>2, <1>3, <1>4 DEF Below, Paths

(* The way to a target leads through the temporary directory.              *)
LEMMA WayToRoot ==
    ASSUME NEW p \in Seq(Component), IsPrefix(Root, p) PROVE Root \in Way(p)
<1>1. SubSeq(p, 1, 2) = SubSeq(Root, 1, 2) /\ 2 \in 1..Len(p)
  BY RootType DEF IsPrefix
<1>2. SubSeq(Root, 1, 2) = Root
  BY RootType
<1> QED  BY <1>1, <1>2 DEF Way

(* A path of one name.                                                     *)
LEMMA One == ASSUME NEW S, NEW x \in S PROVE <<x>> \in Seq(S)
OBVIOUS

(* The target of an entry lies in the temporary directory.                 *)
LEMMA TargetInside ==
    ASSUME NEW name \in Seq(Component), safeTarget(name) # Refused
    PROVE  safeTarget(name) \in Seq(Component) /\ IsPrefix(Root, safeTarget(name))
<1>1. Clean(name) \in Seq(Component)
  BY CleanType
<1>2. <<"">> \o Root \o Clean(name) \in Seq(Component)
  <2>1. "" \in Component
    BY DEF Component
  <2>2. <<"">> \o Root \in Seq(Component)
    BY <2>1, RootType, One, ConcatProperties
  <2> QED  BY <1>1, <2>2, ConcatProperties
<1>3. Join(Root, Clean(name)) \in Seq(Component)
  BY <1>2, CleanType DEF Join
<1> QED  BY <1>3 DEF safeTarget

-----------------------------------------------------------------------------

(* What Refuse does to the disk.                                           *)
LEMMA RefuseLeaves ==
    ASSUME ArchiveTypeOK, InsideRoot, Refuse
    PROVE  /\ DOMAIN fs' \subseteq {<<"tmp">>} /\ DOMAIN fs' \subseteq DOMAIN fs
           /\ \A p \in DOMAIN fs' : fs'[p] = fs[p]
           /\ Root \notin DOMAIN fs'
<1>1. fs' = RemoveAll(Root)
  BY DEF Refuse
<1>2. DOMAIN fs' = {q \in DOMAIN fs : ~IsPrefix(Root, q)} /\ \A p \in DOMAIN fs' : fs'[p] = fs[p]
  BY <1>1 DEF RemoveAll
<1>3. IsPrefix(Root, Root)
  BY RootType DEF IsPrefix
<1> QED  BY <1>2, <1>3 DEF InsideRoot


(* Nothing is on the disk when every node is empty.                        *)
LEMMA NoBytes ==
    ASSUME \A p \in DOMAIN fs : fs[p].size = 0 PROVE Bytes = {}
BY DEF Bytes

(* A refusal removes the temporary directory and keeps the invariant.      *)
LEMMA RefuseKeeps ==
    ASSUME ArchiveInv, Refuse, archive' = archive, failures' \in 0..MaxFailures
    PROVE  ArchiveInv'
<1> USE ArchiveAssumption DEF ArchiveInv
<1>1. /\ DOMAIN fs' \subseteq {<<"tmp">>} /\ DOMAIN fs' \subseteq DOMAIN fs
      /\ \A p \in DOMAIN fs' : fs'[p] = fs[p]
      /\ Root \notin DOMAIN fs'
  BY RefuseLeaves
<1>2. <<"tmp">> \in DOMAIN fs'
  <2>1. ~IsPrefix(Root, <<"tmp">>)
    <3>1. Len(<<"tmp">>) = 1
      OBVIOUS
    <3> QED  BY <3>1, RootType DEF IsPrefix
  <2> QED  BY <2>1 DEF Refuse, RemoveAll, RootThere
<1>3. /\ stage' = "refused" /\ total' = 0
      /\ todo' = {} /\ tests' = {} /\ results' = {}
  BY DEF Refuse
<1>4. ArchiveTypeOK'
  <2>1. DOMAIN fs' \subseteq Seq(Component) \ {<<>>} /\ \A p \in DOMAIN fs' : fs'[p] \in Node
    BY <1>1 DEF ArchiveTypeOK
  <2>2. 0 \in 0..(MaxExtractedBytes + 1)
    OBVIOUS
  <2> QED  BY <1>3, <2>1, <2>2 DEF ArchiveTypeOK
<1>5. InsideRoot' /\ RefusedCleansUp'
  BY <1>1 DEF InsideRoot, RefusedCleansUp, Exists
<1>6. RootThere'
  BY <1>1, <1>2, <1>3 DEF RootThere, Busy
<1>7. BytesCounted'
  <2>1. \A p \in DOMAIN fs' : fs'[p].size = 0
    <3>1. fs[<<"tmp">>].size = 0
      BY DEF RootThere, Dir
    <3> QED  BY <1>1, <3>1
  <2>2. Bytes' = {}
    BY <2>1 DEF Bytes
  <2> QED  BY <1>3, <2>2, FS_EmptySet DEF BytesCounted
<1>8. CutIsNoticed'
  <2>1. \A p \in DOMAIN fs' : fs'[p].whole
    <3>1. fs[<<"tmp">>].whole
      BY DEF RootThere, Dir
    <3> QED  BY <1>1, <3>1
  <2> QED  BY <1>3, <2>1 DEF CutIsNoticed
<1>9. ResultsGood'
  BY <1>3 DEF ResultsGood
<1> QED  BY <1>4, <1>5, <1>6, <1>7, <1>8, <1>9

(* Steps that read the disk: WellFormed and the rest stay what they were.  *)
LEMMA SameDisk ==
    ASSUME fs' = fs
    PROVE  /\ Bytes' = Bytes /\ \A d : WellFormed(d)' = WellFormed(d)
           /\ InsideRoot' = InsideRoot
           /\ \A q : Exists(q)' = Exists(q) /\ IsDir(q)' = IsDir(q)
BY DEF Bytes, WellFormed, InsideRoot, Exists, IsDir, validateManifest, IsFile, loadReference,
       Children, loadAndValidateTestCases, loadTestCases, TestInputs

(* The disk and the count are left alone: what has to be shown of the rest.*)
LEMMA ReadingKeeps ==
    ASSUME ArchiveInv, fs' = fs, total' = total, failures' = failures, archive' = archive,
           stage \in Busy, stage' \in Busy \cup {"accepted"},
           stage' # "extracting" => total <= MaxExtractedBytes,
           todo' \cup tests' \cup results' \subseteq DOMAIN fs,
           ResultsGood'
    PROVE  ArchiveInv'
<1> USE DEF ArchiveInv
<1>1. ArchiveTypeOK'
  BY DEF ArchiveTypeOK, Busy
<1>2. InsideRoot' /\ RootThere' /\ RefusedCleansUp'
  BY SameDisk DEF RootThere, RefusedCleansUp, Busy
<1>3. BytesCounted'
  BY SameDisk DEF BytesCounted
<1>4. CutIsNoticed'
  BY DEF CutIsNoticed, Busy
<1> QED  BY <1>1, <1>2, <1>3, <1>4

(* The end of the archive is reached only within the byte limit.           *)
LEMMA EndOfArchiveKeeps == ArchiveInv /\ EndOfArchive => ArchiveInv'
<1> SUFFICES ASSUME ArchiveInv, EndOfArchive PROVE ArchiveInv'
  OBVIOUS
<1>1. ResultsGood'
  BY SameDisk DEF ArchiveInv, ResultsGood, EndOfArchive
<1>2. todo' \cup tests' \cup results' \subseteq DOMAIN fs
  BY DEF ArchiveInv, ArchiveTypeOK, EndOfArchive
<1> QED  BY <1>1, <1>2, ReadingKeeps DEF EndOfArchive, Busy

(* The problems found are directories that are there.                      *)
LEMMA FindProblemsKeeps == ArchiveInv /\ FindProblems => ArchiveInv'
<1> SUFFICES ASSUME ArchiveInv, FindProblems PROVE ArchiveInv'
  OBVIOUS
<1>1. failures \in 0..MaxFailures
  BY DEF ArchiveInv, ArchiveTypeOK
<1>2. CASE Refuse
  BY <1>1, <1>2, RefuseKeeps DEF FindProblems
<1>3. CASE /\ stage' = "validating" /\ todo' = ProblemDirs
           /\ UNCHANGED <<fs, total, current, tests, results>>
  <2>1. ResultsGood'
    BY <1>3, SameDisk DEF ArchiveInv, ResultsGood, FindProblems, Scan
  <2>2. ProblemDirs \subseteq DOMAIN fs
    BY DEF ProblemDirs, IsDir, Exists, FindProblems, Scan, ArchiveInv, RootThere, Busy, Children
  <2>3. todo' \cup tests' \cup results' \subseteq DOMAIN fs
    BY <1>3, <2>2 DEF ArchiveInv, ArchiveTypeOK
  <2> QED  BY <1>3, <2>1, <2>3, ReadingKeeps DEF ArchiveInv, CutIsNoticed, FindProblems, Scan, Busy
<1> QED  BY <1>2, <1>3 DEF FindProblems, Scan

(* A problem is run only when its files are as they have to be.            *)
LEMMA ValidateKeeps ==
    ASSUME ArchiveInv, NEW d \in todo, Validate(d) PROVE ArchiveInv'
<1>1. failures \in 0..MaxFailures
  BY DEF ArchiveInv, ArchiveTypeOK
<1>2. CASE Refuse
  BY <1>1, <1>2, RefuseKeeps DEF Validate
<1>3. CASE /\ WellFormed(d) /\ stage' = "judging" /\ current' = d
           /\ tests' = TestInputs(d) /\ UNCHANGED <<fs, total, todo, results>>
  <2>1. ResultsGood'
    BY <1>3, SameDisk DEF ArchiveInv, ResultsGood
  <2>2. todo' \cup tests' \cup results' \subseteq DOMAIN fs
    BY <1>3 DEF ArchiveInv, ArchiveTypeOK, TestInputs, Children
  <2> QED  BY <1>3, <2>1, <2>2, ReadingKeeps DEF ArchiveInv, CutIsNoticed, Validate, Busy
<1> QED  BY <1>2, <1>3 DEF Validate

(* A test case that passes or fails.                                       *)
LEMMA RunTestKeeps ==
    ASSUME ArchiveInv, NEW c \in tests, RunTest(c) PROVE ArchiveInv'
<1>1. failures \in 0..MaxFailures
  BY DEF ArchiveInv, ArchiveTypeOK
<1>2. CASE Refuse
  BY <1>1, <1>2, RefuseKeeps DEF RunTest
<1>3. CASE /\ tests' = tests \ {c}
           /\ UNCHANGED <<stage, fs, total, todo, current, results>>
  <2>1. ResultsGood'
    BY <1>3, SameDisk DEF ArchiveInv, ResultsGood
  <2>2. todo' \cup tests' \cup results' \subseteq DOMAIN fs
    BY <1>3 DEF ArchiveInv, ArchiveTypeOK
  <2> QED  BY <1>3, <2>1, <2>2, ReadingKeeps DEF ArchiveInv, CutIsNoticed, RunTest, Busy
<1> QED  BY <1>2, <1>3 DEF RunTest

(* A problem that passed joins the results, well formed.                   *)
LEMMA PassedKeeps == ArchiveInv /\ ProblemPassed => ArchiveInv'
<1> SUFFICES ASSUME ArchiveInv, ProblemPassed PROVE ArchiveInv'
  OBVIOUS
<1>1. ResultsGood'
  BY SameDisk DEF ArchiveInv, ResultsGood, ProblemPassed
<1>2. todo' \cup tests' \cup results' \subseteq DOMAIN fs
  BY DEF ArchiveInv, ArchiveTypeOK, ProblemPassed, ResultsGood
<1> QED  BY <1>1, <1>2, ReadingKeeps DEF ArchiveInv, CutIsNoticed, ProblemPassed, Busy

-----------------------------------------------------------------------------
(* What MkdirAll makes.                                                    *)
LEMMA MkdirAllMakes ==
    ASSUME ArchiveInv, NEW p, Below(p)
    PROVE  /\ DOMAIN MkdirAll(p) = DOMAIN fs \cup Way(p)
           /\ \A q \in DOMAIN MkdirAll(p) :
                 /\ Below(q) /\ MkdirAll(p)[q] \in Node
                 /\ MkdirAll(p)[q] = (IF q \in DOMAIN fs THEN fs[q] ELSE Dir)
<1>1. /\ DOMAIN MkdirAll(p) = DOMAIN fs \cup Way(p)
      /\ \A q \in DOMAIN MkdirAll(p) : MkdirAll(p)[q] = (IF q \in DOMAIN fs THEN fs[q] ELSE Dir)
  BY DEF MkdirAll, Exists
<1>2. Dir \in Node
  BY DEF Dir, Node
<1>3. \A q \in DOMAIN fs : fs[q] \in Node
  BY DEF ArchiveInv, ArchiveTypeOK
<1>4. \A q \in DOMAIN fs : Below(q)
  <2> SUFFICES ASSUME NEW q \in DOMAIN fs PROVE Below(q)
    OBVIOUS
  <2>1. q \in Seq(Component) /\ q # <<>>
    BY DEF ArchiveInv, ArchiveTypeOK
  <2> QED  BY <2>1, BelowOrAbove DEF ArchiveInv, InsideRoot
<1>5. \A q \in Way(p) : Below(q)
  BY WayBelow
<1> QED  BY <1>1, <1>2, <1>3, <1>4, <1>5

(* Directories are made and nothing else changes on the disk.              *)
LEMMA MkdirAllKeeps ==
    ASSUME ArchiveInv, NEW p, Below(p), fs' = MkdirAll(p),
           stage \in {"idle", "extracting"}, stage' = "extracting",
           stage = "idle" => p = Root,
           UNCHANGED <<archive, total, todo, tests, results, failures>>
    PROVE  ArchiveInv'
<1>1. /\ DOMAIN fs' = DOMAIN fs \cup Way(p)
      /\ \A q \in DOMAIN fs' :
            /\ Below(q) /\ fs'[q] \in Node
            /\ fs'[q] = (IF q \in DOMAIN fs THEN fs[q] ELSE Dir)
  BY MkdirAllMakes
<1>2. \A q \in DOMAIN fs' : q \in Seq(Component) /\ q # <<>>
  BY <1>1 DEF Below, Paths
<1>3. ArchiveTypeOK'
  BY <1>1, <1>2 DEF ArchiveInv, ArchiveTypeOK, Busy
<1>4. InsideRoot'
  BY <1>1, <1>2, BelowOrAbove DEF InsideRoot
<1>5. RootThere' /\ RefusedCleansUp'
  <2>1. Root \in DOMAIN fs' /\ fs'[Root].kind = "dir"
    <3>1. CASE stage = "extracting"
      BY <1>1, <3>1 DEF ArchiveInv, RootThere, IsDir, Exists, Busy
    <3>2. CASE stage = "idle"
      <4>1. IsPrefix(Root, Root)
        BY RootType DEF IsPrefix
      <4>2. Root \in Way(p)
        BY <3>2, <4>1, RootType, WayToRoot
      <4>3. Root \in DOMAIN fs'
        BY <1>1, <4>2
      <4>4. Root \notin DOMAIN fs
        BY <3>2 DEF ArchiveInv, RootThere, Exists
      <4> QED  BY <1>1, <4>3, <4>4 DEF Dir
    <3> QED  BY <3>1, <3>2
  <2> QED  BY <1>1, <2>1 DEF ArchiveInv, RootThere, RefusedCleansUp, IsDir, Exists
<1>6. BytesCounted'
  <2>1. Bytes' = Bytes
    <3>1. \A q \in DOMAIN fs' : q \notin DOMAIN fs => fs'[q].size = 0
      BY <1>1 DEF Dir
    <3> QED  BY <1>1, <3>1 DEF Bytes
  <2> QED  BY <2>1 DEF ArchiveInv, BytesCounted
<1>7. CutIsNoticed'
  BY <1>1 DEF ArchiveInv, CutIsNoticed, Dir
<1>8. ResultsGood'
  BY DEF ArchiveInv, ResultsGood
<1> QED  BY <1>3, <1>4, <1>5, <1>6, <1>7, <1>8 DEF ArchiveInv

(* What io.Copy of the rest of the limit copies.                           *)
LEMMA CopiedIs ==
    ASSUME ArchiveInv, NEW e, Entry(e), total <= MaxExtractedBytes
    PROVE  /\ Copied(e) \in Nat /\ total + Copied(e) <= MaxExtractedBytes + 1
           /\ Copied(e) = e.size \/ total + Copied(e) = MaxExtractedBytes + 1
<1> DEFINE left == MaxExtractedBytes - total + 1
<1>1. e.size \in Nat /\ left \in Nat /\ total \in Nat /\ MaxExtractedBytes \in Nat
  BY ArchiveAssumption DEF ArchiveInv, ArchiveTypeOK, Entry
<1>2. PICK x \in {e.size, left} : \A y \in {e.size, left} : x <= y
  <2>1. e.size <= left \/ left <= e.size
    BY <1>1
  <2>2. e.size <= e.size /\ left <= left
    BY <1>1
  <2> HIDE DEF left
  <2> QED  BY <2>1, <2>2
<1>3. Min({e.size, left}) \in {e.size, left} /\ \A y \in {e.size, left} : Min({e.size, left}) <= y
  <2> HIDE DEF left
  <2> QED  BY <1>2 DEF Min
<1>4. Copied(e) \in {e.size, left} /\ Copied(e) <= left
  BY <1>3 DEF Copied
<1> QED  BY <1>1, <1>4

(* A file is written: its bytes are new or replace others, and the byte    *)
(* count grows by as many.                                                 *)
LEMMA ExtractFileKeeps ==
    ASSUME ArchiveInv, NEW e, Entry(e), stage = "extracting", total <= MaxExtractedBytes,
           ExtractFile(e), UNCHANGED <<archive, judged, failures>>
    PROVE  ArchiveInv'
<1> DEFINE p == safeTarget(e.name)
           n == Copied(e)
           file == [kind |-> "file", size |-> n, content |-> e.content, whole |-> n = e.size]
           m == MkdirAll(Front(p))
<1>1. p \in Seq(Component) /\ IsPrefix(Root, p)
  <2>1. e.name \in Seq(Component)
    <3>1. Names \subseteq Component
      BY DEF Component
    <3> QED  BY <3>1 DEF Entry
  <2> QED  BY <2>1, TargetInside DEF ExtractFile
<1> HIDE DEF p
<1>2. Below(p) /\ Len(p) >= 2
  BY <1>1, PrefixOfRoot
<1>3. p # Root
  BY DEF ArchiveInv, RootThere, Busy, ExtractFile, p
<1>4. Below(Front(p))
  <2>1. Front(p) \in Way(p)
    <3>1. Len(p) - 1 \in 1..Len(p)
      BY <1>1, <1>2
    <3> QED  BY <3>1, Zenon DEF Front, Way
  <2> QED  BY <1>2, <2>1, WayBelow
<1>5. /\ DOMAIN m = DOMAIN fs \cup Way(Front(p))
      /\ \A q \in DOMAIN m : /\ Below(q) /\ m[q] \in Node
                             /\ m[q] = (IF q \in DOMAIN fs THEN fs[q] ELSE Dir)
  BY <1>4, MkdirAllMakes
<1>6. /\ n \in Nat /\ total + n <= MaxExtractedBytes + 1
      /\ n = e.size \/ total + n = MaxExtractedBytes + 1
  BY CopiedIs
<1> HIDE DEF n
<1>7. file \in Node
  BY <1>6 DEF Node, Entry
<1>8. fs' = WithFile(m, p, file) /\ total' = total + n
  BY DEF ExtractFile, p, n
<1> HIDE DEF m, file
<1>9. /\ DOMAIN fs' = DOMAIN m \cup {p}
      /\ \A q \in DOMAIN fs' : fs'[q] = (IF q = p THEN file ELSE m[q])
  BY <1>8 DEF WithFile
<1>10. \A q \in DOMAIN fs' : Below(q) /\ fs'[q] \in Node
  BY <1>2, <1>5, <1>7, <1>9
<1>11. \A q \in DOMAIN fs' : q \in Seq(Component) /\ q # <<>>
  BY <1>10 DEF Below, Paths
<1>12. DOMAIN fs \subseteq DOMAIN fs'
  BY <1>5, <1>9
<1>13. UNCHANGED <<stage, todo, tests, results>>
  BY DEF ExtractFile
<1>14. total \in Nat /\ MaxExtractedBytes \in Nat
  BY ArchiveAssumption DEF ArchiveInv, ArchiveTypeOK
<1>15. ArchiveTypeOK'
  <2>1. total' \in 0..(MaxExtractedBytes + 1)
    BY <1>6, <1>8, <1>14
  <2> QED  BY <1>10, <1>11, <1>12, <1>13, <2>1 DEF ArchiveInv, ArchiveTypeOK
<1>16. InsideRoot'
  BY <1>10, <1>11, BelowOrAbove DEF InsideRoot
<1>17. \A q \in DOMAIN fs : q # p => fs'[q] = fs[q]
  BY <1>5, <1>9, <1>12
<1>18. RootThere' /\ RefusedCleansUp'
  <2>1. p # <<"tmp">>
    <3>1. Len(<<"tmp">>) = 1
      OBVIOUS
    <3>2. ASSUME p = <<"tmp">> PROVE FALSE
      <4>1. Len(p) = 1
        BY <3>1, <3>2, Zenon
      <4> HIDE <3>2
      <4> QED  BY <1>2, <4>1
    <3> QED  BY <3>2, Zenon
  <2> QED  BY <1>3, <1>12, <1>13, <1>17, <2>1
           DEF ArchiveInv, RootThere, RefusedCleansUp, IsDir, Exists, Busy
<1>19. BytesCounted'
  <2> DEFINE new == {p} \X (1..n)
  <2>1. Bytes' \subseteq Bytes \cup new
    <3>1. \A q \in DOMAIN fs' : q # p /\ q \notin DOMAIN fs => fs'[q].size = 0
      BY <1>5, <1>9 DEF Dir
    <3>2. p \in DOMAIN fs' /\ fs'[p].size = n
      BY <1>9 DEF file
    <3>3. ASSUME NEW q \in DOMAIN fs', NEW i \in 1..fs'[q].size
          PROVE  <<q, i>> \in Bytes \cup new
      <4>1. CASE q = p
        BY <3>2, <4>1
      <4>2. CASE q # p
        <5>1. q \in DOMAIN fs
          BY <3>1, <4>2
        <5>2. i \in 1..fs[q].size
          BY <1>17, <4>2, <5>1
        <5> QED  BY <5>1, <5>2 DEF Bytes
      <4> QED  BY <4>1, <4>2
    <3> HIDE DEF new
    <3> QED  BY <3>3 DEF Bytes
  <2>2. IsFiniteSet(new) /\ Cardinality(new) = n
    <3>1. IsFiniteSet(1..n) /\ Cardinality(1..n) = n
      BY <1>6, FS_Interval
    <3>2. IsFiniteSet({p}) /\ Cardinality({p}) = 1
      BY FS_Singleton
    <3>3. IsFiniteSet(new) /\ Cardinality(new) = 1 * n
      BY <3>1, <3>2, FS_Product
    <3> HIDE DEF new
    <3> QED  BY <1>6, <3>3
  <2> HIDE DEF new
  <2>3. IsFiniteSet(Bytes) /\ Cardinality(Bytes) <= total
    BY DEF ArchiveInv, BytesCounted
  <2>4. /\ IsFiniteSet(Bytes \cup new)
        /\ Cardinality(Bytes \cup new) <= Cardinality(Bytes) + Cardinality(new)
    <3>1. IsFiniteSet(Bytes \cap new)
      BY <2>2, FS_Subset
    <3>2. /\ Cardinality(Bytes) \in Nat /\ Cardinality(new) \in Nat
          /\ Cardinality(Bytes \cap new) \in Nat
      BY <2>2, <2>3, <3>1, FS_CardinalityType
    <3>3. /\ IsFiniteSet(Bytes \cup new)
          /\ Cardinality(Bytes \cup new)
                 = Cardinality(Bytes) + Cardinality(new) - Cardinality(Bytes \cap new)
      BY <2>2, <2>3, FS_Union
    <3> QED  BY <3>2, <3>3
  <2>5. IsFiniteSet(Bytes') /\ Cardinality(Bytes') <= Cardinality(Bytes \cup new)
    BY <2>1, <2>4, FS_Subset
  <2>6. /\ Cardinality(Bytes) \in Nat /\ Cardinality(Bytes') \in Nat
        /\ Cardinality(Bytes \cup new) \in Nat
    BY <2>3, <2>4, <2>5, FS_CardinalityType
  <2>7. Cardinality(Bytes') <= total'
    BY <1>6, <1>8, <1>14, <2>2, <2>3, <2>4, <2>5, <2>6
  <2> QED  BY <2>5, <2>7 DEF BytesCounted
<1>20. CutIsNoticed'
  <2>1. ASSUME total' <= MaxExtractedBytes, NEW q \in DOMAIN fs' PROVE fs'[q].whole
    <3>1. CASE q = p
      <4>1. n = e.size
        BY <1>6, <1>8, <1>14, <2>1
      <4>2. fs'[q] = file
        BY <1>9, <3>1
      <4>3. file.whole = (n = e.size)
        BY Zenon DEF file
      <4> QED  BY <4>1, <4>2, <4>3
    <3>2. CASE q # p
      <4>1. \A r \in DOMAIN fs : fs[r].whole
        BY DEF ArchiveInv, CutIsNoticed
      <4> QED  BY <1>5, <1>9, <3>2, <4>1 DEF Dir
    <3> QED  BY <3>1, <3>2
  <2> QED  BY <1>13, <2>1 DEF CutIsNoticed
<1>21. ResultsGood'
  BY <1>13 DEF ArchiveInv, ResultsGood
<1> QED  BY <1>15, <1>16, <1>18, <1>19, <1>20, <1>21 DEF ArchiveInv

(* One entry of the archive.                                               *)
LEMMA ExtractEntryKeeps ==
    ASSUME ArchiveInv, NEW e \in archive.entries, ExtractEntry(e) PROVE ArchiveInv'
<1>1. Entry(e)
  BY ArchiveAssumption DEF ArchiveInv, ArchiveTypeOK
<1>2. stage = "extracting" /\ total <= MaxExtractedBytes /\ UNCHANGED <<archive, judged, failures>>
  BY DEF ExtractEntry
<1>3. CASE ExtractDir(e)
  <2> DEFINE p == safeTarget(e.name)
  <2>1. e.name \in Seq(Component)
    <3>1. Names \subseteq Component
      BY DEF Component
    <3> QED  BY <1>1, <3>1 DEF Entry
  <2>2. p \in Seq(Component) /\ IsPrefix(Root, p)
    BY <1>3, <2>1, TargetInside DEF ExtractDir
  <2>3. Below(p)
    BY <2>2, PrefixOfRoot
  <2>4. fs' = MkdirAll(p) /\ UNCHANGED <<stage, total, todo, current, tests, results>>
    BY <1>3 DEF ExtractDir
  <2> HIDE DEF p
  <2> QED  BY <1>2, <2>3, <2>4, MkdirAllKeeps
<1>4. CASE ExtractFile(e)
  BY <1>1, <1>2, <1>4, ExtractFileKeeps
<1>5. CASE RefuseEntry(e)
  <2>1. failures' \in 0..MaxFailures
    BY <1>2 DEF ArchiveInv, ArchiveTypeOK
  <2> QED  BY <1>2, <1>5, <2>1, RefuseKeeps DEF RefuseEntry
<1> QED  BY <1>3, <1>4, <1>5 DEF ExtractEntry

(* The temporary directory is made.                                        *)
LEMMA OpenKeeps == ArchiveInv /\ Open => ArchiveInv'
<1> SUFFICES ASSUME ArchiveInv, Open PROVE ArchiveInv'
  OBVIOUS
<1>1. Below(Root)
  <2>1. IsPrefix(Root, Root)
    BY RootType DEF IsPrefix
  <2> QED  BY <2>1, RootType, PrefixOfRoot
<1> QED  BY <1>1, MkdirAllKeeps DEF Open

(* The invariant holds when the request arrives.                           *)
LEMMA ArchiveInvInit == ArchiveInit => ArchiveInv
<1> SUFFICES ASSUME ArchiveInit PROVE ArchiveInv
  OBVIOUS
<1> USE ArchiveAssumption DEF ArchiveInit
<1>1. DOMAIN fs = {<<"tmp">>} /\ fs[<<"tmp">>] = Dir
  OBVIOUS
<1>2. Dir \in Node /\ Dir.size = 0 /\ Dir.whole
  BY DEF Dir, Node
<1>3. ArchiveTypeOK
  <2>1. DOMAIN fs \subseteq Seq(Component) \ {<<>>} /\ \A p \in DOMAIN fs : fs[p] \in Node
    BY <1>1, <1>2, RootType DEF Paths
  <2> QED  BY <2>1 DEF ArchiveTypeOK
<1>4. InsideRoot /\ RefusedCleansUp
  BY <1>1 DEF InsideRoot, RefusedCleansUp
<1>5. RootThere
  <2>1. Root # <<"tmp">>
    <3>1. Len(<<"tmp">>) = 1
      OBVIOUS
    <3> QED  BY <3>1, RootType
  <2> QED  BY <1>1, <2>1 DEF RootThere, Exists, Busy
<1>6. BytesCounted
  <2>1. Bytes = {}
    BY <1>1, <1>2, NoBytes
  <2> QED  BY <2>1, FS_EmptySet DEF BytesCounted
<1>7. CutIsNoticed /\ ResultsGood
  BY <1>1, <1>2 DEF CutIsNoticed, ResultsGood
<1> QED  BY <1>3, <1>4, <1>5, <1>6, <1>7 DEF ArchiveInv

(* Every step of ValidateArchive keeps it.                                 *)
LEMMA ArchiveStep == ArchiveInv /\ [ArchiveNext]_archiveVars => ArchiveInv'
<1> SUFFICES ASSUME ArchiveInv, [ArchiveNext]_archiveVars PROVE ArchiveInv'
  OBVIOUS
<1>1. failures \in 0..MaxFailures
  BY DEF ArchiveInv, ArchiveTypeOK
<1>2. CASE RefuseUnread \/ TooLarge
  BY <1>1, <1>2, RefuseKeeps DEF RefuseUnread, TooLarge
<1>3. CASE Fail
  <2>1. failures' \in 0..MaxFailures
    BY <1>1, <1>3, ArchiveAssumption DEF Fail
  <2> QED  BY <1>3, <2>1, RefuseKeeps DEF Fail
<1>4. CASE Open \/ EndOfArchive \/ FindProblems \/ ProblemPassed
  BY <1>4, OpenKeeps, EndOfArchiveKeeps, FindProblemsKeeps, PassedKeeps
<1>5. ASSUME NEW e \in archive.entries, ExtractEntry(e) PROVE ArchiveInv'
  BY <1>5, ExtractEntryKeeps
<1>6. CASE UNCHANGED archiveVars
  <2> QED  BY <1>6, SameDisk DEF archiveVars, ArchiveInv, ArchiveTypeOK, RootThere, RefusedCleansUp,
                BytesCounted, CutIsNoticed, ResultsGood
<1>7. ASSUME NEW e \in archive.entries, SkipEntry(e) PROVE ArchiveInv'
  BY <1>6, <1>7 DEF SkipEntry, Skip
<1>8. ASSUME NEW d \in todo, Validate(d) PROVE ArchiveInv'
  BY <1>8, ValidateKeeps
<1>9. ASSUME NEW c \in tests, RunTest(c) PROVE ArchiveInv'
  BY <1>9, RunTestKeeps
<1> QED  BY <1>2, <1>3, <1>4, <1>5, <1>6, <1>7, <1>8, <1>9 DEF ArchiveNext

(* The invariant holds at every step of every upload, for all archives and *)
(* bounds.                                                                 *)
THEOREM ArchiveInductive == ArchiveSpec => []ArchiveInv
BY ArchiveInvInit, ArchiveStep, PTL DEF ArchiveSpec

(* The places, the tree and the byte count of ValidateArchive keep their   *)
(* types; what is still to be validated or was accepted is on the disk.    *)
THEOREM ArchiveTypeCorrect == ArchiveSpec => []ArchiveTypeOK
<1>1. ArchiveInv => ArchiveTypeOK
  BY DEF ArchiveInv
<1> QED  BY <1>1, ArchiveInductive, PTL

(* Whatever the entries of an archive are called and however large they    *)
(* are, extractEntry writes below the temporary directory only (safeTarget), *)
(* at most one byte more than MaxExtractedBytes, and no refusal leaves     *)
(* anything of it behind.                                                  *)
THEOREM ArchiveContained == ArchiveSpec => []Contained
<1>1. ArchiveInv => Contained
  <2> SUFFICES ASSUME ArchiveInv PROVE DiskBounded
    BY DEF ArchiveInv, Contained
  <2>1. Cardinality(Bytes) \in Nat /\ Cardinality(Bytes) <= total
    BY FS_CardinalityType DEF ArchiveInv, BytesCounted
  <2>2. total \in 0..(MaxExtractedBytes + 1) /\ MaxExtractedBytes \in Nat
    BY ArchiveAssumption DEF ArchiveInv, ArchiveTypeOK
  <2> QED  BY <2>1, <2>2 DEF DiskBounded
<1> QED  BY <1>1, ArchiveInductive, PTL

(* An archive that ValidateArchive accepts is on the disk in full, and     *)
(* loadProblemFromDir, which checks the same files in other words, loads   *)
(* every problem of it.                                                    *)
THEOREM ArchiveAcceptedUsable == ArchiveSpec => []AcceptedUsable
<1>1. ArchiveInv => AcceptedUsable
  <2> SUFFICES ASSUME ArchiveInv, stage = "accepted"
               PROVE  /\ \A p \in DOMAIN fs : fs[p].whole
                      /\ results # {} /\ \A d \in results : loadProblemFromDir(d)
    BY DEF AcceptedUsable, AcceptedWhole, AcceptedLoads
  <2>1. \A p \in DOMAIN fs : fs[p].whole
    BY DEF ArchiveInv, CutIsNoticed
  <2>2. ASSUME NEW d, WellFormed(d) PROVE loadProblemFromDir(d)
    <3>1. TestInputs(d) # {}
      <4>1. Cardinality(TestInputs(d)) \in 1..MaxTestCases
        BY <2>2 DEF WellFormed, loadAndValidateTestCases
      <4>2. Cardinality(TestInputs(d)) # 0
        BY <4>1, ArchiveAssumption
      <4> QED  BY <4>2, FS_EmptySet
    <3> QED  BY <2>2, <3>1 DEF WellFormed, loadProblemFromDir, validateManifest,
                               loadAndValidateTestCases
  <2> QED  BY <2>1, <2>2 DEF ArchiveInv, ResultsGood
<1> QED  BY <1>1, ArchiveInductive, PTL

-----------------------------------------------------------------------------
(* Texts and their lines.                                                  *)

Text == Seq(Characters)

(* A line holds no line end.                                               *)
Line == {w \in Text : \A k \in 1..Len(w) : w[k] # "nl"}
Lines == Seq(Line) \ {<<>>}

(* Line ends before a place of a text; the places of its i-th line.        *)
EndsBefore(s, p) == Cardinality({q \in 1..(p - 1) : s[q] = "nl"})
InLine(s, i) == {p \in DOMAIN s : s[p] # "nl" /\ EndsBefore(s, p) = i - 1}

(* The i-th line of s is w and starts at m.                                *)
LineAt(s, i, w, m) ==
    /\ m \in Nat \ {0}
    /\ InLine(s, i) = m..(m + Len(w) - 1)
    /\ \A k \in 1..Len(w) : s[m + k - 1] = w[k]

(* The lines of s are those of l, the last of them up to its end.          *)
Laid(s, l) ==
    /\ \A i \in 1..Len(l) : \E m : LineAt(s, i, l[i], m)
    /\ \A i \in Nat : i > Len(l) => InLine(s, i) = {}
    /\ LineAt(s, Len(l), l[Len(l)], Len(s) + 1 - Len(l[Len(l)]))
    /\ EndsBefore(s, Len(s) + 1) = Len(l) - 1

(* Lines are read where they are laid.                                     *)
LEMMA LineRead ==
    ASSUME NEW s \in Text, NEW i, NEW w \in Text, NEW m, LineAt(s, i, w, m)
    PROVE  LineOf(s, i) = w
<1>1. LineOf(s, i) = [k \in 1..Cardinality(InLine(s, i)) |-> s[Min(InLine(s, i)) + k - 1]]
  BY DEF LineOf, InLine, EndsBefore
<1>2. m \in Nat \ {0} /\ Len(w) \in Nat /\ InLine(s, i) = m..(m + Len(w) - 1)
  BY DEF LineAt, Text
<1>3. Cardinality(InLine(s, i)) = Len(w)
  <2> DEFINE n == m + Len(w) - 1
  <2>1. m \in Int /\ n \in Int /\ n - m + 1 = Len(w) /\ (m > n <=> Len(w) = 0)
    BY <1>2
  <2> HIDE DEF n
  <2>2. Cardinality(m..n) = IF m > n THEN 0 ELSE n - m + 1
    BY <2>1, FS_Interval
  <2>3. Cardinality(m..n) = Len(w)
    BY <1>2, <2>1, <2>2
  <2> QED  BY <1>2, <2>3 DEF n
<1>4. \A k \in 1..Len(w) : s[Min(InLine(s, i)) + k - 1] = w[k]
  <2> SUFFICES ASSUME NEW k \in 1..Len(w) PROVE s[Min(InLine(s, i)) + k - 1] = w[k]
    OBVIOUS
  <2>1. m \in InLine(s, i) /\ \A p \in InLine(s, i) : m <= p
    BY <1>2
  <2>2. \A p \in InLine(s, i) : p \in Nat
    BY <1>2
  <2>3. Min(InLine(s, i)) = m
    BY <2>1, <2>2 DEF Min
  <2> QED  BY <2>3 DEF LineAt
<1>5. w = [k \in 1..Len(w) |-> w[k]]
  BY DEF Text
<1> QED  BY <1>1, <1>3, <1>4, <1>5

(* Beyond the last line there are empty ones.                              *)
LEMMA NoLineRead ==
    ASSUME NEW s, NEW i, InLine(s, i) = {}
    PROVE  LineOf(s, i) = <<>>
<1>1. LineOf(s, i) = [k \in 1..Cardinality(InLine(s, i)) |-> s[Min(InLine(s, i)) + k - 1]]
  BY DEF LineOf, InLine, EndsBefore
<1>2. Cardinality(InLine(s, i)) = 0
  BY FS_EmptySet
<1> QED  BY <1>1, <1>2

(* A text that continues another one has its line ends, as far as it goes. *)
LEMMA EndsOfPrefix ==
    ASSUME NEW s \in Text, NEW t \in Text, Len(s) <= Len(t),
           \A q \in 1..Len(s) : t[q] = s[q]
    PROVE  /\ \A p \in 1..(Len(s) + 1) : EndsBefore(t, p) = EndsBefore(s, p)
           /\ \A i : InLine(s, i) = {p \in InLine(t, i) : p <= Len(s)}
<1>1. Len(s) \in Nat /\ Len(t) \in Nat /\ DOMAIN s = 1..Len(s) /\ DOMAIN t = 1..Len(t)
  BY DEF Text
<1>2. \A p \in 1..(Len(s) + 1) : EndsBefore(t, p) = EndsBefore(s, p)
  <2> SUFFICES ASSUME NEW p \in 1..(Len(s) + 1)
               PROVE  EndsBefore(t, p) = EndsBefore(s, p)
    OBVIOUS
  <2>1. \A q \in 1..(p - 1) : q \in 1..Len(s)
    BY <1>1
  <2>2. {q \in 1..(p - 1) : t[q] = "nl"} = {q \in 1..(p - 1) : s[q] = "nl"}
    BY <2>1
  <2> QED  BY <2>2 DEF EndsBefore
<1>3. ASSUME NEW i PROVE InLine(s, i) = {p \in InLine(t, i) : p <= Len(s)}
  <2>1. \A p \in 1..Len(s) : p \in 1..Len(t) /\ p \in 1..(Len(s) + 1)
    BY <1>1
  <2>2. \A p \in 1..Len(t) : p <= Len(s) => p \in 1..Len(s)
    BY <1>1
  <2> QED  BY <1>1, <1>2, <2>1, <2>2 DEF InLine
<1> QED  BY <1>2, <1>3

(* Line ends are counted, and there are no more than places.               *)
LEMMA EndsCounted ==
    ASSUME NEW s \in Text, NEW p \in Nat \ {0}
    PROVE  /\ IsFiniteSet({q \in 1..(p - 1) : s[q] = "nl"})
           /\ EndsBefore(s, p) \in Nat /\ EndsBefore(s, p) < p
<1> DEFINE ends == {q \in 1..(p - 1) : s[q] = "nl"}
<1>1. IsFiniteSet(1..(p - 1)) /\ Cardinality(1..(p - 1)) = p - 1
  <2>1. Cardinality(1..(p - 1)) = IF 1 > p - 1 THEN 0 ELSE (p - 1) - 1 + 1
    BY FS_Interval
  <2>2. IsFiniteSet(1..(p - 1))
    BY FS_Interval
  <2> QED  BY <2>1, <2>2
<1>2. ends \in SUBSET (1..(p - 1))
  OBVIOUS
<1> HIDE DEF ends
<1>3. IsFiniteSet(ends) /\ Cardinality(ends) <= p - 1
  BY <1>1, <1>2, FS_Subset
<1>4. Cardinality(ends) \in Nat
  BY <1>3, FS_CardinalityType
<1> QED  BY <1>3, <1>4 DEF ends, EndsBefore

(* A text of one line.                                                     *)
LEMMA OneLine == ASSUME NEW w \in Line PROVE Laid(w, <<w>>)
<1>1. w \in Text /\ Len(w) \in Nat /\ DOMAIN w = 1..Len(w) /\ \A k \in 1..Len(w) : w[k] # "nl"
  BY DEF Line, Text
<1>2. \A p \in 1..(Len(w) + 1) : EndsBefore(w, p) = 0
  <2> SUFFICES ASSUME NEW p \in 1..(Len(w) + 1) PROVE EndsBefore(w, p) = 0
    OBVIOUS
  <2>1. {q \in 1..(p - 1) : w[q] = "nl"} = {}
    <3>1. \A q \in 1..(p - 1) : q \in 1..Len(w)
      BY <1>1
    <3> QED  BY <1>1, <3>1
  <2> QED  BY <2>1, FS_EmptySet DEF EndsBefore
<1>3. \A p \in 1..Len(w) : p \in 1..(Len(w) + 1)
  BY <1>1
<1>4. \A i \in Nat : InLine(w, i) = IF i = 1 THEN 1..Len(w) ELSE {}
  BY <1>1, <1>2, <1>3 DEF InLine
<1>5. LineAt(w, 1, w, 1)
  BY <1>1, <1>4 DEF LineAt
<1>6. Len(<<w>>) = 1 /\ <<w>>[1] = w /\ Len(w) + 1 - Len(w) = 1
  BY <1>1
<1> QED  BY <1>1, <1>2, <1>4, <1>5, <1>6 DEF Laid

(* What is laid is what is between the line ends.                          *)
LEMMA LaidRead ==
    ASSUME NEW s \in Text, NEW l \in Lines, Laid(s, l), NEW i \in Nat \ {0}
    PROVE  LineOf(s, i) = IF i <= Len(l) THEN l[i] ELSE <<>>
<1>1. CASE i <= Len(l)
  <2>1. i \in 1..Len(l) /\ l[i] \in Text
    BY <1>1 DEF Lines, Line
  <2> QED  BY <1>1, <2>1, LineRead DEF Laid
<1>2. CASE ~(i <= Len(l))
  <2>1. i > Len(l)
    BY <1>2 DEF Lines
  <2> QED  BY <1>2, <2>1, NoLineRead DEF Laid
<1> QED  BY <1>1, <1>2

(* There are at most as many lines as characters, and one more.            *)
LEMMA LinesCounted ==
    ASSUME NEW s \in Text, NEW l \in Lines, Laid(s, l)
    PROVE  Len(l) <= Len(s) + 1
<1>1. Len(s) + 1 \in Nat \ {0} /\ Len(l) \in Nat
  BY DEF Text, Lines
<1>2. EndsBefore(s, Len(s) + 1) < Len(s) + 1
  BY <1>1, EndsCounted
<1> QED  BY <1>1, <1>2 DEF Laid

(* A character that is no line end makes the last line longer.             *)
LEMMA CharacterAdded ==
    ASSUME NEW s \in Text, NEW l \in Lines, Laid(s, l), NEW c \in Characters, c # "nl"
    PROVE  LET x == [l EXCEPT ![Len(l)] = Append(@, c)] IN
           x \in Lines /\ Laid(Append(s, c), x)
<1> DEFINE x == [l EXCEPT ![Len(l)] = Append(@, c)]
           t == Append(s, c)
           n == Len(l)
           w == l[n]
           v == Append(w, c)
           m == Len(s) + 1 - Len(w)
<1>1. /\ n \in Nat \ {0} /\ n \in 1..n /\ DOMAIN l = 1..n
      /\ \A i \in 1..n : l[i] \in Line
  BY DEF Lines
<1>2. w \in Line /\ w \in Text /\ w \in Seq(Characters) /\ Len(w) \in Nat
      /\ \A k \in 1..Len(w) : w[k] # "nl"
  BY <1>1 DEF Line, Text
<1>3. /\ Len(s) \in Nat /\ t \in Text /\ Len(t) = Len(s) + 1 /\ t[Len(s) + 1] = c
      /\ DOMAIN t = 1..(Len(s) + 1) /\ \A q \in 1..Len(s) : t[q] = s[q]
  BY DEF Text
<1> HIDE DEF w, n
<1>4. /\ v \in Seq(Characters) /\ Len(v) = Len(w) + 1 /\ v[Len(w) + 1] = c
      /\ \A k \in 1..Len(w) : v[k] = w[k]
  BY <1>2
<1> HIDE DEF v
<1>5. v \in Line
  <2>1. \A k \in 1..Len(v) : k \in 1..Len(w) \/ k = Len(w) + 1
    BY <1>2, <1>4
  <2>2. \A k \in 1..Len(v) : v[k] # "nl"
    BY <1>2, <1>4, <2>1
  <2> QED  BY <1>4, <2>2 DEF Line, Text
<1>6. x = [i \in 1..n |-> IF i = n THEN v ELSE l[i]]
  BY <1>1 DEF n, v, w
<1> HIDE DEF x, t
<1>7. x \in Lines /\ Len(x) = n /\ x[n] = v /\ \A i \in 1..n : i # n => x[i] = l[i]
  <2>1. x \in [1..n -> Line]
    BY <1>1, <1>5, <1>6
  <2>2. x \in Seq(Line) /\ Len(x) = n
    BY <1>1, <2>1
  <2>3. x # <<>>
    BY <1>1, <2>2
  <2> QED  BY <1>1, <1>6, <2>2, <2>3 DEF Lines
<1>8. /\ \A p \in 1..(Len(s) + 1) : EndsBefore(t, p) = EndsBefore(s, p)
      /\ \A i : InLine(s, i) = {p \in InLine(t, i) : p <= Len(s)}
  <2>1. Len(s) <= Len(t)
    BY <1>3
  <2> QED  BY <1>3, <2>1, EndsOfPrefix
<1>9. EndsBefore(t, Len(s) + 1) = n - 1
  <2>1. Len(s) + 1 \in 1..(Len(s) + 1)
    BY <1>3
  <2> QED  BY <1>8, <2>1 DEF Laid, n
<1>10. \A i \in Nat : InLine(t, i) = InLine(s, i) \cup (IF i = n THEN {Len(s) + 1} ELSE {})
  <2> SUFFICES ASSUME NEW i \in Nat
               PROVE  InLine(t, i) = InLine(s, i) \cup (IF i = n THEN {Len(s) + 1} ELSE {})
    OBVIOUS
  <2>1. \A p \in InLine(t, i) : p <= Len(s) \/ p = Len(s) + 1
    BY <1>3 DEF InLine
  <2>2. Len(s) + 1 \in InLine(t, i) <=> i = n
    BY <1>1, <1>3, <1>9 DEF InLine
  <2> QED  BY <1>8, <2>1, <2>2
<1>11. ASSUME NEW i \in 1..n, i # n PROVE \E a : LineAt(t, i, x[i], a)
  <2>1. PICK a : LineAt(s, i, l[i], a)
    BY <1>11 DEF Laid, n
  <2>2. InLine(t, i) = InLine(s, i) /\ x[i] = l[i] /\ l[i] \in Line
    <3>1. i \in Nat
      BY <1>1
    <3>2. InLine(t, i) = InLine(s, i)
      BY <1>10, <1>11, <3>1
    <3> QED  BY <1>1, <1>7, <1>11, <3>2
  <2>3. ASSUME NEW k \in 1..Len(l[i]) PROVE t[a + k - 1] = l[i][k]
    <3>1. a \in Nat /\ Len(l[i]) \in Nat
      BY <2>1, <2>2 DEF LineAt, Line, Text
    <3>2. a + k - 1 \in InLine(s, i)
      BY <2>1, <3>1 DEF LineAt
    <3>3. a + k - 1 \in 1..Len(s)
      BY <1>3, <3>2 DEF InLine, Text
    <3> QED  BY <1>3, <2>1, <3>3 DEF LineAt
  <2> QED  BY <2>1, <2>2, <2>3 DEF LineAt
<1>12. LineAt(s, n, w, m)
  BY DEF Laid, n, w
<1>13. LineAt(t, n, v, m)
  <2>1. m \in Nat \ {0} /\ m + Len(w) - 1 = Len(s) /\ m + Len(v) - 1 = Len(s) + 1
    BY <1>2, <1>3, <1>4, <1>12 DEF LineAt
  <2>2. InLine(t, n) = m..(Len(s) + 1)
    <3>1. InLine(t, n) = InLine(s, n) \cup {Len(s) + 1}
      BY <1>1, <1>10
    <3>2. InLine(s, n) = m..Len(s)
      BY <1>12, <2>1 DEF LineAt
    <3> QED  BY <1>3, <2>1, <3>1, <3>2
  <2>3. ASSUME NEW k \in 1..Len(v) PROVE t[m + k - 1] = v[k]
    <3>1. CASE k = Len(w) + 1
      BY <1>3, <1>4, <2>1, <3>1
    <3>2. CASE k # Len(w) + 1
      <4>1. k \in 1..Len(w)
        BY <1>2, <1>4, <3>2
      <4>2. m + k - 1 \in 1..Len(s)
        BY <1>2, <2>1, <4>1
      <4> QED  BY <1>3, <1>4, <1>12, <4>1, <4>2 DEF LineAt
    <3> QED  BY <3>1, <3>2
  <2> QED  BY <2>1, <2>2, <2>3 DEF LineAt
<1>14. m = Len(t) + 1 - Len(v)
  BY <1>2, <1>3, <1>4
<1>15. \A i \in Nat : i > n => InLine(t, i) = {}
  <2> SUFFICES ASSUME NEW i \in Nat, i > n PROVE InLine(t, i) = {}
    OBVIOUS
  <2>1. i # n
    BY <1>1
  <2>2. InLine(s, i) = {}
    BY DEF Laid, n
  <2> QED  BY <1>10, <2>1, <2>2
<1>16. EndsBefore(t, Len(t) + 1) = n - 1
  <2>1. {q \in 1..(Len(s) + 1) : t[q] = "nl"} = {q \in 1..Len(s) : t[q] = "nl"}
    BY <1>3
  <2>2. (Len(s) + 1) - 1 = Len(s) /\ (Len(t) + 1) - 1 = Len(s) + 1
    BY <1>3
  <2> QED  BY <1>9, <2>1, <2>2 DEF EndsBefore
<1> HIDE DEF m
<1>17. Laid(t, x)
  BY <1>1, <1>7, <1>11, <1>13, <1>14, <1>15, <1>16 DEF Laid
<1> QED  BY <1>7, <1>17 DEF x, t

(* A line end and a line of characters make one line more.                 *)
LEMMA LineAdded ==
    ASSUME NEW s \in Text, NEW l \in Lines, Laid(s, l), NEW v \in Line
    PROVE  /\ Append(l, v) \in Lines /\ s \o <<"nl">> \o v \in Text
           /\ Laid(s \o <<"nl">> \o v, Append(l, v))
<1> DEFINE x == Append(l, v)
           t == s \o <<"nl">> \o v
           n == Len(l)
           m == Len(s) + 2
<1>1. /\ n \in Nat \ {0} /\ n \in 1..n /\ DOMAIN l = 1..n
      /\ \A i \in 1..n : l[i] \in Line
  BY DEF Lines
<1>2. v \in Text /\ Len(v) \in Nat /\ \A k \in 1..Len(v) : v[k] # "nl"
  BY DEF Line, Text
<1>3. /\ Len(s) \in Nat /\ t \in Text /\ Len(t) = Len(s) + 1 + Len(v)
      /\ t[Len(s) + 1] = "nl" /\ DOMAIN t = 1..Len(t)
      /\ \A q \in 1..Len(s) : t[q] = s[q]
      /\ \A k \in 1..Len(v) : t[Len(s) + 1 + k] = v[k]
  <2>1. s \in Seq(Characters) /\ v \in Seq(Characters) /\ Len(s) \in Nat /\ Len(v) \in Nat
    BY <1>2 DEF Text
  <2> DEFINE u == s \o <<"nl">>
  <2> HIDE DEF u
  <2>2. /\ u \in Seq(Characters) /\ Len(u) = Len(s) + 1 /\ u[Len(s) + 1] = "nl"
        /\ \A q \in 1..Len(s) : u[q] = s[q]
    <3>1. "nl" \in Characters
      BY ArchiveAssumption
    <3> DEFINE e == <<"nl">>
    <3>2. e \in Seq(Characters) /\ Len(e) = 1 /\ e[1] = "nl"
      BY <3>1
    <3> HIDE DEF e
    <3>3. u = s \o e
      BY DEF e, u
    <3>4. /\ s \o e \in Seq(Characters) /\ Len(s \o e) = Len(s) + Len(e)
          /\ \A i \in 1..(Len(s) + Len(e)) :
                (s \o e)[i] = IF i <= Len(s) THEN s[i] ELSE e[i - Len(s)]
      BY <2>1, <3>2, ConcatProperties, Zenon
    <3>5. \A q \in 1..Len(s) : u[q] = s[q]
      BY <2>1, <3>2, <3>3, <3>4
    <3>6. u[Len(s) + 1] = e[1]
      <4>1. Len(s) + 1 \in 1..(Len(s) + Len(e)) /\ ~(Len(s) + 1 <= Len(s))
            /\ (Len(s) + 1) - Len(s) = 1
        BY <2>1, <3>2
      <4> QED  BY <3>3, <3>4, <4>1
    <3> QED  BY <3>2, <3>3, <3>4, <3>5, <3>6
  <2>3. /\ u \o v \in Seq(Characters) /\ Len(u \o v) = Len(u) + Len(v)
        /\ \A q \in 1..Len(u) : (u \o v)[q] = u[q]
        /\ \A k \in 1..Len(v) : (u \o v)[Len(u) + k] = v[k]
        /\ DOMAIN (u \o v) = 1..Len(u \o v)
    <3>1. u \in Seq(Characters) /\ v \in Seq(Characters)
      BY <2>1, <2>2
    <3> QED  BY <3>1
  <2>4. \A q \in 1..Len(s) : q \in 1..Len(u)
    BY <2>1, <2>2
  <2>5. Len(s) + 1 \in 1..Len(u)
    BY <2>1, <2>2
  <2>6. t = u \o v
    BY DEF u
  <2> HIDE DEF t
  <2> QED  BY <2>1, <2>2, <2>3, <2>4, <2>5, <2>6 DEF Text
<1> HIDE DEF t, x, n
<1>4. x \in Lines /\ Len(x) = n + 1 /\ x[n + 1] = v /\ \A i \in 1..n : x[i] = l[i]
  BY DEF x, n, Lines
<1>5. /\ \A p \in 1..(Len(s) + 1) : EndsBefore(t, p) = EndsBefore(s, p)
      /\ \A i : InLine(s, i) = {p \in InLine(t, i) : p <= Len(s)}
  <2>1. Len(s) <= Len(t)
    BY <1>2, <1>3
  <2> QED  BY <1>3, <2>1, EndsOfPrefix
<1>6. \A k \in 1..(Len(v) + 1) : EndsBefore(t, Len(s) + 1 + k) = n
  <2> SUFFICES ASSUME NEW k \in 1..(Len(v) + 1) PROVE EndsBefore(t, Len(s) + 1 + k) = n
    OBVIOUS
  <2> DEFINE before == {q \in 1..((Len(s) + 1) - 1) : t[q] = "nl"}
  <2>1. before = {q \in 1..Len(s) : t[q] = "nl"}
    BY <1>3
  <2>2. IsFiniteSet(before)
    BY <1>3, EndsCounted
  <2>3. Cardinality(before) = n - 1
    <3>1. Len(s) + 1 \in 1..(Len(s) + 1)
      BY <1>3
    <3> QED  BY <1>5, <3>1 DEF EndsBefore, Laid, n
  <2> HIDE DEF before
  <2>4. {q \in 1..((Len(s) + 1 + k) - 1) : t[q] = "nl"} = before \cup {Len(s) + 1}
    <3>1. \A q \in 1..((Len(s) + 1 + k) - 1) :
              q \in 1..Len(s) \/ q = Len(s) + 1 \/ \E j \in 1..Len(v) : q = Len(s) + 1 + j
      <4> SUFFICES ASSUME NEW q \in 1..((Len(s) + 1 + k) - 1), q > Len(s) + 1
                   PROVE  \E j \in 1..Len(v) : q = Len(s) + 1 + j
        <5>1. \A q \in 1..((Len(s) + 1 + k) - 1) :
                  q \in 1..Len(s) \/ q = Len(s) + 1 \/ q > Len(s) + 1
          BY <1>3
        <5> QED  BY <5>1
      <4>1. q - (Len(s) + 1) \in 1..Len(v) /\ q = Len(s) + 1 + (q - (Len(s) + 1))
        BY <1>2, <1>3
      <4> QED  BY <4>1
    <3>2. \A q \in 1..Len(s) : q \in 1..((Len(s) + 1 + k) - 1)
      BY <1>2, <1>3
    <3>3. Len(s) + 1 \in 1..((Len(s) + 1 + k) - 1)
      BY <1>2, <1>3
    <3>4. \A j \in 1..Len(v) : t[Len(s) + 1 + j] # "nl"
      BY <1>2, <1>3
    <3>5. t[Len(s) + 1] = "nl"
      BY <1>3
    <3> QED  BY <2>1, <3>1, <3>2, <3>3, <3>4, <3>5
  <2>5. Len(s) + 1 \notin before
    BY <1>3, <2>1
  <2>6. Cardinality(before \cup {Len(s) + 1}) = Cardinality(before) + 1
    BY <2>2, <2>5, FS_AddElement
  <2>7. n - 1 + 1 = n
    BY <1>1
  <2> QED  BY <2>3, <2>4, <2>6, <2>7 DEF EndsBefore
<1>7. \A p \in DOMAIN t :
          p \in 1..Len(s) \/ p = Len(s) + 1 \/ \E k \in 1..Len(v) : p = Len(s) + 1 + k
  <2> SUFFICES ASSUME NEW p \in 1..Len(t), p > Len(s) + 1
               PROVE  \E k \in 1..Len(v) : p = Len(s) + 1 + k
    BY <1>3
  <2>1. p - (Len(s) + 1) \in 1..Len(v) /\ p = Len(s) + 1 + (p - (Len(s) + 1))
    BY <1>2, <1>3
  <2> QED  BY <2>1
<1>8. \A i \in Nat : i # n + 1 => InLine(t, i) = InLine(s, i)
  <2> SUFFICES ASSUME NEW i \in Nat, i # n + 1, NEW p \in InLine(t, i) PROVE p <= Len(s)
    BY <1>5
  <2>1. t[p] # "nl" /\ p \in DOMAIN t /\ EndsBefore(t, p) = i - 1
    BY DEF InLine
  <2>2. ASSUME NEW k \in 1..Len(v), p = Len(s) + 1 + k PROVE FALSE
    <3>1. k \in 1..(Len(v) + 1)
      BY <1>2
    <3>2. EndsBefore(t, p) = n
      BY <1>6, <2>2, <3>1
    <3> QED  BY <1>1, <2>1, <3>2
  <2> QED  BY <1>3, <1>7, <2>1, <2>2
<1>9. InLine(t, n + 1) = m..(m + Len(v) - 1)
  <2>1. \A k \in 1..Len(v) : Len(s) + 1 + k \in InLine(t, n + 1)
    <3> SUFFICES ASSUME NEW k \in 1..Len(v) PROVE Len(s) + 1 + k \in InLine(t, n + 1)
      OBVIOUS
    <3>1. k \in 1..(Len(v) + 1) /\ Len(s) + 1 + k \in DOMAIN t
      BY <1>2, <1>3
    <3>2. EndsBefore(t, Len(s) + 1 + k) = (n + 1) - 1
      BY <1>1, <1>6, <3>1
    <3> QED  BY <1>2, <1>3, <3>1, <3>2 DEF InLine
  <2>2. \A p \in m..(m + Len(v) - 1) : \E k \in 1..Len(v) : p = Len(s) + 1 + k
    <3> SUFFICES ASSUME NEW p \in m..(m + Len(v) - 1)
                 PROVE  \E k \in 1..Len(v) : p = Len(s) + 1 + k
      OBVIOUS
    <3>1. p - (Len(s) + 1) \in 1..Len(v) /\ p = Len(s) + 1 + (p - (Len(s) + 1))
      BY <1>2, <1>3
    <3> QED  BY <3>1
  <2>3. ASSUME NEW p \in InLine(t, n + 1) PROVE p \in m..(m + Len(v) - 1)
    <3>1. t[p] # "nl" /\ p \in DOMAIN t
      BY <2>3 DEF InLine
    <3>2. ~(p <= Len(s))
      <4>1. n + 1 \in Nat /\ n + 1 > n
        BY <1>1
      <4>2. InLine(s, n + 1) = {}
        BY <4>1 DEF Laid, n
      <4> QED  BY <1>5, <2>3, <4>2
    <3>3. PICK k \in 1..Len(v) : p = Len(s) + 1 + k
      BY <1>3, <1>7, <3>1, <3>2
    <3> QED  BY <1>2, <1>3, <3>3
  <2> QED  BY <2>1, <2>2, <2>3
<1>10. LineAt(t, n + 1, v, m) /\ m = Len(t) + 1 - Len(v)
  <2>1. \A k \in 1..Len(v) : m + k - 1 = Len(s) + 1 + k
    BY <1>3
  <2>2. m \in Nat \ {0} /\ m = Len(t) + 1 - Len(v)
    BY <1>2, <1>3
  <2> QED  BY <1>3, <1>9, <2>1, <2>2 DEF LineAt
<1> HIDE DEF m
<1>11. ASSUME NEW i \in 1..n PROVE \E a : LineAt(t, i, x[i], a)
  <2>1. PICK a : LineAt(s, i, l[i], a)
    BY DEF Laid, n
  <2>2. InLine(t, i) = InLine(s, i) /\ x[i] = l[i] /\ l[i] \in Line
    <3>1. i \in Nat /\ i # n + 1
      BY <1>1
    <3> QED  BY <1>1, <1>4, <1>8, <3>1
  <2>3. ASSUME NEW k \in 1..Len(l[i]) PROVE t[a + k - 1] = l[i][k]
    <3>1. a \in Nat /\ Len(l[i]) \in Nat
      BY <2>1, <2>2 DEF LineAt, Line, Text
    <3>2. a + k - 1 \in InLine(s, i)
      BY <2>1, <3>1 DEF LineAt
    <3>3. a + k - 1 \in 1..Len(s)
      BY <1>3, <3>2 DEF InLine, Text
    <3> QED  BY <1>3, <2>1, <3>3 DEF LineAt
  <2> QED  BY <2>1, <2>2, <2>3 DEF LineAt
<1>12. \A i \in 1..(n + 1) : \E a : LineAt(t, i, x[i], a)
  <2>1. \A i \in 1..(n + 1) : i \in 1..n \/ i = n + 1
    BY <1>1
  <2> QED  BY <1>4, <1>10, <1>11, <2>1
<1>13. \A i \in Nat : i > n + 1 => InLine(t, i) = {}
  <2> SUFFICES ASSUME NEW i \in Nat, i > n + 1 PROVE InLine(t, i) = {}
    OBVIOUS
  <2>1. i # n + 1 /\ i > n
    BY <1>1
  <2> QED  BY <1>8, <2>1 DEF Laid, n
<1>14. EndsBefore(t, Len(t) + 1) = (n + 1) - 1
  <2>1. Len(t) + 1 = Len(s) + 1 + (Len(v) + 1) /\ Len(v) + 1 \in 1..(Len(v) + 1)
    BY <1>2, <1>3
  <2>2. EndsBefore(t, Len(t) + 1) = n
    BY <1>6, <2>1
  <2> QED  BY <1>1, <2>2
<1>15. Laid(t, x)
  BY <1>4, <1>10, <1>12, <1>13, <1>14 DEF Laid
<1> QED  BY <1>3, <1>4, <1>15 DEF x, t

(* strings.Split makes lines of lines.                                     *)
LEMMA SplitStepType ==
    ASSUME NEW l \in Lines, NEW c \in Characters
    PROVE  SplitStep(l, c) \in Lines
<1>1. /\ l \in Seq(Line) /\ Len(l) \in Nat /\ DOMAIN l = 1..Len(l)
      /\ Len(l) \in 1..Len(l) /\ l[Len(l)] \in Line /\ l = [i \in 1..Len(l) |-> l[i]]
  BY DEF Lines
<1>2. CASE c = "nl"
  <2>1. <<>> \in Line
    BY DEF Line, Text
  <2>2. Append(l, <<>>) \in Seq(Line) /\ Append(l, <<>>) # <<>>
    BY <1>1, <2>1
  <2> QED  BY <1>2, <2>2 DEF SplitStep, Lines
<1>3. CASE c # "nl"
  <2> DEFINE w == l[Len(l)]
             v == Append(w, c)
  <2>1. w \in Seq(Characters) /\ Len(w) \in Nat /\ \A k \in 1..Len(w) : w[k] # "nl"
    BY <1>1 DEF Line, Text
  <2> HIDE DEF w
  <2>2. v \in Seq(Characters) /\ \A k \in 1..Len(v) : v[k] # "nl"
    BY <1>3, <2>1
  <2>3. v \in Line
    BY <2>2 DEF Line, Text
  <2> DEFINE x == [l EXCEPT ![Len(l)] = v]
  <2> HIDE DEF v
  <2>4. x \in [1..Len(l) -> Line]
    BY <1>1, <2>3
  <2>5. x \in Seq(Line) /\ Len(x) = Len(l)
    BY <1>1, <2>4
  <2>6. x # <<>>
    BY <1>1, <2>5
  <2>7. SplitStep(l, c) = x
    BY <1>3 DEF SplitStep, v, w
  <2> QED  BY <2>5, <2>6, <2>7 DEF Lines
<1> QED  BY <1>2, <1>3

(* The parts strings.Split makes are the lines of the text.                *)
LEMMA SplitLaid ==
    ASSUME NEW s \in Text
    PROVE  Split(s) \in Lines /\ Laid(s, Split(s))
<1> DEFINE one == << <<>> >>
           Def(c) == [n \in 0..Len(s) |->
                        IF n = 0 THEN one ELSE SplitStep(c[n - 1], s[n])]
           F == [n \in 1..Len(s) |-> [l \in Lines |-> SplitStep(l, s[n])]]
           split == CHOOSE c : c = Def(c)
<1>1. /\ Len(s) \in Nat /\ \A n \in 1..Len(s) : s[n] \in Characters
      /\ s \in Seq(Characters)
  BY DEF Text
<1>2. F \in [1..Len(s) -> [Lines -> Lines]]
  BY <1>1, SplitStepType
<1>3. <<>> \in Line /\ one \in Lines
  <2>1. <<>> \in Line
    BY DEF Line, Text
  <2> QED  BY <2>1 DEF Lines
<1>4. PICK g \in [0..Len(s) -> Lines] : Steps(g, one, F, Len(s))
  <2> HIDE DEF F, one
  <2> QED  BY <1>1, <1>2, <1>3, StepsExist
<1>5. g = Def(g)
  <2>1. \A n \in 1..Len(s) : g[n] = SplitStep(g[n - 1], s[n])
    <3> SUFFICES ASSUME NEW n \in 1..Len(s) PROVE g[n] = SplitStep(g[n - 1], s[n])
      OBVIOUS
    <3>1. g[n - 1] \in Lines
      BY <1>1
    <3>2. F[n][g[n - 1]] = SplitStep(g[n - 1], s[n])
      BY <3>1
    <3>3. g[n] = F[n][g[n - 1]]
      BY <1>4 DEF Steps
    <3> QED  BY <3>2, <3>3
  <2>2. g[0] = one
    <3> HIDE DEF F, one
    <3> QED  BY <1>4 DEF Steps
  <2> HIDE DEF one
  <2> QED  BY <1>1, <2>1, <2>2
<1>6. split = Def(split)
  <2> HIDE DEF Def
  <2> QED  BY <1>5, Zenon
<1>7. Split(s) = split[Len(s)]
  BY Zenon DEF Split
<1> HIDE DEF split
<1>8. /\ split[0] = one
      /\ \A n \in 1..Len(s) : split[n] = SplitStep(split[n - 1], s[n])
  <2> HIDE DEF one
  <2> QED  BY <1>1, <1>6
<1> DEFINE Part(n) == SubSeq(s, 1, n)
           P == {n \in 0..Len(s) : split[n] \in Lines /\ Laid(Part(n), split[n])}
<1>9. /\ \A n \in 0..Len(s) : Part(n) \in Text
      /\ Part(0) = <<>> /\ Part(Len(s)) = s
      /\ \A n \in 1..Len(s) : Part(n) = Append(Part(n - 1), s[n])
  BY <1>1 DEF Text
<1> HIDE DEF Part
<1>10. 0 \in P
  <2>1. Laid(<<>>, << <<>> >>)
    BY <1>3, OneLine
  <2>2. 0 \in 0..Len(s)
    BY <1>1
  <2> QED  BY <1>3, <1>8, <1>9, <2>1, <2>2
<1>11. ASSUME NEW n \in 1..Len(s), n - 1 \in P PROVE n \in P
  <2> DEFINE l == split[n - 1]
             t == Part(n - 1)
             c == s[n]
  <2>1. l \in Lines /\ Laid(t, l) /\ n - 1 \in 0..Len(s) /\ n \in 0..Len(s)
    BY <1>1, <1>11
  <2>2. t \in Text /\ c \in Characters /\ Part(n) = Append(t, c) /\ split[n] = SplitStep(l, c)
    BY <1>1, <1>8, <1>9, <2>1
  <2> HIDE DEF l, t, c
  <2>3. CASE c = "nl"
    <3>1. SplitStep(l, c) = Append(l, <<>>)
      BY <2>3 DEF SplitStep
    <3>2. t \o <<"nl">> \o <<>> = Append(t, c)
      <4>1. "nl" \in Characters
        BY ArchiveAssumption
      <4>2. t \in Seq(Characters)
        BY <2>2 DEF Text
      <4>3. <<"nl">> \in Seq(Characters)
        BY <4>1
      <4>4. t \o <<"nl">> \in Seq(Characters)
        BY <4>2, <4>3, ConcatProperties, Zenon
      <4>5. (t \o <<"nl">>) \o <<>> = t \o <<"nl">>
        BY <4>4, ConcatEmptySeq, Zenon
      <4>6. t \o <<"nl">> = Append(t, "nl")
        BY <4>1, <4>2, AppendIsConcat
      <4> QED  BY <2>3, <4>5, <4>6
    <3>3. /\ Append(l, <<>>) \in Lines
          /\ Laid(t \o <<"nl">> \o <<>>, Append(l, <<>>))
      BY <1>3, <2>1, <2>2, LineAdded
    <3> QED  BY <2>1, <2>2, <3>1, <3>2, <3>3
  <2>4. CASE c # "nl"
    <3>1. SplitStep(l, c) = [l EXCEPT ![Len(l)] = Append(@, c)]
      BY <2>4 DEF SplitStep
    <3>2. /\ [l EXCEPT ![Len(l)] = Append(@, c)] \in Lines
          /\ Laid(Append(t, c), [l EXCEPT ![Len(l)] = Append(@, c)])
      BY <2>1, <2>2, <2>4, CharacterAdded
    <3> QED  BY <2>1, <2>2, <3>1, <3>2
  <2> QED  BY <2>3, <2>4
<1>12. \A n \in 0..Len(s) : n \in P
  <2> HIDE DEF P
  <2> QED  BY <1>1, <1>10, <1>11, InductionTo
<1>13. Len(s) \in P
  <2>1. Len(s) \in 0..Len(s)
    BY <1>1
  <2> HIDE DEF P
  <2> QED  BY <1>12, <2>1
<1> QED  BY <1>7, <1>9, <1>13

(* What strings.Join computes, step by step.                               *)
LEMMA JoinSteps ==
    ASSUME NEW l \in Lines
    PROVE  \E g \in [0..(Len(l) - 1) -> Text] :
              /\ g[0] = l[1]
              /\ \A n \in 1..(Len(l) - 1) : g[n] = g[n - 1] \o <<"nl">> \o l[n + 1]
              /\ JoinLines(l) = g[Len(l) - 1]
<1> DEFINE last == Len(l) - 1
           Def(c) == [n \in 0..(Len(l) - 1) |->
                        IF n = 0 THEN l[1] ELSE c[n - 1] \o <<"nl">> \o l[n + 1]]
           F == [n \in 1..last |-> [t \in Text |-> t \o <<"nl">> \o l[n + 1]]]
           joined == CHOOSE c : c = Def(c)
<1>1. last \in Nat /\ l[1] \in Text /\ \A n \in 1..last : l[n + 1] \in Text
  BY DEF Lines, Line
<1>2. \A t, w \in Text : t \o <<"nl">> \o w \in Text
  <2> SUFFICES ASSUME NEW t \in Text, NEW w \in Text PROVE t \o <<"nl">> \o w \in Text
    OBVIOUS
  <2>1. <<"nl">> \in Seq(Characters)
    <3>1. "nl" \in Characters
      BY ArchiveAssumption
    <3> QED  BY <3>1
  <2>2. t \o <<"nl">> \in Seq(Characters)
    BY <2>1, ConcatProperties, Zenon DEF Text
  <2> QED  BY <2>2, ConcatProperties, Zenon DEF Text
<1>3. F \in [1..last -> [Text -> Text]]
  <2> HIDE DEF last
  <2> QED  BY <1>1, <1>2
<1>4. PICK g \in [0..last -> Text] : Steps(g, l[1], F, last)
  <2> HIDE DEF F, last
  <2> QED  BY <1>1, <1>3, StepsExist
<1>5. \A n \in 1..last : g[n] = g[n - 1] \o <<"nl">> \o l[n + 1]
  <2> SUFFICES ASSUME NEW n \in 1..last PROVE g[n] = g[n - 1] \o <<"nl">> \o l[n + 1]
    OBVIOUS
  <2>1. g[n - 1] \in Text
    <3> HIDE DEF last
    <3> QED  BY <1>1
  <2>2. F[n][g[n - 1]] = g[n - 1] \o <<"nl">> \o l[n + 1]
    <3> HIDE DEF last
    <3> QED  BY <2>1
  <2>3. g[n] = F[n][g[n - 1]]
    <3> HIDE DEF F, last
    <3> QED  BY <1>4 DEF Steps
  <2> QED  BY <2>2, <2>3
<1>6. g[0] = l[1]
  <2> HIDE DEF F
  <2> QED  BY <1>4 DEF Steps
<1>7. g = Def(g)
  BY <1>1, <1>5, <1>6
<1>8. joined = Def(joined)
  <2> HIDE DEF Def
  <2> QED  BY <1>7, Zenon
<1>9. JoinLines(l) = joined[Len(l) - 1]
  BY Zenon DEF JoinLines
<1> HIDE DEF joined
<1>10. joined = g
  <2> DEFINE P == {n \in 0..last : joined[n] = g[n]}
  <2> HIDE DEF last
  <2>1. 0 \in P
    BY <1>1, <1>6, <1>8 DEF last
  <2>2. ASSUME NEW n \in 1..last, n - 1 \in P PROVE n \in P
    <3>1. joined[n] = joined[n - 1] \o <<"nl">> \o l[n + 1]
      <4>1. n \in 0..last /\ n # 0
        BY <1>1
      <4>2. joined[n] = Def(joined)[n]
        BY <1>8
      <4> QED  BY <4>1, <4>2 DEF last
    <3>2. g[n] = g[n - 1] \o <<"nl">> \o l[n + 1]
      BY <1>5
    <3>3. n \in 0..last
      BY <1>1
    <3> QED  BY <2>2, <3>1, <3>2, <3>3
  <2>3. \A n \in 0..last : n \in P
    <3> HIDE DEF P
    <3> QED  BY <1>1, <2>1, <2>2, InductionTo
  <2>4. joined = [n \in 0..last |-> joined[n]]
    BY <1>8 DEF last
  <2> QED  BY <2>3, <2>4
<1> QED  BY <1>5, <1>6, <1>9, <1>10

(* The lines of joined lines are those lines.                              *)
LEMMA JoinLaid ==
    ASSUME NEW l \in Lines
    PROVE  JoinLines(l) \in Text /\ Laid(JoinLines(l), l)
<1> DEFINE last == Len(l) - 1
           Part(n) == SubSeq(l, 1, n + 1)
<1>1. PICK g \in [0..last -> Text] :
              /\ g[0] = l[1]
              /\ \A n \in 1..last : g[n] = g[n - 1] \o <<"nl">> \o l[n + 1]
              /\ JoinLines(l) = g[last]
  BY JoinSteps
<1>2. /\ last \in Nat /\ l \in Seq(Line) /\ l[1] \in Line
      /\ \A n \in 1..last : l[n + 1] \in Line
  BY DEF Lines
<1>3. /\ \A n \in 0..last : Part(n) \in Lines
      /\ Part(0) = <<l[1]>> /\ Part(last) = l
      /\ \A n \in 1..last : Part(n) = Append(Part(n - 1), l[n + 1])
  BY <1>2 DEF Lines
<1> HIDE DEF last, Part
<1> DEFINE P == {n \in 0..last : Laid(g[n], Part(n))}
<1>4. 0 \in P
  BY <1>1, <1>2, <1>3, OneLine
<1>5. ASSUME NEW n \in 1..last, n - 1 \in P PROVE n \in P
  <2>1. n - 1 \in 0..last /\ n \in 0..last
    BY <1>2
  <2>2. Laid(g[n - 1], Part(n - 1)) /\ g[n - 1] \in Text /\ Part(n - 1) \in Lines
    BY <1>3, <1>5, <2>1
  <2>3. Laid(g[n - 1] \o <<"nl">> \o l[n + 1], Append(Part(n - 1), l[n + 1]))
    BY <1>2, <2>2, LineAdded
  <2> QED  BY <1>1, <1>3, <2>1, <2>3
<1>6. \A n \in 0..last : n \in P
  <2> HIDE DEF P
  <2> QED  BY <1>2, <1>4, <1>5, InductionTo
<1>7. last \in 0..last
  BY <1>2
<1> QED  BY <1>1, <1>3, <1>6, <1>7

(* Where strings.TrimRight cuts.                                           *)
CutAt(s, cutset, n) ==
    /\ n \in 0..Len(s)
    /\ n # 0 => s[n] \notin cutset
    /\ \A k \in (n + 1)..Len(s) : s[k] \in cutset

(* It cuts there, ...                                                      *)
LEMMA TrimRightIs ==
    ASSUME NEW s \in Text, NEW cutset, NEW n, CutAt(s, cutset, n)
    PROVE  TrimRight(s, cutset) = SubSeq(s, 1, n)
<1> DEFINE kept == {0} \cup {i \in DOMAIN s : s[i] \notin cutset}
<1>1. Len(s) \in Nat /\ DOMAIN s = 1..Len(s) /\ n \in 0..Len(s)
  BY DEF Text, CutAt
<1>2. n \in kept
  BY <1>1 DEF CutAt
<1>3. \A i \in kept : i \in Nat /\ i <= n
  BY <1>1 DEF CutAt
<1> HIDE DEF kept
<1>4. Max(kept) = n
  <2>1. \A y \in kept : n >= y
    BY <1>1, <1>2, <1>3
  <2>2. Max(kept) \in kept /\ \A y \in kept : Max(kept) >= y
    BY <1>2, <2>1 DEF Max
  <2>3. Max(kept) \in Nat /\ Max(kept) <= n /\ Max(kept) >= n
    BY <1>2, <1>3, <2>2
  <2> QED  BY <1>1, <2>3
<1> QED  BY <1>4 DEF TrimRight, kept

(* ... and there is such a place.                                          *)
LEMMA TrimRightCuts ==
    ASSUME NEW s \in Text, NEW cutset
    PROVE  \E n \in 0..Len(s) : /\ CutAt(s, cutset, n)
                                /\ TrimRight(s, cutset) = SubSeq(s, 1, n)
<1> DEFINE cuts == {d \in 0..Len(s) : d = Len(s) \/ s[Len(s) - d] \notin cutset}
<1>1. Len(s) \in Nat
  BY DEF Text
<1>2. cuts \in SUBSET Nat /\ Len(s) \in cuts
  BY <1>1
<1>3. PICK d \in cuts : \A e \in cuts : d <= e
  <2> HIDE DEF cuts
  <2> QED  BY <1>2, LeastMember
<1> DEFINE n == Len(s) - d
<1>4. d \in 0..Len(s) /\ n \in 0..Len(s)
  BY <1>1
<1>5. n # 0 => s[n] \notin cutset
  BY <1>1, <1>4
<1>6. ASSUME NEW k \in (n + 1)..Len(s) PROVE s[k] \in cutset
  <2>1. Len(s) - k \in 0..Len(s) /\ ~(d <= Len(s) - k) /\ Len(s) - (Len(s) - k) = k
    BY <1>1, <1>4
  <2>2. Len(s) - k \notin cuts
    <3> HIDE DEF cuts
    <3> QED  BY <1>3, <2>1
  <2> QED  BY <2>1, <2>2
<1> HIDE DEF cuts, n
<1>7. CutAt(s, cutset, n)
  BY <1>4, <1>5, <1>6 DEF CutAt
<1> QED  BY <1>4, <1>7, TrimRightIs

(* What is left is a text, a line of a line.                               *)
LEMMA TrimRightType ==
    ASSUME NEW s \in Text, NEW cutset
    PROVE  TrimRight(s, cutset) \in Text /\ (s \in Line => TrimRight(s, cutset) \in Line)
<1>1. PICK n \in 0..Len(s) : TrimRight(s, cutset) = SubSeq(s, 1, n)
  BY TrimRightCuts
<1> DEFINE t == SubSeq(s, 1, n)
<1>2. /\ Len(s) \in Nat /\ t \in Seq(Characters) /\ Len(t) = n
      /\ \A k \in 1..n : t[k] = s[k] /\ k \in 1..Len(s)
  BY DEF Text
<1> HIDE DEF t
<1>3. s \in Line => \A k \in 1..Len(t) : t[k] # "nl"
  BY <1>2 DEF Line
<1> QED  BY <1>1, <1>2, <1>3 DEF t, Text, Line

(* Trimming a line beyond trimming changes nothing.                        *)
LEMMA TrimRightEmpty == ASSUME NEW cutset PROVE TrimRight(<<>>, cutset) = <<>>
<1>1. <<>> \in Text /\ Len(<<>>) = 0 /\ SubSeq(<<>>, 1, 0) = <<>>
  BY DEF Text
<1>2. PICK n \in 0..Len(<<>>) : TrimRight(<<>>, cutset) = SubSeq(<<>>, 1, n)
  BY <1>1, TrimRightCuts
<1> QED  BY <1>1, <1>2

(* The empty lines at the end of a text are read even when they are gone.  *)
LEMMA TrimmedEndsRead ==
    ASSUME NEW s \in Text, NEW l \in Lines, Laid(s, l), NEW i \in Nat \ {0}
    PROVE  LineOf(TrimRight(s, {"nl"}), i) = IF i <= Len(l) THEN l[i] ELSE <<>>
<1>1. PICK n \in 0..Len(s) : /\ CutAt(s, {"nl"}, n)
                             /\ TrimRight(s, {"nl"}) = SubSeq(s, 1, n)
  BY TrimRightCuts
<1> DEFINE t == SubSeq(s, 1, n)
<1>2. /\ Len(s) \in Nat /\ t \in Text /\ Len(t) = n /\ Len(t) <= Len(s)
      /\ \A q \in 1..Len(t) : s[q] = t[q]
      /\ DOMAIN s = 1..Len(s)
  BY DEF Text
<1> HIDE DEF t
<1>3. \A j : InLine(t, j) = {p \in InLine(s, j) : p <= Len(t)}
  BY <1>2, EndsOfPrefix
<1>4. InLine(t, i) = InLine(s, i)
  <2> SUFFICES ASSUME NEW p \in InLine(s, i) PROVE p <= n
    BY <1>2, <1>3
  <2>1. p \in 1..Len(s) /\ s[p] # "nl"
    BY <1>2 DEF InLine
  <2>2. p \notin (n + 1)..Len(s)
    BY <1>1, <2>1 DEF CutAt
  <2> QED  BY <1>2, <2>1, <2>2
<1>5. CASE i <= Len(l)
  <2>1. i \in 1..Len(l) /\ l[i] \in Text
    BY <1>5 DEF Lines, Line
  <2>2. PICK m : LineAt(s, i, l[i], m)
    BY <2>1 DEF Laid
  <2>3. ASSUME NEW k \in 1..Len(l[i]) PROVE t[m + k - 1] = l[i][k]
    <3>1. m \in Nat /\ Len(l[i]) \in Nat
      BY <2>1, <2>2 DEF LineAt, Text
    <3>2. m + k - 1 \in InLine(t, i)
      BY <1>4, <2>2, <3>1 DEF LineAt
    <3>3. m + k - 1 \in 1..Len(t)
      <4>1. DOMAIN t = 1..Len(t)
        BY <1>2 DEF Text
      <4> QED  BY <3>2, <4>1 DEF InLine
    <3> QED  BY <1>2, <2>2, <3>3 DEF LineAt
  <2>4. LineAt(t, i, l[i], m)
    BY <1>4, <2>2, <2>3 DEF LineAt
  <2>5. LineOf(t, i) = l[i]
    BY <1>2, <2>1, <2>4, LineRead
  <2> QED  BY <1>1, <1>5, <2>5 DEF t
<1>6. CASE ~(i <= Len(l))
  <2>1. i > Len(l)
    BY <1>6 DEF Lines
  <2>2. InLine(t, i) = {}
    BY <1>4, <2>1 DEF Laid
  <2>3. LineOf(t, i) = <<>>
    BY <2>2, NoLineRead
  <2> QED  BY <1>1, <1>6, <2>3 DEF t
<1> QED  BY <1>5, <1>6

(* The lines NormalizeOutput leaves: those of the text without the blanks  *)
(* at their ends.                                                          *)
Trimmed(l) == [i \in DOMAIN l |-> TrimRight(l[i], {"sp"})]

LEMMA TrimmedType ==
    ASSUME NEW l \in Lines
    PROVE  Trimmed(l) \in Lines /\ Len(Trimmed(l)) = Len(l)
<1>1. l \in Seq(Line) /\ Len(l) \in Nat \ {0} /\ DOMAIN l = 1..Len(l)
      /\ \A i \in 1..Len(l) : l[i] \in Line
  BY DEF Lines
<1>2. \A i \in 1..Len(l) : TrimRight(l[i], {"sp"}) \in Line
  BY <1>1, TrimRightType DEF Line
<1>3. Trimmed(l) \in [1..Len(l) -> Line]
  BY <1>1, <1>2 DEF Trimmed
<1>4. Trimmed(l) \in Seq(Line) /\ Len(Trimmed(l)) = Len(l)
  BY <1>1, <1>3
<1> QED  BY <1>1, <1>4 DEF Lines

(* Line by line, NormalizeOutput takes away blanks at the end.             *)
LEMMA NormalLines ==
    ASSUME NEW s \in Text, NEW i \in Nat \ {0}
    PROVE  LineOf(NormalizeOutput(s), i) = TrimRight(LineOf(s, i), {"sp"})
<1> DEFINE l == Split(s)
           x == Trimmed(l)
<1>1. l \in Lines /\ Laid(s, l)
  BY SplitLaid
<1>2. NormalizeOutput(s) = TrimRight(JoinLines(x), {"nl"})
  BY DEF NormalizeOutput, TrimLines, Trimmed
<1> HIDE DEF l, x
<1>3. x \in Lines /\ Len(x) = Len(l)
  BY <1>1, TrimmedType DEF x
<1>4. LineOf(s, i) = IF i <= Len(l) THEN l[i] ELSE <<>>
  BY <1>1, LaidRead
<1>5. JoinLines(x) \in Text /\ Laid(JoinLines(x), x)
  BY <1>3, JoinLaid
<1>6. LineOf(NormalizeOutput(s), i) = IF i <= Len(x) THEN x[i] ELSE <<>>
  BY <1>2, <1>3, <1>5, TrimmedEndsRead
<1>7. i <= Len(l) => x[i] = TrimRight(l[i], {"sp"})
  <2>1. DOMAIN l = 1..Len(l) /\ Len(l) \in Nat
    BY <1>1 DEF Lines
  <2> QED  BY <2>1 DEF x, Trimmed
<1> QED  BY <1>3, <1>4, <1>6, <1>7, TrimRightEmpty

(* Two texts are the same up to blanks at the end when they are the same   *)
(* without them.                                                           *)
LEMMA SameLineTrimmed ==
    ASSUME NEW x \in Text, NEW y \in Text
    PROVE  SameLine(x, y) <=> TrimRight(x, {"sp"}) = TrimRight(y, {"sp"})
<1>1. PICK a \in 0..Len(x) : CutAt(x, {"sp"}, a) /\ TrimRight(x, {"sp"}) = SubSeq(x, 1, a)
  BY TrimRightCuts
<1>2. PICK b \in 0..Len(y) : CutAt(y, {"sp"}, b) /\ TrimRight(y, {"sp"}) = SubSeq(y, 1, b)
  BY TrimRightCuts
<1>3. /\ Len(x) \in Nat /\ Len(y) \in Nat
      /\ \A n \in 0..Len(x) : Len(SubSeq(x, 1, n)) = n /\ \A k \in 1..n : SubSeq(x, 1, n)[k] = x[k]
      /\ \A n \in 0..Len(y) : Len(SubSeq(y, 1, n)) = n /\ \A k \in 1..n : SubSeq(y, 1, n)[k] = y[k]
  BY DEF Text
<1> DEFINE least == Min({Len(x), Len(y)})
<1>4. least \in Nat /\ least <= Len(x) /\ least <= Len(y)
      /\ (least = Len(x) \/ least = Len(y))
  <2>1. \E m \in {Len(x), Len(y)} : \A k \in {Len(x), Len(y)} : m <= k
    BY <1>3
  <2> QED  BY <1>3, <2>1 DEF Min
<1> HIDE DEF least
<1>5. ASSUME TrimRight(x, {"sp"}) = TrimRight(y, {"sp"}) PROVE SameLine(x, y)
  <2>1. a = b /\ SubSeq(x, 1, a) = SubSeq(y, 1, a)
    BY <1>1, <1>2, <1>3, <1>5
  <2>2. a \in 0..least
    BY <1>3, <1>4, <2>1
  <2>3. /\ \A k \in (a + 1)..Len(x) : x[k] = "sp"
        /\ \A k \in (a + 1)..Len(y) : y[k] = "sp"
    BY <1>1, <1>2, <2>1 DEF CutAt
  <2> QED  BY <2>1, <2>2, <2>3 DEF SameLine, least
<1>6. ASSUME SameLine(x, y) PROVE TrimRight(x, {"sp"}) = TrimRight(y, {"sp"})
  <2>1. PICK n \in 0..least : /\ SubSeq(x, 1, n) = SubSeq(y, 1, n)
                              /\ \A k \in (n + 1)..Len(x) : x[k] = "sp"
                              /\ \A k \in (n + 1)..Len(y) : y[k] = "sp"
    BY <1>6 DEF SameLine, least
  <2>2. n \in Nat /\ n \in 0..Len(x) /\ n \in 0..Len(y)
    BY <1>3, <1>4
  <2>3. \A k \in 1..n : x[k] = y[k]
    <3> SUFFICES ASSUME NEW k \in 1..n PROVE x[k] = y[k]
      OBVIOUS
    <3>1. SubSeq(x, 1, n)[k] = x[k] /\ SubSeq(y, 1, n)[k] = y[k]
      BY <1>3, <2>2
    <3> QED  BY <2>1, <3>1
  <2>4. a <= n
    <3> SUFFICES ASSUME a > n PROVE FALSE
      BY <1>3, <2>2
    <3>1. a \in (n + 1)..Len(x) /\ a # 0
      BY <1>3, <2>2
    <3> QED  BY <1>1, <2>1, <3>1 DEF CutAt
  <2>5. b <= n
    <3> SUFFICES ASSUME b > n PROVE FALSE
      BY <1>3, <2>2
    <3>1. b \in (n + 1)..Len(y) /\ b # 0
      BY <1>3, <2>2
    <3> QED  BY <1>2, <2>1, <3>1 DEF CutAt
  <2>6. CutAt(y, {"sp"}, a)
    <3>1. a \in 0..Len(y)
      BY <1>3, <2>2, <2>4
    <3>2. a # 0 => y[a] # "sp"
      <4>1. a # 0 => a \in 1..n
        BY <1>3, <2>2, <2>4
      <4> QED  BY <1>1, <2>3, <4>1 DEF CutAt
    <3>3. ASSUME NEW k \in (a + 1)..Len(y) PROVE y[k] = "sp"
      <4>1. CASE k <= n
        <5>1. k \in 1..n /\ k \in (a + 1)..Len(x)
          BY <1>3, <2>2, <4>1
        <5> QED  BY <1>1, <2>3, <5>1 DEF CutAt
      <4>2. CASE ~(k <= n)
        <5>1. k \in (n + 1)..Len(y)
          BY <1>3, <2>2, <4>2
        <5> QED  BY <2>1, <5>1
      <4> QED  BY <4>1, <4>2
    <3> QED  BY <3>1, <3>2, <3>3 DEF CutAt
  <2>7. TrimRight(y, {"sp"}) = SubSeq(y, 1, a)
    BY <2>6, TrimRightIs
  <2>8. SubSeq(x, 1, a) = SubSeq(y, 1, a)
    <3>1. /\ SubSeq(x, 1, a) \in Seq(Characters) /\ SubSeq(y, 1, a) \in Seq(Characters)
          /\ Len(SubSeq(x, 1, a)) = a /\ Len(SubSeq(y, 1, a)) = a
      BY <1>3, <2>6 DEF Text, CutAt
    <3>2. \A k \in 1..a : SubSeq(x, 1, a)[k] = SubSeq(y, 1, a)[k]
      <4> SUFFICES ASSUME NEW k \in 1..a PROVE SubSeq(x, 1, a)[k] = SubSeq(y, 1, a)[k]
        OBVIOUS
      <4>1. a \in 0..Len(y) /\ k \in 1..n
        BY <1>3, <2>2, <2>4, <2>6 DEF CutAt
      <4>2. SubSeq(x, 1, a)[k] = x[k] /\ SubSeq(y, 1, a)[k] = y[k]
        BY <1>3, <4>1
      <4> QED  BY <2>3, <4>1, <4>2
    <3> QED  BY <3>1, <3>2, SeqEqual
  <2> QED  BY <1>1, <2>7, <2>8
<1> QED  BY <1>5, <1>6

(* Empty lines at the end do not count.                                    *)
LEMMA PaddingTrimmed ==
    ASSUME NEW l \in Lines, NEW x \in Lines, Len(l) <= Len(x),
           \A i \in 1..Len(l) : x[i] = l[i],
           \A i \in (Len(l) + 1)..Len(x) : x[i] = <<>>
    PROVE  TrimRight(JoinLines(l), {"nl"}) = TrimRight(JoinLines(x), {"nl"})
<1> DEFINE a == Len(l) - 1
           b == Len(x) - 1
<1>1. PICK g \in [0..a -> Text] :
              /\ g[0] = l[1]
              /\ \A n \in 1..a : g[n] = g[n - 1] \o <<"nl">> \o l[n + 1]
              /\ JoinLines(l) = g[a]
  BY JoinSteps
<1>2. PICK h \in [0..b -> Text] :
              /\ h[0] = x[1]
              /\ \A n \in 1..b : h[n] = h[n - 1] \o <<"nl">> \o x[n + 1]
              /\ JoinLines(x) = h[b]
  BY JoinSteps
<1>3. /\ a \in Nat /\ b \in Nat /\ a <= b
      /\ \A n \in 1..a : x[n + 1] = l[n + 1]
      /\ x[1] = l[1]
      /\ \A n \in 1..b : n > a => x[n + 1] = <<>>
  BY DEF Lines
<1> HIDE DEF a, b
<1>4. ASSUME NEW t \in Text
      PROVE  TrimRight(t \o <<"nl">> \o <<>>, {"nl"}) = TrimRight(t, {"nl"})
  <2> DEFINE u == t \o <<"nl">> \o <<>>
  <2>1. t \in Seq(Characters) /\ "nl" \in Characters
    BY ArchiveAssumption DEF Text
  <2>2. u = Append(t, "nl")
    <3>1. <<"nl">> \in Seq(Characters)
      BY <2>1
    <3>2. t \o <<"nl">> \in Seq(Characters)
      BY <2>1, <3>1, ConcatProperties, Zenon
    <3>3. (t \o <<"nl">>) \o <<>> = t \o <<"nl">>
      BY <3>2, ConcatEmptySeq, Zenon
    <3>4. t \o <<"nl">> = Append(t, "nl")
      BY <2>1, AppendIsConcat
    <3> QED  BY <3>3, <3>4
  <2> HIDE DEF u
  <2>3. /\ u \in Text /\ Len(u) = Len(t) + 1 /\ Len(t) \in Nat /\ u[Len(t) + 1] = "nl"
        /\ \A k \in 1..Len(t) : u[k] = t[k]
    BY <2>1, <2>2 DEF Text
  <2>4. PICK n \in 0..Len(t) : /\ CutAt(t, {"nl"}, n)
                               /\ TrimRight(t, {"nl"}) = SubSeq(t, 1, n)
    BY TrimRightCuts
  <2>5. CutAt(u, {"nl"}, n)
    <3>1. n \in 0..Len(u)
      BY <2>3
    <3>2. n # 0 => u[n] \notin {"nl"}
      <4>1. n # 0 => n \in 1..Len(t)
        BY <2>3
      <4> QED  BY <2>3, <2>4, <4>1 DEF CutAt
    <3>3. ASSUME NEW k \in (n + 1)..Len(u) PROVE u[k] \in {"nl"}
      <4>1. k = Len(t) + 1 \/ (k \in (n + 1)..Len(t) /\ k \in 1..Len(t))
        BY <2>3
      <4> QED  BY <2>3, <2>4, <4>1 DEF CutAt
    <3> QED  BY <3>1, <3>2, <3>3 DEF CutAt
  <2>6. TrimRight(u, {"nl"}) = SubSeq(u, 1, n)
    BY <2>3, <2>5, TrimRightIs
  <2>7. SubSeq(u, 1, n) = SubSeq(t, 1, n)
    BY <2>1, <2>2, <2>3
  <2> QED  BY <2>4, <2>6, <2>7 DEF u
<1> DEFINE same == {n \in 0..b : IF n <= a THEN h[n] = g[n]
                                 ELSE TrimRight(h[n], {"nl"}) = TrimRight(g[a], {"nl"})}
<1>5. 0 \in same
  BY <1>1, <1>2, <1>3
<1>6. ASSUME NEW n \in 1..b, n - 1 \in same PROVE n \in same
  <2>1. n \in 0..b /\ n - 1 \in 0..b /\ h[n - 1] \in Text
    BY <1>2, <1>3
  <2>2. h[n] = h[n - 1] \o <<"nl">> \o x[n + 1]
    BY <1>2
  <2>3. CASE n <= a
    <3>1. n \in 1..a /\ n - 1 <= a
      BY <1>3, <2>3
    <3>2. h[n - 1] = g[n - 1]
      BY <1>6, <3>1
    <3> QED  BY <1>1, <1>3, <2>1, <2>2, <2>3, <3>1, <3>2
  <2>4. CASE ~(n <= a)
    <3>1. x[n + 1] = <<>>
      BY <1>3, <2>4
    <3>2. TrimRight(h[n], {"nl"}) = TrimRight(h[n - 1], {"nl"})
      BY <1>4, <2>1, <2>2, <3>1
    <3>3. n - 1 <= a => n - 1 = a
      BY <1>3, <2>4
    <3>4. TrimRight(h[n - 1], {"nl"}) = TrimRight(g[a], {"nl"})
      BY <1>6, <3>3
    <3> QED  BY <2>1, <2>4, <3>2, <3>4
  <2> QED  BY <2>3, <2>4
<1>7. \A n \in 0..b : n \in same
  <2> HIDE DEF same
  <2> QED  BY <1>3, <1>5, <1>6, InductionTo
<1>8. b \in same
  <2>1. b \in 0..b
    BY <1>3
  <2> HIDE DEF same
  <2> QED  BY <1>7, <2>1
<1>9. b <= a => b = a
  BY <1>3
<1> QED  BY <1>1, <1>2, <1>8, <1>9

(* Match compares what it should, for all texts.                           *)
LEMMA MatchLines ==
    ASSUME NEW x \in Text, NEW y \in Text
    PROVE  Match(x, y) <=> \A i \in 1..(1 + Max({Len(x), Len(y)})) :
                               SameLine(LineOf(x, i), LineOf(y, i))
<1> DEFINE top == 1 + Max({Len(x), Len(y)})
           p == Split(x)
           q == Split(y)
           l == Trimmed(p)
           k == Trimmed(q)
<1>1. /\ Len(x) \in Nat /\ Len(y) \in Nat
      /\ top \in Nat /\ Len(x) + 1 <= top /\ Len(y) + 1 <= top
  <2>1. Len(x) \in Nat /\ Len(y) \in Nat
    BY DEF Text
  <2>2. \E m \in {Len(x), Len(y)} : \A n \in {Len(x), Len(y)} : m >= n
    BY <2>1
  <2>3. /\ Max({Len(x), Len(y)}) \in {Len(x), Len(y)}
        /\ \A n \in {Len(x), Len(y)} : Max({Len(x), Len(y)}) >= n
    BY <2>2 DEF Max
  <2> QED  BY <2>1, <2>3
<1> HIDE DEF top
<1>2. /\ p \in Lines /\ Laid(x, p) /\ Len(p) <= Len(x) + 1
      /\ q \in Lines /\ Laid(y, q) /\ Len(q) <= Len(y) + 1
  BY SplitLaid, LinesCounted
<1>3. /\ NormalizeOutput(x) = TrimRight(JoinLines(l), {"nl"})
      /\ NormalizeOutput(y) = TrimRight(JoinLines(k), {"nl"})
  BY DEF NormalizeOutput, TrimLines, Trimmed
<1> HIDE DEF p, q
<1>4. l \in Lines /\ Len(l) = Len(p) /\ k \in Lines /\ Len(k) = Len(q)
  BY <1>2, TrimmedType
<1>5. ASSUME NEW i \in Nat \ {0}
      PROVE  /\ LineOf(x, i) = IF i <= Len(p) THEN p[i] ELSE <<>>
             /\ LineOf(y, i) = IF i <= Len(q) THEN q[i] ELSE <<>>
             /\ LineOf(x, i) \in Text /\ LineOf(y, i) \in Text
  <2>1. /\ LineOf(x, i) = IF i <= Len(p) THEN p[i] ELSE <<>>
        /\ LineOf(y, i) = IF i <= Len(q) THEN q[i] ELSE <<>>
    BY <1>2, LaidRead
  <2>2. /\ i <= Len(p) => p[i] \in Text
        /\ i <= Len(q) => q[i] \in Text
        /\ <<>> \in Text
    BY <1>2 DEF Lines, Line, Text
  <2> QED  BY <2>1, <2>2
<1>6. ASSUME NEW i \in Nat \ {0}
      PROVE  /\ TrimRight(LineOf(x, i), {"sp"}) = IF i <= Len(l) THEN l[i] ELSE <<>>
             /\ TrimRight(LineOf(y, i), {"sp"}) = IF i <= Len(k) THEN k[i] ELSE <<>>
  <2>1. /\ i <= Len(p) => l[i] = TrimRight(p[i], {"sp"})
        /\ i <= Len(q) => k[i] = TrimRight(q[i], {"sp"})
    BY <1>2 DEF Trimmed, Lines
  <2> HIDE DEF l, k
  <2> QED  BY <1>4, <1>5, <2>1, TrimRightEmpty
<1> HIDE DEF l, k
<1>7. ASSUME Match(x, y), NEW i \in 1..top PROVE SameLine(LineOf(x, i), LineOf(y, i))
  <2>1. i \in Nat \ {0}
    BY <1>1
  <2>2. LineOf(NormalizeOutput(x), i) = LineOf(NormalizeOutput(y), i)
    BY <1>7 DEF Match
  <2>3. TrimRight(LineOf(x, i), {"sp"}) = TrimRight(LineOf(y, i), {"sp"})
    BY <2>1, <2>2, NormalLines
  <2> QED  BY <1>5, <2>1, <2>3, SameLineTrimmed
<1>8. ASSUME \A i \in 1..top : SameLine(LineOf(x, i), LineOf(y, i))
      PROVE  NormalizeOutput(x) = NormalizeOutput(y)
  <2>1. ASSUME NEW i \in 1..top
        PROVE  (IF i <= Len(l) THEN l[i] ELSE <<>>) = (IF i <= Len(k) THEN k[i] ELSE <<>>)
    <3>1. i \in Nat \ {0}
      BY <1>1
    <3>2. SameLine(LineOf(x, i), LineOf(y, i)) /\ LineOf(x, i) \in Text /\ LineOf(y, i) \in Text
      BY <1>5, <1>8, <3>1
    <3>3. TrimRight(LineOf(x, i), {"sp"}) = TrimRight(LineOf(y, i), {"sp"})
      BY <3>2, SameLineTrimmed
    <3> QED  BY <1>6, <3>1, <3>3
  <2>2. /\ Len(l) \in Nat /\ Len(k) \in Nat
        /\ \A i \in 1..Len(l) : i \in 1..top
        /\ \A i \in 1..Len(k) : i \in 1..top
    BY <1>1, <1>2, <1>4 DEF Lines
  <2>3. CASE Len(l) <= Len(k)
    <3>1. \A i \in 1..Len(l) : k[i] = l[i]
      BY <2>1, <2>2, <2>3
    <3>2. \A i \in (Len(l) + 1)..Len(k) : k[i] = <<>>
      BY <2>1, <2>2, <2>3
    <3> QED  BY <1>3, <1>4, <2>3, <3>1, <3>2, PaddingTrimmed
  <2>4. CASE ~(Len(l) <= Len(k))
    <3>1. \A i \in 1..Len(k) : l[i] = k[i]
      BY <2>1, <2>2, <2>4
    <3>2. \A i \in (Len(k) + 1)..Len(l) : l[i] = <<>>
      BY <2>1, <2>2, <2>4
    <3>3. Len(k) <= Len(l)
      BY <2>2, <2>4
    <3> QED  BY <1>3, <1>4, <3>1, <3>2, <3>3, PaddingTrimmed
  <2> QED  BY <2>3, <2>4
<1> QED  BY <1>7, <1>8 DEF Match, top

(* The last comparison was one Match made.                                 *)
JudgedByMatch ==
    /\ judged.stdout \in Text /\ judged.expected \in Text
    /\ judged.match = Match(judged.stdout, judged.expected)

(* Only a test case is compared, and by nothing else.                      *)
LEMMA JudgedStep == JudgedByMatch /\ [ArchiveNext]_archiveVars => JudgedByMatch'
<1> SUFFICES ASSUME JudgedByMatch, [ArchiveNext]_archiveVars PROVE JudgedByMatch'
  OBVIOUS
<1>1. ASSUME UNCHANGED judged PROVE JudgedByMatch'
  BY <1>1 DEF JudgedByMatch
<1>2. ASSUME NEW t \in tests, RunTest(t) PROVE JudgedByMatch'
  <2>1. PICK stdout \in Texts, expected \in ExpectedTexts :
            judged' = [stdout |-> stdout, expected |-> expected,
                       match |-> Match(stdout, expected)]
    BY <1>2 DEF RunTest
  <2>2. stdout \in Text /\ expected \in Text
    BY ArchiveAssumption DEF Text
  <2> QED  BY <2>1, <2>2 DEF JudgedByMatch
<1>3. ASSUME NEW e \in archive.entries, ExtractEntry(e) \/ SkipEntry(e) PROVE UNCHANGED judged
  BY <1>3 DEF ExtractEntry, SkipEntry, Skip, archiveVars
<1>4. CASE RefuseUnread \/ Open \/ TooLarge \/ EndOfArchive \/ FindProblems \/ ProblemPassed \/ Fail
  BY <1>1, <1>4 DEF RefuseUnread, Open, TooLarge, EndOfArchive, FindProblems, ProblemPassed, Fail
<1>5. ASSUME NEW d \in todo, Validate(d) PROVE UNCHANGED judged
  BY <1>5 DEF Validate
<1>6. CASE UNCHANGED archiveVars
  BY <1>1, <1>6 DEF archiveVars
<1> QED  BY <1>1, <1>2, <1>3, <1>4, <1>5, <1>6 DEF ArchiveNext

(* Match, through NormalizeOutput and its way over lines, says yes exactly *)
(* when two outputs agree line by line up to blanks at the ends of lines   *)
(* and empty lines at the end, for outputs of any length.                  *)
THEOREM ArchiveMatchesLinewise == ArchiveSpec => []MatchIsLinewise
<1>1. ArchiveInit => JudgedByMatch
  <2>1. <<>> \in Text
    BY DEF Text
  <2>2. /\ NotJudged.stdout = <<>> /\ NotJudged.expected = <<>> /\ NotJudged.match
        /\ NotJudged.match \in BOOLEAN
    BY DEF NotJudged
  <2>3. Match(<<>>, <<>>)
    BY DEF Match
  <2> QED  BY <2>1, <2>2, <2>3 DEF ArchiveInit, JudgedByMatch
<1>2. JudgedByMatch => MatchIsLinewise
  BY MatchLines DEF JudgedByMatch, MatchIsLinewise
<1> QED  BY <1>1, <1>2, JudgedStep, PTL DEF ArchiveSpec

=============================================================================
