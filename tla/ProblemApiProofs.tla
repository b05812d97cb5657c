-------------------------- MODULE ProblemApiProofs --------------------------
(* Theorems about module ProblemApi, for every set of users and requests,  *)
(* every number of versions and faults and every width of an integer.      *)
EXTENDS ProblemApi, FiniteSetTheorems, TLAPS

-----------------------------------------------------------------------------
(* The inductive invariant *)

(* The versions up to the current one were committed, and no others.       *)
PhaseInv ==
    \A v \in Versions : phase[v] = "none" <=> row.current < v

(* The cache has a version under its own path only, and no nil problem.    *)
CacheInv == \A v \in Versions : cache[v] \in {v, NotCached}

(* A game's version is one of the problem's.                               *)
PinInv == pin <= row.current

(* Between the statement that reads a path and the answer.                 *)
Reading == {"lookup", "load", "store"}

(* Which operations come to which statement of the handlers.               *)
PlaceOK(q) ==
    /\ q.pc = "catalog" => q.op \in {"GetProblem", "PatchProblem", "CreateGame"}
    /\ q.pc = "artifact" => q.op = "GetProblem"
    /\ q.pc \in Reading => q.op \in {"GetProblem", "Submit"}
    /\ q.pc = "pinned" => q.op = "Submit"
    /\ q.pc = "update" => q.op = "PatchProblem"
    /\ q.pc \in {"count", "list"} => q.op = "ListProblems"
    /\ q.pc = "mine" => q.op = "ListMyProblems"

(* What a request has noticed of the row r, the versions without files in  *)
(* miss and the game's version p is true of them.                          *)
SeenOK(q, r, p) ==
    q.pc # "answered" =>
        /\ q.op \in Shows /\ Open(q.op, q.user, r) => q.saw
        /\ q.pc = "artifact" => q.saw /\ r.current # 0
        /\ q.op = "Submit" => p # 0

PathOK(q, r, miss, p) ==
    q.pc \in Reading =>
        /\ q.ver \in Versions /\ q.ver <= r.current
        /\ q.op = "GetProblem" => q.saw /\ q.ver \in q.currents
        /\ q.op = "Submit" => q.ver = p
        /\ q.ver \in miss => q.missing
        /\ q.pc = "store" => q.served = q.ver

AnswerOK(q, p) ==
    q.pc = "answered" =>
        /\ q.http = 200 /\ q.op = "GetProblem" => q.saw /\ q.served \in q.currents
        /\ q.http = 200 /\ q.op = "ListProblems" /\ q.listed => q.saw
        /\ q.http = 200 /\ q.op = "Submit" => p # 0 /\ q.served = p
        /\ q.http = 201 => q.saw
        /\ q.http = 500 => q.excuse \/ q.missing
        /\ q.http # 500 /\ q.op # "Submit" => q.http \in Known(q.op)

Good(q, r, miss, p) ==
    /\ q \in Request
    /\ PlaceOK(q) /\ SeenOK(q, r, p) /\ PathOK(q, r, miss, p) /\ AnswerOK(q, p)

RequestInv ==
    \A r \in Requests : req[r] = Free \/ Good(req[r], row, Missing, pin)

IInv == TypeOK /\ PhaseInv /\ CacheInv /\ PinInv /\ RequestInv

-----------------------------------------------------------------------------
(* The pipeline's operators *)

(* The powers of two, as the numbers of subsets of intervals: they grow.   *)
LEMMA PowersOfTwo ==
    ASSUME NEW m \in Nat, NEW n \in Nat, m <= n
    PROVE  2^m \in Nat /\ 2^n \in Nat /\ 2^m <= 2^n
<1>1. IsFiniteSet(1..m) /\ Cardinality(1..m) = m
  BY FS_Interval
<1>2. IsFiniteSet(1..n) /\ Cardinality(1..n) = n
  BY FS_Interval
<1>3. IsFiniteSet(SUBSET (1..m)) /\ Cardinality(SUBSET (1..m)) = 2^m
  BY <1>1, FS_SUBSET
<1>4. IsFiniteSet(SUBSET (1..n)) /\ Cardinality(SUBSET (1..n)) = 2^n
  BY <1>2, FS_SUBSET
<1>5. SUBSET (1..m) \subseteq SUBSET (1..n)
  OBVIOUS
<1>6. Cardinality(SUBSET (1..m)) <= Cardinality(SUBSET (1..n))
  BY <1>4, <1>5, FS_Subset
<1> QED  BY <1>3, <1>4, <1>6, FS_CardinalityType

(* A number that an int32 can hold is converted to itself.                 *)
LEMMA SmallInt32 ==
    /\ 2^(Width - 1) \in Nat /\ 2^(Width - 1) >= 2
    /\ \A n \in Nat : n < 2^(Width - 1) => Int32(n) = n
<1>1. Width - 1 \in Nat /\ 1 <= Width - 1 /\ Width \in Nat /\ Width - 1 <= Width
  BY WidthAssumption
<1>2. 2^1 = 2
  OBVIOUS
<1>3. 2^(Width - 1) \in Nat /\ 2^1 <= 2^(Width - 1)
  BY <1>1, PowersOfTwo
<1>4. 2^Width \in Nat /\ 2^(Width - 1) <= 2^Width
  BY <1>1, PowersOfTwo
<1> DEFINE h == 2^(Width - 1)
           m == 2^Width
<1>5. h \in Nat /\ m \in Nat /\ h <= m
  BY <1>3, <1>4
<1>6. \A n : Int32(n) = IF n % m >= h THEN (n % m) - m ELSE n % m
  BY DEF Int32
<1>7. \A n \in Nat : n < h => Int32(n) = n
  <2> HIDE DEF h, m
  <2> TAKE n \in Nat
  <2> HAVE n < h
  <2>1. n % m = n
    BY <1>5
  <2> QED  BY <1>5, <1>6, <2>1
<1> QED  BY <1>2, <1>3, <1>7

(* The page parameters that fail are beyond an int32.                      *)
LEMMA PageOverflow ==
    ASSUME NEW l \in PageArguments, NEW o \in PageArguments,
           Limit(l) < 0 \/ Int32(IF o >= 0 THEN o ELSE 0) < 0
    PROVE  l >= 2^(Width - 1) \/ o >= 2^(Width - 1)
<1> DEFINE h == 2^(Width - 1)
<1>1. h \in Nat /\ h >= 2 /\ \A n \in Nat : n < h => Int32(n) = n
  BY SmallInt32
<1> HIDE DEF h
<1>2. l \in Int /\ o \in Int
  BY DEF PageArguments
<1>3. SUFFICES ASSUME l < h, o < h PROVE FALSE
  BY <1>1, <1>2 DEF h
<1>4. Limit(l) \in Nat
  <2>1. CASE l > 0
    BY <1>1, <1>2, <1>3, <2>1 DEF Limit
  <2>2. CASE ~(l > 0)
    <3>1. Limit(l) = Int32(1)
      BY <2>2 DEF Limit, DefaultLimit
    <3> QED  BY <1>1, <3>1
  <2> QED  BY <2>1, <2>2
<1>5. Int32(IF o >= 0 THEN o ELSE 0) \in Nat
  <2>1. CASE o >= 0
    BY <1>1, <1>2, <1>3, <2>1
  <2>2. CASE ~(o >= 0)
    BY <1>1, <2>2
  <2> QED  BY <2>1, <2>2
<1> QED  BY <1>4, <1>5, <1>1, <1>2, <1>3

(* The statuses of the codes the handlers of problems use.                 *)
LEMMA StatusValues ==
    /\ httpStatusCode("PROBLEM_NOT_FOUND") = 404
    /\ httpStatusCode("NOT_PROBLEM_OWNER") = 403
    /\ httpStatusCode("load problem") = 500
    /\ httpStatusCode("check constraint") = 500
    /\ httpStatusCode("must not be negative") = 500
BY DEF httpStatusCode

(* What may be answered to the operations on problems.                     *)
LEMMA KnownProblem ==
    /\ Known("ListProblems") = {200, 400}
    /\ Known("ListMyProblems") = {200, 400, 401}
    /\ Known("GetProblem") = {200, 400, 404}
    /\ Known("PatchProblem") = {200, 400, 401, 403, 404}
    /\ Known("CreateGame") = {201, 400, 401, 404}
BY DEF Known, DeclaredAccount, DeclaredRooms, DeclaredGames, DeclaredEnds,
       DeclaredProblems, Undeclared

(* What the middleware answers is known, and no success.                   *)
LEMMA GateKnown ==
    ASSUME NEW op \in Ops, op # "Submit", NEW u, NEW b, Gate(op, u, b) # 0
    PROVE  Gate(op, u, b) \in {400, 401} /\ Gate(op, u, b) \in Known(op)
<1>1. op \in Malformable => 400 \in Known(op)
  BY KnownProblem DEF Ops, ProblemOps, Malformable,
     BindGameID, BindToken, BindPage, BindSearch, DecodeAccountBody,
     DecodeGameBody, DecodeProblemBody
<1>2. op \notin PublicOps => 401 \in Known(op)
  BY KnownProblem DEF Ops, ProblemOps, PublicOps
<1> QED  BY <1>1, <1>2 DEF Gate
-----------------------------------------------------------------------------
(* One request *)

(* The parts of the types that a proof needs one by one.                   *)
LEMMA TypeOKParts ==
    ASSUME TypeOK
    PROVE  /\ row \in RowType
           /\ phase \in [Versions -> {"none", "committed", "moved", "done", "lost"}]
           /\ cache \in [Versions -> Versions \cup {Nil, NotCached}]
           /\ pin \in Versions \cup {0}
           /\ req \in [Requests -> {Free} \cup Request]
           /\ faults \in 0..MaxFaults
BY DEF TypeOK

(* A request that is there is a record with all the fields.                *)
LEMMA Present ==
    ASSUME RequestInv, NEW r \in Requests, req[r].pc # "free"
    PROVE  Good(req[r], row, Missing, pin)
BY DEF RequestInv, Free

(* What noticing the row and the files leaves of a request.                *)
LEMMA WitnessFields ==
    ASSUME NEW q \in Request, NEW theRow \in RowType, NEW miss,
           NEW n, n = Witness(q, theRow, miss)
    PROVE  /\ n \in Request
           /\ n.pc = q.pc /\ n.op = q.op /\ n.user = q.user /\ n.ver = q.ver
           /\ n.http = q.http /\ n.served = q.served /\ n.listed = q.listed
           /\ n.excuse = q.excuse
           /\ q.saw => n.saw
           /\ q.op \in Shows /\ Open(q.op, q.user, theRow) => n.saw
           /\ q.currents \subseteq n.currents
           /\ q.op = "GetProblem" /\ q.ver # 0 => theRow.current \in n.currents
           /\ q.missing => n.missing
           /\ q.ver \in miss => n.missing
<1> DEFINE saw == q.saw \/ (q.op \in Shows /\ Open(q.op, q.user, theRow))
           currents == IF q.op = "GetProblem" /\ q.ver # 0
                       THEN q.currents \cup {theRow.current} ELSE q.currents
           missing == q.missing \/ q.ver \in miss
<1>1. n = [q EXCEPT !.saw = saw, !.currents = currents, !.missing = missing]
  BY DEF Witness
<1>2. saw \in BOOLEAN /\ missing \in BOOLEAN
  BY DEF Request
<1>3. currents \in SUBSET (Versions \cup {0})
  BY DEF Request, RowType
<1>4. /\ q.saw => saw
      /\ q.op \in Shows /\ Open(q.op, q.user, theRow) => saw
      /\ q.currents \subseteq currents
      /\ q.op = "GetProblem" /\ q.ver # 0 => theRow.current \in currents
      /\ q.missing => missing
      /\ q.ver \in miss => missing
  OBVIOUS
<1> HIDE DEF saw, currents, missing
<1>5. /\ n \in Request
      /\ n.saw = saw /\ n.currents = currents /\ n.missing = missing
      /\ n.pc = q.pc /\ n.op = q.op /\ n.user = q.user /\ n.ver = q.ver
      /\ n.http = q.http /\ n.served = q.served /\ n.listed = q.listed
      /\ n.excuse = q.excuse
  BY <1>1, <1>2, <1>3 DEF Request
<1> QED  BY <1>4, <1>5

(* A request that notices each change of the row stays right about it.     *)
LEMMA WitnessGood ==
    ASSUME NEW r \in RowType, NEW miss, NEW p,
           NEW r2 \in RowType, NEW miss2, NEW p2,
           r.current <= r2.current, p # 0 => p2 = p,
           NEW q, Good(q, r, miss, p),
           NEW n, n = Witness(q, r2, miss2)
    PROVE  Good(n, r2, miss2, p2)
<1>1. q \in Request /\ PlaceOK(q) /\ SeenOK(q, r, p) /\ PathOK(q, r, miss, p)
      /\ AnswerOK(q, p)
  BY DEF Good
<1>2. /\ n \in Request
      /\ n.pc = q.pc /\ n.op = q.op /\ n.user = q.user /\ n.ver = q.ver
      /\ n.http = q.http /\ n.served = q.served /\ n.listed = q.listed
      /\ n.excuse = q.excuse
      /\ q.saw => n.saw
      /\ q.op \in Shows /\ Open(q.op, q.user, r2) => n.saw
      /\ q.currents \subseteq n.currents
      /\ q.missing => n.missing
      /\ q.ver \in miss2 => n.missing
  BY <1>1, WitnessFields
<1>3. PlaceOK(n)
  BY <1>1, <1>2 DEF PlaceOK
<1>4. SeenOK(n, r2, p2)
  <2>1. r.current # 0 => r2.current # 0
    BY ProblemApiAssumption DEF RowType, Versions
  <2> QED  BY <1>1, <1>2, <2>1 DEF SeenOK
<1>5. PathOK(n, r2, miss2, p2)
  <2> SUFFICES ASSUME n.pc \in Reading PROVE PathOK(n, r2, miss2, p2)
    BY DEF PathOK
  <2>1. /\ q.ver \in Versions /\ q.ver <= r.current
        /\ q.op = "GetProblem" => q.saw /\ q.ver \in q.currents
        /\ q.op = "Submit" => q.ver = p
        /\ q.pc = "store" => q.served = q.ver
    BY <1>1, <1>2 DEF PathOK
  <2>2. q.ver <= r2.current
    BY <2>1, ProblemApiAssumption DEF RowType, Versions
  <2>3. q.op = "Submit" => q.ver = p2
    BY <2>1, ProblemApiAssumption DEF Versions
  <2> QED  BY <1>2, <2>1, <2>2, <2>3 DEF PathOK
<1>6. AnswerOK(n, p2)
  BY <1>1, <1>2 DEF AnswerOK
<1> QED  BY <1>2, <1>3, <1>4, <1>5, <1>6 DEF Good

(* A request that is left alone stays right while the row does and no more *)
(* files are missing.                                                      *)
LEMMA LeftGood ==
    ASSUME NEW q, NEW r, NEW miss, NEW p, Good(q, r, miss, p),
           NEW miss2 \in SUBSET miss, NEW p2, p # 0 => p2 = p
    PROVE  Good(q, r, miss2, p2)
<1>1. PathOK(q, r, miss2, p2)
  <2>1. q.pc \in Reading /\ q.op = "Submit" => p # 0
    BY DEF Good, SeenOK, Reading
  <2> QED  BY <2>1 DEF Good, PathOK
<1>2. SeenOK(q, r, p2) /\ AnswerOK(q, p2)
  BY DEF Good, SeenOK, AnswerOK
<1> QED  BY <1>1, <1>2 DEF Good

(* What an answer leaves of a request.                                     *)
LEMMA AnswerFields ==
    ASSUME NEW q \in Request, NEW h \in Nat, NEW n, n = Answer(q, h)
    PROVE  /\ n \in Request
           /\ n.pc = "answered" /\ n.http = h
           /\ n.op = q.op /\ n.user = q.user /\ n.ver = q.ver
           /\ n.served = q.served /\ n.listed = q.listed /\ n.saw = q.saw
           /\ n.currents = q.currents /\ n.missing = q.missing
           /\ n.excuse = q.excuse
BY DEF Answer, Request, Places

(* An answered request, from its status.                                   *)
LEMMA AnsweredGood ==
    ASSUME NEW n \in Request, n.pc = "answered", NEW r, NEW miss, NEW p, AnswerOK(n, p)
    PROVE  Good(n, r, miss, p)
BY DEF Good, PlaceOK, SeenOK, PathOK, Reading

(* A request that is refused with a status that is known and no success.   *)
LEMMA RefusedGood ==
    ASSUME NEW q \in Request, NEW h \in Nat, h \notin {200, 201, 500},
           q.op = "Submit" \/ h \in Known(q.op),
           NEW r, NEW miss, NEW p
    PROVE  Good(Answer(q, h), r, miss, p)
<1> DEFINE n == Answer(q, h)
<1>1. n \in Request /\ n.pc = "answered" /\ n.http = h /\ n.op = q.op
  BY AnswerFields
<1> HIDE DEF n
<1>2. AnswerOK(n, p)
  BY <1>1 DEF AnswerOK
<1>3. Good(n, r, miss, p)
  BY <1>1, <1>2, AnsweredGood
<1> QED  BY <1>3 DEF n

(* A request that fails for a reason it knows.                             *)
LEMMA FailedGood ==
    ASSUME NEW q \in Request, q.missing \/ q.excuse, NEW r, NEW miss, NEW p
    PROVE  Good(Answer(q, 500), r, miss, p)
<1> DEFINE n == Answer(q, 500)
<1>1. /\ n \in Request /\ n.pc = "answered" /\ n.http = 500
      /\ n.missing = q.missing /\ n.excuse = q.excuse
  BY AnswerFields
<1> HIDE DEF n
<1>2. AnswerOK(n, p)
  BY <1>1 DEF AnswerOK
<1>3. Good(n, r, miss, p)
  BY <1>1, <1>2, AnsweredGood
<1> QED  BY <1>3 DEF n

-----------------------------------------------------------------------------
(* A step of one request that leaves the problem alone *)

(* The invariant after a step of one request that leaves row and files.    *)
LEMMA OneRequest ==
    ASSUME IInv, NEW r \in Requests, NEW q,
           q = Free \/ Good(q, row, Missing, pin),
           req' = [req EXCEPT ![r] = q],
           UNCHANGED <<row, phase, pin>>,
           faults' \in 0..MaxFaults,
           cache' \in [Versions -> Versions \cup {Nil, NotCached}],
           CacheInv'
    PROVE  IInv'
<1>1. TypeOK /\ PhaseInv /\ PinInv /\ RequestInv
  BY DEF IInv
<1>2. q \in {Free} \cup Request
  BY DEF Good
<1>3. TypeOK'
  BY <1>1, <1>2 DEF TypeOK
<1>4. PhaseInv' /\ PinInv'
  BY <1>1 DEF PhaseInv, PinInv
<1>5. Missing' = Missing
  BY DEF Missing
<1>6. RequestInv'
  <2> SUFFICES ASSUME NEW x \in Requests
               PROVE  req'[x] = Free \/ Good(req'[x], row, Missing, pin)
    BY <1>5 DEF RequestInv, Good, SeenOK, PathOK, AnswerOK
  <2>1. req'[x] = IF x = r THEN q ELSE req[x]
    BY <1>1 DEF TypeOK
  <2> QED  BY <1>1, <2>1 DEF RequestInv
<1> QED  BY <1>3, <1>4, <1>6 DEF IInv

(* The same when it leaves the cache alone, too.                           *)
LEMMA StepKeeps ==
    ASSUME IInv, NEW r \in Requests, NEW q,
           q = Free \/ Good(q, row, Missing, pin),
           Step(r, q), UNCHANGED cache
    PROVE  IInv'
<1>1. /\ cache' \in [Versions -> Versions \cup {Nil, NotCached}] /\ CacheInv'
      /\ faults' \in 0..MaxFaults
  BY DEF IInv, TypeOK, CacheInv, Step
<1> QED  BY <1>1, OneRequest DEF Step
(* A request comes: the middleware answers, or its handler begins.         *)
LEMMA ArriveStep ==
    ASSUME IInv, NEW r \in Requests, NEW op \in Ops, NEW u \in Users \cup {NoUser},
           NEW b \in BOOLEAN, Arrive(r, op, u, b)
    PROVE  IInv'
<1> DEFINE gate == IF op = "Submit" THEN 0 ELSE Gate(op, u, b)
           q == [pc |-> FirstStatement(op), op |-> op, user |-> u, ver |-> 0,
                 http |-> 0, served |-> Nil, listed |-> FALSE, saw |-> FALSE,
                 currents |-> {}, missing |-> FALSE, excuse |-> FALSE]
<1>1. /\ Step(r, IF gate # 0 THEN Answer(q, gate) ELSE Witness(q, row, Missing))
      /\ UNCHANGED cache
      /\ op = "Submit" => pin # 0
  BY DEF Arrive
<1>2. row \in RowType
  BY TypeOKParts DEF IInv
<1>3. FirstStatement(op) \in Places \ {"answered"}
  BY DEF FirstStatement, Places
<1>4. /\ q \in Request
      /\ q.pc = FirstStatement(op) /\ q.op = op /\ q.user = u /\ q.ver = 0
  BY <1>3 DEF Request, Nil, Ops
<1>5. CASE gate # 0
  <2>1. op # "Submit" /\ gate \in {400, 401} /\ gate \in Known(op)
    BY <1>5, GateKnown
  <2> HIDE DEF q, gate
  <2>2. Good(Answer(q, gate), row, Missing, pin)
    BY <1>4, <2>1, RefusedGood
  <2> QED  BY <1>1, <1>5, <2>2, StepKeeps
<1>6. CASE gate = 0
  <2> HIDE DEF q, gate
  <2> DEFINE n == Witness(q, row, Missing)
  <2>1. /\ n \in Request
        /\ n.pc = FirstStatement(op) /\ n.op = op /\ n.user = u
        /\ op \in Shows /\ Open(op, u, row) => n.saw
    BY <1>2, <1>4, WitnessFields
  <2>2. Step(r, n) /\ UNCHANGED cache
    BY <1>1, <1>6
  <2> HIDE DEF n
  <2>3. PlaceOK(n)
    BY <2>1 DEF PlaceOK, FirstStatement, Ops, ProblemOps, Reading
  <2>4. n.pc \notin Reading \cup {"artifact", "answered"}
    BY <2>1 DEF FirstStatement, Reading
  <2>5. SeenOK(n, row, pin) /\ PathOK(n, row, Missing, pin) /\ AnswerOK(n, pin)
    BY <1>1, <2>1, <2>4 DEF SeenOK, PathOK, AnswerOK
  <2>6. Good(n, row, Missing, pin)
    BY <2>1, <2>3, <2>5 DEF Good
  <2> QED  BY <2>2, <2>6, StepKeeps
<1> QED  BY <1>5, <1>6

(* A request goes on to another place with the same fields.                *)
LEMMA MovedFields ==
    ASSUME NEW q \in Request, NEW pc \in Places, NEW n, n = [q EXCEPT !.pc = pc]
    PROVE  /\ n \in Request /\ n.pc = pc
           /\ n.op = q.op /\ n.user = q.user /\ n.ver = q.ver
           /\ n.http = q.http /\ n.served = q.served /\ n.listed = q.listed
           /\ n.saw = q.saw /\ n.currents = q.currents
           /\ n.missing = q.missing /\ n.excuse = q.excuse
BY DEF Request

(* GetProblem reads the catalogue row: who may read it has seen it open.   *)
LEMMA GetCatalogStep ==
    ASSUME IInv, NEW r \in Requests, GetCatalog(r)
    PROVE  IInv'
<1> DEFINE q == req[r]
<1>1. q.pc = "catalog" /\ q.op = "GetProblem" /\ UNCHANGED cache
  BY DEF GetCatalog, At
<1>2. Good(q, row, Missing, pin)
  BY <1>1, Present DEF IInv
<1>3. q \in Request /\ row \in RowType
  BY <1>2, TypeOKParts DEF Good, IInv
<1>4. CASE row.current = 0 \/ ~MayRead(q.user)
  <2>1. Step(r, Answer(q, 404))
    BY <1>4, StatusValues, ZenonT(60) DEF GetCatalog, Refuse
  <2>2. Good(Answer(q, 404), row, Missing, pin)
    BY <1>1, <1>3, KnownProblem, RefusedGood
  <2> QED  BY <1>1, <2>1, <2>2, StepKeeps
<1>5. CASE row.current # 0 /\ MayRead(q.user)
  <2> DEFINE n == [q EXCEPT !.pc = "artifact"]
  <2>1. Step(r, n)
    BY <1>5 DEF GetCatalog
  <2>2. /\ n \in Request /\ n.pc = "artifact" /\ n.op = q.op /\ n.user = q.user
        /\ n.saw = q.saw
    BY <1>3, MovedFields DEF Places
  <2>3. Open(q.op, q.user, row)
    BY <1>1, <1>3, <1>5 DEF Open, MayRead, RowType, Visibilities
  <2>4. q.saw
    BY <1>1, <1>2, <2>3 DEF Good, SeenOK, Shows
  <2> HIDE DEF n, q
  <2>5. Good(n, row, Missing, pin)
    BY <1>1, <1>5, <2>2, <2>4 DEF Good, PlaceOK, SeenOK, PathOK, AnswerOK, Reading
  <2> QED  BY <1>1, <2>1, <2>5, StepKeeps
<1> QED  BY <1>4, <1>5

(* A request has its path: a version of the problem, noticed as the        *)
(* current one by a reader and as the game's by a submission.              *)
LEMMA PathRead ==
    ASSUME IInv, NEW r \in Requests, NEW v \in Versions, v <= row.current,
           req[r].pc \in {"artifact", "pinned"},
           req[r].op = "GetProblem" => v = row.current /\ req[r].saw,
           req[r].op = "Submit" => v = pin,
           Step(r, Witness([req[r] EXCEPT !.pc = "lookup", !.ver = v], row, Missing)),
           UNCHANGED cache
    PROVE  IInv'
<1> DEFINE q == req[r]
           m == [q EXCEPT !.pc = "lookup", !.ver = v]
           n == Witness(m, row, Missing)
<1>1. Good(q, row, Missing, pin)
  BY Present DEF IInv
<1>2. q \in Request /\ row \in RowType
  BY <1>1, TypeOKParts DEF Good, IInv
<1>3. /\ m \in Request /\ m.pc = "lookup" /\ m.ver = v
      /\ m.op = q.op /\ m.user = q.user /\ m.saw = q.saw
  BY <1>2 DEF Request, Places
<1>4. v # 0
  BY DEF Versions
<1> HIDE DEF m
<1>5. /\ n \in Request /\ n.pc = "lookup" /\ n.ver = v
      /\ n.op = q.op /\ n.user = q.user
      /\ q.saw => n.saw
      /\ q.op \in Shows /\ Open(q.op, q.user, row) => n.saw
      /\ q.op = "GetProblem" => row.current \in n.currents
      /\ v \in Missing => n.missing
  BY <1>2, <1>3, <1>4, WitnessFields
<1>6. Step(r, n)
  BY DEF m
<1>7. q.op \in {"GetProblem", "Submit"} /\ (q.op = "Submit" => pin # 0)
  BY <1>1, <1>4 DEF Good, PlaceOK
<1> HIDE DEF n
<1>8. Good(n, row, Missing, pin)
  BY <1>5, <1>7 DEF Good, PlaceOK, SeenOK, PathOK, AnswerOK, Reading
<1> QED  BY <1>6, <1>8, StepKeeps

(* GetProblem reads the path of what is the current version now.           *)
LEMMA GetArtifactStep ==
    ASSUME IInv, NEW r \in Requests, GetArtifact(r)
    PROVE  IInv'
<1>1. req[r].pc = "artifact" /\ req[r].op = "GetProblem"
  BY DEF GetArtifact, At
<1>2. Good(req[r], row, Missing, pin)
  BY <1>1, Present DEF IInv
<1>3. req[r].saw /\ row.current # 0
  BY <1>1, <1>2 DEF Good, SeenOK
<1>4. row.current \in Versions /\ row.current <= row.current
  BY <1>3, TypeOKParts DEF IInv, RowType, Versions
<1> QED  BY <1>1, <1>3, <1>4, PathRead DEF GetArtifact

(* A submission reads the path of the version its game has pinned.         *)
LEMMA GetPinnedStep ==
    ASSUME IInv, NEW r \in Requests, GetPinned(r)
    PROVE  IInv'
<1>1. req[r].pc = "pinned" /\ req[r].op = "Submit"
  BY DEF GetPinned, At
<1>2. Good(req[r], row, Missing, pin)
  BY <1>1, Present DEF IInv
<1>3. pin # 0
  BY <1>1, <1>2 DEF Good, SeenOK
<1>4. pin \in Versions /\ pin <= row.current
  BY <1>3, TypeOKParts DEF IInv, PinInv
<1> QED  BY <1>1, <1>4, PathRead DEF GetPinned, PinnedPath

(* The problem is served: the version whose path the request read.         *)
LEMMA ServedGood ==
    ASSUME NEW q, NEW r, NEW miss, NEW p, Good(q, r, miss, p), q.pc \in Reading,
           NEW n, n = [Answer(q, 200) EXCEPT !.served = q.ver]
    PROVE  Good(n, r, miss, p)
<1>1. q \in Request /\ q.ver \in Versions
  BY DEF Good, PathOK
<1> DEFINE a == Answer(q, 200)
<1>2. /\ a \in Request /\ a.pc = "answered" /\ a.http = 200 /\ a.op = q.op
      /\ a.saw = q.saw /\ a.currents = q.currents
  BY <1>1, AnswerFields
<1>3. n = [a EXCEPT !.served = q.ver]
  OBVIOUS
<1> HIDE DEF a
<1>4. /\ n \in Request /\ n.pc = "answered" /\ n.http = 200 /\ n.op = q.op
      /\ n.saw = q.saw /\ n.currents = q.currents /\ n.served = q.ver
  BY <1>1, <1>2, <1>3 DEF Request
<1>5. /\ q.op \in {"GetProblem", "Submit"}
      /\ q.op = "GetProblem" => q.saw /\ q.ver \in q.currents
      /\ q.op = "Submit" => q.ver = p /\ p # 0
  BY DEF Good, PlaceOK, PathOK, SeenOK, Reading, Versions
<1>6. AnswerOK(n, p)
  BY <1>4, <1>5, KnownProblem DEF AnswerOK
<1> QED  BY <1>4, <1>6, AnsweredGood
(* GetByPath finds the version in the cache, which never has another one.  *)
LEMMA LookupStep ==
    ASSUME IInv, NEW r \in Requests, Lookup(r)
    PROVE  IInv'
<1> DEFINE q == req[r]
<1>1. q.pc = "lookup" /\ UNCHANGED cache
  BY DEF Lookup
<1>2. Good(q, row, Missing, pin)
  BY <1>1, Present DEF IInv
<1>3. q \in Request /\ q.ver \in Versions
  BY <1>1, <1>2 DEF Good, PathOK, Reading
<1>4. cache[q.ver] \in {q.ver, NotCached}
  BY <1>3 DEF IInv, CacheInv
<1>5. CASE cache[q.ver] # NotCached
  <2>1. cache[q.ver] = q.ver /\ q.ver # Nil
    BY <1>3, <1>4, <1>5 DEF Nil, Versions
  <2>2. Serve(r, q.ver)
    BY <1>5, <2>1 DEF Lookup, Key
  <2> DEFINE n == [Answer(q, 200) EXCEPT !.served = q.ver]
  <2>3. Step(r, n)
    BY <2>1, <2>2 DEF Serve
  <2>4. Good(n, row, Missing, pin)
    BY <1>1, <1>2, ServedGood DEF Reading
  <2> QED  BY <1>1, <2>3, <2>4, StepKeeps
<1>6. CASE cache[q.ver] = NotCached
  <2> DEFINE n == [q EXCEPT !.pc = "load"]
  <2>1. Step(r, n)
    BY <1>6 DEF Lookup, Key
  <2>2. /\ n \in Request /\ n.pc = "load" /\ n.op = q.op /\ n.user = q.user
        /\ n.ver = q.ver /\ n.saw = q.saw /\ n.currents = q.currents
        /\ n.missing = q.missing
    BY <1>3, MovedFields DEF Places
  <2> HIDE DEF n, q
  <2>3. Good(n, row, Missing, pin)
    BY <1>1, <1>2, <2>2 DEF Good, PlaceOK, SeenOK, PathOK, AnswerOK, Reading
  <2> QED  BY <1>1, <2>1, <2>3, StepKeeps
<1> QED  BY <1>5, <1>6

(* A load that finds no files is one the request knows to be missing.      *)
LEMMA LoadStep ==
    ASSUME IInv, NEW r \in Requests, Load(r)
    PROVE  IInv'
<1> DEFINE q == req[r]
<1>1. q.pc = "load" /\ UNCHANGED cache
  BY DEF Load
<1>2. Good(q, row, Missing, pin)
  BY <1>1, Present DEF IInv
<1>3. q \in Request /\ q.ver \in Versions /\ q.ver <= row.current
  BY <1>1, <1>2 DEF Good, PathOK, Reading
<1>4. CASE HasFiles(q.ver)
  <2> DEFINE n == [q EXCEPT !.pc = "store", !.served = q.ver]
  <2>1. Step(r, n)
    BY <1>4 DEF Load
  <2>2. /\ n \in Request /\ n.pc = "store" /\ n.op = q.op /\ n.user = q.user
        /\ n.ver = q.ver /\ n.saw = q.saw /\ n.currents = q.currents
        /\ n.missing = q.missing /\ n.served = q.ver
    BY <1>3 DEF Request, Places
  <2> HIDE DEF n, q
  <2>3. Good(n, row, Missing, pin)
    BY <1>1, <1>2, <2>2 DEF Good, PlaceOK, SeenOK, PathOK, AnswerOK, Reading
  <2> QED  BY <1>1, <2>1, <2>3, StepKeeps
<1>5. CASE ~HasFiles(q.ver)
  <2>1. Step(r, Answer(q, 500))
    BY <1>5, StatusValues, ZenonT(60) DEF Load, Refuse
  <2>2. ~(row.current < q.ver)
    BY <1>3, TypeOKParts DEF IInv, RowType, Versions
  <2>3. phase[q.ver] # "none"
    BY <1>3, <2>2 DEF IInv, PhaseInv
  <2>4. q.ver \in Missing
    BY <1>3, <1>5, <2>3, TypeOKParts DEF IInv, Missing, HasFiles
  <2>5. q.missing
    BY <1>1, <1>2, <2>4 DEF Good, PathOK, Reading
  <2>6. Good(Answer(q, 500), row, Missing, pin)
    BY <1>3, <2>5, FailedGood
  <2> QED  BY <1>1, <2>1, <2>6, StepKeeps
<1> QED  BY <1>4, <1>5

(* The loaded version is stored under its own path.                        *)
LEMMA StoreStep ==
    ASSUME IInv, NEW r \in Requests, Store(r)
    PROVE  IInv'
<1> DEFINE q == req[r]
<1>1. q.pc = "store"
  BY DEF Store
<1>2. Good(q, row, Missing, pin)
  BY <1>1, Present DEF IInv
<1>3. q \in Request /\ q.ver \in Versions /\ q.served = q.ver
  BY <1>1, <1>2 DEF Good, PathOK, Reading
<1>4. cache' = [cache EXCEPT ![q.ver] = q.ver]
  BY <1>3 DEF Store, Key
<1>5. cache' \in [Versions -> Versions \cup {Nil, NotCached}] /\ CacheInv'
  BY <1>3, <1>4, TypeOKParts DEF IInv, CacheInv
<1> DEFINE n == [Answer(q, 200) EXCEPT !.served = q.ver]
<1>6. q.ver # Nil
  BY <1>3 DEF Versions, Nil
<1>7. Step(r, n)
  BY <1>3, <1>6 DEF Store, Serve
<1>8. Good(n, row, Missing, pin)
  BY <1>1, <1>2, ServedGood DEF Reading
<1>9. faults' \in 0..MaxFaults
  BY <1>7, TypeOKParts DEF IInv, Step
<1> QED  BY <1>5, <1>7, <1>8, <1>9, OneRequest DEF Step

(* PatchProblem reads the owner.                                           *)
LEMMA ReadOwnerStep ==
    ASSUME IInv, NEW r \in Requests, ReadOwner(r)
    PROVE  IInv'
<1> DEFINE q == req[r]
<1>1. q.pc = "catalog" /\ q.op = "PatchProblem" /\ UNCHANGED cache
  BY DEF ReadOwner, At
<1>2. Good(q, row, Missing, pin)
  BY <1>1, Present DEF IInv
<1>3. q \in Request
  BY <1>2 DEF Good
<1> DEFINE n == [q EXCEPT !.pc = "update"]
<1>4. Step(r, Answer(q, 404)) \/ Step(r, Answer(q, 403)) \/ Step(r, n)
  BY StatusValues, ZenonT(60) DEF ReadOwner, Refuse
<1>5. Good(Answer(q, 404), row, Missing, pin) /\ Good(Answer(q, 403), row, Missing, pin)
  BY <1>1, <1>3, KnownProblem, RefusedGood
<1>6. n \in Request /\ n.pc = "update" /\ n.op = "PatchProblem"
  BY <1>1, <1>3, MovedFields DEF Places
<1>7. Good(n, row, Missing, pin)
  <2> HIDE DEF n
  <2> QED  BY <1>6 DEF Good, PlaceOK, SeenOK, PathOK, AnswerOK, Reading, Shows
<1> HIDE DEF n
<1> QED  BY <1>1, <1>4, <1>5, <1>7, StepKeeps

(* What an excuse leaves of an answer.                                     *)
LEMMA ExcuseFields ==
    ASSUME NEW a \in Request, NEW e \in BOOLEAN, NEW n, n = [a EXCEPT !.excuse = e]
    PROVE  n \in Request /\ n.pc = a.pc /\ n.http = a.http /\ n.excuse = e
BY DEF Request

(* A request that fails with an excuse of its own.                         *)
LEMMA ExcusedGood ==
    ASSUME NEW q \in Request, NEW r, NEW miss, NEW p,
           NEW n, n = [Answer(q, 500) EXCEPT !.excuse = TRUE]
    PROVE  Good(n, r, miss, p)
<1> DEFINE a == Answer(q, 500)
<1>1. a \in Request /\ a.pc = "answered" /\ a.http = 500
  BY AnswerFields
<1>2. n = [a EXCEPT !.excuse = TRUE]
  OBVIOUS
<1> HIDE DEF a
<1>3. n \in Request /\ n.pc = "answered" /\ n.http = 500 /\ n.excuse
  <2>1. n \in Request /\ n.pc = a.pc /\ n.http = a.http /\ n.excuse = TRUE
    BY <1>1, <1>2, ExcuseFields, ZenonT(60)
  <2> QED  BY <1>1, <2>1
<1>4. n.http # 200 /\ n.http # 201
  BY <1>3
<1>5. AnswerOK(n, p)
  <2>1. n.http = 500 => n.excuse \/ n.missing
    BY <1>3
  <2>2. /\ ~(n.http = 200 /\ n.op = "GetProblem")
        /\ ~(n.http = 200 /\ n.op = "ListProblems" /\ n.listed)
        /\ ~(n.http = 200 /\ n.op = "Submit")
        /\ ~(n.http = 201) /\ ~(n.http # 500 /\ n.op # "Submit")
    BY <1>3, <1>4
  <2> QED  BY <2>1, <2>2 DEF AnswerOK
<1> QED  BY <1>3, <1>5, AnsweredGood, ZenonT(60)

(* ListProblems counts, then lists what is public now.                     *)
LEMMA CountProblemsStep ==
    ASSUME IInv, NEW r \in Requests, CountProblems(r)
    PROVE  IInv'
<1> DEFINE q == req[r]
           n == [q EXCEPT !.pc = "list"]
<1>1. q.pc = "count" /\ q.op = "ListProblems" /\ UNCHANGED cache /\ Step(r, n)
  BY DEF CountProblems, At
<1>2. Good(q, row, Missing, pin)
  BY <1>1, Present DEF IInv
<1>3. q \in Request
  BY <1>2 DEF Good
<1>4. /\ n \in Request /\ n.pc = "list" /\ n.op = q.op /\ n.user = q.user
      /\ n.saw = q.saw
  BY <1>3, MovedFields DEF Places
<1>5. Good(n, row, Missing, pin)
  <2> HIDE DEF n, q
  <2> QED  BY <1>1, <1>2, <1>4 DEF Good, PlaceOK, SeenOK, PathOK, AnswerOK, Reading
<1> HIDE DEF n
<1> QED  BY <1>1, <1>5, StepKeeps

(* What a list leaves of an answer.                                        *)
LEMMA ListedFields ==
    ASSUME NEW a \in Request, NEW b \in BOOLEAN, NEW n, n = [a EXCEPT !.listed = b]
    PROVE  /\ n \in Request /\ n.pc = a.pc /\ n.http = a.http /\ n.op = a.op
           /\ n.saw = a.saw /\ n.listed = b
BY DEF Request

(* A page is answered rightly if it is empty, or its user has seen the     *)
(* problem open, or it lists the user's own problems.                      *)
LEMMA ListedGood ==
    ASSUME NEW q \in Request, q.op \in {"ListProblems", "ListMyProblems"},
           NEW r, NEW miss, NEW p, NEW n,
           \/ n = [Answer(q, 200) EXCEPT !.listed = FALSE]
           \/ /\ n = [Answer(q, 200) EXCEPT !.listed = TRUE]
              /\ q.op = "ListMyProblems" \/ q.saw
    PROVE  Good(n, r, miss, p)
<1> DEFINE a == Answer(q, 200)
<1>1. /\ a \in Request /\ a.pc = "answered" /\ a.http = 200 /\ a.op = q.op
      /\ a.saw = q.saw
  BY AnswerFields
<1>2. \/ n = [a EXCEPT !.listed = FALSE]
      \/ n = [a EXCEPT !.listed = TRUE] /\ (q.op = "ListMyProblems" \/ q.saw)
  OBVIOUS
<1> HIDE DEF a
<1>3. CASE n = [a EXCEPT !.listed = FALSE]
  <2>1. /\ n \in Request /\ n.pc = a.pc /\ n.http = a.http /\ n.op = a.op
        /\ n.saw = a.saw /\ n.listed = FALSE
    BY <1>1, <1>3, ListedFields, ZenonT(60)
  <2>2. AnswerOK(n, p)
    BY <1>1, <2>1, KnownProblem DEF AnswerOK
  <2> QED  BY <1>1, <2>1, <2>2, AnsweredGood
<1>4. CASE n = [a EXCEPT !.listed = TRUE] /\ (q.op = "ListMyProblems" \/ q.saw)
  <2>1. /\ n \in Request /\ n.pc = a.pc /\ n.http = a.http /\ n.op = a.op
        /\ n.saw = a.saw
    BY <1>1, <1>4, ListedFields, ZenonT(60)
  <2>2. AnswerOK(n, p)
    BY <1>1, <1>4, <2>1, KnownProblem DEF AnswerOK
  <2> QED  BY <1>1, <2>1, <2>2, AnsweredGood
<1> QED  BY <1>2, <1>3, <1>4

(* The page: what is on it is public at this moment, and a page parameter  *)
(* that fails is beyond an int32.                                          *)
LEMMA ListPublicProblemsStep ==
    ASSUME IInv, NEW r \in Requests, ListPublicProblems(r)
    PROVE  IInv'
<1> DEFINE q == req[r]
<1>1. q.pc = "list" /\ q.op = "ListProblems" /\ UNCHANGED cache
  BY DEF ListPublicProblems, At
<1>2. Good(q, row, Missing, pin)
  BY <1>1, Present DEF IInv
<1>3. q \in Request
  BY <1>2 DEF Good
<1>4. PICK l \in PageArguments, o \in PageArguments :
         Step(r, IF Limit(l) < 0 \/ Int32(IF o >= 0 THEN o ELSE 0) < 0
                 THEN [Refuse(q, "must not be negative") EXCEPT
                          !.excuse = l >= 2^(Width - 1) \/ o >= 2^(Width - 1)]
                 ELSE [Answer(q, 200) EXCEPT
                          !.listed = /\ row.current # 0
                                     /\ row.visibility = "public"
                                     /\ Limit(l) > 0
                                     /\ Int32(IF o >= 0 THEN o ELSE 0) = 0])
  BY DEF ListPublicProblems
<1> DEFINE bad == Limit(l) < 0 \/ Int32(IF o >= 0 THEN o ELSE 0) < 0
           e == l >= 2^(Width - 1) \/ o >= 2^(Width - 1)
           b == /\ row.current # 0
                /\ row.visibility = "public"
                /\ Limit(l) > 0
                /\ Int32(IF o >= 0 THEN o ELSE 0) = 0
<1>5. CASE bad
  <2> DEFINE n == [Answer(q, 500) EXCEPT !.excuse = TRUE]
  <2>1. e
    BY <1>5, PageOverflow
  <2>2. Step(r, n)
    <3>1. Step(r, [Refuse(q, "must not be negative") EXCEPT !.excuse = e])
      BY <1>4, <1>5, Zenon
    <3>2. e = TRUE
      BY <2>1, Zenon
    <3> HIDE DEF e
    <3>3. Step(r, [Refuse(q, "must not be negative") EXCEPT !.excuse = TRUE])
      BY <3>1, <3>2, Zenon
    <3> QED  BY <3>3, StatusValues, ZenonT(60) DEF Refuse
  <2>3. Good(n, row, Missing, pin)
    BY <1>3, ExcusedGood
  <2> QED  BY <1>1, <2>2, <2>3, StepKeeps
<1>6. CASE ~bad
  <2>1. Step(r, [Answer(q, 200) EXCEPT !.listed = b])
    BY <1>4, <1>6, Zenon
  <2>2. b => q.saw
    BY <1>1, <1>2 DEF Good, SeenOK, Shows, Open
  <2>5. b \in BOOLEAN
    OBVIOUS
  <2> HIDE DEF b
  <2>3. CASE b
    <3>1. Step(r, [Answer(q, 200) EXCEPT !.listed = TRUE])
      BY <2>1, <2>3, Zenon
    <3>2. Good([Answer(q, 200) EXCEPT !.listed = TRUE], row, Missing, pin)
      BY <1>1, <1>3, <2>2, <2>3, ListedGood
    <3> QED  BY <1>1, <3>1, <3>2, StepKeeps
  <2>4. CASE ~b
    <3>1. Step(r, [Answer(q, 200) EXCEPT !.listed = FALSE])
      BY <2>1, <2>4, <2>5, Zenon
    <3>2. Good([Answer(q, 200) EXCEPT !.listed = FALSE], row, Missing, pin)
      BY <1>1, <1>3, ListedGood
    <3> QED  BY <1>1, <3>1, <3>2, StepKeeps
  <2> QED  BY <2>3, <2>4
<1> QED  BY <1>5, <1>6

(* The user's own problems.                                                *)
LEMMA ListMyProblemsStep ==
    ASSUME IInv, NEW r \in Requests, ListMyProblems(r)
    PROVE  IInv'
<1> DEFINE q == req[r]
           b == row.current # 0 /\ row.owner = q.user
<1>1. /\ q.pc = "mine" /\ UNCHANGED cache
      /\ Step(r, [Answer(q, 200) EXCEPT !.listed = b])
  BY DEF ListMyProblems, At
<1>2. Good(q, row, Missing, pin)
  BY <1>1, Present DEF IInv
<1>3. q \in Request /\ q.op = "ListMyProblems"
  BY <1>1, <1>2 DEF Good, PlaceOK
<1>6. b \in BOOLEAN
  OBVIOUS
<1> HIDE DEF b
<1>4. CASE b
  <2>1. Step(r, [Answer(q, 200) EXCEPT !.listed = TRUE])
    BY <1>1, <1>4, Zenon
  <2>2. Good([Answer(q, 200) EXCEPT !.listed = TRUE], row, Missing, pin)
    BY <1>3, ListedGood
  <2> QED  BY <1>1, <2>1, <2>2, StepKeeps
<1>5. CASE ~b
  <2>1. Step(r, [Answer(q, 200) EXCEPT !.listed = FALSE])
    BY <1>1, <1>5, <1>6, Zenon
  <2>2. Good([Answer(q, 200) EXCEPT !.listed = FALSE], row, Missing, pin)
    BY <1>3, ListedGood
  <2> QED  BY <1>1, <2>1, <2>2, StepKeeps
<1> QED  BY <1>4, <1>5
(* CreateGame pins a version: the first game's stays.                      *)
LEMMA ResolveProblemVersionStep ==
    ASSUME IInv, NEW r \in Requests, ResolveProblemVersion(r)
    PROVE  IInv'
<1> DEFINE q == req[r]
<1>1. /\ q.pc = "catalog" /\ q.op = "CreateGame"
      /\ UNCHANGED <<row, phase, cache, faults>>
  BY DEF ResolveProblemVersion, At
<1>2. Good(q, row, Missing, pin)
  BY <1>1, Present DEF IInv
<1>3. TypeOK /\ PhaseInv /\ CacheInv /\ PinInv /\ RequestInv
  BY DEF IInv
<1>4. q \in Request /\ row \in RowType /\ pin \in Versions \cup {0}
      /\ req \in [Requests -> {Free} \cup Request]
  BY <1>2, <1>3, TypeOKParts DEF Good
<1>5. CASE row.current = 0 \/ ~MayRead(q.user)
  <2>1. req' = [req EXCEPT ![r] = Answer(q, 404)] /\ UNCHANGED pin
    BY <1>4, <1>5, StatusValues, ZenonT(60) DEF ResolveProblemVersion, Refuse
  <2>2. Good(Answer(q, 404), row, Missing, pin)
    BY <1>1, <1>4, KnownProblem, RefusedGood
  <2> QED  BY <1>1, <2>1, <2>2, StepKeeps, ZenonT(60) DEF Step
<1>6. CASE row.current # 0 /\ MayRead(q.user)
  <2> DEFINE a == Answer(q, 201)
             n == [a EXCEPT !.served = row.current]
  <2>1. req' = [req EXCEPT ![r] = n] /\ pin' = IF pin = 0 THEN row.current ELSE pin
    BY <1>4, <1>6 DEF ResolveProblemVersion
  <2>2. row.current \in Versions
    BY <1>4, <1>6 DEF RowType
  <2>3. a \in Request /\ a.pc = "answered" /\ a.http = 201 /\ a.op = q.op /\ a.saw = q.saw
    BY <1>4, AnswerFields
  <2>4. n \in Request /\ n.pc = "answered" /\ n.http = 201 /\ n.op = q.op /\ n.saw = q.saw
    <3> HIDE DEF a
    <3> QED  BY <2>2, <2>3 DEF Request
  <2>5. Open(q.op, q.user, row)
    BY <1>1, <1>4, <1>6 DEF Open, MayRead, RowType, Visibilities
  <2>6. q.saw
    BY <1>1, <1>2, <2>5 DEF Good, SeenOK, Shows
  <2> HIDE DEF n, q
  <2>7. AnswerOK(n, pin')
    BY <1>1, <2>4, <2>6, KnownProblem DEF AnswerOK
  <2>8. Good(n, row, Missing, pin')
    BY <2>4, <2>7, AnsweredGood
  <2>9. pin' \in Versions \cup {0} /\ pin' <= row.current /\ (pin # 0 => pin' = pin)
    <3>1. CASE pin = 0
      BY <2>1, <2>2, <3>1 DEF Versions
    <3>2. CASE pin # 0
      BY <1>3, <1>4, <2>1, <3>2 DEF PinInv
    <3> QED  BY <3>1, <3>2
  <2>10. req' \in [Requests -> {Free} \cup Request]
    BY <1>4, <2>1, <2>4
  <2>11. TypeOK'
    BY <1>1, <1>3, <2>9, <2>10 DEF TypeOK
  <2>12. PhaseInv' /\ CacheInv' /\ PinInv'
    BY <1>1, <1>3, <2>9 DEF PhaseInv, CacheInv, PinInv
  <2>13. Missing' = Missing
    BY <1>1 DEF Missing
  <2>14. RequestInv'
    <3> SUFFICES ASSUME NEW x \in Requests
                 PROVE  req'[x] = Free \/ Good(req'[x], row, Missing, pin')
      BY <1>1, <2>13 DEF RequestInv, Good, SeenOK, PathOK, AnswerOK
    <3>1. req'[x] = IF x = r THEN n ELSE req[x]
      BY <1>4, <2>1
    <3>2. req[x] = Free \/ Good(req[x], row, Missing, pin)
      BY <1>3 DEF RequestInv
    <3>3. Good(req[x], row, Missing, pin) => Good(req[x], row, Missing, pin')
      BY <2>9, LeftGood
    <3> QED  BY <2>8, <3>1, <3>2, <3>3
  <2> QED  BY <2>11, <2>12, <2>14 DEF IInv
<1> QED  BY <1>5, <1>6

(* A statement fails: the request has its excuse, or takes the failure for *)
(* a problem that is not there.                                            *)
LEMMA FailStep ==
    ASSUME IInv, NEW r \in Requests, Fail(r)
    PROVE  IInv'
<1> DEFINE q == req[r]
           n == IF q.pc = "artifact" THEN Refuse(q, "PROBLEM_NOT_FOUND")
                ELSE [Answer(q, 500) EXCEPT !.excuse = TRUE]
<1>1. /\ q.pc # "free" /\ faults < MaxFaults /\ faults' = faults + 1
      /\ UNCHANGED <<row, phase, cache, pin>>
  BY DEF Fail
<1>2. Good(q, row, Missing, pin)
  BY <1>1, Present DEF IInv
<1>3. q \in Request
  BY <1>2 DEF Good
<1>4. req' = [req EXCEPT ![r] = n]
  <2>1. req \in [Requests -> {Free} \cup Request]
    BY TypeOKParts DEF IInv
  <2> QED  BY <2>1 DEF Fail
<1>5. Good(n, row, Missing, pin)
  <2>1. CASE q.pc = "artifact"
    <3>1. q.op = "GetProblem"
      BY <1>2, <2>1 DEF Good, PlaceOK
    <3>2. Good(Answer(q, 404), row, Missing, pin)
      BY <1>3, <3>1, KnownProblem, RefusedGood
    <3> QED  BY <2>1, <3>2, StatusValues, ZenonT(60) DEF Refuse
  <2>2. CASE q.pc # "artifact"
    BY <1>3, <2>2, ExcusedGood
  <2> QED  BY <2>1, <2>2
<1>6. faults' \in 0..MaxFaults
  BY <1>1, TypeOKParts, ProblemApiAssumption DEF IInv
<1>7. cache' \in [Versions -> Versions \cup {Nil, NotCached}] /\ CacheInv'
  BY <1>1, TypeOKParts DEF IInv, CacheInv
<1> HIDE DEF n
<1> QED  BY <1>1, <1>4, <1>5, <1>6, <1>7, OneRequest

(* An answer leaves.                                                       *)
LEMMA ReturnStep ==
    ASSUME IInv, NEW r \in Requests, Return(r)
    PROVE  IInv'
BY StepKeeps DEF Return

-----------------------------------------------------------------------------
(* The problem changes *)

(* A change of the row that all requests under way notice, but for one     *)
(* that is answered.                                                       *)
LEMMA RowChanges ==
    ASSUME IInv, row' \in RowType, row.current <= row'.current,
           phase' \in [Versions -> {"none", "committed", "moved", "done", "lost"}],
           PhaseInv', UNCHANGED <<cache, pin, faults>>,
           \A x \in Requests :
              \/ req'[x] = Free
              \/ Good(req'[x], row', Missing', pin)
              \/ req[x] # Free /\ req'[x] = Witness(req[x], row', Missing'),
           req' = [x \in Requests |-> req'[x]]
    PROVE  IInv'
<1>1. /\ TypeOK /\ RequestInv /\ CacheInv /\ PinInv
      /\ row \in RowType /\ pin \in Versions \cup {0}
  BY TypeOKParts DEF IInv
<1>2. \A x \in Requests : req'[x] = Free \/ Good(req'[x], row', Missing', pin)
  <2> TAKE x \in Requests
  <2>1. req[x] # Free /\ req'[x] = Witness(req[x], row', Missing')
           => Good(req'[x], row', Missing', pin)
    BY <1>1, WitnessGood DEF RequestInv
  <2> QED  BY <2>1
<1>3. RequestInv'
  BY <1>2 DEF RequestInv, Good, SeenOK, PathOK, AnswerOK
<1>4. req' \in [Requests -> {Free} \cup Request]
  BY <1>2 DEF Good
<1>5. TypeOK'
  BY <1>1, <1>4 DEF TypeOK
<1>6. PinInv' /\ CacheInv'
  <2>1. row.current \in Nat /\ row'.current \in Nat /\ pin \in Nat
    BY <1>1 DEF RowType, Versions
  <2> QED  BY <1>1, <2>1 DEF PinInv, CacheInv
<1> QED  BY <1>3, <1>5, <1>6 DEF IInv

(* PatchProblem updates: the others notice, its own request is answered.   *)
LEMMA UpdateVisibilityStep ==
    ASSUME IInv, NEW r \in Requests, UpdateVisibility(r)
    PROVE  IInv'
<1> DEFINE q == req[r]
<1>1. q.pc = "update" /\ q.op = "PatchProblem"
  BY DEF UpdateVisibility, At
<1>2. Good(q, row, Missing, pin)
  BY <1>1, Present DEF IInv
<1>3. q \in Request /\ row \in RowType
  BY <1>2, TypeOKParts DEF Good, IInv
<1>4. CASE /\ Step(r, [Refuse(q, "check constraint") EXCEPT !.excuse = TRUE])
           /\ UNCHANGED cache
  <2> DEFINE n == [Answer(q, 500) EXCEPT !.excuse = TRUE]
  <2>1. Step(r, n)
    BY <1>4, StatusValues, ZenonT(60) DEF Refuse
  <2>2. Good(n, row, Missing, pin)
    BY <1>3, ExcusedGood
  <2> QED  BY <1>4, <2>1, <2>2, StepKeeps, ZenonT(60)
<1>5. ASSUME NEW vis \in Visibilities,
             row' = [row EXCEPT !.visibility = vis],
             UNCHANGED <<phase, cache, pin, faults>>,
             req' = [x \in Requests |->
                        IF x = r THEN Answer(req[r], 200)
                        ELSE IF req[x].pc = "free" THEN req[x]
                        ELSE Witness(req[x], row', Missing)]
      PROVE  IInv'
  <2>1. row' \in RowType /\ row'.current = row.current /\ row.current \in Nat
    BY <1>3, <1>5 DEF RowType, Versions
  <2>2. Missing' = Missing
    BY <1>5 DEF Missing
  <2>3. phase' \in [Versions -> {"none", "committed", "moved", "done", "lost"}]
    BY <1>5, TypeOKParts DEF IInv
  <2>4. PhaseInv'
    BY <1>5, <2>1 DEF IInv, PhaseInv
  <2> DEFINE n == Answer(q, 200)
  <2>5. n \in Request /\ n.pc = "answered" /\ n.http = 200 /\ n.op = q.op
    BY <1>3, AnswerFields
  <2>6. Good(n, row', Missing', pin)
    <3> HIDE DEF n
    <3>1. AnswerOK(n, pin)
      BY <1>1, <2>5, KnownProblem DEF AnswerOK
    <3> QED  BY <2>5, <3>1, AnsweredGood
  <2>7. \A x \in Requests : req[x].pc = "free" => req[x] = Free
    BY DEF IInv, RequestInv, Good, Request, Places
  <2>8. ASSUME NEW x \in Requests
        PROVE  \/ req'[x] = Free
               \/ Good(req'[x], row', Missing', pin)
               \/ req[x] # Free /\ req'[x] = Witness(req[x], row', Missing')
    <3>1. CASE x = r
      BY <1>5, <2>6, <3>1
    <3>2. CASE x # r /\ req[x].pc = "free"
      BY <1>5, <2>7, <3>2
    <3>3. CASE x # r /\ req[x].pc # "free"
      BY <1>5, <2>2, <3>3 DEF Free
    <3> QED  BY <3>1, <3>2, <3>3
  <2>9. req' = [x \in Requests |-> req'[x]]
    BY <1>5
  <2>10. row.current <= row'.current
    BY <2>1
  <2> QED  BY <1>5, <2>1, <2>3, <2>4, <2>8, <2>9, <2>10, RowChanges
<1> QED  BY <1>4, <1>5 DEF UpdateVisibility

(* A version is committed.  A request without a path cannot miss it.       *)
LEMMA UploadsCommitted ==
    ASSUME IInv, row' \in RowType, row'.current = row.current + 1,
           phase' = [phase EXCEPT ![row'.current] = "committed"],
           WitnessAll, UNCHANGED <<cache, pin, faults>>
    PROVE  IInv'
<1>1. /\ row \in RowType
      /\ phase \in [Versions -> {"none", "committed", "moved", "done", "lost"}]
  BY TypeOKParts DEF IInv
<1>2. row.current \in Nat /\ row'.current \in Versions
  BY <1>1 DEF RowType, Versions
<1>3. phase' \in [Versions -> {"none", "committed", "moved", "done", "lost"}]
  BY <1>1
<1>4. PhaseInv'
  <2> SUFFICES ASSUME NEW v \in Versions
               PROVE  phase'[v] = "none" <=> row.current + 1 < v
    BY DEF PhaseInv
  <2>1. phase[v] = "none" <=> row.current < v
    BY DEF IInv, PhaseInv
  <2>2. v \in Nat
    BY DEF Versions
  <2>3. CASE v = row.current + 1
    BY <1>1, <1>2, <2>3
  <2>4. CASE v # row.current + 1
    BY <1>1, <1>2, <2>1, <2>2, <2>4
  <2> QED  BY <2>3, <2>4
<1>5. \A x \in Requests : req[x].pc = "free" => req[x] = Free
  BY DEF IInv, RequestInv, Good, Request, Places
<1>6. \A x \in Requests :
          \/ req'[x] = Free
          \/ Good(req'[x], row', Missing', pin)
          \/ req[x] # Free /\ req'[x] = Witness(req[x], row', Missing')
  BY <1>5 DEF WitnessAll, Free
<1>7. req' = [x \in Requests |-> req'[x]]
  BY DEF WitnessAll
<1>8. row.current <= row'.current
  BY <1>2
<1> QED  BY <1>3, <1>4, <1>6, <1>7, <1>8, RowChanges

(* The two transactions that commit a version.                             *)
LEMMA UploadSteps ==
    ASSUME IInv,
           \/ \E u \in Users, vis \in Visibilities : Upload(u, vis)
           \/ UploadVersion
    PROVE  IInv'
<1>1. row \in RowType
  BY TypeOKParts DEF IInv
<1>2. ASSUME NEW u \in Users, NEW vis \in Visibilities, Upload(u, vis)
      PROVE  IInv'
  <2>1. row.current = 0 /\ row' = [owner |-> u, visibility |-> vis, current |-> 1]
    BY <1>2 DEF Upload
  <2>2. row' \in RowType /\ row'.current = 1
    BY <2>1, ProblemApiAssumption DEF RowType, Versions
  <2>3. row'.current = row.current + 1
    BY <2>1, <2>2
  <2>4. /\ phase' = [phase EXCEPT ![row'.current] = "committed"]
        /\ WitnessAll /\ UNCHANGED <<cache, pin, faults>>
    BY <1>2, <2>2 DEF Upload
  <2> QED  BY <2>2, <2>3, <2>4, UploadsCommitted
<1>3. ASSUME UploadVersion
      PROVE  IInv'
  <2>1. row.current \in 1..(MaxVersion - 1) /\ row' = [row EXCEPT !.current = @ + 1]
    BY <1>3 DEF UploadVersion
  <2>2. row.current + 1 \in Versions
    BY <2>1, ProblemApiAssumption DEF Versions
  <2>3. row' \in RowType /\ row'.current = row.current + 1
    BY <1>1, <2>1, <2>2 DEF RowType
  <2>4. /\ phase' = [phase EXCEPT ![row'.current] = "committed"]
        /\ WitnessAll /\ UNCHANGED <<cache, pin, faults>>
    BY <1>3, <2>3 DEF UploadVersion
  <2> QED  BY <2>3, <2>4, UploadsCommitted
<1> QED  BY <1>2, <1>3
(* Files come or fail to come, and a path is forgotten: nothing that had   *)
(* files loses them, so no request has to notice.                          *)
LEMMA FilesChange ==
    ASSUME IInv, NEW v \in Versions, NEW ph \in {"moved", "done", "lost"},
           phase[v] # "none", phase' = [phase EXCEPT ![v] = ph],
           ph = "lost" => v \in Missing,
           UNCHANGED <<row, pin, req>>,
           faults' \in 0..MaxFaults,
           cache' \in [Versions -> Versions \cup {Nil, NotCached}],
           CacheInv'
    PROVE  IInv'
<1>1. /\ TypeOK /\ PhaseInv /\ PinInv /\ RequestInv
      /\ phase \in [Versions -> {"none", "committed", "moved", "done", "lost"}]
  BY TypeOKParts DEF IInv
<1>2. TypeOK'
  BY <1>1 DEF TypeOK
<1>3. PhaseInv' /\ PinInv'
  BY <1>1 DEF PhaseInv, PinInv
<1>4. Missing' \in SUBSET Missing
  <2> SUFFICES ASSUME NEW w \in Versions, phase'[w] \in {"committed", "lost"}
               PROVE  phase[w] \in {"committed", "lost"}
    BY DEF Missing
  <2> QED  BY <1>1 DEF Missing
<1>5. RequestInv'
  <2> SUFFICES ASSUME NEW x \in Requests
               PROVE  req[x] = Free \/ Good(req[x], row, Missing', pin)
    BY DEF RequestInv, Good, SeenOK, PathOK, AnswerOK
  <2>1. req[x] = Free \/ Good(req[x], row, Missing, pin)
    BY <1>1 DEF RequestInv
  <2> QED  BY <1>4, <2>1, LeftGood
<1> QED  BY <1>2, <1>3, <1>5 DEF IInv

(* The files of a version are moved into place, or the move fails.         *)
LEMMA MoveStep ==
    ASSUME IInv, NEW v \in Versions, Move(v)
    PROVE  IInv'
<1>1. phase[v] = "committed" /\ UNCHANGED <<row, cache, pin, req>>
  BY DEF Move
<1>2. v \in Missing /\ phase[v] # "none"
  BY <1>1 DEF Missing
<1>3. cache' \in [Versions -> Versions \cup {Nil, NotCached}] /\ CacheInv'
  BY <1>1, TypeOKParts DEF IInv, CacheInv
<1>4. faults \in 0..MaxFaults
  BY TypeOKParts DEF IInv
<1>5. CASE phase' = [phase EXCEPT ![v] = "moved"] /\ UNCHANGED faults
  BY <1>1, <1>2, <1>3, <1>4, <1>5, FilesChange
<1>6. CASE /\ faults < MaxFaults /\ faults' = faults + 1
           /\ phase' = [phase EXCEPT ![v] = "lost"]
  <2>1. faults' \in 0..MaxFaults
    BY <1>4, <1>6, ProblemApiAssumption
  <2> QED  BY <1>1, <1>2, <1>3, <1>6, <2>1, FilesChange
<1> QED  BY <1>5, <1>6 DEF Move

(* The cache forgets the path.                                             *)
LEMMA EvictStep ==
    ASSUME IInv, NEW v \in Versions, Evict(v)
    PROVE  IInv'
<1>1. /\ phase[v] = "moved" /\ phase' = [phase EXCEPT ![v] = "done"]
      /\ cache' = [cache EXCEPT ![v] = NotCached]
      /\ UNCHANGED <<row, pin, req, faults>>
  BY DEF Evict, Key
<1>2. cache' \in [Versions -> Versions \cup {Nil, NotCached}] /\ CacheInv'
  BY <1>1, TypeOKParts DEF IInv, CacheInv
<1>3. faults' \in 0..MaxFaults
  BY <1>1, TypeOKParts DEF IInv
<1> QED  BY <1>1, <1>2, <1>3, FilesChange

(* The server restarts: nothing is under way and nothing is cached.        *)
LEMMA RestartStep ==
    ASSUME IInv, Restart
    PROVE  IInv'
<1>1. /\ TypeOK /\ PhaseInv /\ PinInv
      /\ phase \in [Versions -> {"none", "committed", "moved", "done", "lost"}]
      /\ faults \in 0..MaxFaults
  BY TypeOKParts DEF IInv
<1>2. faults' \in 0..MaxFaults
  BY <1>1, ProblemApiAssumption DEF Restart
<1>3. /\ phase' \in [Versions -> {"none", "committed", "moved", "done", "lost"}]
      /\ \A v \in Versions : phase'[v] = "none" <=> phase[v] = "none"
  BY <1>1 DEF Restart
<1>4. /\ cache' \in [Versions -> Versions \cup {Nil, NotCached}] /\ CacheInv'
      /\ req' \in [Requests -> {Free} \cup Request] /\ RequestInv'
      /\ UNCHANGED <<row, pin>>
  BY DEF Restart, CacheInv, RequestInv
<1>5. TypeOK' /\ PhaseInv' /\ PinInv'
  BY <1>1, <1>2, <1>3, <1>4 DEF TypeOK, PhaseInv, PinInv
<1> QED  BY <1>4, <1>5 DEF IInv

-----------------------------------------------------------------------------
(* The theorems *)

(* The first state satisfies the invariant.                                *)
LEMMA InitInv == Init => IInv
<1> SUFFICES ASSUME NEW b \in BOOLEAN,
                    row = [owner |-> Nobody, visibility |-> "public",
                           current |-> IF b THEN 1 ELSE 0],
                    phase = [v \in Versions |-> IF b /\ v = 1 THEN "done" ELSE "none"],
                    cache = [v \in Versions |-> IF b /\ v = 1 THEN 1 ELSE NotCached],
                    pin = 0, req = [r \in Requests |-> Free], faults = 0
             PROVE  IInv
  BY DEF Init
<1>1. 1 \in Versions /\ \A v \in Versions : v \in Nat /\ 0 < v
  BY ProblemApiAssumption DEF Versions
<1>2. row \in RowType /\ row.current = IF b THEN 1 ELSE 0
  BY <1>1 DEF RowType, Visibilities
<1>3. TypeOK
  <2>1. phase \in [Versions -> {"none", "committed", "moved", "done", "lost"}]
    OBVIOUS
  <2>2. cache \in [Versions -> Versions \cup {Nil, NotCached}]
    BY <1>1
  <2> QED  BY <1>2, <2>1, <2>2, ProblemApiAssumption DEF TypeOK
<1>4. PhaseInv
  <2> SUFFICES ASSUME NEW v \in Versions
               PROVE  phase[v] = "none" <=> row.current < v
    BY DEF PhaseInv
  <2> QED  BY <1>1, <1>2
<1>5. CacheInv /\ RequestInv
  BY DEF CacheInv, RequestInv
<1>6. PinInv
  BY <1>2 DEF PinInv
<1> QED  BY <1>3, <1>4, <1>5, <1>6 DEF IInv

(* Every step keeps the invariant.                                         *)
LEMMA NextInv == IInv /\ [Next]_vars => IInv'
<1> SUFFICES ASSUME IInv, [Next]_vars PROVE IInv'
  OBVIOUS
<1>1. CASE UNCHANGED vars
  BY <1>1 DEF vars, IInv, TypeOK, PhaseInv, CacheInv, PinInv, RequestInv, Good,
     SeenOK, PathOK, AnswerOK, Missing
<1>2. ASSUME NEW r \in Requests, Handle(r)
      PROVE  IInv'
  BY <1>2, GetCatalogStep, GetArtifactStep, GetPinnedStep, LookupStep, LoadStep,
     StoreStep, ReadOwnerStep, UpdateVisibilityStep, CountProblemsStep,
     ListPublicProblemsStep, ListMyProblemsStep, ResolveProblemVersionStep,
     FailStep DEF Handle
<1>3. ASSUME Uploads
      PROVE  IInv'
  BY <1>3, UploadSteps, MoveStep, EvictStep DEF Uploads
<1> QED  BY <1>1, <1>2, <1>3, ArriveStep, ReturnStep, RestartStep DEF Next

(* Rows, files, the cache and what each request has read of them fit       *)
(* together, through uploads, changes of visibility, faults and restarts.  *)
THEOREM ProblemInductive == Spec => []IInv
BY InitInv, NextInv, PTL DEF Spec

(* Types, in particular of the requests at every statement of a handler.   *)
THEOREM ProblemTypeCorrect == Spec => []TypeOK
<1>1. IInv => TypeOK
  BY DEF IInv
<1> QED  BY <1>1, ProblemInductive, PTL

(* Whoever reads a problem or makes a game of it was allowed to see it at  *)
(* some moment of the request, although the row is checked by one          *)
(* statement and read by others.                                           *)
THEOREM ProblemVisibleWhenServed == Spec => []VisibleWhenServed
<1>1. IInv => VisibleWhenServed
  BY DEF IInv, RequestInv, Good, AnswerOK, VisibleWhenServed, Answered, Free
<1> QED  BY <1>1, ProblemInductive, PTL

(* The cache never hides a new version from readers, and all submissions   *)
(* of a game are judged by the version it was created with.                *)
THEOREM ProblemVersionsServed == Spec => []VersionsServed
<1>1. IInv => VersionsServed
  BY DEF IInv, RequestInv, Good, AnswerOK, VersionsServed, CurrentWhenServed,
     JudgedAlike, Answered, Free
<1> QED  BY <1>1, ProblemInductive, PTL

(* An internal error of the operations on problems has a cause in the      *)
(* request it answers, and every other status is one the API knows.        *)
THEOREM ProblemErrorsExplained == Spec => []ErrorsExplained
<1>1. IInv => ErrorsExplained
  BY DEF IInv, RequestInv, Good, AnswerOK, ErrorsExplained, Answered, Free
<1> QED  BY <1>1, ProblemInductive, PTL

-----------------------------------------------------------------------------
(* Uploads, as the readers meet them.                                      *)

(* The row of the one problem, as an entry of the catalogue.               *)
TheEntry == [owner |-> row.owner, versions |-> 1..row.current, current |-> row.current]
Publishing ==
    INSTANCE Publication WITH Problems <- {1}, book <- [p \in {1} |-> TheEntry]

(* The uploads that this module makes single steps keep the promise of the *)
(* whole catalogue (CatalogPublishes), and nothing else here writes an     *)
(* owner or a version: a change of visibility, a reader, a failing upload  *)
(* or a restart leaves both as they are.                                   *)
THEOREM ProblemFollowsPublication == Spec => Publishing!Spec
<1>1. Init => Publishing!Init
  <2> SUFFICES ASSUME Init PROVE Publishing!Init
    OBVIOUS
  <2>1. row.owner = Nobody /\ row.current \in {0, 1}
    BY DEF Init
  <2>2. TheEntry \in {Publishing!Entry(Nobody, 0), Publishing!Entry(Nobody, 1)}
    BY <2>1 DEF TheEntry, Publishing!Entry
  <2> QED  BY <2>2 DEF Publishing!Init
<1>2. IInv /\ [Next]_vars => [Publishing!Next]_[p \in {1} |-> TheEntry]
  <2> SUFFICES ASSUME IInv, [Next]_vars
               PROVE  Publishing!Next \/ UNCHANGED [p \in {1} |-> TheEntry]
    OBVIOUS
  <2>1. row \in RowType
    BY DEF IInv, TypeOK
  <2>2. ASSUME NEW u \in Users, NEW vis \in Visibilities, Upload(u, vis)
        PROVE  Publishing!Publish(1, u)
    <3>1. row.current = 0 /\ row'.owner = u /\ row'.current = 1
      BY <2>2 DEF Upload
    <3> QED  BY <3>1 DEF Publishing!Publish, Publishing!Entry, TheEntry
  <2>3. ASSUME UploadVersion PROVE Publishing!Revise(1)
    <3>1. /\ row.current # 0 /\ row.owner # Nobody
          /\ row'.owner = row.owner /\ row'.current = row.current + 1
      BY <2>1, <2>3, ProblemApiAssumption DEF UploadVersion, RowType
    <3> QED  BY <3>1 DEF Publishing!Revise, Publishing!Entry, TheEntry
  <2>4. ASSUME row'.owner = row.owner, row'.current = row.current
        PROVE  UNCHANGED [p \in {1} |-> TheEntry]
    BY <2>4 DEF TheEntry
  <2>5. ASSUME NEW r \in Requests, UpdateVisibility(r)
        PROVE  row'.owner = row.owner /\ row'.current = row.current
    BY <2>1, <2>5 DEF UpdateVisibility, Step, RowType
  <2>6. ASSUME NEW r \in Requests, Handle(r)
        PROVE  row'.owner = row.owner /\ row'.current = row.current
    BY <2>5, <2>6 DEF Handle, GetCatalog, GetArtifact, GetPinned, Lookup, Load, Store, Serve,
       ReadOwner, CountProblems, ListPublicProblems, ListMyProblems,
       ResolveProblemVersion, Fail, Step
  <2>7. ASSUME \/ \E r \in Requests : Return(r)
               \/ \E r \in Requests, op \in Ops, u \in Users \cup {NoUser}, b \in BOOLEAN :
                     Arrive(r, op, u, b)
               \/ \E v \in Versions : Move(v) \/ Evict(v)
               \/ Restart \/ UNCHANGED vars
        PROVE  row' = row
    BY <2>7 DEF Return, Arrive, Step, Move, Evict, Restart, vars
  <2> QED  BY <2>2, <2>3, <2>4, <2>6, <2>7 DEF Next, Uploads, Publishing!Next
<1> QED  BY <1>1, <1>2, ProblemInductive, PTL DEF Spec, Publishing!Spec

=============================================================================
