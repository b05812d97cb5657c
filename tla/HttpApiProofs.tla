---------------------------- MODULE HttpApiProofs ----------------------------
(* Theorems about module HttpApi, for every set of users, every number of  *)
(* failing statements and every width of an integer.                       *)
EXTENDS HttpApi, FiniteSetTheorems, WellFoundedInduction, NaturalsInduction,
        TLAPS

-----------------------------------------------------------------------------
(* The inductive invariant *)

(* The row of the game: its creator never leaves the roster, a winner is a *)
(* participant of a finished game, and nothing is left of one that is not  *)
(* there.                                                                  *)
GameInv ==
    /\ ~Exists => parts = {} /\ winner = NoUser
    /\ Exists => creator \in parts
    /\ winner # NoUser => status = "finished" /\ winner \in parts

(* Which operations come to which statement of the handlers.               *)
Readers == {"GetGame", "GetGameSolutions", "GetGameByToken", "JoinGameByToken",
            "CompleteGame", "DeleteGame", "TimeoutGame"}
Writers == {"StartGame", "CancelGame", "LeaveGame", "CreateGame",
            "JoinGameByToken", "CompleteGame", "DeleteGame", "TimeoutGame"}
OpInv ==
    /\ req.pc = "idle" \/ req.op \in Ops
    /\ req.pc = "read" => req.op \in Readers
    /\ req.pc = "access" => req.op \in {"GetGame", "GetGameSolutions"}
    /\ req.pc \in {"again", "solutions"} => req.op = "GetGameSolutions"
    /\ req.pc = "write" => req.op \in Writers
    /\ req.pc \in {"count", "list"} => req.op = "ListGames"
    /\ req.pc \in {"participants", "problems"} =>
           req.op \in GameOps \ {"GetGameSolutions", "DeleteGame"}
    /\ req.pc = "service" => req.op \in AccountOps

(* A request is at a statement of its operation, past the middleware, and  *)
(* an idle one has nothing left of the one before.                         *)
PlaceInv ==
    /\ OpInv
    /\ req.pc \notin {"idle", "answered"} /\ req.op \notin PublicOps
           => req.user \in Users
    /\ req.pc = "idle" => req = Idle

(* What the request has seen of the game is true of it: it knows whether   *)
(* the game was deleted, whether its user was inside, and the parts of the *)
(* row that do not change until the game is gone.                          *)
SeenInv ==
    /\ req.pc # "idle" => /\ req.gone <=> status = "deleted"
                          /\ req.user \in parts => req.inside
    /\ req.row # NoRow => /\ status # "none"
                          /\ \/ req.gone
                             \/ /\ req.row.creator = creator
                                /\ req.row.winner \in {NoUser, winner}

(* What a handler has checked on the row it read and relies on when it     *)
(* writes.                                                                 *)
CheckedInv ==
    /\ req.pc = "write" /\ req.op = "TimeoutGame" =>
           solo /\ status \in {"active", "cancelled", "finished", "deleted"}
    /\ req.pc = "write" /\ req.op = "CompleteGame" =>
           status # "none" /\ (req.gone \/ creator = req.user)

AnswersSolutions == Ended /\ req.op = "GetGameSolutions" /\ req.http = 200

(* What is meant for participants, from the check to the answer.           *)
InsiderInv ==
    /\ req.pc \notin {"participants", "problems", "answered"} => ~req.showToken
    /\ req.showToken /\ ~req.row.public =>
           req.inside \/ req.op = "JoinGameByToken"
    /\ req.pc \in {"again", "solutions"} \/ AnswersSolutions =>
           req.row.public \/ req.inside
    /\ req.pc = "solutions" \/ AnswersSolutions =>
           status \in {"finished", "deleted"}

(* The lists of an answer, from the statement that read them.              *)
ListsInv ==
    /\ req.pc \in {"read", "count", "list", "service"} => req.row = NoRow
    /\ req.pc \in {"access", "participants", "problems"} => req.row # NoRow
    /\ req.pc = "problems" \/ AnswersGame =>
           \/ req.gone
           \/ /\ req.row.creator \in req.players
              /\ req.row.winner \in req.players \cup {NoUser}
    /\ AnswersGame => req.gone \/ req.problems

IInv ==
    /\ TypeOK /\ GameInv /\ PlaceInv /\ SeenInv /\ CheckedInv /\ InsiderInv
    /\ ListsInv /\ AnswersExplained

-----------------------------------------------------------------------------
(* The pipeline's operators *)

(* The least member of a set of natural numbers.                           *)
LEMMA MinIsMember ==
    ASSUME NEW S \in SUBSET Nat, S # {}
    PROVE  Min(S) \in S
<1>1. PICK x \in S : \A y \in S : ~(<<y, x>> \in OpToRel(<, Nat))
  BY WFMin, NatLessThanWellFounded
<1>2. \A y \in S : ~(y < x)
  BY <1>1, Zenon DEF OpToRel
<1>3. \A y \in S : x =< y
  BY <1>2
<1> QED  BY <1>3 DEF Min

(* A sequence of checks fails with one of its codes, and passes only if    *)
(* all its conditions hold.                                                *)
LEMMA FirstFailureIs ==
    ASSUME NEW checks, DOMAIN checks \subseteq Nat
    PROVE  \/ /\ FirstFailure(checks) = "OK"
              /\ \A i \in DOMAIN checks : checks[i][1]
           \/ \E i \in DOMAIN checks :
                 ~checks[i][1] /\ FirstFailure(checks) = checks[i][2]
<1> DEFINE failed == {i \in DOMAIN checks : ~checks[i][1]}
<1>1. CASE failed = {}
  BY <1>1 DEF FirstFailure
<1>2. CASE failed # {}
  <2>1. Min(failed) \in failed
    BY <1>2, MinIsMember
  <2>2. FirstFailure(checks) = checks[Min(failed)][2]
    BY <1>2 DEF FirstFailure
  <2> QED  BY <2>1, <2>2
<1> QED  BY <1>1, <1>2

(* The statuses of the codes the handlers of games and accounts use.       *)
LEMMA StatusValues ==
    /\ httpStatusCode("VALIDATION_ERROR") = 400
    /\ httpStatusCode("NOT_ENOUGH_PLAYERS") = 400
    /\ httpStatusCode("INVALID_WINNER") = 400
    /\ httpStatusCode("INVALID_EMAIL") = 400
    /\ httpStatusCode("INVALID_CODE") = 400
    /\ httpStatusCode("NOT_GAME_CREATOR") = 403
    /\ httpStatusCode("CREATOR_CANNOT_LEAVE") = 403
    /\ httpStatusCode("NOT_PARTICIPANT") = 403
    /\ httpStatusCode("GAME_NOT_FINISHED") = 403
    /\ httpStatusCode("GAME_NOT_FOUND") = 404
    /\ httpStatusCode("PROBLEM_NOT_FOUND") = 404
    /\ httpStatusCode("ALREADY_PARTICIPANT") = 409
    /\ httpStatusCode("GAME_ALREADY_STARTED") = 409
    /\ httpStatusCode("GAME_NOT_IN_PROGRESS") = 409
    /\ httpStatusCode("CANNOT_CANCEL_FINISHED_GAME") = 409
    /\ httpStatusCode("GAME_ALREADY_CANCELLED") = 409
    /\ httpStatusCode("TOO_MANY_ATTEMPTS") = 429
    /\ httpStatusCode("CODE_RECENTLY_SENT") = 429
    /\ httpStatusCode("EXECUTION_RATE_LIMITED") = 429
    /\ httpStatusCode("EXECUTION_IN_PROGRESS") = 429
    /\ httpStatusCode("EXECUTOR_OVERLOADED") = 503
BY DEF httpStatusCode

(* Errors that have no code of the API's own are internal.                 *)
LEMMA OtherErrors ==
    /\ httpStatusCode("no rows in result set") = 500
    /\ httpStatusCode("unsupported language") = 500
    /\ httpStatusCode("OFFSET must not be negative") = 500
BY DEF httpStatusCode

(* Every code has a status.                                                *)
LEMMA StatusType == \A code : httpStatusCode(code) \in Nat
BY DEF httpStatusCode

(* What may be answered to the operations on accounts and on games.        *)
LEMMA KnownAccount ==
    /\ Known("PostAuthConfirm") = {200, 400, 404, 429}
    /\ Known("PostAuthEnter") = {200, 400, 429}
    /\ Known("PostAuthLogout") = {200, 401}
    /\ Known("GetAuthMe") = {200, 401}
    /\ Known("GetAuthMeStats") = {200, 401}
    /\ Known("PatchAuthMe") = {200, 400, 401}
    /\ Known("PostExecute") = {200, 400, 401, 429, 503}
BY DEF Known, DeclaredAccount, DeclaredRooms, DeclaredGames, DeclaredEnds,
       DeclaredProblems, Undeclared

(* The same for the operations on games.                                   *)
LEMMA KnownGame ==
    /\ Known("ListGames") = {200, 400, 401}
    /\ Known("CreateGame") = {201, 400, 401, 404}
    /\ Known("GetGameByToken") = {200, 400, 404}
    /\ Known("JoinGameByToken") = {200, 400, 401, 404, 409}
    /\ Known("DeleteGame") = {200, 400, 401, 403, 404}
    /\ Known("GetGame") = {200, 400, 401, 403, 404}
    /\ Known("GetGameSolutions") = {200, 400, 401, 403, 404}
    /\ Known("CancelGame") = {200, 400, 401, 403, 404, 409}
    /\ Known("CompleteGame") = {200, 400, 401, 403, 404, 409}
    /\ Known("StartGame") = {200, 400, 401, 403, 404, 409}
    /\ Known("LeaveGame") = {200, 400, 401, 403, 404, 409}
    /\ Known("TimeoutGame") = {200, 400, 401, 403, 404, 409}
BY DEF Known, DeclaredAccount, DeclaredRooms, DeclaredGames, DeclaredEnds,
       DeclaredProblems, Undeclared

(* What the middleware answers is known, and who passes it has a session   *)
(* or needs none.                                                          *)
LEMMA GateKnown ==
    ASSUME NEW op \in Ops, NEW u \in Users \cup {NoUser}, NEW b \in BOOLEAN
    PROVE  /\ Gate(op, u, b) = 0 => op \in PublicOps \/ u \in Users
           /\ Gate(op, u, b) # 0 => /\ Gate(op, u, b) \in {400, 401}
                                    /\ Gate(op, u, b) \in Known(op)
<1>1. Gate(op, u, b) = 0 => op \in PublicOps \/ u \in Users
  BY DEF Gate
<1>2. op \in Malformable => 400 \in Known(op)
  BY KnownAccount, KnownGame DEF Ops, GameOps, AccountOps, Malformable,
     BindGameID, BindToken, BindPage, BindSearch, DecodeAccountBody,
     DecodeGameBody, DecodeProblemBody
<1>3. op \notin PublicOps => 401 \in Known(op)
  BY KnownAccount, KnownGame DEF Ops, GameOps, AccountOps, PublicOps
<1> QED  BY <1>1, <1>2, <1>3 DEF Gate

-----------------------------------------------------------------------------
(* What each transaction's checks decide *)

(* The condition of a check.                                               *)
LEMMA CheckCondition == \A p, code : <<p, code>>[1] = p
OBVIOUS

(* StartGame.                                                              *)
LEMMA StartOutcome ==
    \/ /\ FirstFailure(StartChecks) = "OK"
       /\ Exists
       /\ status = "pending"
       /\ creator = req.user
       /\ solo \/ Cardinality(parts) >= 2
    \/ FirstFailure(StartChecks) \in
           {"GAME_NOT_FOUND", "GAME_ALREADY_STARTED", "NOT_GAME_CREATOR",
            "NOT_ENOUGH_PLAYERS"}
<1> DEFINE c == StartChecks
<1>1. DOMAIN c = 1..4
  BY DEF StartChecks
<1>2. c[1] = <<Exists, "GAME_NOT_FOUND">>
  BY DEF StartChecks
<1>3. c[2] = <<status = "pending", "GAME_ALREADY_STARTED">>
  BY DEF StartChecks
<1>4. c[3] = <<creator = req.user, "NOT_GAME_CREATOR">>
  BY DEF StartChecks
<1>5. c[4] = <<solo \/ Cardinality(parts) >= 2, "NOT_ENOUGH_PLAYERS">>
  BY DEF StartChecks
<1> HIDE DEF c
<1>6. \A i \in DOMAIN c : c[i][2] \in
         {"GAME_NOT_FOUND", "GAME_ALREADY_STARTED", "NOT_GAME_CREATOR",
          "NOT_ENOUGH_PLAYERS"}
  <2>1. \A i \in DOMAIN c : i = 1 \/ i = 2 \/ i = 3 \/ i = 4
    BY <1>1
  <2> QED  BY <2>1, <1>2, <1>3, <1>4, <1>5
<1>7. (\A i \in DOMAIN c : c[i][1]) =>
          /\ Exists
          /\ status = "pending"
          /\ creator = req.user
          /\ solo \/ Cardinality(parts) >= 2
  <2>1. 1 \in DOMAIN c /\ 2 \in DOMAIN c /\ 3 \in DOMAIN c /\ 4 \in DOMAIN c
    BY <1>1
  <2>2. c[1][1] = (Exists)
    BY <1>2, CheckCondition, Zenon
  <2>3. c[2][1] = (status = "pending")
    BY <1>3, CheckCondition, Zenon
  <2>4. c[3][1] = (creator = req.user)
    BY <1>4, CheckCondition, Zenon
  <2>5. c[4][1] = (solo \/ Cardinality(parts) >= 2)
    BY <1>5, CheckCondition, Zenon
  <2> QED  BY <2>1, <2>2, <2>3, <2>4, <2>5, Zenon
<1> QED  BY <1>1, <1>6, <1>7, FirstFailureIs DEF c

(* CompleteGame, for the winner the client names.                          *)
LEMMA CompleteOutcome ==
    ASSUME NEW w
    PROVE  \/ /\ FirstFailure(CompleteChecks(w)) = "OK"
              /\ Exists
              /\ status = "active"
              /\ w \in parts
           \/ FirstFailure(CompleteChecks(w)) \in
                  {"GAME_NOT_FOUND", "GAME_NOT_IN_PROGRESS",
                   "INVALID_WINNER"}
<1> DEFINE c == CompleteChecks(w)
<1>1. DOMAIN c = 1..3
  BY DEF CompleteChecks
<1>2. c[1] = <<Exists, "GAME_NOT_FOUND">>
  BY DEF CompleteChecks
<1>3. c[2] = <<status = "active", "GAME_NOT_IN_PROGRESS">>
  BY DEF CompleteChecks
<1>4. c[3] = <<w \in parts, "INVALID_WINNER">>
  BY DEF CompleteChecks
<1> HIDE DEF c
<1>5. \A i \in DOMAIN c : c[i][2] \in
         {"GAME_NOT_FOUND", "GAME_NOT_IN_PROGRESS", "INVALID_WINNER"}
  <2>1. \A i \in DOMAIN c : i = 1 \/ i = 2 \/ i = 3
    BY <1>1
  <2> QED  BY <2>1, <1>2, <1>3, <1>4
<1>6. (\A i \in DOMAIN c : c[i][1]) =>
          /\ Exists
          /\ status = "active"
          /\ w \in parts
  <2>1. 1 \in DOMAIN c /\ 2 \in DOMAIN c /\ 3 \in DOMAIN c
    BY <1>1
  <2>2. c[1][1] = (Exists)
    BY <1>2, CheckCondition, Zenon
  <2>3. c[2][1] = (status = "active")
    BY <1>3, CheckCondition, Zenon
  <2>4. c[3][1] = (w \in parts)
    BY <1>4, CheckCondition, Zenon
  <2> QED  BY <2>1, <2>2, <2>3, <2>4, Zenon
<1> QED  BY <1>1, <1>5, <1>6, FirstFailureIs DEF c

(* CancelGame.                                                             *)
LEMMA CancelOutcome ==
    \/ /\ FirstFailure(CancelChecks) = "OK"
       /\ Exists
       /\ creator = req.user
       /\ status # "finished"
       /\ status # "cancelled"
    \/ FirstFailure(CancelChecks) \in
           {"GAME_NOT_FOUND", "NOT_GAME_CREATOR",
            "CANNOT_CANCEL_FINISHED_GAME", "GAME_ALREADY_CANCELLED"}
<1> DEFINE c == CancelChecks
<1>1. DOMAIN c = 1..4
  BY DEF CancelChecks
<1>2. c[1] = <<Exists, "GAME_NOT_FOUND">>
  BY DEF CancelChecks
<1>3. c[2] = <<creator = req.user, "NOT_GAME_CREATOR">>
  BY DEF CancelChecks
<1>4. c[3] = <<status # "finished", "CANNOT_CANCEL_FINISHED_GAME">>
  BY DEF CancelChecks
<1>5. c[4] = <<status # "cancelled", "GAME_ALREADY_CANCELLED">>
  BY DEF CancelChecks
<1> HIDE DEF c
<1>6. \A i \in DOMAIN c : c[i][2] \in
         {"GAME_NOT_FOUND", "NOT_GAME_CREATOR",
          "CANNOT_CANCEL_FINISHED_GAME", "GAME_ALREADY_CANCELLED"}
  <2>1. \A i \in DOMAIN c : i = 1 \/ i = 2 \/ i = 3 \/ i = 4
    BY <1>1
  <2> QED  BY <2>1, <1>2, <1>3, <1>4, <1>5
<1>7. (\A i \in DOMAIN c : c[i][1]) =>
          /\ Exists
          /\ creator = req.user
          /\ status # "finished"
          /\ status # "cancelled"
  <2>1. 1 \in DOMAIN c /\ 2 \in DOMAIN c /\ 3 \in DOMAIN c /\ 4 \in DOMAIN c
    BY <1>1
  <2>2. c[1][1] = (Exists)
    BY <1>2, CheckCondition, Zenon
  <2>3. c[2][1] = (creator = req.user)
    BY <1>3, CheckCondition, Zenon
  <2>4. c[3][1] = (status # "finished")
    BY <1>4, CheckCondition, Zenon
  <2>5. c[4][1] = (status # "cancelled")
    BY <1>5, CheckCondition, Zenon
  <2> QED  BY <2>1, <2>2, <2>3, <2>4, <2>5, Zenon
<1> QED  BY <1>1, <1>6, <1>7, FirstFailureIs DEF c

(* LeaveGame.                                                              *)
LEMMA LeaveOutcome ==
    \/ /\ FirstFailure(LeaveChecks) = "OK"
       /\ Exists
       /\ status # "cancelled"
       /\ status = "pending"
       /\ creator # req.user
       /\ req.user \in parts
    \/ FirstFailure(LeaveChecks) \in
           {"GAME_NOT_FOUND", "GAME_ALREADY_CANCELLED",
            "GAME_ALREADY_STARTED", "CREATOR_CANNOT_LEAVE",
            "NOT_PARTICIPANT"}
<1> DEFINE c == LeaveChecks
<1>1. DOMAIN c = 1..5
  BY DEF LeaveChecks
<1>2. c[1] = <<Exists, "GAME_NOT_FOUND">>
  BY DEF LeaveChecks
<1>3. c[2] = <<status # "cancelled", "GAME_ALREADY_CANCELLED">>
  BY DEF LeaveChecks
<1>4. c[3] = <<status = "pending", "GAME_ALREADY_STARTED">>
  BY DEF LeaveChecks
<1>5. c[4] = <<creator # req.user, "CREATOR_CANNOT_LEAVE">>
  BY DEF LeaveChecks
<1>6. c[5] = <<req.user \in parts, "NOT_PARTICIPANT">>
  BY DEF LeaveChecks
<1> HIDE DEF c
<1>7. \A i \in DOMAIN c : c[i][2] \in
         {"GAME_NOT_FOUND", "GAME_ALREADY_CANCELLED",
          "GAME_ALREADY_STARTED", "CREATOR_CANNOT_LEAVE", "NOT_PARTICIPANT"}
  <2>1. \A i \in DOMAIN c : i = 1 \/ i = 2 \/ i = 3 \/ i = 4 \/ i = 5
    BY <1>1
  <2> QED  BY <2>1, <1>2, <1>3, <1>4, <1>5, <1>6
<1>8. (\A i \in DOMAIN c : c[i][1]) =>
          /\ Exists
          /\ status # "cancelled"
          /\ status = "pending"
          /\ creator # req.user
          /\ req.user \in parts
  <2>1. 1 \in DOMAIN c /\ 2 \in DOMAIN c /\ 3 \in DOMAIN c /\
        4 \in DOMAIN c /\ 5 \in DOMAIN c
    BY <1>1
  <2>2. c[1][1] = (Exists)
    BY <1>2, CheckCondition, Zenon
  <2>3. c[2][1] = (status # "cancelled")
    BY <1>3, CheckCondition, Zenon
  <2>4. c[3][1] = (status = "pending")
    BY <1>4, CheckCondition, Zenon
  <2>5. c[4][1] = (creator # req.user)
    BY <1>5, CheckCondition, Zenon
  <2>6. c[5][1] = (req.user \in parts)
    BY <1>6, CheckCondition, Zenon
  <2> QED  BY <2>1, <2>2, <2>3, <2>4, <2>5, <2>6, Zenon
<1> QED  BY <1>1, <1>7, <1>8, FirstFailureIs DEF c

(* JoinGameByToken.                                                        *)
LEMMA JoinOutcome ==
    \/ /\ FirstFailure(JoinChecks) = "OK"
       /\ Exists
       /\ status = "pending"
       /\ req.user \notin parts
    \/ FirstFailure(JoinChecks) \in
           {"GAME_NOT_FOUND", "GAME_ALREADY_STARTED", "ALREADY_PARTICIPANT"}
<1> DEFINE c == JoinChecks
<1>1. DOMAIN c = 1..3
  BY DEF JoinChecks
<1>2. c[1] = <<Exists, "GAME_NOT_FOUND">>
  BY DEF JoinChecks
<1>3. c[2] = <<status = "pending", "GAME_ALREADY_STARTED">>
  BY DEF JoinChecks
<1>4. c[3] = <<req.user \notin parts, "ALREADY_PARTICIPANT">>
  BY DEF JoinChecks
<1> HIDE DEF c
<1>5. \A i \in DOMAIN c : c[i][2] \in
         {"GAME_NOT_FOUND", "GAME_ALREADY_STARTED", "ALREADY_PARTICIPANT"}
  <2>1. \A i \in DOMAIN c : i = 1 \/ i = 2 \/ i = 3
    BY <1>1
  <2> QED  BY <2>1, <1>2, <1>3, <1>4
<1>6. (\A i \in DOMAIN c : c[i][1]) =>
          /\ Exists
          /\ status = "pending"
          /\ req.user \notin parts
  <2>1. 1 \in DOMAIN c /\ 2 \in DOMAIN c /\ 3 \in DOMAIN c
    BY <1>1
  <2>2. c[1][1] = (Exists)
    BY <1>2, CheckCondition, Zenon
  <2>3. c[2][1] = (status = "pending")
    BY <1>3, CheckCondition, Zenon
  <2>4. c[3][1] = (req.user \notin parts)
    BY <1>4, CheckCondition, Zenon
  <2> QED  BY <2>1, <2>2, <2>3, <2>4, Zenon
<1> QED  BY <1>1, <1>5, <1>6, FirstFailureIs DEF c

(* TimeoutGame, on the row it has read.                                    *)
LEMMA TimeoutOutcome ==
    ASSUME NEW row, NEW u
    PROVE  \/ /\ FirstFailure(TimeoutChecks(row, u)) = "OK"
              /\ row.solo
              /\ row.creator = u
              /\ row.status = "active"
           \/ FirstFailure(TimeoutChecks(row, u)) \in
                  {"VALIDATION_ERROR", "NOT_GAME_CREATOR",
                   "GAME_NOT_IN_PROGRESS"}
<1> DEFINE c == TimeoutChecks(row, u)
<1>1. DOMAIN c = 1..3
  BY DEF TimeoutChecks
<1>2. c[1] = <<row.solo, "VALIDATION_ERROR">>
  BY DEF TimeoutChecks
<1>3. c[2] = <<row.creator = u, "NOT_GAME_CREATOR">>
  BY DEF TimeoutChecks
<1>4. c[3] = <<row.status = "active", "GAME_NOT_IN_PROGRESS">>
  BY DEF TimeoutChecks
<1> HIDE DEF c
<1>5. \A i \in DOMAIN c : c[i][2] \in
         {"VALIDATION_ERROR", "NOT_GAME_CREATOR", "GAME_NOT_IN_PROGRESS"}
  <2>1. \A i \in DOMAIN c : i = 1 \/ i = 2 \/ i = 3
    BY <1>1
  <2> QED  BY <2>1, <1>2, <1>3, <1>4
<1>6. (\A i \in DOMAIN c : c[i][1]) =>
          /\ row.solo
          /\ row.creator = u
          /\ row.status = "active"
  <2>1. 1 \in DOMAIN c /\ 2 \in DOMAIN c /\ 3 \in DOMAIN c
    BY <1>1
  <2>2. c[1][1] = (row.solo)
    BY <1>2, CheckCondition, Zenon
  <2>3. c[2][1] = (row.creator = u)
    BY <1>3, CheckCondition, Zenon
  <2>4. c[3][1] = (row.status = "active")
    BY <1>4, CheckCondition, Zenon
  <2> QED  BY <2>1, <2>2, <2>3, <2>4, Zenon
<1> QED  BY <1>1, <1>5, <1>6, FirstFailureIs DEF c

(* CompleteGame and DeleteGame check the creator of the row they read.     *)
CreatorChecks(row, u) == << <<row.creator = u, "NOT_GAME_CREATOR">> >>

(* The one check of that sequence.                                         *)
LEMMA CreatorOutcome ==
    ASSUME NEW row, NEW u
    PROVE  \/ /\ FirstFailure(CreatorChecks(row, u)) = "OK"
              /\ row.creator = u
           \/ FirstFailure(CreatorChecks(row, u)) \in
                  {"NOT_GAME_CREATOR"}
<1> DEFINE c == CreatorChecks(row, u)
<1>1. DOMAIN c = 1..1
  BY DEF CreatorChecks
<1>2. c[1] = <<row.creator = u, "NOT_GAME_CREATOR">>
  BY DEF CreatorChecks
<1> HIDE DEF c
<1>3. \A i \in DOMAIN c : c[i][2] \in
         {"NOT_GAME_CREATOR"}
  <2>1. \A i \in DOMAIN c : i = 1
    BY <1>1
  <2> QED  BY <2>1, <1>2
<1>4. (\A i \in DOMAIN c : c[i][1]) =>
          /\ row.creator = u
  <2>1. 1 \in DOMAIN c
    BY <1>1
  <2>2. c[1][1] = (row.creator = u)
    BY <1>2, CheckCondition, Zenon
  <2> QED  BY <2>1, <2>2, Zenon
<1> QED  BY <1>1, <1>3, <1>4, FirstFailureIs DEF c

-----------------------------------------------------------------------------
(* The game *)

TypeParts ==
    /\ status \in Statuses /\ creator \in Users \cup {NoUser}
    /\ winner \in Users \cup {NoUser} /\ solo \in BOOLEAN /\ parts \subseteq Users

(* The types, variable by variable.                                        *)
LEMMA TypeOKParts ==
    TypeOK <=> /\ TypeParts /\ isPublic \in BOOLEAN
               /\ req \in Request /\ faults \in 0..MaxFaults
BY DEF TypeOK, TypeParts, Row, RowType

(* The same of the next state.                                             *)
LEMMA TypeOKNext ==
    ASSUME TypeParts', isPublic' \in BOOLEAN, req' \in Request,
           faults' \in 0..MaxFaults
    PROVE  TypeOK'
BY DEF TypeOK, TypeParts, Row, RowType

(* What every step of the game's life leaves true of what was read before: *)
(* an end is final, and the creator and a winner stay.                     *)
Moves ==
    /\ status = "deleted" => status' = "deleted"
    /\ status = "finished" => status' \in {"finished", "deleted"}
    /\ status \in {"active", "cancelled", "finished", "deleted"} =>
           status' \in {"active", "cancelled", "finished", "deleted"}
    /\ status # "none" => status' # "none" /\ creator' = creator /\ solo' = solo
    /\ status' # "deleted" /\ winner # NoUser => winner' = winner

(* A step of the game's life keeps types and invariant of the game and has *)
(* these consequences.                                                     *)
LEMMA LifecycleMoves ==
    ASSUME TypeParts, GameInv, [Lifecycle!Next]_(Lifecycle!vars)
    PROVE  TypeParts' /\ GameInv' /\ Moves
<1> USE ApiAssumption DEF TypeParts, GameInv, Moves, Exists, Statuses
<1>1. CASE \E u \in Users : Lifecycle!ChangeRoster(u)
  BY <1>1 DEF Lifecycle!ChangeRoster
<1>2. CASE \E u \in Users : Lifecycle!Win(u)
  BY <1>2 DEF Lifecycle!Win
<1>3. CASE \E u \in Users, b \in BOOLEAN : Lifecycle!Open(u, b)
  BY <1>3 DEF Lifecycle!Open
<1>4. CASE Lifecycle!Begin
  BY <1>4 DEF Lifecycle!Begin
<1>5. CASE Lifecycle!TimeUp
  BY <1>5 DEF Lifecycle!TimeUp
<1>6. CASE Lifecycle!Cancel
  BY <1>6 DEF Lifecycle!Cancel
<1>7. CASE Lifecycle!Delete
  BY <1>7 DEF Lifecycle!Delete
<1>8. CASE UNCHANGED Lifecycle!vars
  BY <1>8 DEF Lifecycle!vars
<1> QED  BY <1>1, <1>2, <1>3, <1>4, <1>5, <1>6, <1>7, <1>8 DEF Lifecycle!Next

(* Two members, from a cardinality.                                        *)
LEMMA TwoMembers ==
    ASSUME NEW S, Cardinality(S) >= 2
    PROVE  \E u, v \in S : u # v
<1>1. S # {}
  BY FS_EmptySet
<1>2. PICK u \in S : TRUE
  BY <1>1
<1>3. CASE S = {u}
  <2>1. Cardinality(S) = 1
    BY <1>3, FS_Singleton
  <2> QED  BY <2>1
<1> QED  BY <1>2, <1>3

-----------------------------------------------------------------------------
(* The request *)

(* The fields of a request that go unchanged through a step.               *)
SameCall(q, r) == /\ q.op = r.op /\ q.user = r.user /\ q.failed = r.failed
                  /\ q.overflow = r.overflow
SameRow(q, r) == q.row = r.row /\ q.showToken = r.showToken
SameLists(q, r) == q.players = r.players /\ q.problems = r.problems
SameView(q, r) == q.inside = r.inside /\ q.gone = r.gone

(* What an answer leaves of the request.                                   *)
LEMMA ReplyFields ==
    ASSUME NEW r \in Request, NEW h \in Nat
    PROVE  /\ Reply(r, h) \in Request
           /\ Reply(r, h).pc = "answered" /\ Reply(r, h).http = h
           /\ SameCall(Reply(r, h), r) /\ SameRow(Reply(r, h), r)
           /\ SameLists(Reply(r, h), r) /\ SameView(Reply(r, h), r)
BY DEF Reply, Request, SameCall, SameRow, SameLists, SameView, Places

(* What watching the game leaves of the request.                           *)
LEMMA WatchFields ==
    ASSUME NEW r \in Request
    PROVE  /\ Watch(r) \in Request
           /\ Watch(r).pc = r.pc /\ Watch(r).http = r.http
           /\ SameCall(Watch(r), r) /\ SameRow(Watch(r), r)
           /\ SameLists(Watch(r), r)
           /\ Watch(r).inside <=> (r.inside \/ r.user \in parts')
           /\ Watch(r).gone <=> (r.gone \/ status' = "deleted")
<1>1. /\ (r.inside \/ r.user \in parts') \in BOOLEAN
      /\ (r.gone \/ status' = "deleted") \in BOOLEAN
  OBVIOUS
<1> QED  BY <1>1 DEF Watch, Request, SameCall, SameRow, SameLists

(* The fields of no request.                                               *)
LEMMA IdleFields ==
    /\ Idle \in Request
    /\ Idle.pc = "idle" /\ Idle.op = "none" /\ Idle.user = NoUser
    /\ Idle.row = NoRow /\ Idle.showToken = FALSE /\ Idle.players = {}
    /\ Idle.problems = FALSE /\ Idle.http = 0 /\ Idle.inside = FALSE
    /\ Idle.gone = FALSE /\ Idle.failed = FALSE /\ Idle.overflow = FALSE
BY DEF Idle, Request, NoRow, RowType, Places, Statuses

-----------------------------------------------------------------------------
(* The request's own steps that leave the game alone *)

(* A request that is refused: nothing but the status is answered.          *)
LEMMA Refused ==
    ASSUME IInv, UNCHANGED game, faults' \in 0..MaxFaults,
           req.pc # "idle", req' \in Request,
           req'.pc = "answered", req'.http \notin {200, 201},
           req'.op = req.op, req'.user = req.user,
           SameRow(req', req), SameView(req', req), AnswersExplained'
    PROVE  IInv'
<1> USE DEF IInv, game
<1>1. TypeOK'
  <2>1. Row' = Row
    BY DEF Row
  <2> QED  BY <2>1 DEF TypeOK
<1>2. GameInv'
  BY DEF GameInv, Exists
<1>3. PlaceInv'
  BY DEF PlaceInv, OpInv
<1>4. SeenInv'
  BY DEF SeenInv, SameRow, SameView
<1>5. CheckedInv' /\ InsiderInv' /\ ListsInv'
  BY DEF CheckedInv, InsiderInv, ListsInv, SameRow, SameView, AnswersSolutions,
     AnswersGame, Ended
<1> QED  BY <1>1, <1>2, <1>3, <1>4, <1>5

(* A refusal with a code of the API.                                       *)
LEMMA RefuseStep ==
    ASSUME IInv, req.pc # "idle", NEW code, Step(Refuse(req, code)),
           httpStatusCode(code) \notin {200, 201},
           httpStatusCode(code) # 500 => httpStatusCode(code) \in Known(req.op),
           httpStatusCode(code) = 500 =>
               req.op = "PostExecute" \/ (req.op = "TimeoutGame" /\ req.gone)
    PROVE  IInv'
<1> DEFINE h == httpStatusCode(code)
<1>1. h \in Nat
  BY StatusType
<1>2. req \in Request /\ faults \in 0..MaxFaults
  BY DEF IInv, TypeOK
<1>3. req' = Reply(req, h) /\ UNCHANGED game /\ UNCHANGED faults
  BY DEF Step, Refuse, game
<1> HIDE DEF h
<1>4. /\ req' \in Request /\ req'.pc = "answered" /\ req'.http = h
      /\ SameCall(req', req) /\ SameRow(req', req) /\ SameView(req', req)
  BY <1>1, <1>2, <1>3, ReplyFields
<1>5. AnswersExplained'
  BY <1>4 DEF AnswersExplained, InternalErrorsExplained, StatusesKnown, Ended,
     SameCall, SameView, h
<1> QED  BY <1>2, <1>3, <1>4, <1>5, Refused DEF SameCall, h

(* A request that goes on: the row it has, and what it may show of it, are *)
(* given by the step.                                                      *)
LEMMA GoesOn ==
    ASSUME IInv, UNCHANGED <<game, faults>>, req.pc # "idle",
           req' \in Request, req'.pc \notin {"idle", "answered"},
           req.pc # "answered",
           SameCall(req', req), SameView(req', req),
           req'.row = req.row \/ (req'.row = Row /\ Exists),
           OpInv', CheckedInv', InsiderInv', ListsInv'
    PROVE  IInv'
<1> USE DEF IInv, game
<1>1. TypeOK'
  <2>1. Row' = Row
    BY DEF Row
  <2> QED  BY <2>1 DEF TypeOK
<1>2. GameInv'
  BY DEF GameInv, Exists
<1>3. PlaceInv'
  BY DEF PlaceInv, SameCall
<1>4. SeenInv'
  <2>1. CASE req'.row = req.row
    BY <2>1 DEF SeenInv, SameView, SameCall
  <2>2. CASE req'.row = Row /\ Exists
    BY <2>2 DEF SeenInv, SameView, SameCall, Row, Exists
  <2> QED  BY <2>1, <2>2
<1>5. AnswersExplained'
  BY DEF AnswersExplained, InternalErrorsExplained, StatusesKnown, Ended
<1> QED  BY <1>1, <1>2, <1>3, <1>4, <1>5

(* A request that is answered with what it asked for.                      *)
LEMMA Succeeds ==
    ASSUME IInv, UNCHANGED <<game, faults>>, req.pc # "idle",
           req' \in Request, req'.pc = "answered",
           req'.http \in {200, 201}, req'.http \in Known(req.op),
           SameCall(req', req), SameRow(req', req), SameView(req', req),
           InsiderInv', ListsInv'
    PROVE  IInv'
<1> USE DEF IInv, game
<1>1. TypeOK'
  <2>1. Row' = Row
    BY DEF Row
  <2> QED  BY <2>1 DEF TypeOK
<1>2. GameInv'
  BY DEF GameInv, Exists
<1>3. PlaceInv'
  BY DEF PlaceInv, OpInv, SameCall
<1>4. SeenInv' /\ CheckedInv'
  BY DEF SeenInv, CheckedInv, SameRow, SameView, SameCall
<1>5. AnswersExplained'
  BY DEF AnswersExplained, InternalErrorsExplained, StatusesKnown, Ended, SameCall
<1> QED  BY <1>1, <1>2, <1>3, <1>4, <1>5

(* What the checks on the row decide that was read first.                  *)
LEMMA ReadOutcome ==
    ASSUME NEW op \in Readers, NEW row, NEW u
    PROVE  LET failure == FirstFailure(ReadChecks(op, row, u)) IN
           /\ failure = "OK" =>
                /\ op \in {"CompleteGame", "DeleteGame"} => row.creator = u
                /\ op = "TimeoutGame" => row.solo /\ row.status = "active"
           /\ failure # "OK" =>
                /\ httpStatusCode(failure) \in Known(op)
                /\ httpStatusCode(failure) \notin {200, 201, 500}
<1>1. CASE op \in {"CompleteGame", "DeleteGame"}
  <2>1. ReadChecks(op, row, u) = CreatorChecks(row, u)
    BY <1>1 DEF ReadChecks, CreatorChecks
  <2>2. httpStatusCode("NOT_GAME_CREATOR") = 403
    BY StatusValues
  <2>3. 403 \in Known(op)
    BY <1>1, KnownGame
  <2> QED  BY <1>1, <2>1, <2>2, <2>3, CreatorOutcome
<1>2. CASE op = "TimeoutGame"
  <2>1. ReadChecks(op, row, u) = TimeoutChecks(row, u)
    BY <1>2 DEF ReadChecks
  <2>2. /\ httpStatusCode("NOT_GAME_CREATOR") = 403
        /\ httpStatusCode("VALIDATION_ERROR") = 400
        /\ httpStatusCode("GAME_NOT_IN_PROGRESS") = 409
    BY StatusValues
  <2>3. Known(op) = {200, 400, 401, 403, 404, 409}
    BY <1>2, KnownGame
  <2> QED  BY <1>2, <2>1, <2>2, <2>3, TimeoutOutcome
<1>3. CASE op \notin {"CompleteGame", "DeleteGame", "TimeoutGame"}
  <2>1. ReadChecks(op, row, u) = <<>>
    BY <1>3 DEF ReadChecks
  <2>2. FirstFailure(<<>>) = "OK"
    BY DEF FirstFailure
  <2> QED  BY <1>3, <2>1, <2>2
<1> QED  BY <1>1, <1>2, <1>3

(* The read that a handler starts with.                                    *)
LEMMA ReadStep == ASSUME IInv, ReadGame PROVE IInv'
<1>0. /\ req \in Request /\ req.pc = "read" /\ req.op \in Readers
      /\ OpInv /\ InsiderInv /\ TypeOK
  BY DEF IInv, TypeOK, ReadGame, PlaceInv, OpInv
<1> DEFINE failure == FirstFailure(ReadChecks(req.op, Row, req.user))
<1>1. CASE Step(Refuse(req, "GAME_NOT_FOUND"))
  <2>1. httpStatusCode("GAME_NOT_FOUND") = 404
    BY StatusValues
  <2>2. 404 \in Known(req.op)
    BY <1>0, KnownGame DEF Readers
  <2> QED  BY <1>0, <1>1, <2>1, <2>2, RefuseStep
<1>2. CASE failure # "OK" /\ Step(Refuse(req, failure))
  <2>1. /\ httpStatusCode(failure) \in Known(req.op)
        /\ httpStatusCode(failure) \notin {200, 201, 500}
    BY <1>0, <1>2, ReadOutcome
  <2> HIDE DEF failure
  <2> QED  BY <1>0, <1>2, <2>1, RefuseStep
<1>3. CASE /\ Exists /\ failure = "OK"
           /\ Step([req EXCEPT !.pc = AfterRead(req.op), !.row = Row,
                        !.showToken = req.op = "GetGameByToken" /\ isPublic])
  <2> DEFINE t == req.op = "GetGameByToken" /\ isPublic
  <2>1. /\ req.op \in {"CompleteGame", "DeleteGame"} => creator = req.user
        /\ req.op = "TimeoutGame" => solo /\ status = "active"
    BY <1>0, <1>3, ReadOutcome DEF Row
  <2> HIDE DEF failure
  <2>2. /\ AfterRead(req.op) \in {"access", "participants", "write"}
        /\ AfterRead(req.op) = "access" <=>
               req.op \in {"GetGame", "GetGameSolutions"}
        /\ AfterRead(req.op) = "participants" <=> req.op = "GetGameByToken"
    BY DEF AfterRead
  <2>3. t \in BOOLEAN /\ Row \in RowType
    BY <1>0 DEF TypeOK
  <2>4. UNCHANGED <<game, faults>>
        /\ req' = [req EXCEPT !.pc = AfterRead(req.op), !.row = Row, !.showToken = t]
    BY <1>3 DEF Step
  <2> HIDE DEF t
  <2>5. /\ req' \in Request /\ req'.pc = AfterRead(req.op) /\ req'.row = Row
        /\ req'.showToken = t /\ SameCall(req', req) /\ SameView(req', req)
    BY <1>0, <2>2, <2>3, <2>4 DEF Request, SameCall, SameView, Places
  <2>6. OpInv'
    BY <1>0, <2>2, <2>5 DEF OpInv, Readers, Writers, SameCall, GameOps
  <2>7. CheckedInv'
    BY <1>3, <2>1, <2>4, <2>5 DEF CheckedInv, SameCall, Exists, game
  <2>8. InsiderInv'
    <3>1. t => isPublic /\ req.op = "GetGameByToken"
      BY DEF t
    <3>2. Row.public = isPublic
      BY DEF Row
    <3> QED  BY <1>0, <2>2, <2>5, <3>1, <3>2 DEF InsiderInv, SameCall, SameView,
                AnswersSolutions, Ended
  <2>9. ListsInv'
    <3>1. Row # NoRow
      BY <1>3 DEF Row, NoRow, Exists
    <3> QED  BY <2>2, <2>5, <3>1 DEF ListsInv, AnswersGame, Ended
  <2> QED  BY <1>0, <1>3, <2>2, <2>4, <2>5, <2>6, <2>7, <2>8, <2>9, GoesOn
<1> QED  BY <1>1, <1>2, <1>3 DEF ReadGame

(* The transactions refuse an id that is not the game's.                   *)
LEMMA OtherStep ==
    ASSUME IInv, LockOther
    PROVE  IInv'
<1>1. /\ req \in Request /\ req.pc = "write" /\ Step(Refuse(req, "GAME_NOT_FOUND"))
      /\ req.op \in {"StartGame", "CancelGame", "LeaveGame"}
  BY DEF IInv, TypeOK, LockOther
<1>2. httpStatusCode("GAME_NOT_FOUND") = 404
  BY StatusValues
<1>3. 404 \in Known(req.op)
  BY <1>1, KnownGame
<1> QED  BY <1>1, <1>2, <1>3, RefuseStep

(* The check of the second read, and the third one for the solutions.      *)
LEMMA AccessStep == ASSUME IInv, CheckAccess PROVE IInv'
<1>0. /\ req \in Request /\ req.pc = "access" /\ OpInv /\ InsiderInv /\ ListsInv
      /\ req.op \in {"GetGame", "GetGameSolutions"} /\ SeenInv
  BY DEF IInv, TypeOK, CheckAccess, PlaceInv, OpInv
<1>1. CASE Step(Refuse(req, "NOT_PARTICIPANT"))
  <2>1. httpStatusCode("NOT_PARTICIPANT") = 403
    BY StatusValues
  <2>2. 403 \in Known(req.op)
    BY <1>0, KnownGame
  <2> QED  BY <1>0, <1>1, <2>1, <2>2, RefuseStep
<1>2. CASE CanAccessGame
  <2>1. req.row.public \/ req.inside
    BY <1>0, <1>2 DEF CanAccessGame, SeenInv
  <2>2. CASE /\ req.op = "GetGame"
             /\ Step([req EXCEPT !.pc = "participants", !.showToken = TRUE])
    <3>1. /\ UNCHANGED <<game, faults>>
          /\ req' = [req EXCEPT !.pc = "participants", !.showToken = TRUE]
      BY <2>2 DEF Step
    <3>2. /\ req' \in Request /\ req'.pc = "participants" /\ req'.row = req.row
          /\ req'.showToken = TRUE /\ SameCall(req', req) /\ SameView(req', req)
      BY <1>0, <3>1 DEF Request, SameCall, SameView, Places
    <3>3. OpInv' /\ CheckedInv' /\ InsiderInv' /\ ListsInv'
      BY <1>0, <2>1, <2>2, <3>2 DEF OpInv, CheckedInv, InsiderInv, ListsInv, SameCall,
         SameView, AnswersSolutions, AnswersGame, Ended, GameOps, Ops
    <3> QED  BY <1>0, <3>1, <3>2, <3>3, GoesOn
  <2>3. CASE req.op # "GetGame" /\ Step([req EXCEPT !.pc = "again"])
    <3>1. UNCHANGED <<game, faults>> /\ req' = [req EXCEPT !.pc = "again"]
      BY <2>3 DEF Step
    <3>2. /\ req' \in Request /\ req'.pc = "again" /\ req'.row = req.row
          /\ req'.showToken = req.showToken
          /\ SameCall(req', req) /\ SameView(req', req)
      BY <1>0, <3>1 DEF Request, SameCall, SameView, Places
    <3>3. OpInv' /\ CheckedInv' /\ InsiderInv' /\ ListsInv'
      BY <1>0, <2>1, <2>3, <3>2 DEF OpInv, CheckedInv, InsiderInv, ListsInv, SameCall,
         SameView, AnswersSolutions, AnswersGame, Ended, GameOps, Ops
    <3> QED  BY <1>0, <3>1, <3>2, <3>3, GoesOn
  <2> QED  BY <1>2, <2>2, <2>3 DEF CheckAccess
<1> QED  BY <1>1, <1>2 DEF CheckAccess

(* The read for the status, in front of the solutions.                     *)
LEMMA AgainStep == ASSUME IInv, ReadAgain PROVE IInv'
<1>0. /\ req \in Request /\ req.pc = "again" /\ InsiderInv /\ OpInv
      /\ req.op = "GetGameSolutions"
  BY DEF IInv, TypeOK, ReadAgain, PlaceInv, OpInv
<1>1. ASSUME NEW code \in {"GAME_NOT_FOUND", "GAME_NOT_FINISHED"},
             Step(Refuse(req, code))
      PROVE  IInv'
  <2>1. httpStatusCode(code) \in {403, 404}
    BY <1>1 DEF httpStatusCode
  <2>2. 403 \in Known(req.op) /\ 404 \in Known(req.op)
    BY <1>0, KnownGame
  <2> QED  BY <1>0, <1>1, <2>1, <2>2, RefuseStep
<1>2. CASE MayShowSolutions /\ Step([req EXCEPT !.pc = "solutions"])
  <2>1. UNCHANGED <<game, faults>> /\ req' = [req EXCEPT !.pc = "solutions"]
    BY <1>2 DEF Step
  <2>2. /\ req' \in Request /\ req'.pc = "solutions" /\ req'.row = req.row
        /\ req'.showToken = req.showToken
        /\ SameCall(req', req) /\ SameView(req', req)
    BY <1>0, <2>1 DEF Request, SameCall, SameView, Places
  <2>3. OpInv' /\ CheckedInv' /\ ListsInv'
    BY <1>0, <2>2 DEF OpInv, CheckedInv, ListsInv, SameCall, AnswersGame, Ended,
       GameOps, Ops
  <2>4. InsiderInv'
    BY <1>0, <1>2, <2>1, <2>2 DEF InsiderInv, MayShowSolutions, SameCall, SameView, game
  <2> QED  BY <1>0, <2>1, <2>2, <2>3, <2>4, GoesOn
<1> QED  BY <1>1, <1>2 DEF ReadAgain

(* The answer with the solutions.                                          *)
LEMMA SolutionsStep == ASSUME IInv, ReadSolutions PROVE IInv'
<1>0. /\ req \in Request /\ req.pc = "solutions" /\ InsiderInv
      /\ req.op = "GetGameSolutions"
  BY DEF IInv, TypeOK, ReadSolutions, PlaceInv, OpInv
<1>1. UNCHANGED <<game, faults>> /\ req' = Reply(req, 200)
  BY DEF ReadSolutions, Step
<1>2. /\ req' \in Request /\ req'.pc = "answered" /\ req'.http = 200
      /\ SameCall(req', req) /\ SameRow(req', req) /\ SameView(req', req)
  BY <1>0, <1>1, ReplyFields
<1>3. 200 \in Known(req.op)
  BY <1>0, KnownGame
<1>4. InsiderInv' /\ ListsInv'
  BY <1>0, <1>1, <1>2 DEF InsiderInv, ListsInv, AnswersGame, AnswersSolutions, SameCall,
     SameRow, SameView, Ended, game
<1> QED  BY <1>0, <1>1, <1>2, <1>3, <1>4, Succeeds

(* ListGames counts, lists and, for a game on the page, reads its lists.   *)
LEMMA CountStep == ASSUME IInv, CountGames PROVE IInv'
<1>0. /\ req \in Request /\ req.pc = "count" /\ InsiderInv /\ OpInv /\ ListsInv
      /\ req.op = "ListGames"
  BY DEF IInv, TypeOK, CountGames, PlaceInv, OpInv
<1>1. UNCHANGED <<game, faults>> /\ req' = [req EXCEPT !.pc = "list"]
  BY DEF CountGames, Step
<1>2. /\ req' \in Request /\ req'.pc = "list" /\ req'.row = req.row
      /\ req'.showToken = req.showToken
      /\ SameCall(req', req) /\ SameView(req', req)
  BY <1>0, <1>1 DEF Request, SameCall, SameView, Places
<1>3. OpInv' /\ CheckedInv' /\ ListsInv' /\ InsiderInv'
  BY <1>0, <1>2 DEF OpInv, CheckedInv, ListsInv, InsiderInv, SameCall, AnswersGame,
     AnswersSolutions, Ended, GameOps, Ops
<1> QED  BY <1>0, <1>1, <1>2, <1>3, GoesOn

(* The page: an error for an offset that overflowed, the game, or nothing. *)
LEMMA ListStep == ASSUME IInv, ListGamesForUser PROVE IInv'
<1>0. /\ req \in Request /\ req.pc = "list" /\ InsiderInv /\ OpInv /\ TypeOK
      /\ req.op = "ListGames" /\ ListsInv /\ SeenInv
  BY DEF IInv, TypeOK, ListGamesForUser, PlaceInv, OpInv
<1>1. CASE Step([Refuse(req, "OFFSET must not be negative") EXCEPT !.overflow = TRUE])
  <2>1. httpStatusCode("OFFSET must not be negative") = 500
    BY OtherErrors, ZenonT(60)
  <2>2. /\ UNCHANGED <<game, faults>>
        /\ req' = [Reply(req, 500) EXCEPT !.overflow = TRUE]
    BY <1>1, <2>1, ZenonT(60) DEF Step, Refuse
  <2> DEFINE q == Reply(req, 500)
  <2>3. /\ q \in Request /\ q.pc = "answered" /\ q.http = 500
        /\ SameCall(q, req) /\ SameRow(q, req) /\ SameView(q, req)
        /\ req' = [q EXCEPT !.overflow = TRUE]
    BY <1>0, <2>2, ReplyFields
  <2> HIDE DEF q
  <2>4. /\ req' \in Request /\ req'.pc = "answered" /\ req'.http = 500
        /\ req'.op = req.op /\ req'.user = req.user /\ req'.overflow = TRUE
        /\ SameRow(req', req) /\ SameView(req', req)
    BY <2>3, ZenonT(60) DEF Request, SameCall, SameRow, SameView
  <2>5. AnswersExplained'
    BY <1>0, <2>4 DEF AnswersExplained, InternalErrorsExplained, StatusesKnown, Ended
  <2>6. faults' \in 0..MaxFaults
    BY <1>0, <2>2 DEF TypeOK
  <2> QED  BY <1>0, <2>2, <2>4, <2>5, <2>6, Refused
<1>2. CASE /\ VisibleTo(req.user)
           /\ Step([req EXCEPT !.pc = "participants", !.row = Row])
  <2>1. /\ UNCHANGED <<game, faults>>
        /\ req' = [req EXCEPT !.pc = "participants", !.row = Row]
    BY <1>2 DEF Step
  <2>2. Row \in RowType /\ Exists /\ Row # NoRow
    BY <1>0, <1>2 DEF TypeOK, VisibleTo, Row, NoRow, Exists
  <2>3. /\ req' \in Request /\ req'.pc = "participants" /\ req'.row = Row
        /\ req'.showToken = req.showToken
        /\ SameCall(req', req) /\ SameView(req', req)
    BY <1>0, <2>1, <2>2 DEF Request, SameCall, SameView, Places
  <2>4. OpInv' /\ CheckedInv' /\ ListsInv' /\ InsiderInv'
    BY <1>0, <2>2, <2>3 DEF OpInv, CheckedInv, ListsInv, InsiderInv, SameCall,
       AnswersGame, AnswersSolutions, Ended, GameOps, Ops
  <2> QED  BY <1>0, <2>1, <2>2, <2>3, <2>4, GoesOn
<1>3. CASE Step(Reply(req, 200))
  <2>1. UNCHANGED <<game, faults>> /\ req' = Reply(req, 200)
    BY <1>3 DEF Step
  <2>2. /\ req' \in Request /\ req'.pc = "answered" /\ req'.http = 200
        /\ SameCall(req', req) /\ SameRow(req', req) /\ SameView(req', req)
    BY <1>0, <2>1, ReplyFields
  <2>3. 200 \in Known(req.op)
    BY <1>0, KnownGame
  <2>4. req.row = NoRow
    BY <1>0 DEF ListsInv
  <2>5. InsiderInv' /\ ListsInv'
    BY <1>0, <2>1, <2>2, <2>4 DEF InsiderInv, ListsInv, AnswersGame, AnswersSolutions,
       SameCall, SameRow, SameView, Ended
  <2> QED  BY <1>0, <2>1, <2>2, <2>3, <2>5, Succeeds
<1> QED  BY <1>1, <1>2, <1>3 DEF ListGamesForUser

(* The participants, read after the row.                                   *)
LEMMA ParticipantsStep == ASSUME IInv, GetParticipants PROVE IInv'
<1> DEFINE t == IF req.op = "ListGames" THEN req.row.public \/ req.user \in parts
                ELSE req.showToken
<1>0. /\ req \in Request /\ req.pc = "participants" /\ InsiderInv /\ OpInv
      /\ TypeOK /\ ListsInv /\ SeenInv /\ GameInv
      /\ req.op \in GameOps \ {"GetGameSolutions", "DeleteGame"}
  BY DEF IInv, TypeOK, GetParticipants, PlaceInv, OpInv
<1>1. /\ UNCHANGED <<game, faults>>
      /\ req' = [req EXCEPT !.pc = "problems", !.players = parts, !.showToken = t]
  BY DEF GetParticipants, Step
<1>2. t \in BOOLEAN
  BY <1>0 DEF Request, RowType
<1>3. t /\ ~req.row.public => req.inside \/ req.op = "JoinGameByToken"
  BY <1>0 DEF SeenInv, InsiderInv
<1> HIDE DEF t
<1>4. /\ req' \in Request /\ req'.pc = "problems" /\ req'.row = req.row
      /\ req'.showToken = t /\ req'.players = parts
      /\ SameCall(req', req) /\ SameView(req', req)
  BY <1>0, <1>1, <1>2 DEF Request, SameCall, SameView, Places, TypeOK
<1>5. OpInv' /\ CheckedInv' /\ InsiderInv'
  BY <1>0, <1>3, <1>4 DEF OpInv, CheckedInv, InsiderInv, SameCall, SameView,
     AnswersSolutions, Ended, GameOps, Ops
<1>6. ListsInv'
  <2>1. req.row # NoRow
    BY <1>0 DEF ListsInv
  <2>2. CASE ~req.gone
    <3>1. status # "none" /\ status # "deleted"
      BY <1>0, <2>1, <2>2 DEF SeenInv
    <3>2. /\ creator \in parts /\ winner \in parts \cup {NoUser}
          /\ req.row.creator = creator /\ req.row.winner \in {NoUser, winner}
      BY <1>0, <2>1, <2>2, <3>1 DEF SeenInv, GameInv, Exists
    <3> QED  BY <2>1, <3>2, <1>4 DEF ListsInv, AnswersGame, Ended
  <2>3. CASE req.gone
    BY <2>1, <2>3, <1>4 DEF ListsInv, AnswersGame, Ended, SameView
  <2> QED  BY <2>2, <2>3
<1> QED  BY <1>0, <1>1, <1>4, <1>5, <1>6, GoesOn

(* The answer with a game.                                                 *)
LEMMA ProblemsStep == ASSUME IInv, GetGameProblemIDs PROVE IInv'
<1> DEFINE h == Success(req.op)
<1>0. /\ req \in Request /\ req.pc = "problems" /\ InsiderInv /\ OpInv
      /\ TypeOK /\ ListsInv /\ SeenInv
      /\ req.op \in GameOps \ {"GetGameSolutions", "DeleteGame"}
  BY DEF IInv, TypeOK, GetGameProblemIDs, PlaceInv, OpInv
<1>1. /\ UNCHANGED <<game, faults>>
      /\ req' = [Reply(req, h) EXCEPT !.problems = Exists]
  BY DEF GetGameProblemIDs, Step
<1>2. h \in {200, 201} /\ h \in Known(req.op)
  BY <1>0, KnownGame DEF Success, GameOps
<1> HIDE DEF h
<1>3. /\ Reply(req, h) \in Request
      /\ Reply(req, h).pc = "answered" /\ Reply(req, h).http = h
      /\ SameCall(Reply(req, h), req) /\ SameRow(Reply(req, h), req)
      /\ SameView(Reply(req, h), req) /\ SameLists(Reply(req, h), req)
  BY <1>0, <1>2, ReplyFields
<1>4. Exists \in BOOLEAN
  BY DEF Exists
<1>5. /\ req' \in Request /\ req'.pc = "answered" /\ req'.http = h
      /\ SameCall(req', req) /\ SameRow(req', req) /\ SameView(req', req)
      /\ req'.players = req.players /\ (req'.problems <=> Exists)
  BY <1>1, <1>3, <1>4 DEF Request, SameCall, SameRow, SameView, SameLists
<1>6. InsiderInv'
  BY <1>0, <1>5 DEF InsiderInv, AnswersSolutions, SameCall, SameRow, SameView, Ended
<1>7. ListsInv'
  <2>1. ~req.gone => Exists
    BY <1>0 DEF SeenInv, ListsInv, Exists
  <2> QED  BY <1>0, <1>5, <2>1 DEF ListsInv, AnswersGame, Ended, SameRow, SameView
<1> QED  BY <1>0, <1>1, <1>2, <1>5, <1>6, <1>7, Succeeds

-----------------------------------------------------------------------------
(* The request's writes *)

(* A transaction that commits moves the game by a step of its life, and    *)
(* the handler goes on with the row it returned.                           *)
LEMMA Returned ==
    ASSUME IInv, [Lifecycle!Next]_(Lifecycle!vars), isPublic' \in BOOLEAN,
           req.pc = "write", req.op # "DeleteGame",
           NEW row \in RowType, NEW t \in BOOLEAN, Returns(row, t),
           row.status # "none", status' # "none",
           row.creator = creator', row.winner \in {NoUser, winner'},
           t /\ ~row.public => req.inside \/ req.user \in parts'
                                \/ req.op = "JoinGameByToken"
    PROVE  IInv'
<1>0. /\ TypeParts /\ GameInv /\ PlaceInv /\ SeenInv /\ req \in Request
      /\ faults \in 0..MaxFaults
  BY TypeOKParts DEF IInv
<1>1. TypeParts' /\ GameInv' /\ Moves
  BY <1>0, LifecycleMoves
<1> DEFINE q == [req EXCEPT !.pc = "participants", !.row = row, !.showToken = t]
<1>2. /\ q \in Request /\ q.pc = "participants" /\ q.row = row /\ q.showToken = t
      /\ SameCall(q, req) /\ SameView(q, req)
  BY <1>0 DEF Request, SameCall, SameView, Places
<1>3. req' = Watch(q) /\ UNCHANGED faults
  BY DEF Returns
<1> HIDE DEF q
<1>4. /\ req' \in Request /\ req'.pc = "participants" /\ req'.row = row
      /\ req'.showToken = t /\ SameCall(req', q)
      /\ req'.inside <=> (q.inside \/ q.user \in parts')
      /\ req'.gone <=> (q.gone \/ status' = "deleted")
  BY <1>2, <1>3, WatchFields DEF SameRow
<1>5. /\ SameCall(req', req) /\ (req'.inside <=> req.inside \/ req.user \in parts')
      /\ (req'.gone <=> req.gone \/ status' = "deleted")
  BY <1>2, <1>4 DEF SameCall, SameView
<1>6. TypeOK'
  BY <1>0, <1>1, <1>3, <1>4, TypeOKNext
<1>7. PlaceInv'
  <2>1. req.op \in Writers \ {"DeleteGame"}
    BY <1>0 DEF PlaceInv, OpInv
  <2>2. OpInv'
    BY <2>1, <1>4, <1>5 DEF OpInv, Writers, SameCall, GameOps, Ops
  <2> QED  BY <1>0, <2>2, <1>4, <1>5 DEF PlaceInv, SameCall
<1>8. SeenInv'
  BY <1>0, <1>1, <1>4, <1>5 DEF SeenInv, Moves, SameCall
<1>9. row # NoRow
  BY DEF NoRow
<1>10. CheckedInv' /\ InsiderInv' /\ ListsInv' /\ AnswersExplained'
  BY <1>4, <1>5, <1>9 DEF CheckedInv, InsiderInv, ListsInv, SameCall, AnswersSolutions,
     AnswersGame, Ended, AnswersExplained, InternalErrorsExplained, StatusesKnown
<1> QED  BY <1>1, <1>6, <1>7, <1>8, <1>10 DEF IInv

(* A transaction that one of its checks ends.                              *)
LEMMA RolledBack ==
    ASSUME IInv, NEW op, NEW checks, RollBack(op, checks),
           httpStatusCode(FirstFailure(checks)) \in Known(op),
           httpStatusCode(FirstFailure(checks)) \notin {200, 201, 500}
    PROVE  IInv'
<1>1. req.pc = "write" /\ req.op = op /\ Step(Refuse(req, FirstFailure(checks)))
  BY DEF RollBack
<1> QED  BY <1>1, RefuseStep

(* What the row is that a transaction returns.                             *)
LEMMA RowFields ==
    ASSUME TypeParts, isPublic \in BOOLEAN
    PROVE  /\ Row \in RowType /\ Row.status = status /\ Row.creator = creator
           /\ Row.public = isPublic /\ Row.winner = winner
           /\ \A st \in Statuses :
                 LET row == [Row EXCEPT !.status = st] IN
                 /\ row \in RowType /\ row.status = st /\ row.creator = creator
                 /\ row.public = isPublic /\ row.winner = winner
           /\ \A st \in Statuses, w \in Users :
                 LET row == [Row EXCEPT !.status = st, !.winner = w] IN
                 /\ row \in RowType /\ row.status = st /\ row.creator = creator
                 /\ row.public = isPublic /\ row.winner = w
BY ZenonT(60) DEF Row, RowType, TypeParts

(* A game begins.                                                          *)
LEMMA StartStep ==
    ASSUME IInv, StartGame
    PROVE  IInv' /\ [Lifecycle!Next]_(Lifecycle!vars)
<1>0. /\ TypeParts /\ isPublic \in BOOLEAN /\ GameInv /\ TypeOK
  BY TypeOKParts DEF IInv
<1>1. CASE RollBack("StartGame", StartChecks)
  <2>1. FirstFailure(StartChecks) \in {"GAME_NOT_FOUND", "GAME_ALREADY_STARTED",
            "NOT_GAME_CREATOR", "NOT_ENOUGH_PLAYERS"}
    BY <1>1, StartOutcome DEF RollBack
  <2>2. httpStatusCode(FirstFailure(StartChecks)) \in {400, 403, 404, 409}
    BY <2>1 DEF httpStatusCode
  <2>3. Known("StartGame") = {200, 400, 401, 403, 404, 409}
    BY KnownGame
  <2>4. IInv'
    BY <1>1, <2>2, <2>3, RolledBack
  <2> QED  BY <1>1, <2>4 DEF RollBack, Step, game, Lifecycle!vars
<1>2. CASE /\ Commits("StartGame", StartChecks)
           /\ status' = "active"
           /\ UNCHANGED <<creator, solo, parts, winner, isPublic>>
           /\ Returns([Row EXCEPT !.status = "active"], TRUE)
  <2>1. /\ Exists /\ status = "pending" /\ creator = req.user
        /\ solo \/ Cardinality(parts) >= 2
    BY <1>2, StartOutcome DEF Commits
  <2>2. [Lifecycle!Next]_(Lifecycle!vars)
    <3>1. solo \/ \E u, v \in parts : u # v
      BY <2>1, TwoMembers
    <3>2. Lifecycle!Begin
      BY <1>2, <2>1, <3>1 DEF Lifecycle!Begin
    <3> QED  BY <3>2 DEF Lifecycle!Next
  <2> DEFINE row == [Row EXCEPT !.status = "active"]
  <2>3. /\ row \in RowType /\ row.status = "active" /\ row.creator = creator
        /\ row.winner = winner
    BY <1>0, RowFields DEF Statuses
  <2>4. Returns(row, TRUE)
    BY <1>2
  <2> HIDE DEF row
  <2>5. req.pc = "write" /\ req.op = "StartGame" /\ req.user \in parts'
    BY <1>0, <1>2, <2>1 DEF Commits, GameInv
  <2>6. IInv'
    BY <1>0, <1>2, <2>2, <2>3, <2>4, <2>5, Returned
  <2> QED  BY <2>2, <2>6
<1> QED  BY <1>1, <1>2 DEF StartGame

(* A game is won by whom its creator names, who was checked on an earlier  *)
(* row.                                                                    *)
LEMMA CompleteStep ==
    ASSUME IInv, NEW w \in Users,
           \/ RollBack("CompleteGame", CompleteChecks(w))
           \/ /\ Commits("CompleteGame", CompleteChecks(w))
              /\ status' = "finished"
              /\ winner' = w
              /\ UNCHANGED <<creator, solo, parts, isPublic>>
              /\ Returns([Row EXCEPT !.status = "finished", !.winner = w], TRUE)
    PROVE  IInv' /\ [Lifecycle!Next]_(Lifecycle!vars)
<1>0. /\ TypeParts /\ isPublic \in BOOLEAN /\ GameInv /\ TypeOK /\ SeenInv
      /\ CheckedInv
  BY TypeOKParts DEF IInv
<1>1. CASE RollBack("CompleteGame", CompleteChecks(w))
  <2>1. FirstFailure(CompleteChecks(w)) \in
            {"GAME_NOT_FOUND", "GAME_NOT_IN_PROGRESS", "INVALID_WINNER"}
    BY <1>1, CompleteOutcome DEF RollBack
  <2>2. httpStatusCode(FirstFailure(CompleteChecks(w))) \in {400, 404, 409}
    BY <2>1 DEF httpStatusCode
  <2>3. Known("CompleteGame") = {200, 400, 401, 403, 404, 409}
    BY KnownGame
  <2>4. IInv'
    BY <1>1, <2>2, <2>3, RolledBack
  <2> QED  BY <1>1, <2>4 DEF RollBack, Step, game, Lifecycle!vars
<1>2. CASE /\ Commits("CompleteGame", CompleteChecks(w))
           /\ status' = "finished"
           /\ winner' = w
           /\ UNCHANGED <<creator, solo, parts, isPublic>>
           /\ Returns([Row EXCEPT !.status = "finished", !.winner = w], TRUE)
  <2>1. Exists /\ status = "active" /\ w \in parts
    BY <1>2, CompleteOutcome DEF Commits
  <2>2. [Lifecycle!Next]_(Lifecycle!vars)
    <3>1. Lifecycle!Win(w)
      BY <1>2, <2>1 DEF Lifecycle!Win
    <3> QED  BY <3>1 DEF Lifecycle!Next
  <2> DEFINE row == [Row EXCEPT !.status = "finished", !.winner = w]
  <2>3. /\ row \in RowType /\ row.status = "finished" /\ row.creator = creator
        /\ row.winner = w
    BY <1>0, RowFields DEF Statuses
  <2>4. Returns(row, TRUE)
    BY <1>2
  <2> HIDE DEF row
  <2>5. req.pc = "write" /\ req.op = "CompleteGame"
    BY <1>2 DEF Commits
  <2>6. req.user \in parts'
    <3>1. creator = req.user
      BY <1>0, <2>1, <2>5 DEF CheckedInv, SeenInv
    <3> QED  BY <1>0, <1>2, <2>1, <3>1 DEF GameInv
  <2>7. IInv'
    BY <1>0, <1>2, <2>2, <2>3, <2>4, <2>5, <2>6, Returned
  <2> QED  BY <2>2, <2>7
<1> QED  BY <1>1, <1>2

(* A game is cancelled.                                                    *)
LEMMA CancelStep ==
    ASSUME IInv, CancelGame
    PROVE  IInv' /\ [Lifecycle!Next]_(Lifecycle!vars)
<1>0. /\ TypeParts /\ isPublic \in BOOLEAN /\ GameInv /\ TypeOK
  BY TypeOKParts DEF IInv
<1>1. CASE RollBack("CancelGame", CancelChecks)
  <2>1. FirstFailure(CancelChecks) \in
            {"GAME_NOT_FOUND", "NOT_GAME_CREATOR", "CANNOT_CANCEL_FINISHED_GAME",
             "GAME_ALREADY_CANCELLED"}
    BY <1>1, CancelOutcome DEF RollBack
  <2>2. httpStatusCode(FirstFailure(CancelChecks)) \in {403, 404, 409}
    BY <2>1 DEF httpStatusCode
  <2>3. Known("CancelGame") = {200, 400, 401, 403, 404, 409}
    BY KnownGame
  <2>4. IInv'
    BY <1>1, <2>2, <2>3, RolledBack
  <2> QED  BY <1>1, <2>4 DEF RollBack, Step, game, Lifecycle!vars
<1>2. CASE /\ Commits("CancelGame", CancelChecks)
           /\ status' = "cancelled"
           /\ UNCHANGED <<creator, solo, parts, winner, isPublic>>
           /\ Returns([Row EXCEPT !.status = "cancelled"], TRUE)
  <2>1. /\ Exists /\ creator = req.user /\ status # "finished"
        /\ status # "cancelled"
    BY <1>2, CancelOutcome DEF Commits
  <2>2. [Lifecycle!Next]_(Lifecycle!vars)
    <3>1. Lifecycle!Cancel
      BY <1>0, <1>2, <2>1, SMTT(30) DEF Lifecycle!Cancel, Exists, TypeParts, Statuses
    <3> QED  BY <3>1 DEF Lifecycle!Next
  <2> DEFINE row == [Row EXCEPT !.status = "cancelled"]
  <2>3. /\ row \in RowType /\ row.status = "cancelled" /\ row.creator = creator
        /\ row.winner = winner
    BY <1>0, RowFields DEF Statuses
  <2>4. Returns(row, TRUE)
    BY <1>2
  <2> HIDE DEF row
  <2>5. req.pc = "write" /\ req.op = "CancelGame" /\ req.user \in parts'
    BY <1>0, <1>2, <2>1 DEF Commits, GameInv
  <2>6. IInv'
    BY <1>0, <1>2, <2>2, <2>3, <2>4, <2>5, Returned
  <2> QED  BY <2>2, <2>6
<1> QED  BY <1>1, <1>2 DEF CancelGame

(* A player leaves.                                                        *)
LEMMA LeaveStep ==
    ASSUME IInv, LeaveGame
    PROVE  IInv' /\ [Lifecycle!Next]_(Lifecycle!vars)
<1>0. /\ TypeParts /\ isPublic \in BOOLEAN /\ GameInv /\ TypeOK
  BY TypeOKParts DEF IInv
<1>1. CASE RollBack("LeaveGame", LeaveChecks)
  <2>1. FirstFailure(LeaveChecks) \in
            {"GAME_NOT_FOUND", "GAME_ALREADY_CANCELLED", "GAME_ALREADY_STARTED",
             "CREATOR_CANNOT_LEAVE", "NOT_PARTICIPANT"}
    BY <1>1, LeaveOutcome DEF RollBack
  <2>2. httpStatusCode(FirstFailure(LeaveChecks)) \in {403, 404, 409}
    BY <2>1 DEF httpStatusCode
  <2>3. Known("LeaveGame") = {200, 400, 401, 403, 404, 409}
    BY KnownGame
  <2>4. IInv'
    BY <1>1, <2>2, <2>3, RolledBack
  <2> QED  BY <1>1, <2>4 DEF RollBack, Step, game, Lifecycle!vars
<1>2. CASE /\ Commits("LeaveGame", LeaveChecks)
           /\ parts' = parts \ {req.user}
           /\ UNCHANGED <<status, creator, solo, winner, isPublic>>
           /\ Returns(Row, isPublic)
  <2>1. /\ Exists /\ status = "pending" /\ creator # req.user
        /\ req.user \in parts
    BY <1>2, LeaveOutcome DEF Commits
  <2>2. [Lifecycle!Next]_(Lifecycle!vars)
    <3>1. Lifecycle!ChangeRoster(req.user) /\ req.user \in Users
      BY <1>0, <1>2, <2>1 DEF Lifecycle!ChangeRoster, TypeParts
    <3> QED  BY <3>1 DEF Lifecycle!Next
  <2>3. /\ Row \in RowType /\ Row.status = status /\ Row.creator = creator
        /\ Row.public = isPublic /\ Row.winner = winner
    BY <1>0, RowFields
  <2>4. req.pc = "write" /\ req.op = "LeaveGame" /\ status # "none"
    BY <1>2, <2>1 DEF Commits
  <2>5. IInv'
    BY <1>0, <1>2, <2>2, <2>3, <2>4, Returned
  <2> QED  BY <2>2, <2>5
<1> QED  BY <1>1, <1>2 DEF LeaveGame

(* A player joins.                                                         *)
LEMMA JoinStep ==
    ASSUME IInv, JoinGame
    PROVE  IInv' /\ [Lifecycle!Next]_(Lifecycle!vars)
<1>0. /\ TypeParts /\ isPublic \in BOOLEAN /\ GameInv /\ TypeOK /\ PlaceInv
  BY TypeOKParts DEF IInv
<1>1. CASE RollBack("JoinGameByToken", JoinChecks)
  <2>1. FirstFailure(JoinChecks) \in
            {"GAME_NOT_FOUND", "GAME_ALREADY_STARTED", "ALREADY_PARTICIPANT"}
    BY <1>1, JoinOutcome DEF RollBack
  <2>2. httpStatusCode(FirstFailure(JoinChecks)) \in {404, 409}
    BY <2>1 DEF httpStatusCode
  <2>3. Known("JoinGameByToken") = {200, 400, 401, 404, 409}
    BY KnownGame
  <2>4. IInv'
    BY <1>1, <2>2, <2>3, RolledBack
  <2> QED  BY <1>1, <2>4 DEF RollBack, Step, game, Lifecycle!vars
<1>2. CASE /\ Commits("JoinGameByToken", JoinChecks)
           /\ parts' = parts \cup {req.user}
           /\ UNCHANGED <<status, creator, solo, winner, isPublic>>
           /\ Returns(Row, TRUE)
  <2>1. Exists /\ status = "pending" /\ req.user \notin parts
    BY <1>2, JoinOutcome DEF Commits
  <2>2. req.pc = "write" /\ req.op = "JoinGameByToken" /\ status # "none"
    BY <1>2, <2>1 DEF Commits
  <2>3. [Lifecycle!Next]_(Lifecycle!vars)
    <3>1. req.user \in Users /\ creator # req.user
      BY <1>0, <2>1, <2>2 DEF PlaceInv, PublicOps, GameInv
    <3>2. Lifecycle!ChangeRoster(req.user)
      BY <1>2, <2>1, <3>1 DEF Lifecycle!ChangeRoster
    <3> QED  BY <3>1, <3>2 DEF Lifecycle!Next
  <2>4. /\ Row \in RowType /\ Row.status = status /\ Row.creator = creator
        /\ Row.winner = winner
    BY <1>0, RowFields
  <2>5. IInv'
    BY <1>0, <1>2, <2>2, <2>3, <2>4, Returned
  <2> QED  BY <2>3, <2>5
<1> QED  BY <1>1, <1>2 DEF JoinGame

(* The timeout and the deletion, which look at nothing but the id.         *)
LEMMA TimeoutStep ==
    ASSUME IInv, TimeoutGame
    PROVE  IInv' /\ [Lifecycle!Next]_(Lifecycle!vars)
<1>0. /\ TypeParts /\ isPublic \in BOOLEAN /\ GameInv /\ TypeOK /\ SeenInv
      /\ req.pc = "write" /\ req.op = "TimeoutGame"
      /\ solo /\ status \in {"active", "cancelled", "finished", "deleted"}
  BY TypeOKParts DEF IInv, CheckedInv, TimeoutGame
<1>1. CASE ~Exists /\ Step(Refuse(req, "no rows in result set"))
  <2>1. req.gone
    BY <1>0, <1>1 DEF Exists, SeenInv
  <2>2. httpStatusCode("no rows in result set") = 500
    BY OtherErrors, ZenonT(60)
  <2> DEFINE code == "no rows in result set"
  <2>3. Step(Refuse(req, code)) /\ httpStatusCode(code) = 500
    BY <1>1, <2>2, Zenon
  <2> HIDE DEF code
  <2>4. IInv'
    BY <1>0, <2>1, <2>3, RefuseStep
  <2> QED  BY <1>1, <2>4 DEF Step, game, Lifecycle!vars
<1>2. CASE /\ Exists /\ status' = "finished"
           /\ UNCHANGED <<creator, solo, parts, winner, isPublic>>
           /\ Returns([Row EXCEPT !.status = "finished"], FALSE)
  <2>1. [Lifecycle!Next]_(Lifecycle!vars)
    <3>1. CASE status = "finished"
      BY <1>2, <3>1 DEF Lifecycle!vars
    <3>2. CASE status \in {"active", "cancelled"}
      <4>1. Lifecycle!TimeUp
        BY <1>0, <1>2, <3>2 DEF Lifecycle!TimeUp
      <4> QED  BY <4>1 DEF Lifecycle!Next
    <3> QED  BY <1>0, <1>2, <3>1, <3>2 DEF Exists
  <2> DEFINE row == [Row EXCEPT !.status = "finished"]
  <2>2. /\ row \in RowType /\ row.status = "finished" /\ row.creator = creator
        /\ row.winner = winner
    BY <1>0, RowFields DEF Statuses
  <2>3. Returns(row, FALSE)
    BY <1>2
  <2> HIDE DEF row
  <2>4. IInv'
    BY <1>0, <1>2, <2>1, <2>2, <2>3, Returned
  <2> QED  BY <2>1, <2>4
<1> QED  BY <1>1, <1>2 DEF TimeoutGame

(* A game is deleted, with its participants.                               *)
LEMMA DeleteStep ==
    ASSUME IInv, DeleteGame
    PROVE  IInv' /\ [Lifecycle!Next]_(Lifecycle!vars)
<1>0. /\ TypeParts /\ isPublic \in BOOLEAN /\ GameInv /\ PlaceInv /\ SeenInv
      /\ req \in Request /\ faults \in 0..MaxFaults /\ InsiderInv
      /\ req.pc = "write" /\ req.op = "DeleteGame"
  BY TypeOKParts DEF IInv, DeleteGame
<1>1. CASE Step(Refuse(req, "GAME_NOT_FOUND"))
  <2>1. httpStatusCode("GAME_NOT_FOUND") = 404
    BY StatusValues
  <2>2. 404 \in Known(req.op)
    BY <1>0, KnownGame
  <2>3. IInv'
    BY <1>0, <1>1, <2>1, <2>2, RefuseStep
  <2> QED  BY <1>1, <2>3 DEF Step, game, Lifecycle!vars
<1>2. CASE /\ Exists /\ status' = "deleted" /\ parts' = {} /\ winner' = NoUser
           /\ req' = Watch(Reply(req, 200))
           /\ UNCHANGED <<creator, solo, isPublic, faults>>
  <2>1. [Lifecycle!Next]_(Lifecycle!vars)
    <3>1. Lifecycle!Delete
      BY <1>0, <1>2 DEF Lifecycle!Delete, Exists, TypeParts, Statuses
    <3> QED  BY <3>1 DEF Lifecycle!Next
  <2>2. TypeParts' /\ GameInv' /\ Moves
    BY <1>0, <2>1, LifecycleMoves
  <2> DEFINE q == Reply(req, 200)
  <2>3. /\ q \in Request /\ q.pc = "answered" /\ q.http = 200
        /\ SameCall(q, req) /\ SameRow(q, req) /\ SameView(q, req)
    BY <1>0, ReplyFields
  <2>4. req' = Watch(q)
    BY <1>2
  <2> HIDE DEF q
  <2>5. /\ req' \in Request /\ req'.pc = "answered" /\ req'.http = 200
        /\ SameCall(req', q) /\ SameRow(req', q)
        /\ req'.inside <=> (q.inside \/ q.user \in parts')
        /\ req'.gone <=> (q.gone \/ status' = "deleted")
    BY <2>3, <2>4, WatchFields
  <2>6. /\ SameCall(req', req) /\ SameRow(req', req) /\ req'.gone
        /\ (req'.inside <=> req.inside)
    BY <1>2, <2>3, <2>5 DEF SameCall, SameRow, SameView
  <2>7. TypeOK'
    BY <1>0, <1>2, <2>2, <2>5, TypeOKNext
  <2>8. PlaceInv' /\ SeenInv' /\ CheckedInv'
    BY <1>0, <1>2, <2>5, <2>6 DEF PlaceInv, OpInv, SeenInv, CheckedInv, SameCall, SameRow
  <2>9. InsiderInv' /\ ListsInv'
    BY <1>0, <2>5, <2>6 DEF InsiderInv, ListsInv, AnswersSolutions, AnswersGame, Ended,
       SameCall, SameRow
  <2>10. AnswersExplained'
    <3>1. 200 \in Known(req.op)
      BY <1>0, KnownGame
    <3> QED  BY <2>5, <2>6, <3>1 DEF AnswersExplained, InternalErrorsExplained,
                StatusesKnown, Ended, SameCall
  <2>11. IInv'
    BY <2>2, <2>7, <2>8, <2>9, <2>10 DEF IInv
  <2> QED  BY <2>1, <2>11
<1> QED  BY <1>1, <1>2 DEF DeleteGame

(* A game is created.                                                      *)
LEMMA CreateStep ==
    ASSUME IInv, CreateGame
    PROVE  IInv' /\ [Lifecycle!Next]_(Lifecycle!vars)
<1>0. /\ TypeParts /\ isPublic \in BOOLEAN /\ GameInv /\ PlaceInv
      /\ req.pc = "write" /\ req.op = "CreateGame" /\ req.user \in Users
  BY TypeOKParts DEF IInv, CreateGame, PlaceInv, PublicOps
<1>1. ASSUME NEW code \in {"VALIDATION_ERROR", "PROBLEM_NOT_FOUND"},
             Step(Refuse(req, code))
      PROVE  IInv' /\ [Lifecycle!Next]_(Lifecycle!vars)
  <2>1. httpStatusCode(code) \in {400, 404}
    BY <1>1 DEF httpStatusCode
  <2>2. 400 \in Known(req.op) /\ 404 \in Known(req.op)
    BY <1>0, KnownGame
  <2>3. IInv'
    BY <1>0, <1>1, <2>1, <2>2, RefuseStep
  <2> QED  BY <1>1, <2>3 DEF Step, game, Lifecycle!vars
<1>2. ASSUME NEW s \in BOOLEAN, NEW p \in BOOLEAN, status = "none",
             status' = "pending", creator' = req.user, solo' = s,
             isPublic' = (p /\ ~s), parts' = {req.user}, UNCHANGED winner,
             Returns([status |-> "pending", creator |-> req.user, solo |-> s,
                      public |-> p /\ ~s, winner |-> NoUser], TRUE)
      PROVE  IInv' /\ [Lifecycle!Next]_(Lifecycle!vars)
  <2>1. [Lifecycle!Next]_(Lifecycle!vars)
    <3>1. Lifecycle!Open(req.user, s)
      BY <1>2 DEF Lifecycle!Open
    <3> QED  BY <1>0, <3>1 DEF Lifecycle!Next
  <2> DEFINE row == [status |-> "pending", creator |-> req.user, solo |-> s,
                     public |-> p /\ ~s, winner |-> NoUser]
  <2>2. (p /\ ~s) \in BOOLEAN
    OBVIOUS
  <2>3. /\ row \in RowType /\ row.status = "pending"
        /\ row.creator = req.user /\ row.winner = NoUser
    BY <1>0, <2>2 DEF RowType, Statuses
  <2>4. Returns(row, TRUE)
    BY <1>2
  <2> HIDE DEF row
  <2>5. isPublic' \in BOOLEAN /\ req.user \in parts'
    BY <1>2, <2>2
  <2>6. IInv'
    BY <1>0, <1>2, <2>1, <2>3, <2>4, <2>5, Returned
  <2> QED  BY <2>1, <2>6
<1> QED  BY <1>0, <1>1, <1>2 DEF CreateGame

-----------------------------------------------------------------------------
(* The rest *)

(* The operations on accounts and PostExecute.                             *)
LEMMA ServiceStep == ASSUME IInv, CallService PROVE IInv'
<1>0. /\ req \in Request /\ req.pc = "service" /\ InsiderInv /\ ListsInv
      /\ req.op \in AccountOps
  BY DEF IInv, TypeOK, CallService, PlaceInv, OpInv
<1>1. CASE Step(Reply(req, 200))
  <2>1. UNCHANGED <<game, faults>> /\ req' = Reply(req, 200)
    BY <1>1 DEF Step
  <2>2. /\ req' \in Request /\ req'.pc = "answered" /\ req'.http = 200
        /\ SameCall(req', req) /\ SameRow(req', req) /\ SameView(req', req)
    BY <1>0, <2>1, ReplyFields
  <2>3. 200 \in Known(req.op)
    BY <1>0, KnownAccount DEF AccountOps
  <2>4. req.row = NoRow /\ req.op # "GetGameSolutions"
    BY <1>0 DEF ListsInv, AccountOps
  <2>5. InsiderInv' /\ ListsInv'
    BY <1>0, <2>2, <2>4 DEF InsiderInv, ListsInv, AnswersGame, AnswersSolutions,
       SameCall, SameRow, SameView, Ended
  <2> QED  BY <1>0, <2>1, <2>2, <2>3, <2>5, Succeeds
<1>2. ASSUME NEW code \in ServiceCodes(req.op), Step(Refuse(req, code))
      PROVE  IInv'
  <2>1. CASE req.op = "PostAuthEnter"
    <3>1. code \in {"INVALID_EMAIL", "CODE_RECENTLY_SENT"}
      BY <1>2, <2>1 DEF ServiceCodes
    <3>2. httpStatusCode(code) \in {400, 429}
      BY <3>1 DEF httpStatusCode
    <3>3. Known(req.op) = {200, 400, 429}
      BY <2>1, KnownAccount
    <3> QED  BY <1>0, <1>2, <3>2, <3>3, RefuseStep
  <2>2. CASE req.op = "PostAuthConfirm"
    <3>1. code \in {"INVALID_CODE", "TOO_MANY_ATTEMPTS"}
      BY <1>2, <2>2 DEF ServiceCodes
    <3>2. httpStatusCode(code) \in {400, 429}
      BY <3>1 DEF httpStatusCode
    <3>3. Known(req.op) = {200, 400, 404, 429}
      BY <2>2, KnownAccount
    <3> QED  BY <1>0, <1>2, <3>2, <3>3, RefuseStep
  <2>3. CASE req.op = "PatchAuthMe"
    <3>1. code = "VALIDATION_ERROR"
      BY <1>2, <2>3 DEF ServiceCodes
    <3>2. httpStatusCode(code) = 400
      BY <3>1 DEF httpStatusCode
    <3>3. Known(req.op) = {200, 400, 401}
      BY <2>3, KnownAccount
    <3> QED  BY <1>0, <1>2, <3>2, <3>3, RefuseStep
  <2>4. CASE req.op = "PostExecute"
    <3>1. code \in {"EXECUTION_IN_PROGRESS", "EXECUTION_RATE_LIMITED",
                    "EXECUTOR_OVERLOADED", "unsupported language"}
      BY <1>2, <2>4 DEF ServiceCodes
    <3>2. httpStatusCode(code) \in {429, 503, 500}
      <4>1. CASE code = "unsupported language"
        BY <4>1, OtherErrors, ZenonT(60)
      <4>2. CASE code \in {"EXECUTION_IN_PROGRESS", "EXECUTION_RATE_LIMITED",
                           "EXECUTOR_OVERLOADED"}
        BY <4>2 DEF httpStatusCode
      <4> QED  BY <3>1, <4>1, <4>2, ZenonT(60)
    <3>3. Known(req.op) = {200, 400, 401, 429, 503}
      BY <2>4, KnownAccount
    <3> QED  BY <1>0, <1>2, <2>4, <3>2, <3>3, RefuseStep
  <2>5. CASE req.op \notin {"PostAuthEnter", "PostAuthConfirm", "PatchAuthMe",
                            "PostExecute"}
    BY <1>2, <2>5 DEF ServiceCodes
  <2> QED  BY <2>1, <2>2, <2>3, <2>4, <2>5
<1> QED  BY <1>1, <1>2 DEF CallService

(* A statement fails.                                                      *)
LEMMA FailStep == ASSUME IInv, Fail PROVE IInv'
<1>0. /\ req \in Request /\ req.pc # "idle" /\ faults \in 0..MaxFaults
      /\ faults < MaxFaults /\ faults' = faults + 1 /\ UNCHANGED game
  BY DEF IInv, TypeOK, Fail
<1> DEFINE q == Reply(req, 500)
<1>1. /\ q \in Request /\ q.pc = "answered" /\ q.http = 500
      /\ SameCall(q, req) /\ SameRow(q, req) /\ SameView(q, req)
      /\ req' = [q EXCEPT !.failed = TRUE]
  BY <1>0, ReplyFields DEF Fail
<1> HIDE DEF q
<1>2. /\ req' \in Request /\ req'.pc = "answered" /\ req'.http = 500
      /\ req'.op = req.op /\ req'.user = req.user /\ req'.failed = TRUE
      /\ SameRow(req', req) /\ SameView(req', req)
  BY <1>1 DEF Request, SameCall, SameRow, SameView
<1>3. AnswersExplained'
  BY <1>2 DEF AnswersExplained, InternalErrorsExplained, StatusesKnown, Ended
<1>4. faults' \in 0..MaxFaults
  BY <1>0, ApiAssumption
<1> QED  BY <1>0, <1>2, <1>3, <1>4, Refused

(* The answer leaves and the next request may come.                        *)
LEMMA AnsweredStep == ASSUME IInv, Answered PROVE IInv'
<1>0. TypeOK /\ GameInv /\ UNCHANGED <<game, faults>> /\ req' = Idle
  BY DEF IInv, Answered, Step
<1>1. TypeOK' /\ GameInv'
  <2>1. Row' = Row
    BY <1>0 DEF Row, game
  <2> QED  BY <1>0, <2>1, IdleFields DEF TypeOK, GameInv, Exists, game
<1>2. PlaceInv' /\ SeenInv' /\ CheckedInv'
  BY <1>0, IdleFields DEF PlaceInv, OpInv, SeenInv, CheckedInv
<1>3. InsiderInv' /\ ListsInv' /\ AnswersExplained'
  BY <1>0, IdleFields DEF InsiderInv, ListsInv, AnswersSolutions, AnswersGame, Ended,
     AnswersExplained, InternalErrorsExplained, StatusesKnown
<1> QED  BY <1>1, <1>2, <1>3 DEF IInv

(* Other requests, submissions and timers.                                 *)
LEMMA OthersStep ==
    ASSUME IInv, Others
    PROVE  IInv' /\ [Lifecycle!Next]_(Lifecycle!vars)
<1>0. /\ TypeParts /\ isPublic \in BOOLEAN /\ GameInv /\ PlaceInv /\ SeenInv
      /\ req \in Request /\ faults \in 0..MaxFaults /\ InsiderInv /\ ListsInv
      /\ CheckedInv /\ AnswersExplained /\ UNCHANGED faults
  BY TypeOKParts DEF IInv, Others
<1>1. [Lifecycle!Next]_(Lifecycle!vars)
  BY DEF Others
<1>2. TypeParts' /\ GameInv' /\ Moves
  BY <1>0, <1>1, LifecycleMoves
<1>3. isPublic' \in BOOLEAN
  <2>1. solo' \in BOOLEAN
    BY <1>2 DEF TypeParts
  <2> QED  BY <1>0, <2>1 DEF Others
<1>4. CASE req.pc = "idle" /\ req' = req
  <2>1. TypeOK'
    BY <1>0, <1>2, <1>3, <1>4, TypeOKNext
  <2>2. req = Idle
    BY <1>0, <1>4 DEF PlaceInv
  <2>3. PlaceInv' /\ SeenInv' /\ CheckedInv'
    BY <1>0, <1>4, <2>2, IdleFields DEF PlaceInv, OpInv, SeenInv, CheckedInv
  <2>4. InsiderInv' /\ ListsInv' /\ AnswersExplained'
    BY <1>4, <2>2, IdleFields DEF InsiderInv, ListsInv, AnswersSolutions,
       AnswersGame, Ended, AnswersExplained, InternalErrorsExplained, StatusesKnown
  <2> QED  BY <1>1, <1>2, <2>1, <2>3, <2>4 DEF IInv
<1>5. CASE req.pc # "idle" /\ req' = Watch(req)
  <2>1. /\ req' \in Request /\ req'.pc = req.pc /\ req'.http = req.http
        /\ SameCall(req', req) /\ SameRow(req', req) /\ SameLists(req', req)
        /\ req'.inside <=> (req.inside \/ req.user \in parts')
        /\ req'.gone <=> (req.gone \/ status' = "deleted")
    BY <1>0, <1>5, WatchFields
  <2>2. TypeOK'
    BY <1>0, <1>2, <1>3, <2>1, TypeOKNext
  <2>3. PlaceInv'
    BY <1>0, <1>5, <2>1 DEF PlaceInv, OpInv, SameCall
  <2>4. SeenInv'
    BY <1>0, <1>2, <2>1 DEF SeenInv, Moves, SameCall, SameRow
  <2>5. CheckedInv'
    <3>1. CASE req.op = "TimeoutGame"
      BY <1>0, <1>2, <2>1, <3>1 DEF CheckedInv, Moves, SameCall
    <3>2. CASE req.op = "CompleteGame" /\ req.pc = "write"
      <4>1. status # "none"
        BY <1>0, <3>2 DEF CheckedInv
      <4> QED  BY <1>0, <1>2, <2>1, <3>2, <4>1 DEF CheckedInv, Moves, SameCall
    <3> QED  BY <2>1, <3>1, <3>2 DEF CheckedInv, SameCall
  <2>6. InsiderInv'
    BY <1>0, <1>2, <2>1 DEF InsiderInv, Moves, SameCall, SameRow, AnswersSolutions, Ended
  <2>7. ListsInv'
    BY <1>0, <2>1 DEF ListsInv, SameCall, SameRow, SameLists, AnswersGame, Ended
  <2>8. AnswersExplained'
    BY <1>0, <2>1 DEF AnswersExplained, InternalErrorsExplained, StatusesKnown, Ended,
       SameCall
  <2> QED  BY <1>1, <1>2, <2>2, <2>3, <2>4, <2>5, <2>6, <2>7, <2>8 DEF IInv
<1> QED  BY <1>4, <1>5 DEF Others

(* A request arrives, and is answered by the middleware or reaches the     *)
(* first statement of its handler.                                         *)
LEMMA ArriveStep ==
    ASSUME IInv, NEW op \in Ops, NEW u \in Users \cup {NoUser}, NEW b \in BOOLEAN,
           Arrive(op, u, b)
    PROVE  IInv'
<1> DEFINE r == [Idle EXCEPT !.op = op, !.user = u, !.inside = u \in parts,
                             !.gone = status = "deleted"]
           gate == Gate(op, u, b)
<1>0. /\ TypeParts /\ isPublic \in BOOLEAN /\ GameInv /\ TypeOK
      /\ UNCHANGED <<game, faults>>
      /\ req' = IF gate # 0 THEN Reply(r, gate)
                ELSE [r EXCEPT !.pc = FirstStatement(op)]
  BY TypeOKParts DEF IInv, Arrive, Step
<1>1. /\ r \in Request /\ r.pc = "idle" /\ r.op = op /\ r.user = u /\ r.row = NoRow
      /\ r.showToken = FALSE /\ r.http = 0 /\ (r.inside <=> u \in parts)
      /\ (r.gone <=> status = "deleted")
  <2>1. (u \in parts) \in BOOLEAN /\ (status = "deleted") \in BOOLEAN
    OBVIOUS
  <2>2. op \in Ops \cup {"none"}
    OBVIOUS
  <2> QED  BY <2>1, <2>2, IdleFields DEF Request
<1>2. /\ gate = 0 => op \in PublicOps \/ u \in Users
      /\ gate # 0 => gate \in {400, 401} /\ gate \in Known(op)
  BY GateKnown
<1> HIDE DEF r, gate
<1>3. FirstStatement(op) \in {"read", "write", "count", "service"}
  BY DEF FirstStatement
<1>4. /\ req' \in Request /\ req'.op = op /\ req'.user = u /\ req'.row = NoRow
      /\ req'.showToken = FALSE /\ (req'.inside <=> u \in parts)
      /\ (req'.gone <=> status = "deleted")
      /\ \/ gate # 0 /\ req'.pc = "answered" /\ req'.http = gate
         \/ gate = 0 /\ req'.pc = FirstStatement(op)
  <2>1. CASE gate # 0
    <3>1. gate \in Nat /\ req' = Reply(r, gate)
      BY <1>0, <1>2, <2>1
    <3> QED  BY <1>1, <2>1, <3>1, ReplyFields DEF SameCall, SameRow, SameView
  <2>2. CASE gate = 0
    <3>1. req' = [r EXCEPT !.pc = FirstStatement(op)]
      BY <1>0, <2>2
    <3>2. FirstStatement(op) \in Places
      BY <1>3 DEF Places
    <3> QED  BY <1>1, <2>2, <3>1, <3>2 DEF Request
  <2> QED  BY <2>1, <2>2
<1>5. TypeOK' /\ GameInv'
  <2>1. Row' = Row
    BY <1>0 DEF Row, game
  <2> QED  BY <1>0, <1>4, <2>1 DEF TypeOK, GameInv, Exists, game
<1>6. PlaceInv'
  <2>1. /\ FirstStatement(op) = "read" => op \in Readers
        /\ FirstStatement(op) = "write" => op \in Writers
        /\ FirstStatement(op) = "count" => op = "ListGames"
        /\ FirstStatement(op) = "service" => op \in AccountOps
    BY DEF FirstStatement, Readers, Writers, Ops, GameOps
  <2>2. OpInv'
    BY <1>3, <1>4, <2>1 DEF OpInv
  <2> QED  BY <1>2, <1>3, <1>4, <2>2 DEF PlaceInv
<1>7. SeenInv'
  BY <1>0, <1>4 DEF SeenInv, game
<1>8. CheckedInv'
  <2>1. op \in {"TimeoutGame", "CompleteGame"} => FirstStatement(op) = "read"
    BY DEF FirstStatement, AccountOps
  <2> QED  BY <1>4, <2>1 DEF CheckedInv
<1>9. InsiderInv' /\ ListsInv'
  BY <1>2, <1>3, <1>4 DEF InsiderInv, ListsInv, AnswersSolutions, AnswersGame, Ended
<1>10. AnswersExplained'
  BY <1>2, <1>3, <1>4 DEF AnswersExplained, InternalErrorsExplained, StatusesKnown, Ended
<1> QED  BY <1>5, <1>6, <1>7, <1>8, <1>9, <1>10 DEF IInv

(* The first state satisfies the invariant.                                *)
LEMMA InitInv == Init => IInv
<1> SUFFICES ASSUME Init PROVE IInv
  OBVIOUS
<1>1. /\ status = "none" /\ creator = NoUser /\ solo = FALSE /\ parts = {}
      /\ winner = NoUser /\ isPublic = FALSE /\ req = Idle /\ faults = 0
  BY DEF Init, Lifecycle!Init
<1>2. TypeOK
  <2>1. Row \in RowType
    BY <1>1 DEF Row, RowType, Statuses
  <2>2. 0 \in 0..MaxFaults
    BY ApiAssumption
  <2> QED  BY <1>1, <2>1, <2>2, IdleFields DEF TypeOK
<1>3. GameInv /\ PlaceInv /\ SeenInv /\ CheckedInv
  BY <1>1, IdleFields DEF GameInv, Exists, PlaceInv, OpInv, SeenInv, CheckedInv
<1>4. InsiderInv /\ ListsInv /\ AnswersExplained
  BY <1>1, IdleFields DEF InsiderInv, ListsInv, AnswersSolutions, AnswersGame, Ended,
     AnswersExplained, InternalErrorsExplained, StatusesKnown
<1> QED  BY <1>2, <1>3, <1>4 DEF IInv

(* Every step, of the request and of everybody else, keeps the invariant   *)
(* and is a step of the game's life or leaves the game alone.              *)
LEMMA NextStep ==
    ASSUME IInv, [Next]_vars
    PROVE  IInv' /\ [Lifecycle!Next]_(Lifecycle!vars)
<1>1. ASSUME NEW op \in Ops, NEW u \in Users \cup {NoUser}, NEW b \in BOOLEAN,
             Arrive(op, u, b)
      PROVE  IInv' /\ UNCHANGED game
  BY <1>1, ArriveStep DEF Arrive, Step
<1>2. CASE \/ ReadGame \/ LockOther \/ CheckAccess \/ ReadAgain \/ ReadSolutions
           \/ CountGames \/ ListGamesForUser \/ GetParticipants
           \/ GetGameProblemIDs \/ CallService
  <2>1. IInv'
    BY <1>2, ReadStep, OtherStep, AccessStep, AgainStep, SolutionsStep, CountStep, ListStep,
       ParticipantsStep, ProblemsStep, ServiceStep
  <2>2. UNCHANGED game
    BY <1>2 DEF ReadGame, LockOther, CheckAccess, ReadAgain, ReadSolutions, CountGames,
       ListGamesForUser, GetParticipants, GetGameProblemIDs, CallService, Step
  <2> QED  BY <2>1, <2>2 DEF game, Lifecycle!vars
<1>3. CASE \/ StartGame \/ CompleteGame \/ CancelGame \/ LeaveGame \/ JoinGame
           \/ TimeoutGame \/ DeleteGame \/ CreateGame
  BY <1>3, StartStep, CompleteStep, CancelStep, LeaveStep, JoinStep, TimeoutStep,
     DeleteStep, CreateStep DEF CompleteGame
<1>4. CASE Fail \/ Answered
  <2>1. IInv' /\ UNCHANGED game
    BY <1>4, FailStep, AnsweredStep DEF Fail, Answered, Step
  <2> QED  BY <2>1 DEF game, Lifecycle!vars
<1>5. CASE Others
  BY <1>5, OthersStep
<1>6. CASE UNCHANGED vars
  <2>1. UNCHANGED <<game, req, faults>>
    BY <1>6 DEF vars, game
  <2>2. TypeOK'
    BY <2>1 DEF IInv, TypeOK, Row, game
  <2>3. GameInv' /\ PlaceInv' /\ SeenInv' /\ CheckedInv'
    BY <2>1 DEF IInv, GameInv, Exists, PlaceInv, OpInv, SeenInv, CheckedInv, game
  <2>4. InsiderInv' /\ ListsInv' /\ AnswersExplained'
    BY <2>1 DEF IInv, InsiderInv, ListsInv, AnswersSolutions, AnswersGame, Ended,
       AnswersExplained, InternalErrorsExplained, StatusesKnown, game
  <2> QED  BY <2>1, <2>2, <2>3, <2>4 DEF IInv, game, Lifecycle!vars
<1> QED  BY <1>1, <1>2, <1>3, <1>4, <1>5, <1>6 DEF Next, Handle, game, Lifecycle!vars

-----------------------------------------------------------------------------
(* The invariant holds throughout.                                         *)
THEOREM ApiInductive == Spec => []IInv
<1>1. IInv /\ [Next]_vars => IInv'
  BY NextStep
<1> QED  BY <1>1, InitInv, PTL DEF Spec

(* Types of the game and of the request, at every statement of a handler.  *)
THEOREM ApiTypeCorrect == Spec => []TypeOK
<1>1. IInv => TypeOK
  BY DEF IInv
<1> QED  BY <1>1, ApiInductive, PTL

(* The lists that enrichGame reads after the row fit the row, or the game  *)
(* was deleted in between.                                                 *)
THEOREM ApiAnswersCoherent == Spec => []AnswersCoherent
<1>1. IInv => AnswersCoherent
  BY DEF IInv, ListsInv, AnswersCoherent
<1> QED  BY <1>1, ApiInductive, PTL

(* Invite tokens of private games and solutions reach participants only,   *)
(* although the checks and the reads are statements of their own.          *)
THEOREM ApiShownToInsiders == Spec => []ShownToInsiders
<1>1. IInv => ShownToInsiders
  BY DEF IInv, InsiderInv, ShownToInsiders, TokenForInsiders, SolutionsAfterTheEnd,
     AnswersSolutions, AnswersGame, Ended
<1> QED  BY <1>1, ApiInductive, PTL

(* Every status answered is declared or a named omission, and an internal  *)
(* error has one of the named causes.                                      *)
THEOREM ApiAnswersExplained == Spec => []AnswersExplained
<1>1. IInv => AnswersExplained
  BY DEF IInv
<1> QED  BY <1>1, ApiInductive, PTL

(* The handlers' writes implement the life of a game.                      *)
THEOREM ApiWritesFollowLifecycle == Spec => WritesFollowLifecycle
<1>1. Init => Lifecycle!Init
  BY DEF Init
<1>2. IInv /\ [Next]_vars => [Lifecycle!Next]_(Lifecycle!vars)
  BY NextStep
<1> QED  BY <1>1, <1>2, ApiInductive, PTL DEF Spec, WritesFollowLifecycle, Lifecycle!Spec

=============================================================================
