---------------------------- MODULE HttpPipeline ----------------------------
(***************************************************************************)
(* The part of the HTTP API that every request goes through: which         *)
(* operations there are, what is bound and decoded before a handler runs,  *)
(* who is let through to it, and how an error code becomes a status.       *)
(* There is no state here; HttpApi and ProblemApi instantiate it.          *)
(*                                                                         *)
(* The order of the checks is the code's: parameters are bound by the      *)
(* generated wrappers and the body is decoded by the strict handler before *)
(* the authentication of the strict handler's middleware is asked for.     *)
(***************************************************************************)
EXTENDS Integers, FiniteSets, FiniteSetsExt, Sequences

CONSTANTS
    NoUser,     \* optionalAuthMiddleware found no valid session
    Width       \* bits of an int32: small, so that page parameters overflow

ASSUME WidthAssumption == Width \in Nat /\ Width > 1

\* The routes, by operationId.
GameOps ==
    {"ListGames", "CreateGame", "GetGameByToken", "JoinGameByToken",
     "DeleteGame", "GetGame", "CancelGame", "CompleteGame", "LeaveGame",
     "GetGameSolutions", "StartGame", "TimeoutGame"}
AccountOps ==
    {"PostAuthConfirm", "PostAuthEnter", "PostAuthLogout", "GetAuthMe",
     "PatchAuthMe", "GetAuthMeStats", "PostExecute"}
ProblemOps == {"ListProblems", "ListMyProblems", "GetProblem", "PatchProblem"}

\* publicOpsFromSpec: the operations whose security list is empty.
PublicOps ==
    {"PostAuthEnter", "PostAuthConfirm", "ListProblems", "GetProblem",
     "GetGameByToken"}

\* Operations with parameters the wrappers bind: a game's id,
BindGameID ==
    {"DeleteGame", "GetGame", "CancelGame", "CompleteGame", "LeaveGame",
     "GetGameSolutions", "StartGame", "TimeoutGame"}
\* an invite token, a page or a search, a problem's slug,
BindToken == {"GetGameByToken", "JoinGameByToken"}
BindPage == {"ListGames"}
BindSearch == {"ListProblems", "ListMyProblems", "GetProblem", "PatchProblem"}
\* and those whose body the strict handler decodes.
DecodeAccountBody ==
    {"PostAuthConfirm", "PostAuthEnter", "PatchAuthMe", "PostExecute"}
DecodeGameBody == {"CreateGame", "CompleteGame"}
DecodeProblemBody == {"PatchProblem"}

Malformable ==
    UNION {BindGameID, BindToken, BindPage, BindSearch, DecodeAccountBody,
           DecodeGameBody, DecodeProblemBody}

\* The status a request gets before any handler runs, or 0.
Gate(op, user, wellFormed) ==
    IF op \in Malformable /\ ~wellFormed THEN 400
    ELSE IF op \notin PublicOps /\ user = NoUser THEN 401
    ELSE 0

\* The code of the first check that fails: checks is a sequence of pairs of
\* a condition and the code returned when it does not hold.
FirstFailure(checks) ==
    LET failed == {i \in DOMAIN checks : ~checks[i][1]}
    IN  IF failed = {} THEN "OK" ELSE checks[Min(failed)][2]

\* The page parameters a client may send, with those an int32 cannot hold.
PageArguments == -1..2^Width

\* The conversion int32(n) of an int: % is never negative.
Int32(n) ==
    LET low == n % 2^Width
    IN  IF low >= 2^(Width - 1) THEN low - 2^Width ELSE low

\* The switch of apierr.httpStatusCode; a code it does not know is a 500.
httpStatusCode(code) ==
    CASE code \in {"VALIDATION_ERROR", "NOT_ENOUGH_PLAYERS", "INVALID_WINNER",
                   "ARCHIVE_INVALID", "INVALID_EMAIL", "INVALID_CODE"} -> 400
      [] code \in {"INVALID_TOKEN", "SESSION_EXPIRED"} -> 401
      [] code \in {"NOT_GAME_CREATOR", "CREATOR_CANNOT_LEAVE", "NOT_PARTICIPANT",
                   "PRIVATE_GAME", "NOT_PROBLEM_OWNER", "GAME_NOT_FINISHED"} -> 403
      [] code \in {"GAME_NOT_FOUND", "SESSION_NOT_FOUND", "PROBLEM_NOT_FOUND",
                   "USER_NOT_FOUND"} -> 404
      [] code \in {"ALREADY_PARTICIPANT", "GAME_ALREADY_STARTED",
                   "GAME_NOT_IN_PROGRESS", "CANNOT_CANCEL_FINISHED_GAME",
                   "GAME_ALREADY_CANCELLED"} -> 409
      [] code \in {"PROBLEM_LIMIT_REACHED", "VERSION_LIMIT_REACHED"} -> 422
      [] code \in {"TOO_MANY_ATTEMPTS", "CODE_RECENTLY_SENT",
                   "EXECUTION_RATE_LIMITED", "EXECUTION_IN_PROGRESS"} -> 429
      [] code \in {"EXECUTOR_OVERLOADED", "EXECUTOR_NOT_READY"} -> 503
      [] OTHER -> 500

------------------------------------------------------------------------------
(* The responses the API's description declares for each operation, as the *)
(* generated response types list them                                      *)

DeclaredAccount(op) ==
    CASE op = "PostAuthConfirm" -> {200, 400, 404, 429}
      [] op = "PostAuthEnter" -> {200, 400}
      [] op \in {"PostAuthLogout", "GetAuthMe", "GetAuthMeStats"} -> {200, 401}
      [] op \in {"PatchAuthMe", "PostExecute"} -> {200, 400, 401}
      [] OTHER -> {}

DeclaredRooms(op) ==
    CASE op = "ListGames" -> {200, 400, 401}
      [] op = "CreateGame" -> {201, 400, 401}
      [] op = "GetGameByToken" -> {200, 404}
      [] op = "JoinGameByToken" -> {200, 401, 404, 409}
      [] op = "DeleteGame" -> {200, 401, 404}
      [] OTHER -> {}

DeclaredGames(op) ==
    CASE op \in {"GetGame", "GetGameSolutions"} -> {200, 401, 403, 404}
      [] op \in {"CancelGame", "CompleteGame", "StartGame"} -> {200, 400, 401, 404}
      [] OTHER -> {}

DeclaredEnds(op) ==
    CASE op = "LeaveGame" -> {200, 401, 403, 404, 409}
      [] op = "TimeoutGame" -> {200, 400, 401, 403, 404}
      [] OTHER -> {}

DeclaredProblems(op) ==
    CASE op = "ListProblems" -> {200}
      [] op = "ListMyProblems" -> {200, 401}
      [] op = "GetProblem" -> {200, 404}
      [] op = "PatchProblem" -> {200, 400, 401, 403, 404}
      [] OTHER -> {}

\* Statuses the code answers although the description does not list them.
Undeclared(op) ==
    CASE op = "PostAuthEnter" -> {429}
      [] op = "PostExecute" -> {429, 503}
      [] op = "CreateGame" -> {404}
      [] op \in {"GetGameByToken", "JoinGameByToken", "GetGame",
                 "GetGameSolutions", "LeaveGame", "ListProblems",
                 "ListMyProblems", "GetProblem"} -> {400}
      [] op = "DeleteGame" -> {400, 403}
      [] op \in {"CancelGame", "CompleteGame", "StartGame"} -> {403, 409}
      [] op = "TimeoutGame" -> {409}
      [] OTHER -> {}

Known(op) ==
    UNION {DeclaredAccount(op), DeclaredRooms(op), DeclaredGames(op),
           DeclaredEnds(op), DeclaredProblems(op), Undeclared(op)}

=============================================================================
