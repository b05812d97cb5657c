------------------------------- MODULE HttpApi -------------------------------
(***************************************************************************)
(* One request to the games of the HTTP API, statement by statement, while *)
(* other requests and submissions change the game under it.                *)
(*                                                                         *)
(* A handler is a sequence of statements that commit on their own: it      *)
(* reads the game's row, checks what it read, may run one transaction and  *)
(* then reads the participants and the problems for the answer             *)
(* (enrichGame).  Nothing holds the row in between.  The transactions that *)
(* write are single steps here, because they lock the row; Game has their  *)
(* statements.  Everybody else is GameLifecycle: whatever other clients    *)
(* do, the row moves by its steps, and the writes of the request under     *)
(* observation are shown to be such steps as well.                         *)
(*                                                                         *)
(* The operations of accounts and of PostExecute are here for their        *)
(* answers; what happens in them is in Entrance and ExecutionSlots.        *)
(***************************************************************************)
EXTENDS HttpPipeline

CONSTANTS Users, MaxFaults    \* bound: statements that fail

ASSUME ApiAssumption == NoUser \notin Users /\ MaxFaults \in Nat

VARIABLES
    status, creator, solo, parts, winner,   \* the game, as in GameLifecycle
    isPublic,
    req,        \* the request: its operation, its user, where its handler is
                \* and what it has read
    faults

game == <<status, creator, solo, parts, winner, isPublic>>
vars == <<status, creator, solo, parts, winner, isPublic, req, faults>>

Lifecycle ==
    INSTANCE GameLifecycle
        WITH status <- status, creator <- creator, solo <- solo,
             parts <- parts, winner <- winner, Users <- Users, NoUser <- NoUser

Exists == status \notin {"none", "deleted"}

\* SELECT * FROM games: one row, one snapshot.
Row == [status |-> status, creator |-> creator, solo |-> solo,
        public |-> isPublic, winner |-> winner]
NoRow == [status |-> "none", creator |-> NoUser, solo |-> FALSE,
          public |-> FALSE, winner |-> NoUser]

Idle == [pc |-> "idle", op |-> "none", user |-> NoUser, row |-> NoRow,
         showToken |-> FALSE, players |-> {}, problems |-> FALSE, http |-> 0,
         inside |-> FALSE, gone |-> FALSE, failed |-> FALSE, overflow |-> FALSE]

Ops == GameOps \cup AccountOps

Statuses == {"none", "pending", "active", "finished", "cancelled", "deleted"}
RowType == [status : Statuses, creator : Users \cup {NoUser}, solo : BOOLEAN,
            public : BOOLEAN, winner : Users \cup {NoUser}]

\* The statements a handler may be at.
Places == {"idle", "read", "access", "again", "solutions", "write", "count",
           "list", "participants", "problems", "service", "answered"}
Request == [pc : Places, op : Ops \cup {"none"}, user : Users \cup {NoUser},
            row : RowType, showToken : BOOLEAN, players : SUBSET Users,
            problems : BOOLEAN, http : Nat, inside : BOOLEAN, gone : BOOLEAN,
            failed : BOOLEAN, overflow : BOOLEAN]

TypeOK ==
    /\ Row \in RowType
    /\ parts \subseteq Users
    /\ req \in Request
    /\ faults \in 0..MaxFaults

Init ==
    /\ Lifecycle!Init
    /\ isPublic = FALSE
    /\ req = Idle
    /\ faults = 0

------------------------------------------------------------------------------
(* Answers *)

Reply(r, http) == [r EXCEPT !.pc = "answered", !.http = http]
Refuse(r, code) == Reply(r, httpStatusCode(code))

\* A step of the request that leaves the game alone.
Step(r) == req' = r /\ UNCHANGED <<game, faults>>

\* What the request could have seen of the game so far: whether its user was
\* a participant and whether the game was deleted.
Watch(r) ==
    [r EXCEPT !.inside = @ \/ r.user \in parts',
              !.gone = @ \/ status' = "deleted"]

\* The statement an operation starts with.
FirstStatement(op) ==
    CASE op \in {"StartGame", "CancelGame", "LeaveGame", "CreateGame"} -> "write"
      [] op = "ListGames" -> "count"
      [] op \in AccountOps -> "service"
      [] OTHER -> "read"

\* The middleware, the wrapper and the strict handler up to the handler.
Arrive(op, u, wellFormed) ==
    LET gate == Gate(op, u, wellFormed)
        r == [Idle EXCEPT !.op = op, !.user = u, !.inside = u \in parts,
                          !.gone = status = "deleted"]
    IN
    /\ req.pc = "idle"
    /\ op = "CreateGame" => status = "none"
    /\ Step(IF gate # 0 THEN Reply(r, gate)
            ELSE [r EXCEPT !.pc = FirstStatement(op)])

------------------------------------------------------------------------------
(* Reads *)

\* TimeoutGame's checks on the row it read; the update comes later.
TimeoutChecks(row, u) ==
    << <<row.solo, "VALIDATION_ERROR">>,
       <<row.creator = u, "NOT_GAME_CREATOR">>,
       <<row.status = "active", "GAME_NOT_IN_PROGRESS">> >>

\* What the handlers check on the row before they go on, and where to.
ReadChecks(op, row, u) ==
    CASE op \in {"CompleteGame", "DeleteGame"} ->
             << <<row.creator = u, "NOT_GAME_CREATOR">> >>
      [] op = "TimeoutGame" -> TimeoutChecks(row, u)
      [] OTHER -> <<>>

AfterRead(op) ==
    CASE op \in {"GetGame", "GetGameSolutions"} -> "access"
      [] op = "GetGameByToken" -> "participants"
      [] OTHER -> "write"

\* The game's id in the database, where int32 counts from 1, and the ids a
\* path may name: the wrappers bind an int, which the services narrow to the
\* int32 of their statements.  The last of them comes round to the game.
GameID == 1
PathIDs == -1..(2^Width + GameID)

Names(id) == Int32(id) = GameID

\* GetGameByID, or GetGameByInviteToken: a token, too, is this game's or not.
ReadGame ==
    /\ req.pc = "read"
    /\ \E id \in PathIDs :
          LET failure == FirstFailure(ReadChecks(req.op, Row, req.user)) IN
          Step(IF ~Exists \/ ~Names(id) THEN Refuse(req, "GAME_NOT_FOUND")
               ELSE IF failure # "OK" THEN Refuse(req, failure)
               ELSE [req EXCEPT !.pc = AfterRead(req.op), !.row = Row,
                         !.showToken = req.op = "GetGameByToken" /\ isPublic])

\* GetGameForUpdate of the operations that start with it, for another id.
LockOther ==
    /\ req.pc = "write" /\ req.op \in {"StartGame", "CancelGame", "LeaveGame"}
    /\ \E id \in PathIDs : ~Names(id)
    /\ Step(Refuse(req, "GAME_NOT_FOUND"))

\* CanAccessGame: a public game, or IsGameParticipant by a second statement.
CanAccessGame == req.row.public \/ req.user \in parts

CheckAccess ==
    /\ req.pc = "access"
    /\ Step(IF ~CanAccessGame THEN Refuse(req, "NOT_PARTICIPANT")
            ELSE IF req.op = "GetGame"
            THEN [req EXCEPT !.pc = "participants", !.showToken = TRUE]
            ELSE [req EXCEPT !.pc = "again"])

\* Mutant: solutions are withheld from a game in progress only.
MayShowUnlessActive == status # "active"

\* GetGameSolutions reads the row once more for its status.
MayShowSolutions == status = "finished"

ReadAgain ==
    /\ req.pc = "again"
    /\ Step(IF ~Exists THEN Refuse(req, "GAME_NOT_FOUND")
            ELSE IF ~MayShowSolutions THEN Refuse(req, "GAME_NOT_FINISHED")
            ELSE [req EXCEPT !.pc = "solutions"])

ReadSolutions ==
    /\ req.pc = "solutions"
    /\ Step(Reply(req, 200))

\* ListGames: CountGamesForUser, ListGamesForUser, then the participants and
\* the problems of the games listed.
CountGames ==
    /\ req.pc = "count"
    /\ Step([req EXCEPT !.pc = "list"])

VisibleTo(u) == Exists /\ (isPublic \/ creator = u \/ u \in parts)

\* The limit is brought into 1..100, the offset only up to 0, and converted.
ListGamesForUser ==
    /\ req.pc = "list"
    /\ \E offset \in PageArguments :
          LET start == Int32(IF offset < 0 THEN 0 ELSE offset) IN
          Step(IF start < 0
               THEN [Refuse(req, "OFFSET must not be negative") EXCEPT
                         !.overflow = TRUE]
               ELSE IF VisibleTo(req.user) /\ start = 0
               THEN [req EXCEPT !.pc = "participants", !.row = Row]
               ELSE Reply(req, 200))

Success(op) == IF op = "CreateGame" THEN 201 ELSE 200

\* enrichGame: GetParticipants.  ListGames decides here about the token.
GetParticipants ==
    /\ req.pc = "participants"
    /\ Step([req EXCEPT !.pc = "problems", !.players = parts,
                 !.showToken = IF req.op = "ListGames"
                               THEN req.row.public \/ req.user \in parts
                               ELSE @])

\* Mutant: the row is read again after the participants, for its winner.
GetProblemIDsAndRow ==
    /\ req.pc = "problems"
    /\ Step([Reply(req, Success(req.op)) EXCEPT !.problems = Exists,
                 !.row = IF Exists THEN Row ELSE @])

\* enrichGame: GetGameProblemIDs, then toAPIGame.
GetGameProblemIDs ==
    /\ req.pc = "problems"
    /\ Step([Reply(req, Success(req.op)) EXCEPT !.problems = Exists])

------------------------------------------------------------------------------
(* Writes *)

\* The checks of each transaction, in the order of the code.
StartChecks ==
    << <<Exists, "GAME_NOT_FOUND">>,
       <<status = "pending", "GAME_ALREADY_STARTED">>,
       <<creator = req.user, "NOT_GAME_CREATOR">>,
       <<solo \/ Cardinality(parts) >= 2, "NOT_ENOUGH_PLAYERS">> >>

\* Mutant: the game that vanished since the creator was checked is reported
\* as the bare database error.
CompleteChecksUnmapped(w) ==
    << <<Exists, "no rows in result set">>,
       <<status = "active", "GAME_NOT_IN_PROGRESS">>,
       <<w \in parts, "INVALID_WINNER">> >>

CompleteChecks(w) ==
    << <<Exists, "GAME_NOT_FOUND">>,
       <<status = "active", "GAME_NOT_IN_PROGRESS">>,
       <<w \in parts, "INVALID_WINNER">> >>

CancelChecks ==
    << <<Exists, "GAME_NOT_FOUND">>,
       <<creator = req.user, "NOT_GAME_CREATOR">>,
       <<status # "finished", "CANNOT_CANCEL_FINISHED_GAME">>,
       <<status # "cancelled", "GAME_ALREADY_CANCELLED">> >>

\* Mutant: the creator may leave.
LeaveChecksAnybody ==
    << <<Exists, "GAME_NOT_FOUND">>,
       <<status # "cancelled", "GAME_ALREADY_CANCELLED">>,
       <<status = "pending", "GAME_ALREADY_STARTED">>,
       <<req.user \in parts, "NOT_PARTICIPANT">> >>

LeaveChecks ==
    << <<Exists, "GAME_NOT_FOUND">>,
       <<status # "cancelled", "GAME_ALREADY_CANCELLED">>,
       <<status = "pending", "GAME_ALREADY_STARTED">>,
       <<creator # req.user, "CREATOR_CANNOT_LEAVE">>,
       <<req.user \in parts, "NOT_PARTICIPANT">> >>

JoinChecks ==
    << <<Exists, "GAME_NOT_FOUND">>,
       <<status = "pending", "GAME_ALREADY_STARTED">>,
       <<req.user \notin parts, "ALREADY_PARTICIPANT">> >>

\* A transaction of operation op that one of its checks ends.
RollBack(op, checks) ==
    LET failure == FirstFailure(checks) IN
    /\ req.pc = "write" /\ req.op = op
    /\ failure # "OK"
    /\ Step(Refuse(req, failure))

\* A transaction of operation op whose checks all hold,
Commits(op, checks) ==
    /\ req.pc = "write" /\ req.op = op
    /\ FirstFailure(checks) = "OK"

\* and what the handler has after it: the row the transaction returns, and
\* whether the answer will show the invite token.
Returns(row, showToken) ==
    /\ req' = Watch([req EXCEPT !.pc = "participants", !.row = row,
                                !.showToken = showToken])
    /\ UNCHANGED faults

StartGame ==
    \/ RollBack("StartGame", StartChecks)
    \/ /\ Commits("StartGame", StartChecks)
       /\ status' = "active"
       /\ UNCHANGED <<creator, solo, parts, winner, isPublic>>
       /\ Returns([Row EXCEPT !.status = "active"], TRUE)

CompleteGame ==
    \E w \in Users :
       \/ RollBack("CompleteGame", CompleteChecks(w))
       \/ /\ Commits("CompleteGame", CompleteChecks(w))
          /\ status' = "finished"
          /\ winner' = w
          /\ UNCHANGED <<creator, solo, parts, isPublic>>
          /\ Returns([Row EXCEPT !.status = "finished", !.winner = w], TRUE)

CancelGame ==
    \/ RollBack("CancelGame", CancelChecks)
    \/ /\ Commits("CancelGame", CancelChecks)
       /\ status' = "cancelled"
       /\ UNCHANGED <<creator, solo, parts, winner, isPublic>>
       /\ Returns([Row EXCEPT !.status = "cancelled"], TRUE)

LeaveGame ==
    \/ RollBack("LeaveGame", LeaveChecks)
    \/ /\ Commits("LeaveGame", LeaveChecks)
       /\ parts' = parts \ {req.user}
       /\ UNCHANGED <<status, creator, solo, winner, isPublic>>
       /\ Returns(Row, isPublic)

JoinGame ==
    \/ RollBack("JoinGameByToken", JoinChecks)
    \/ /\ Commits("JoinGameByToken", JoinChecks)
       /\ parts' = parts \cup {req.user}
       /\ UNCHANGED <<status, creator, solo, winner, isPublic>>
       /\ Returns(Row, TRUE)

\* The UPDATE of TimeoutGame looks at the id alone and returns no row, a
\* plain error, if the game is gone by then.
TimeoutGame ==
    /\ req.pc = "write" /\ req.op = "TimeoutGame"
    /\ \/ /\ ~Exists
          /\ Step(Refuse(req, "no rows in result set"))
       \/ /\ Exists
          /\ status' = "finished"
          /\ UNCHANGED <<creator, solo, parts, winner, isPublic>>
          /\ Returns([Row EXCEPT !.status = "finished"], FALSE)

DeleteGame ==
    /\ req.pc = "write" /\ req.op = "DeleteGame"
    /\ \/ /\ ~Exists
          /\ Step(Refuse(req, "GAME_NOT_FOUND"))
       \/ /\ Exists
          /\ status' = "deleted"
          /\ parts' = {}
          /\ winner' = NoUser
          /\ req' = Watch(Reply(req, 200))
          /\ UNCHANGED <<creator, solo, isPublic, faults>>

\* CreateGame: a solo game is never public; a problem may be one the creator
\* cannot see, or there may be none.
CreateGame ==
    /\ req.pc = "write" /\ req.op = "CreateGame"
    /\ \/ \E code \in {"VALIDATION_ERROR", "PROBLEM_NOT_FOUND"} :
             Step(Refuse(req, code))
       \/ /\ status = "none"
          /\ \E s, p \in BOOLEAN :
                /\ status' = "pending"
                /\ creator' = req.user
                /\ solo' = s
                /\ isPublic' = (p /\ ~s)
                /\ parts' = {req.user}
                /\ Returns([status |-> "pending", creator |-> req.user,
                            solo |-> s, public |-> p /\ ~s,
                            winner |-> NoUser], TRUE)
          /\ UNCHANGED winner

------------------------------------------------------------------------------
(* The rest *)

\* What the services behind the other operations may refuse with.
\* PostExecute checks no language: the executor's error is a plain one.
ServiceCodes(op) ==
    CASE op = "PostAuthEnter" -> {"INVALID_EMAIL", "CODE_RECENTLY_SENT"}
      [] op = "PostAuthConfirm" -> {"INVALID_CODE", "TOO_MANY_ATTEMPTS"}
      [] op = "PatchAuthMe" -> {"VALIDATION_ERROR"}
      [] op = "PostExecute" -> {"EXECUTION_IN_PROGRESS", "EXECUTION_RATE_LIMITED",
                                "EXECUTOR_OVERLOADED", "unsupported language"}
      [] OTHER -> {}

CallService ==
    /\ req.pc = "service"
    /\ \/ Step(Reply(req, 200))
       \/ \E code \in ServiceCodes(req.op) : Step(Refuse(req, code))

\* A statement fails.
Fail ==
    /\ req.pc \notin {"idle", "answered"}
    /\ faults < MaxFaults
    /\ faults' = faults + 1
    /\ req' = [Reply(req, 500) EXCEPT !.failed = TRUE]
    /\ UNCHANGED game

\* The answer is on its way; the next request comes.
Answered ==
    /\ req.pc = "answered"
    /\ Step(Idle)

\* Other requests, submissions and timers.
Others ==
    /\ Lifecycle!Next
    /\ IF status = "none" THEN isPublic' \in {FALSE, ~solo'}
       ELSE UNCHANGED isPublic
    /\ req' = IF req.pc = "idle" THEN req ELSE Watch(req)
    /\ UNCHANGED faults

Handle ==
    \/ ReadGame \/ LockOther \/ CheckAccess \/ ReadAgain \/ ReadSolutions
    \/ CountGames \/ ListGamesForUser \/ GetParticipants \/ GetGameProblemIDs
    \/ StartGame \/ CompleteGame \/ CancelGame \/ LeaveGame \/ JoinGame
    \/ TimeoutGame \/ DeleteGame \/ CreateGame \/ CallService

Next ==
    \/ \E op \in Ops, u \in Users \cup {NoUser}, b \in BOOLEAN : Arrive(op, u, b)
    \/ Handle \/ Fail \/ Answered \/ Others

Spec == Init /\ [][Next]_vars

------------------------------------------------------------------------------
(* Properties *)

Ended == req.pc = "answered"

\* An answer that carries a game: enrichGame ran to its end.
AnswersGame == Ended /\ req.http \in {200, 201} /\ req.row # NoRow
                     /\ req.op # "GetGameSolutions" /\ req.op # "DeleteGame"

\* The participants and the problems of an answer are read after its row,
\* by statements of their own.  Still the answer is coherent: its creator
\* and its winner are among its participants, unless the game was deleted
\* in between and the lists are those of a game that is gone.
AnswersCoherent ==
    AnswersGame =>
        \/ req.gone
        \/ /\ req.row.creator \in req.players
           /\ req.row.winner \in req.players \cup {NoUser}
           /\ req.problems

\* The invite token of a private game is answered only to somebody who was
\* a participant at some moment of the request, or who brought the token.
TokenForInsiders ==
    AnswersGame /\ req.showToken /\ ~req.row.public =>
        req.inside \/ req.op = "JoinGameByToken"

\* Solutions are answered only when the game can no longer be played, and
\* for a private game to a participant, whatever happens between the three
\* reads of the handler.
SolutionsAfterTheEnd ==
    Ended /\ req.op = "GetGameSolutions" /\ req.http = 200 =>
        /\ status \in {"finished", "deleted"}
        /\ req.row.public \/ req.inside

\* What is meant for participants, an invite token and the solutions, is
\* not answered to anyone else.
ShownToInsiders == TokenForInsiders /\ SolutionsAfterTheEnd

\* No interleaving of correct requests ends in an internal error, but for
\* the timeout of a game that is deleted between its read and its update,
\* a language PostExecute does not know and an offset beyond an int32.
InternalErrorsExplained ==
    Ended /\ req.http = 500 =>
        \/ req.failed
        \/ req.op = "TimeoutGame" /\ req.gone
        \/ req.op = "PostExecute"
        \/ req.op = "ListGames" /\ req.overflow

\* Every status the handlers answer is one the API's description declares
\* for the operation, or one of the named omissions.
StatusesKnown ==
    Ended /\ req.http # 500 => req.http \in Known(req.op)

\* Every answer is accounted for, by the API's description or by a cause.
AnswersExplained == InternalErrorsExplained /\ StatusesKnown

\* The writes of the handlers, checked on rows that may be out of date, are
\* steps of the game's life all the same.
WritesFollowLifecycle == Lifecycle!Spec

=============================================================================
