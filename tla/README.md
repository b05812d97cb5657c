# A TLA+ model of Byte-Battle

Byte-Battle is a server for programming duels: users enter with a code sent by
mail, create games out of problems, submit programs over a WebSocket, and the
first one whose programs pass the tests of every problem wins. The server is one
Go process (`src/cmd`, `src/internal`) with a PostgreSQL database, a directory of
problem files, and Docker containers that run the submitted programs.

This directory holds the specifications of its parts, their TLC configurations
and the proofs. `PROJECT.json` maps every definition to the lines it models.

## 1. Inventory

| Part | State | Operations | Meets |
|---|---|---|---|
| Game (`game_service.go`, `queries/games.sql`) | rows of `games`, `game_participants`, `game_problems` | create, join, leave, start, complete, cancel, delete, time out | each locks the game's row, except `TimeoutGame` |
| Submission (`submission_service.go`, `handler.go` `processSubmit`) | one goroutine per submit message, rows of `solutions` | slot, status, problem, judge, save, advance, count, complete, broadcast | game rows, slots, executor, hub |
| Slots and limiter (`execution_service.go`) | a `sync.Map` of channels and one of limiters | acquire, release, check rate, hourly sweep | every submission and `POST /execute` |
| Executor pool (`docker_executor.go`) | per language a queue and workers, containers, readiness | run, work, clean, replace, shut down, boot | Docker, submitted programs |
| Hub (`ws/hub.go`, `ws/client.go`) | rooms, clients, send buffers | join, leave, broadcast, send to a user, write pump | handlers of all connections of a game |
| Entrance (`auth_service.go`, `session_service.go`) | rows of `verification_codes`, `users`, `sessions` | send code, verify, refresh, log out | the mailer, every request's middleware |
| Problem catalogue (`uploader.go`, `problem_service.go`, `seeder.go`) | rows of `problems`, `problem_versions`, directories | upload a batch, a version, seed at startup | file system, games (which pin a version) |
| Store and output comparison (`store.go`) | a cache of loaded problems under a lock | load by path, `NormalizeOutput`, `Match` | readers, judging, uploads |
| Archive validation (`validator.go`) | a temporary directory | unpack, check, run the reference | upload, executor |
| HTTP API (`api.gen.go`, `http_server.go`, `handler.go`, `auth_middleware.go`) | none beyond a request's own variables | bind, decode, authenticate, call services, put the answer together | all services |
| Frontend (`src/frontend`) | the game page's view of a game, its socket, pending requests, timer | fetch, connect, receive, submit | API and hub |
| Configuration, mailer, migrations | none | | |

What is hard, part by part:

* **Game and submission.** A submission takes seconds between reading the index
  and advancing it, and the advance is a blind increment. Only the user's slot
  keeps two submissions of a user apart; nothing keeps those of two users apart
  until the transaction that completes the game. The game may meanwhile be
  completed by hand, cancelled, timed out or deleted. The context may die, or
  the server, at any step. Correct means: indices count passed problems; at most
  one winner, announced once, who earned it; the slot always comes back.
* **Slots.** Two operations on a `sync.Map` and a channel are not one; the sweep
  comes in between. Correct means mutual exclusion, no lost slot, no blocked
  release.
* **Executor pool.** Bounded queues, workers that retry for ever, containers
  that outlive their program, their worker or the process. Correct means: one
  answer per item, no forgotten container, clean files, readiness that means it,
  a shutdown that ends.
* **Hub.** Three levels of locks, and a room used after the lock under which it
  was found. Correct means: no send on a closed channel, one order for all, no
  leaked room or goroutine.
* **Entrance.** Every statement commits by itself. Correct means: attempts are
  bounded under concurrency, failures lock nobody out, a logout is final.
* **Catalogue.** Rows and files change one after the other, and limits are
  counted before the transactions. Correct means: rows and files agree, version
  numbers do not clash, a crash neither publishes an upload nor blocks the start.
* **Archives.** Names, sizes and kinds of entries come from outside. Correct means:
  nothing lands outside the temporary directory or beyond the byte limit, and
  what is accepted is complete and can be loaded by the store later.
* **API.** A handler is several statements, each with a snapshot of its own.
  Correct means: the answer is coherent, shows private things to insiders only,
  and has a status that follows from what happened.
* **Game page.** Messages, answers and reconnections arrive in any order. Correct
  means: the page shows the problem the next submission is judged by, and hears
  of every result and of the end.

`PROJECT.json` lists these as hazards, each at its line with its properties.

## 2. Modules

| Module | Models | Notes |
|---|---|---|
| `Game` | one game: its rows, all operations on them, submissions, timeout requests, disconnects, deadlines, lost answers, crashes | every transaction that starts with `FOR UPDATE` is one action; `TimeoutGame` and the submission are split at each database call |
| `GameLifecycle` | what a row of `games` promises a reader | abstract; `Game` implements it (`LifecycleSpec`) |
| `ExecutionSlots` | the slot of one key, its channel, limiter and sweep | one action per map or channel operation; `Game` uses the slot as a mutex |
| `Hub` | the rooms of one game | one action per locked section |
| `ExecutorPool` | `DockerExecutor` | one action per channel operation, atomic or daemon call, each of which may fail or lose its answer; containers and programs are external |
| `Entrance` | codes, account and sessions of one address | one action per statement |
| `ProblemCatalog` | uploads, versions, files, seeding | one action per transaction, file operation or check |
| `Publication` | what the rows of a problem promise a reader: published once, owner kept, versions one by one, the newest current | abstract; `ProblemCatalog` implements it (`PublicationSpec`), and so does the one problem of `ProblemApi` |
| `ArchiveValidation` | `ValidateArchive`, `Match`, and what the store needs to load a directory | one action per entry, problem directory and test case; paths are sequences of components, texts sequences of characters |
| `HttpPipeline` | routes, binding, decoding, authentication, statuses | no state; extended by the next two |
| `HttpApi` | one request to the game operations against everything else that may happen to the game | one action per statement; instantiates `GameLifecycle` both as the environment and as the specification its writes implement |
| `ProblemApi` | requests that read, list, patch and pin one problem, and the store's cache | one action per statement and per locked section; uploads are the transactions of `ProblemCatalog` in one step |
| `GamePage` | `GamePage.tsx` of one player with the server's side of its socket, `handleGameWS` and `processSubmit` step by step | problems are their indices; answers of `getProblem` come in any order |
| `MC*` | instances for TLC | values of functions, symmetry |
| `GameProofs`, `ExecutionSlotsProofs`, `HubProofs`, `ExecutorPoolProofs`, `EntranceProofs`, `ProblemCatalogProofs`, `HttpApiProofs`, `ProblemApiProofs` | theorems about the module each is named after; `HubProofs` also holds those about `GamePage`, the other end of the socket, and `ProblemCatalogProofs` those about `ArchiveValidation`, the first stage of an upload | TLAPS, see 5 |

The modules compose where the parts touch: `Game` contains game rows and
submissions together, because their interleaving is the point, and takes from
the slots and the pool only what they promise (at most one submission of a user
between admission and return; judging ends with accepted or not, or with the
context). `ExecutionSlots` shows how far the first promise is kept, see 4.

State and code. In `Game`, `status`, `creator`, `solo`, `winner` are columns of
`games`, `parts` and `idx` the participants and their `current_problem_index`,
`problems` the list in `game_problems`, `sub[s]` the local variables and the place
of a `processSubmit` goroutine, `slot` the slots, `conn` the open sockets,
`finishedMsgs` and `shown` what was broadcast. `solved` and `late` are history: what
was judged accepted, and advances after the end. `Submit`, `ReadStatus`,
`ReadProblem`, `Judge`, `SaveSolution`, `Advance`, `Count`, `Complete`, `Reread`,
`Answer`, `AnnounceWinner`, `ReadProgress`, `ShowProgress` follow the code from
`SubmissionService.Submit` to the broadcasts. `AdvanceUnanswered` and
`CompleteUnanswered` are a statement that took effect although its answer was
lost; `Expire`, `Disconnect` and `Crash` end contexts and goroutines.

In `Entrance`, `code` is the row of `verification_codes` with its age reduced to
what the code compares (within the cooldown, valid, expired), `compared` is
history, `session` holds the sessions by age. In `ProblemCatalog`, `row` is a
problem with its versions, `disk` the version directories with who put them
there, `lock` the `FOR UPDATE` lock, `leftover` the kinds of archives whose
temporary directory outlived the request. In
`HttpApi`, `req` holds what a handler has read so far (`row`, `players`) and, as
history, whether its user was ever inside the game and whether the game vanished
during the request. In `ProblemApi`, `phase` is how far the upload of a version got,
`cache` the store's map, `pin` the version in `game_problems`. In `GamePage`, `door` is
how far `handleGameWS` got with the page's connection (game checked, upgraded,
joined, state read, reading), `member` whether it sits in the room that the hub knows,
`wire` what is on its way to the browser, `ghosts` the player's connections that the
server has not noticed to be dead, `pending` the broadcasts that goroutines are about
to make; `cut` (the answer to a submission was lost), `missed` (the page was not led to the
current problem) and `deaf` (the end was announced without it) are history. In
`ExecutorPool`, `leaked` are containers that exist and that the process does not know of,
because a removal or the answer to a creation failed; `used` is history, whether files
were copied into a container since a deletion ran there. The other modules name
their variables after the fields they model.

The operations of a game appear twice, for different questions: `Game` has their
transactions against submissions, `HttpApi` has the statements around them and
what the client is told. `GameLifecycle` is the link: `Game` implements it, so it is
a sound environment for a request in `HttpApi`, and the writes of `HttpApi` are
checked to be steps of it again. `Publication` plays the same part for problems:
the uploads that go on beside the requests of `ProblemApi` are proved to be steps of
what `ProblemCatalog` implements.

Abstractions: problems, users, messages and programs are model values; texts
(outside `ArchiveValidation`), test data and limits in milliseconds do not appear; a judging is a choice of its
result; user names that clash are retried without a trace.

Definitions called "Mutant" are not part of the model. Each is an operation with
a plausible bug, put in place of the real one to see that a property notices.

## 3. Runs that pass

| Run | Instance | Shows |
|---|---|---|
| `game_race` | 2 users, 2 submissions, games of up to 2 problems, 1 fault (1.4 million states) | indices, announcements and records are earned, one late advance at most, `Game` implements `GameLifecycle` |
| `game_end` | 1 problem, plus a timeout request whose check is stale | the winner is never replaced; slots come back; a solved game ends unless a fault hits it |
| `slots` | 4 requests, 2 sweeps | no token without an owner, each sweep lets at most one more request in, every release ends as long as no sweep ran |
| `hub_room` | 2 connections, 3 messages, buffers of 2 | channels are sound (no send on a closed one, one order for all), rooms reclaimed, connections end |
| `pool` | 2 workers of a language, queue of 1, 2 calls, 1 fault, shutdown (890,000 states) | one answer per item; no container shared, and none lost but by a failed call about it; a request enters a container only after a deletion ran there, and finds remains of answered requests at most; nobody waits for ever, the pool becomes ready or stops |
| `entrance` | 2 requests of each kind, 3 codes, 1 fault | guesses per code bounded, failing mail locks nobody out, the cooldown overrun once per concurrent request at most, the right code is never refused without a failure, logout final |
| `catalog` | 2 uploads, archives of up to 2 problems, 1 fault or crash | no clash of versions; rows and files agree: versions have files, uploads stay owned, the next start succeeds; limits exceeded by no more than what is under way; only an archive whose single problem sits in a directory leaves its temporary directory behind; `ProblemCatalog` implements `Publication` |
| `archive` | every sequence of entries from 4 menus, limit of 2 bytes, 1 test case per problem, texts of up to 3 characters, 1 fault | unpacking is contained, what is accepted is whole and loads, `Match` is equality line by line |
| `api` | 3 users and a visitor, one request at a time of all 19 operations, by ids within and beyond an `int32`, 1 failing statement | coherent answers, nothing for outsiders, every status explained, writes follow `GameLifecycle` |
| `problem_api` | 2 requests, 2 users and a visitor, 2 versions, 1 fault or restart | what is served was visible and current, a game keeps its version, internal errors have a cause |
| `page` | 2 problems, an opponent, 1 broken connection, 1 failed statement or request or full buffer (930,000 states) | the page never runs ahead of the row and returns to it; the button and the end come back unless the one message about them was lost |

`UploadsStayOwned` deserves a word: at startup the server turns each directory
without rows into a public built-in problem. Were files moved before the rows are
committed, a crash in between would publish a private upload. The order in
`UploadProblem` (rows, then files) prevents it, at the price of versions without
files after a crash, which the code logs as needing manual recovery.

**Bounds.** `MaxFaults`, `MaxChans`, `MaxSweeps`, `MaxRooms`, `MaxContainers`, `MaxCodes`,
`MaxSessions`, `MaxBatch`, `MaxDrops` and `MaxVersion` are bounds of the models and stand in the guards. Two
submissions suffice for the races in `Game`: its steps read and write the state of
one submission and the shared row, so a third one can only repeat what the
second does; the proofs lift the bound. One fault is enough to cut any sequence
at any place; one fault of the pool is an outage that fails a creation and the removal
after it. Two problems distinguish "the next" from "the last". Three messages
overflow a buffer of two. Two sweeps show that the damage of a sweep adds up, but
not more than by one. Two versions and batches of two exceed both limits of the
catalogue, and three generated names are one more than its bound allows. One
attempt per code is the smallest limit and makes the boundary the common case.
A byte limit of two and files of one and three bytes meet it exactly, from below
and from above. Integers of two bits (`Width`) make the page parameters that
overflow an `int32` as common as the others, and the ids of a path include one that
comes round to the game's. Three users are a creator, another
player and an outsider. Entries of an archive may repeat, so an archive of any
length is a path through the same states.

**Deadlock** is not checked where the modelled requests are finite (games end,
codes and channels run out); it is in `catalog`, `api` and `problem_api`.

**Fairness.** `Game`, `ExecutionSlots` and `Hub` assume weak fairness of each step of a
goroutine that has begun: the Go scheduler runs it, and its calls are bounded by
its context (two minutes for a submission). Nobody has to submit, join, connect
or time out. In `Hub` a connection may stay open for ever; once reader or writer
ended, the other notices, because pings and reads on a closed connection fail.
`ExecutorPool` adds that the output of a program ends (`timeout 10s` in the container,
and the safety net of `execInContainer`) and that the process, once started, boots;
callers' contexts need not expire, and a child that a program leaves need not end.
`GamePage` assumes that a browser delivers what arrives on an open connection, that the
request for the game is answered or fails, that a submission ends, and that a handler
that has upgraded a connection and a goroutine with a broadcast to make go on. It
assumes nothing of the answers with problems, of connecting, or of the server's
noticing a break.
`Entrance`, `ProblemCatalog`, `ArchiveValidation`, `HttpApi` and `ProblemApi` state safety
only and assume no fairness.

## 4. Where the code and its words part

One run fails on purpose. `pool_reuse`: `docker_executor.go:348` says the cleaning
"removes user-written files from /app and /tmp so the container can be safely reused".
The next request may find some all the same: `rm -rf /app/* /tmp/*` passes over names
with a leading dot, its exit code is not read, and what a program leaves running in
the background (also when its context ended, which does not stop it) may write after the
deletion. `CleanStart` says what is true instead: a deletion ran in between, and what
is found belongs to requests that were answered before.

The other runs carry their exceptions in the properties. Those that contradict a
comment or a test:

* `game_service.go:373` says "If the player has now solved all problems they win the
  game." The advance commits before the transaction that completes the game. A
  dead context, or a crash, in between leaves the game active with its solver past
  the last problem, where every submission is refused: the exception of
  `SolvedAllEndsGameUnlessFault`.
* `execution_service_test.go:90` says "at most one goroutine holds the slot for a
  given user at any point in time". The sweep may delete a channel that a request
  has loaded but not yet sent to; the next request makes its own and both are
  inside. `OverlapBounded` allows one more per sweep, and an hour lies between sweeps.
* `hub.go:9` says "one room per game". `Join` finds the room and unlocks the hub
  before it locks the room; a `Leave` in between deletes the room from the map, and
  the client sits where no broadcast finds it. `RoomsReclaimed` holds all the same.

Those nobody wrote about:

* A container can be lost while the process runs. `createWarmContainer` and
  `cleanupContainer` drop the error of a removal, and a creation whose answer is lost
  leaves a container whose id nobody has; the next start removes what carries the
  label. `ContainersAccounted` allows these and nothing else, `PoolContainersBounded`
  bounds them by the faults.
* An item queued by a `Run` that checked for the shutdown before it came finds no
  worker (`ItemsAnsweredUnlessShut`). A timeout whose check is stale answers with a
  game that has a winner (`GameLifecycle` has the step), or with an internal error
  if the game was deleted meanwhile (`AnswersExplained`).
* The catalogue's limits can be exceeded (`LimitOvershootBounded` says by how much),
  even by one archive that holds two versions of a problem; an archive with a
  single problem in a folder leaves its temporary directory behind
  (`LeftoverOnlyLone`, a part of `RowsAndFilesAgree`); a verification or a failed mail deletes whichever code is
  stored, a newer one included.
* `HttpPipeline` lists in `Undeclared` the statuses the handlers answer and the API's
  description does not declare, such as 403 and 409 of starting, completing and
  cancelling a game. `PATCH /problems/{id}` with an unknown visibility is a 500, by
  the table's check, although 400 is declared; so are a language that
  `POST /execute` does not know and a limit or offset beyond an `int32`
  (`ErrorsExplained`, `AnswersExplained`). `time_limit_minutes` is cut to 16 bits in the
  same way, but only stored.
* The page asks `GET /problems/{id}` for the current version of a problem, while
  submissions are judged by the version the game pinned (`VersionsServed` states
  both); and a private problem that its owner made a game of is a 404 for the other
  players.
* `sendPlayerState` returns in silence when one of its statements fails
  (`handler.go:598-605`): the page stays on the first problem while submissions are judged
  by another, until the next `player_advanced` of its own or a reconnection. So it does
  after an answer of `getProblem` that failed or overtook a later one, and after an
  advance whose following statements failed or whose broadcast did not reach it
  (`missed` in `PageFollowsRow`).
* No message waits for a page that is not in the room. Between the check of the status
  (`handler.go:470`) and the join (495) the game may be won, and the page is connected and
  never hears of it; nor does one in a deleted room, above, or with a full buffer
  (`deaf` in `PageHearsBack`).
* A page whose answer is lost keeps its button disabled: with a broken connection,
  in a full buffer, or because `SendToUser` chose the dead one of two connections (`cut`).
  So does one whose last problem is accepted after the game ended without a
  broadcast, or with one that passed it by. A page that missed `game_finished` tries to
  reconnect for ever.

## 5. Proofs

A theorem holds for all values of the constants that satisfy the assumptions of
its module: any sets of users, requests, connections, messages, problems, any
limits and bounds. The assumptions are what the code gives: placeholders
(`NoUser`, `NoSub`, `NoRequest`, `Nobody`, `New`) are none of what they stand in for,
limits are natural numbers and those the code needs positive are positive; in
`Hub` connections and messages are different things (`ClientsAssumption`), in
`ExecutorPool` there are finitely many languages (`LangsAssumption`), in `Entrance`
finitely many requests for a code and at least one, in `ProblemCatalog` finitely
many uploads and at least one (`RequestsAssumption`): the bounds in
`CooldownOverrunBounded` and `LimitOvershootBounded` are in terms of their number.

| Module | Theorem | Statement |
|---|---|---|
| `GameProofs` | `TypeCorrect`, `Inductive` | `[]TypeOK`, `[]IInv` |
| | `ProgressIsEarned`, `AnnouncementsAreTrue`, `WinnersPlay`, `LateAdvances`, `RecordsAreEarned` | the safety invariants |
| | `WinnersStay`, `RosterIsFrozen` | the action properties |
| | `ImplementsLifecycle` | `Game` implements `GameLifecycle` |
| `ExecutionSlotsProofs` | `SlotsTypeCorrect`, `SlotsInductive`, `SlotsNoOrphanToken`, `SlotsOverlapBounded`, `SlotsMutexUntilSwept`, `SlotsReleaseNeverBlocks` | `TypeOK`, `IInv`, `NoOrphanToken`, `OverlapBounded`; that until the first sweep the slot is a mutex, and that no release then waits |
| `HubProofs` | `HubTypeCorrect`, `HubRoomsReclaimed`, `HubChannelsSound` | `TypeOK`, `RoomsReclaimed`, `ChannelsSound` |
| | `PageTypeCorrect`, `PageInductive`, `PageShowsRow` | `PageTypeOK`, `PageInv`, `PageFollowsRow` of `GamePage` |
| `ExecutorPoolProofs` | `PoolTypeCorrect`, `PoolInductive`, `PoolContainersAccounted`, `PoolContainersBounded`, `PoolCleanStart`, `PoolAnsweredAtMostOnce`, `PoolReadyMeansPrimed` | `TypeOK`, `IInv`, the safety invariants; that there are never more containers than workers times faults plus one (finitely many workers there); that readiness needs a container of every language |
| `EntranceProofs` | `EntranceTypeCorrect`, `EntranceInductive`, `EntranceGuessesBounded`, `EntranceStoredCodeMailed`, `EntranceCooldownOverrunBounded` | `TypeOK`, `IInv`, the safety invariants |
| | `EntranceLogoutFinal`, `EntranceRightCodeEnters` | the action properties |
| `ProblemCatalogProofs` | `CatalogTypeCorrect`, `CatalogInductive`, `CatalogVersionsNeverClash`, `CatalogRowsAndFilesAgree`, `CatalogLeftoverOnlyLone`, `CatalogLimitOvershootBounded` | `TypeOK`, `IInv`, the safety invariants |
| | `CatalogPublishes` | `ProblemCatalog` implements `Publication` |
| | `ArchiveTypeCorrect`, `ArchiveInductive`, `ArchiveContained`, `ArchiveAcceptedUsable`, `ArchiveMatchesLinewise` | `ArchiveTypeOK`, `ArchiveInv`, `Contained`, `AcceptedUsable`, `MatchIsLinewise` of `ArchiveValidation` |
| `HttpApiProofs` | `ApiTypeCorrect`, `ApiInductive`, `ApiAnswersCoherent`, `ApiShownToInsiders`, `ApiAnswersExplained` | `TypeOK`, `IInv`, the safety invariants |
| | `ApiWritesFollowLifecycle` | the writes of all handlers are steps of `GameLifecycle` |
| `ProblemApiProofs` | `ProblemTypeCorrect`, `ProblemInductive`, `ProblemVisibleWhenServed`, `ProblemVersionsServed`, `ProblemErrorsExplained` | `TypeOK`, `IInv`, the safety invariants |
| | `ProblemFollowsPublication` | the problem of `ProblemApi` implements `Publication` |

Hardly any invariant is inductive. What each needs, and why:

**Game.** `ProgressEarned` needs that the index a
submission advances is the one it was judged on (`IndexIsCurrent`), which needs that
the slot keeps others of the user out (`SlotOwned`), and that what is saved or
advanced was judged (`JudgedFirst`). `OneAnnouncement` needs that a submission on its
way to announce is the only one and found the game active (`OneWonSubmission`);
`AnnouncedWinEarned` needs the same of what it earned (`WinEarned`).
`AnnouncementsTrue` is the conjunction of the two, `RecordsEarned` that of
`SolutionsEarned` and `ShownNeverAhead`. `LateAdvanceAtMostOnce` needs that a user who advanced late has no further submission
past the status read (`NoSecondLateAdvance`), `ShownNeverAhead` that snapshots are
old (`SnapshotNeverAhead`). `NothingBeforeStart`, `RowsTogether` and `TimeoutsAreSolo`
tie the rows to each other. `IInv` is the conjunction of these and the properties.
The proof does not go through every conjunct for every action. `NextSummary` shows
once that each step is one of a few kinds (a submission moved, advanced, freed its
slot; the rows changed; contexts were killed; a restart), frame lemmas say what
each kind leaves alone, and one lemma per conjunct follows from those.

**ExecutionSlots.** `OverlapBounded` is a count in two halves. Every holder has put a
value into some channel, not necessarily the one it will take it out of, so there
are at most as many holders as full channels (`HoldersHaveTokens`); and every channel
but the first was made because a finished sweep deleted its predecessor
(`ChannelsPaidFor`). `NoOrphanToken` follows from `EntryTokenOwned`, which names the
requests that will take the value out of the registered channel. The same two counts
give what holds until the first sweep: one channel, so at most one holder inside
(`SlotsMutexUntilSwept`, the promise `Game` uses), and a value for whoever receives
from it (`SlotsReleaseNeverBlocks`). The latter is the state fact behind the liveness
property `ReleaseEnds`: a draining request can always take its step.

**Hub.** Two invariants that do not need each other. `RoomInv`: the room in the map
holds only connections that will still leave, and has a member or somebody who has
found it and is about to join. `StreamInv`: what a client was written and what still
sits in its buffer is one stream (`Out`); streams never order two messages
differently (`OneOrder`), because a message is appended to all members under one
lock and only once (`SentOnly`).

**GamePage.** Indices only grow, so whatever is shown, asked for, read, about to be
broadcast or under way is at most the row's (`Reached`); requests are told apart by their numbers (`Numbered`). The
second half of `PageFollowsRow` needs what holds before the wire is empty: while the page
has been sent its state, no advance is still to be announced and it has missed nothing
(`InTouch`), either the last message under way that
chooses a problem chooses the row's, or there is none and the latest request is for
that problem or was answered with it (`Led`). Which steps break the first and restore
the second is the content of the proof; messages that choose nothing (`Silent`) may
stand anywhere.

**ExecutorPool.** `Shape` says what a worker has at each place, `BoxInv` that containers
nobody owns are accounted for, `CleanInv` whose files and programs may be in a
worker's container (of answered requests, beside its own) and that nothing was copied
in between a deletion and the next item, `ItemInv` that an unanswered item is in exactly one place: not
queued yet, in one queue, or with one worker. `PrimedInv` counts languages. For `PoolContainersBounded`, `LostInv` counts what a running
process has lost or a dead one left: a worker loses at most one container per fault,
a crash leaves at most those the workers own, and a boot loses none.

**Entrance.** `GuessInv`: comparisons made and comparisons under way together are within
the attempts counted, because the counter is raised, with its limit in the
statement's condition, before the hash is handed out; for a code that was replaced
the limit itself is the budget. `CooldownInv`: while the code is new nobody passes the
cooldown without a fault, so the codes that still come are those of requests that
passed it before.

**ProblemCatalog.** Versions are numbered without a gap (`RowInv`), the number a
transaction has computed is the next one as long as it holds the lock (`LockInv`),
files without a user are the server's own, files with one have their row
(`FileInv`), and no two uploads move to the same place (`MoveInv`), so `Rename` never
meets a directory that is not empty. For `LimitOvershootBounded` the state is extended
by what is still to come: `ToAdd` has an element for each new problem an upload past
its count may still insert, `ToCommit` one for each version whose place passed its
check. `LimitInv` bounds the sum of what is there and what is to come; inserting moves
one from the second to the first, and only the two checks add to the second, when
the first is known to be small.
`CatalogPublishes` takes every step of the catalogue to a step of `Publication` or to none:
inserting a problem publishes it, because its slug is still free by the table's UNIQUE;
committing a version revises it, because `LockInv` makes the number the next one and the
owner cannot have changed; seeding publishes a built-in problem where no row is.

**ArchiveValidation.** `InsideRoot` needs that `Clean` never climbs above the directory it
started in, whatever the name: it is a recursive function over the components, and
what it computes is found by induction on their number (`CleanSteps`). `DiskBounded` needs
that the bytes on the disk are among those counted (`BytesCounted`), a set of pairs so
that files may replace each other; a file cut short has used up the limit, and the
limit is looked at before anything is accepted (`CutIsNoticed`). What was well formed
stays so, because nothing is written after the unpacking (`ResultsGood`).
`MatchIsLinewise` is about what `NormalizeOutput` computes: `Split` and `JoinLines` put the
lines where counting line ends finds them (`Laid`, by induction on the characters and
on the lines), trimming the end of the text moves no line (`TrimmedEndsRead`), and lines
that are equal give joined texts equal but for line ends at the end (`PaddingTrimmed`).

**HttpApi.** `SeenInv`: what a handler has read of the game is still true of it, or the
game was deleted during the request. `CheckedInv` keeps what was checked before a write
for the write, `InsiderInv` and `ListsInv` what was checked before an answer for the
answer. `ApiWritesFollowLifecycle` needs `CheckedInv` for the two operations that check
in one statement and write in another.

**ProblemApi.** A path in the cache has its own version or nothing (`CacheInv`), the
versions up to the current one are committed (`PhaseInv`), a game's version is one of
them (`PinInv`), and `Good` says of a request at each place what it has noticed. `2^w`
occurs with a symbolic exponent: the proofs treat powers of two as numbers of
subsets of `1..n`, which the library has theorems about.

Each inductive invariant was also checked with TLC on the instance of its module's
run before it was proved. For the proofs, tables of the pipeline are written with
`CASE`, recursion as recursive functions (`Clean`, `Split`, `JoinLines`), `SameOrder` in
`Hub` compares messages two by two, and `TypeOK` gives requests and versions a type
that no bound limits. Induction, where it is needed, is by the least number for which
the claim would fail (`LeastMember`, `InductionTo`, `StepsExist`).

Only model-checked:

* Liveness (`SlotReleased`, `SolvedAllEndsGameUnlessFault`, `ReleaseEnds`, `ConnectionsEnd`,
  `ItemsAnsweredUnlessShut`, `PoolSettles`, `PageHearsBack`): the prover handles neither
  fairness nor `ENABLED`.
* The violation of `ReusedClean`, which is a counterexample and not a theorem.

Every safety invariant and every action property that a run checks is a theorem;
`LeftoverOnlyLone`, a part of `RowsAndFilesAgree`, is one of its own.

## 6. Not modelled

* Image pulling, mail delivery, configuration, running the migrations, rendering:
  input and output without state of their own.
* The pages besides the game page: each shows what one request returned.
* `httprate`'s limit per address, CORS and the origin check of the upgrader: they
  refuse requests before anything modelled happens.
* The contents of manifests beyond good, odd and broken; hashes of directories.
* Generated code for queries without a caller (`UpdateGameWinner`,
  `ListPublishedPublicProblems`), and `EndAllUserSessions` and `CleanupExpired`, which
  nothing calls.
* The data race on the output buffer when the executor's safety net fires: it
  concerns the text of one result, which the model abstracts.

## 7. Plan

Built so far, in order of importance: `Game` with `GameLifecycle` and its proofs,
`ExecutionSlots`, `Hub`, `ExecutorPool`, `ProblemCatalog`, `Entrance`; then
`ArchiveValidation`, `HttpPipeline` with `HttpApi` and `ProblemApi`, `GamePage`; then the
proofs of all safety properties, and `Publication` with the two proofs that it is
implemented. What would come next
is `Publication` with the files: which versions can be loaded, as a function of the
faults.
