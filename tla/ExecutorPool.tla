---------------------------- MODULE ExecutorPool ----------------------------
(***************************************************************************)
(* DockerExecutor: per language a bounded queue and a fixed set of worker  *)
(* goroutines, each with a warm container that it reuses; Run on the       *)
(* caller's side; shutdown; and the containers a dead process leaves       *)
(* behind for the next one to remove.                                      *)
(*                                                                         *)
(* Channel operations, atomics and calls to the Docker daemon are one      *)
(* action each.  The daemon and the user programs in a container are       *)
(* external: a container may die, a call may fail or its answer be lost    *)
(* (counted in faults), a program ends when it likes, may leave children   *)
(* behind, and may write files while it or a child of it runs.             *)
(***************************************************************************)
EXTENDS Naturals, Sequences, FiniteSets

CONSTANTS
    Langs,          \* the configured languages
    Workers, LangOf,  \* runWorker goroutines and the language of each
    Requests, ReqLang,  \* calls of Run and the language each asks for
    QueueCap,       \* size * queueMultiplier
    MaxContainers,  \* bound on the containers that exist at a time
    MaxFaults,      \* bound on daemon outages, dying containers, crashes
    MayShutdown     \* whether the process may be asked to stop

ASSUME LangsAssumption == IsFiniteSet(Langs)
ASSUME LangOfAssumption == LangOf \in [Workers -> Langs]
ASSUME ReqLangAssumption == DOMAIN ReqLang = Requests
ASSUME QueueCapAssumption == QueueCap \in Nat \ {0}
ASSUME MaxContainersAssumption == MaxContainers \in Nat \ {0}
ASSUME MaxFaultsAssumption == MaxFaults \in Nat
ASSUME MayShutdownAssumption == MayShutdown \in BOOLEAN

VARIABLES
    booted,   \* NewDockerExecutor has removed old containers, workers run
    shut,     \* shutdownCtx is done
    worker,   \* runWorker: pc, its container (0: none), its item, its outcome
    primed,   \* worker's local primed
    langPrimed, primedCount, ready,
    queue,    \* langPool.queue
    call,     \* Run of each request
    live,     \* the context of a request is not done
    writes,   \* values ever sent to a request's result channel
    box,      \* containers: state, whose files are in them, whose programs
              \* (or children they left) run, and (history) whether files
              \* were copied in since a deletion ran
    leaked,   \* containers the process has lost: the removal failed, or the
              \* answer to the creation; the errors are dropped
    faults

workerVars == <<worker, primed, langPrimed, primedCount, ready>>
callVars == <<call, live>>
boxVars == <<box, leaked>>
vars == <<booted, shut, worker, primed, langPrimed, primedCount, ready, queue,
          call, live, writes, box, leaked, faults>>

NoRequest == "none"
ASSUME RequestsAssumption == NoRequest \notin Requests

Boxes == 1..MaxContainers
NoBox == [state |-> "absent", files |-> {}, procs |-> {}, used |-> FALSE]
NewWorker == [pc |-> "acquiring", box |-> 0, item |-> NoRequest]

Init ==
    /\ booted = FALSE
    /\ shut = FALSE
    /\ worker = [w \in Workers |-> NewWorker]
    /\ primed = [w \in Workers |-> FALSE]
    /\ langPrimed = [l \in Langs |-> FALSE]
    /\ primedCount = 0
    /\ ready = FALSE
    /\ queue = [l \in Langs |-> <<>>]
    /\ call = [r \in Requests |-> "new"]
    /\ live = [r \in Requests |-> TRUE]
    /\ writes = [r \in Requests |-> 0]
    /\ box = [b \in Boxes |-> NoBox]
    /\ leaked = {}
    /\ faults = 0

Fault == faults < MaxFaults /\ faults' = faults + 1
NoFault == UNCHANGED faults

Exists(b) == box[b].state # "absent"

(* The identifier that the next container gets.                            *)
IsUnused(b) == ~Exists(b) /\ \A c \in 1..(b - 1) : Exists(c)

Goto(w, label) == worker' = [worker EXCEPT ![w].pc = label]

(* cleanupContainer: forced removal, whose error is dropped.               *)
CleanupContainer(b) ==
    \/ /\ box' = [box EXCEPT ![b] = NoBox]
       /\ NoFault
       /\ UNCHANGED leaked
    \/ /\ Fault
       /\ leaked' = leaked \cup {b}
       /\ UNCHANGED box

-----------------------------------------------------------------------------
(* Start of the process.                                                   *)

(* cleanupPreviousPools: all labelled containers are listed and removed;   *)
(* any of the removals, or the listing, may fail.  Then initPools starts   *)
(* the workers.                                                            *)
Boot ==
    /\ ~booted
    /\ booted' = TRUE
    /\ \/ /\ box' = [b \in Boxes |-> NoBox]
          /\ leaked' = {}
          /\ NoFault
       \/ \E left \in (SUBSET {b \in Boxes : Exists(b)}) \ {{}} :
             /\ Fault
             /\ box' = [b \in Boxes |-> IF b \in left THEN box[b] ELSE NoBox]
             /\ leaked' = left
    /\ UNCHANGED <<shut, workerVars, queue, callVars, writes>>

(* The process ends, after SIGTERM without waiting for the workers or by   *)
(* crashing, and a new one starts: nothing is left but the containers.     *)
Restart ==
    /\ Fault
    /\ booted' = FALSE
    /\ shut' = FALSE
    /\ worker' = [w \in Workers |-> NewWorker]
    /\ primed' = [w \in Workers |-> FALSE]
    /\ langPrimed' = [l \in Langs |-> FALSE]
    /\ primedCount' = 0
    /\ ready' = FALSE
    /\ queue' = [l \in Langs |-> <<>>]
    /\ call' = [r \in Requests |-> IF call[r] = "new" THEN "new" ELSE "returned"]
    /\ UNCHANGED <<live, writes, boxVars>>

(* watchSignals.                                                           *)
Shutdown ==
    /\ MayShutdown /\ booted /\ ~shut
    /\ shut' = TRUE
    /\ UNCHANGED <<booted, workerVars, queue, callVars, writes, boxVars, faults>>

-----------------------------------------------------------------------------
(* acquireContainer.                                                       *)

(* createWarmContainer succeeds.                                           *)
CreateContainer(w) ==
    /\ booted
    /\ worker[w].pc = "acquiring"
    /\ \E b \in Boxes :
         /\ IsUnused(b)
         /\ box' = [box EXCEPT ![b].state = "running"]
         /\ worker' = [worker EXCEPT ![w] = [@ EXCEPT
                          !.box = b,
                          !.pc = IF primed[w] THEN "idle" ELSE "notifying"]]
    /\ UNCHANGED <<booted, shut, primed, langPrimed, primedCount, ready, queue,
                   callVars, writes, leaked, faults>>

(* Mutant: a container that does not start is not removed.                 *)
CreateAbandons(w) ==
    /\ booted
    /\ worker[w].pc = "acquiring"
    /\ Fault
    /\ \E b \in Boxes : IsUnused(b) /\ box' = [box EXCEPT ![b].state = "dead"]
    /\ Goto(w, "retrying")
    /\ UNCHANGED <<booted, shut, primed, langPrimed, primedCount, ready, queue,
                   callVars, writes, leaked>>

(* It fails.  A container that was created but did not start is removed;   *)
(* when that fails in the same outage, or when the answer to the creation  *)
(* was lost, there is a container, started or not, that nobody knows.      *)
CreateFails(w) ==
    /\ booted
    /\ worker[w].pc = "acquiring"
    /\ Fault
    /\ \/ UNCHANGED boxVars
       \/ \E b \in Boxes, s \in {"running", "dead"} :
             /\ IsUnused(b)
             /\ box' = [box EXCEPT ![b].state = s]
             /\ leaked' = leaked \cup {b}
    /\ Goto(w, "retrying")
    /\ UNCHANGED <<booted, shut, primed, langPrimed, primedCount, ready, queue,
                   callVars, writes>>

(* The select after a failure: a second later it tries again, or the       *)
(* worker returns because of the shutdown; when both are due, either.      *)
Retry(w) ==
    /\ worker[w].pc = "retrying"
    /\ \/ Goto(w, "acquiring")
       \/ shut /\ Goto(w, "stopped")
    /\ UNCHANGED <<booted, shut, primed, langPrimed, primedCount, ready, queue,
                   callVars, writes, boxVars, faults>>

(* notifyPoolPrimed, the CompareAndSwap: the first worker of a language    *)
(* goes on to count it.                                                    *)
Notify(w) ==
    /\ worker[w].pc = "notifying"
    /\ IF langPrimed[LangOf[w]]
         THEN /\ Goto(w, "idle")
              /\ primed' = [primed EXCEPT ![w] = TRUE]
              /\ UNCHANGED langPrimed
         ELSE /\ langPrimed' = [langPrimed EXCEPT ![LangOf[w]] = TRUE]
              /\ Goto(w, "counting")
              /\ UNCHANGED primed
    /\ UNCHANGED <<booted, shut, primedCount, ready, queue, callVars, writes,
                   boxVars, faults>>

(* Mutant: the count is compared with the number of workers.               *)
CountToWorkers(w) ==
    /\ worker[w].pc = "counting"
    /\ primedCount' = primedCount + 1
    /\ ready' = (ready \/ primedCount' = Cardinality(Workers))
    /\ primed' = [primed EXCEPT ![w] = TRUE]
    /\ Goto(w, "idle")
    /\ UNCHANGED <<booted, shut, langPrimed, queue, callVars, writes, boxVars,
                   faults>>

(* ... the Add and, for the last language, the Store.                      *)
CountPrimed(w) ==
    /\ worker[w].pc = "counting"
    /\ primedCount' = primedCount + 1
    /\ ready' = (ready \/ primedCount' = Cardinality(Langs))
    /\ primed' = [primed EXCEPT ![w] = TRUE]
    /\ Goto(w, "idle")
    /\ UNCHANGED <<booted, shut, langPrimed, queue, callVars, writes, boxVars,
                   faults>>

-----------------------------------------------------------------------------
(* processNextItem: an item, or the shutdown; when both are due, either.   *)

(* Mutant: the item is read but not removed.                               *)
TakePeeks(w) ==
    /\ worker[w].pc = "idle"
    /\ queue[LangOf[w]] # <<>>
    /\ worker' = [worker EXCEPT ![w] = [@ EXCEPT !.pc = "copying",
                                                !.item = Head(queue[LangOf[w]])]]
    /\ UNCHANGED <<booted, shut, primed, langPrimed, primedCount, ready, queue,
                   callVars, writes, boxVars, faults>>

Take(w) ==
    /\ worker[w].pc = "idle"
    /\ queue[LangOf[w]] # <<>>
    /\ queue' = [queue EXCEPT ![LangOf[w]] = Tail(@)]
    /\ worker' = [worker EXCEPT ![w] = [@ EXCEPT !.pc = "copying",
                                                !.item = Head(queue[LangOf[w]])]]
    /\ UNCHANGED <<booted, shut, primed, langPrimed, primedCount, ready,
                   callVars, writes, boxVars, faults>>

(* copyFilesToContainer; an error is the outcome.                          *)
Copy(w) ==
    /\ worker[w].pc = "copying"
    /\ LET r == worker[w].item
           b == worker[w].box
       IN \/ /\ live[r] /\ box[b].state = "running"
             /\ box' = [box EXCEPT ![b].files = @ \cup {r}, ![b].used = TRUE]
             /\ Goto(w, "starting")
             /\ NoFault
          \/ /\ ~live[r] \/ box[b].state # "running"
             /\ Goto(w, "replying")
             /\ NoFault /\ UNCHANGED box
          \/ /\ Fault
             /\ Goto(w, "replying")
             /\ box' \in {box, [box EXCEPT ![b].files = @ \cup {r},
                                           ![b].used = TRUE]}
    /\ UNCHANGED <<booted, shut, primed, langPrimed, primedCount, ready, queue,
                   callVars, writes, leaked>>

(* execInContainer, create and attach: the program starts, or an error is  *)
(* the outcome.                                                            *)
StartExec(w) ==
    /\ worker[w].pc = "starting"
    /\ LET r == worker[w].item
           b == worker[w].box
       IN \/ /\ live[r] /\ box[b].state = "running"
             /\ box' = [box EXCEPT ![b].procs = @ \cup {r}]
             /\ Goto(w, "running")
             /\ NoFault
          \/ /\ ~live[r] \/ box[b].state # "running"
             /\ Goto(w, "replying")
             /\ NoFault /\ UNCHANGED box
          \/ /\ Fault
             /\ Goto(w, "replying")
             /\ box' \in {box, [box EXCEPT ![b].procs = @ \cup {r}]}
    /\ UNCHANGED <<booted, shut, primed, langPrimed, primedCount, ready, queue,
                   callVars, writes, leaked>>

(* execInContainer, the select: the output has ended, with the program or  *)
(* although children of it run on, or the caller's context is done, or the *)
(* safety net fires.  In the last two cases nothing stops the program.     *)
Await(w) ==
    /\ worker[w].pc = "running"
    /\ LET r == worker[w].item
           b == worker[w].box
       IN \/ /\ box' \in {box, [box EXCEPT ![b].procs = @ \ {r}]}
             /\ NoFault
          \/ ~live[r] /\ NoFault /\ UNCHANGED box
          \/ Fault /\ UNCHANGED box
    /\ Goto(w, "replying")
    /\ UNCHANGED <<booted, shut, primed, langPrimed, primedCount, ready, queue,
                   callVars, writes, leaked>>

(* Mutant: a caller that has given up is not answered.                     *)
ReplyIfLive(w) ==
    /\ worker[w].pc = "replying"
    /\ writes' = IF live[worker[w].item]
                   THEN [writes EXCEPT ![worker[w].item] = @ + 1] ELSE writes
    /\ worker' = [worker EXCEPT ![w] = [@ EXCEPT !.pc = "cleaning",
                                                !.item = NoRequest]]
    /\ UNCHANGED <<booted, shut, primed, langPrimed, primedCount, ready, queue,
                   callVars, boxVars, faults>>

(* The result goes to the caller's channel of capacity one.                *)
Reply(w) ==
    /\ worker[w].pc = "replying"
    /\ writes' = [writes EXCEPT ![worker[w].item] = @ + 1]
    /\ worker' = [worker EXCEPT ![w] = [@ EXCEPT !.pc = "cleaning",
                                                !.item = NoRequest]]
    /\ UNCHANGED <<booted, shut, primed, langPrimed, primedCount, ready, queue,
                   callVars, boxVars, faults>>

(* Mutant: the error of cleanWorkDir is ignored.                           *)
CleanUnchecked(w) ==
    /\ worker[w].pc = "cleaning"
    /\ LET b == worker[w].box IN
         \/ /\ box[b].state = "running"
            /\ \E rest \in SUBSET box[b].files :
                 box' = [box EXCEPT ![b].files = rest, ![b].used = FALSE]
            /\ Goto(w, "idle")
            /\ NoFault
         \/ /\ box[b].state # "running"
            /\ Goto(w, "removing")
            /\ NoFault /\ UNCHANGED box
         \/ /\ box[b].state = "running"
            /\ Fault
            /\ Goto(w, "idle")
            /\ UNCHANGED box
    /\ UNCHANGED <<booted, shut, primed, langPrimed, primedCount, ready, queue,
                   callVars, writes, leaked>>

(* cleanWorkDir and isContainerRunning: the container is kept only if the  *)
(* deletion ran to its end and the container runs.  How the deletion ended *)
(* is not asked, and its patterns pass over names with a leading dot: any  *)
(* of the files may be left.                                               *)
Clean(w) ==
    /\ worker[w].pc = "cleaning"
    /\ LET b == worker[w].box
           Deleted(rest, u) == [box EXCEPT ![b].files = rest, ![b].used = u]
       IN \/ /\ box[b].state = "running"
             /\ \E rest \in SUBSET box[b].files : box' = Deleted(rest, FALSE)
             /\ Goto(w, "idle")
             /\ NoFault
          \/ /\ box[b].state # "running"
             /\ Goto(w, "removing")
             /\ NoFault /\ UNCHANGED box
          \/ /\ Fault
             /\ Goto(w, "removing")
             /\ \E rest \in SUBSET box[b].files :
                  box' = Deleted(rest, box[b].used)
    /\ UNCHANGED <<booted, shut, primed, langPrimed, primedCount, ready, queue,
                   callVars, writes, leaked>>

(* A container that is not kept is removed and replaced.                   *)
Replace(w) ==
    /\ worker[w].pc = "removing"
    /\ CleanupContainer(worker[w].box)
    /\ worker' = [worker EXCEPT ![w] = [@ EXCEPT !.pc = "acquiring",
                                                !.box = 0]]
    /\ UNCHANGED <<booted, shut, primed, langPrimed, primedCount, ready, queue,
                   callVars, writes>>

(* The shutdown: the worker turns to drainQueueWithShutdown ...            *)
BeginDrain(w) ==
    /\ worker[w].pc = "idle" /\ shut
    /\ Goto(w, "draining")
    /\ UNCHANGED <<booted, shut, primed, langPrimed, primedCount, ready, queue,
                   callVars, writes, boxVars, faults>>

(* ... answers what is queued with an error, one item at a time ...        *)
Drain(w) ==
    /\ worker[w].pc = "draining"
    /\ queue[LangOf[w]] # <<>>
    /\ writes' = [writes EXCEPT ![Head(queue[LangOf[w]])] = @ + 1]
    /\ queue' = [queue EXCEPT ![LangOf[w]] = Tail(@)]
    /\ UNCHANGED <<booted, shut, workerVars, callVars, boxVars, faults>>

(* ... and, when it finds the queue empty, removes its container and ends. *)
Stop(w) ==
    /\ worker[w].pc = "draining"
    /\ queue[LangOf[w]] = <<>>
    /\ CleanupContainer(worker[w].box)
    /\ worker' = [worker EXCEPT ![w] = [@ EXCEPT !.pc = "stopped", !.box = 0]]
    /\ UNCHANGED <<booted, shut, primed, langPrimed, primedCount, ready, queue,
                   callVars, writes>>

-----------------------------------------------------------------------------
(* Run, on the goroutine of the caller.                                    *)

(* The language and shutdownCtx are looked at ...                          *)
Check(r) ==
    /\ booted
    /\ call[r] = "new"
    /\ call' = [call EXCEPT ![r] = IF ReqLang[r] \in Langs /\ ~shut
                                     THEN "checked" ELSE "returned"]
    /\ UNCHANGED <<booted, shut, workerVars, queue, live, writes, boxVars, faults>>

(* ... and then the item is queued, or the executor is overloaded.         *)
Enqueue(r) ==
    /\ call[r] = "checked"
    /\ IF Len(queue[ReqLang[r]]) < QueueCap
         THEN /\ queue' = [queue EXCEPT ![ReqLang[r]] = Append(@, r)]
              /\ call' = [call EXCEPT ![r] = "waiting"]
         ELSE /\ call' = [call EXCEPT ![r] = "returned"]
              /\ UNCHANGED queue
    /\ UNCHANGED <<booted, shut, workerVars, live, writes, boxVars, faults>>

(* The result, or the end of the context; when both are due, either.       *)
Receive(r) ==
    /\ call[r] = "waiting"
    /\ writes[r] > 0 \/ ~live[r]
    /\ call' = [call EXCEPT ![r] = "returned"]
    /\ UNCHANGED <<booted, shut, workerVars, queue, live, writes, boxVars, faults>>

(* The caller's context is cancelled or expires.                           *)
ContextDone(r) ==
    /\ call[r] \in {"checked", "waiting"} /\ live[r]
    /\ live' = [live EXCEPT ![r] = FALSE]
    /\ UNCHANGED <<booted, shut, workerVars, queue, call, writes, boxVars, faults>>

-----------------------------------------------------------------------------
(* Containers and the programs in them.                                    *)

ProgramEnds(b, r) ==
    /\ r \in box[b].procs
    /\ box' = [box EXCEPT ![b].procs = @ \ {r}]
    /\ UNCHANGED <<booted, shut, workerVars, queue, callVars, writes, leaked, faults>>

ProgramWrites(b, r) ==
    /\ r \in box[b].procs \ box[b].files
    /\ box' = [box EXCEPT ![b].files = @ \cup {r}]
    /\ UNCHANGED <<booted, shut, workerVars, queue, callVars, writes, leaked, faults>>

ContainerDies(b) ==
    /\ Fault
    /\ box[b].state = "running"
    /\ box' = [box EXCEPT ![b] = [@ EXCEPT !.state = "dead", !.procs = {}]]
    /\ UNCHANGED <<booted, shut, workerVars, queue, callVars, writes, leaked>>

-----------------------------------------------------------------------------
WorkerStep(w) ==
    \/ CreateContainer(w) \/ Retry(w) \/ Notify(w) \/ CountPrimed(w)
    \/ Take(w) \/ Copy(w) \/ StartExec(w) \/ Await(w) \/ Reply(w) \/ Clean(w)
    \/ Replace(w) \/ BeginDrain(w) \/ Drain(w) \/ Stop(w)

Next ==
    \/ Boot \/ Restart \/ Shutdown
    \/ \E w \in Workers : WorkerStep(w) \/ CreateFails(w)
    \/ \E r \in Requests : Check(r) \/ Enqueue(r) \/ Receive(r) \/ ContextDone(r)
    \/ \E b \in Boxes : ContainerDies(b)
    \/ \E b \in Boxes, r \in Requests : ProgramEnds(b, r) \/ ProgramWrites(b, r)

(* Goroutines run, and the output a worker awaits ends: timeout(1) stops   *)
(* the program.  Nothing makes a caller's context expire, and no promise   *)
(* rests on the callers.                                                   *)
Fairness ==
    /\ WF_vars(Boot)
    /\ \A w \in Workers : WF_vars(WorkerStep(w))

Spec == Init /\ [][Next]_vars /\ Fairness

-----------------------------------------------------------------------------
WorkerPCs == {"acquiring", "retrying", "notifying", "counting", "idle",
              "copying", "starting", "running", "replying", "cleaning",
              "removing", "draining", "stopped"}

(* The steps of executeWorkItem.                                           *)
Executing == {"copying", "starting", "running"}

(* Types; a queue never exceeds its capacity.                              *)
TypeOK ==
    /\ booted \in BOOLEAN /\ shut \in BOOLEAN /\ ready \in BOOLEAN
    /\ worker \in [Workers -> [pc : WorkerPCs, box : 0..MaxContainers,
                                item : Requests \cup {NoRequest}]]
    /\ primed \in [Workers -> BOOLEAN]
    /\ langPrimed \in [Langs -> BOOLEAN]
    /\ primedCount \in Nat
    /\ queue \in [Langs -> Seq(Requests)]
    /\ \A l \in Langs : Len(queue[l]) <= QueueCap
    /\ call \in [Requests -> {"new", "checked", "waiting", "returned"}]
    /\ live \in [Requests -> BOOLEAN]
    /\ writes \in [Requests -> Nat]
    /\ box \in [Boxes -> [state : {"absent", "running", "dead"},
                          files : SUBSET Requests, procs : SUBSET Requests,
                          used : BOOLEAN]]
    /\ leaked \subseteq Boxes
    /\ faults \in 0..MaxFaults

(* "buffered(1); worker writes exactly once", the safety half: whichever   *)
(* workers execute and drain at the same time, no result channel is        *)
(* written twice, so no worker blocks on it.                               *)
AnsweredAtMostOnce == \A r \in Requests : writes[r] <= 1

(* A container belongs to one worker.  Every container there is has an     *)
(* owner, or a call to the daemon about it failed (its removal, or its     *)
(* creation), or it waits for the next start: no path of failure,          *)
(* replacement or shutdown forgets one of itself.                          *)
ContainersAccounted ==
    /\ \A v, w \in Workers : (v # w /\ worker[v].box # 0) =>
                                worker[v].box # worker[w].box
    /\ \A w \in Workers : worker[w].box # 0 =>
          Exists(worker[w].box) /\ worker[w].box \notin leaked
    /\ booted => \A b \in Boxes : Exists(b) =>
          b \in leaked \/ \E w \in Workers : worker[w].box = b

(* Requests do not meet in a container.  One enters only after a deletion  *)
(* has run there since the last; and whatever it finds all the same, files *)
(* that the deletion missed or programs that outlived their execution, is  *)
(* of requests that were answered before.                                  *)
CleanStart ==
    \A w \in Workers : worker[w].pc \in Executing =>
        LET b == box[worker[w].box] IN
          /\ worker[w].pc = "copying" => ~b.used
          /\ \A r \in (b.files \cup b.procs) \ {worker[w].item} :
                writes[r] > 0

(* "worker writes exactly once": however executions fail, contexts end and *)
(* containers are replaced, nobody waits for ever for the answer to a      *)
(* queued item, unless a shutdown comes first: an item queued after a      *)
(* check that preceded the shutdown may find every worker gone.            *)
ItemsAnsweredUnlessShut ==
    <>[](shut \/ \A r \in Requests : call[r] = "waiting" => writes[r] = 1)

(* However the daemon fails, the process settles: it becomes ready and     *)
(* stays so, because failures are retried and each language is counted     *)
(* once, or it is shut down and every worker returns, whatever it was at.  *)
PoolSettles ==
    <>[](IF shut THEN \A w \in Workers : worker[w].pc = "stopped" ELSE ready)

(* "removes user-written files from /app and /tmp so the container can be  *)
(* safely reused for the next request": the next request finds none.       *)
ReusedClean ==
    \A w \in Workers : worker[w].pc = "copying" => box[worker[w].box].files = {}

=============================================================================
