------------------------- MODULE ExecutorPoolProofs -------------------------
(* Theorems about module ExecutorPool, for every finite set of languages   *)
(* and every set of workers and requests, capacity and number of faults.   *)
EXTENDS ExecutorPool, FiniteSetTheorems, TLAPS

(* A worker without a container is one that waits for one or has ended.    *)
Unboxed == {"acquiring", "retrying", "stopped"}

(* A worker with an item is one that executes it or owes the answer.       *)
Busy == Executing \cup {"replying"}

(* What a worker has at each of its places.                                *)
Shape ==
    \A w \in Workers :
        /\ worker[w].box = 0 <=> worker[w].pc \in Unboxed
        /\ worker[w].item # NoRequest <=> worker[w].pc \in Busy

(* Containers and their owners: the parts of ContainersAccounted, and what *)
(* keeps them.  Before Boot nothing has happened yet, what does not exist  *)
(* is blank, and only what exists is leaked.                               *)
BoxInv ==
    /\ ~booted => \A w \in Workers : worker[w] = NewWorker
    /\ \A b \in Boxes : ~Exists(b) => box[b] = NoBox
    /\ \A b \in leaked : Exists(b)
    /\ ContainersAccounted

(* What is in a worker's container, beside what its item brought, is of    *)
(* requests that were answered; and from the deletion on to the next item  *)
(* no files have been copied in.                                           *)
Used == {"starting", "running", "replying", "cleaning", "removing"}

WorkerClean(w) ==
    worker[w].box # 0 =>
        LET b == box[worker[w].box]
        IN  /\ worker[w].pc \notin Used => ~b.used
            /\ \A r \in (b.files \cup b.procs) \ {worker[w].item} : writes[r] > 0

CleanInv == \A w \in Workers : WorkerClean(w)

(* Where a request is: an unanswered one is not queued yet, or is in one   *)
(* place of one queue, or is the item of one worker.                       *)
CallInv ==
    \A r \in Requests :
        /\ writes[r] <= 1
        /\ call[r] \in {"new", "checked"} => writes[r] = 0
        /\ call[r] = "checked" => ReqLang[r] \in Langs

(* A request that is queued or held is not answered and not yet to queue.  *)
Pending(r) == writes[r] = 0 /\ call[r] \notin {"new", "checked"}
PendingNext(r) == writes'[r] = 0 /\ call'[r] \notin {"new", "checked"}

HeldInv ==
    /\ \A w \in Workers : worker[w].item # NoRequest => Pending(worker[w].item)
    /\ \A v, w \in Workers : v # w /\ worker[v].item # NoRequest =>
          worker[v].item # worker[w].item

QueueInv ==
    /\ \A l \in Langs : \A i \in 1..Len(queue[l]) :
          /\ Pending(queue[l][i])
          /\ \A w \in Workers : worker[w].item # queue[l][i]
    /\ \A l, m \in Langs : \A i \in 1..Len(queue[l]), j \in 1..Len(queue[m]) :
          queue[l][i] = queue[m][j] => l = m /\ i = j

ItemInv == CallInv /\ HeldInv /\ QueueInv

(* The languages whose first worker has a container, and the workers that  *)
(* have yet to count theirs.                                               *)
Primed == {l \in Langs : langPrimed[l]}
Counting == {w \in Workers : worker[w].pc = "counting"}

(* Each language is counted once.                                          *)
PrimedInv ==
    /\ IsFiniteSet(Counting)
    /\ primedCount + Cardinality(Counting) = Cardinality(Primed)
    /\ ready => Primed = Langs

(* The pool says it is ready only when every language's pool has had its   *)
(* first container.                                                        *)
ReadyMeansPrimed == ready => \A l \in Langs : langPrimed[l]

-----------------------------------------------------------------------------
(* Types.                                                                  *)

WorkerType == [pc : WorkerPCs, box : 0..MaxContainers,
               item : Requests \cup {NoRequest}]
BoxType == [state : {"absent", "running", "dead"}, files : SUBSET Requests,
            procs : SUBSET Requests, used : BOOLEAN]

(* Replacing one value of a function keeps its type.                       *)
LEMMA FunUpdate ==
    ASSUME NEW A, NEW B, NEW f \in [A -> B], NEW x, NEW v, x \in A => v \in B
    PROVE  [f EXCEPT ![x] = v] \in [A -> B]
OBVIOUS

(* A worker that begins has the type of a worker.                          *)
LEMMA NewWorkerType == NewWorker \in WorkerType
BY MaxContainersAssumption DEF NewWorker, WorkerType, WorkerPCs

(* No container has the type of a container.                               *)
LEMMA NoBoxType == NoBox \in BoxType
BY DEF NoBox, BoxType

(* The updates of a worker and of a container that the actions make.       *)
LEMMA WorkerUpdates ==
    ASSUME NEW x \in WorkerType, NEW pc \in WorkerPCs
    PROVE  /\ [x EXCEPT !.pc = pc] \in WorkerType
           /\ \A b \in 0..MaxContainers :
                 /\ [x EXCEPT !.pc = pc, !.box = b] \in WorkerType
                 /\ [x EXCEPT !.box = b, !.pc = pc] \in WorkerType
           /\ \A r \in Requests \cup {NoRequest} :
                 [x EXCEPT !.pc = pc, !.item = r] \in WorkerType
BY DEF WorkerType

(* What the actions do to a container keeps its type.                      *)
LEMMA BoxUpdates ==
    ASSUME NEW x \in BoxType, NEW R \in SUBSET Requests
    PROVE  /\ [x EXCEPT !.state = "running"] \in BoxType
           /\ [x EXCEPT !.state = "dead", !.procs = {}] \in BoxType
           /\ [x EXCEPT !.files = R] \in BoxType
           /\ [x EXCEPT !.procs = R] \in BoxType
           /\ \A u \in BOOLEAN : [x EXCEPT !.files = R, !.used = u] \in BoxType
BY DEF BoxType

(* What is wanted of the workers and the containers of TypeOK.             *)
LEMMA TypeOKParts ==
    ASSUME TypeOK
    PROVE  /\ worker \in [Workers -> WorkerType] /\ box \in [Boxes -> BoxType]
           /\ faults \in 0..MaxFaults /\ faults \in Nat
           /\ (Fault \/ NoFault) => faults' \in 0..MaxFaults
BY MaxFaultsAssumption DEF TypeOK, WorkerType, BoxType, Fault, NoFault

(* A worker that goes on keeps its type.                                   *)
LEMMA GotoType ==
    ASSUME TypeOK, NEW w \in Workers, NEW pc \in WorkerPCs, Goto(w, pc)
    PROVE  worker' \in [Workers -> WorkerType]
<1>1. worker \in [Workers -> WorkerType] /\ worker[w] \in WorkerType
  BY TypeOKParts
<1>2. [worker[w] EXCEPT !.pc = pc] \in WorkerType
  BY <1>1, WorkerUpdates
<1>3. worker' = [worker EXCEPT ![w] = [worker[w] EXCEPT !.pc = pc]]
  BY DEF Goto
<1> QED  BY <1>1, <1>2, <1>3

(* Cleaning up keeps the types.                                            *)
LEMMA CleanupType ==
    ASSUME TypeOK, NEW b \in Boxes, CleanupContainer(b)
    PROVE  /\ box' \in [Boxes -> BoxType] /\ leaked' \subseteq Boxes
           /\ faults' \in 0..MaxFaults
BY TypeOKParts, NoBoxType DEF CleanupContainer, TypeOK

(* What happens inside a worker's container: the types, and the container  *)
(* after it.                                                               *)
LEMMA InsideType ==
    ASSUME NEW b \in Boxes, box \in [Boxes -> BoxType], NEW R \in SUBSET Requests,
           NEW u \in BOOLEAN
    PROVE  /\ [box EXCEPT ![b].files = R, ![b].used = u] \in [Boxes -> BoxType]
           /\ [box EXCEPT ![b].procs = R] \in [Boxes -> BoxType]
           /\ [box EXCEPT ![b].files = R, ![b].used = u]
                = [box EXCEPT ![b] = [box[b] EXCEPT !.files = R, !.used = u]]
<1>1. box[b] \in BoxType
  OBVIOUS
<1>2. [box EXCEPT ![b].files = R, ![b].used = u]
        = [box EXCEPT ![b] = [box[b] EXCEPT !.files = R, !.used = u]]
  OBVIOUS
<1>3. /\ [box[b] EXCEPT !.files = R, !.used = u] \in BoxType
      /\ [box[b] EXCEPT !.procs = R] \in BoxType
  BY <1>1, BoxUpdates
<1> QED  BY <1>2, <1>3

(* The first state has its types.                                          *)
LEMMA InitType == Init => TypeOK
<1> SUFFICES ASSUME Init PROVE TypeOK
  OBVIOUS
<1>1. worker \in [Workers -> WorkerType] /\ box \in [Boxes -> BoxType]
  BY NewWorkerType, NoBoxType DEF Init
<1>2. queue \in [Langs -> Seq(Requests)] /\ \A l \in Langs : Len(queue[l]) <= QueueCap
  <2>1. <<>> \in Seq(Requests) /\ Len(<<>>) = 0
    OBVIOUS
  <2> QED  BY <2>1, QueueCapAssumption DEF Init
<1>3. booted \in BOOLEAN /\ shut \in BOOLEAN /\ ready \in BOOLEAN
  BY DEF Init
<1>4. /\ primed \in [Workers -> BOOLEAN] /\ langPrimed \in [Langs -> BOOLEAN]
      /\ call \in [Requests -> {"new", "checked", "waiting", "returned"}]
      /\ live \in [Requests -> BOOLEAN]
  BY DEF Init
<1>5. /\ primedCount \in Nat /\ writes \in [Requests -> Nat] /\ leaked \subseteq Boxes
      /\ faults \in 0..MaxFaults
  BY MaxFaultsAssumption DEF Init
<1> QED  BY <1>1, <1>2, <1>3, <1>4, <1>5 DEF TypeOK, WorkerType, BoxType

(* Executing and cleaning changes only the inside of the worker's          *)
(* container, which gets nothing but what the item brings.                 *)
LEMMA InsideSteps ==
    ASSUME TypeOK, Shape, NEW w \in Workers,
           Copy(w) \/ StartExec(w) \/ Await(w) \/ Clean(w)
    PROVE  /\ worker[w].box \in Boxes
           /\ box' \in [Boxes -> BoxType]
           /\ \A c \in Boxes : /\ box'[c].state = box[c].state
                               /\ c # worker[w].box => box'[c] = box[c]
           /\ LET b == worker[w].box IN
                /\ box'[b].files \cup box'[b].procs
                     \subseteq box[b].files \cup box[b].procs \cup {worker[w].item}
                /\ Clean(w) => Goto(w, "removing") \/ ~box'[b].used
<1> DEFINE b == worker[w].box
           r == worker[w].item
<1>1. b \in Boxes
  <2>1. b \in 0..MaxContainers /\ (b = 0 <=> worker[w].pc \in Unboxed)
    BY DEF TypeOK, Shape
  <2>2. worker[w].pc \notin Unboxed
    BY DEF Unboxed, Copy, StartExec, Await, Clean
  <2> HIDE DEF b
  <2> QED  BY <2>1, <2>2, MaxContainersAssumption DEF Boxes
<1>2. ~Clean(w) => r \in Requests
  BY DEF Shape, TypeOK, Copy, StartExec, Await, Busy, Executing
<1>3. box \in [Boxes -> BoxType] /\ box[b] \in BoxType
  BY <1>1, TypeOKParts
<1>4. \/ box' = box /\ (Clean(w) => Goto(w, "removing"))
      \/ \E R \in SUBSET Requests, u \in BOOLEAN :
           /\ box' = [box EXCEPT ![b].files = R, ![b].used = u]
           /\ R \subseteq box[b].files \cup {r}
           /\ Clean(w) => Goto(w, "removing") \/ ~u
      \/ /\ ~Clean(w)
         /\ \E P \in SUBSET Requests : /\ box' = [box EXCEPT ![b].procs = P]
                                       /\ P \subseteq box[b].procs \cup {r}
  <2> HIDE DEF b, r
  <2>0. box[b].files \subseteq Requests /\ box[b].procs \subseteq Requests
        /\ box[b].used \in BOOLEAN
    BY <1>3 DEF BoxType
  <2>1. CASE Copy(w)
    <3>1. ~Clean(w)
      BY <2>1 DEF Copy, Clean
    <3>2. \/ box' = box
          \/ box' = [box EXCEPT ![b].files = box[b].files \cup {r}, ![b].used = TRUE]
      BY <2>1 DEF Copy, b, r
    <3> QED  BY <1>2, <2>0, <3>1, <3>2
  <2>2. CASE StartExec(w)
    <3>1. ~Clean(w)
      BY <2>2 DEF StartExec, Clean
    <3>2. box' = box \/ box' = [box EXCEPT ![b].procs = box[b].procs \cup {r}]
      BY <2>2 DEF StartExec, b, r
    <3> QED  BY <1>2, <2>0, <3>1, <3>2
  <2>3. CASE Await(w)
    <3>1. ~Clean(w)
      BY <2>3 DEF Await, Clean
    <3>2. box' = box \/ box' = [box EXCEPT ![b].procs = box[b].procs \ {r}]
      BY <2>3 DEF Await, b, r
    <3> QED  BY <2>0, <3>1, <3>2
  <2>4. CASE Clean(w)
    <3>1. \/ box' = box /\ Goto(w, "removing")
          \/ \E rest \in SUBSET box[b].files, u \in BOOLEAN :
               /\ box' = [box EXCEPT ![b].files = rest, ![b].used = u]
               /\ Goto(w, "removing") \/ ~u
      BY <2>0, <2>4 DEF Clean, b
    <3> QED  BY <2>0, <3>1
  <2> QED  BY <2>1, <2>2, <2>3, <2>4
<1>5. CASE box' = box /\ (Clean(w) => Goto(w, "removing"))
  BY <1>1, <1>3, <1>5
<1>6. ASSUME NEW R \in SUBSET Requests, NEW u \in BOOLEAN,
             box' = [box EXCEPT ![b].files = R, ![b].used = u],
             R \subseteq box[b].files \cup {r},
             Clean(w) => Goto(w, "removing") \/ ~u
      PROVE  /\ box' \in [Boxes -> BoxType]
             /\ \A c \in Boxes : box'[c].state = box[c].state /\ (c # b => box'[c] = box[c])
             /\ box'[b].files \cup box'[b].procs \subseteq box[b].files \cup box[b].procs \cup {r}
             /\ Clean(w) => Goto(w, "removing") \/ ~box'[b].used
  <2> HIDE DEF b, r
  <2>1. box' = [box EXCEPT ![b] = [box[b] EXCEPT !.files = R, !.used = u]]
        /\ box' \in [Boxes -> BoxType]
    BY <1>1, <1>3, <1>6, InsideType
  <2>2. box'[b] = [box[b] EXCEPT !.files = R, !.used = u]
    BY <1>1, <1>3, <2>1
  <2>3. box'[b].state = box[b].state /\ box'[b].files = R /\ box'[b].procs = box[b].procs
        /\ box'[b].used = u
    BY <1>3, <2>2 DEF BoxType
  <2>4. \A c \in Boxes : c # b => box'[c] = box[c]
    BY <1>1, <1>3, <2>1
  <2> QED  BY <1>6, <2>1, <2>3, <2>4
<1>7. ASSUME ~Clean(w), NEW P \in SUBSET Requests, box' = [box EXCEPT ![b].procs = P],
             P \subseteq box[b].procs \cup {r}
      PROVE  /\ box' \in [Boxes -> BoxType]
             /\ \A c \in Boxes : box'[c].state = box[c].state /\ (c # b => box'[c] = box[c])
             /\ box'[b].files \cup box'[b].procs \subseteq box[b].files \cup box[b].procs \cup {r}
  <2> HIDE DEF b, r
  <2>1. box' = [box EXCEPT ![b] = [box[b] EXCEPT !.procs = P]] /\ box' \in [Boxes -> BoxType]
    BY <1>1, <1>3, <1>7, InsideType
  <2>2. box'[b] = [box[b] EXCEPT !.procs = P]
    BY <1>1, <1>3, <2>1
  <2>3. box'[b].state = box[b].state /\ box'[b].files = box[b].files /\ box'[b].procs = P
    BY <1>3, <2>2 DEF BoxType
  <2>4. \A c \in Boxes : c # b => box'[c] = box[c]
    BY <1>1, <1>3, <2>1
  <2> QED  BY <1>7, <2>1, <2>3, <2>4
<1> QED  BY <1>1, <1>4, <1>5, <1>6, <1>7

(* The steps of a worker.  A worker that removes a container has one.      *)
LEMMA WorkerStepType ==
    ASSUME TypeOK, Shape, NEW w \in Workers, WorkerStep(w) \/ CreateFails(w)
    PROVE  TypeOK'
<1>0. /\ worker \in [Workers -> WorkerType] /\ box \in [Boxes -> BoxType]
      /\ worker[w] \in WorkerType /\ worker[w].item \in Requests \cup {NoRequest}
      /\ worker[w].box \in 0..MaxContainers
      /\ (Fault \/ NoFault) => faults' \in 0..MaxFaults
  BY TypeOKParts DEF WorkerType
<1>a. ASSUME worker' \in [Workers -> WorkerType], box' \in [Boxes -> BoxType],
             leaked' \subseteq Boxes, faults' \in 0..MaxFaults,
             UNCHANGED <<booted, shut, primed, langPrimed, primedCount, ready, queue,
                         callVars, writes>>
      PROVE  TypeOK'
  BY <1>a DEF TypeOK, WorkerType, BoxType, callVars
<1>b. leaked \subseteq Boxes /\ faults \in 0..MaxFaults /\ LangOf[w] \in Langs
      /\ queue[LangOf[w]] \in Seq(Requests)
  BY LangOfAssumption DEF TypeOK
<1> USE DEF WorkerPCs
<1>1. CASE CreateContainer(w)
  <2> DEFINE pc == IF primed[w] THEN "idle" ELSE "notifying"
  <2>1. PICK b \in Boxes :
           /\ box' = [box EXCEPT ![b].state = "running"]
           /\ worker' = [worker EXCEPT ![w] = [worker[w] EXCEPT !.box = b, !.pc = pc]]
    BY <1>1, ZenonT(60) DEF CreateContainer
  <2>2. [worker[w] EXCEPT !.box = b, !.pc = pc] \in WorkerType
    <3>1. pc \in WorkerPCs /\ b \in 0..MaxContainers
      BY DEF Boxes
    <3> QED  BY <1>0, <3>1, WorkerUpdates
  <2> HIDE DEF pc
  <2>3. worker' \in [Workers -> WorkerType]
    BY <1>0, <2>1, <2>2
  <2>4. [box[b] EXCEPT !.state = "running"] \in BoxType
    BY <1>0, BoxUpdates
  <2>5. box' \in [Boxes -> BoxType]
    BY <1>0, <2>1, <2>4
  <2> QED  BY <1>1, <1>a, <1>b, <2>3, <2>5 DEF CreateContainer
<1>2. CASE CreateFails(w)
  <2>1. worker' \in [Workers -> WorkerType] /\ faults' \in 0..MaxFaults
    BY <1>0, <1>2, GotoType DEF CreateFails
  <2>2. box' \in [Boxes -> BoxType] /\ leaked' \subseteq Boxes
    <3>1. CASE UNCHANGED boxVars
      BY <1>0, <1>b, <3>1 DEF boxVars
    <3>2. CASE ~UNCHANGED boxVars
      <4>1. PICK b \in Boxes, st \in {"running", "dead"} :
               box' = [box EXCEPT ![b].state = st] /\ leaked' = leaked \cup {b}
        BY <1>2, <3>2 DEF CreateFails
      <4>2. [box[b] EXCEPT !.state = st] \in BoxType
        BY <1>0 DEF BoxType
      <4> QED  BY <1>0, <1>b, <4>1, <4>2
    <3> QED  BY <3>1, <3>2
  <2> QED  BY <1>2, <1>a, <2>1, <2>2 DEF CreateFails
<1>3. CASE Retry(w)
  BY <1>0, <1>3, <1>a, <1>b, GotoType DEF Retry, boxVars
<1>4. CASE Notify(w)
  <2>1. worker' \in [Workers -> WorkerType]
    BY <1>4, GotoType DEF Notify
  <2>2. primed' \in [Workers -> BOOLEAN] /\ langPrimed' \in [Langs -> BOOLEAN]
    BY <1>4 DEF Notify, TypeOK
  <2> QED  BY <1>4, <2>1, <2>2 DEF Notify, TypeOK, WorkerType, callVars, boxVars
<1>5. CASE CountPrimed(w)
  <2>1. worker' \in [Workers -> WorkerType]
    BY <1>5, GotoType DEF CountPrimed
  <2>2. primed' \in [Workers -> BOOLEAN] /\ ready' \in BOOLEAN
    BY <1>5 DEF CountPrimed, TypeOK
  <2>3. primedCount' \in Nat
    BY <1>5 DEF CountPrimed, TypeOK
  <2> QED  BY <1>5, <2>1, <2>2, <2>3
           DEF CountPrimed, TypeOK, WorkerType, callVars, boxVars
<1>6. CASE Take(w)
  <2> DEFINE l == LangOf[w]
             q == queue[LangOf[w]]
  <2>1. /\ Head(q) \in Requests /\ Tail(q) \in Seq(Requests)
        /\ Len(Tail(q)) = Len(q) - 1 /\ Len(q) \in Nat
    BY <1>6, <1>b DEF Take
  <2>2. [worker[w] EXCEPT !.pc = "copying", !.item = Head(q)] \in WorkerType
    BY <1>0, <2>1, WorkerUpdates
  <2>3. worker' \in [Workers -> WorkerType]
    BY <1>0, <1>6, <2>2 DEF Take
  <2>4. queue' = [queue EXCEPT ![l] = Tail(q)] /\ l \in Langs
    BY <1>6, <1>b DEF Take
  <2> HIDE DEF l, q
  <2>5. queue' \in [Langs -> Seq(Requests)]
    BY <2>1, <2>4 DEF TypeOK
  <2>6. \A m \in Langs : Len(queue'[m]) <= QueueCap
    BY <2>1, <2>4, QueueCapAssumption DEF TypeOK, q, l
  <2> QED  BY <1>6, <2>3, <2>5, <2>6, SMTT(30) DEF Take, TypeOK, WorkerType, callVars, boxVars
<1>c. /\ worker[w].pc \in Busy => worker[w].item \in Requests
      /\ worker[w].pc \notin Unboxed => worker[w].box \in Boxes
  BY <1>0, MaxContainersAssumption DEF Shape, Boxes
<1>7. CASE Copy(w) \/ StartExec(w) \/ Await(w) \/ Clean(w)
  <2>1. worker' \in [Workers -> WorkerType] /\ faults' \in 0..MaxFaults
    BY <1>0, <1>7, GotoType DEF Copy, StartExec, Await, Clean
  <2>2. box' \in [Boxes -> BoxType]
    BY <1>7, InsideSteps
  <2>3. UNCHANGED <<booted, shut, primed, langPrimed, primedCount, ready, queue,
                    callVars, writes, leaked>>
    BY <1>7 DEF Copy, StartExec, Await, Clean
  <2> QED  BY <1>a, <1>b, <2>1, <2>2, <2>3
<1>10. CASE Reply(w)
  <2> DEFINE r == worker[w].item
  <2>1. worker' \in [Workers -> WorkerType]
    <3>1. [worker[w] EXCEPT !.pc = "cleaning", !.item = NoRequest] \in WorkerType
      BY <1>0, WorkerUpdates
    <3> QED  BY <1>0, <1>10, <3>1 DEF Reply
  <2>2. writes' \in [Requests -> Nat]
    <3>1. writes \in [Requests -> Nat] /\ (r \in Requests => writes[r] + 1 \in Nat)
      BY DEF TypeOK
    <3>2. [writes EXCEPT ![r] = writes[r] + 1] \in [Requests -> Nat]
      BY <3>1, FunUpdate
    <3> QED  BY <1>10, <3>2 DEF Reply
  <2> QED  BY <1>10, <2>1, <2>2, SMTT(30) DEF Reply, TypeOK, WorkerType, callVars, boxVars
<1>12. ASSUME NEW pc \in {"acquiring", "stopped"}, worker[w].pc \notin Unboxed,
              CleanupContainer(worker[w].box),
              worker' = [worker EXCEPT ![w] = [worker[w] EXCEPT !.pc = pc, !.box = 0]],
              UNCHANGED <<booted, shut, primed, langPrimed, primedCount, ready, queue,
                          callVars, writes>>
       PROVE  TypeOK'
  <2>1. [worker[w] EXCEPT !.pc = pc, !.box = 0] \in WorkerType
    <3>1. pc \in WorkerPCs /\ 0 \in 0..MaxContainers
      BY MaxContainersAssumption
    <3> QED  BY <1>0, <3>1, WorkerUpdates
  <2>2. worker' \in [Workers -> WorkerType]
    BY <1>0, <1>12, <2>1
  <2> QED  BY <1>12, <1>a, <1>c, <2>2, CleanupType
<1>13. CASE Replace(w) \/ Stop(w)
  BY <1>12, <1>13 DEF Replace, Stop, Unboxed
<1>14. CASE BeginDrain(w)
  BY <1>0, <1>14, <1>a, <1>b, GotoType DEF BeginDrain, boxVars
<1>15. CASE Drain(w)
  <2> DEFINE l == LangOf[w]
             q == queue[LangOf[w]]
             h == Head(queue[LangOf[w]])
  <2>1. /\ h \in Requests /\ Tail(q) \in Seq(Requests)
        /\ Len(Tail(q)) = Len(q) - 1 /\ Len(q) \in Nat
    BY <1>15, <1>b DEF Drain
  <2>2. queue' = [queue EXCEPT ![l] = Tail(q)] /\ l \in Langs
        /\ writes' = [writes EXCEPT ![h] = writes[h] + 1]
    BY <1>15, <1>b DEF Drain
  <2> HIDE DEF l, q, h
  <2>3. queue' \in [Langs -> Seq(Requests)]
    BY <2>1, <2>2 DEF TypeOK
  <2>4. \A m \in Langs : Len(queue'[m]) <= QueueCap
    BY <2>1, <2>2, QueueCapAssumption DEF TypeOK, q, l
  <2>5. writes' \in [Requests -> Nat]
    BY <2>1, <2>2 DEF TypeOK
  <2> QED  BY <1>15, <2>3, <2>4, <2>5 DEF Drain, TypeOK, workerVars, callVars, boxVars
<1> QED  BY <1>1, <1>2, <1>3, <1>4, <1>5, <1>6, <1>7, <1>10, <1>13, <1>14,
           <1>15 DEF WorkerStep

(* The other steps.                                                        *)
LEMMA NextType == TypeOK /\ Shape /\ [Next]_vars => TypeOK'
<1> SUFFICES ASSUME TypeOK, Shape, [Next]_vars PROVE TypeOK'
  OBVIOUS
<1>0. /\ worker \in [Workers -> WorkerType] /\ box \in [Boxes -> BoxType]
      /\ (Fault \/ NoFault) => faults' \in 0..MaxFaults
  BY TypeOKParts
<1>1. CASE Boot
  <2>1. box' \in [Boxes -> BoxType] /\ leaked' \subseteq Boxes
    <3>1. \A left : [b \in Boxes |-> IF b \in left THEN box[b] ELSE NoBox]
                       \in [Boxes -> BoxType]
      BY <1>0, NoBoxType
    <3> QED  BY <1>1, <3>1, NoBoxType DEF Boot
  <2>2. faults' \in 0..MaxFaults
    BY <1>0, <1>1 DEF Boot
  <2> QED  BY <1>1, <2>1, <2>2 DEF Boot, TypeOK, BoxType, workerVars, callVars
<1>2. CASE Restart
  <2>1. worker' \in [Workers -> WorkerType] /\ faults' \in 0..MaxFaults
    BY <1>0, <1>2, NewWorkerType DEF Restart
  <2>2. queue' \in [Langs -> Seq(Requests)] /\ \A l \in Langs : Len(queue'[l]) <= QueueCap
    <3>1. <<>> \in Seq(Requests) /\ Len(<<>>) = 0
      OBVIOUS
    <3> QED  BY <1>2, <3>1, QueueCapAssumption DEF Restart
  <2>3. /\ primed' \in [Workers -> BOOLEAN] /\ langPrimed' \in [Langs -> BOOLEAN]
        /\ booted' \in BOOLEAN /\ shut' \in BOOLEAN /\ ready' \in BOOLEAN
    BY <1>2 DEF Restart
  <2>4. call' \in [Requests -> {"new", "checked", "waiting", "returned"}]
        /\ primedCount' \in Nat
    BY <1>2 DEF Restart
  <2> QED  BY <1>2, <2>1, <2>2, <2>3, <2>4 DEF Restart, TypeOK, WorkerType, boxVars
<1>3. CASE Shutdown
  BY <1>3 DEF Shutdown, TypeOK, workerVars, callVars, boxVars
<1>4. ASSUME NEW r \in Requests, Check(r) PROVE TypeOK'
  BY <1>4 DEF Check, TypeOK, workerVars, boxVars
<1>5. ASSUME NEW r \in Requests, Enqueue(r) PROVE TypeOK'
  <2>1. CASE Len(queue[ReqLang[r]]) < QueueCap
    <3> DEFINE l == ReqLang[r]
    <3>1. queue' = [queue EXCEPT ![l] = Append(queue[l], r)]
      BY <1>5, <2>1 DEF Enqueue
    <3>2. \A m \in Langs : queue[m] \in Seq(Requests) /\ Len(queue[m]) \in Nat
      BY DEF TypeOK
    <3>3. \A m \in Langs : /\ Append(queue[m], r) \in Seq(Requests)
                           /\ Len(Append(queue[m], r)) = Len(queue[m]) + 1
      BY <3>2
    <3>4. queue' \in [Langs -> Seq(Requests)]
      <4>1. queue \in [Langs -> Seq(Requests)]
            /\ (l \in Langs => Append(queue[l], r) \in Seq(Requests))
        BY <3>3 DEF TypeOK
      <4> HIDE DEF l
      <4>2. [queue EXCEPT ![l] = Append(queue[l], r)] \in [Langs -> Seq(Requests)]
        BY <4>1, FunUpdate
      <4> QED  BY <3>1, <4>2
    <3>5. \A m \in Langs : queue'[m] = IF m = l THEN Append(queue[m], r) ELSE queue[m]
      BY <3>1 DEF TypeOK
    <3>6. \A m \in Langs : Len(queue'[m]) <= QueueCap
      <4> SUFFICES ASSUME NEW m \in Langs PROVE Len(queue'[m]) <= QueueCap
        OBVIOUS
      <4>1. CASE m = l
        <5>1. Len(queue[m]) < QueueCap /\ queue'[m] = Append(queue[m], r)
          BY <2>1, <3>5, <4>1
        <5>2. Len(queue'[m]) = Len(queue[m]) + 1
          BY <3>3, <5>1
        <5> QED  BY <3>2, <5>1, <5>2, QueueCapAssumption
      <4>2. CASE m # l
        BY <3>5, <4>2 DEF TypeOK
      <4> QED  BY <4>1, <4>2
    <3>7. call' \in [Requests -> {"new", "checked", "waiting", "returned"}]
      BY <1>5, <2>1 DEF Enqueue, TypeOK
    <3> QED  BY <1>5, <3>4, <3>6, <3>7 DEF Enqueue, TypeOK, workerVars, boxVars
  <2>2. CASE ~(Len(queue[ReqLang[r]]) < QueueCap)
    BY <1>5, <2>2 DEF Enqueue, TypeOK, workerVars, boxVars
  <2> QED  BY <2>1, <2>2
<1>6. ASSUME NEW r \in Requests, Receive(r) PROVE TypeOK'
  BY <1>6 DEF Receive, TypeOK, workerVars, boxVars
<1>7. ASSUME NEW r \in Requests, ContextDone(r) PROVE TypeOK'
  BY <1>7 DEF ContextDone, TypeOK, workerVars, boxVars
<1>8. ASSUME NEW b \in Boxes, ContainerDies(b) PROVE TypeOK'
  <2>1. [box[b] EXCEPT !.state = "dead", !.procs = {}] \in BoxType
    BY <1>0, BoxUpdates
  <2>2. box' \in [Boxes -> BoxType] /\ faults' \in 0..MaxFaults
    BY <1>0, <1>8, <2>1 DEF ContainerDies
  <2> QED  BY <1>8, <2>2 DEF ContainerDies, TypeOK, BoxType, workerVars, callVars
<1>9. ASSUME NEW b \in Boxes, NEW r \in Requests, ProgramEnds(b, r) PROVE TypeOK'
  <2>1. box[b] \in BoxType /\ box[b].procs \ {r} \in SUBSET Requests
    BY <1>0 DEF BoxType
  <2>2. [box[b] EXCEPT !.procs = box[b].procs \ {r}] \in BoxType
    BY <2>1, BoxUpdates
  <2>3. box' \in [Boxes -> BoxType]
    BY <1>0, <1>9, <2>2 DEF ProgramEnds
  <2> QED  BY <1>9, <2>3 DEF ProgramEnds, TypeOK, BoxType, workerVars, callVars
<1>10. ASSUME NEW b \in Boxes, NEW r \in Requests, ProgramWrites(b, r) PROVE TypeOK'
  <2>1. box[b] \in BoxType /\ box[b].files \cup {r} \in SUBSET Requests
    BY <1>0 DEF BoxType
  <2>2. [box[b] EXCEPT !.files = box[b].files \cup {r}] \in BoxType
    BY <2>1, BoxUpdates
  <2>3. box' \in [Boxes -> BoxType]
    BY <1>0, <1>10, <2>2 DEF ProgramWrites
  <2> QED  BY <1>10, <2>3 DEF ProgramWrites, TypeOK, BoxType, workerVars, callVars
<1>11. CASE UNCHANGED vars
  BY <1>11 DEF vars, TypeOK
<1> QED  BY <1>1, <1>2, <1>3, <1>4, <1>5, <1>6, <1>7, <1>8, <1>9, <1>10, <1>11,
           WorkerStepType DEF Next

-----------------------------------------------------------------------------
(* What a step of one worker does to the workers, field by field.          *)

(* What going on leaves of a worker.                                       *)
LEMMA GotoFields ==
    ASSUME TypeOK, NEW w \in Workers, NEW pc, Goto(w, pc)
    PROVE  \A v \in Workers :
             /\ worker'[v].box = worker[v].box /\ worker'[v].item = worker[v].item
             /\ worker'[v].pc = IF v = w THEN pc ELSE worker[v].pc
BY DEF TypeOK, Goto

(* What taking an item from the queue leaves of the worker and of the      *)
(* queue.                                                                  *)
LEMMA TakeFields ==
    ASSUME TypeOK, NEW w \in Workers, Take(w)
    PROVE  /\ \A v \in Workers :
                /\ worker'[v].box = worker[v].box
                /\ v # w => worker'[v] = worker[v]
           /\ worker'[w].item = Head(queue[LangOf[w]]) /\ worker'[w].pc = "copying"
           /\ worker[w].pc = "idle"
BY DEF Take, TypeOK

(* What an answer leaves of the worker and of the call.                    *)
LEMMA ReplyFields ==
    ASSUME TypeOK, NEW w \in Workers, Reply(w)
    PROVE  /\ \A v \in Workers :
                /\ worker'[v].box = worker[v].box
                /\ v # w => worker'[v] = worker[v]
           /\ worker'[w].item = NoRequest /\ worker'[w].pc = "cleaning"
           /\ worker[w].pc = "replying"
BY DEF Reply, TypeOK

(* Steps that only move a worker on, without a container or an item.       *)
Moves(w, pcs) == \E pc \in pcs : Goto(w, pc)

(* Which steps only move a worker on, and from where.                      *)
LEMMA MovesOn ==
    ASSUME NEW w \in Workers
    PROVE  /\ CreateFails(w) => Moves(w, {"retrying"}) /\ worker[w].pc = "acquiring"
           /\ Retry(w) => /\ Moves(w, {"acquiring", "stopped"})
                          /\ worker[w].pc = "retrying"
           /\ Notify(w) => /\ Moves(w, {"idle", "counting"})
                           /\ worker[w].pc = "notifying"
           /\ CountPrimed(w) => Moves(w, {"idle"}) /\ worker[w].pc = "counting"
           /\ BeginDrain(w) => Moves(w, {"draining"}) /\ worker[w].pc = "idle"
           /\ Copy(w) => /\ Moves(w, {"starting", "replying"})
                         /\ worker[w].pc = "copying"
           /\ StartExec(w) => /\ Moves(w, {"running", "replying"})
                              /\ worker[w].pc = "starting"
           /\ Await(w) => Moves(w, {"replying"}) /\ worker[w].pc = "running"
           /\ Clean(w) => /\ Moves(w, {"idle", "removing"})
                          /\ worker[w].pc = "cleaning"
BY DEF Moves, CreateFails, Retry, Notify, CountPrimed, BeginDrain, Copy, StartExec,
       Await, Clean

(* Every step keeps the shape of workers and their items.                  *)
LEMMA NextShape == TypeOK /\ Shape /\ [Next]_vars => Shape'
<1> SUFFICES ASSUME TypeOK, Shape, [Next]_vars PROVE Shape'
  OBVIOUS
<1> USE DEF Unboxed, Busy, Executing
<1>1. ASSUME NEW w \in Workers, CreateContainer(w) PROVE Shape'
  <2>1. PICK b \in Boxes : worker' = [worker EXCEPT ![w] = [worker[w] EXCEPT !.box = b,
                             !.pc = IF primed[w] THEN "idle" ELSE "notifying"]]
    BY <1>1 DEF CreateContainer
  <2>2. b # 0 /\ worker[w].pc = "acquiring"
    BY <1>1, MaxContainersAssumption DEF Boxes, CreateContainer
  <2>3. \A v \in Workers :
             /\ worker'[v].item = worker[v].item
             /\ worker'[v].box = IF v = w THEN b ELSE worker[v].box
             /\ worker'[v].pc = IF v = w
                  THEN (IF primed[w] THEN "idle" ELSE "notifying") ELSE worker[v].pc
    BY <2>1 DEF TypeOK
  <2> QED  BY <2>2, <2>3 DEF Shape
<1>2. ASSUME NEW w \in Workers,
             \/ Moves(w, {"retrying"}) /\ worker[w].pc = "acquiring"
             \/ Moves(w, {"acquiring", "stopped"}) /\ worker[w].pc = "retrying"
             \/ Moves(w, {"idle", "counting"}) /\ worker[w].pc = "notifying"
             \/ Moves(w, {"idle"}) /\ worker[w].pc = "counting"
             \/ Moves(w, {"draining"}) /\ worker[w].pc = "idle"
             \/ Moves(w, {"starting", "replying"}) /\ worker[w].pc = "copying"
             \/ Moves(w, {"running", "replying"}) /\ worker[w].pc = "starting"
             \/ Moves(w, {"replying"}) /\ worker[w].pc = "running"
             \/ Moves(w, {"idle", "removing"}) /\ worker[w].pc = "cleaning"
      PROVE  Shape'
  <2>1. PICK pc : /\ Goto(w, pc)
                  /\ pc \in Unboxed <=> worker[w].pc \in Unboxed
                  /\ pc \in Busy <=> worker[w].pc \in Busy
    BY <1>2 DEF Moves, Goto
  <2>2. \A v \in Workers :
             /\ worker'[v].box = worker[v].box /\ worker'[v].item = worker[v].item
             /\ worker'[v].pc = IF v = w THEN pc ELSE worker[v].pc
    BY <2>1, GotoFields
  <2> QED  BY <2>1, <2>2 DEF Shape
<1>3. ASSUME NEW w \in Workers, Take(w) PROVE Shape'
  <2> DEFINE h == Head(queue[LangOf[w]])
  <2>1. h \in Requests
    <3>1. queue[LangOf[w]] \in Seq(Requests) /\ queue[LangOf[w]] # <<>>
      BY <1>3, LangOfAssumption DEF TypeOK, Take
    <3> QED  BY <3>1
  <2>2. worker' = [worker EXCEPT ![w] = [worker[w] EXCEPT !.pc = "copying", !.item = h]]
        /\ worker[w].pc = "idle"
    BY <1>3 DEF Take
  <2> HIDE DEF h
  <2>3. \A v \in Workers :
             /\ worker'[v].box = worker[v].box
             /\ worker'[v].item = IF v = w THEN h ELSE worker[v].item
             /\ worker'[v].pc = IF v = w THEN "copying" ELSE worker[v].pc
    BY <2>2 DEF TypeOK
  <2>4. h # NoRequest
    BY <2>1, RequestsAssumption
  <2> QED  BY <2>2, <2>3, <2>4 DEF Shape
<1>4. ASSUME NEW w \in Workers, Reply(w) PROVE Shape'
  <2>1. worker' = [worker EXCEPT ![w] = [worker[w] EXCEPT !.pc = "cleaning", !.item = NoRequest]]
        /\ worker[w].pc = "replying"
    BY <1>4 DEF Reply
  <2>2. \A v \in Workers :
             /\ worker'[v].box = worker[v].box
             /\ worker'[v].item = IF v = w THEN NoRequest ELSE worker[v].item
             /\ worker'[v].pc = IF v = w THEN "cleaning" ELSE worker[v].pc
    BY <2>1 DEF TypeOK
  <2> QED  BY <2>1, <2>2 DEF Shape
<1>5. ASSUME NEW w \in Workers, Replace(w) \/ Stop(w) PROVE Shape'
  <2>1. PICK pc \in {"acquiring", "stopped"} :
           worker' = [worker EXCEPT ![w] = [worker[w] EXCEPT !.pc = pc, !.box = 0]]
    BY <1>5 DEF Replace, Stop
  <2>2. worker[w].pc \in {"removing", "draining"}
    BY <1>5 DEF Replace, Stop
  <2>3. \A v \in Workers :
             /\ worker'[v].item = worker[v].item
             /\ worker'[v].box = IF v = w THEN 0 ELSE worker[v].box
             /\ worker'[v].pc = IF v = w THEN pc ELSE worker[v].pc
    BY <2>1 DEF TypeOK
  <2> QED  BY <2>2, <2>3 DEF Shape
<1>6. CASE Restart
  <2>1. \A v \in Workers : worker'[v] = NewWorker
    BY <1>6 DEF Restart
  <2> QED  BY <2>1 DEF Shape, NewWorker
<1>7. ASSUME UNCHANGED worker PROVE Shape'
  BY <1>7, SMTT(30) DEF Shape
<1>8. CASE \/ Boot \/ Shutdown \/ UNCHANGED vars
           \/ \E w \in Workers : Drain(w)
           \/ \E r \in Requests : Check(r) \/ Enqueue(r) \/ Receive(r) \/ ContextDone(r)
           \/ \E b \in Boxes : ContainerDies(b)
           \/ \E b \in Boxes, r \in Requests : ProgramEnds(b, r) \/ ProgramWrites(b, r)
  BY <1>7, <1>8 DEF Boot, Shutdown, vars, Drain, Check, Enqueue, Receive, ContextDone,
                    ContainerDies, ProgramEnds, ProgramWrites, workerVars
<1> HIDE DEF Unboxed, Busy, Executing
<1> QED  BY <1>1, <1>2, <1>3, <1>4, <1>5, <1>6, <1>8, MovesOn DEF Next, WorkerStep

-----------------------------------------------------------------------------
(* Containers.                                                             *)

(* A step that creates and removes nothing, and hands nothing over.        *)
LEMMA BoxesKept ==
    ASSUME BoxInv, UNCHANGED <<booted, leaked>>,
           \A b \in Boxes : /\ Exists(b)' <=> Exists(b)
                            /\ ~Exists(b) => box'[b] = box[b],
           \A w \in Workers : worker'[w].box = worker[w].box,
           ~booted => worker' = worker, leaked \subseteq Boxes,
           \A w \in Workers : worker[w].box \in 0..MaxContainers
    PROVE  BoxInv'
<1>1. \A w \in Workers : worker[w].box # 0 => worker[w].box \in Boxes
  BY MaxContainersAssumption DEF Boxes
<1> QED  BY <1>1 DEF BoxInv, ContainersAccounted

(* Executing and cleaning changes the inside of the worker's container.    *)
LEMMA WorkFrame ==
    ASSUME TypeOK, Shape, NEW w \in Workers,
           Copy(w) \/ StartExec(w) \/ Await(w) \/ Clean(w)
    PROVE  /\ worker[w].box \in Boxes
           /\ \A c \in Boxes : /\ box'[c].state = box[c].state
                               /\ c # worker[w].box => box'[c] = box[c]
           /\ \A v \in Workers : /\ worker'[v].box = worker[v].box
                                 /\ worker'[v].item = worker[v].item
                                 /\ v # w => worker'[v].pc = worker[v].pc
           /\ UNCHANGED <<booted, leaked, queue, call, writes, langPrimed, primedCount,
                           ready>>
           /\ NoFault \/ Fault
<1>1. \A v \in Workers : /\ worker'[v].box = worker[v].box
                         /\ worker'[v].item = worker[v].item
                         /\ v # w => worker'[v].pc = worker[v].pc
  <2>1. PICK pc : Goto(w, pc)
    BY DEF Copy, StartExec, Await, Clean
  <2> QED  BY <2>1, GotoFields
<1>2. /\ UNCHANGED <<booted, leaked, queue, call, writes, langPrimed, primedCount, ready>>
      /\ NoFault \/ Fault
  <2>1. CASE Copy(w)
    BY <2>1 DEF Copy, callVars
  <2>2. CASE StartExec(w)
    BY <2>2 DEF StartExec, callVars
  <2>3. CASE Await(w)
    BY <2>3 DEF Await, callVars
  <2>4. CASE Clean(w)
    BY <2>4 DEF Clean, callVars
  <2> QED  BY <2>1, <2>2, <2>3, <2>4
<1> QED  BY <1>1, <1>2, InsideSteps

(* The removal of a worker's container.                                    *)
LEMMA CleanupBoxes ==
    ASSUME TypeOK, Shape, BoxInv, NEW w \in Workers, worker[w].box \in Boxes,
           CleanupContainer(worker[w].box), UNCHANGED booted, booted,
           \A v \in Workers : worker'[v].box = IF v = w THEN 0 ELSE worker[v].box
    PROVE  BoxInv'
<1> DEFINE b == worker[w].box
<1>0. \A v \in Workers : v # w => worker[v].box # b
  BY MaxContainersAssumption DEF BoxInv, ContainersAccounted, Boxes
<1>1. \A v \in Workers : worker[v].box \in 0..MaxContainers
  BY DEF TypeOK
<1>2. CASE box' = [box EXCEPT ![b] = NoBox] /\ UNCHANGED leaked
  <2>1. \A c \in Boxes : box'[c] = IF c = b THEN NoBox ELSE box[c]
    BY <1>2 DEF TypeOK
  <2>2. b \notin leaked /\ leaked \subseteq Boxes
    BY MaxContainersAssumption DEF BoxInv, ContainersAccounted, Boxes, TypeOK
  <2>3. \A c \in Boxes : Exists(c)' <=> (Exists(c) /\ c # b)
    BY <2>1 DEF Exists, NoBox
  <2>4. ContainersAccounted'
    <3>1. \A v \in Workers : worker'[v].box # 0 =>
             /\ v # w /\ worker'[v].box = worker[v].box /\ worker[v].box # b
             /\ worker[v].box \in Boxes
      BY <1>0, <1>1, MaxContainersAssumption DEF Boxes
    <3>2. \A u, v \in Workers : (u # v /\ worker'[u].box # 0) =>
                                   worker'[u].box # worker'[v].box
      BY <3>1 DEF BoxInv, ContainersAccounted
    <3>3. \A v \in Workers : worker'[v].box # 0 =>
             box'[worker'[v].box].state # "absent" /\ worker'[v].box \notin leaked'
      BY <1>2, <2>3, <3>1 DEF BoxInv, ContainersAccounted, Exists
    <3>4. \A c \in Boxes : Exists(c)' =>
             c \in leaked' \/ \E v \in Workers : worker'[v].box = c
      BY <1>2, <2>3 DEF BoxInv, ContainersAccounted
    <3> QED  BY <3>2, <3>3, <3>4 DEF ContainersAccounted, Exists
  <2> QED  BY <1>2, <2>1, <2>2, <2>3, <2>4 DEF BoxInv
<1>3. CASE leaked' = leaked \cup {b} /\ UNCHANGED box
  <2>1. Exists(b)
    BY MaxContainersAssumption DEF BoxInv, ContainersAccounted, Boxes
  <2>2. \A c \in Boxes : Exists(c)' <=> Exists(c)
    BY <1>3 DEF Exists
  <2>3. \A c : Exists(c)' <=> Exists(c)
    BY <1>3 DEF Exists
  <2>4. ContainersAccounted'
    <3>1. \A v \in Workers : worker'[v].box # 0 =>
             v # w /\ worker'[v].box = worker[v].box /\ worker[v].box # b
      BY <1>0
    <3>2. \A u, v \in Workers : (u # v /\ worker'[u].box # 0) =>
                                   worker'[u].box # worker'[v].box
      BY <3>1 DEF BoxInv, ContainersAccounted
    <3>3. \A v \in Workers : worker'[v].box # 0 =>
             box'[worker'[v].box].state # "absent" /\ worker'[v].box \notin leaked'
      BY <1>3, <2>3, <3>1 DEF BoxInv, ContainersAccounted, Exists
    <3>4. \A c \in Boxes : Exists(c)' =>
             c \in leaked' \/ \E v \in Workers : worker'[v].box = c
      BY <1>3, <2>3 DEF BoxInv, ContainersAccounted
    <3> QED  BY <3>2, <3>3, <3>4 DEF ContainersAccounted, Exists
  <2> QED  BY <1>3, <2>1, <2>3, <2>4 DEF BoxInv
<1> QED  BY <1>2, <1>3 DEF CleanupContainer

(* Every step keeps each container accounted for.                          *)
LEMMA NextBoxes == TypeOK /\ Shape /\ BoxInv /\ [Next]_vars => BoxInv'
<1> SUFFICES ASSUME TypeOK, Shape, BoxInv, [Next]_vars PROVE BoxInv'
  OBVIOUS
<1>0. /\ leaked \subseteq Boxes
      /\ \A w \in Workers : worker[w].box \in 0..MaxContainers
      /\ box \in [Boxes -> BoxType]
      /\ booted \in BOOLEAN
  BY TypeOKParts DEF TypeOK
<1>b. ASSUME NEW w \in Workers, worker[w].pc # "acquiring" PROVE booted
  BY <1>0, <1>b DEF BoxInv, NewWorker
<1>1. CASE Boot
  <2>1. \A w \in Workers : worker'[w] = NewWorker /\ worker'[w].box = 0
    BY <1>1 DEF Boot, BoxInv, workerVars, NewWorker
  <2>2. booted'
    BY <1>1 DEF Boot
  <2>3. /\ \A b \in Boxes : ~(box'[b].state # "absent") => box'[b] = NoBox
        /\ \A b \in leaked' : box'[b].state # "absent"
        /\ \A b \in Boxes : box'[b].state # "absent" => b \in leaked'
    <3>1. CASE box' = [b \in Boxes |-> NoBox] /\ leaked' = {}
      BY <3>1 DEF NoBox
    <3>2. CASE \E left \in SUBSET {b \in Boxes : Exists(b)} :
                 /\ box' = [b \in Boxes |-> IF b \in left THEN box[b] ELSE NoBox]
                 /\ leaked' = left
      <4>1. PICK left \in SUBSET {b \in Boxes : Exists(b)} :
                 /\ box' = [b \in Boxes |-> IF b \in left THEN box[b] ELSE NoBox]
                 /\ leaked' = left
        BY <3>2
      <4>2. \A b \in left : b \in Boxes /\ box[b].state # "absent"
        BY DEF Exists
      <4>3. \A b \in Boxes : box'[b] = IF b \in left THEN box[b] ELSE NoBox
        BY <4>1
      <4> QED  BY <4>1, <4>2, <4>3 DEF NoBox
    <3> QED  BY <1>1, <3>1, <3>2 DEF Boot
  <2> QED  BY <2>1, <2>2, <2>3 DEF BoxInv, ContainersAccounted, Exists
<1>2. CASE Restart
  <2>1. \A w \in Workers : worker'[w] = NewWorker /\ worker'[w].box = 0
    BY <1>2 DEF Restart, NewWorker
  <2>2. ~booted' /\ UNCHANGED <<box, leaked>>
    BY <1>2 DEF Restart, boxVars
  <2> QED  BY <2>1, <2>2 DEF BoxInv, ContainersAccounted, Exists
<1>3. ASSUME NEW w \in Workers, CreateContainer(w) PROVE BoxInv'
  <2>1. PICK b \in Boxes :
           /\ ~Exists(b)
           /\ box' = [box EXCEPT ![b].state = "running"]
           /\ worker' = [worker EXCEPT ![w] = [worker[w] EXCEPT !.box = b,
                           !.pc = IF primed[w] THEN "idle" ELSE "notifying"]]
    BY <1>3 DEF CreateContainer, IsUnused
  <2>2. booted /\ booted' /\ UNCHANGED leaked /\ worker[w].pc = "acquiring"
    BY <1>3 DEF CreateContainer
  <2>3. \A v \in Workers : worker'[v].box = IF v = w THEN b ELSE worker[v].box
    BY <2>1 DEF TypeOK
  <2>4. \A c \in Boxes : /\ c # b => box'[c] = box[c]
                         /\ c = b => box'[c].state = "running"
    BY <1>0, <2>1 DEF BoxType
  <2>5. b \notin leaked /\ \A v \in Workers : worker[v].box # b
    <3>1. b # 0
      BY DEF Boxes
    <3> QED  BY <2>1, <3>1 DEF BoxInv, ContainersAccounted
  <2>6. worker[w].box = 0 /\ \A v \in Workers : worker[v].box # 0 => worker[v].box \in Boxes
    BY <1>0, <2>2, MaxContainersAssumption DEF Shape, Unboxed, Boxes
  <2>7. /\ \A u, v \in Workers : (u # v /\ worker'[u].box # 0) =>
                                   worker'[u].box # worker'[v].box
    BY <2>3, <2>5 DEF BoxInv, ContainersAccounted
  <2>8. \A v \in Workers : worker'[v].box # 0 =>
           box'[worker'[v].box].state # "absent" /\ worker'[v].box \notin leaked'
    BY <2>2, <2>3, <2>4, <2>5, <2>6 DEF BoxInv, ContainersAccounted, Exists
  <2>9. \A c \in Boxes : box'[c].state # "absent" =>
           c \in leaked' \/ \E v \in Workers : worker'[v].box = c
    <3>1. \A c \in Boxes : c # b /\ box[c].state # "absent" =>
             c \in leaked \/ \E v \in Workers : v # w /\ worker[v].box = c
      <4>1. \A c \in Boxes : c # 0
        BY DEF Boxes
      <4> QED  BY <2>2, <2>6, <4>1 DEF BoxInv, ContainersAccounted, Exists
    <3> QED  BY <2>2, <2>3, <2>4, <3>1
  <2>10. ContainersAccounted'
    BY <2>7, <2>8, <2>9 DEF ContainersAccounted, Exists
  <2>11. /\ \A c \in Boxes : ~(box'[c].state # "absent") => box'[c] = NoBox
         /\ \A c \in leaked' : box'[c].state # "absent"
    BY <1>0, <2>2, <2>4, <2>5 DEF BoxInv, Exists
  <2> QED  BY <2>2, <2>10, <2>11 DEF BoxInv, Exists
<1>4. ASSUME NEW w \in Workers, Copy(w) \/ StartExec(w) \/ Await(w) \/ Clean(w)
      PROVE  BoxInv'
  <2>1. booted
    BY <1>b, <1>4 DEF Copy, StartExec, Await, Clean
  <2>2. /\ \A c \in Boxes : /\ box'[c].state = box[c].state
                            /\ c # worker[w].box => box'[c] = box[c]
        /\ \A v \in Workers : worker'[v].box = worker[v].box
        /\ UNCHANGED <<booted, leaked>>
        /\ worker[w].box \in Boxes
    BY <1>4, WorkFrame
  <2>3. worker[w].box # 0
    BY <2>2 DEF Boxes
  <2>4. Exists(worker[w].box)
    BY <2>3 DEF BoxInv, ContainersAccounted
  <2> QED  BY <1>0, <2>1, <2>2, <2>4, BoxesKept, SMTT(30) DEF Exists
<1>5. ASSUME NEW w \in Workers, Replace(w) \/ Stop(w) PROVE BoxInv'
  <2>1. worker[w].pc \notin Unboxed /\ booted
    BY <1>b, <1>5 DEF Replace, Stop, Unboxed
  <2>2. worker[w].box \in Boxes
    BY <1>0, <2>1, MaxContainersAssumption DEF Shape, Boxes
  <2>3. CleanupContainer(worker[w].box) /\ UNCHANGED booted
    BY <1>5 DEF Replace, Stop
  <2>4. \A v \in Workers : worker'[v].box = IF v = w THEN 0 ELSE worker[v].box
    BY <1>5, ZenonT(60) DEF Replace, Stop, TypeOK
  <2> QED  BY <2>1, <2>2, <2>3, <2>4, CleanupBoxes
<1>6. ASSUME NEW w \in Workers,
             \/ Retry(w) \/ Notify(w) \/ CountPrimed(w)
             \/ Take(w) \/ Reply(w) \/ BeginDrain(w) \/ Drain(w)
      PROVE  BoxInv'
  <2>1. booted
    BY <1>b, <1>6 DEF Retry, Notify, CountPrimed, Take, Reply, BeginDrain,
                      Drain
  <2>2. UNCHANGED <<booted, box, leaked>>
    BY <1>6 DEF Retry, Notify, CountPrimed, Take, Reply, BeginDrain,
                Drain, boxVars
  <2>3. \A v \in Workers : worker'[v].box = worker[v].box
    <3>1. CASE Drain(w)
      BY <3>1 DEF Drain, workerVars
    <3>2. CASE Take(w) \/ Reply(w)
      BY <3>2, TakeFields, ReplyFields
    <3>3. CASE \/ Retry(w) \/ Notify(w) \/ CountPrimed(w)
               \/ BeginDrain(w)
      <4>1. PICK pc : Goto(w, pc)
        BY <3>3 DEF Retry, Notify, CountPrimed, BeginDrain
      <4> QED  BY <4>1, GotoFields
    <3> QED  BY <1>6, <3>1, <3>2, <3>3
  <2> QED  BY <1>0, <2>1, <2>2, <2>3, BoxesKept DEF Exists
<1>7. ASSUME UNCHANGED <<booted, leaked, worker>>,
             \A b \in Boxes : /\ box'[b].state # "absent" <=> box[b].state # "absent"
                              /\ ~Exists(b) => box'[b] = box[b]
      PROVE  BoxInv'
  BY <1>0, <1>7, BoxesKept DEF Exists
<1>11. ASSUME NEW w \in Workers, CreateFails(w) PROVE BoxInv'
  <2>1. booted /\ UNCHANGED booted
    BY <1>11 DEF CreateFails
  <2>2. \A v \in Workers : worker'[v].box = worker[v].box
    BY <1>11, GotoFields DEF CreateFails
  <2>3. CASE UNCHANGED boxVars
    BY <1>0, <2>1, <2>2, <2>3, BoxesKept DEF boxVars, Exists
  <2>4. CASE ~UNCHANGED boxVars
    <3>1. PICK b \in Boxes, st \in {"running", "dead"} :
             /\ ~Exists(b)
             /\ box' = [box EXCEPT ![b].state = st] /\ leaked' = leaked \cup {b}
      BY <1>11, <2>4 DEF CreateFails, IsUnused
    <3>2. \A c \in Boxes : /\ c # b => box'[c] = box[c]
                           /\ c = b => box'[c].state = st
      BY <1>0, <3>1 DEF BoxType
    <3>3. b # 0 /\ \A v \in Workers : worker[v].box # b
      <4>1. b # 0
        BY DEF Boxes
      <4> QED  BY <3>1, <4>1 DEF BoxInv, ContainersAccounted
    <3>4. \A v \in Workers : worker[v].box # 0 => worker[v].box \in Boxes
      BY <1>0, MaxContainersAssumption DEF Boxes
    <3>5. \A v \in Workers : worker'[v].box # 0 =>
             box'[worker'[v].box].state # "absent" /\ worker'[v].box \notin leaked'
      BY <2>2, <3>1, <3>2, <3>3, <3>4 DEF BoxInv, ContainersAccounted, Exists
    <3>6. \A c \in Boxes : box'[c].state # "absent" =>
             c \in leaked' \/ \E v \in Workers : worker'[v].box = c
      BY <2>1, <2>2, <3>1, <3>2 DEF BoxInv, ContainersAccounted, Exists
    <3>7. ContainersAccounted'
      BY <2>2, <3>5, <3>6 DEF BoxInv, ContainersAccounted, Exists
    <3>8. /\ \A c \in Boxes : ~(box'[c].state # "absent") => box'[c] = NoBox
          /\ \A c \in leaked' : box'[c].state # "absent"
      BY <1>0, <3>1, <3>2 DEF BoxInv, Exists
    <3> QED  BY <2>1, <3>7, <3>8 DEF BoxInv, Exists
  <2> QED  BY <2>3, <2>4
<1>8. CASE \/ Shutdown \/ UNCHANGED vars
           \/ \E r \in Requests : Check(r) \/ Enqueue(r) \/ Receive(r) \/ ContextDone(r)
  <2>1. UNCHANGED <<booted, leaked, worker, box>>
    BY <1>8 DEF Shutdown, vars, Check, Enqueue, Receive, ContextDone, workerVars, boxVars
  <2> QED  BY <1>7, <2>1
<1>9. ASSUME NEW b \in Boxes, ContainerDies(b) PROVE BoxInv'
  <2>1. UNCHANGED <<booted, leaked, worker>> /\ box[b].state = "running"
    BY <1>9 DEF ContainerDies, workerVars
  <2>2. \A c \in Boxes : /\ c # b => box'[c] = box[c]
                         /\ c = b => box'[c].state = "dead"
    BY <1>0, <1>9 DEF ContainerDies, BoxType
  <2> QED  BY <1>7, <2>1, <2>2 DEF Exists
<1>10. ASSUME NEW b \in Boxes, NEW r \in Requests, ProgramEnds(b, r) \/ ProgramWrites(b, r)
       PROVE  BoxInv'
  <2>1. UNCHANGED <<booted, leaked, worker>> /\ box[b].procs # {}
    BY <1>10 DEF ProgramEnds, ProgramWrites, workerVars
  <2>2. \A c \in Boxes : /\ c # b => box'[c] = box[c]
                         /\ box'[c].state = box[c].state
    <3>1. CASE ProgramEnds(b, r)
      BY <1>0, <3>1 DEF ProgramEnds, BoxType
    <3>2. CASE ProgramWrites(b, r)
      BY <1>0, <3>2 DEF ProgramWrites, BoxType
    <3> QED  BY <1>10, <3>1, <3>2
  <2>3. Exists(b)
    BY <2>1 DEF BoxInv, NoBox
  <2> QED  BY <1>7, <2>1, <2>2, <2>3 DEF Exists
<1> QED  BY <1>1, <1>2, <1>3, <1>4, <1>5, <1>6, <1>8, <1>9, <1>10, <1>11
         DEF Next, WorkerStep

-----------------------------------------------------------------------------
(* What executions leave behind.                                           *)

(* An answered request stays answered.                                     *)
AnswersStay == \A r \in Requests : writes[r] > 0 => writes'[r] > 0

LEMMA NextAnswers == TypeOK /\ Shape /\ [Next]_vars => AnswersStay
<1> SUFFICES ASSUME TypeOK, Shape, [Next]_vars PROVE AnswersStay
  OBVIOUS
<1>0. writes \in [Requests -> Nat]
  BY DEF TypeOK
<1>1. ASSUME NEW q, writes' = [writes EXCEPT ![q] = writes[q] + 1] PROVE AnswersStay
  <2> SUFFICES ASSUME NEW r \in Requests, writes[r] > 0 PROVE writes'[r] > 0
    BY DEF AnswersStay
  <2>1. writes'[r] = IF r = q THEN writes[r] + 1 ELSE writes[r]
    BY <1>0, <1>1
  <2> QED  BY <1>0, <2>1
<1>2. (\E q : writes' = [writes EXCEPT ![q] = writes[q] + 1]) \/ UNCHANGED writes
  <2>1. ASSUME NEW w \in Workers, WorkerStep(w) \/ CreateFails(w)
        PROVE  (\E q : writes' = [writes EXCEPT ![q] = writes[q] + 1]) \/ UNCHANGED writes
    <3>1. Reply(w) => \E q : writes' = [writes EXCEPT ![q] = writes[q] + 1]
      BY DEF Reply
    <3>2. Drain(w) => \E q : writes' = [writes EXCEPT ![q] = writes[q] + 1]
      BY DEF Drain
    <3>3. Copy(w) \/ StartExec(w) \/ Await(w) \/ Clean(w) => UNCHANGED writes
      BY WorkFrame
    <3>4. CreateContainer(w) \/ CreateFails(w) \/ Replace(w) \/ Stop(w) => UNCHANGED writes
      BY DEF CreateContainer, CreateFails, Replace, Stop
    <3>5. Retry(w) \/ Notify(w) \/ CountPrimed(w) \/ Take(w) \/ BeginDrain(w)
            => UNCHANGED writes
      BY DEF Retry, Notify, CountPrimed, Take, BeginDrain
    <3> QED  BY <2>1, <3>1, <3>2, <3>3, <3>4, <3>5 DEF WorkerStep
  <2>2. Boot \/ Restart \/ Shutdown \/ UNCHANGED vars => UNCHANGED writes
    BY DEF Boot, Restart, Shutdown, vars
  <2>3. ASSUME NEW r \in Requests, Check(r) \/ Enqueue(r) \/ Receive(r) \/ ContextDone(r)
        PROVE  UNCHANGED writes
    BY <2>3 DEF Check, Enqueue, Receive, ContextDone
  <2>4. ASSUME NEW b \in Boxes, ContainerDies(b) PROVE UNCHANGED writes
    BY <2>4 DEF ContainerDies
  <2>5. ASSUME NEW b \in Boxes, NEW r \in Requests, ProgramEnds(b, r) \/ ProgramWrites(b, r)
        PROVE  UNCHANGED writes
    BY <2>5 DEF ProgramEnds, ProgramWrites
  <2> QED  BY <2>1, <2>2, <2>3, <2>4, <2>5 DEF Next
<1> QED  BY <1>1, <1>2 DEF AnswersStay

(* A step that leaves a worker alone, and its container but for what other *)
(* requests' ended programs took along.                                    *)
LEMMA CleanKept ==
    ASSUME TypeOK, AnswersStay, NEW v \in Workers, WorkerClean(v),
           worker[v].box # 0 => worker[v].box \in Boxes,
           worker'[v].box # 0 =>
             /\ worker'[v].box = worker[v].box
             /\ worker'[v].item = worker[v].item
             /\ worker'[v].pc = worker[v].pc
             /\ box'[worker[v].box].used = box[worker[v].box].used
             /\ box'[worker[v].box].files \cup box'[worker[v].box].procs
                  \subseteq box[worker[v].box].files \cup box[worker[v].box].procs
    PROVE  WorkerClean(v)'
<1> SUFFICES ASSUME worker'[v].box # 0 PROVE WorkerClean(v)'
  BY DEF WorkerClean
<1> DEFINE b == worker[v].box
<1>1. b \in Boxes /\ box[b] \in BoxType /\ box[b].files \cup box[b].procs \subseteq Requests
  BY TypeOKParts DEF BoxType
<1> QED  BY <1>1 DEF WorkerClean, AnswersStay

(* One worker at work in its container does not touch the others'.         *)
LEMMA OthersClean ==
    ASSUME TypeOK, BoxInv, CleanInv, AnswersStay, NEW w \in Workers, NEW b \in Boxes,
           \A v \in Workers : v # w =>
             /\ worker[v].box # b
             /\ worker'[v].box = worker[v].box
             /\ worker'[v].item = worker[v].item
             /\ worker'[v].pc = worker[v].pc,
           \A c \in Boxes : c # b => box'[c] = box[c],
           WorkerClean(w)'
    PROVE  CleanInv'
<1> SUFFICES ASSUME NEW v \in Workers PROVE WorkerClean(v)'
  BY DEF CleanInv
<1>1. CASE v # w
  <2>1. worker[v].box # 0 => worker[v].box \in Boxes
    BY MaxContainersAssumption DEF TypeOK, Boxes
  <2>2. worker[v].box # 0 => box'[worker[v].box] = box[worker[v].box]
    BY <1>1, <2>1
  <2> QED  BY <1>1, <2>1, <2>2, CleanKept DEF CleanInv
<1> QED  BY <1>1

(* Only its owner has a container.                                         *)
LEMMA OwnBox ==
    ASSUME BoxInv, NEW w \in Workers, worker[w].box \in Boxes
    PROVE  \A v \in Workers : v # w => worker[v].box # worker[w].box
<1>1. worker[w].box # 0
  BY DEF Boxes
<1> QED  BY <1>1 DEF BoxInv, ContainersAccounted

(* What a worker does in its container keeps all of them clean.            *)
LEMMA WorkClean ==
    ASSUME TypeOK, Shape, BoxInv, CleanInv, AnswersStay, NEW w \in Workers,
           Copy(w) \/ StartExec(w) \/ Await(w) \/ Clean(w)
    PROVE  CleanInv'
<1> DEFINE b == worker[w].box
           r == worker[w].item
<1>1. /\ b \in Boxes
      /\ \A c \in Boxes : c # b => box'[c] = box[c]
      /\ \A v \in Workers : /\ worker'[v].box = worker[v].box
                            /\ worker'[v].item = worker[v].item
                            /\ v # w => worker'[v].pc = worker[v].pc
  BY WorkFrame
<1>2. box[b] \in BoxType /\ box[b].files \cup box[b].procs \subseteq Requests
  BY <1>1, TypeOKParts DEF BoxType
<1>3. b # 0
  BY <1>1 DEF Boxes
<1>4. WorkerClean(w)
  BY DEF CleanInv
<1>5. box'[b].files \cup box'[b].procs \subseteq box[b].files \cup box[b].procs \cup {r}
  BY InsideSteps
<1>6. worker'[w].pc \notin Used => ~box'[b].used
  <2>1. CASE Clean(w)
    <3>1. Goto(w, "removing") \/ ~box'[b].used
      BY <2>1, InsideSteps
    <3> QED  BY <3>1, GotoFields DEF Used
  <2>2. CASE Copy(w) \/ StartExec(w) \/ Await(w)
    <3>1. PICK pc \in Used : Goto(w, pc)
      BY <2>2 DEF Copy, StartExec, Await, Used
    <3> QED  BY <3>1, GotoFields
  <2> QED  BY <2>1, <2>2
<1>7. WorkerClean(w)'
  <2> SUFFICES /\ worker'[w].pc \notin Used => ~box'[b].used
               /\ \A q \in (box'[b].files \cup box'[b].procs) \ {r} : writes'[q] > 0
    BY <1>1 DEF WorkerClean
  <2>1. ASSUME NEW q \in (box'[b].files \cup box'[b].procs) \ {r} PROVE writes'[q] > 0
    <3>1. q \in (box[b].files \cup box[b].procs) \ {r} /\ q \in Requests
      BY <1>2, <1>5
    <3>2. writes[q] > 0
      BY <1>3, <1>4, <3>1 DEF WorkerClean
    <3> QED  BY <3>1, <3>2 DEF AnswersStay
  <2> QED  BY <1>6, <2>1
<1>8. \A v \in Workers : v # w => worker[v].box # b
  BY <1>1, OwnBox
<1> QED  BY <1>1, <1>7, <1>8, OthersClean

(* Every step keeps the containers clean.                                  *)
LEMMA NextClean == TypeOK /\ Shape /\ BoxInv /\ CleanInv /\ [Next]_vars => CleanInv'
<1> SUFFICES ASSUME TypeOK, Shape, BoxInv, CleanInv, [Next]_vars PROVE CleanInv'
  OBVIOUS
<1>0. /\ box \in [Boxes -> BoxType]
      /\ \A w \in Workers : worker[w].box # 0 => worker[w].box \in Boxes
      /\ AnswersStay
  BY TypeOKParts, NextAnswers, MaxContainersAssumption DEF TypeOK, Boxes
<1>1. CASE Boot \/ Restart
  <2>1. \A w \in Workers : worker'[w] = NewWorker
    BY <1>1 DEF Boot, Restart, BoxInv, workerVars
  <2>2. \A w \in Workers : worker'[w].box = 0
    BY <2>1 DEF NewWorker
  <2> QED  BY <2>2 DEF CleanInv, WorkerClean
<1>2. ASSUME NEW w \in Workers, CreateContainer(w) PROVE CleanInv'
  <2>1. PICK b \in Boxes :
           /\ ~Exists(b)
           /\ box' = [box EXCEPT ![b].state = "running"]
           /\ worker' = [worker EXCEPT ![w] = [worker[w] EXCEPT !.box = b,
                           !.pc = IF primed[w] THEN "idle" ELSE "notifying"]]
    BY <1>2 DEF CreateContainer, IsUnused
  <2>2. /\ \A v \in Workers : v # w => worker'[v] = worker[v]
        /\ worker'[w].box = b /\ worker'[w].pc \in {"idle", "notifying"}
    BY <2>1 DEF TypeOK
  <2>3. b # 0 /\ \A v \in Workers : worker[v].box # b
    <3>1. b # 0
      BY DEF Boxes
    <3> QED  BY <2>1, <3>1 DEF BoxInv, ContainersAccounted
  <2>4. /\ \A c \in Boxes : c # b => box'[c] = box[c]
        /\ box'[b].files = box[b].files /\ box'[b].procs = box[b].procs
        /\ box'[b].used = box[b].used
    BY <1>0, <2>1 DEF BoxType
  <2>5. box[b].files = {} /\ box[b].procs = {} /\ ~box[b].used
    BY <2>1 DEF BoxInv, NoBox
  <2>6. WorkerClean(w)'
    BY <2>2, <2>4, <2>5 DEF WorkerClean
  <2> QED  BY <1>0, <2>2, <2>3, <2>4, <2>6, OthersClean
<1>3. ASSUME NEW w \in Workers, Copy(w) \/ StartExec(w) \/ Await(w) \/ Clean(w)
      PROVE  CleanInv'
  BY <1>0, <1>3, WorkClean
<1>4. ASSUME NEW w \in Workers, Replace(w) \/ Stop(w) PROVE CleanInv'
  <2>1. worker[w].box \in Boxes
    BY <1>0, <1>4 DEF Replace, Stop, Shape, Unboxed
  <2>2. /\ \A v \in Workers : v # w => worker'[v] = worker[v]
        /\ worker'[w].box = 0
    <3>1. CASE Replace(w)
      BY <3>1 DEF Replace, TypeOK
    <3>2. CASE Stop(w)
      BY <3>2 DEF Stop, TypeOK
    <3> QED  BY <1>4, <3>1, <3>2
  <2>3. \A c \in Boxes : c # worker[w].box => box'[c] = box[c]
    BY <1>0, <1>4 DEF Replace, Stop, CleanupContainer
  <2>4. WorkerClean(w)'
    BY <2>2 DEF WorkerClean
  <2> QED  BY <1>0, <2>1, <2>2, <2>3, <2>4, OwnBox, OthersClean
<1>5. ASSUME NEW w \in Workers, UNCHANGED box,
             \A v \in Workers : v # w => worker'[v] = worker[v],
             worker'[w].box = worker[w].box,
             worker'[w].item = worker[w].item \/ worker[w].item = NoRequest
               \/ writes'[worker[w].item] > 0,
             worker'[w].pc \notin Used => worker[w].pc \notin Used \/ worker[w].box = 0
      PROVE  CleanInv'
  <2>1. WorkerClean(w)'
    <3> DEFINE b == worker[w].box
    <3> SUFFICES ASSUME b # 0
                 PROVE  /\ worker'[w].pc \notin Used => ~box[b].used
                        /\ \A r \in (box[b].files \cup box[b].procs) \ {worker'[w].item} :
                              writes'[r] > 0
      BY <1>5 DEF WorkerClean
    <3>1. /\ worker[w].pc \notin Used => ~box[b].used
          /\ \A r \in (box[b].files \cup box[b].procs) \ {worker[w].item} : writes[r] > 0
      BY DEF CleanInv, WorkerClean
    <3>2. box[b].files \cup box[b].procs \subseteq Requests
      BY <1>0 DEF BoxType
    <3> HIDE DEF b
    <3>3. \A r \in (box[b].files \cup box[b].procs) \ {worker[w].item} : writes'[r] > 0
      BY <1>0, <3>1, <3>2 DEF AnswersStay
    <3> QED  BY <1>5, <3>1, <3>2, <3>3, RequestsAssumption DEF b
  <2>2. \A v \in Workers : v # w => WorkerClean(v)'
    BY <1>0, <1>5, CleanKept DEF CleanInv
  <2> QED  BY <2>1, <2>2 DEF CleanInv
<1>6. ASSUME NEW w \in Workers,
             \/ CreateFails(w) \/ Retry(w) \/ Notify(w) \/ CountPrimed(w) \/ BeginDrain(w)
      PROVE  CleanInv'
  <2>1. PICK pc : Goto(w, pc)
    BY <1>6 DEF CreateFails, Retry, Notify, CountPrimed, BeginDrain
  <2>2. worker[w].pc \notin Used
    BY <1>6 DEF CreateFails, Retry, Notify, CountPrimed, BeginDrain, Used
  <2>3. /\ \A v \in Workers : v # w => worker'[v] = worker[v]
        /\ worker'[w].box = worker[w].box /\ worker'[w].item = worker[w].item
    BY <2>1 DEF Goto, TypeOK
  <2>4. CASE UNCHANGED box
    BY <1>5, <2>2, <2>3, <2>4
  <2>5. CASE ~UNCHANGED box
    <3>1. CreateFails(w)
      BY <1>6, <2>5 DEF CreateFails, Retry, Notify, CountPrimed, BeginDrain, boxVars
    <3>2. PICK b \in Boxes, st \in {"running", "dead"} :
             ~Exists(b) /\ box' = [box EXCEPT ![b].state = st]
      BY <2>5, <3>1 DEF CreateFails, IsUnused, boxVars
    <3>3. b # 0 /\ \A v \in Workers : worker[v].box # b
      <4>1. b # 0
        BY DEF Boxes
      <4> QED  BY <3>2, <4>1 DEF BoxInv, ContainersAccounted
    <3>4. \A c \in Boxes : c # b => box'[c] = box[c]
      BY <1>0, <3>2
    <3>5. worker'[w].box = 0
      BY <2>3, <3>1 DEF CreateFails, Shape, Unboxed
    <3>6. WorkerClean(w)'
      BY <3>5 DEF WorkerClean
    <3> QED  BY <1>0, <2>3, <3>3, <3>4, <3>6, OthersClean
  <2> QED  BY <2>4, <2>5
<1>7. ASSUME NEW w \in Workers, Take(w) PROVE CleanInv'
  <2>1. worker[w].item = NoRequest /\ worker[w].pc \notin Used
    BY <1>7 DEF Take, Shape, Busy, Executing, Used
  <2>2. UNCHANGED box
    BY <1>7 DEF Take, boxVars
  <2> QED  BY <1>5, <1>7, <2>1, <2>2, TakeFields
<1>13. ASSUME NEW w \in Workers, Reply(w) PROVE CleanInv'
  <2>1. worker[w].item \in Requests
    BY <1>13 DEF Reply, Shape, Busy, TypeOK
  <2>2. writes'[worker[w].item] > 0
    <3>1. writes' = [writes EXCEPT ![worker[w].item] = writes[worker[w].item] + 1]
      BY <1>13 DEF Reply
    <3>2. writes \in [Requests -> Nat]
      BY DEF TypeOK
    <3> QED  BY <2>1, <3>1, <3>2
  <2>3. UNCHANGED box
    BY <1>13 DEF Reply, boxVars
  <2>4. worker'[w].pc \in Used
    BY <1>13, ReplyFields DEF Used
  <2> QED  BY <1>5, <1>13, <2>2, <2>3, <2>4, ReplyFields
<1>8. CASE \/ Shutdown \/ UNCHANGED vars
           \/ \E w \in Workers : Drain(w)
           \/ \E r \in Requests : Check(r) \/ Enqueue(r) \/ Receive(r) \/ ContextDone(r)
  <2>1. UNCHANGED <<worker, box>>
    BY <1>8 DEF Shutdown, vars, Drain, Check, Enqueue, Receive, ContextDone, workerVars,
                boxVars
  <2> QED  BY <1>0, <2>1, CleanKept DEF CleanInv
<1>9. ASSUME UNCHANGED worker, NEW b \in Boxes,
             \A c \in Boxes : c # b => box'[c] = box[c],
             box'[b].used = box[b].used,
             box'[b].files \cup box'[b].procs \subseteq box[b].files \cup box[b].procs
      PROVE  CleanInv'
  <2> SUFFICES ASSUME NEW v \in Workers PROVE WorkerClean(v)'
    BY DEF CleanInv
  <2>1. WorkerClean(v)
    BY DEF CleanInv
  <2>2. CASE worker[v].box = b
    BY <1>0, <1>9, <2>1, <2>2, CleanKept
  <2>3. CASE worker[v].box # b
    <3>1. worker[v].box # 0 => box'[worker[v].box] = box[worker[v].box]
      BY <1>0, <1>9, <2>3
    <3> QED  BY <1>0, <1>9, <2>1, <3>1, CleanKept
  <2> QED  BY <2>2, <2>3
<1>10. ASSUME NEW b \in Boxes, ContainerDies(b) PROVE CleanInv'
  <2>1. UNCHANGED worker
    BY <1>10 DEF ContainerDies, workerVars
  <2>2. /\ \A c \in Boxes : c # b => box'[c] = box[c]
        /\ box'[b].used = box[b].used /\ box'[b].procs = {}
        /\ box'[b].files = box[b].files
    BY <1>0, <1>10 DEF ContainerDies, BoxType
  <2> QED  BY <1>9, <2>1, <2>2
<1>11. ASSUME NEW b \in Boxes, NEW r \in Requests, ProgramEnds(b, r) PROVE CleanInv'
  <2>1. UNCHANGED worker
    BY <1>11 DEF ProgramEnds, workerVars
  <2>2. /\ \A c \in Boxes : c # b => box'[c] = box[c]
        /\ box'[b].used = box[b].used /\ box'[b].procs = box[b].procs \ {r}
        /\ box'[b].files = box[b].files
    BY <1>0, <1>11 DEF ProgramEnds, BoxType
  <2> QED  BY <1>9, <2>1, <2>2
<1>12. ASSUME NEW b \in Boxes, NEW r \in Requests, ProgramWrites(b, r) PROVE CleanInv'
  <2>1. UNCHANGED worker /\ r \in box[b].procs
    BY <1>12 DEF ProgramWrites, workerVars
  <2>2. /\ \A c \in Boxes : c # b => box'[c] = box[c]
        /\ box'[b].used = box[b].used /\ box'[b].procs = box[b].procs
        /\ box'[b].files = box[b].files \cup {r}
    BY <1>0, <1>12 DEF ProgramWrites, BoxType
  <2> QED  BY <1>9, <2>1, <2>2
<1> QED  BY <1>1, <1>2, <1>3, <1>4, <1>6, <1>7, <1>8, <1>10, <1>11, <1>12, <1>13
         DEF Next, WorkerStep

-----------------------------------------------------------------------------
(* The languages are counted once each.                                    *)

(* Every step keeps the count of primed languages.                         *)
LEMMA NextPrimed == TypeOK /\ PrimedInv /\ [Next]_vars => PrimedInv'
<1> SUFFICES ASSUME TypeOK, PrimedInv, [Next]_vars PROVE PrimedInv'
  OBVIOUS
<1>0. /\ IsFiniteSet(Primed) /\ Cardinality(Primed) \in Nat /\ IsFiniteSet(Counting)
      /\ Cardinality(Counting) \in Nat /\ primedCount \in Nat
      /\ langPrimed \in [Langs -> BOOLEAN] /\ LangOf \in [Workers -> Langs]
  <2>1. Primed \subseteq Langs
    BY DEF Primed
  <2>2. IsFiniteSet(Primed)
    BY <2>1, LangsAssumption, FS_Subset
  <2> QED  BY <2>2, LangOfAssumption, FS_CardinalityType DEF PrimedInv, TypeOK
<1>1. CASE Restart
  <2>1. Counting' = {} /\ Primed' = {} /\ primedCount' = 0 /\ ~ready'
    BY <1>1 DEF Restart, Counting, Primed, NewWorker
  <2> QED  BY <2>1, FS_EmptySet DEF PrimedInv
<1>2. ASSUME UNCHANGED <<langPrimed, primedCount, ready>>, Counting' = Counting
      PROVE  PrimedInv'
  BY <1>2 DEF PrimedInv, Primed
<1>3. ASSUME NEW w \in Workers, NEW pc, Goto(w, pc)
      PROVE  Counting' = IF pc = "counting" THEN Counting \cup {w} ELSE Counting \ {w}
  <2>1. \A v \in Workers : worker'[v].pc = IF v = w THEN pc ELSE worker[v].pc
    BY <1>3, GotoFields
  <2> QED  BY <2>1 DEF Counting
<1>4. ASSUME NEW w \in Workers, Notify(w) PROVE PrimedInv'
  <2> DEFINE l == LangOf[w]
  <2>1. l \in Langs /\ worker[w].pc = "notifying" /\ w \notin Counting
    BY <1>0, <1>4 DEF Notify, Counting
  <2>2. CASE langPrimed[l]
    <3>1. Goto(w, "idle") /\ UNCHANGED <<langPrimed, primedCount, ready>>
      BY <1>4, <2>2 DEF Notify
    <3>2. Counting' = Counting
      BY <1>3, <2>1, <3>1
    <3> QED  BY <1>2, <3>1, <3>2
  <2>3. CASE ~langPrimed[l]
    <3>1. /\ Goto(w, "counting") /\ UNCHANGED <<primedCount, ready>>
          /\ langPrimed' = [langPrimed EXCEPT ![l] = TRUE]
      BY <1>4, <2>3 DEF Notify
    <3>2. Counting' = Counting \cup {w}
      BY <1>3, <3>1
    <3>3. Primed' = Primed \cup {l} /\ l \notin Primed
      BY <1>0, <2>1, <2>3, <3>1 DEF Primed
    <3> HIDE DEF l
    <3>4. /\ IsFiniteSet(Counting') /\ Cardinality(Counting') = Cardinality(Counting) + 1
      BY <1>0, <2>1, <3>2, FS_AddElement
    <3>5. Cardinality(Primed') = Cardinality(Primed) + 1
      BY <1>0, <3>3, FS_AddElement
    <3>6. primedCount' + Cardinality(Counting') = Cardinality(Primed')
      BY <1>0, <3>1, <3>4, <3>5 DEF PrimedInv
    <3>7. ready' => Primed' = Langs
      BY <2>1, <3>1, <3>3 DEF PrimedInv
    <3> QED  BY <3>4, <3>6, <3>7 DEF PrimedInv
  <2> QED  BY <2>2, <2>3
<1>5. ASSUME NEW w \in Workers, CountPrimed(w) PROVE PrimedInv'
  <2>1. /\ Goto(w, "idle") /\ UNCHANGED langPrimed /\ primedCount' = primedCount + 1
        /\ ready' = (ready \/ primedCount' = Cardinality(Langs))
        /\ w \in Counting
    BY <1>5 DEF CountPrimed, Counting
  <2>2. Counting' = Counting \ {w}
    BY <1>3, <2>1
  <2>3. Primed' = Primed
    BY <2>1 DEF Primed
  <2>4. IsFiniteSet(Counting') /\ Cardinality(Counting') = Cardinality(Counting) - 1
    BY <1>0, <2>1, <2>2, FS_RemoveElement
  <2>5. Cardinality(Counting') \in Nat
    BY <2>4, FS_CardinalityType
  <2>6. primedCount' + Cardinality(Counting') = Cardinality(Primed)
    BY <1>0, <2>1, <2>4, <2>5 DEF PrimedInv
  <2>7. primedCount' = Cardinality(Langs) => Primed = Langs
    <3>1. SUFFICES ASSUME primedCount' = Cardinality(Langs) PROVE Primed = Langs
      OBVIOUS
    <3>2. Primed \subseteq Langs
      BY DEF Primed
    <3>3. /\ Cardinality(Primed) <= Cardinality(Langs)
          /\ Cardinality(Primed) = Cardinality(Langs) => Primed = Langs
      BY <3>2, LangsAssumption, FS_Subset
    <3>4. Cardinality(Langs) \in Nat
      BY LangsAssumption, FS_CardinalityType
    <3>5. Cardinality(Primed) = Cardinality(Langs)
      BY <1>0, <2>5, <2>6, <3>1, <3>3, <3>4
    <3> QED  BY <3>3, <3>5
  <2>8. ready' => Primed = Langs
    BY <2>1, <2>7 DEF PrimedInv
  <2> QED  BY <2>3, <2>4, <2>6, <2>8 DEF PrimedInv
<1>6. ASSUME NEW w \in Workers,
             \/ CreateFails(w) \/ Retry(w) \/ Copy(w) \/ StartExec(w) \/ Await(w)
             \/ Clean(w) \/ BeginDrain(w)
      PROVE  PrimedInv'
  <2>1. UNCHANGED <<langPrimed, primedCount, ready>> /\ w \notin Counting
    <3>1. worker[w].pc # "counting"
      BY <1>6 DEF CreateFails, Retry, Copy, StartExec, Await, Clean, BeginDrain
    <3>2. CASE CreateFails(w)
      BY <3>1, <3>2 DEF CreateFails, Counting
    <3>3. CASE Retry(w) \/ BeginDrain(w)
      BY <3>1, <3>3 DEF Retry, BeginDrain, Counting
    <3>4. CASE Copy(w)
      BY <3>1, <3>4 DEF Copy, Counting
    <3>5. CASE StartExec(w)
      BY <3>1, <3>5 DEF StartExec, Counting
    <3>6. CASE Await(w)
      BY <3>1, <3>6 DEF Await, Counting
    <3>7. CASE Clean(w)
      <4>1. UNCHANGED <<langPrimed, primedCount, ready>>
        BY <3>7, Zenon DEF Clean
      <4> QED  BY <3>1, <4>1 DEF Counting
    <3> QED  BY <1>6, <3>2, <3>3, <3>4, <3>5, <3>6, <3>7
  <2>2. PICK pc : Goto(w, pc) /\ pc # "counting"
    BY <1>6, MovesOn DEF Moves
  <2>3. Counting' = Counting
    BY <1>3, <2>1, <2>2
  <2> QED  BY <1>2, <2>1, <2>3
<1>7. ASSUME NEW w \in Workers,
             CreateContainer(w) \/ Take(w) \/ Reply(w) \/ Replace(w) \/ Stop(w)
      PROVE  PrimedInv'
  <2>1. UNCHANGED <<langPrimed, primedCount, ready>> /\ worker[w].pc # "counting"
    BY <1>7 DEF CreateContainer, Take, Reply, Replace, Stop
  <2>2. worker'[w].pc # "counting" /\ \A v \in Workers : v # w => worker'[v] = worker[v]
    <3>1. CASE CreateContainer(w)
      BY <3>1 DEF CreateContainer, TypeOK
    <3>2. CASE Take(w) \/ Reply(w)
      BY <3>2, TakeFields, ReplyFields
    <3>3. CASE Replace(w) \/ Stop(w)
      BY <3>3, ZenonT(60) DEF Replace, Stop, TypeOK
    <3> QED  BY <1>7, <3>1, <3>2, <3>3
  <2>3. Counting' = Counting
    BY <2>1, <2>2 DEF Counting
  <2> QED  BY <1>2, <2>1, <2>3
<1>8. CASE \/ Boot \/ Shutdown \/ UNCHANGED vars
           \/ \E w \in Workers : Drain(w)
           \/ \E r \in Requests : Check(r) \/ Enqueue(r) \/ Receive(r) \/ ContextDone(r)
           \/ \E b \in Boxes : ContainerDies(b)
           \/ \E b \in Boxes, r \in Requests : ProgramEnds(b, r) \/ ProgramWrites(b, r)
  <2>1. UNCHANGED <<worker, langPrimed, primedCount, ready>>
    BY <1>8 DEF Boot, Shutdown, vars, Drain, Check, Enqueue, Receive, ContextDone,
                ContainerDies, ProgramEnds, ProgramWrites, workerVars
  <2> QED  BY <1>2, <2>1 DEF Counting
<1> QED  BY <1>1, <1>4, <1>5, <1>6, <1>7, <1>8 DEF Next, WorkerStep

-----------------------------------------------------------------------------
(* Where the requests are.                                                 *)

(* The head and the tail of a queue by their places.                       *)
LEMMA TailPlaces ==
    ASSUME NEW q \in Seq(Requests), q # <<>>
    PROVE  /\ Head(q) = q[1] /\ Head(q) \in Requests /\ 1 \in 1..Len(q)
           /\ \A i \in 1..Len(Tail(q)) : i + 1 \in 1..Len(q) /\ Tail(q)[i] = q[i + 1]
           /\ \A i \in 1..Len(Tail(q)) : i + 1 # 1
<1>1. Len(q) \in Nat /\ Len(q) > 0 /\ Len(Tail(q)) = Len(q) - 1 /\ Head(q) \in Requests
  OBVIOUS
<1>2. Head(q) = q[1] /\ \A i \in 1..Len(Tail(q)) : Tail(q)[i] = q[i + 1]
  OBVIOUS
<1> QED  BY <1>1, <1>2

(* What removing the head of the queue of language l leaves behind: the    *)
(* rest is where it was, one place on, and the head is nowhere.            *)
LEMMA HeadRemoved ==
    ASSUME TypeOK, QueueInv, NEW l \in Langs, queue[l] # <<>>,
           queue' = [queue EXCEPT ![l] = Tail(queue[l])]
    PROVE  /\ \A m \in Langs : \A i \in 1..Len(queue'[m]) :
                \E j \in 1..Len(queue[m]) : queue'[m][i] = queue[m][j]
           /\ \A m \in Langs : \A i \in 1..Len(queue'[m]) : queue'[m][i] # Head(queue[l])
           /\ \A m, n \in Langs : \A i \in 1..Len(queue'[m]), j \in 1..Len(queue'[n]) :
                queue'[m][i] = queue'[n][j] => m = n /\ i = j
<1> DEFINE q == queue[l]
           up(m, i) == IF m = l THEN i + 1 ELSE i
<1>1. /\ Head(q) = q[1] /\ 1 \in 1..Len(q)
      /\ \A i \in 1..Len(Tail(q)) : i + 1 \in 1..Len(q) /\ Tail(q)[i] = q[i + 1]
      /\ \A i \in 1..Len(Tail(q)) : i + 1 # 1
  BY TailPlaces DEF TypeOK
<1>2. \A m \in Langs : queue'[m] = IF m = l THEN Tail(q) ELSE queue[m]
  BY DEF TypeOK
<1>3. \A m \in Langs : \A i \in 1..Len(queue'[m]) :
         /\ up(m, i) \in 1..Len(queue[m]) /\ queue'[m][i] = queue[m][up(m, i)]
         /\ m = l => up(m, i) # 1
  BY <1>1, <1>2
<1>4. \A m \in Langs : \A i, j \in Nat : up(m, i) = up(m, j) => i = j
  OBVIOUS
<1>5. \A m \in Langs : \A i \in 1..Len(queue'[m]) : i \in Nat
  OBVIOUS
<1> HIDE DEF up, q
<1>6. \A m \in Langs : \A i \in 1..Len(queue'[m]) : queue'[m][i] # Head(q)
  BY <1>1, <1>3 DEF QueueInv, q
<1>7. \A m, n \in Langs : \A i \in 1..Len(queue'[m]), j \in 1..Len(queue'[n]) :
         queue'[m][i] = queue'[n][j] => m = n /\ i = j
  BY <1>3, <1>4, <1>5 DEF QueueInv
<1>8. \A m \in Langs : \A i \in 1..Len(queue'[m]) :
         \E j \in 1..Len(queue[m]) : queue'[m][i] = queue[m][j]
  BY <1>3
<1>9. \A m \in Langs : \A i \in 1..Len(queue'[m]) : queue'[m][i] # Head(queue[l])
  BY <1>6 DEF q
<1> QED  BY <1>7, <1>8, <1>9

(* A step that moves no item keeps ItemInv when requests stay pending.     *)
LEMMA ItemsKept ==
    ASSUME TypeOK, ItemInv, UNCHANGED queue, CallInv',
           \A w \in Workers : worker'[w].item = worker[w].item,
           \A r \in Requests : Pending(r) => PendingNext(r)
    PROVE  ItemInv'
<1>1. \A l \in Langs : \A i \in 1..Len(queue[l]) : queue[l][i] \in Requests
  BY DEF TypeOK
<1>2. \A w \in Workers : worker[w].item # NoRequest => worker[w].item \in Requests
  BY DEF TypeOK
<1>3. HeldInv'
  BY <1>2 DEF ItemInv, HeldInv, Pending, PendingNext
<1>4. QueueInv'
  BY <1>1 DEF ItemInv, QueueInv, Pending, PendingNext
<1> QED  BY <1>3, <1>4 DEF ItemInv

(* Every step keeps each item in one place, and unanswered there.          *)
LEMMA NextItems == TypeOK /\ Shape /\ ItemInv /\ [Next]_vars => ItemInv'
<1> SUFFICES ASSUME TypeOK, Shape, ItemInv, [Next]_vars PROVE ItemInv'
  OBVIOUS
<1>0. /\ LangOf \in [Workers -> Langs] /\ queue \in [Langs -> Seq(Requests)]
      /\ writes \in [Requests -> Nat]
      /\ call \in [Requests -> {"new", "checked", "waiting", "returned"}]
      /\ \A w \in Workers : worker[w].item \in Requests \cup {NoRequest}
  BY LangOfAssumption DEF TypeOK
<1>q. \A l \in Langs : \A i \in 1..Len(queue[l]) : queue[l][i] \in Requests
  BY <1>0
<1>n. ASSUME UNCHANGED <<call, writes, queue>>,
             \A w \in Workers : worker'[w].item = worker[w].item
      PROVE  ItemInv'
  BY <1>n, ItemsKept DEF ItemInv, CallInv, Pending, PendingNext
<1>1. CASE Restart
  <2>1. /\ \A w \in Workers : worker'[w].item = NoRequest
        /\ \A l \in Langs : queue'[l] = <<>>
        /\ UNCHANGED writes
        /\ \A r \in Requests : call'[r] = IF call[r] = "new" THEN "new" ELSE "returned"
    BY <1>1 DEF Restart, NewWorker
  <2>2. CallInv'
    BY <2>1 DEF ItemInv, CallInv
  <2>3. HeldInv'
    BY <2>1 DEF HeldInv
  <2>4. QueueInv'
    <3>1. \A l \in Langs : Len(queue'[l]) = 0
      BY <2>1
    <3>2. \A l \in Langs : \A i \in 1..Len(queue'[l]) : FALSE
      BY <3>1
    <3> QED  BY <3>2 DEF QueueInv
  <2> QED  BY <2>2, <2>3, <2>4 DEF ItemInv
<1>2. ASSUME NEW w \in Workers, Take(w) PROVE ItemInv'
  <2> DEFINE l == LangOf[w]
             h == Head(queue[l])
  <2>1. /\ l \in Langs /\ queue[l] # <<>> /\ queue[l] \in Seq(Requests)
        /\ queue' = [queue EXCEPT ![l] = Tail(queue[l])] /\ UNCHANGED <<call, writes>>
    BY <1>0, <1>2 DEF Take, callVars
  <2>2. /\ \A v \in Workers : v # w => worker'[v].item = worker[v].item
        /\ worker'[w].item = h
    BY <1>2, TakeFields
  <2>3. h = queue[l][1] /\ 1 \in 1..Len(queue[l]) /\ h \in Requests
    BY <2>1, TailPlaces
  <2> HIDE DEF h, l
  <2>4. Pending(h) /\ h # NoRequest /\ \A v \in Workers : worker[v].item # h
    BY <2>1, <2>3, RequestsAssumption DEF ItemInv, QueueInv
  <2>5. CallInv'
    BY <2>1 DEF ItemInv, CallInv
  <2>6. HeldInv'
    BY <2>1, <2>2, <2>4 DEF ItemInv, HeldInv, Pending, PendingNext
  <2>7. /\ \A m \in Langs : \A i \in 1..Len(queue'[m]) :
             \E j \in 1..Len(queue[m]) : queue'[m][i] = queue[m][j]
        /\ \A m \in Langs : \A i \in 1..Len(queue'[m]) : queue'[m][i] # h
        /\ \A m, n \in Langs : \A i \in 1..Len(queue'[m]), j \in 1..Len(queue'[n]) :
             queue'[m][i] = queue'[n][j] => m = n /\ i = j
    BY <2>1, HeadRemoved DEF h, ItemInv
  <2>8. \A m \in Langs : \A j \in 1..Len(queue[m]) :
           PendingNext(queue[m][j]) /\ \A v \in Workers : v # w => worker'[v].item # queue[m][j]
    BY <2>1, <2>2 DEF ItemInv, QueueInv, Pending, PendingNext
  <2>9. QueueInv'
    <3>1. ASSUME NEW m \in Langs, NEW i \in 1..Len(queue'[m])
          PROVE  /\ PendingNext(queue'[m][i])
                 /\ \A v \in Workers : worker'[v].item # queue'[m][i]
      <4>1. PICK j \in 1..Len(queue[m]) : queue'[m][i] = queue[m][j]
        BY <2>7
      <4>2. /\ PendingNext(queue[m][j])
            /\ \A v \in Workers : v # w => worker'[v].item # queue[m][j]
        BY <2>8
      <4>3. worker'[w].item # queue'[m][i]
        BY <2>2, <2>7
      <4> QED  BY <4>1, <4>2, <4>3
    <3>2. \A m \in Langs : \A i \in 1..Len(queue'[m]) :
             /\ writes'[queue'[m][i]] = 0 /\ call'[queue'[m][i]] \notin {"new", "checked"}
             /\ \A v \in Workers : worker'[v].item # queue'[m][i]
      BY <3>1 DEF PendingNext
    <3>3. \A m, n \in Langs : \A i \in 1..Len(queue'[m]), j \in 1..Len(queue'[n]) :
             queue'[m][i] = queue'[n][j] => m = n /\ i = j
      BY <2>7
    <3> QED  BY <3>2, <3>3 DEF QueueInv, Pending
  <2> QED  BY <2>5, <2>6, <2>9 DEF ItemInv
<1>3. ASSUME NEW w \in Workers, Reply(w) PROVE ItemInv'
  <2> DEFINE r == worker[w].item
  <2>1. r \in Requests
    BY <1>0, <1>3 DEF Reply, Shape, Busy
  <2>2. /\ \A v \in Workers : v # w => worker'[v].item = worker[v].item
        /\ worker'[w].item = NoRequest
    BY <1>3, ReplyFields
  <2>3. writes' = [writes EXCEPT ![r] = writes[r] + 1] /\ UNCHANGED <<call, queue>>
    BY <1>3 DEF Reply, callVars
  <2>4. Pending(r) /\ r # NoRequest
    BY <2>1, RequestsAssumption DEF ItemInv, HeldInv
  <2>5. \A v \in Workers : v # w => worker[v].item # r
    BY <2>1, <2>4 DEF ItemInv, HeldInv
  <2>6. \A l \in Langs : \A i \in 1..Len(queue[l]) : queue[l][i] # r
    BY DEF ItemInv, QueueInv
  <2> HIDE DEF r
  <2>7. /\ \A s \in Requests : s # r => writes'[s] = writes[s] /\ (Pending(s) => PendingNext(s))
        /\ writes'[r] = 1
    BY <1>0, <2>1, <2>3, <2>4 DEF Pending, PendingNext
  <2>8. CallInv'
    BY <2>3, <2>4, <2>7 DEF ItemInv, CallInv, Pending, PendingNext
  <2>9. HeldInv'
    <3>1. \A v \in Workers : v # w /\ worker[v].item # NoRequest =>
             PendingNext(worker[v].item)
      BY <1>0, <2>5, <2>7 DEF ItemInv, HeldInv
    <3>2. \A v \in Workers : worker'[v].item # NoRequest =>
             v # w /\ worker'[v].item = worker[v].item
      BY <2>2
    <3> QED  BY <3>1, <3>2 DEF ItemInv, HeldInv, Pending, PendingNext
  <2>10. QueueInv'
    <3>1. \A l \in Langs : \A i \in 1..Len(queue[l]) :
             /\ PendingNext(queue[l][i])
             /\ \A v \in Workers : worker'[v].item # queue[l][i]
      BY <1>q, <2>2, <2>6, <2>7, RequestsAssumption DEF ItemInv, QueueInv
    <3> QED  BY <2>3, <3>1 DEF ItemInv, QueueInv, Pending, PendingNext
  <2> QED  BY <2>8, <2>9, <2>10 DEF ItemInv
<1>4. ASSUME NEW w \in Workers, Drain(w) PROVE ItemInv'
  <2> DEFINE l == LangOf[w]
             h == Head(queue[l])
  <2>1. /\ l \in Langs /\ queue[l] # <<>> /\ queue[l] \in Seq(Requests)
        /\ queue' = [queue EXCEPT ![l] = Tail(queue[l])]
        /\ writes' = [writes EXCEPT ![h] = writes[h] + 1] /\ UNCHANGED <<call, worker>>
    BY <1>0, <1>4 DEF Drain, callVars, workerVars
  <2>3. h = queue[l][1] /\ 1 \in 1..Len(queue[l]) /\ h \in Requests
    BY <2>1, TailPlaces
  <2> HIDE DEF h, l
  <2>4. Pending(h) /\ \A v \in Workers : worker[v].item # h
    BY <2>1, <2>3 DEF ItemInv, QueueInv
  <2>5. /\ \A s \in Requests : s # h => writes'[s] = writes[s] /\ (Pending(s) => PendingNext(s))
        /\ writes'[h] = 1
    BY <1>0, <2>1, <2>3, <2>4 DEF Pending, PendingNext
  <2>6. CallInv'
    BY <2>1, <2>4, <2>5 DEF ItemInv, CallInv, Pending, PendingNext
  <2>7. HeldInv'
    BY <1>0, <2>1, <2>4, <2>5 DEF ItemInv, HeldInv, Pending, PendingNext
  <2>8. /\ \A m \in Langs : \A i \in 1..Len(queue'[m]) :
             \E j \in 1..Len(queue[m]) : queue'[m][i] = queue[m][j]
        /\ \A m \in Langs : \A i \in 1..Len(queue'[m]) : queue'[m][i] # h
        /\ \A m, n \in Langs : \A i \in 1..Len(queue'[m]), j \in 1..Len(queue'[n]) :
             queue'[m][i] = queue'[n][j] => m = n /\ i = j
    BY <2>1, HeadRemoved DEF h, ItemInv
  <2>9. \A m \in Langs : \A j \in 1..Len(queue[m]) :
           /\ queue[m][j] # h => PendingNext(queue[m][j])
           /\ \A v \in Workers : worker'[v].item # queue[m][j]
    BY <1>q, <2>1, <2>5 DEF ItemInv, QueueInv
  <2>10. QueueInv'
    BY <2>8, <2>9 DEF QueueInv, Pending, PendingNext
  <2> QED  BY <2>6, <2>7, <2>10 DEF ItemInv
<1>5. ASSUME NEW r \in Requests, Check(r) PROVE ItemInv'
  <2>1. /\ UNCHANGED <<queue, writes, worker>> /\ call[r] = "new"
        /\ call' = [call EXCEPT ![r] = IF ReqLang[r] \in Langs /\ ~shut
                                         THEN "checked" ELSE "returned"]
    BY <1>5 DEF Check, workerVars
  <2>2. /\ \A s \in Requests : s # r => call'[s] = call[s]
        /\ call'[r] \in {"checked", "returned"} /\ (call'[r] = "checked" => ReqLang[r] \in Langs)
    BY <1>0, <2>1
  <2>3. CallInv'
    BY <2>1, <2>2 DEF ItemInv, CallInv
  <2>4. \A s \in Requests : Pending(s) => PendingNext(s)
    BY <2>1, <2>2 DEF Pending, PendingNext
  <2> QED  BY <2>1, <2>3, <2>4, ItemsKept
<1>6. ASSUME NEW r \in Requests, Receive(r) \/ ContextDone(r) PROVE ItemInv'
  <2>0. UNCHANGED <<queue, writes, worker>>
    BY <1>6 DEF Receive, ContextDone, workerVars
  <2>1. \A s \in Requests : \/ call'[s] = call[s]
                            \/ call'[s] = "returned" /\ call[s] = "waiting"
    <3>1. CASE Receive(r)
      <4>1. call' = [call EXCEPT ![r] = "returned"] /\ call[r] = "waiting"
        BY <3>1 DEF Receive
      <4> QED  BY <1>0, <4>1
    <3>2. CASE ContextDone(r)
      BY <3>2 DEF ContextDone
    <3> QED  BY <1>6, <3>1, <3>2
  <2>2. CallInv'
    BY <2>0, <2>1 DEF ItemInv, CallInv
  <2>3. \A s \in Requests : Pending(s) => PendingNext(s)
    BY <2>0, <2>1 DEF Pending, PendingNext
  <2> QED  BY <2>0, <2>2, <2>3, ItemsKept
<1>7. ASSUME NEW r \in Requests, Enqueue(r) PROVE ItemInv'
  <2> DEFINE l == ReqLang[r]
  <2>1. /\ UNCHANGED <<writes, worker>> /\ call[r] = "checked" /\ l \in Langs
        /\ writes[r] = 0
    BY <1>7 DEF Enqueue, workerVars, ItemInv, CallInv
  <2>2. PICK st \in {"waiting", "returned"} : call' = [call EXCEPT ![r] = st]
    BY <1>7 DEF Enqueue
  <2>3. /\ \A s \in Requests : s # r => call'[s] = call[s]
        /\ call'[r] \in {"waiting", "returned"}
    BY <1>0, <2>2
  <2>4. CallInv'
    BY <2>1, <2>3 DEF ItemInv, CallInv
  <2>5. PendingNext(r) /\ ~Pending(r) /\ \A s \in Requests : Pending(s) => PendingNext(s)
    BY <2>1, <2>3 DEF Pending, PendingNext
  <2>6. CASE UNCHANGED queue
    BY <2>1, <2>4, <2>5, <2>6, ItemsKept
  <2>7. CASE queue' = [queue EXCEPT ![l] = Append(queue[l], r)]
    <3> DEFINE n == Len(queue[l])
    <3> HIDE DEF l
    <3>1. n \in Nat /\ queue[l] \in Seq(Requests)
      BY <1>0, <2>1
    <3>2. \A m \in Langs : queue'[m] = IF m = l THEN Append(queue[l], r) ELSE queue[m]
      BY <1>0, <2>7
    <3>3. /\ Len(Append(queue[l], r)) = n + 1 /\ Append(queue[l], r)[n + 1] = r
          /\ \A i \in 1..n : Append(queue[l], r)[i] = queue[l][i]
      BY <3>1
    <3>4. \A m \in Langs : \A i \in 1..Len(queue'[m]) :
             \/ i \in 1..Len(queue[m]) /\ queue'[m][i] = queue[m][i]
             \/ m = l /\ i = n + 1 /\ queue'[m][i] = r
      <4> SUFFICES ASSUME NEW m \in Langs, NEW i \in 1..Len(queue'[m])
                   PROVE  \/ i \in 1..Len(queue[m]) /\ queue'[m][i] = queue[m][i]
                          \/ m = l /\ i = n + 1 /\ queue'[m][i] = r
        OBVIOUS
      <4>1. CASE m = l
        <5>1. queue'[m] = Append(queue[l], r) /\ i \in 1..(n + 1)
          BY <3>2, <3>3, <4>1
        <5>2. i \in 1..n \/ i = n + 1
          BY <3>1, <5>1
        <5> QED  BY <3>3, <4>1, <5>1, <5>2
      <4>2. CASE m # l
        BY <3>2, <4>2
      <4> QED  BY <4>1, <4>2
    <3> HIDE DEF n
    <3>5. \A m \in Langs : \A i \in 1..Len(queue[m]) :
             queue[m][i] # r /\ PendingNext(queue[m][i])
      BY <1>q, <2>5 DEF ItemInv, QueueInv
    <3>6. \A v \in Workers : worker[v].item # r
      BY <2>5, RequestsAssumption DEF ItemInv, HeldInv
    <3>7. \A m \in Langs : \A i \in 1..Len(queue'[m]) :
             PendingNext(queue'[m][i]) /\ \A v \in Workers : worker'[v].item # queue'[m][i]
      BY <2>1, <2>5, <3>4, <3>5, <3>6 DEF ItemInv, QueueInv
    <3>8. \A m, k \in Langs : \A i \in 1..Len(queue'[m]), j \in 1..Len(queue'[k]) :
             queue'[m][i] = queue'[k][j] => m = k /\ i = j
      <4> SUFFICES ASSUME NEW m \in Langs, NEW k \in Langs, NEW i \in 1..Len(queue'[m]),
                          NEW j \in 1..Len(queue'[k]), queue'[m][i] = queue'[k][j]
                   PROVE  m = k /\ i = j
        OBVIOUS
      <4>1. CASE queue'[m][i] = r
        <5>1. /\ m = l /\ i = n + 1
              /\ k = l /\ j = n + 1
          BY <3>4, <3>5, <4>1
        <5> QED  BY <5>1
      <4>2. CASE queue'[m][i] # r
        <5>1. /\ i \in 1..Len(queue[m]) /\ queue'[m][i] = queue[m][i]
              /\ j \in 1..Len(queue[k]) /\ queue'[k][j] = queue[k][j]
          BY <3>4, <4>2
        <5>2. queue[m][i] = queue[k][j]
          BY <5>1
        <5> HIDE DEF l
        <5> QED  BY <5>1, <5>2 DEF ItemInv, QueueInv
      <4> QED  BY <4>1, <4>2
    <3>9. QueueInv'
      BY <3>7, <3>8 DEF QueueInv, Pending, PendingNext
    <3>10. HeldInv'
      BY <1>0, <2>1, <2>5 DEF ItemInv, HeldInv, Pending, PendingNext
    <3> QED  BY <2>4, <3>9, <3>10 DEF ItemInv
  <2> QED  BY <1>7, <2>6, <2>7 DEF Enqueue
<1>8. ASSUME NEW w \in Workers,
             \/ CreateFails(w) \/ Retry(w) \/ Notify(w) \/ CountPrimed(w) \/ Copy(w)
             \/ StartExec(w) \/ Await(w) \/ Clean(w) \/ BeginDrain(w)
      PROVE  ItemInv'
  <2>1. UNCHANGED <<call, writes, queue>>
    <3>1. Copy(w) \/ StartExec(w) \/ Await(w) \/ Clean(w) => UNCHANGED <<call, writes, queue>>
      BY WorkFrame
    <3>2. CreateFails(w) \/ Retry(w) \/ Notify(w) \/ CountPrimed(w) \/ BeginDrain(w)
            => UNCHANGED <<call, writes, queue>>
      BY DEF CreateFails, Retry, Notify, CountPrimed, BeginDrain, callVars
    <3> QED  BY <1>8, <3>1, <3>2
  <2>2. PICK pc : Goto(w, pc)
    BY <1>8 DEF CreateFails, Retry, Notify, CountPrimed, Copy, StartExec, Await, Clean,
                BeginDrain
  <2> QED  BY <1>n, <2>1, <2>2, GotoFields
<1>9. ASSUME NEW w \in Workers, CreateContainer(w) \/ Replace(w) \/ Stop(w) PROVE ItemInv'
  <2>1. UNCHANGED <<call, writes, queue>>
    BY <1>9 DEF CreateContainer, Replace, Stop, callVars
  <2>2. \A v \in Workers : worker'[v].item = worker[v].item
    <3>1. CASE CreateContainer(w)
      BY <3>1 DEF CreateContainer, TypeOK
    <3>2. CASE Replace(w)
      BY <3>2 DEF Replace, TypeOK
    <3>3. CASE Stop(w)
      BY <3>3 DEF Stop, TypeOK
    <3> QED  BY <1>9, <3>1, <3>2, <3>3
  <2> QED  BY <1>n, <2>1, <2>2
<1>10. CASE \/ Boot \/ Shutdown \/ UNCHANGED vars
            \/ \E b \in Boxes : ContainerDies(b)
            \/ \E b \in Boxes, r \in Requests : ProgramEnds(b, r) \/ ProgramWrites(b, r)
  <2>1. UNCHANGED <<call, writes, queue, worker>>
    BY <1>10 DEF Boot, Shutdown, vars, ContainerDies, ProgramEnds, ProgramWrites,
                 workerVars, callVars
  <2> QED  BY <1>n, <2>1
<1> QED  BY <1>1, <1>2, <1>3, <1>4, <1>5, <1>6, <1>7, <1>8, <1>9, <1>10
         DEF Next, WorkerStep

-----------------------------------------------------------------------------
(* The invariant that carries the theorems.                                *)
IInv == TypeOK /\ Shape /\ BoxInv /\ CleanInv /\ ItemInv /\ PrimedInv

(* The first state satisfies the invariant.                                *)
LEMMA InitInv == Init => IInv
<1> SUFFICES ASSUME Init PROVE IInv
  OBVIOUS
<1>1. TypeOK
  BY InitType
<1>2. /\ \A w \in Workers : /\ worker[w] = NewWorker /\ worker[w].box = 0
                             /\ worker[w].item = NoRequest /\ worker[w].pc = "acquiring"
      /\ \A b \in Boxes : box[b] = NoBox /\ box[b].state = "absent"
      /\ leaked = {} /\ ~booted
  BY DEF Init, NewWorker, NoBox
<1>3. Shape
  BY <1>2 DEF Shape, Unboxed, Busy, Executing
<1>4. BoxInv
  BY <1>2 DEF BoxInv, ContainersAccounted, Exists
<1>5. CleanInv
  BY <1>2 DEF CleanInv, WorkerClean
<1>6. ItemInv
  <2>1. CallInv
    BY DEF Init, CallInv
  <2>2. HeldInv
    BY <1>2 DEF HeldInv
  <2>3. QueueInv
    <3>1. \A l \in Langs : Len(queue[l]) = 0
      BY DEF Init
    <3>2. \A l \in Langs : \A i \in 1..Len(queue[l]) : FALSE
      BY <3>1
    <3> QED  BY <3>2 DEF QueueInv
  <2> QED  BY <2>1, <2>2, <2>3 DEF ItemInv
<1>7. PrimedInv
  <2>1. Counting = {} /\ Primed = {} /\ primedCount = 0 /\ ~ready
    BY <1>2 DEF Init, Counting, Primed
  <2> QED  BY <2>1, FS_EmptySet DEF PrimedInv
<1> QED  BY <1>1, <1>3, <1>4, <1>5, <1>6, <1>7 DEF IInv

(* Every step of the pool, of a caller, of the daemon and of the programs  *)
(* in the containers keeps the invariant.                                  *)
THEOREM PoolInductive == Spec => []IInv
<1>1. IInv /\ [Next]_vars => IInv'
  BY NextType, NextShape, NextBoxes, NextClean, NextItems, NextPrimed DEF IInv
<1> QED  BY <1>1, InitInv, PTL DEF Spec

(* Types, and a queue never exceeds size * queueMultiplier.                *)
THEOREM PoolTypeCorrect == Spec => []TypeOK
<1>1. IInv => TypeOK
  BY DEF IInv
<1> QED  BY <1>1, PoolInductive, PTL

(* Every container has one owner, or a call to the daemon about it failed, *)
(* or it waits for the next start: no failing creation or removal, dying   *)
(* container or restart leaves one behind that the code itself forgot, and *)
(* none is shared.                                                         *)
THEOREM PoolContainersAccounted == Spec => []ContainersAccounted
<1>1. IInv => ContainersAccounted
  BY DEF IInv, BoxInv
<1> QED  BY <1>1, PoolInductive, PTL

(* The containers of the daemon: however long the service runs and however *)
(* often workers replace theirs, there are never more than one for each    *)
(* worker, and one more for each worker with every outage, dying container *)
(* or crash.                                                               *)
Existing == {b \in Boxes : Exists(b)}

ContainersBounded ==
    Cardinality(Existing) <= Cardinality(Workers) * (faults + 1)

(* What a running process has lost, or a crashed one has left.             *)
Lost == IF booted THEN leaked ELSE Existing

LostInv == Cardinality(Lost) <= Cardinality(Workers) * faults

(* Two finite sets have no more elements together than one by one.         *)
LEMMA UnionBounded ==
    ASSUME NEW S, NEW T, NEW R, IsFiniteSet(S), IsFiniteSet(T), R \subseteq S \cup T
    PROVE  /\ Cardinality(R) <= Cardinality(S \cup T)
           /\ Cardinality(S \cup T) <= Cardinality(S) + Cardinality(T)
<1>1. /\ IsFiniteSet(S \cup T)
      /\ Cardinality(S \cup T) = Cardinality(S) + Cardinality(T) - Cardinality(S \cap T)
  BY FS_Union
<1>2. IsFiniteSet(S \cap T)
  BY FS_Intersection
<1>3. Cardinality(S) \in Nat /\ Cardinality(T) \in Nat /\ Cardinality(S \cap T) \in Nat
  BY <1>2, FS_CardinalityType
<1>4. Cardinality(S \cup T) <= Cardinality(S) + Cardinality(T)
  BY <1>1, <1>3
<1>5. Cardinality(R) <= Cardinality(S \cup T)
  BY <1>1, FS_Subset
<1> QED  BY <1>4, <1>5

(* The places for containers are finitely many.                            *)
LEMMA FiniteBoxes ==
    ASSUME TypeOK
    PROVE  /\ leaked \subseteq Boxes /\ Existing \subseteq Boxes
           /\ IsFiniteSet(leaked) /\ IsFiniteSet(Existing)
           /\ Cardinality(leaked) \in Nat /\ Cardinality(Existing) \in Nat
<1>1. IsFiniteSet(Boxes)
  <2>1. 1 \in Int /\ MaxContainers \in Int
    BY MaxContainersAssumption
  <2> QED  BY <2>1, FS_Interval DEF Boxes
<1>2. leaked \subseteq Boxes /\ Existing \subseteq Boxes
  BY DEF TypeOK, Existing
<1>3. IsFiniteSet(leaked) /\ IsFiniteSet(Existing)
  BY <1>1, <1>2, FS_Subset
<1> QED  BY <1>2, <1>3, FS_CardinalityType

(* Those that have an owner are as many as there are workers.              *)
LEMMA OwnedBounded ==
    ASSUME IsFiniteSet(Workers), TypeOK, BoxInv, booted
    PROVE  Cardinality(Existing) <= Cardinality(leaked) + Cardinality(Workers)
<1> DEFINE Warm == Existing \ leaked
<1>1. \A b \in Warm : \E w \in Workers : worker[w].box = b
  BY DEF Existing, BoxInv, ContainersAccounted
<1> DEFINE owner == [b \in Warm |-> CHOOSE w \in Workers : worker[w].box = b]
<1>2. \A b \in Warm : owner[b] \in Workers /\ worker[owner[b]].box = b
  BY <1>1
<1>3. owner \in [Warm -> Workers]
  BY <1>2
<1> HIDE DEF owner
<1>4. \A a, b \in Warm : owner[a] = owner[b] => a = b
  BY <1>2
<1>5. owner \in Injection(Warm, Workers)
  BY <1>3, <1>4 DEF Injection, IsInjective
<1>6. Cardinality(Warm) <= Cardinality(Workers)
  BY <1>5, FS_Injection
<1>7. IsFiniteSet(Warm) /\ IsFiniteSet(leaked) /\ Existing \subseteq Warm \cup leaked
  BY FiniteBoxes, FS_Subset
<1> HIDE DEF Warm
<1>8. /\ Cardinality(Existing) <= Cardinality(Warm \cup leaked)
      /\ Cardinality(Warm \cup leaked) <= Cardinality(Warm) + Cardinality(leaked)
  BY <1>7, UnionBounded
<1>9. /\ Cardinality(Warm) \in Nat /\ Cardinality(leaked) \in Nat
      /\ Cardinality(Workers) \in Nat
      /\ Cardinality(Warm \cup leaked) \in Nat /\ Cardinality(Existing) \in Nat
  <2>1. IsFiniteSet(Existing) /\ IsFiniteSet(Warm \cup leaked)
    BY <1>7, FS_Union, FS_Subset
  <2> QED  BY <1>7, <2>1, FS_CardinalityType
<1> QED  BY <1>6, <1>8, <1>9

(* One fault loses at most a container of each worker.                     *)
LEMMA LostSteps ==
    ASSUME TypeOK, Shape, BoxInv, [Next]_vars, IsFiniteSet(Workers), LostInv
    PROVE  LostInv'
<1> DEFINE W == Cardinality(Workers)
<1>0. /\ leaked \subseteq Boxes /\ IsFiniteSet(leaked)
      /\ Existing \subseteq Boxes /\ IsFiniteSet(Existing)
      /\ W \in Nat /\ faults \in Nat /\ Cardinality(Workers) * faults \in Nat
      /\ Cardinality(leaked) \in Nat /\ Cardinality(Existing) \in Nat
  <2>1. W \in Nat /\ faults \in Nat
    BY FS_CardinalityType, TypeOKParts
  <2> HIDE DEF W
  <2>2. W * faults \in Nat
    BY <2>1
  <2> QED  BY <2>1, <2>2, FiniteBoxes DEF W
<1>1. ASSUME faults' = faults + 1, Cardinality(Lost') <= Cardinality(Lost) + W,
             Cardinality(Lost') \in Nat
      PROVE  LostInv'
  <2>1. Cardinality(Lost) \in Nat /\ Cardinality(Lost) <= W * faults
    BY <1>0 DEF Lost, LostInv
  <2> HIDE DEF W
  <2>2. W * (faults + 1) = W * faults + W
    BY <1>0
  <2>3. Cardinality(Lost') <= W * (faults + 1)
    BY <1>0, <1>1, <2>1, <2>2
  <2> QED  BY <1>1, <2>3 DEF LostInv, W
<1>2. ASSUME UNCHANGED faults, Lost' \subseteq Lost PROVE LostInv'
  <2>1. IsFiniteSet(Lost)
    BY <1>0 DEF Lost
  <2>2. Cardinality(Lost') <= Cardinality(Lost) /\ Cardinality(Lost') \in Nat
        /\ Cardinality(Lost) \in Nat
    BY <1>2, <2>1, FS_Subset, FS_CardinalityType
  <2>3. Cardinality(Lost) <= W * faults
    BY DEF LostInv
  <2> HIDE DEF W
  <2>4. Cardinality(Lost') <= W * faults
    BY <1>0, <2>2, <2>3
  <2> QED  BY <1>2, <2>4 DEF LostInv, W
<1>3. ASSUME NEW w \in Workers, NEW b \in Boxes, booted, booted', faults' = faults + 1,
             leaked' = leaked \cup {b}
      PROVE  LostInv'
  <2>1. W >= 1
    <3>1. W # 0
      BY FS_EmptySet
    <3> QED  BY <1>0, <3>1
  <2>2. Cardinality(leaked \cup {b}) <= Cardinality(leaked) + 1
        /\ Cardinality(leaked \cup {b}) \in Nat
    <3>1. IsFiniteSet({b}) /\ Cardinality({b}) = 1
      BY FS_Singleton
    <3>2. IsFiniteSet(leaked \cup {b})
      BY <1>0, <3>1, FS_Union
    <3> QED  BY <1>0, <3>1, <3>2, UnionBounded, FS_CardinalityType
  <2>3. Lost = leaked /\ Lost' = leaked \cup {b}
    BY <1>3 DEF Lost
  <2> HIDE DEF W
  <2> QED  BY <1>0, <1>1, <1>3, <2>1, <2>2, <2>3
<1>4. ASSUME UNCHANGED <<booted, leaked, faults>>, ~booted => UNCHANGED box
      PROVE  LostInv'
  <2>1. Lost' = Lost
    <3>1. CASE booted
      BY <1>4, <3>1 DEF Lost
    <3>2. CASE ~booted
      BY <1>4, <3>2 DEF Lost, Existing, Exists
    <3> QED  BY <3>1, <3>2
  <2> QED  BY <1>2, <1>4, <2>1
<1>5. CASE Boot
  <2>1. ~booted /\ booted' /\ Lost = Existing /\ Lost' = leaked'
    BY <1>5 DEF Boot, Lost
  <2>2. leaked' \subseteq Existing
    BY <1>5 DEF Boot, Existing
  <2>3. Cardinality(leaked') <= Cardinality(Existing) /\ Cardinality(leaked') \in Nat
    <3>1. IsFiniteSet(leaked')
      BY <1>0, <2>2, FS_Subset
    <3> QED  BY <1>0, <2>2, <3>1, FS_Subset, FS_CardinalityType
  <2>4. UNCHANGED faults \/ faults' = faults + 1
    BY <1>5 DEF Boot, Fault, NoFault
  <2> HIDE DEF W
  <2>5. Cardinality(Lost') <= Cardinality(Lost) + W
    BY <1>0, <2>1, <2>3
  <2> QED  BY <1>1, <1>2, <2>1, <2>2, <2>3, <2>4, <2>5
<1>6. CASE Restart
  <2>1. ~booted' /\ faults' = faults + 1 /\ UNCHANGED <<box, leaked>>
    BY <1>6 DEF Restart, Fault, boxVars
  <2>2. Lost' = Existing
    BY <2>1 DEF Lost, Existing, Exists
  <2>3. Cardinality(Existing) <= Cardinality(Lost) + W
    <3>1. CASE booted
      BY <3>1, OwnedBounded DEF Lost
    <3>2. CASE ~booted
      <4>1. Lost = Existing
        BY <3>2 DEF Lost
      <4> HIDE DEF W
      <4> QED  BY <1>0, <4>1
    <3> QED  BY <3>1, <3>2
  <2> HIDE DEF W
  <2> QED  BY <1>0, <1>1, <2>1, <2>2, <2>3
<1>7. ASSUME NEW w \in Workers, worker[w].pc # "acquiring" PROVE booted
  BY <1>7 DEF BoxInv, NewWorker, TypeOK
<1>8. ASSUME NEW w \in Workers, CreateFails(w) PROVE LostInv'
  <2>1. booted /\ booted' /\ faults' = faults + 1
    BY <1>8 DEF CreateFails, Fault
  <2>2. CASE UNCHANGED boxVars
    <3>1. Lost' = Lost /\ IsFiniteSet(Lost) /\ Cardinality(Lost) \in Nat
      BY <1>0, <2>1, <2>2 DEF Lost, boxVars
    <3> HIDE DEF W
    <3>2. Cardinality(Lost') <= Cardinality(Lost) + W
      BY <1>0, <3>1
    <3> QED  BY <1>1, <2>1, <3>1, <3>2
  <2>3. CASE ~UNCHANGED boxVars
    <3>1. PICK b \in Boxes : leaked' = leaked \cup {b}
      BY <1>8, <2>3 DEF CreateFails
    <3> QED  BY <1>3, <2>1, <3>1
  <2> QED  BY <2>2, <2>3
<1>9. ASSUME NEW w \in Workers, Replace(w) \/ Stop(w) PROVE LostInv'
  <2>1. booted /\ booted'
    BY <1>7, <1>9 DEF Replace, Stop
  <2>2. worker[w].box \in Boxes
    <3>1. worker[w].pc \notin Unboxed
      BY <1>9 DEF Replace, Stop, Unboxed
    <3>2. worker[w].box # 0 /\ worker[w].box \in 0..MaxContainers
      BY <3>1 DEF Shape, TypeOK
    <3> QED  BY <3>2, MaxContainersAssumption DEF Boxes
  <2>3. \/ UNCHANGED <<leaked, faults>>
        \/ faults' = faults + 1 /\ leaked' = leaked \cup {worker[w].box}
    BY <1>9 DEF Replace, Stop, CleanupContainer, Fault, NoFault
  <2>4. UNCHANGED <<leaked, faults>> => Lost' \subseteq Lost
    BY <2>1 DEF Lost
  <2> QED  BY <1>2, <1>3, <2>1, <2>2, <2>3, <2>4
<1>10. ASSUME UNCHANGED <<booted, leaked>>, NoFault \/ Fault,
              ~booted => \A c \in Boxes : box'[c].state = box[c].state
       PROVE  LostInv'
  <2>1. Lost' = Lost
    BY <1>10 DEF Lost, Existing, Exists
  <2>2. IsFiniteSet(Lost) /\ Cardinality(Lost) \in Nat
    BY <1>0 DEF Lost
  <2>3. UNCHANGED faults \/ faults' = faults + 1
    BY <1>10 DEF Fault, NoFault
  <2> HIDE DEF W
  <2>4. Cardinality(Lost') <= Cardinality(Lost) + W
    BY <1>0, <2>1, <2>2
  <2> QED  BY <1>1, <1>2, <2>1, <2>2, <2>3, <2>4
<1>11. ASSUME NEW w \in Workers,
              \/ CreateContainer(w) \/ Retry(w) \/ Notify(w) \/ CountPrimed(w) \/ Take(w)
              \/ Copy(w) \/ StartExec(w) \/ Await(w) \/ Reply(w) \/ Clean(w)
              \/ BeginDrain(w) \/ Drain(w)
       PROVE  LostInv'
  <2>1. booted
    BY <1>7, <1>11 DEF CreateContainer, Retry, Notify, CountPrimed, Take, Copy, StartExec,
       Await, Reply, Clean, BeginDrain, Drain
  <2>2. UNCHANGED <<booted, leaked>> /\ (NoFault \/ Fault)
    <3>1. Copy(w) \/ StartExec(w) \/ Await(w) \/ Clean(w)
            => UNCHANGED <<booted, leaked>> /\ (NoFault \/ Fault)
      BY WorkFrame
    <3>2. CreateContainer(w) \/ Retry(w) \/ Notify(w) \/ CountPrimed(w)
            => UNCHANGED <<booted, leaked, faults>>
      BY DEF CreateContainer, Retry, Notify, CountPrimed, boxVars
    <3>3. Take(w) \/ Reply(w) \/ BeginDrain(w) \/ Drain(w)
            => UNCHANGED <<booted, leaked, faults>>
      BY DEF Take, Reply, BeginDrain, Drain, boxVars
    <3> QED  BY <1>11, <3>1, <3>2, <3>3 DEF NoFault
  <2> QED  BY <1>10, <2>1, <2>2
<1>12. CASE \/ Shutdown \/ UNCHANGED vars
            \/ \E r \in Requests : Check(r) \/ Enqueue(r) \/ Receive(r) \/ ContextDone(r)
  <2>1. UNCHANGED <<booted, leaked, box>> /\ NoFault
    BY <1>12 DEF Shutdown, vars, Check, Enqueue, Receive, ContextDone, boxVars, NoFault
  <2> QED  BY <1>10, <2>1
<1>13. CASE \/ \E b \in Boxes : ContainerDies(b)
            \/ \E b \in Boxes, r \in Requests : ProgramEnds(b, r) \/ ProgramWrites(b, r)
  <2>0. box \in [Boxes -> BoxType]
    BY TypeOKParts
  <2>1. UNCHANGED <<booted, leaked>> /\ (NoFault \/ Fault)
    BY <1>13 DEF ContainerDies, ProgramEnds, ProgramWrites, NoFault
  <2>2. \A c \in Boxes : box'[c].state # "absent" <=> box[c].state # "absent"
    <3>1. ASSUME NEW b \in Boxes, ContainerDies(b)
          PROVE  \A c \in Boxes : box'[c].state # "absent" <=> box[c].state # "absent"
      BY <2>0, <3>1 DEF ContainerDies, BoxType
    <3>2. ASSUME NEW b \in Boxes, NEW r \in Requests, ProgramEnds(b, r)
          PROVE  \A c \in Boxes : box'[c].state # "absent" <=> box[c].state # "absent"
      BY <2>0, <3>2 DEF ProgramEnds, BoxType
    <3>3. ASSUME NEW b \in Boxes, NEW r \in Requests, ProgramWrites(b, r)
          PROVE  \A c \in Boxes : box'[c].state # "absent" <=> box[c].state # "absent"
      BY <2>0, <3>3 DEF ProgramWrites, BoxType
    <3> QED  BY <1>13, <3>1, <3>2, <3>3
  <2>3. Lost' = Lost
    BY <2>1, <2>2 DEF Lost, Existing, Exists
  <2>4. IsFiniteSet(Lost) /\ Cardinality(Lost) \in Nat
    BY <1>0 DEF Lost
  <2>5. UNCHANGED faults \/ faults' = faults + 1
    BY <2>1 DEF Fault, NoFault
  <2> HIDE DEF W
  <2>6. Cardinality(Lost') <= Cardinality(Lost) + W
    BY <1>0, <2>3, <2>4
  <2> QED  BY <1>1, <1>2, <2>3, <2>4, <2>5, <2>6
<1> QED  BY <1>5, <1>6, <1>8, <1>9, <1>11, <1>12, <1>13 DEF Next, WorkerStep

THEOREM PoolContainersBounded ==
    ASSUME IsFiniteSet(Workers)
    PROVE  Spec => []ContainersBounded
<1>1. Init => LostInv
  <2> SUFFICES ASSUME Init PROVE LostInv
    OBVIOUS
  <2>1. Lost = {} /\ faults = 0
    BY DEF Init, Lost, Existing, Exists, NoBox
  <2>2. Cardinality(Workers) \in Nat
    BY FS_CardinalityType
  <2> QED  BY <2>1, <2>2, FS_EmptySet DEF LostInv
<1>2. IInv /\ LostInv /\ [Next]_vars => LostInv'
  BY LostSteps DEF IInv
<1>3. IInv /\ LostInv => ContainersBounded
  <2> SUFFICES ASSUME IInv, LostInv PROVE ContainersBounded
    OBVIOUS
  <2> DEFINE W == Cardinality(Workers)
  <2>1. W \in Nat /\ faults \in Nat /\ TypeOK /\ BoxInv
    BY FS_CardinalityType, TypeOKParts DEF IInv
  <2>2. Cardinality(Existing) \in Nat /\ Cardinality(leaked) \in Nat
    BY <2>1, FiniteBoxes
  <2>3. Cardinality(Existing) <= Cardinality(Lost) + W /\ Cardinality(Lost) \in Nat
    <3>1. CASE booted
      BY <2>1, <2>2, <3>1, OwnedBounded DEF Lost
    <3>2. CASE ~booted
      <4>1. Lost = Existing
        BY <3>2 DEF Lost
      <4> HIDE DEF W
      <4> QED  BY <2>1, <2>2, <4>1
    <3> QED  BY <3>1, <3>2
  <2>4. Cardinality(Lost) <= W * faults
    BY DEF LostInv
  <2> HIDE DEF W
  <2>5. W * faults \in Nat /\ W * (faults + 1) = W * faults + W
    BY <2>1
  <2>6. Cardinality(Existing) <= W * (faults + 1)
    BY <2>1, <2>2, <2>3, <2>4, <2>5
  <2> QED  BY <2>6 DEF ContainersBounded, W
<1> QED  BY <1>1, <1>2, <1>3, PoolInductive, PTL DEF Spec

(* A request executes where a deletion has run since the last one entered, *)
(* and beside its own files and program there is nothing but what requests *)
(* that were answered before left.                                         *)
THEOREM PoolCleanStart == Spec => []CleanStart
<1>1. IInv => CleanStart
  <2> SUFFICES ASSUME IInv, NEW w \in Workers, worker[w].pc \in Executing
               PROVE  LET b == box[worker[w].box] IN
                        /\ worker[w].pc = "copying" => ~b.used
                        /\ \A r \in (b.files \cup b.procs) \ {worker[w].item} : writes[r] > 0
    BY DEF CleanStart
  <2>1. worker[w].box # 0 /\ (worker[w].pc = "copying" => worker[w].pc \notin Used)
    BY DEF IInv, Shape, Unboxed, Executing, Used
  <2> QED  BY <2>1 DEF IInv, CleanInv, WorkerClean
<1> QED  BY <1>1, PoolInductive, PTL

(* "buffered(1); worker writes exactly once": no result channel is written *)
(* twice, by whichever workers execute and drain at the same time.         *)
THEOREM PoolAnsweredAtMostOnce == Spec => []AnsweredAtMostOnce
<1>1. IInv => AnsweredAtMostOnce
  BY DEF IInv, ItemInv, CallInv, AnsweredAtMostOnce
<1> QED  BY <1>1, PoolInductive, PTL

(* notifyPoolPrimed counts each language once, whichever of its workers    *)
(* race for it, so the pool is ready only when every language has had its  *)
(* first container.                                                        *)
THEOREM PoolReadyMeansPrimed == Spec => []ReadyMeansPrimed
<1>1. IInv => ReadyMeansPrimed
  BY DEF IInv, PrimedInv, Primed, ReadyMeansPrimed
<1> QED  BY <1>1, PoolInductive, PTL

=============================================================================
