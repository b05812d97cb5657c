--------------------------- MODULE ExecutionSlots ---------------------------
(***************************************************************************)
(* The concurrency slot of ExecutionService for one slotKey (a user and    *)
(* "submit" or "execute"): a channel of capacity one, kept in a sync.Map   *)
(* and created on demand, and the hourly sweep that drops idle entries.    *)
(*                                                                         *)
(* Every operation of a sync.Map or a channel is atomic; two of them in a  *)
(* row are not.  TryAcquireSlot is a LoadOrStore and then a non-blocking   *)
(* send, ReleaseSlot a Load and then a blocking receive, and the sweep     *)
(* reads the limiter, then the length of the channel, then deletes.        *)
(***************************************************************************)
EXTENDS Naturals, FiniteSets

CONSTANTS
    Requests,   \* goroutines that want the slot, each any number of times
    MaxChans,   \* bound on the channels ever made
    MaxSweeps   \* bound on the runs of runCleanup

ASSUME MaxChansAssumption == MaxChans \in Nat \ {0}
ASSUME MaxSweepsAssumption == MaxSweeps \in Nat

VARIABLES
    entry,    \* the channel the map holds for the key, or 0
    made,     \* number of channels made so far
    token,    \* token[c]: the buffer of channel c holds a value
    limiter,  \* the user's rate limiter: absent, or its bucket full or not
    pc,       \* where each request is
    ch,       \* the channel a request has loaded, or 0
    sweep,    \* where the sweep is
    swept,    \* the channel the sweep's Range passed to its callback
    sweeps    \* sweeps started so far

vars == <<entry, made, token, limiter, pc, ch, sweep, swept, sweeps>>

Chans == 1..MaxChans

(* A request between a successful TryAcquireSlot and its ReleaseSlot.      *)
Inside == {"admitted", "running"}

Init ==
    /\ entry = 0
    /\ made = 0
    /\ token = [c \in Chans |-> FALSE]
    /\ limiter = "absent"
    /\ pc = [r \in Requests |-> "idle"]
    /\ ch = [r \in Requests |-> 0]
    /\ sweep = "idle"
    /\ swept = 0
    /\ sweeps = 0

(* TryAcquireSlot, LoadOrStore: the entry, or a channel made for it.       *)
LoadOrStore(r) ==
    /\ pc[r] = "idle"
    /\ \/ /\ entry # 0
          /\ ch' = [ch EXCEPT ![r] = entry]
          /\ UNCHANGED <<entry, made>>
       \/ /\ entry = 0 /\ made < MaxChans
          /\ made' = made + 1
          /\ entry' = made'
          /\ ch' = [ch EXCEPT ![r] = made']
    /\ pc' = [pc EXCEPT ![r] = "loaded"]
    /\ UNCHANGED <<token, limiter, sweep, swept, sweeps>>

(* Mutant: the slot is taken whether or not its buffer has room.           *)
SendAlways(r) ==
    /\ pc[r] = "loaded"
    /\ token' = [token EXCEPT ![ch[r]] = TRUE]
    /\ pc' = [pc EXCEPT ![r] = "admitted"]
    /\ UNCHANGED <<entry, made, limiter, ch, sweep, swept, sweeps>>

(* Mutant: a full buffer is respected, but nothing is put in an empty one. *)
AdmitWithoutToken(r) ==
    /\ pc[r] = "loaded"
    /\ ~token[ch[r]]
    /\ pc' = [pc EXCEPT ![r] = "admitted"]
    /\ UNCHANGED <<entry, made, token, limiter, ch, sweep, swept, sweeps>>

(* TryAcquireSlot, the select: the buffer has room or the caller is told   *)
(* that an execution is in progress.                                       *)
TrySend(r) ==
    /\ pc[r] = "loaded"
    /\ IF token[ch[r]]
         THEN /\ pc' = [pc EXCEPT ![r] = "idle"]
              /\ ch' = [ch EXCEPT ![r] = 0]
              /\ UNCHANGED token
         ELSE /\ pc' = [pc EXCEPT ![r] = "admitted"]
              /\ token' = [token EXCEPT ![ch[r]] = TRUE]
              /\ UNCHANGED ch
    /\ UNCHANGED <<entry, made, limiter, sweep, swept, sweeps>>

(* CheckRateLimit: the limiter is made if absent; a token is taken from it *)
(* or, when it has none left, the request goes straight to ReleaseSlot.    *)
CheckRateLimit(r) ==
    /\ pc[r] = "admitted"
    /\ limiter' = "used"
    /\ \/ pc' = [pc EXCEPT ![r] = "running"]
       \/ limiter = "used" /\ pc' = [pc EXCEPT ![r] = "releasing"]
    /\ UNCHANGED <<entry, made, token, ch, sweep, swept, sweeps>>

(* The execution ends, whatever its outcome; ReleaseSlot is deferred.      *)
Finish(r) ==
    /\ pc[r] = "running"
    /\ pc' = [pc EXCEPT ![r] = "releasing"]
    /\ UNCHANGED <<entry, made, token, limiter, ch, sweep, swept, sweeps>>

(* ReleaseSlot, the Load: without an entry there is nothing to release.    *)
LoadToRelease(r) ==
    /\ pc[r] = "releasing"
    /\ ch' = [ch EXCEPT ![r] = entry]
    /\ pc' = [pc EXCEPT ![r] = IF entry = 0 THEN "idle" ELSE "draining"]
    /\ UNCHANGED <<entry, made, token, limiter, sweep, swept, sweeps>>

(* Mutant: the channel is loaded and never read.                           *)
DrainNothing(r) ==
    /\ pc[r] = "draining"
    /\ pc' = [pc EXCEPT ![r] = "idle"]
    /\ ch' = [ch EXCEPT ![r] = 0]
    /\ UNCHANGED <<entry, made, token, limiter, sweep, swept, sweeps>>

(* ReleaseSlot, the receive: it blocks while the buffer is empty.          *)
Drain(r) ==
    /\ pc[r] = "draining"
    /\ token[ch[r]]
    /\ token' = [token EXCEPT ![ch[r]] = FALSE]
    /\ pc' = [pc EXCEPT ![r] = "idle"]
    /\ ch' = [ch EXCEPT ![r] = 0]
    /\ UNCHANGED <<entry, made, limiter, sweep, swept, sweeps>>

(* The limiter is the user's, not the key's: a request of the other kind   *)
(* takes from it too.                                                      *)
CheckOfOtherKind ==
    /\ limiter' = "used"
    /\ UNCHANGED <<entry, made, token, pc, ch, sweep, swept, sweeps>>

(* Time refills the limiter's bucket.                                      *)
Refill ==
    /\ limiter = "used"
    /\ limiter' = "full"
    /\ UNCHANGED <<entry, made, token, pc, ch, sweep, swept, sweeps>>

-----------------------------------------------------------------------------
(* runCleanup.                                                             *)

(* The first Range deletes a limiter whose bucket is full.                 *)
SweepLimiters ==
    /\ sweep = "idle" /\ sweeps < MaxSweeps
    /\ sweeps' = sweeps + 1
    /\ limiter' = IF limiter = "full" THEN "absent" ELSE limiter
    /\ sweep' = "slots"
    /\ UNCHANGED <<entry, made, token, pc, ch, swept>>

(* The second Range visits the entry and looks for the user's limiter.     *)
SweepVisit ==
    /\ sweep = "slots"
    /\ swept' = entry
    /\ sweep' = IF entry # 0 /\ limiter = "absent" THEN "length" ELSE "idle"
    /\ UNCHANGED <<entry, made, token, limiter, pc, ch, sweeps>>

(* len(ch) == 0 ...                                                        *)
SweepLength ==
    /\ sweep = "length"
    /\ sweep' = IF token[swept] THEN "idle" ELSE "delete"
    /\ UNCHANGED <<entry, made, token, limiter, pc, ch, swept, sweeps>>

(* ... and then Delete(key), whatever the map holds by now.                *)
SweepDelete ==
    /\ sweep = "delete"
    /\ entry' = 0
    /\ sweep' = "idle"
    /\ swept' = 0
    /\ UNCHANGED <<made, token, limiter, pc, ch, sweeps>>

-----------------------------------------------------------------------------
RequestStep(r) ==
    \/ TrySend(r) \/ CheckRateLimit(r) \/ Finish(r)
    \/ LoadToRelease(r) \/ Drain(r)

Next ==
    \/ \E r \in Requests : LoadOrStore(r) \/ RequestStep(r)
    \/ CheckOfOtherKind \/ Refill
    \/ SweepLimiters \/ SweepVisit \/ SweepLength \/ SweepDelete

(* Once begun, a request runs: executions are bounded by their contexts.   *)
Spec == Init /\ [][Next]_vars /\ \A r \in Requests : WF_vars(RequestStep(r))

-----------------------------------------------------------------------------
(* Types; and a request sends to and receives from a channel that exists.  *)
TypeOK ==
    /\ entry \in 0..made
    /\ made \in 0..MaxChans
    /\ token \in [Chans -> BOOLEAN]
    /\ limiter \in {"absent", "full", "used"}
    /\ pc \in [Requests -> {"idle", "loaded", "releasing", "draining"} \cup Inside]
    /\ ch \in [Requests -> 0..made]
    /\ \A r \in Requests : pc[r] \in {"loaded", "draining"} => ch[r] # 0
    /\ sweep \in {"idle", "slots", "length", "delete"}
    /\ swept \in 0..made
    /\ sweeps \in 0..MaxSweeps

(* ReleaseSlot blocks when the channel it finds is empty, which would keep *)
(* the goroutine, its context and its answer: as long as no sweep has run, *)
(* every release ends.                                                     *)
ReleaseEnds == \A r \in Requests :
    pc[r] = "draining" ~> (pc[r] # "draining" \/ sweeps > 0)

(* No lock-out: a value in the registered channel belongs to a request     *)
(* that is still inside or on its way out, so the slot is not taken by     *)
(* nobody.                                                                 *)
NoOrphanToken ==
    (entry # 0 /\ token[entry]) =>
        \E r \in Requests : pc[r] \in Inside \cup {"releasing", "draining"}

(* The slot is a mutex until the first sweep, and each sweep lets at most  *)
(* one more request in beside those that are inside.                       *)
OverlapBounded ==
    Cardinality({r \in Requests : pc[r] \in Inside}) <= sweeps + 1

=============================================================================
