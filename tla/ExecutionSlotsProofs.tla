------------------------ MODULE ExecutionSlotsProofs ------------------------
(* Theorems about module ExecutionSlots, for every set of requests, finite *)
(* or not, and every bound on channels and sweeps.                         *)
EXTENDS ExecutionSlots, FiniteSetTheorems, TLAPS

(* The requests that hold the slot or still have to give it back.          *)
Holders == {r \in Requests : pc[r] \in Inside \cup {"releasing", "draining"}}

(* The channels whose buffer is taken.                                     *)
Taken == {c \in Chans : token[c]}

(* A channel that was not made yet is empty.                               *)
UnmadeEmpty == \A c \in Chans : c > made => ~token[c]

(* Every channel but the first needs a sweep that deleted its predecessor. *)
(* The sweep that is under way has not deleted anything yet, and a missing *)
(* entry is one that has not been made up for.                             *)
ChannelsPaidFor ==
    made + (IF entry = 0 THEN 1 ELSE 0) + (IF sweep = "idle" THEN 0 ELSE 1)
        <= sweeps + 1

(* Every holder has put a value into a channel that nobody took out again, *)
(* not necessarily its own.                                                *)
HoldersHaveTokens ==
    IsFiniteSet(Holders) /\ Cardinality(Holders) <= Cardinality(Taken)

(* A value in the registered channel is one that somebody will take out of *)
(* that very channel: a request that has not loaded the channel to release *)
(* yet, or one that has loaded this one.                                   *)
EntryTokenOwned ==
    (entry # 0 /\ token[entry]) =>
        \E r \in Requests :
            \/ pc[r] \in Inside \cup {"releasing"}
            \/ pc[r] = "draining" /\ ch[r] = entry

(* The inductive invariant.                                                *)
IInv ==
    /\ TypeOK
    /\ UnmadeEmpty
    /\ ChannelsPaidFor
    /\ HoldersHaveTokens
    /\ EntryTokenOwned

-----------------------------------------------------------------------------
(* Types.                                                                  *)

(* The first state has its types.                                          *)
LEMMA InitType == Init => TypeOK
BY MaxChansAssumption, MaxSweepsAssumption DEF Init, TypeOK, Chans, Inside

(* A request goes on to another place, perhaps with another channel.       *)
LEMMA Moved ==
    ASSUME TypeOK, NEW r \in Requests,
           NEW p \in {"idle", "loaded", "releasing", "draining"} \cup Inside,
           NEW n \in 0..made, p \in {"loaded", "draining"} => n # 0,
           pc' = [pc EXCEPT ![r] = p], ch' = [ch EXCEPT ![r] = n],
           token' \in [Chans -> BOOLEAN], limiter' \in {"absent", "full", "used"},
           UNCHANGED <<entry, made, sweep, swept, sweeps>>
    PROVE  TypeOK'
<1>1. pc' \in [Requests -> {"idle", "loaded", "releasing", "draining"} \cup Inside]
  BY DEF TypeOK
<1>2. ch' \in [Requests -> 0..made]
  BY DEF TypeOK
<1>3. \A q \in Requests : pc'[q] \in {"loaded", "draining"} => ch'[q] # 0
  <2>1. \A q \in Requests : q # r => pc'[q] = pc[q] /\ ch'[q] = ch[q]
    BY DEF TypeOK
  <2>2. pc'[r] = p /\ ch'[r] = n
    BY DEF TypeOK
  <2> QED  BY <2>1, <2>2 DEF TypeOK
<1> QED  BY <1>1, <1>2, <1>3 DEF TypeOK

(* Every step keeps the types.                                             *)
LEMMA NextType == TypeOK /\ [Next]_vars => TypeOK'
<1> SUFFICES ASSUME TypeOK, [Next]_vars PROVE TypeOK'
  OBVIOUS
<1> USE MaxChansAssumption, MaxSweepsAssumption DEF TypeOK, Chans, Inside
<1>1. ASSUME NEW r \in Requests, LoadOrStore(r) PROVE TypeOK'
  <2>1. CASE entry # 0
    BY <1>1, <2>1 DEF LoadOrStore
  <2>2. CASE entry = 0
    <3>1. made' = made + 1 /\ entry' = made + 1
          /\ ch' = [ch EXCEPT ![r] = made + 1]
      BY <1>1, <2>2 DEF LoadOrStore
    <3>2. made < MaxChans /\ made' \in 0..MaxChans /\ entry' \in 0..made'
      BY <1>1, <2>2, <3>1 DEF LoadOrStore
    <3>3. ch' \in [Requests -> 0..made'] /\ swept' \in 0..made'
      BY <1>1, <3>1, <3>2 DEF LoadOrStore
    <3>4. /\ pc' \in [Requests -> {"idle", "loaded", "releasing", "draining"} \cup Inside]
          /\ \A q \in Requests : pc'[q] \in {"loaded", "draining"} => ch'[q] # 0
      <4>1. pc' = [pc EXCEPT ![r] = "loaded"]
        BY <1>1 DEF LoadOrStore
      <4>2. made + 1 # 0
        OBVIOUS
      <4> QED  BY <3>1, <4>1, <4>2
    <3> QED  BY <1>1, <3>2, <3>3, <3>4 DEF LoadOrStore
  <2> QED  BY <2>1, <2>2
<1>2. ASSUME NEW r \in Requests, TrySend(r) PROVE TypeOK'
  <2>1. ch[r] \in 0..made /\ ch[r] \in Chans /\ ch = [ch EXCEPT ![r] = ch[r]]
    BY <1>2 DEF TrySend
  <2>2. token' \in [Chans -> BOOLEAN]
    <3>1. token' = token \/ token' = [token EXCEPT ![ch[r]] = TRUE]
      BY <1>2 DEF TrySend
    <3> QED  BY <3>1
  <2>3. limiter' \in {"absent", "full", "used"} /\ UNCHANGED <<entry, made, sweep, swept, sweeps>>
    BY <1>2 DEF TrySend
  <2>4. \/ pc' = [pc EXCEPT ![r] = "idle"] /\ ch' = [ch EXCEPT ![r] = 0]
        \/ pc' = [pc EXCEPT ![r] = "admitted"] /\ ch' = [ch EXCEPT ![r] = ch[r]]
    BY <1>2, <2>1 DEF TrySend
  <2>5. 0 \in 0..made
    OBVIOUS
  <2> QED  BY <2>1, <2>2, <2>3, <2>4, <2>5, Moved
<1>3. ASSUME NEW r \in Requests, CheckRateLimit(r) \/ Finish(r) PROVE TypeOK'
  <2>1. ch[r] \in 0..made /\ ch' = [ch EXCEPT ![r] = ch[r]]
    BY <1>3 DEF CheckRateLimit, Finish
  <2>2. /\ token' \in [Chans -> BOOLEAN] /\ limiter' \in {"absent", "full", "used"}
        /\ UNCHANGED <<entry, made, sweep, swept, sweeps>>
    BY <1>3 DEF CheckRateLimit, Finish
  <2>3. \/ pc' = [pc EXCEPT ![r] = "running"]
        \/ pc' = [pc EXCEPT ![r] = "releasing"]
    BY <1>3 DEF CheckRateLimit, Finish
  <2> QED  BY <2>1, <2>2, <2>3, Moved
<1>4. ASSUME NEW r \in Requests, LoadToRelease(r) PROVE TypeOK'
  <2> DEFINE p == IF entry = 0 THEN "idle" ELSE "draining"
  <2>1. /\ pc' = [pc EXCEPT ![r] = p] /\ ch' = [ch EXCEPT ![r] = entry]
        /\ p \in {"idle", "draining"} /\ (p = "draining" => entry # 0)
    BY <1>4 DEF LoadToRelease
  <2>2. /\ token' \in [Chans -> BOOLEAN] /\ limiter' \in {"absent", "full", "used"}
        /\ UNCHANGED <<entry, made, sweep, swept, sweeps>> /\ entry \in 0..made
    BY <1>4 DEF LoadToRelease
  <2> HIDE DEF p
  <2> QED  BY <2>1, <2>2, Moved
<1>5. ASSUME NEW r \in Requests, Drain(r) PROVE TypeOK'
  <2>1. /\ pc' = [pc EXCEPT ![r] = "idle"] /\ ch' = [ch EXCEPT ![r] = 0]
        /\ token' = [token EXCEPT ![ch[r]] = FALSE]
        /\ UNCHANGED <<entry, made, limiter, sweep, swept, sweeps>>
    BY <1>5 DEF Drain
  <2>2. token' \in [Chans -> BOOLEAN]
    BY <2>1
  <2>3. limiter' \in {"absent", "full", "used"}
    BY <2>1
  <2>4. 0 \in 0..made
    OBVIOUS
  <2> QED  BY <2>1, <2>2, <2>3, <2>4, Moved
<1>6. CASE CheckOfOtherKind \/ Refill
  BY <1>6 DEF CheckOfOtherKind, Refill
<1>7. CASE SweepLimiters
  BY <1>7 DEF SweepLimiters
<1>8. CASE SweepVisit \/ SweepLength \/ SweepDelete
  BY <1>8 DEF SweepVisit, SweepLength, SweepDelete
<1>9. CASE UNCHANGED vars
  BY <1>9 DEF vars
<1> QED  BY <1>1, <1>2, <1>3, <1>4, <1>5, <1>6, <1>7, <1>8, <1>9
        DEF Next, RequestStep

-----------------------------------------------------------------------------
(* Channels: what is not made is empty, and making one is paid for.        *)

(* Every step keeps the channels paid for: one to begin with and one for   *)
(* each sweep.                                                             *)
LEMMA NextChannels ==
    TypeOK /\ UnmadeEmpty /\ ChannelsPaidFor /\ [Next]_vars
        => UnmadeEmpty' /\ ChannelsPaidFor'
<1> SUFFICES ASSUME TypeOK, UnmadeEmpty, ChannelsPaidFor, [Next]_vars
             PROVE  UnmadeEmpty' /\ ChannelsPaidFor'
  OBVIOUS
<1> USE MaxChansAssumption DEF TypeOK, Chans, UnmadeEmpty, ChannelsPaidFor
<1>1. ASSUME NEW r \in Requests, LoadOrStore(r)
      PROVE  UnmadeEmpty' /\ ChannelsPaidFor'
  BY <1>1 DEF LoadOrStore
<1>2. ASSUME NEW r \in Requests, RequestStep(r)
      PROVE  UnmadeEmpty' /\ ChannelsPaidFor'
  <2>1. CASE TrySend(r)
    BY <2>1 DEF TrySend
  <2>2. CASE CheckRateLimit(r) \/ Finish(r) \/ LoadToRelease(r)
    BY <2>2 DEF CheckRateLimit, Finish, LoadToRelease
  <2>3. CASE Drain(r)
    BY <2>3 DEF Drain
  <2> QED  BY <1>2, <2>1, <2>2, <2>3 DEF RequestStep
<1>3. CASE CheckOfOtherKind \/ Refill
  BY <1>3 DEF CheckOfOtherKind, Refill
<1>4. CASE SweepLimiters
  BY <1>4 DEF SweepLimiters
<1>5. CASE SweepVisit \/ SweepLength
  BY <1>5 DEF SweepVisit, SweepLength
<1>6. CASE SweepDelete
  BY <1>6 DEF SweepDelete
<1>7. CASE UNCHANGED vars
  BY <1>7 DEF vars
<1> QED  BY <1>1, <1>2, <1>3, <1>4, <1>5, <1>6, <1>7 DEF Next

-----------------------------------------------------------------------------
(* Holders and values: a send adds one of each, a receive removes one of   *)
(* each, and a release that finds no entry only removes a holder.          *)

(* Only finitely many channels hold a token.                               *)
LEMMA TakenFinite == IsFiniteSet(Taken) /\ Cardinality(Taken) \in Nat
<1>1. IsFiniteSet(Chans) /\ Taken \in SUBSET Chans
  BY MaxChansAssumption, FS_Interval DEF Chans, Taken
<1> QED  BY <1>1, FS_Subset, FS_CardinalityType

(* A step after which the same requests hold and the same buffers are full. *)
LEMMA SameHolders ==
    ASSUME HoldersHaveTokens, Holders' = Holders, Taken' = Taken
    PROVE  HoldersHaveTokens'
BY DEF HoldersHaveTokens

(* Every step keeps a token in the channel of each holder.                 *)
LEMMA NextHolders == TypeOK /\ HoldersHaveTokens /\ [Next]_vars => HoldersHaveTokens'
<1> SUFFICES ASSUME TypeOK, HoldersHaveTokens, [Next]_vars
             PROVE  HoldersHaveTokens'
  OBVIOUS
<1>0. /\ IsFiniteSet(Holders) /\ IsFiniteSet(Taken)
      /\ Cardinality(Holders) \in Nat /\ Cardinality(Taken) \in Nat
      /\ Cardinality(Holders) <= Cardinality(Taken)
  BY TakenFinite, FS_CardinalityType DEF HoldersHaveTokens
<1>1. ASSUME NEW r \in Requests, LoadOrStore(r) PROVE HoldersHaveTokens'
  <2>1. Holders' = Holders /\ Taken' = Taken
    BY <1>1 DEF LoadOrStore, TypeOK, Holders, Taken, Inside
  <2> QED  BY <2>1, SameHolders
<1>2. ASSUME NEW r \in Requests, TrySend(r) PROVE HoldersHaveTokens'
  <2>1. CASE token[ch[r]]
    <3>1. Holders' = Holders /\ Taken' = Taken
      BY <1>2, <2>1 DEF TrySend, TypeOK, Holders, Taken, Inside
    <3> QED  BY <3>1, SameHolders
  <2>2. CASE ~token[ch[r]]
    <3>1. ch[r] \in Chans /\ r \notin Holders /\ ch[r] \notin Taken
      BY <1>2, <2>2, MaxChansAssumption
         DEF TrySend, TypeOK, Holders, Taken, Inside, Chans
    <3>2. Holders' = Holders \cup {r} /\ Taken' = Taken \cup {ch[r]}
      BY <1>2, <2>2, <3>1 DEF TrySend, TypeOK, Holders, Taken, Inside
    <3>3. /\ IsFiniteSet(Holders')
          /\ Cardinality(Holders') = Cardinality(Holders) + 1
          /\ Cardinality(Taken') = Cardinality(Taken) + 1
      BY <1>0, <3>1, <3>2, FS_AddElement
    <3> QED  BY <1>0, <3>3 DEF HoldersHaveTokens
  <2> QED  BY <2>1, <2>2
<1>3. ASSUME NEW r \in Requests, CheckRateLimit(r) \/ Finish(r)
      PROVE  HoldersHaveTokens'
  <2>1. Holders' = Holders /\ Taken' = Taken
    BY <1>3 DEF CheckRateLimit, Finish, TypeOK, Holders, Taken, Inside
  <2> QED  BY <2>1, SameHolders
<1>4. ASSUME NEW r \in Requests, LoadToRelease(r) PROVE HoldersHaveTokens'
  <2>1. Holders' \in SUBSET Holders /\ Taken' = Taken
    BY <1>4 DEF LoadToRelease, TypeOK, Holders, Taken, Inside
  <2>2. /\ IsFiniteSet(Holders') /\ Cardinality(Holders') \in Nat
        /\ Cardinality(Holders') <= Cardinality(Holders)
    BY <1>0, <2>1, FS_Subset, FS_CardinalityType
  <2> QED  BY <1>0, <2>1, <2>2 DEF HoldersHaveTokens
<1>5. ASSUME NEW r \in Requests, Drain(r) PROVE HoldersHaveTokens'
  <2>1. ch[r] \in Chans /\ r \in Holders /\ ch[r] \in Taken
    BY <1>5, MaxChansAssumption DEF Drain, TypeOK, Holders, Taken, Inside, Chans
  <2>2. Holders' = Holders \ {r} /\ Taken' = Taken \ {ch[r]}
    BY <1>5, <2>1 DEF Drain, TypeOK, Holders, Taken, Inside
  <2>3. /\ IsFiniteSet(Holders')
        /\ Cardinality(Holders') = Cardinality(Holders) - 1
        /\ Cardinality(Taken') = Cardinality(Taken) - 1
    BY <1>0, <2>1, <2>2, FS_RemoveElement
  <2> QED  BY <1>0, <2>3 DEF HoldersHaveTokens
<1>6. ASSUME UNCHANGED <<pc, token>> PROVE HoldersHaveTokens'
  BY <1>6, SameHolders DEF Holders, Taken
<1>7. CASE \/ CheckOfOtherKind \/ Refill \/ SweepLimiters \/ SweepVisit
           \/ SweepLength \/ SweepDelete \/ UNCHANGED vars
  BY <1>6, <1>7 DEF CheckOfOtherKind, Refill, SweepLimiters, SweepVisit,
                    SweepLength, SweepDelete, vars
<1> QED  BY <1>1, <1>2, <1>3, <1>4, <1>5, <1>7 DEF Next, RequestStep

-----------------------------------------------------------------------------
(* The value in the registered channel.                                    *)

(* Every step keeps the token of the current channel owned.                *)
LEMMA NextEntryToken ==
    TypeOK /\ UnmadeEmpty /\ EntryTokenOwned /\ [Next]_vars => EntryTokenOwned'
<1> SUFFICES ASSUME TypeOK, UnmadeEmpty, EntryTokenOwned, [Next]_vars,
                    entry' # 0, token'[entry']
             PROVE  \E r \in Requests :
                        \/ pc'[r] \in Inside \cup {"releasing"}
                        \/ pc'[r] = "draining" /\ ch'[r] = entry'
  BY DEF EntryTokenOwned
<1> DEFINE Owner(r) == \/ pc[r] \in Inside \cup {"releasing"}
                       \/ pc[r] = "draining" /\ ch[r] = entry
<1>0. (entry # 0 /\ token[entry]) => \E o \in Requests : Owner(o)
  BY DEF EntryTokenOwned
<1>1. CASE \E r \in Requests : LoadOrStore(r)
  <2>1. PICK r \in Requests : LoadOrStore(r)
    BY <1>1
  <2>2. entry # 0 /\ entry' = entry /\ token' = token
    <3>1. entry = 0 => ~token[made + 1]
      BY <2>1, MaxChansAssumption DEF LoadOrStore, UnmadeEmpty, TypeOK, Chans
    <3> QED  BY <2>1, <3>1 DEF LoadOrStore
  <2>3. PICK o \in Requests : Owner(o)
    BY <1>0, <2>2
  <2>4. o # r
    BY <2>1, <2>3 DEF LoadOrStore, Inside
  <2> QED  BY <2>1, <2>2, <2>3, <2>4 DEF LoadOrStore, TypeOK
<1>2. CASE \E r \in Requests : TrySend(r)
  <2>1. PICK r \in Requests : TrySend(r)
    BY <1>2
  <2>2. CASE ~token[ch[r]]
    BY <2>1, <2>2 DEF TrySend, TypeOK, Inside
  <2>3. CASE token[ch[r]]
    <3>1. PICK o \in Requests : Owner(o)
      BY <1>0, <2>1, <2>3 DEF TrySend
    <3>2. o # r
      BY <2>1, <3>1 DEF TrySend, Inside
    <3> QED  BY <2>1, <2>3, <3>1, <3>2 DEF TrySend, TypeOK
  <2> QED  BY <2>2, <2>3
<1>3. CASE \E r \in Requests : CheckRateLimit(r) \/ Finish(r)
  BY <1>3 DEF CheckRateLimit, Finish, TypeOK, Inside
<1>4. CASE \E r \in Requests : LoadToRelease(r)
  BY <1>4 DEF LoadToRelease, TypeOK
<1>5. CASE \E r \in Requests : Drain(r)
  <2>1. PICK r \in Requests : Drain(r)
    BY <1>5
  <2>2. token[entry] /\ entry # ch[r] /\ entry' = entry
    BY <2>1, MaxChansAssumption DEF Drain, TypeOK, Chans
  <2>3. PICK o \in Requests : Owner(o)
    BY <1>0, <2>1, <2>2 DEF Drain
  <2>4. o # r
    BY <2>1, <2>2, <2>3 DEF Drain, Inside
  <2> QED  BY <2>1, <2>2, <2>3, <2>4 DEF Drain, TypeOK
<1>6. ASSUME UNCHANGED <<pc, ch, token, entry>>
      PROVE  \E r \in Requests : \/ pc'[r] \in Inside \cup {"releasing"}
                                 \/ pc'[r] = "draining" /\ ch'[r] = entry'
  BY <1>0, <1>6
<1>7. CASE \/ CheckOfOtherKind \/ Refill \/ SweepLimiters \/ SweepVisit
           \/ SweepLength \/ UNCHANGED vars
  BY <1>6, <1>7 DEF CheckOfOtherKind, Refill, SweepLimiters, SweepVisit,
                    SweepLength, vars
<1>8. CASE SweepDelete
  BY <1>8 DEF SweepDelete
<1> QED  BY <1>1, <1>2, <1>3, <1>4, <1>5, <1>7, <1>8 DEF Next, RequestStep

-----------------------------------------------------------------------------
(* The theorems.                                                           *)

(* The first state satisfies the invariant.                                *)
LEMMA InitIInv == Init => IInv
<1> SUFFICES ASSUME Init PROVE IInv
  OBVIOUS
<1>1. TypeOK
  BY InitType
<1>2. UnmadeEmpty /\ ChannelsPaidFor /\ EntryTokenOwned
  BY DEF Init, UnmadeEmpty, ChannelsPaidFor, EntryTokenOwned, Chans
<1>3. HoldersHaveTokens
  <2>1. Holders = {} /\ Taken = {}
    BY DEF Init, Holders, Taken, Inside
  <2> QED  BY <2>1, FS_EmptySet DEF HoldersHaveTokens
<1> QED  BY <1>1, <1>2, <1>3 DEF IInv

(* Every step keeps the invariant.                                         *)
LEMMA NextIInv == IInv /\ [Next]_vars => IInv'
BY NextType, NextChannels, NextHolders, NextEntryToken DEF IInv

(* The inductive invariant holds in every reachable state of TryAcquireSlot, *)
(* ReleaseSlot, CheckRateLimit and runCleanup.                             *)
THEOREM SlotsInductive == Spec => []IInv
BY InitIInv, NextIInv, PTL DEF Spec

(* TryAcquireSlot sends to, and ReleaseSlot receives from, a channel that  *)
(* exists, however the sweep interleaves with them.                        *)
THEOREM SlotsTypeCorrect == Spec => []TypeOK
<1>1. IInv => TypeOK
  BY DEF IInv
<1> QED  BY <1>1, SlotsInductive, PTL

(* No lock-out: whenever TryAcquireSlot would find the registered channel  *)
(* full, some request still has to release.                                *)
THEOREM SlotsNoOrphanToken == Spec => []NoOrphanToken
<1>1. IInv => NoOrphanToken
  BY DEF IInv, EntryTokenOwned, NoOrphanToken, Inside
<1> QED  BY <1>1, SlotsInductive, PTL

(* The overlap that runCleanup's check-then-delete opens is bounded: with  *)
(* n sweeps started, at most n + 1 requests execute at a time.             *)
THEOREM SlotsOverlapBounded == Spec => []OverlapBounded
<1>1. IInv => OverlapBounded
  <2> SUFFICES ASSUME IInv PROVE OverlapBounded
    OBVIOUS
  <2> DEFINE In == {r \in Requests : pc[r] \in Inside}
  <2>1. IsFiniteSet(Holders) /\ Cardinality(Holders) <= Cardinality(Taken)
    BY DEF IInv, HoldersHaveTokens
  <2>2. Cardinality(In) \in Nat /\ Cardinality(In) <= Cardinality(Holders)
        /\ Cardinality(Holders) \in Nat
    <3>1. In \in SUBSET Holders
      BY DEF Holders
    <3> QED  BY <2>1, <3>1, FS_Subset, FS_CardinalityType
  <2>3. Cardinality(Taken) <= made
    <3>1. made \in Nat
      BY MaxChansAssumption DEF IInv, TypeOK
    <3>2. Taken \in SUBSET (1..made)
      BY <3>1, MaxChansAssumption DEF IInv, UnmadeEmpty, Taken, Chans
    <3>3. IsFiniteSet(1..made) /\ Cardinality(1..made) = made
      BY <3>1, FS_Interval
    <3> QED  BY <3>2, <3>3, FS_Subset
  <2>4. made <= sweeps + 1
    BY MaxChansAssumption, MaxSweepsAssumption DEF IInv, TypeOK, ChannelsPaidFor
  <2>5. made \in Nat /\ sweeps \in Nat /\ Cardinality(Taken) \in Nat
    BY MaxChansAssumption, MaxSweepsAssumption, TakenFinite DEF IInv, TypeOK
  <2>6. Cardinality(In) <= sweeps + 1
    BY <2>1, <2>2, <2>3, <2>4, <2>5
  <2> QED  BY <2>6 DEF OverlapBounded
<1> QED  BY <1>1, SlotsInductive, PTL

(* Why every release ends: until the first sweep there is one channel, the *)
(* request that loaded it to release is a holder, and holders have their   *)
(* values in channels, so the receive of ReleaseSlot finds one.            *)
ReleaseNeverBlocks == sweeps = 0 =>
    \A r \in Requests : pc[r] = "draining" => token[ch[r]]

THEOREM SlotsReleaseNeverBlocks == Spec => []ReleaseNeverBlocks
<1>1. IInv => ReleaseNeverBlocks
  <2> SUFFICES ASSUME IInv, sweeps = 0, NEW r \in Requests, pc[r] = "draining"
               PROVE  token[ch[r]]
    BY DEF ReleaseNeverBlocks
  <2>1. ch[r] = 1 /\ made = 1
    <3>1. made \in Nat /\ ch[r] \in 0..made /\ ch[r] # 0
      BY MaxChansAssumption DEF IInv, TypeOK
    <3>2. made <= 1
      BY <3>1 DEF IInv, ChannelsPaidFor
    <3> QED  BY <3>1, <3>2
  <2>2. r \in Holders /\ IsFiniteSet(Holders)
        /\ Cardinality(Holders) <= Cardinality(Taken)
    BY DEF IInv, HoldersHaveTokens, Holders
  <2>3. PICK c \in Taken : TRUE
    <3>1. Cardinality(Holders) \in Nat /\ Cardinality(Holders) # 0
      BY <2>2, FS_CardinalityType, FS_EmptySet
    <3>2. Taken # {}
      BY <2>2, <3>1, FS_EmptySet
    <3> QED  BY <3>2
  <2>4. c = 1
    BY <2>1, <2>3, MaxChansAssumption DEF IInv, UnmadeEmpty, Taken, Chans
  <2> QED  BY <2>1, <2>3, <2>4 DEF Taken
<1> QED  BY <1>1, SlotsInductive, PTL

(* The promise the game's pipeline relies on: until the first sweep the    *)
(* slot is a mutex, whatever the rate limiter and the releases do.         *)
MutexUntilSwept == sweeps = 0 =>
    \A p, q \in Requests : pc[p] \in Inside /\ pc[q] \in Inside => p = q

THEOREM SlotsMutexUntilSwept == Spec => []MutexUntilSwept
<1>1. IInv /\ OverlapBounded => MutexUntilSwept
  <2> SUFFICES ASSUME IInv, OverlapBounded, sweeps = 0,
                      NEW p \in Requests, NEW q \in Requests,
                      pc[p] \in Inside, pc[q] \in Inside
               PROVE  p = q
    BY DEF MutexUntilSwept
  <2> DEFINE In == {r \in Requests : pc[r] \in Inside}
  <2>1. IsFiniteSet(In) /\ Cardinality(In) \in Nat
    <3>1. In \in SUBSET Holders /\ IsFiniteSet(Holders)
      BY DEF IInv, HoldersHaveTokens, Holders
    <3> QED  BY <3>1, FS_Subset, FS_CardinalityType
  <2>2. Cardinality(In) <= 1
    BY DEF OverlapBounded
  <2>3. IsFiniteSet(In \ {p}) /\ Cardinality(In \ {p}) = Cardinality(In) - 1
    BY <2>1, FS_RemoveElement
  <2>4. Cardinality(In \ {p}) = 0
    <3>1. Cardinality(In \ {p}) \in Nat
      BY <2>3, FS_CardinalityType
    <3> QED  BY <2>1, <2>2, <2>3, <3>1
  <2>5. In \ {p} = {}
    BY <2>3, <2>4, FS_EmptySet
  <2> QED  BY <2>5
<1> QED  BY <1>1, SlotsInductive, SlotsOverlapBounded, PTL

=============================================================================
