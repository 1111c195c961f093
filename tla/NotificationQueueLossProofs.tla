--------------------- MODULE NotificationQueueLossProofs ---------------------
(***************************************************************************)
(* What faults can cost a NotificationQueue, and how its counters relate,  *)
(* for every set of ids, every limit and any number of faults.             *)
(***************************************************************************)
EXTENDS NotificationQueueProofs, FiniteSetTheorems

-----------------------------------------------------------------------------
(* One loss per fault *)

Faults == crashes + errors + expiries

\* Lost, or about to be: a hash that has expired is found missing, or made into
\* a notification with another id, by the next worker that pops its id.
Doomed == {i \in accepted \ settled : i \notin Queued \union Hands \/ ~ Whole(i)}

LossInv ==
  /\ IsFiniteSet(Doomed)
  /\ Cardinality(Doomed) =< Faults

Harmless == Doomed' \subseteq Doomed /\ Faults' >= Faults

Costs(x) == Doomed' \subseteq Doomed \union {x} /\ Faults' = Faults + 1

\* A store of the worker leaves a whole hash whole.
LEMMA WholeKept ==
  ASSUME TypeInv, cur.id \in Ids,
         StoreClaim \/ StoreSent \/ StoreFailed \/ StoreRetry,
         NEW i \in Ids, Whole(i)
  PROVE  Whole(i)'
<1>1. hash \in [Ids -> Hash \union {NoHash}] /\ hash[i] # NoHash
      /\ hash[i].fields = "all"
  BY DEF TypeInv, TypeOK, RedisTypeOK, Whole, IsWhole
<1>2. PICK s \in Status, n \in Nat :
        \/ hash' = WithClaim(cur.id, n)
        \/ hash' = WithStatus(cur.id, s)
  <2>1. cur.attempts + 1 \in Nat
    BY DEF TypeInv, TypeOK, ProcessTypeOK
  <2> QED
    BY <2>1 DEF StoreClaim, StoreSent, StoreFailed, StoreRetry, Status
<1>3. hash'[i].fields = "all"
  BY <1>1, <1>2 DEF WithClaim, WithStatus, Hash
<1>4. hash'[i] \in Hash
  BY <1>1, <1>2 DEF WithClaim, WithStatus, Hash, Status, Fields
<1> QED
  BY <1>3, <1>4, HashAssumption DEF Whole, IsWhole

\* What a step that keeps every other notification where it is, or settles it,
\* can add to the doomed ones.
LEMMA DoomedGrowth ==
  ASSUME accepted' = accepted, settled \subseteq settled', NEW X,
         \A i \in (Queued \union Hands) \ X :
           Whole(i) => Whole(i)' /\ i \in Queued' \union Hands' \union settled'
  PROVE  Doomed' \subseteq Doomed \union X
  BY DEF Doomed

LEMMA CallerStep ==
  ASSUME IInv, NEW i \in Ids, Enqueue(i) \/ EnqueueRaises(i)
  PROVE  Harmless
<1>1. Faults' >= Faults
  BY DEF Enqueue, EnqueueRaises, Error, Faults, faults, IInv, TypeInv, TypeOK,
         FaultsTypeOK
<1>2. i \in Ids \ Queued /\ Hands' = Hands /\ settled' = settled
  BY DEF Enqueue, EnqueueRaises, MayEnqueue, Fresh, process, Hands, IInv,
         UsedIds
<1>3. CASE StoreQueued(i)
  <2>1. Queued' = Queued \union {i}
    BY <1>2, <1>3, QueuedSteps DEF IInv, OnePlace
  <2>2. \A j \in Ids \ {i} : Whole(j)' <=> Whole(j)
    BY <1>3, HashSteps DEF IInv, Whole
  <2>3. Whole(i)'
    <3>1. hash'[i] \in Hash /\ hash'[i].fields = "all"
      BY <1>3 DEF StoreQueued, Hash, Status, Fields, IInv, TypeInv, TypeOK,
                  RedisTypeOK
    <3> QED
      BY <3>1, HashAssumption DEF Whole, IsWhole
  <2>4. accepted' \subseteq accepted \union {i} /\ accepted' \subseteq Ids
    BY <1>2 DEF Enqueue, EnqueueRaises, IInv, TypeInv, TypeOK, HistoryTypeOK
  <2>5. Doomed' \subseteq Doomed
    BY <1>2, <2>1, <2>2, <2>3, <2>4 DEF Doomed
  <2> QED
    BY <1>1, <2>5 DEF Harmless
<1>4. CASE EnqueueRaises(i) /\ UNCHANGED redis
  <2>1. Queued' = Queued /\ hash' = hash /\ accepted' = accepted
    BY <1>4, QueuedSteps DEF redis, EnqueueRaises, IInv, OnePlace
  <2> QED
    BY <1>1, <1>2, <2>1 DEF Doomed, Harmless, Whole
<1> QED
  BY <1>3, <1>4 DEF Enqueue, EnqueueRaises

\* The worker goes on with what it holds, or begins and ends empty-handed.
LEMMA WorkerGoesOn ==
  ASSUME IInv,
         \/ Start \/ StartDegraded
         \/ ProcessRetries \/ ProcessRetriesRaises \/ PopTimesOut \/ Pop
         \/ Fetch \/ Claim \/ ClaimRaises
         \/ CallSucceeds \/ CallFails
         \/ RecordSentNoMethod \/ RecordSentRaises
  PROVE  Harmless
<1>1. Faults' >= Faults /\ accepted' = accepted /\ settled' = settled
  BY DEF Start, StartDegraded, ProcessRetries, ProcessRetriesRaises,
         PopTimesOut, Pop, Fetch, Claim, ClaimRaises, CallSucceeds, CallFails,
         RecordSentNoMethod, RecordSentRaises, Error, Faults, faults, history,
         IInv, TypeInv, TypeOK, FaultsTypeOK
<1>2. \A i \in Queued \union Hands : i \in Queued' \union Hands'
  <2>1. CASE Pop
    <3>1. Queued' = Queued \ {Head(pending)}
      BY <2>1, QueuedSteps DEF Pop, IInv, OnePlace
    <3>2. cur.id = NoId /\ cur'.id = Head(pending) /\ Head(pending) # NoId
      <4>1. Head(pending) \in Ids
        BY <2>1, StoreTypes DEF Pop, IInv, TypeInv, TypeOK
      <4> QED
        BY <2>1, <4>1, QueueAssumption
        DEF Pop, At, NoNotification, IInv, TypeInv, WorkerShape
    <3> QED
      BY <3>1, <3>2 DEF Hands
  <2>2. CASE ~ Pop
    <3>1. Hands' = Hands
      BY <2>2 DEF Start, StartDegraded, ProcessRetries, ProcessRetriesRaises,
         PopTimesOut, Fetch, Claim, ClaimRaises, CallSucceeds, CallFails,
         RecordSentNoMethod, RecordSentRaises, TakeAttempt, process, Hands,
         IInv, TypeInv, TypeOK, ProcessTypeOK
    <3>2. \/ UNCHANGED redis \/ MoveDue
          \/ UNCHANGED <<pending, retry, due>>
      BY <2>2 DEF Start, StartDegraded, ProcessRetries, ProcessRetriesRaises,
         PopTimesOut, Fetch, Claim, ClaimRaises, CallSucceeds, CallFails,
         RecordSentNoMethod, RecordSentRaises, StoreClaim, StoreSent
    <3>3. Queued' = Queued
      BY <3>2, QueuedSteps DEF redis, IInv, OnePlace
    <3> QED
      BY <3>1, <3>3
  <2> QED
    BY <2>1, <2>2
<1>3. \A i \in Ids : Whole(i) => Whole(i)'
  <2>1. CASE UNCHANGED redis \/ MoveDue \/ PopHead
    BY <2>1, HashSteps DEF IInv, Whole
  <2>2. CASE (Claim \/ ClaimRaises \/ RecordSentRaises)
             /\ (StoreClaim \/ StoreSent)
    <3>1. cur.id \in Ids
      BY <2>2, HandsFull DEF Claim, ClaimRaises, RecordSentRaises, IInv
    <3> QED
      BY <2>2, <3>1, WholeKept DEF IInv
  <2> QED
    BY <2>1, <2>2
    DEF Start, StartDegraded, ProcessRetries, ProcessRetriesRaises,
        PopTimesOut, Pop, Fetch, Claim, ClaimRaises, CallSucceeds, CallFails,
        RecordSentNoMethod, RecordSentRaises
<1>4. Queued \union Hands \subseteq Ids
  BY DEF IInv, UsedIds, TypeInv, TypeOK, HistoryTypeOK
<1>5. Doomed' \subseteq Doomed
  BY <1>1, <1>2, <1>3, <1>4 DEF Doomed
<1> QED
  BY <1>1, <1>5 DEF Harmless

\* The worker lets go of a notification that has no whole hash, has been
\* settled, or waits for its retry; or it tries again what raised.
LEMMA WorkerLetsGo ==
  ASSUME IInv,
         \/ FetchNothing \/ \E i \in Ids : FetchPartial(i)
         \/ RecordSent \/ GiveUp \/ GiveUpNoMethod \/ GiveUpRaises
         \/ ScheduleRetry
  PROVE  Harmless
<1>1. Faults' >= Faults /\ accepted' = accepted /\ settled \subseteq settled'
  BY DEF FetchNothing, FetchPartial, RecordSent, GiveUp, GiveUpNoMethod,
         GiveUpRaises, GivenUp, ScheduleRetry, Error, Faults, faults, history,
         IInv, TypeInv, TypeOK, FaultsTypeOK
<1>2. cur.id \in Ids
  BY HandsFull
  DEF FetchNothing, FetchPartial, RecordSent, GiveUp, GiveUpNoMethod,
      GiveUpRaises, ScheduleRetry, IInv, At
<1>3. Hands = {cur.id}
  BY <1>2, QueueAssumption DEF Hands
<1>4. Queued \subseteq Queued'
  <2>1. CASE ScheduleRetry
    <3>1. cur.id \notin Range(pending)
      BY <1>3 DEF IInv, OnePlace
    <3> QED
      BY <1>2, <2>1, <3>1, QueuedSteps DEF ScheduleRetry, IInv, OnePlace
  <2>2. CASE ~ ScheduleRetry
    <3>1. UNCHANGED <<pending, retry, due>>
      BY <2>2 DEF FetchNothing, FetchPartial, RecordSent, GiveUp,
         GiveUpNoMethod, GiveUpRaises, redis, StoreSent, StoreFailed
    <3> QED
      BY <3>1, QueuedSteps DEF IInv, OnePlace
  <2> QED
    BY <2>1, <2>2
<1>5. \A i \in Ids : Whole(i) => Whole(i)'
  <2>1. CASE UNCHANGED redis
    BY <2>1, HashSteps DEF IInv, Whole
  <2>2. CASE StoreSent \/ StoreFailed \/ StoreRetry
    BY <1>2, <2>2, WholeKept DEF IInv
  <2> QED
    BY <2>1, <2>2
    DEF FetchNothing, FetchPartial, RecordSent, GiveUp, GiveUpNoMethod,
        GiveUpRaises, ScheduleRetry
<1>6. Whole(cur.id) => cur.id \in Queued' \union Hands' \union settled'
  <2>1. CASE FetchNothing \/ \E i \in Ids : FetchPartial(i)
    BY <2>1 DEF FetchNothing, FetchPartial, Whole, IsWhole
  <2>2. CASE RecordSent \/ GiveUp \/ GiveUpNoMethod \/ GiveUpRaises
    <3>1. cur.id \in settled' \/ cur' = cur
      BY <2>2
      DEF RecordSent, GiveUp, GiveUpNoMethod, GiveUpRaises, GivenUp, Escalate
    <3> QED
      BY <1>3, <3>1 DEF Hands
  <2>3. CASE ScheduleRetry
    <3>1. cur.id \notin Range(pending)
      BY <1>3 DEF IInv, OnePlace
    <3> QED
      BY <1>2, <2>3, <3>1, QueuedSteps DEF ScheduleRetry, IInv, OnePlace
  <2> QED
    BY <2>1, <2>2, <2>3
<1>7. Queued \union Hands \subseteq Ids
  BY DEF IInv, UsedIds, TypeInv, TypeOK, HistoryTypeOK
<1>8. Doomed' \subseteq Doomed
  BY <1>1, <1>3, <1>4, <1>5, <1>6, <1>7 DEF Doomed
<1> QED
  BY <1>1, <1>8 DEF Harmless

\* The steps that can cost a notification are faults, and cost one.
LEMMA FaultStep ==
  ASSUME IInv,
         \/ Halt \/ PopRaises \/ FetchRaises \/ ScheduleRetryRaises
         \/ \E i \in Ids : Expire(i)
  PROVE  \E x : Costs(x)
<1>1. Faults' = Faults + 1
  BY DEF Halt, PopRaises, FetchRaises, ScheduleRetryRaises, Expire, Error,
         Faults, IInv, TypeInv, TypeOK, FaultsTypeOK
<1>2. accepted' = accepted /\ settled' = settled
  BY DEF Halt, PopRaises, FetchRaises, ScheduleRetryRaises, Expire, history
<1>3. CASE Halt \/ FetchRaises
  <2>1. Queued' = Queued /\ hash' = hash
    BY <1>3, QueuedSteps DEF Halt, FetchRaises, redis, IInv, OnePlace
  <2>2. Doomed' \subseteq Doomed \union {cur.id}
    BY <1>2, <2>1 DEF Doomed, Hands, Whole
  <2> QED
    BY <1>1, <2>2 DEF Costs
<1>4. CASE PopRaises
  <2>1. Queued \subseteq Queued' \union {Head(pending)} /\ hash' = hash
    BY <1>4, QueuedSteps DEF PopRaises, PopHead, redis, IInv, OnePlace
  <2>2. Hands' = Hands
    BY <1>4 DEF PopRaises, Hands
  <2>3. Doomed' \subseteq Doomed \union {Head(pending)}
    BY <1>2, <2>1, <2>2 DEF Doomed, Whole
  <2> QED
    BY <1>1, <2>3 DEF Costs
<1>5. CASE ScheduleRetryRaises
  <2>1. cur.id \in Ids /\ cur.id \notin Range(pending)
    BY <1>5, HandsFull, QueueAssumption
    DEF ScheduleRetryRaises, Hands, IInv, OnePlace
  <2>2. Queued \subseteq Queued'
    BY <1>5, <2>1, QueuedSteps DEF ScheduleRetryRaises, redis, IInv, OnePlace
  <2>3. \A i \in Ids : Whole(i) => Whole(i)'
    <3>1. CASE StoreRetry
      BY <2>1, <3>1, WholeKept DEF IInv
    <3>2. CASE UNCHANGED redis
      BY <3>2 DEF redis, Whole
    <3> QED
      BY <1>5, <3>1, <3>2 DEF ScheduleRetryRaises
  <2>4. Queued \union Hands \subseteq Ids
    BY DEF IInv, UsedIds, TypeInv, TypeOK, HistoryTypeOK
  <2>5. Doomed' \subseteq Doomed \union {cur.id}
    BY <1>2, <2>2, <2>3, <2>4 DEF Doomed, Hands
  <2> QED
    BY <1>1, <2>5 DEF Costs
<1>6. ASSUME NEW i \in Ids, Expire(i)
      PROVE  \E x : Costs(x)
  <2>1. Queued' = Queued /\ Hands' = Hands
    BY <1>6, QueuedSteps DEF Expire, process, Hands, IInv, OnePlace
  <2>2. \A j \in Ids \ {i} : hash'[j] = hash[j]
    BY <1>6 DEF Expire, IInv, TypeInv, TypeOK, RedisTypeOK
  <2>3. accepted \subseteq Ids
    BY DEF IInv, TypeInv, TypeOK, HistoryTypeOK
  <2>4. Doomed' \subseteq Doomed \union {i}
    BY <1>2, <2>1, <2>2, <2>3 DEF Doomed, Whole
  <2> QED
    BY <1>1, <2>4 DEF Costs
<1> QED
  BY <1>3, <1>4, <1>5, <1>6

LEMMA LossStep ==
  ASSUME IInv, [Next]_vars
  PROVE  Harmless \/ \E x : Costs(x)
<1>1. ASSUME NEW i \in Ids, BecomeDue(i)
      PROVE  Harmless
  <2>1. Queued' = Queued
    BY <1>1, QueuedSteps DEF IInv, OnePlace
  <2>2. UNCHANGED <<accepted, settled, cur, hash>> /\ Faults' = Faults
    BY <1>1 DEF BecomeDue, process, history, faults, Faults
  <2> QED
    BY <2>1, <2>2
    DEF Doomed, Hands, Whole, Harmless, Faults, IInv, TypeInv, TypeOK,
        FaultsTypeOK
<1>2. CASE UNCHANGED vars
  <2>1. Queued' = Queued
    BY <1>2 DEF vars, redis, Queued
  <2>2. UNCHANGED <<accepted, settled, cur, hash>> /\ Faults' = Faults
    BY <1>2 DEF vars, redis, process, history, faults, Faults
  <2> QED
    BY <2>1, <2>2
    DEF Doomed, Hands, Whole, Harmless, Faults, IInv, TypeInv, TypeOK,
        FaultsTypeOK
<1> QED
  BY <1>1, <1>2, CallerStep, WorkerGoesOn, WorkerLetsGo, FaultStep
  DEF Next, Worker, WorkerRaises

LEMMA FaultsNat ==
  /\ IInv => Faults \in Nat
  /\ IInv' => Faults' \in Nat
<1>1. /\ IInv => FaultsTypeOK
      /\ IInv' => FaultsTypeOK'
  BY DEF IInv, TypeInv, TypeOK
<1>2. /\ FaultsTypeOK => Faults \in Nat
      /\ FaultsTypeOK' => Faults' \in Nat
  BY DEF FaultsTypeOK, Faults
<1> QED
  BY <1>1, <1>2

LEMMA LossInvStep ==
  ASSUME IInv, IInv', LossInv, [Next]_vars
  PROVE  LossInv'
<1>1. /\ IsFiniteSet(Doomed) /\ Cardinality(Doomed) \in Nat
      /\ Cardinality(Doomed) =< Faults
      /\ Faults \in Nat /\ Faults' \in Nat
  <2>1. Faults \in Nat /\ Faults' \in Nat
    BY FaultsNat
  <2> QED
    BY <2>1, FS_CardinalityType DEF LossInv
<1>2. CASE Harmless
  <2>1. /\ IsFiniteSet(Doomed') /\ Cardinality(Doomed') \in Nat
        /\ Cardinality(Doomed') =< Cardinality(Doomed)
    BY <1>1, <1>2, FS_Subset, FS_CardinalityType DEF Harmless
  <2>2. Faults' >= Faults
    BY <1>2 DEF Harmless
  <2> QED
    BY <1>1, <2>1, <2>2 DEF LossInv
<1>3. ASSUME NEW x, Costs(x)
      PROVE  LossInv'
  <2> DEFINE D == Doomed \union {x}
  <2>1. /\ IsFiniteSet(D) /\ Cardinality(D) \in Nat
        /\ Cardinality(D) =< Cardinality(Doomed) + 1
    BY <1>1, FS_AddElement, FS_CardinalityType
  <2>2. /\ IsFiniteSet(Doomed') /\ Cardinality(Doomed') \in Nat
        /\ Cardinality(Doomed') =< Cardinality(D)
    BY <1>3, <2>1, FS_Subset, FS_CardinalityType DEF Costs
  <2>3. Faults' = Faults + 1
    BY <1>3 DEF Costs
  <2> HIDE DEF D
  <2> QED
    BY <1>1, <2>1, <2>2, <2>3 DEF LossInv
<1> QED
  BY <1>2, <1>3, LossStep

\* However many notifications, crashes, failing Redis calls and expired hashes
\* there are, each fault costs at most one of the accepted notifications.
THEOREM LossesAreFaults == Spec => []OneLossPerFault
<1>1. Init => LossInv
  <2>1. ASSUME Init
        PROVE  Doomed = {} /\ Faults = 0
    BY <2>1 DEF Init, Doomed, Faults
  <2> QED
    BY <2>1, FS_EmptySet DEF LossInv
<1>2. IInv /\ IInv' /\ LossInv /\ [Next]_vars => LossInv'
  BY LossInvStep
<1>3. IInv /\ LossInv => OneLossPerFault
  <2> SUFFICES ASSUME IInv, LossInv
               PROVE  OneLossPerFault
    OBVIOUS
  <2>1. Lost \subseteq Doomed
    BY DEF Lost, Doomed
  <2>2. /\ Cardinality(Lost) =< Cardinality(Doomed)
        /\ Cardinality(Lost) \in Nat /\ Cardinality(Doomed) \in Nat
    BY <2>1, FS_Subset, FS_CardinalityType DEF LossInv
  <2>3. Faults \in Nat /\ Cardinality(Doomed) =< Faults
    BY DEF LossInv, Faults, IInv, TypeInv, TypeOK, FaultsTypeOK
  <2>4. Cardinality(Lost) =< Faults
    BY <2>2, <2>3
  <2> QED
    BY <2>4 DEF OneLossPerFault, Faults
<1> QED
  BY <1>1, <1>2, <1>3, Invariance, PTL DEF Spec

-----------------------------------------------------------------------------
(* The counters of the process and those in Redis *)

\* What a pipeline of the code adds to the counters.
LEMMA CountStep ==
  ASSUME TypeInv, NEW c \in Counters
  PROVE  /\ \A i \in Ids : StoreQueued(i) =>
              stats'[c] = stats[c] + (IF c = "enqueued" THEN 1 ELSE 0)
         /\ StoreSent => stats'[c] = stats[c] + (IF c = "sent" THEN 1 ELSE 0)
         /\ StoreFailed =>
              stats'[c] = stats[c] + (IF c = "failed" THEN 1 ELSE 0)
         /\ StoreRetry =>
              stats'[c] = stats[c] + (IF c = "retried" THEN 1 ELSE 0)
         /\ MoveDue \/ PopHead \/ StoreClaim \/ UNCHANGED redis =>
              stats'[c] = stats[c]
         /\ \A d \in Counters : CountLocal(d) =>
              local'[c] = local[c] + (IF c = d THEN 1 ELSE 0)
<1> USE CounterNames DEF TypeInv, TypeOK, RedisTypeOK, ProcessTypeOK
<1>1. /\ stats \in [Counters \union {"depth"} -> Int]
      /\ local \in [Counters -> Nat]
      /\ c \in {"enqueued", "sent", "failed", "retried"}
  OBVIOUS
<1>2. ASSUME NEW i \in Ids, StoreQueued(i)
      PROVE  stats'[c] = stats[c] + (IF c = "enqueued" THEN 1 ELSE 0)
  BY <1>1, <1>2 DEF StoreQueued
<1>3. StoreSent => stats'[c] = stats[c] + (IF c = "sent" THEN 1 ELSE 0)
  BY <1>1 DEF StoreSent, CountDone
<1>4. StoreFailed => stats'[c] = stats[c] + (IF c = "failed" THEN 1 ELSE 0)
  BY <1>1 DEF StoreFailed, CountDone
<1>5. StoreRetry => stats'[c] = stats[c] + (IF c = "retried" THEN 1 ELSE 0)
  BY <1>1 DEF StoreRetry, Count
<1>6. MoveDue \/ PopHead \/ StoreClaim \/ UNCHANGED redis =>
        stats'[c] = stats[c]
  BY DEF MoveDue, PopHead, StoreClaim, redis
<1>7. ASSUME NEW d \in Counters, CountLocal(d)
      PROVE  local'[c] = local[c] + (IF c = d THEN 1 ELSE 0)
  BY <1>1, <1>7 DEF CountLocal
<1> QED
  BY <1>2, <1>3, <1>4, <1>5, <1>6, <1>7

LEMMA CountersStep ==
  ASSUME TypeInv, LocalBehindRedis, [Next]_vars
  PROVE  LocalBehindRedis'
<1> SUFFICES ASSUME NEW c \in Counters
             PROVE  local'[c] =< stats'[c]
  BY DEF LocalBehindRedis
<1>1. local[c] \in Nat /\ stats[c] \in Int /\ local[c] =< stats[c]
  BY DEF LocalBehindRedis, TypeInv, TypeOK, RedisTypeOK, ProcessTypeOK
<1>2. ASSUME UNCHANGED local, stats'[c] \in {stats[c], stats[c] + 1}
      PROVE  local'[c] =< stats'[c]
  BY <1>1, <1>2
<1>3. ASSUME NEW d \in {0, 1},
             local'[c] = local[c] + d, stats'[c] = stats[c] + d
      PROVE  local'[c] =< stats'[c]
  BY <1>1, <1>3
<1>4. CASE Halt
  <2>1. local'[c] = 0 /\ stats'[c] = stats[c]
    BY <1>4 DEF Halt, NoLocal, redis
  <2> QED
    BY <1>1, <2>1
<1>5. ASSUME NEW i \in Ids, Enqueue(i)
      PROVE  local'[c] =< stats'[c]
  <2>1. "enqueued" \in Counters
    BY CounterNames
  <2> QED
    BY <1>3, <1>5, <2>1, CountStep DEF Enqueue
<1>6. CASE RecordSent \/ GiveUp \/ ScheduleRetry
  <2>1. {"sent", "failed", "retried"} \subseteq Counters
    BY CounterNames
  <2> QED
    BY <1>3, <1>6, <2>1, CountStep DEF RecordSent, GiveUp, ScheduleRetry
<1>7. ASSUME NEW i \in Ids, EnqueueRaises(i)
      PROVE  local'[c] =< stats'[c]
  <2>1. stats'[c] \in {stats[c], stats[c] + 1}
    BY <1>1, <1>7, CountStep DEF EnqueueRaises
  <2> QED
    BY <1>2, <1>7, <2>1 DEF EnqueueRaises, process
<1>8. CASE RecordSentRaises \/ GiveUpRaises \/ ScheduleRetryRaises
  <2>1. stats'[c] \in {stats[c], stats[c] + 1}
    BY <1>1, <1>8, CountStep
    DEF RecordSentRaises, GiveUpRaises, ScheduleRetryRaises
  <2> QED
    BY <1>2, <1>8, <2>1 DEF RecordSentRaises, GiveUpRaises, ScheduleRetryRaises
<1>9. CASE UNCHANGED local /\ stats'[c] = stats[c]
  BY <1>2, <1>9
<1>10. CASE \/ Start \/ StartDegraded \/ ProcessRetries \/ ProcessRetriesRaises
            \/ Pop \/ PopTimesOut \/ PopRaises
            \/ Fetch \/ FetchNothing \/ FetchRaises
            \/ \E i \in Ids : FetchPartial(i)
            \/ Claim \/ ClaimRaises \/ CallSucceeds \/ CallFails
            \/ RecordSentNoMethod \/ GiveUpNoMethod
  <2>1. stats'[c] = stats[c]
    <3>1. MoveDue \/ PopHead \/ StoreClaim \/ UNCHANGED redis
      BY <1>10 DEF Start, StartDegraded, ProcessRetries, ProcessRetriesRaises,
         Pop, PopTimesOut, PopRaises, Fetch, FetchNothing, FetchRaises,
         FetchPartial, Claim, ClaimRaises, CallSucceeds, CallFails,
         RecordSentNoMethod, GiveUpNoMethod
    <3> QED
      BY <3>1, CountStep
  <2>2. UNCHANGED local
    BY <1>10 DEF Start, StartDegraded, ProcessRetries, ProcessRetriesRaises,
       Pop, PopTimesOut, PopRaises, Fetch, FetchNothing, FetchRaises,
       FetchPartial, Claim, ClaimRaises, CallSucceeds, CallFails,
       RecordSentNoMethod, GiveUpNoMethod
  <2> QED
    BY <1>9, <2>1, <2>2
<1>11. CASE \/ \E i \in Ids : BecomeDue(i) \/ Expire(i)
            \/ UNCHANGED vars
  BY <1>9, <1>11 DEF BecomeDue, Expire, process, vars, redis
<1> QED
  BY <1>4, <1>5, <1>6, <1>7, <1>8, <1>10, <1>11
  DEF Next, Worker, WorkerRaises

\* What a process reports of itself in its metrics, Redis has recorded,
\* whatever raised and however often the service was restarted.
THEOREM CountersAreRecorded == Spec => []LocalBehindRedis
<1>1. Init => LocalBehindRedis
  BY DEF Init, LocalBehindRedis, NoLocal
<1>2. TypeInv /\ LocalBehindRedis /\ [Next]_vars => LocalBehindRedis'
  BY CountersStep
<1> QED
  BY <1>1, <1>2, TypeInvariant, PTL DEF Spec
-----------------------------------------------------------------------------
(* The depth and the backlog *)

Depth == stats["depth"]

Here == Queued \union Hands

\* What the depth counts: the backlog, what was lost, what is never counted down.
All == Here \union (accepted \ settled) \union Uncounted

\* What is never more than the depth: what nothing has counted down yet.
Owed == (accepted \ settled) \union Uncounted

\* Accepted notifications that an expired hash will make into another one.
Broken == {i \in (accepted \ settled) \intersect Here : ~ Whole(i)}

DepthInv ==
  /\ IsFiniteSet(All)
  /\ Cardinality(All) + Cardinality(Broken) =< Depth + errors + expiries
  /\ Depth =< Cardinality(Owed) + errors

\* B is A with at most n more elements.
AtMost(A, B, n) ==
  \/ n = 0 /\ B \subseteq A
  \/ n = 1 /\ \E x : B \subseteq A \union {x}
  \/ n = -1 /\ \E x \in A : B \subseteq A \ {x}
  \/ n = 0 /\ \E x \in A : \E y : B \subseteq (A \ {x}) \union {y}

LEMMA AtMostCardinality ==
  ASSUME NEW A, NEW B, NEW n, IsFiniteSet(A), AtMost(A, B, n)
  PROVE  /\ IsFiniteSet(B) /\ Cardinality(A) \in Nat /\ Cardinality(B) \in Nat
         /\ n \in {-1, 0, 1}
         /\ Cardinality(B) =< Cardinality(A) + n
<1>1. Cardinality(A) \in Nat
  BY FS_CardinalityType
<1>2. ASSUME NEW C, IsFiniteSet(C), B \subseteq C
      PROVE  /\ IsFiniteSet(B) /\ Cardinality(B) \in Nat
             /\ Cardinality(C) \in Nat /\ Cardinality(B) =< Cardinality(C)
  BY <1>2, FS_Subset, FS_CardinalityType
<1>3. ASSUME NEW C, IsFiniteSet(C), NEW x
      PROVE  /\ IsFiniteSet(C \union {x}) /\ Cardinality(C) \in Nat
             /\ Cardinality(C \union {x}) =< Cardinality(C) + 1
  <2>1. Cardinality(C) \in Nat
    BY <1>3, FS_CardinalityType
  <2>2. IsFiniteSet(C \union {x})
        /\ Cardinality(C \union {x}) \in {Cardinality(C), Cardinality(C) + 1}
    BY <1>3, FS_AddElement
  <2> QED
    BY <2>1, <2>2
<1>4. ASSUME NEW x \in A
      PROVE  /\ IsFiniteSet(A \ {x})
             /\ Cardinality(A \ {x}) = Cardinality(A) - 1
  BY <1>4, FS_RemoveElement
<1>5. CASE n = 0 /\ B \subseteq A
  BY <1>1, <1>2, <1>5
<1>6. ASSUME n = 1, NEW x, B \subseteq A \union {x}
      PROVE  /\ IsFiniteSet(B) /\ Cardinality(B) \in Nat
             /\ Cardinality(B) =< Cardinality(A) + n
  <2>1. /\ IsFiniteSet(A \union {x})
        /\ Cardinality(A \union {x}) =< Cardinality(A) + 1
    BY <1>3
  <2>2. /\ IsFiniteSet(B) /\ Cardinality(B) \in Nat
        /\ Cardinality(A \union {x}) \in Nat
        /\ Cardinality(B) =< Cardinality(A \union {x})
    BY <1>2, <1>6, <2>1
  <2> QED
    BY <1>1, <1>6, <2>1, <2>2
<1>7. ASSUME n = -1, NEW x \in A, B \subseteq A \ {x}
      PROVE  /\ IsFiniteSet(B) /\ Cardinality(B) \in Nat
             /\ Cardinality(B) =< Cardinality(A) + n
  <2>1. /\ IsFiniteSet(B) /\ Cardinality(B) \in Nat
        /\ Cardinality(B) =< Cardinality(A \ {x})
    BY <1>2, <1>4, <1>7
  <2> QED
    BY <1>1, <1>4, <1>7, <2>1
<1>8. ASSUME n = 0, NEW x \in A, NEW y, B \subseteq (A \ {x}) \union {y}
      PROVE  /\ IsFiniteSet(B) /\ Cardinality(B) \in Nat
             /\ Cardinality(B) =< Cardinality(A) + n
  <2> DEFINE C == A \ {x}
  <2>1. IsFiniteSet(C) /\ Cardinality(C) = Cardinality(A) - 1
    BY <1>4
  <2>2. B \subseteq C \union {y}
    BY <1>8
  <2> HIDE DEF C
  <2>3. /\ IsFiniteSet(C \union {y})
        /\ Cardinality(C \union {y}) =< Cardinality(C) + 1
    BY <1>3, <2>1
  <2>4. /\ IsFiniteSet(B) /\ Cardinality(B) \in Nat
        /\ Cardinality(C \union {y}) \in Nat
        /\ Cardinality(B) =< Cardinality(C \union {y})
    BY <1>2, <2>2, <2>3
  <2> QED
    BY <1>1, <1>8, <2>1, <2>3, <2>4
<1>9. n \in {-1, 0, 1}
  BY DEF AtMost
<1> QED
  BY <1>1, <1>5, <1>6, <1>7, <1>8, <1>9 DEF AtMost

\* What a pipeline of the code adds to the depth.
LEMMA DepthSteps ==
  ASSUME TypeInv
  PROVE  /\ Depth \in Int
         /\ \A i \in Ids : StoreQueued(i) => Depth' = Depth + 1
         /\ StoreSent \/ StoreFailed => Depth' = Depth - 1
         /\ (\/ MoveDue \/ PopHead \/ StoreClaim \/ StoreRetry
             \/ UNCHANGED redis \/ UNCHANGED stats)
              => Depth' = Depth
<1>1. stats \in [Counters \union {"depth"} -> Int] /\ "depth" \notin Counters
  BY CounterNames DEF TypeInv, TypeOK, RedisTypeOK
<1>2. {"enqueued", "sent", "failed", "retried"} \subseteq Counters
  BY CounterNames
<1>3. ASSUME NEW i \in Ids, StoreQueued(i)
      PROVE  Depth' = Depth + 1
  BY <1>1, <1>2, <1>3 DEF StoreQueued, Depth
<1>4. StoreSent \/ StoreFailed => Depth' = Depth - 1
  BY <1>1, <1>2 DEF StoreSent, StoreFailed, CountDone, Depth
<1>5. StoreRetry => Depth' = Depth
  BY <1>1, <1>2 DEF StoreRetry, Count, Depth
<1>6. MoveDue \/ PopHead \/ StoreClaim \/ UNCHANGED redis \/ UNCHANGED stats
        => Depth' = Depth
  BY DEF MoveDue, PopHead, StoreClaim, redis, Depth
<1>7. Depth \in Int
  BY <1>1 DEF Depth
<1> QED
  BY <1>3, <1>4, <1>5, <1>6, <1>7

\* A step that adds at most a elements to All and b to Broken, and takes at most
\* n out of Owed, and pays for them in the depth or in faults.
Effect(a, b, n) ==
  /\ AtMost(All, All', a) /\ AtMost(Broken, Broken', b)
  /\ AtMost(Owed', Owed, n)
  /\ Depth' + errors' + expiries' >= Depth + errors + expiries + a + b
  /\ Depth' - errors' =< Depth - errors - n

Sums == Depth \in Int /\ errors \in Nat /\ expiries \in Nat

LEMMA SumsTyped == IInv => Sums
  BY DepthSteps DEF IInv, TypeInv, TypeOK, FaultsTypeOK, Sums

\* A step that takes nothing into the hands or the queue from outside and keeps
\* every whole hash whole.
Steady ==
  /\ accepted' = accepted /\ settled' = settled /\ Here' \subseteq Here
  /\ \A i \in Ids : Whole(i) => Whole(i)'

LEMMA SteadySets ==
  ASSUME Steady, accepted \subseteq Ids
  PROVE  All' \subseteq All /\ Broken' \subseteq Broken /\ Owed' = Owed
  BY DEF Steady, All, Broken, Owed, Uncounted

LEMMA HashesKept ==
  ASSUME IInv
  PROVE  /\ UNCHANGED redis \/ MoveDue \/ PopHead
              => \A i \in Ids : Whole(i) => Whole(i)'
         /\ cur.id \in Ids /\ (StoreClaim \/ StoreSent \/ StoreFailed \/ StoreRetry)
              => \A i \in Ids : Whole(i) => Whole(i)'
<1>1. UNCHANGED redis \/ MoveDue \/ PopHead
        => \A i \in Ids : Whole(i) => Whole(i)'
  BY HashSteps DEF IInv, Whole
<1> QED
  BY <1>1, WholeKept DEF IInv

\* Every step that neither enqueues, counts down, settles, nor loses a hash.
LEMMA QuietStep ==
  ASSUME IInv,
         \/ Start \/ StartDegraded \/ Halt
         \/ ProcessRetries \/ ProcessRetriesRaises
         \/ Pop \/ PopTimesOut \/ PopRaises
         \/ Fetch \/ FetchNothing \/ FetchRaises
         \/ Claim \/ ClaimRaises \/ CallSucceeds \/ CallFails
         \/ RecordSentNoMethod \/ ScheduleRetry \/ ScheduleRetryRaises
         \/ \E i \in Ids : EnqueueRaises(i) /\ UNCHANGED redis
         \/ \E i \in Ids : BecomeDue(i)
         \/ UNCHANGED vars
  PROVE  Effect(0, 0, 0)
<1>1. accepted' = accepted /\ settled' = settled
  BY DEF Start, StartDegraded, Halt, ProcessRetries, ProcessRetriesRaises, Pop,
     PopTimesOut, PopRaises, Fetch, FetchNothing, FetchRaises, Claim,
     ClaimRaises, CallSucceeds, CallFails, RecordSentNoMethod, ScheduleRetry,
     ScheduleRetryRaises, EnqueueRaises, BecomeDue, vars, history
<1>2. errors' \in {errors, errors + 1} /\ expiries' = expiries
  BY DEF Start, StartDegraded, Halt, ProcessRetries, ProcessRetriesRaises, Pop,
     PopTimesOut, PopRaises, Fetch, FetchNothing, FetchRaises, Claim,
     ClaimRaises, CallSucceeds, CallFails, RecordSentNoMethod, ScheduleRetry,
     ScheduleRetryRaises, EnqueueRaises, BecomeDue, vars, faults, Error
<1>3. Depth' = Depth
  <2>1. \/ MoveDue \/ PopHead \/ StoreClaim \/ StoreRetry
        \/ UNCHANGED redis \/ UNCHANGED stats
    BY DEF Start, StartDegraded, Halt, ProcessRetries, ProcessRetriesRaises,
       Pop, PopTimesOut, PopRaises, Fetch, FetchNothing, FetchRaises, Claim,
       ClaimRaises, CallSucceeds, CallFails, RecordSentNoMethod, ScheduleRetry,
       ScheduleRetryRaises, EnqueueRaises, BecomeDue, vars
  <2> QED
    BY <2>1, DepthSteps DEF IInv
<1>4. \A i \in Ids : Whole(i) => Whole(i)'
  <2>1. CASE UNCHANGED redis \/ MoveDue \/ PopHead
    BY <2>1, HashesKept
  <2>2. CASE (Claim \/ ClaimRaises) /\ StoreClaim
    <3>1. cur.id \in Ids
      BY <2>2, HandsFull DEF Claim, ClaimRaises, IInv
    <3> QED
      BY <2>2, <3>1, HashesKept
  <2>3. CASE (ScheduleRetry \/ ScheduleRetryRaises) /\ StoreRetry
    <3>1. cur.id \in Ids
      BY <2>3, HandsFull DEF ScheduleRetry, ScheduleRetryRaises, IInv
    <3> QED
      BY <2>3, <3>1, HashesKept
  <2>4. CASE \E i \in Ids : BecomeDue(i)
    BY <2>4 DEF BecomeDue, Whole
  <2> QED
    BY <2>1, <2>2, <2>3, <2>4
    DEF Start, StartDegraded, Halt, ProcessRetries, ProcessRetriesRaises, Pop,
        PopTimesOut, PopRaises, Fetch, FetchNothing, FetchRaises, Claim,
        ClaimRaises, CallSucceeds, CallFails, RecordSentNoMethod,
        ScheduleRetry, ScheduleRetryRaises, vars
<1>5. Here' \subseteq Here
  <2>1. CASE Pop
    <3>1. Queued' = Queued \ {Head(pending)} /\ Head(pending) \in Queued
      BY <2>1, QueuedSteps DEF Pop, IInv, OnePlace
    <3>2. Hands' \subseteq {Head(pending)}
      BY <2>1 DEF Pop, Hands, NoNotification
    <3> QED
      BY <3>1, <3>2 DEF Here
  <2>2. CASE PopRaises
    <3>1. Queued' \subseteq Queued
      BY <2>2, QueuedSteps DEF PopRaises, redis, IInv, OnePlace
    <3>2. Hands' = Hands
      BY <2>2 DEF PopRaises, Hands
    <3> QED
      BY <3>1, <3>2 DEF Here
  <2>3. CASE ScheduleRetry \/ ScheduleRetryRaises
    <3>1. cur.id \in Ids /\ cur.id \notin Range(pending) /\ Hands = {cur.id}
      <4>1. cur.id \in Ids
        BY <2>3, HandsFull DEF ScheduleRetry, ScheduleRetryRaises, IInv
      <4>2. Hands = {cur.id}
        BY <4>1, QueueAssumption DEF Hands
      <4> QED
        BY <4>1, <4>2 DEF IInv, OnePlace
    <3>2. Queued' \subseteq Queued \union {cur.id}
      BY <2>3, <3>1, QueuedSteps
      DEF ScheduleRetry, ScheduleRetryRaises, redis, IInv, OnePlace
    <3>3. Hands' \subseteq Hands
      BY <2>3, <3>1 DEF ScheduleRetry, ScheduleRetryRaises, Escalate, LetGo,
         NoNotification, Hands
    <3> QED
      BY <3>1, <3>2, <3>3 DEF Here
  <2>4. CASE ~ (Pop \/ PopRaises \/ ScheduleRetry \/ ScheduleRetryRaises)
    <3>1. \/ UNCHANGED redis \/ MoveDue \/ UNCHANGED <<pending, retry, due>>
          \/ \E i \in Ids : BecomeDue(i)
      BY <2>4
      DEF Start, StartDegraded, Halt, ProcessRetries, ProcessRetriesRaises,
          PopTimesOut, Fetch, FetchNothing, FetchRaises, Claim, ClaimRaises,
          CallSucceeds, CallFails, RecordSentNoMethod, StoreClaim, vars
    <3>2. Queued' = Queued
      BY <3>1, QueuedSteps DEF redis, IInv, OnePlace
    <3>3. cur'.id \in {cur.id, NoId}
      <4>1. TakeAttempt \/ Fetch \/ cur' \in {cur, NoNotification}
        BY <2>4
        DEF Start, StartDegraded, Halt, ProcessRetries, ProcessRetriesRaises,
            PopTimesOut, FetchNothing, FetchRaises, Claim, ClaimRaises,
            CallSucceeds, CallFails, RecordSentNoMethod, LetGo, EnqueueRaises,
            BecomeDue, vars, process
      <4>2. cur \in [id: Ids \union {NoId}, attempts: Nat, fields: Fields]
        BY DEF IInv, TypeInv, TypeOK, ProcessTypeOK
      <4>3. TakeAttempt \/ Fetch => cur'.id = cur.id
        BY <4>2 DEF TakeAttempt, Fetch
      <4> QED
        BY <4>1, <4>3 DEF NoNotification
    <3>4. Hands' \subseteq Hands
      BY <3>3 DEF Hands
    <3> QED
      BY <3>2, <3>4 DEF Here
  <2> QED
    BY <2>1, <2>2, <2>3, <2>4
<1>6. All' \subseteq All /\ Broken' \subseteq Broken /\ Owed' = Owed
  BY <1>1, <1>4, <1>5, SteadySets
  DEF Steady, IInv, TypeInv, TypeOK, HistoryTypeOK
<1>7. AtMost(All, All', 0) /\ AtMost(Broken, Broken', 0) /\ AtMost(Owed', Owed, 0)
  BY <1>6 DEF AtMost
<1> QED
  BY <1>2, <1>3, <1>7, SumsTyped DEF Effect, Sums

\* A notification is settled without a record: the client has no hincrbyby.
LEMMA UnrecordedStep ==
  ASSUME IInv, GiveUpNoMethod
  PROVE  Effect(0, 0, 0)
<1>1. /\ accepted' = accepted /\ settled \subseteq settled'
      /\ settled' \subseteq settled \union {cur.id}
      /\ errors' = errors /\ expiries' = expiries /\ UNCHANGED redis
      /\ ~ HincrbybyExists
  BY DEF GiveUpNoMethod, GivenUp, faults
<1>2. cur.id \in Ids /\ Hands = {cur.id} /\ Hands' \subseteq Hands
  <2>1. cur.id \in Ids
    BY HandsFull DEF GiveUpNoMethod, IInv
  <2> QED
    BY <2>1, QueueAssumption
    DEF GiveUpNoMethod, Escalate, LetGo, NoNotification, Hands
<1>3. Queued' = Queued /\ hash' = hash /\ Depth' = Depth
  <2>1. Queued' = Queued
    BY <1>1, QueuedSteps DEF redis, IInv, OnePlace
  <2>2. Depth' = Depth
    BY <1>1, DepthSteps DEF IInv
  <2> QED
    BY <1>1, <2>1, <2>2 DEF redis
<1>4. All' \subseteq All /\ Broken' \subseteq Broken /\ Owed \subseteq Owed'
  BY <1>1, <1>2, <1>3 DEF All, Broken, Owed, Here, Uncounted, Whole
<1>5. AtMost(All, All', 0) /\ AtMost(Broken, Broken', 0) /\ AtMost(Owed', Owed, 0)
  BY <1>4 DEF AtMost
<1> QED
  BY <1>1, <1>3, <1>5, SumsTyped DEF Effect, Sums

\* A notification is recorded as SENT or FAILED, and counted down.
LEMMA RecordedStep ==
  ASSUME IInv, RecordSent \/ GiveUp
  PROVE  Effect(-1, 0, 1)
<1>1. /\ accepted' = accepted /\ settled' = settled \union {cur.id}
      /\ errors' = errors /\ expiries' = expiries
      /\ HincrbybyExists /\ (StoreSent \/ StoreFailed)
      /\ cur' = NoNotification
  BY DEF RecordSent, GiveUp, LetGo, faults
<1>2. cur.id \in Ids /\ Hands = {cur.id} /\ Hands' = {}
  <2>1. cur.id \in Ids
    BY HandsFull DEF RecordSent, GiveUp, IInv
  <2> QED
    BY <1>1, <2>1, QueueAssumption DEF NoNotification, Hands
<1>3. Queued' = Queued /\ Depth' = Depth - 1
  BY <1>1, QueuedSteps, DepthSteps DEF StoreSent, StoreFailed, IInv, OnePlace
<1>4. cur.id \notin Queued
  BY <1>2 DEF RecordSent, GiveUp, At, IInv, OnePlace, Redoing
<1>5. \A i \in Ids : Whole(i) => Whole(i)'
  BY <1>1, <1>2, HashesKept
<1>6. /\ cur.id \in All /\ All' \subseteq All \ {cur.id}
      /\ Broken' \subseteq Broken /\ Owed \subseteq Owed' \union {cur.id}
  <2>1. accepted \subseteq Ids
    BY DEF IInv, TypeInv, TypeOK, HistoryTypeOK
  <2> QED
    BY <1>1, <1>2, <1>3, <1>4, <1>5, <2>1
    DEF All, Broken, Owed, Here, Uncounted
<1>7. AtMost(All, All', -1) /\ AtMost(Broken, Broken', 0) /\ AtMost(Owed', Owed, 1)
  BY <1>6 DEF AtMost
<1> QED
  BY <1>1, <1>3, <1>7, SumsTyped DEF Effect, Sums

\* The pipeline that records a notification raises, carried out or not.
LEMMA RecordRaisesStep ==
  ASSUME IInv, RecordSentRaises \/ GiveUpRaises
  PROVE  Effect(0, 0, 1)
<1>1. /\ accepted' = accepted /\ settled \subseteq settled'
      /\ settled' \subseteq settled \union {cur.id}
      /\ errors' = errors + 1 /\ expiries' = expiries
      /\ HincrbybyExists /\ (StoreSent \/ StoreFailed \/ UNCHANGED redis)
      /\ cur' \in {cur, NoNotification}
  BY DEF RecordSentRaises, GiveUpRaises, GivenUp, Escalate, LetGo, Error,
     history
<1>2. cur.id \in Ids /\ Hands = {cur.id} /\ Hands' \subseteq Hands
  <2>1. cur.id \in Ids
    BY HandsFull DEF RecordSentRaises, GiveUpRaises, IInv
  <2> QED
    BY <1>1, <2>1, QueueAssumption DEF NoNotification, Hands
<1>3. Queued' = Queued /\ Depth' \in {Depth, Depth - 1}
  <2>1. Queued' = Queued
    BY <1>1, QueuedSteps DEF StoreSent, StoreFailed, redis, IInv, OnePlace
  <2>2. Depth' \in {Depth, Depth - 1}
    BY <1>1, DepthSteps DEF IInv
  <2> QED
    BY <2>1, <2>2
<1>4. \A i \in Ids : Whole(i) => Whole(i)'
  BY <1>1, <1>2, HashesKept
<1>5. /\ All' \subseteq All
      /\ Broken' \subseteq Broken /\ Owed \subseteq Owed' \union {cur.id}
  <2>1. accepted \subseteq Ids
    BY DEF IInv, TypeInv, TypeOK, HistoryTypeOK
  <2> QED
    BY <1>1, <1>2, <1>3, <1>4, <2>1 DEF All, Broken, Owed, Here, Uncounted
<1>6. AtMost(All, All', 0) /\ AtMost(Broken, Broken', 0) /\ AtMost(Owed', Owed, 1)
  BY <1>5 DEF AtMost
<1> QED
  BY <1>1, <1>3, <1>6, SumsTyped DEF Effect, Sums

\* enqueue stores a notification and counts it, whether or not its caller gets
\* an answer.
LEMMA StoredStep ==
  ASSUME IInv, NEW i \in Ids, Enqueue(i) \/ EnqueueRaises(i), StoreQueued(i)
  PROVE  \E n \in {-1, 0} : Effect(1, 0, n)
<1>1. /\ i \in Ids \ used /\ cur' = cur /\ settled' = settled
      /\ accepted' \in {accepted, accepted \union {i}}
  BY DEF Enqueue, EnqueueRaises, MayEnqueue, Fresh, process
<1>2. i \notin All
  BY <1>1 DEF All, Here, Uncounted, IInv, UsedIds
<1>3. Here' = Here \union {i}
  <2>1. Queued' = Queued \union {i}
    BY <1>2, QueuedSteps DEF All, Here, IInv, OnePlace
  <2> QED
    BY <1>1, <2>1 DEF Here, Hands
<1>4. \A j \in Ids : Whole(j) => Whole(j)'
  BY HashSteps, <1>1 DEF Whole, IsWhole, IInv, UsedIds
<1>5. Whole(i)'
  <2>1. hash'[i] \in Hash /\ hash'[i].fields = "all"
    BY DEF StoreQueued, Hash, Status, Fields, IInv, TypeInv, TypeOK,
           RedisTypeOK
  <2> QED
    BY <2>1, HashAssumption DEF Whole, IsWhole
<1>6. All' \subseteq All \union {i} /\ Broken' \subseteq Broken
  <2>1. accepted \subseteq Ids
    BY DEF IInv, TypeInv, TypeOK, HistoryTypeOK
  <2> QED
    BY <1>1, <1>2, <1>3, <1>4, <1>5, <2>1 DEF All, Broken, Uncounted
<1>7. AtMost(All, All', 1) /\ AtMost(Broken, Broken', 0)
  BY <1>6 DEF AtMost
<1>8. Depth' = Depth + 1
  BY DepthSteps DEF IInv
<1>9. CASE Enqueue(i)
  <2>1. accepted' = accepted \union {i} /\ errors' = errors /\ expiries' = expiries
    BY <1>9 DEF Enqueue, faults
  <2>2. i \in Owed' /\ Owed \subseteq Owed' \ {i}
    BY <1>1, <1>2, <2>1 DEF Owed, All, Uncounted, IInv, UsedIds
  <2>3. AtMost(Owed', Owed, -1)
    BY <2>2 DEF AtMost
  <2>4. Effect(1, 0, -1)
    BY <1>7, <1>8, <2>1, <2>3, SumsTyped DEF Effect, Sums
  <2> QED
    BY <2>4
<1>10. CASE EnqueueRaises(i)
  <2>1. accepted' = accepted /\ errors' = errors + 1 /\ expiries' = expiries
    BY <1>10 DEF EnqueueRaises, Error
  <2>2. AtMost(Owed', Owed, 0)
    BY <1>1, <2>1 DEF AtMost, Owed, Uncounted
  <2>3. Effect(1, 0, 0)
    BY <1>7, <1>8, <2>1, <2>2, SumsTyped DEF Effect, Sums
  <2> QED
    BY <2>3
<1> QED
  BY <1>9, <1>10

\* A hash expires: at most one more notification will turn into another.
LEMMA ExpiryStep ==
  ASSUME IInv, NEW i \in Ids, Expire(i)
  PROVE  Effect(0, 1, 0)
<1>1. /\ accepted' = accepted /\ settled' = settled /\ cur' = cur
      /\ errors' = errors /\ expiries' = expiries + 1
      /\ UNCHANGED <<pending, retry, due>> /\ UNCHANGED stats
  BY DEF Expire, process, history
<1>2. Here' = Here /\ Depth' = Depth
  BY <1>1 DEF Here, Queued, Hands, Depth
<1>3. \A j \in Ids \ {i} : hash'[j] = hash[j]
  BY DEF Expire, IInv, TypeInv, TypeOK, RedisTypeOK
<1>4. All' \subseteq All /\ Broken' \subseteq Broken \union {i} /\ Owed' = Owed
  <2>1. accepted \subseteq Ids
    BY DEF IInv, TypeInv, TypeOK, HistoryTypeOK
  <2> QED
    BY <1>1, <1>2, <1>3, <2>1 DEF All, Broken, Owed, Uncounted, Whole
<1>5. AtMost(All, All', 0) /\ AtMost(Broken, Broken', 1) /\ AtMost(Owed', Owed, 0)
  BY <1>4 DEF AtMost
<1> QED
  BY <1>1, <1>2, <1>5, SumsTyped DEF Effect, Sums

\* from_dict makes a notification without an id field into one with another id:
\* the depth keeps the one count for both, which an expired hash has paid for if
\* the first was accepted.
LEMMA PartialStep ==
  ASSUME IInv, NEW i \in Ids, FetchPartial(i)
  PROVE  \E a \in {0, 1}, b \in {-1, 0} : Effect(a, b, 0)
<1>1. /\ accepted' = accepted /\ settled' = settled /\ UNCHANGED redis
      /\ cur'.id = i /\ i \in Ids \ used
      /\ errors' = errors /\ expiries' = expiries
      /\ At("fetch") /\ ~ Whole(cur.id)
  BY DEF FetchPartial, Fresh, faults, Whole, IsWhole
<1>2. cur.id \in Ids /\ i # NoId /\ Hands = {cur.id} /\ Hands' = {i}
  <2>1. cur.id \in Ids
    BY <1>1, HandsFull DEF IInv
  <2> QED
    BY <1>1, <2>1, QueueAssumption DEF Hands
<1>3. /\ cur.id \notin settled /\ cur.id \notin Queued /\ i \notin accepted
  BY <1>1, <1>2 DEF At, IInv, OnePlace, Redoing, UsedIds
<1>4. Queued' = Queued /\ Depth' = Depth /\ hash' = hash
  <2>1. Queued' = Queued
    BY <1>1, QueuedSteps DEF redis, IInv, OnePlace
  <2>2. Depth' = Depth
    BY <1>1, DepthSteps DEF IInv
  <2> QED
    BY <1>1, <2>1, <2>2 DEF redis
<1>5. AtMost(Owed', Owed, 0)
  BY <1>1 DEF AtMost, Owed, Uncounted
<1>6. CASE cur.id \in accepted
  <2>1. /\ All' \subseteq All \union {i}
        /\ cur.id \in Broken /\ Broken' \subseteq Broken \ {cur.id}
    <3>1. cur.id # i
      BY <1>3, <1>6
    <3> QED
      BY <1>1, <1>2, <1>3, <1>4, <1>6, <3>1
      DEF All, Broken, Here, Uncounted, Whole
  <2>2. AtMost(All, All', 1) /\ AtMost(Broken, Broken', -1)
    BY <2>1 DEF AtMost
  <2>3. Effect(1, -1, 0)
    BY <1>1, <1>4, <1>5, <2>2, SumsTyped DEF Effect, Sums
  <2> QED
    BY <2>3
<1>7. CASE cur.id \notin accepted
  <2>1. /\ cur.id \in All /\ All' \subseteq (All \ {cur.id}) \union {i}
        /\ Broken' \subseteq Broken
    BY <1>1, <1>2, <1>3, <1>4, <1>7 DEF All, Broken, Here, Uncounted, Whole
  <2>2. AtMost(All, All', 0) /\ AtMost(Broken, Broken', 0)
    BY <2>1 DEF AtMost
  <2>3. Effect(0, 0, 0)
    BY <1>1, <1>4, <1>5, <2>2, SumsTyped DEF Effect, Sums
  <2> QED
    BY <2>3
<1> QED
  BY <1>6, <1>7

LEMMA EffectStep ==
  ASSUME IInv, [Next]_vars
  PROVE  \E a, b, n \in {-1, 0, 1} : Effect(a, b, n)
<1>1. CASE \/ Start \/ StartDegraded \/ Halt
           \/ ProcessRetries \/ ProcessRetriesRaises
           \/ Pop \/ PopTimesOut \/ PopRaises
           \/ Fetch \/ FetchNothing \/ FetchRaises
           \/ Claim \/ ClaimRaises \/ CallSucceeds \/ CallFails
           \/ RecordSentNoMethod \/ ScheduleRetry \/ ScheduleRetryRaises
           \/ \E i \in Ids : EnqueueRaises(i) /\ UNCHANGED redis
           \/ \E i \in Ids : BecomeDue(i)
           \/ UNCHANGED vars
  BY <1>1, QuietStep
<1>2. CASE GiveUpNoMethod \/ RecordSent \/ GiveUp \/ RecordSentRaises \/ GiveUpRaises
  BY <1>2, UnrecordedStep, RecordedStep, RecordRaisesStep
<1>3. ASSUME NEW i \in Ids, Enqueue(i) \/ EnqueueRaises(i), StoreQueued(i)
      PROVE  \E a, b, n \in {-1, 0, 1} : Effect(a, b, n)
  BY <1>3, StoredStep
<1>4. ASSUME NEW i \in Ids, Expire(i)
      PROVE  \E a, b, n \in {-1, 0, 1} : Effect(a, b, n)
  BY <1>4, ExpiryStep
<1>5. ASSUME NEW i \in Ids, FetchPartial(i)
      PROVE  \E a, b, n \in {-1, 0, 1} : Effect(a, b, n)
  BY <1>5, PartialStep
<1>6. ASSUME NEW i \in Ids, Enqueue(i) \/ EnqueueRaises(i)
      PROVE  StoreQueued(i) \/ (EnqueueRaises(i) /\ UNCHANGED redis)
  BY <1>6 DEF Enqueue, EnqueueRaises
<1> QED
  BY <1>1, <1>2, <1>3, <1>4, <1>5, <1>6 DEF Next, Worker, WorkerRaises

LEMMA BrokenOwedFinite ==
  ASSUME IsFiniteSet(All)
  PROVE  IsFiniteSet(Broken) /\ IsFiniteSet(Owed)
<1>1. Broken \subseteq All /\ Owed \subseteq All
  BY DEF Broken, Owed, All
<1> QED
  BY <1>1, FS_Subset

LEMMA DepthInvStep ==
  ASSUME IInv, IInv', DepthInv, [Next]_vars
  PROVE  DepthInv'
<1>1. PICK a, b, n \in {-1, 0, 1} : Effect(a, b, n)
  BY EffectStep
<1>2. /\ IsFiniteSet(All') /\ Cardinality(All) \in Nat /\ Cardinality(All') \in Nat
      /\ Cardinality(All') =< Cardinality(All) + a
  BY <1>1, AtMostCardinality DEF DepthInv, Effect
<1>3. /\ Cardinality(Broken) \in Nat /\ Cardinality(Broken') \in Nat
      /\ Cardinality(Broken') =< Cardinality(Broken) + b
  BY <1>1, AtMostCardinality, BrokenOwedFinite DEF DepthInv, Effect
<1>4. /\ Cardinality(Owed) \in Nat /\ Cardinality(Owed') \in Nat
      /\ Cardinality(Owed) =< Cardinality(Owed') + n
  <2>1. Owed' \subseteq All'
    BY DEF Owed, All
  <2>2. IsFiniteSet(Owed')
    BY <1>2, <2>1, FS_Subset
  <2> QED
    BY <1>1, <2>2, AtMostCardinality DEF Effect
<1>5. /\ Depth \in Int /\ errors \in Nat /\ expiries \in Nat
      /\ Depth' \in Int /\ errors' \in Nat /\ expiries' \in Nat
  <2>1. Sums
    BY SumsTyped
  <2>2. /\ RedisTypeOK' /\ FaultsTypeOK'
    BY DEF IInv, TypeInv, TypeOK
  <2>3. Depth' \in Int /\ errors' \in Nat /\ expiries' \in Nat
    BY <2>2 DEF RedisTypeOK, FaultsTypeOK, Depth
  <2> QED
    BY <2>1, <2>3 DEF Sums
<1>6. /\ Cardinality(All) + Cardinality(Broken) =< Depth + errors + expiries
      /\ Depth =< Cardinality(Owed) + errors
      /\ Depth' + errors' + expiries' >= Depth + errors + expiries + a + b
      /\ Depth' - errors' =< Depth - errors - n
  BY <1>1 DEF DepthInv, Effect
<1>7. /\ Cardinality(All') + Cardinality(Broken') =< Depth' + errors' + expiries'
      /\ Depth' =< Cardinality(Owed') + errors'
  <2>1. a \in Int /\ b \in Int /\ n \in Int
    BY <1>1
  <2>2. PICK d \in Int, e \in Int, x \in Int :
          Depth = d /\ errors = e /\ expiries = x
    BY <1>5
  <2>3. PICK d1 \in Int, e1 \in Int, x1 \in Int :
          Depth' = d1 /\ errors' = e1 /\ expiries' = x1
    BY <1>5
  <2>4. Cardinality(All') + Cardinality(Broken') =< d1 + e1 + x1
    BY <1>2, <1>3, <1>6, <2>1, <2>2, <2>3
  <2>5. d1 =< Cardinality(Owed') + e1
    BY <1>4, <1>6, <2>1, <2>2, <2>3
  <2> QED
    BY <2>3, <2>4, <2>5
<1> QED
  BY <1>2, <1>7 DEF DepthInv

LEMMA DisjointUnion ==
  ASSUME NEW S, NEW T, IsFiniteSet(S), IsFiniteSet(T), S \intersect T = {}
  PROVE  /\ IsFiniteSet(S \union T)
         /\ Cardinality(S \union T) = Cardinality(S) + Cardinality(T)
<1>1. Cardinality(S) \in Nat /\ Cardinality(T) \in Nat
  BY FS_CardinalityType
<1>2. Cardinality(S \intersect T) = 0
  BY FS_EmptySet
<1>3. /\ IsFiniteSet(S \union T)
      /\ Cardinality(S \union T)
           = Cardinality(S) + Cardinality(T) - Cardinality(S \intersect T)
  BY FS_Union
<1> QED
  BY <1>1, <1>2, <1>3

\* The depth that get_depth reports and the alert on it reads, whatever raised,
\* expired or was restarted: off by at most one for each call that answered with
\* an error, and one less for each hash that expired.
THEOREM DepthCountsBacklog == Spec => []DepthIsBacklog
<1>1. Init => DepthInv
  <2> SUFFICES ASSUME Init
               PROVE  DepthInv
    OBVIOUS
  <2>1. Range(<<>>) = {}
    BY DEF Range
  <2>2. All = {} /\ Broken = {} /\ Owed = {}
    BY <2>1 DEF Init, All, Broken, Owed, Here, Uncounted, Queued, Hands,
                NoNotification
  <2>3. Depth = 0 /\ errors = 0 /\ expiries = 0
    BY DEF Init, Depth
  <2> QED
    BY <2>2, <2>3, FS_EmptySet DEF DepthInv
<1>2. IInv /\ IInv' /\ DepthInv /\ [Next]_vars => DepthInv'
  BY DepthInvStep
<1>3. IInv /\ DepthInv => DepthIsBacklog
  <2> SUFFICES ASSUME IInv, DepthInv
               PROVE  DepthIsBacklog
    OBVIOUS
  <2> DEFINE Rest == Lost \union Uncounted
  <2>1. Here \intersect Rest = {} /\ Lost \intersect Uncounted = {}
    BY DEF Here, Lost, Uncounted, IInv, OnePlace
  <2>2. All = Here \union Rest
    BY DEF All, Here, Lost, Uncounted
  <2>3. IsFiniteSet(Here) /\ IsFiniteSet(Lost) /\ IsFiniteSet(Uncounted)
    BY <2>2, FS_Subset DEF DepthInv
  <2>4. /\ IsFiniteSet(Rest)
        /\ Cardinality(Rest) = Cardinality(Lost) + Cardinality(Uncounted)
    BY <2>1, <2>3, DisjointUnion
  <2>5. Cardinality(All) = Cardinality(Here) + Cardinality(Rest)
    <3> HIDE DEF Rest
    <3> QED
      BY <2>1, <2>2, <2>3, <2>4, DisjointUnion
  <2>6. /\ Cardinality(Broken) \in Nat /\ Cardinality(Owed) \in Nat
        /\ Cardinality(Owed) =< Cardinality(All)
    <3>1. Owed \subseteq All
      BY DEF Owed, All
    <3> QED
      BY <3>1, BrokenOwedFinite, FS_CardinalityType, FS_Subset DEF DepthInv
  <2>7. /\ Cardinality(Here) \in Nat /\ Cardinality(Lost) \in Nat
        /\ Cardinality(Uncounted) \in Nat
    BY <2>3, FS_CardinalityType
  <2>8. Sums
    BY SumsTyped
  <2>9. /\ Cardinality(All) + Cardinality(Broken) =< Depth + errors + expiries
        /\ Depth =< Cardinality(Owed) + errors
    BY DEF DepthInv
  <2>10. Depth - Cardinality(Here) - Cardinality(Lost) - Cardinality(Uncounted)
           \in -(errors + expiries) .. errors
    BY <2>4, <2>5, <2>6, <2>7, <2>8, <2>9 DEF Sums
  <2> QED
    BY <2>10 DEF DepthIsBacklog, Depth, Here
<1> QED
  BY <1>1, <1>2, <1>3, Invariance, PTL DEF Spec
=============================================================================
