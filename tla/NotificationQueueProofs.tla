----------------------- MODULE NotificationQueueProofs -----------------------
(***************************************************************************)
(* Theorems about NotificationQueue, for every set of ids, every retry     *)
(* limit, both Redis clients and any number of faults.                     *)
(***************************************************************************)
EXTENDS NotificationQueue, SequenceTheorems, TLAPS

-----------------------------------------------------------------------------
(* Sequences without repetition *)

LEMMA AppendRange ==
  ASSUME NEW S, NEW s \in Seq(S), NEW x \in S
  PROVE  /\ Append(s, x) \in Seq(S)
         /\ Range(Append(s, x)) = Range(s) \union {x}
         /\ IsInjective(s) /\ x \notin Range(s) => IsInjective(Append(s, x))
  <1>1. /\ Append(s, x) \in Seq(S)
        /\ DOMAIN s = 1..Len(s) /\ Len(s) \in Nat
        /\ DOMAIN Append(s, x) = 1..Len(s)+1
        /\ \A k \in 1..Len(s) : Append(s, x)[k] = s[k]
        /\ Append(s, x)[Len(s)+1] = x
    OBVIOUS
  <1>2. Range(Append(s, x)) = Range(s) \union {x}
    BY <1>1 DEF Range
  <1>3. ASSUME IsInjective(s), x \notin Range(s)
        PROVE  IsInjective(Append(s, x))
    BY <1>1, <1>3 DEF Range, IsInjective
  <1> QED BY <1>1, <1>2, <1>3

LEMMA TailRange ==
  ASSUME NEW S, NEW s \in Seq(S), s # <<>>
  PROVE  /\ Head(s) \in Range(s) /\ Head(s) \in S
         /\ Tail(s) \in Seq(S)
         /\ Range(s) = Range(Tail(s)) \union {Head(s)}
         /\ IsInjective(s) => /\ Head(s) \notin Range(Tail(s))
                              /\ IsInjective(Tail(s))
  <1>1. /\ Tail(s) \in Seq(S)
        /\ DOMAIN s = 1..Len(s) /\ Len(s) \in Nat \ {0}
        /\ DOMAIN Tail(s) = 1..Len(s)-1
        /\ \A k \in 1..Len(s)-1 : Tail(s)[k] = s[k+1]
        /\ Head(s) = s[1] /\ s[1] \in S
    OBVIOUS
  <1>2. Range(Tail(s)) \subseteq Range(s) /\ Head(s) \in Range(s)
    BY <1>1 DEF Range
  <1>3. Range(s) \subseteq Range(Tail(s)) \union {Head(s)}
    <2> SUFFICES ASSUME NEW k \in 1..Len(s), k # 1
                 PROVE  s[k] \in Range(Tail(s))
      BY <1>1 DEF Range
    <2>1. k-1 \in DOMAIN Tail(s) /\ Tail(s)[k-1] = s[k]
      BY <1>1
    <2> QED BY <2>1 DEF Range
  <1>4. ASSUME IsInjective(s)
        PROVE  Head(s) \notin Range(Tail(s)) /\ IsInjective(Tail(s))
    BY <1>1, <1>4 DEF Range, IsInjective
  <1> QED BY <1>1, <1>2, <1>3, <1>4

LEMMA ConcatRange ==
  ASSUME NEW S, NEW s \in Seq(S), NEW t \in Seq(S)
  PROVE  /\ s \o t \in Seq(S)
         /\ Range(s \o t) = Range(s) \union Range(t)
         /\ IsInjective(s) /\ IsInjective(t) /\ Range(s) \intersect Range(t) = {}
              => IsInjective(s \o t)
  <1>1. /\ s \o t \in Seq(S)
        /\ DOMAIN s = 1..Len(s) /\ Len(s) \in Nat
        /\ DOMAIN t = 1..Len(t) /\ Len(t) \in Nat
        /\ DOMAIN (s \o t) = 1..Len(s)+Len(t)
        /\ \A k \in 1..Len(s)+Len(t) :
             (s \o t)[k] = IF k <= Len(s) THEN s[k] ELSE t[k - Len(s)]
    OBVIOUS
  <1>2. Range(s \o t) = Range(s) \union Range(t)
    <2>1. Range(s \o t) \subseteq Range(s) \union Range(t)
      BY <1>1 DEF Range
    <2>2. Range(s) \subseteq Range(s \o t)
      BY <1>1 DEF Range
    <2>3. ASSUME NEW k \in DOMAIN t
          PROVE  t[k] \in Range(s \o t)
      <3>1. k + Len(s) \in DOMAIN (s \o t) /\ (s \o t)[k + Len(s)] = t[k]
        BY <1>1
      <3> QED BY <3>1 DEF Range
    <2> QED BY <2>1, <2>2, <2>3 DEF Range
  <1>3. ASSUME IsInjective(s), IsInjective(t), Range(s) \intersect Range(t) = {}
        PROVE  IsInjective(s \o t)
    <2> SUFFICES ASSUME NEW a \in 1..Len(s)+Len(t), NEW b \in 1..Len(s)+Len(t),
                        (s \o t)[a] = (s \o t)[b]
                 PROVE  a = b
      BY <1>1 DEF IsInjective
    <2>1. CASE a <= Len(s) /\ b <= Len(s)
      BY <1>1, <1>3, <2>1 DEF IsInjective
    <2>2. CASE a > Len(s) /\ b > Len(s)
      <3>1. a - Len(s) \in DOMAIN t /\ b - Len(s) \in DOMAIN t
        BY <1>1, <2>2
      <3>2. t[a - Len(s)] = t[b - Len(s)]
        BY <1>1, <2>2
      <3>3. a - Len(s) = b - Len(s)
        BY <1>3, <3>1, <3>2 DEF IsInjective
      <3> QED BY <1>1, <3>3
    <2>3. CASE a <= Len(s) /\ b > Len(s)
      <3>1. a \in DOMAIN s /\ b - Len(s) \in DOMAIN t
        BY <1>1, <2>3
      <3>2. s[a] = t[b - Len(s)]
        BY <1>1, <2>3
      <3>3. s[a] \in Range(s) \intersect Range(t)
        BY <3>1, <3>2 DEF Range
      <3> QED BY <1>3, <3>3
    <2>4. CASE a > Len(s) /\ b <= Len(s)
      <3>1. b \in DOMAIN s /\ a - Len(s) \in DOMAIN t
        BY <1>1, <2>4
      <3>2. s[b] = t[a - Len(s)]
        BY <1>1, <2>4
      <3>3. s[b] \in Range(s) \intersect Range(t)
        BY <3>1, <3>2 DEF Range
      <3> QED BY <1>3, <3>3
    <2> QED BY <1>1, <2>1, <2>2, <2>3, <2>4
  <1> QED BY <1>1, <1>2, <1>3

LEMMA WithoutRange ==
  ASSUME NEW S, NEW s \in Seq(S), NEW x
  PROVE  /\ Without(s, x) \in Seq(S)
         /\ IsInjective(s) => /\ Range(Without(s, x)) = Range(s) \ {x}
                              /\ IsInjective(Without(s, x))
  <1>1. CASE x \notin Range(s)
    BY <1>1 DEF Without
  <1>2. CASE x \in Range(s)
    <2>1. \E n \in DOMAIN s : s[n] = x
      BY <1>2 DEF Range
    <2> DEFINE k == CHOOSE n \in DOMAIN s : s[n] = x
               t == [n \in 1..Len(s)-1 |-> IF n < k THEN s[n] ELSE s[n+1]]
    <2>2. k \in DOMAIN s /\ s[k] = x
      BY <2>1
    <2>3. Without(s, x) = t
      BY <1>2 DEF Without
    <2> HIDE DEF k
    <2>4. DOMAIN s = 1..Len(s) /\ Len(s) \in Nat /\ k \in 1..Len(s)
      BY <2>2
    <2>5. t \in Seq(S) /\ DOMAIN t = 1..Len(s)-1
      <3>1. t \in [1..Len(s)-1 -> S]
        BY <2>4
      <3>2. Len(s)-1 \in Nat
        BY <2>4
      <3> QED BY <3>1, <3>2, IsASeq
    <2>6. ASSUME IsInjective(s)
          PROVE  Range(t) = Range(s) \ {x} /\ IsInjective(t)
      <3>1. \A m, n \in 1..Len(s) : s[m] = s[n] => m = n
        BY <2>6, <2>4 DEF IsInjective
      <3>2. IsInjective(t)
        BY <3>1, <2>4 DEF IsInjective
      <3>3. ASSUME NEW n \in 1..Len(s)-1
            PROVE  t[n] \in Range(s) \ {x}
        BY <3>1, <2>2, <2>4 DEF Range
      <3>4. ASSUME NEW n \in 1..Len(s), s[n] # x
            PROVE  s[n] \in Range(t)
        <4>1. CASE n < k
          <5>1. n \in 1..Len(s)-1 /\ t[n] = s[n]
            BY <4>1, <2>4
          <5> QED BY <5>1 DEF Range
        <4>2. CASE n > k
          <5>1. n-1 \in 1..Len(s)-1 /\ t[n-1] = s[n]
            BY <4>2, <2>4
          <5> QED BY <5>1 DEF Range
        <4> QED BY <4>1, <4>2, <3>4, <2>2, <2>4
      <3>5. Range(t) \subseteq Range(s) \ {x}
        BY <3>3 DEF Range
      <3>6. Range(s) \ {x} \subseteq Range(t)
        BY <3>4, <2>4 DEF Range
      <3> QED BY <3>2, <3>5, <3>6
    <2> QED BY <2>3, <2>5, <2>6
  <1> QED BY <1>1, <1>2

-----------------------------------------------------------------------------
(* Type correctness *)

LEMMA CountLocalType ==
  ASSUME NEW c \in Counters, local \in [Counters -> Nat], CountLocal(c)
  PROVE  local' \in [Counters -> Nat]
  BY DEF CountLocal

LEMMA CounterNames == Counters = {"enqueued", "sent", "failed", "retried"}
  BY DEF Counters

LEMMA StatusHash ==
  ASSUME RedisTypeOK, NEW i \in Ids, NEW s \in Status
  PROVE  WithStatus(i, s) \in [Ids -> Hash \union {NoHash}]
  BY DEF RedisTypeOK, WithStatus, Hash, Fields

LEMMA ClaimHash ==
  ASSUME RedisTypeOK, NEW i \in Ids, NEW n \in Nat
  PROVE  WithClaim(i, n) \in [Ids -> Hash \union {NoHash}]
  <1>1. "PROCESSING" \in Status
    BY DEF Status
  <1> QED BY <1>1 DEF RedisTypeOK, WithClaim, Hash, Fields

\* What each Redis call of the code does to the keys keeps their types.
LEMMA StoreTypes ==
  ASSUME RedisTypeOK, ProcessTypeOK
  PROVE  /\ \A i \in Ids : StoreQueued(i) => RedisTypeOK'
         /\ MoveDue => RedisTypeOK'
         /\ PopHead => RedisTypeOK' /\ Head(pending) \in Ids
         /\ cur.id \in Ids /\ StoreClaim => RedisTypeOK'
         /\ cur.id \in Ids /\ (StoreSent \/ StoreFailed) => RedisTypeOK'
         /\ cur.id \in Ids /\ StoreRetry => RedisTypeOK'
         /\ UNCHANGED redis => RedisTypeOK'
  <1> USE DEF RedisTypeOK
  <1>0. Status = {"QUEUED", "PROCESSING", "SENT", "FAILED", "RETRYING"}
    BY DEF Status
  <1>1. ASSUME NEW i \in Ids, StoreQueued(i)
        PROVE  RedisTypeOK'
    <2>1. pending' \in Seq(Ids) /\ due' \in Seq(Ids) /\ retry' \in SUBSET Ids
      BY <1>1 DEF StoreQueued
    <2>2. hash' \in [Ids -> Hash \union {NoHash}]
      BY <1>1, <1>0 DEF StoreQueued, Hash, Fields
    <2>3. stats' \in [Counters \union {"depth"} -> Int]
      BY <1>1 DEF StoreQueued
    <2> QED BY <2>1, <2>2, <2>3
  <1>2. MoveDue => RedisTypeOK'
    BY DEF MoveDue
  <1>3. PopHead => RedisTypeOK' /\ Head(pending) \in Ids
    BY DEF PopHead
  <1>4. ASSUME cur.id \in Ids, StoreClaim
        PROVE  RedisTypeOK'
    <2>1. cur.attempts + 1 \in Nat
      BY DEF ProcessTypeOK
    <2> QED BY <1>4, <2>1, ClaimHash DEF StoreClaim
  <1>5. ASSUME cur.id \in Ids, StoreSent \/ StoreFailed
        PROVE  RedisTypeOK'
    BY <1>5, <1>0, StatusHash DEF StoreSent, StoreFailed, CountDone
  <1>6. ASSUME cur.id \in Ids, StoreRetry
        PROVE  RedisTypeOK'
    <2>1. hash' \in [Ids -> Hash \union {NoHash}]
      BY <1>6, <1>0, StatusHash DEF StoreRetry
    <2>2. retry' \in SUBSET Ids /\ due' \in Seq(Ids) /\ UNCHANGED pending
      BY <1>6, WithoutRange DEF StoreRetry
    <2>3. stats' = [stats EXCEPT !["retried"] = @ + 1]
      BY <1>6 DEF StoreRetry, Count
    <2>4. stats' \in [Counters \union {"depth"} -> Int]
      BY <2>3, CounterNames
    <2> QED BY <2>1, <2>2, <2>4
  <1>7. UNCHANGED redis => RedisTypeOK'
    BY DEF redis
  <1> QED BY <1>1, <1>2, <1>3, <1>4, <1>5, <1>6, <1>7

\* The worker has a notification in its hands exactly between BRPOP and the
\* end of _process_notification.
WorkerShape ==
  /\ pc \in {"off", "poll", "dequeue"} <=> cur.id = NoId
  /\ pc = "off" <=> link # "connected"

TypeInv == TypeOK /\ WorkerShape

LEMMA HandsFull ==
  ASSUME TypeInv,
         Failing \/ \E step \in {"fetch", "claim", "call", "record"} : At(step)
  PROVE  cur.id \in Ids
  BY DEF TypeInv, TypeOK, ProcessTypeOK, WorkerShape, At, Failing

LEMMA TypeStep ==
  ASSUME TypeInv, [Next]_vars
  PROVE  TypeInv'
  <1> USE QueueAssumption DEF TypeInv, TypeOK
  <1>t. RedisTypeOK /\ ProcessTypeOK
    OBVIOUS
  <1>1. CASE Start
    BY <1>1, StoreTypes DEF Start, history, faults, ProcessTypeOK,
       HistoryTypeOK, FaultsTypeOK, WorkerShape
  <1>2. CASE StartDegraded
    BY <1>2, StoreTypes DEF StartDegraded, Error, history, ProcessTypeOK,
       HistoryTypeOK, FaultsTypeOK, WorkerShape
  <1>3. CASE Halt
    BY <1>3, StoreTypes DEF Halt, history, NoNotification, NoLocal, Fields,
       ProcessTypeOK, HistoryTypeOK, FaultsTypeOK, WorkerShape
  <1>4. ASSUME NEW i \in Ids, Enqueue(i)
        PROVE  TypeInv'
    <2>1. local' \in [Counters -> Nat]
      BY <1>4, CountLocalType, CounterNames DEF Enqueue, ProcessTypeOK
    <2> QED BY <1>4, <2>1, StoreTypes DEF Enqueue, MayEnqueue, Fresh, faults,
       ProcessTypeOK, HistoryTypeOK, FaultsTypeOK, WorkerShape
  <1>5. ASSUME NEW i \in Ids, EnqueueRaises(i)
        PROVE  TypeInv'
    BY <1>5, StoreTypes DEF EnqueueRaises, MayEnqueue, Fresh, Error, process,
       ProcessTypeOK, HistoryTypeOK, FaultsTypeOK, WorkerShape
  <1>6. CASE ProcessRetries \/ ProcessRetriesRaises
    BY <1>6, StoreTypes DEF ProcessRetries, ProcessRetriesRaises, At, Error,
       history, faults, ProcessTypeOK, HistoryTypeOK, FaultsTypeOK, WorkerShape
  <1>7. CASE Pop
    BY <1>7, StoreTypes DEF Pop, At, NoNotification, Fields, history, faults,
       ProcessTypeOK, HistoryTypeOK, FaultsTypeOK, WorkerShape
  <1>8. CASE PopTimesOut \/ PopRaises
    BY <1>8, StoreTypes DEF PopTimesOut, PopRaises, At, Error, history, faults,
       ProcessTypeOK, HistoryTypeOK, FaultsTypeOK, WorkerShape
  <1>9. CASE Fetch
    <2>1. hash[cur.id].attempts \in Nat
      BY <1>9, HandsFull DEF Fetch, RedisTypeOK, Hash
    <2> QED BY <1>9, <2>1, StoreTypes DEF Fetch, At, Fields, history, faults,
          ProcessTypeOK, HistoryTypeOK, FaultsTypeOK, WorkerShape
  <1>10. CASE FetchNothing \/ FetchRaises
    BY <1>10, StoreTypes DEF FetchNothing, FetchRaises, LetGo, NoNotification,
       At, Error, Fields, history, faults,
       ProcessTypeOK, HistoryTypeOK, FaultsTypeOK, WorkerShape
  <1>11. ASSUME NEW i \in Ids, FetchPartial(i)
         PROVE  TypeInv'
    <2>1. hash[cur.id].attempts \in Nat
      BY <1>11, HandsFull DEF FetchPartial, RedisTypeOK, Hash
    <2> QED BY <1>11, <2>1, StoreTypes DEF FetchPartial, Fresh, At, Fields,
          faults, ProcessTypeOK, HistoryTypeOK, FaultsTypeOK, WorkerShape
  <1>12. CASE Claim \/ ClaimRaises
    <2>1. cur.id \in Ids
      BY <1>12, HandsFull DEF Claim, ClaimRaises
    <2> QED BY <1>12, <2>1, StoreTypes DEF Claim, ClaimRaises, TakeAttempt, At,
          Error, history, faults,
          ProcessTypeOK, HistoryTypeOK, FaultsTypeOK, WorkerShape
  <1>13. CASE CallSucceeds \/ CallFails
    <2>1. cur.id \in Ids
      BY <1>13, HandsFull DEF CallSucceeds, CallFails
    <2> QED BY <1>13, <2>1, StoreTypes DEF CallSucceeds, CallFails, At, faults,
          ProcessTypeOK, HistoryTypeOK, FaultsTypeOK, WorkerShape
  <1>14. CASE RecordSent \/ RecordSentNoMethod \/ RecordSentRaises
    <2>1. cur.id \in Ids
      BY <1>14, HandsFull DEF RecordSent, RecordSentNoMethod, RecordSentRaises
    <2> QED BY <1>14, <2>1, StoreTypes
          DEF RecordSent, RecordSentNoMethod, RecordSentRaises, CountLocal,
              LetGo, NoNotification, At, Error, Fields, history, faults,
              ProcessTypeOK, HistoryTypeOK, FaultsTypeOK, WorkerShape
  <1>15. CASE GiveUp \/ GiveUpNoMethod \/ GiveUpRaises
    <2>1. cur.id \in Ids
      BY <1>15, HandsFull DEF GiveUp, GiveUpNoMethod, GiveUpRaises
    <2>2. RedisTypeOK'
      BY <1>15, <2>1, StoreTypes DEF GiveUp, GiveUpNoMethod, GiveUpRaises
    <2>3. HistoryTypeOK' /\ FaultsTypeOK'
      BY <1>15, <2>1 DEF GiveUp, GiveUpNoMethod, GiveUpRaises, GivenUp, Error,
         faults, HistoryTypeOK, FaultsTypeOK
    <2>4. ProcessTypeOK' /\ WorkerShape'
      BY <1>15, <2>1 DEF GiveUp, GiveUpNoMethod, GiveUpRaises, CountLocal,
         LetGo, Escalate, NoNotification, Failing, Fields, ProcessTypeOK, WorkerShape
    <2> QED BY <2>2, <2>3, <2>4
  <1>16. CASE ScheduleRetry \/ ScheduleRetryRaises
    <2>1. cur.id \in Ids
      BY <1>16, HandsFull DEF ScheduleRetry, ScheduleRetryRaises
    <2>2. RedisTypeOK'
      BY <1>16, <2>1, StoreTypes DEF ScheduleRetry, ScheduleRetryRaises
    <2>3. HistoryTypeOK' /\ FaultsTypeOK'
      BY <1>16 DEF ScheduleRetry, ScheduleRetryRaises, Error, history, faults,
         HistoryTypeOK, FaultsTypeOK
    <2>4. ProcessTypeOK' /\ WorkerShape'
      BY <1>16, <2>1 DEF ScheduleRetry, ScheduleRetryRaises, CountLocal,
         LetGo, Escalate, NoNotification, Failing, Fields, ProcessTypeOK, WorkerShape
    <2> QED BY <2>2, <2>3, <2>4
  <1>17. ASSUME NEW i \in Ids, BecomeDue(i)
         PROVE  TypeInv'
    BY <1>17 DEF BecomeDue, process, history, faults, RedisTypeOK,
       ProcessTypeOK, HistoryTypeOK, FaultsTypeOK, WorkerShape
  <1>18. ASSUME NEW i \in Ids, Expire(i)
         PROVE  TypeInv'
    BY <1>18 DEF Expire, process, history, RedisTypeOK,
       ProcessTypeOK, HistoryTypeOK, FaultsTypeOK, WorkerShape
  <1>19. CASE UNCHANGED vars
    BY <1>19 DEF vars, redis, process, history, faults, RedisTypeOK,
       ProcessTypeOK, HistoryTypeOK, FaultsTypeOK, WorkerShape
  <1> QED
    BY <1>1, <1>2, <1>3, <1>4, <1>5, <1>6, <1>7, <1>8, <1>9, <1>10, <1>11,
       <1>12, <1>13, <1>14, <1>15, <1>16, <1>17, <1>18, <1>19
    DEF Next, Worker, WorkerRaises

LEMMA TypeInvariant == Spec => []TypeInv
  <1>1. Init => TypeInv
    BY QueueAssumption
    DEF Init, TypeInv, TypeOK, RedisTypeOK, ProcessTypeOK, HistoryTypeOK,
        FaultsTypeOK, WorkerShape, NoNotification, NoLocal, Fields
  <1> QED BY <1>1, TypeStep, PTL DEF Spec

\* Every variable keeps its type: the worker's hands always hold a notification
\* record, and only ids ever enter the lists and sets of the queue.
THEOREM TypeCorrect == Spec => []TypeOK
  BY TypeInvariant, PTL DEF TypeInv

-----------------------------------------------------------------------------
(* The inductive invariant *)

IsWhole(h) == h # NoHash /\ h.fields = "all"

Whole(i) == IsWhole(hash[i])

Limit == AttemptLimit("all")

\* Everything in the queue has an id that was handed out before, and an id
\* not handed out yet has left no trace.
UsedIds ==
  /\ Queued \union Hands \union accepted \union settled \union acked \subseteq used
  /\ \A i \in Ids \ used : hash[i] = NoHash /\ sends[i] = 0

\* Attempts left: the count stored in Redis covers the sends made, and what
\* waits in the queue has an attempt left.
AttemptsInRedis ==
  /\ \A i \in Ids : Whole(i) => sends[i] <= hash[i].attempts
  /\ \A i \in Queued : Whole(i) => hash[i].attempts < Limit

\* The same for the notification in the worker's hands, step by step.
AttemptsInHands ==
  /\ pc = "fetch" /\ Whole(cur.id) => hash[cur.id].attempts < Limit
  /\ pc \in {"claim", "call", "record", "fail", "recover"} /\ Whole(cur.id)
       => cur.fields = "all" /\ hash[cur.id].attempts <= cur.attempts
  /\ pc = "claim" =>
       IF cur.fields = "all"
       THEN sends[cur.id] <= cur.attempts /\ cur.attempts < Limit
       ELSE sends[cur.id] = 0
  /\ pc = "call" =>
       /\ Whole(cur.id) => hash[cur.id].attempts = cur.attempts
       /\ IF cur.fields = "all"
          THEN sends[cur.id] < cur.attempts /\ cur.attempts <= Limit
          ELSE sends[cur.id] = 0

IInv ==
  /\ TypeInv
  /\ OnePlace
  /\ UsedIds
  /\ BoundedSends
  /\ AttemptsInRedis
  /\ AttemptsInHands

LEMMA LimitNat == Limit \in Nat \ {0} /\ MaxRetries <= Limit
  BY QueueAssumption DEF Limit, AttemptLimit, RetryLimit, Larger

\* What each step does to the set of queued ids, and that none of them puts
\* an id in the lists twice.
LEMMA QueuedSteps ==
  ASSUME TypeInv, NoRepeats
  PROVE  /\ \A i \in Ids \ Queued : StoreQueued(i) =>
              /\ NoRepeats' /\ Queued' = Queued \union {i}
              /\ Range(pending') = Range(pending) \union {i}
         /\ MoveDue => NoRepeats' /\ Queued' = Queued
         /\ PopHead => /\ NoRepeats' /\ Head(pending) \in Queued
                       /\ Queued' = Queued \ {Head(pending)}
                       /\ Head(pending) \notin Range(pending')
         /\ cur.id \in Ids \ Range(pending) /\ StoreRetry =>
              /\ NoRepeats' /\ Queued' = Queued \union {cur.id}
              /\ pending' = pending
         /\ \A i \in Ids : BecomeDue(i) => NoRepeats' /\ Queued' = Queued
         /\ UNCHANGED <<pending, retry, due>> => NoRepeats' /\ Queued' = Queued
  <1>0. /\ pending \in Seq(Ids) /\ due \in Seq(Ids) /\ retry \in SUBSET Ids
        /\ IsInjective(pending) /\ IsInjective(due)
        /\ Range(pending) \intersect Range(due) = {}
        /\ retry \intersect (Range(pending) \union Range(due)) = {}
    BY DEF TypeInv, TypeOK, RedisTypeOK, NoRepeats
  <1>1. ASSUME NEW i \in Ids \ Queued, StoreQueued(i)
        PROVE  /\ NoRepeats' /\ Queued' = Queued \union {i}
               /\ Range(pending') = Range(pending) \union {i}
    <2>1. /\ Range(pending') = Range(pending) \union {i}
          /\ i \notin Range(pending) \union Range(due) \union retry
          /\ IsInjective(pending')
          /\ due' = due /\ retry' = retry
      BY <1>0, <1>1, AppendRange DEF StoreQueued, Queued
    <2> QED BY <1>0, <2>1 DEF NoRepeats, Queued
  <1>2. ASSUME MoveDue
        PROVE  NoRepeats' /\ Queued' = Queued
    <2>1. /\ Range(pending') = Range(pending) \union Range(due)
          /\ IsInjective(pending')
          /\ due' = <<>> /\ retry' = retry
      BY <1>0, <1>2, ConcatRange DEF MoveDue
    <2>2. Range(<<>>) = {} /\ IsInjective(<<>>)
      BY DEF Range, IsInjective
    <2> QED BY <1>0, <2>1, <2>2 DEF NoRepeats, Queued
  <1>3. ASSUME PopHead
        PROVE  /\ NoRepeats' /\ Head(pending) \in Queued
               /\ Queued' = Queued \ {Head(pending)}
               /\ Head(pending) \notin Range(pending')
    <2>1. /\ Head(pending) \in Range(pending)
          /\ Range(pending') = Range(pending) \ {Head(pending)}
          /\ IsInjective(pending')
          /\ due' = due /\ retry' = retry
      BY <1>0, <1>3, TailRange DEF PopHead
    <2> QED BY <1>0, <2>1 DEF NoRepeats, Queued
  <1>4. ASSUME cur.id \in Ids \ Range(pending), StoreRetry
        PROVE  /\ NoRepeats' /\ Queued' = Queued \union {cur.id}
               /\ pending' = pending
    <2>1. /\ Range(due') = Range(due) \ {cur.id} /\ IsInjective(due')
          /\ retry' = retry \union {cur.id} /\ pending' = pending
      BY <1>0, <1>4, WithoutRange DEF StoreRetry
    <2> QED BY <1>0, <1>4, <2>1 DEF NoRepeats, Queued
  <1>5. ASSUME NEW i \in Ids, BecomeDue(i)
        PROVE  NoRepeats' /\ Queued' = Queued
    <2>1. /\ i \in retry /\ retry' = retry \ {i}
          /\ due' = Append(due, i) /\ pending' = pending
      BY <1>5 DEF BecomeDue
    <2>2. i \notin Range(due) /\ i \notin Range(pending)
      BY <1>0, <2>1
    <2>3. Range(due') = Range(due) \union {i} /\ IsInjective(due')
      BY <1>0, <2>1, <2>2, AppendRange
    <2> QED BY <1>0, <2>1, <2>2, <2>3 DEF NoRepeats, Queued
  <1>6. ASSUME UNCHANGED <<pending, retry, due>>
        PROVE  NoRepeats' /\ Queued' = Queued
    BY <1>6, <1>0 DEF NoRepeats, Queued
  <1> QED BY <1>1, <1>2, <1>3, <1>4, <1>5, <1>6

\* What each step does to the hashes.
LEMMA HashSteps ==
  ASSUME TypeInv
  PROVE  /\ \A i \in Ids : StoreQueued(i) =>
              /\ \A j \in Ids \ {i} : hash'[j] = hash[j]
              /\ hash'[i] # NoHash => hash'[i].attempts = 0
         /\ MoveDue \/ PopHead \/ UNCHANGED redis => hash' = hash
         /\ cur.id \in Ids /\ StoreClaim =>
              /\ \A j \in Ids \ {cur.id} : hash'[j] = hash[j]
              /\ IsWhole(hash'[cur.id]) => Whole(cur.id)
              /\ hash'[cur.id].attempts = cur.attempts + 1
         /\ cur.id \in Ids /\ (StoreSent \/ StoreFailed \/ StoreRetry) =>
              /\ \A j \in Ids \ {cur.id} : hash'[j] = hash[j]
              /\ IsWhole(hash'[cur.id]) => /\ Whole(cur.id)
                                   /\ hash'[cur.id].attempts = hash[cur.id].attempts
  <1>0. hash \in [Ids -> Hash \union {NoHash}]
    BY DEF TypeInv, TypeOK, RedisTypeOK
  <1>1. ASSUME NEW i \in Ids, StoreQueued(i)
        PROVE  /\ \A j \in Ids \ {i} : hash'[j] = hash[j]
               /\ hash'[i] # NoHash => hash'[i].attempts = 0
    BY <1>0, <1>1 DEF StoreQueued
  <1>2. MoveDue \/ PopHead \/ UNCHANGED redis => hash' = hash
    BY DEF MoveDue, PopHead, redis
  <1>3. ASSUME cur.id \in Ids, StoreClaim
        PROVE  /\ \A j \in Ids \ {cur.id} : hash'[j] = hash[j]
               /\ hash'[cur.id].attempts = cur.attempts + 1
               /\ hash'[cur.id].fields =
                    IF hash[cur.id] = NoHash THEN "some" ELSE hash[cur.id].fields
    BY <1>0, <1>3 DEF StoreClaim, WithClaim
  <1>4. ASSUME cur.id \in Ids, StoreClaim
        PROVE  IsWhole(hash'[cur.id]) => Whole(cur.id)
    BY <1>3, <1>4 DEF Whole, IsWhole
  <1>5. ASSUME cur.id \in Ids, NEW s, hash' = WithStatus(cur.id, s)
        PROVE  /\ \A j \in Ids \ {cur.id} : hash'[j] = hash[j]
               /\ IsWhole(hash'[cur.id]) => /\ Whole(cur.id)
                                    /\ hash'[cur.id].attempts = hash[cur.id].attempts
    BY <1>0, <1>5 DEF WithStatus, Whole, IsWhole, Hash
  <1> QED BY <1>1, <1>2, <1>3, <1>4, <1>5 DEF StoreSent, StoreFailed, StoreRetry

\* A notification stays in one place: an id enters the queue from the caller
\* (fresh) or from the hands that let go of it, and the hands take it from the
\* queue.
LEMMA PlaceStep ==
  ASSUME TypeInv, OnePlace, UsedIds, [Next]_vars
  PROVE  OnePlace' /\ UsedIds'
  <1>n. NoId \notin Ids /\ NoRepeats /\ Range(pending) \subseteq Queued
    BY QueueAssumption DEF OnePlace, Queued
  <1>q. UNCHANGED redis
          => NoRepeats' /\ Queued' = Queued /\ hash' = hash /\ pending' = pending
    BY <1>n, QueuedSteps DEF redis
  <1>h. /\ StoreClaim \/ StoreSent \/ StoreFailed
             => NoRepeats' /\ Queued' = Queued /\ pending' = pending
        /\ cur.id \in Ids /\ (StoreClaim \/ StoreSent \/ StoreFailed \/ StoreRetry)
             => \A j \in Ids \ {cur.id} : hash'[j] = hash[j]
    BY <1>n, QueuedSteps, HashSteps DEF StoreClaim, StoreSent, StoreFailed
  <1>c. NoNotification.id = NoId
    BY DEF NoNotification
  \* In every step but the repeated ZADD the queue and the hands are disjoint.
  <1>d. pc # "recover" \/ LastAttempt => Hands \intersect Queued = {}
    BY DEF OnePlace, Redoing
  <1> USE DEF OnePlace, UsedIds, Hands
  <1>1. CASE Start
    BY <1>1, <1>q, <1>c DEF Start, history, TypeInv, WorkerShape
  <1>2. CASE StartDegraded
    <2>1. UNCHANGED <<pc, cur>> /\ Redoing' = Redoing
      BY <1>2 DEF StartDegraded, Redoing, LastAttempt
    <2> QED BY <1>2, <2>1, <1>q DEF StartDegraded, history
  <1>3. CASE Halt
    BY <1>3, <1>q, <1>c DEF Halt, history
  <1>4. ASSUME NEW i \in Ids, MayEnqueue(i), StoreQueued(i), UNCHANGED <<pc, cur>>,
               UNCHANGED <<settled, acked, sends>>,
               accepted' = accepted \union {i} \/ UNCHANGED accepted
        PROVE  OnePlace' /\ UsedIds'
    <2>1. i \notin used /\ used' = used \union {i}
      BY <1>4 DEF MayEnqueue, Fresh
    <2>2. /\ NoRepeats' /\ Queued' = Queued \union {i}
          /\ Range(pending') = Range(pending) \union {i}
      BY <1>4, <2>1, <1>n, QueuedSteps
    <2>3. \A j \in Ids \ {i} : hash'[j] = hash[j]
      BY <1>4, HashSteps
    <2>4. Redoing' = Redoing
      BY <1>4 DEF Redoing, LastAttempt
    <2> QED BY <1>4, <2>1, <2>2, <2>3, <2>4
  <1>5. ASSUME NEW i \in Ids, EnqueueRaises(i), UNCHANGED redis
        PROVE  OnePlace' /\ UsedIds'
    <2>1. UNCHANGED <<pc, cur>> /\ Redoing' = Redoing
      BY <1>5 DEF EnqueueRaises, process, Redoing, LastAttempt
    <2> QED BY <1>5, <2>1, <1>q DEF EnqueueRaises, MayEnqueue
  <1>6. CASE ProcessRetries \/ ProcessRetriesRaises
    <2>1. cur.id = NoId /\ cur' = cur /\ UNCHANGED history
      BY <1>6 DEF ProcessRetries, ProcessRetriesRaises, At, TypeInv, WorkerShape
    <2>2. NoRepeats' /\ Queued' = Queued /\ hash' = hash
      BY <1>6, <1>q, <1>n, QueuedSteps, HashSteps
         DEF ProcessRetries, ProcessRetriesRaises
    <2> QED BY <2>1, <2>2 DEF history
  <1>7. ASSUME Pop \/ PopRaises, PopHead
        PROVE  OnePlace' /\ UsedIds'
    <2>1. /\ NoRepeats' /\ Head(pending) \in Queued
          /\ Queued' = Queued \ {Head(pending)}
          /\ Head(pending) \notin Range(pending')
      BY <1>7, <1>n, QueuedSteps
    <2>2. hash' = hash
      BY <1>7, HashSteps
    <2>3. cur.id = NoId
      BY <1>7 DEF Pop, PopRaises, At, TypeInv, WorkerShape
    <2>4. UNCHANGED history /\ (cur'.id = Head(pending) \/ cur' = cur)
      BY <1>7 DEF Pop, PopRaises, history, NoNotification
    <2>5. Hands' = {Head(pending)} \/ Hands' = {}
      BY <2>3, <2>4
    <2> QED BY <2>1, <2>2, <2>4, <2>5 DEF history
  <1>8. CASE PopTimesOut \/ (PopRaises /\ UNCHANGED redis)
    <2>1. cur.id = NoId /\ cur' = cur /\ UNCHANGED history
      BY <1>8 DEF PopTimesOut, PopRaises, At, TypeInv, WorkerShape
    <2> QED BY <1>8, <2>1, <1>q DEF PopTimesOut, history
  <1>9. CASE Fetch \/ FetchNothing \/ FetchRaises
    <2>1. cur'.id = cur.id \/ cur'.id = NoId
      BY <1>9, <1>c DEF Fetch, FetchNothing, FetchRaises, LetGo,
         TypeInv, TypeOK, ProcessTypeOK
    <2>2. Hands \intersect Queued = {}
      BY <1>9, <1>d DEF Fetch, FetchNothing, FetchRaises, At
    <2> QED BY <1>9, <2>1, <2>2, <1>q DEF Fetch, FetchNothing, FetchRaises, history
  <1>10. ASSUME NEW i \in Ids, FetchPartial(i)
         PROVE  OnePlace' /\ UsedIds'
    <2>1. i \notin used /\ used' = used \union {i} /\ cur'.id = i
      BY <1>10 DEF FetchPartial, Fresh
    <2>2. UNCHANGED <<redis, accepted, settled, acked, sends>>
      BY <1>10 DEF FetchPartial
    <2> QED BY <2>1, <2>2, <1>q, <1>n
  <1>11. CASE Claim \/ ClaimRaises
    <2>1. /\ cur.id \in Ids /\ cur.id \in used
          /\ Hands \intersect Queued = {}
      BY <1>11, <1>n, <1>d, HandsFull DEF Claim, ClaimRaises, At
    <2>2. cur'.id = cur.id /\ UNCHANGED history
      BY <1>11 DEF Claim, ClaimRaises, TakeAttempt, TypeInv, TypeOK, ProcessTypeOK
    <2>3. StoreClaim \/ UNCHANGED redis
      BY <1>11 DEF Claim, ClaimRaises
    <2> QED BY <2>1, <2>2, <2>3, <1>q, <1>h DEF history
  <1>12. CASE CallSucceeds \/ CallFails
    <2>1. /\ cur.id \in Ids /\ cur.id \in used
          /\ Hands \intersect Queued = {}
      BY <1>12, <1>n, <1>d, HandsFull DEF CallSucceeds, CallFails, At
    <2>2. \A j \in Ids \ {cur.id} : sends'[j] = sends[j]
      BY <1>12, <2>1 DEF CallSucceeds, CallFails, TypeInv, TypeOK, HistoryTypeOK
    <2> QED BY <1>12, <2>1, <2>2, <1>q DEF CallSucceeds, CallFails
  <1>13. CASE RecordSent \/ GiveUp \/ GiveUpNoMethod \/ GiveUpRaises
    <2>1. /\ cur.id \in Ids /\ cur.id \in used /\ cur.id # NoId
          /\ Hands \intersect Queued = {}
      BY <1>13, <1>n, <1>d, HandsFull
         DEF RecordSent, GiveUp, GiveUpNoMethod, GiveUpRaises, At
    <2>2. /\ \/ cur'.id = NoId /\ settled' = settled \union {cur.id}
             \/ cur' = cur /\ settled' = settled
          /\ UNCHANGED <<used, accepted, acked, sends>>
      BY <1>13, <1>c DEF RecordSent, GiveUp, GiveUpNoMethod, GiveUpRaises,
         LetGo, Escalate, GivenUp
    <2>3. StoreSent \/ StoreFailed \/ UNCHANGED redis
      BY <1>13 DEF RecordSent, GiveUp, GiveUpNoMethod, GiveUpRaises
    <2>4. /\ NoRepeats' /\ Queued' = Queued /\ pending' = pending
          /\ \A j \in Ids \ {cur.id} : hash'[j] = hash[j]
      BY <2>1, <2>3, <1>q, <1>h
    <2> QED BY <2>1, <2>2, <2>4, <1>n
  <1>14. CASE RecordSentNoMethod \/ RecordSentRaises
    <2>1. /\ cur.id \in Ids /\ cur.id \in used
          /\ Hands \intersect Queued = {}
      BY <1>14, <1>n, <1>d, HandsFull DEF RecordSentNoMethod, RecordSentRaises, At
    <2>2. cur' = cur /\ UNCHANGED history
      BY <1>14 DEF RecordSentNoMethod, RecordSentRaises
    <2>3. StoreSent \/ UNCHANGED redis
      BY <1>14 DEF RecordSentNoMethod, RecordSentRaises
    <2> QED BY <2>1, <2>2, <2>3, <1>q, <1>h DEF history
  <1>15. CASE ScheduleRetry \/ ScheduleRetryRaises
    <2>1. /\ cur.id \in Ids /\ cur.id \in used
          /\ cur.id \notin Range(pending) \union settled
          /\ cur.id # NoId /\ ~ LastAttempt
      BY <1>15, <1>n, HandsFull DEF ScheduleRetry, ScheduleRetryRaises
    <2>2. /\ UNCHANGED history
          /\ cur'.id = NoId \/ (cur' = cur /\ pc' = "recover")
      BY <1>15, <1>c DEF ScheduleRetry, ScheduleRetryRaises, LetGo, Escalate
    <2>3. cur' = cur /\ pc' = "recover" => Redoing'
      BY <2>1 DEF Redoing, LastAttempt
    <2>4. CASE StoreRetry
      <3>1. /\ NoRepeats' /\ Queued' = Queued \union {cur.id}
            /\ pending' = pending
        BY <2>1, <2>4, <1>n, QueuedSteps
      <3> QED BY <2>1, <2>2, <2>3, <2>4, <3>1, <1>n, <1>h DEF history
    <2>5. CASE UNCHANGED redis
      BY <2>1, <2>2, <2>3, <2>5, <1>n, <1>q DEF history
    <2> QED BY <1>15, <2>4, <2>5 DEF ScheduleRetry, ScheduleRetryRaises
  <1>16. ASSUME NEW i \in Ids, BecomeDue(i)
         PROVE  OnePlace' /\ UsedIds'
    <2>1. NoRepeats' /\ Queued' = Queued
      BY <1>16, <1>n, QueuedSteps
    <2>2. UNCHANGED <<pending, hash, pc, cur, history>> /\ Redoing' = Redoing
      BY <1>16 DEF BecomeDue, process, Redoing, LastAttempt
    <2> QED BY <2>1, <2>2 DEF history
  <1>17. ASSUME NEW i \in Ids, Expire(i)
         PROVE  OnePlace' /\ UsedIds'
    <2>1. NoRepeats' /\ Queued' = Queued
      BY <1>17, <1>n, QueuedSteps DEF Expire
    <2>2. \A j \in Ids : hash'[j] = hash[j] \/ hash'[j] = NoHash
      BY <1>17 DEF Expire, TypeInv, TypeOK, RedisTypeOK
    <2>3. UNCHANGED <<pending, pc, cur, history>> /\ Redoing' = Redoing
      BY <1>17 DEF Expire, process, Redoing, LastAttempt
    <2> QED BY <2>1, <2>2, <2>3 DEF history
  <1>18. CASE UNCHANGED vars
    <2>1. UNCHANGED <<redis, pc, cur, history>> /\ Redoing' = Redoing
      BY <1>18 DEF vars, process, Redoing, LastAttempt
    <2> QED BY <2>1, <1>q DEF history
  <1> QED
    BY <1>1, <1>2, <1>3, <1>4, <1>5, <1>6, <1>7, <1>8, <1>9, <1>10, <1>11,
       <1>12, <1>13, <1>14, <1>15, <1>16, <1>17, <1>18
    DEF Next, Worker, WorkerRaises, Enqueue, EnqueueRaises, Pop, PopRaises, process

\* The stored attempts: the count in the worker's hands is one that Redis
\* holds too, as long as the hash is whole.
LEMMA AttemptsStep ==
  ASSUME IInv, [Next]_vars
  PROVE  BoundedSends' /\ AttemptsInRedis' /\ AttemptsInHands'
  <1>t. /\ TypeInv /\ OnePlace /\ UsedIds /\ NoRepeats /\ NoId \notin Ids
        /\ sends \in [Ids -> Nat] /\ cur.attempts \in Nat
        /\ cur.fields \in {"all", "some"}
        /\ \A i \in Ids : Whole(i) => hash[i].attempts \in Nat
        /\ Queued \subseteq Ids
    BY QueueAssumption DEF IInv, OnePlace, TypeInv, TypeOK, RedisTypeOK, UsedIds,
       ProcessTypeOK, HistoryTypeOK, Hash, Fields, Whole, IsWhole
  <1>l. Limit \in Nat \ {0} /\ MaxRetries <= Limit
    BY LimitNat
  <1>i. BoundedSends /\ AttemptsInRedis /\ AttemptsInHands
    BY DEF IInv
  <1>q. /\ UNCHANGED redis => Queued' = Queued /\ hash' = hash
        /\ MoveDue => Queued' = Queued /\ hash' = hash
    BY <1>t, QueuedSteps, HashSteps DEF redis
  <1>h. StoreClaim \/ StoreSent \/ StoreFailed => Queued' = Queued
    BY <1>t, QueuedSteps DEF StoreClaim, StoreSent, StoreFailed
  <1>c. NoNotification.id = NoId
    BY DEF NoNotification
  \* Steps that neither call nor touch a hash, and leave the hands empty.
  <1>e. ASSUME pc' \in {"off", "poll", "dequeue"}, UNCHANGED <<hash, sends>>,
               Queued' \subseteq Queued
        PROVE  BoundedSends' /\ AttemptsInRedis' /\ AttemptsInHands'
    BY <1>i, <1>e DEF BoundedSends, AttemptsInRedis, AttemptsInHands, Whole
  \* Steps that leave the worker, its hash and the sends alone.
  <1>k. ASSUME UNCHANGED <<pc, cur, sends, hash>>, Queued' = Queued
        PROVE  BoundedSends' /\ AttemptsInRedis' /\ AttemptsInHands'
    BY <1>i, <1>k DEF BoundedSends, AttemptsInRedis, AttemptsInHands, Whole
  <1>1. CASE Start \/ Halt
    BY <1>1, <1>e, <1>q DEF Start, Halt, redis, history
  <1>2. CASE StartDegraded
    BY <1>2, <1>k, <1>q DEF StartDegraded, redis, history
  <1>3. ASSUME NEW i \in Ids, MayEnqueue(i), StoreQueued(i),
               UNCHANGED <<pc, cur, sends>>
        PROVE  BoundedSends' /\ AttemptsInRedis' /\ AttemptsInHands'
    <2>1. i \notin used /\ i \notin Queued /\ sends[i] = 0
      BY <1>3, <1>t DEF MayEnqueue, Fresh, UsedIds
    <2>2. Queued' = Queued \union {i}
      BY <1>3, <2>1, <1>t, QueuedSteps
    <2>3. /\ \A j \in Ids \ {i} : hash'[j] = hash[j]
          /\ hash'[i] # NoHash => hash'[i].attempts = 0
      BY <1>3, <1>t, HashSteps
    <2>4. BoundedSends'
      BY <1>3, <1>i DEF BoundedSends
    <2>5. AttemptsInRedis'
      BY <1>3, <2>1, <2>2, <2>3, <1>t, <1>i, <1>l
         DEF AttemptsInRedis, Whole, IsWhole
    <2>6. pc \notin {"off", "poll", "dequeue"} => cur.id \in Ids \ {i}
      BY <2>1, <1>t DEF TypeInv, TypeOK, ProcessTypeOK, WorkerShape, UsedIds, Hands
    <2>7. AttemptsInHands'
      BY <1>3, <2>3, <2>6, <1>i DEF AttemptsInHands, Whole
    <2> QED BY <2>4, <2>5, <2>7
  <1>4. ASSUME NEW i \in Ids, EnqueueRaises(i), UNCHANGED redis
        PROVE  BoundedSends' /\ AttemptsInRedis' /\ AttemptsInHands'
    BY <1>4, <1>k, <1>q DEF EnqueueRaises, process
  <1>5. CASE ProcessRetries \/ ProcessRetriesRaises
    BY <1>5, <1>e, <1>q DEF ProcessRetries, ProcessRetriesRaises, history
  <1>6. ASSUME Pop
        PROVE  BoundedSends' /\ AttemptsInRedis' /\ AttemptsInHands'
    <2>1. /\ Queued' \subseteq Queued /\ Head(pending) \in Queued
          /\ hash' = hash /\ sends' = sends /\ pc' = "fetch"
          /\ cur'.id = Head(pending)
      BY <1>6, <1>t, QueuedSteps, HashSteps DEF Pop, history, NoNotification
    <2> QED BY <2>1, <1>i
          DEF BoundedSends, AttemptsInRedis, AttemptsInHands, Whole
  <1>7. CASE PopTimesOut \/ PopRaises
    <2>1. Queued' \subseteq Queued /\ hash' = hash
      BY <1>7, <1>q, <1>t, QueuedSteps, HashSteps DEF PopTimesOut, PopRaises
    <2> QED BY <1>7, <2>1, <1>e DEF PopTimesOut, PopRaises, history
  <1>8. CASE Fetch
    <2>1. /\ Whole(cur.id) /\ cur.id \in Ids /\ pc = "fetch" /\ pc' = "claim"
          /\ cur'.id = cur.id /\ cur'.attempts = hash[cur.id].attempts
          /\ cur'.fields = "all" /\ UNCHANGED <<redis, sends>>
      BY <1>8, <1>t, HandsFull DEF Fetch, At, Whole, IsWhole, history,
         TypeInv, TypeOK, ProcessTypeOK
    <2> QED BY <2>1, <1>i, <1>q, <1>t
          DEF BoundedSends, AttemptsInRedis, AttemptsInHands, Whole
  <1>9. CASE FetchNothing \/ FetchRaises
    BY <1>9, <1>e, <1>q DEF FetchNothing, FetchRaises, LetGo, history
  <1>10. ASSUME NEW i \in Ids, FetchPartial(i)
         PROVE  BoundedSends' /\ AttemptsInRedis' /\ AttemptsInHands'
    <2>1. /\ i \notin used /\ cur'.id = i /\ cur'.fields = "some"
          /\ pc' = "claim" /\ UNCHANGED <<redis, sends>>
      BY <1>10 DEF FetchPartial, Fresh
    <2>2. hash[i] = NoHash /\ sends[i] = 0
      BY <2>1, <1>t DEF UsedIds
    <2> QED BY <2>1, <2>2, <1>i, <1>q
          DEF BoundedSends, AttemptsInRedis, AttemptsInHands, Whole, IsWhole
  <1>11. CASE Claim \/ ClaimRaises
    <2>1. /\ cur.id \in Ids /\ cur.id \notin Queued /\ pc = "claim"
          /\ pc' \in {"call", "recover"} /\ sends' = sends
          /\ cur'.id = cur.id /\ cur'.attempts = cur.attempts + 1
          /\ cur'.fields = cur.fields
      BY <1>11, <1>t, HandsFull
         DEF Claim, ClaimRaises, At, TakeAttempt, history, OnePlace, Hands,
             Redoing, TypeInv, TypeOK, ProcessTypeOK
    <2>2. /\ StoreClaim \/ (UNCHANGED redis /\ pc' = "recover")
          /\ Queued' = Queued
      BY <1>11, <1>q, <1>h DEF Claim, ClaimRaises
    <2>3. /\ \A j \in Ids \ {cur.id} : hash'[j] = hash[j]
          /\ IsWhole(hash'[cur.id]) =>
               /\ Whole(cur.id)
               /\ \/ hash'[cur.id].attempts = cur.attempts + 1
                  \/ hash'[cur.id] = hash[cur.id] /\ pc' = "recover"
      BY <2>1, <2>2, <1>q, <1>t, HashSteps DEF Whole
    <2>4. BoundedSends'
      BY <2>1, <1>i DEF BoundedSends
    <2>5. AttemptsInRedis'
      BY <2>1, <2>2, <2>3, <1>i, <1>t
         DEF AttemptsInRedis, AttemptsInHands, Whole
    <2>6. AttemptsInHands'
      BY <2>1, <2>3, <1>i, <1>t, <1>l DEF AttemptsInHands, Whole
    <2> QED BY <2>4, <2>5, <2>6
  <1>12. CASE CallSucceeds \/ CallFails
    <2>1. /\ cur.id \in Ids /\ pc = "call" /\ pc' \in {"record", "fail", "recover"}
          /\ cur' = cur /\ UNCHANGED redis
          /\ sends' = [sends EXCEPT ![cur.id] = @ + 1]
      BY <1>12, <1>t, HandsFull DEF CallSucceeds, CallFails, At
    <2>2. /\ sends'[cur.id] = sends[cur.id] + 1
          /\ \A j \in Ids \ {cur.id} : sends'[j] = sends[j]
          /\ sends[cur.id] \in Nat
      BY <2>1, <1>t
    <2>3. hash' = hash /\ Queued' = Queued
      BY <2>1, <1>q
    <2>4. BoundedSends'
      BY <2>1, <2>2, <1>i, <1>t, <1>l DEF BoundedSends, AttemptsInHands, Limit
    <2>5. AttemptsInRedis'
      BY <2>1, <2>2, <2>3, <1>i, <1>t
         DEF AttemptsInRedis, AttemptsInHands, Whole
    <2>6. AttemptsInHands'
      BY <2>1, <2>3, <1>i DEF AttemptsInHands, Whole
    <2> QED BY <2>4, <2>5, <2>6
  \* Steps that write a status over the hash in hand, which keeps its count.
  <1>w. ASSUME cur.id \in Ids, sends' = sends,
               \/ pc' = "poll"
               \/ /\ pc \in {"record", "fail"} /\ pc' = "recover" /\ cur' = cur,
               StoreSent \/ StoreFailed \/ StoreRetry \/ UNCHANGED redis,
               \/ Queued' = Queued
               \/ Queued' = Queued \union {cur.id} /\ pc # "record" /\ ~ LastAttempt
                  /\ pc \in {"fail", "recover"}
        PROVE  BoundedSends' /\ AttemptsInRedis' /\ AttemptsInHands'
    <2>1. \A j \in Ids : IsWhole(hash'[j]) =>
            Whole(j) /\ hash'[j].attempts = hash[j].attempts
      BY <1>w, <1>q, <1>t, HashSteps DEF Whole
    <2>2. BoundedSends'
      BY <1>w, <1>i DEF BoundedSends
    <2>3. Whole(cur.id) /\ ~ LastAttempt /\ pc \in {"fail", "recover"}
            => hash[cur.id].attempts < Limit
      BY <1>w, <1>i, <1>t, <1>l, QueueAssumption
         DEF AttemptsInHands, LastAttempt, RetryLimit
    <2>4. AttemptsInRedis'
      BY <1>w, <2>1, <2>3, <1>i, <1>t DEF AttemptsInRedis, Whole
    <2>5. AttemptsInHands'
      BY <1>w, <2>1, <1>i DEF AttemptsInHands, Whole
    <2> QED BY <2>2, <2>4, <2>5
  <1>13. CASE RecordSent \/ GiveUp \/ GiveUpNoMethod \/ GiveUpRaises
    <2>1. cur.id \in Ids
      BY <1>13, <1>t, HandsFull DEF RecordSent, GiveUp, GiveUpNoMethod, GiveUpRaises
    <2>2. /\ sends' = sends
          /\ \/ pc' = "poll"
             \/ pc = "fail" /\ pc' = "recover" /\ cur' = cur
          /\ StoreSent \/ StoreFailed \/ UNCHANGED redis
      BY <1>13 DEF RecordSent, GiveUp, GiveUpNoMethod, GiveUpRaises, LetGo, Escalate
    <2>3. Queued' = Queued
      BY <2>2, <1>q, <1>h
    <2> QED BY <2>1, <2>2, <2>3, <1>w
  <1>14. CASE RecordSentNoMethod \/ RecordSentRaises
    <2>1. cur.id \in Ids
      BY <1>14, <1>t, HandsFull DEF RecordSentNoMethod, RecordSentRaises
    <2>2. /\ pc = "record" /\ pc' = "recover" /\ cur' = cur /\ sends' = sends
          /\ StoreSent \/ UNCHANGED redis
      BY <1>14 DEF RecordSentNoMethod, RecordSentRaises, At, history
    <2>3. Queued' = Queued
      BY <2>2, <1>q, <1>h
    <2> QED BY <2>1, <2>2, <2>3, <1>w
  <1>15. CASE ScheduleRetry \/ ScheduleRetryRaises
    <2>1. cur.id \in Ids /\ cur.id \notin Range(pending)
      BY <1>15, <1>t, HandsFull, QueueAssumption
         DEF ScheduleRetry, ScheduleRetryRaises, OnePlace, Hands
    <2>2. /\ pc \in {"fail", "recover"} /\ sends' = sends /\ ~ LastAttempt
          /\ pc' = "poll" \/ (pc = "fail" /\ pc' = "recover" /\ cur' = cur)
          /\ StoreRetry \/ UNCHANGED redis
      BY <1>15 DEF ScheduleRetry, ScheduleRetryRaises, Failing, LetGo, Escalate,
         history
    <2>3. Queued' = Queued \union {cur.id} \/ Queued' = Queued
      BY <2>1, <2>2, <1>q, <1>t, QueuedSteps
    <2> QED BY <2>1, <2>2, <2>3, <1>w
  <1>16. ASSUME NEW i \in Ids, BecomeDue(i)
         PROVE  BoundedSends' /\ AttemptsInRedis' /\ AttemptsInHands'
    <2>1. Queued' = Queued
      BY <1>16, <1>t, QueuedSteps
    <2> QED BY <1>16, <2>1, <1>k DEF BecomeDue, process, history
  <1>17. ASSUME NEW i \in Ids, Expire(i)
         PROVE  BoundedSends' /\ AttemptsInRedis' /\ AttemptsInHands'
    <2>1. /\ Queued' = Queued
          /\ UNCHANGED <<pc, cur, sends>>
      BY <1>17, <1>t, QueuedSteps DEF Expire, process, history
    <2>2. \A j \in Ids : hash'[j] = hash[j] \/ ~ IsWhole(hash'[j])
      BY <1>17, <1>t DEF Expire, TypeInv, TypeOK, RedisTypeOK, IsWhole
    <2>3. pc \notin {"off", "poll", "dequeue"} => cur.id \in Ids
      BY <1>t DEF TypeInv, TypeOK, ProcessTypeOK, WorkerShape
    <2>4. BoundedSends' /\ AttemptsInRedis'
      BY <2>1, <2>2, <1>i, <1>t DEF BoundedSends, AttemptsInRedis, Whole
    <2>5. AttemptsInHands'
      BY <2>1, <2>2, <2>3, <1>i DEF AttemptsInHands, Whole
    <2> QED BY <2>4, <2>5
  <1>18. CASE UNCHANGED vars
    BY <1>18, <1>k, <1>q DEF vars, process, history
  <1> QED
    BY <1>1, <1>2, <1>3, <1>4, <1>5, <1>6, <1>7, <1>8, <1>9, <1>10, <1>11,
       <1>12, <1>13, <1>14, <1>15, <1>16, <1>17, <1>18
    DEF Next, Worker, WorkerRaises, Enqueue, EnqueueRaises, process

LEMMA Invariance == Spec => []IInv
  <1>1. Init => IInv
    <2> SUFFICES ASSUME Init PROVE IInv
      OBVIOUS
    <2>1. TypeInv
      BY QueueAssumption
      DEF Init, TypeInv, TypeOK, RedisTypeOK, ProcessTypeOK, HistoryTypeOK,
          FaultsTypeOK, WorkerShape, NoNotification, NoLocal, Fields
    <2>2. Queued = {} /\ Hands = {} /\ NoRepeats
      BY DEF Init, Queued, Hands, NoNotification, NoRepeats, Range, IsInjective
    <2> QED BY <2>1, <2>2, LimitNat
      DEF Init, IInv, OnePlace, UsedIds, BoundedSends, AttemptsInRedis,
          AttemptsInHands, Limit, Whole, IsWhole
  <1>2. IInv /\ [Next]_vars => IInv'
    BY TypeStep, PlaceStep, AttemptsStep DEF IInv
  <1> QED BY <1>1, <1>2, PTL DEF Spec

-----------------------------------------------------------------------------
(* The theorems *)

\* A notification is never in two places of the queue at once, nor twice in
\* one: whatever fails or raises on the way, the worker is never going to run
\* the callback for it in two turns.
THEOREM OnePlaceForEach == Spec => []OnePlace
  BY Invariance, PTL DEF IInv

\* The retry limit holds across crashes, Redis calls that raise and hashes
\* that expire, with any number of them.
THEOREM SendsBounded == Spec => []BoundedSends
  BY Invariance, PTL DEF IInv

\* The attempt is in Redis before the callback runs: no restart makes the
\* worker forget a send.
THEOREM SendsCounted == Spec => []SendsAreCounted
  <1>1. IInv => SendsAreCounted
    BY DEF IInv, AttemptsInRedis, SendsAreCounted, Whole, IsWhole
  <1> QED BY <1>1, Invariance, PTL

-----------------------------------------------------------------------------
(* The queue implements NotificationDelivery *)

PhaseMap == [i \in Ids |-> Phase(i)]

\* One place per notification makes the cases of Phase disjoint.
LEMMA PhaseValues ==
  ASSUME OnePlace, UsedIds, NEW i \in Ids
  PROVE  /\ i \in settled => Phase(i) = "settled"
         /\ i \in Hands \ Queued => Phase(i) = "working"
         /\ Phase(i) = "working" => i \in Hands
         /\ i \in Queued => Phase(i) = "waiting"
         /\ i \notin used => Phase(i) = "new"
  <1>1. i \in settled => Phase(i) = "settled"
    BY DEF Phase
  <1>2. i \in Queued => i \notin settled
    BY DEF OnePlace
  <1>3. i \in Hands => i \notin settled
    BY DEF OnePlace
  <1>4. i \in Queued => Phase(i) = "waiting"
    BY <1>2 DEF Phase
  <1>5. i \in Hands \ Queued => Phase(i) = "working"
    BY <1>3 DEF Phase
  <1>6. i \notin Hands => Phase(i) # "working"
    BY DEF Phase
  <1>7. i \notin used => i \notin settled \union Queued \union Hands
    BY DEF UsedIds
  <1>8. i \notin used => Phase(i) = "new"
    BY <1>7 DEF Phase
  <1> QED BY <1>1, <1>4, <1>5, <1>6, <1>8

\* What moves one notification and leaves the others where they are.
LEMMA PhaseMoves ==
  ASSUME NEW i \in Ids,
         \A j \in Ids \ {i} : /\ j \in used' <=> j \in used
                              /\ j \in settled' <=> j \in settled
                              /\ j \in Hands' <=> j \in Hands
                              /\ j \in Queued' <=> j \in Queued
  PROVE  PhaseMap' = [PhaseMap EXCEPT ![i] = Phase(i)']
  <1>1. \A j \in Ids \ {i} : Phase(j)' = Phase(j)
    BY DEF Phase
  <1> QED BY <1>1 DEF PhaseMap

LEMMA PhaseSteady ==
  ASSUME UNCHANGED <<used, settled>>, Hands' = Hands, Queued' = Queued
  PROVE  PhaseMap' = PhaseMap
  BY DEF PhaseMap, Phase

LEMMA DeliveryStep ==
  ASSUME IInv, IInv', [Next]_vars
  PROVE  [Delivery!DeliveryNext]_(Delivery!deliveryVars)
  <1> DEFINE Abstract == [Delivery!DeliveryNext]_(Delivery!deliveryVars)
  <1>t. /\ TypeInv /\ OnePlace /\ UsedIds /\ NoRepeats /\ NoId \notin Ids
        /\ TypeInv' /\ OnePlace' /\ UsedIds'
        /\ sends \in [Ids -> Nat] /\ Queued \subseteq Ids
        /\ NoNotification.id = NoId
    BY QueueAssumption DEF IInv, OnePlace, UsedIds, TypeInv, TypeOK,
       HistoryTypeOK, NoNotification
  <1>p. ASSUME NEW i \in Ids
        PROVE  /\ i \in settled => Phase(i) = "settled"
               /\ i \in Hands \ Queued => Phase(i) = "working"
               /\ i \in Queued => Phase(i) = "waiting"
               /\ i \notin used => Phase(i) = "new"
    BY <1>t, PhaseValues
  <1>d. ASSUME NEW i \in Ids
        PROVE  /\ i \in settled' => Phase(i)' = "settled"
               /\ i \in Hands' \ Queued' => Phase(i)' = "working"
               /\ i \in Queued' => Phase(i)' = "waiting"
               /\ i \in used' \ (settled' \union Hands' \union Queued')
                    => Phase(i)' = "lost"
    <2>1. i \in settled' => Phase(i)' = "settled"
      BY DEF Phase
    <2>2. i \in Queued' \union Hands' => i \notin settled'
      BY <1>t DEF OnePlace
    <2>3. i \in Queued' => Phase(i)' = "waiting"
      BY <2>2 DEF Phase
    <2>4. i \in Hands' \ Queued' => Phase(i)' = "working"
      BY <2>2 DEF Phase
    <2>5. i \in used' \ (settled' \union Hands' \union Queued')
             => Phase(i)' = "lost"
      BY DEF Phase
    <2> QED BY <2>1, <2>3, <2>4, <2>5
  <1>q. /\ UNCHANGED redis => Queued' = Queued
        /\ MoveDue => Queued' = Queued
        /\ StoreClaim \/ StoreSent \/ StoreFailed => Queued' = Queued
    BY <1>t, QueuedSteps DEF redis, StoreClaim, StoreSent, StoreFailed
  <1>s. ASSUME UNCHANGED <<used, settled, sends>>, Hands' = Hands, Queued' = Queued
        PROVE  Abstract
    BY <1>s, PhaseSteady DEF Delivery!deliveryVars, PhaseMap
  \* One notification changes its phase, none is sent.
  <1>m. ASSUME NEW i \in Ids, UNCHANGED sends,
               \A j \in Ids \ {i} : /\ j \in used' <=> j \in used
                                    /\ j \in settled' <=> j \in settled
                                    /\ j \in Hands' <=> j \in Hands
                                    /\ j \in Queued' <=> j \in Queued,
               \/ Phase(i) = "new" /\ Phase(i)' = "waiting"
               \/ Phase(i) = "waiting" /\ Phase(i)' = "working" /\ Hands = {}
               \/ Phase(i) = "working" /\ Phase(i)' \in {"waiting", "settled"}
               \/ Phase(i) \in {"new", "waiting", "working"} /\ Phase(i)' = "lost"
        PROVE  Abstract
    <2>1. PhaseMap' = [PhaseMap EXCEPT ![i] = Phase(i)']
      BY <1>m, PhaseMoves
    <2>2. PhaseMap[i] = Phase(i)
      BY DEF PhaseMap
    <2>3. Hands = {} => \A j \in Ids : PhaseMap[j] # "working"
      BY <1>t, PhaseValues DEF PhaseMap
    <2>4. Delivery!Accept(i) \/ Delivery!Take(i) \/ Delivery!Requeue(i)
            \/ Delivery!Settle(i) \/ Delivery!Lose(i)
      BY <1>m, <2>1, <2>2, <2>3
         DEF Delivery!Accept, Delivery!Take, Delivery!Requeue,
             Delivery!Settle, Delivery!Lose, Delivery!Goes, PhaseMap
    <2> QED BY <2>4 DEF Delivery!DeliveryNext
  <1>1. CASE Start \/ StartDegraded
    BY <1>1, <1>s, <1>q DEF Start, StartDegraded, history, Hands
  \* In every step but the repeated ZADD the hands hold no queued id.
  <1>o. pc # "recover" \/ LastAttempt => Hands \intersect Queued = {}
    BY <1>t DEF OnePlace, Redoing
  \* The worker lets go: what it held goes back to the queue, is settled, or lost.
  <1>7. ASSUME NEW i \in Ids, Hands = {i}, Hands' = {}, UNCHANGED <<used, sends>>,
               \/ Queued' = Queued /\ settled' = settled
               \/ Queued' = Queued \union {i} /\ settled' = settled
               \/ /\ Queued' = Queued /\ settled' = settled \union {i}
                  /\ i \notin Queued
        PROVE  Abstract
    <2>1. i \in used /\ i \notin settled
      BY <1>7, <1>t DEF UsedIds, OnePlace
    <2>2. CASE i \in Queued
      <3>1. Queued' = Queued /\ settled' = settled
        BY <1>7, <2>2
      <3>2. \A j \in Ids : Phase(j)' = Phase(j)
        BY <1>7, <2>2, <3>1 DEF Phase
      <3> QED BY <1>7, <3>2 DEF Delivery!deliveryVars
    <2>3. CASE i \notin Queued /\ Queued' = Queued /\ settled' = settled
      BY <1>7, <2>1, <2>3, <1>p, <1>d, <1>m
    <2>4. CASE i \notin Queued /\ Queued' = Queued \union {i} /\ settled' = settled
      BY <1>7, <2>1, <2>4, <1>p, <1>d, <1>m
    <2>5. CASE i \notin Queued /\ Queued' = Queued /\ settled' = settled \union {i}
      BY <1>7, <2>1, <2>5, <1>p, <1>d, <1>m
    <2> QED BY <1>7, <2>2, <2>3, <2>4, <2>5
  \* The second half of a failure: the worker holds on to the notification.
  <1>f. ASSUME NEW i \in Ids, Hands = {i}, Hands' = Hands,
               UNCHANGED <<used, settled, sends>>,
               Queued' = Queued \/ Queued' = Queued \union {i}
        PROVE  Abstract
    <2>1. i \notin settled
      BY <1>f, <1>t DEF OnePlace
    <2>2. CASE Queued' = Queued
      BY <1>f, <2>2, <1>s
    <2>3. CASE Queued' # Queued
      BY <1>f, <2>1, <2>3, <1>p, <1>d, <1>m
    <2> QED BY <2>2, <2>3
  <1>2. CASE Halt
    <2>1. /\ UNCHANGED <<used, settled, sends>> /\ Queued' = Queued
          /\ Hands' = {}
      BY <1>2, <1>t, <1>q DEF Halt, history, Hands
    <2>2. CASE Hands = {}
      BY <2>1, <2>2, <1>s
    <2>3. CASE Hands # {}
      <3>1. \E i \in Ids : Hands = {i}
        BY <2>3, <1>t DEF Hands, TypeInv, TypeOK, ProcessTypeOK
      <3> QED BY <2>1, <3>1, <1>7
    <2> QED BY <2>2, <2>3
  <1>3. ASSUME NEW i \in Ids, MayEnqueue(i),
               StoreQueued(i) \/ UNCHANGED redis,
               UNCHANGED <<cur, settled, sends>>
        PROVE  Abstract
    <2>1. i \notin used /\ used' = used \union {i} /\ i \notin Queued
          /\ Hands' = Hands /\ i \notin Hands /\ i \notin settled
      BY <1>3, <1>t DEF MayEnqueue, Fresh, UsedIds, Hands
    <2>2. CASE StoreQueued(i)
      <3>1. Queued' = Queued \union {i}
        BY <2>1, <2>2, <1>t, QueuedSteps
      <3> QED BY <1>3, <2>1, <3>1, <1>p, <1>d, <1>m
    <2>3. CASE UNCHANGED redis
      BY <1>3, <2>1, <2>3, <1>q, <1>p, <1>d, <1>m
    <2> QED BY <1>3, <2>2, <2>3
  <1>4. CASE ProcessRetries \/ ProcessRetriesRaises \/ PopTimesOut
               \/ (PopRaises /\ UNCHANGED redis)
    BY <1>4, <1>s, <1>q
       DEF ProcessRetries, ProcessRetriesRaises, PopTimesOut, PopRaises,
           history, Hands
  <1>5. ASSUME Pop \/ PopRaises, PopHead
        PROVE  Abstract
    <2> DEFINE i == Head(pending)
    <2>1. i \in Queued /\ Queued' = Queued \ {i} /\ i \in Ids
      BY <1>5, <1>t, QueuedSteps
    <2>2. /\ Hands = {} /\ UNCHANGED <<used, settled, sends>>
          /\ Hands' = {i} \/ Hands' = {}
      BY <1>5, <1>t, <2>1
         DEF Pop, PopRaises, At, history, Hands, NoNotification, TypeInv, WorkerShape
    <2>3. i \in used' /\ i \notin settled'
      BY <2>1, <2>2, <1>t DEF UsedIds, OnePlace
    <2> HIDE DEF i
    <2>4. CASE Hands' = {i}
      BY <2>1, <2>2, <2>3, <2>4, <1>p, <1>d, <1>m
    <2>5. CASE Hands' = {}
      BY <2>1, <2>2, <2>3, <2>5, <1>p, <1>d, <1>m
    <2> QED BY <2>2, <2>4, <2>5
  <1>6. CASE Fetch
    BY <1>6, <1>s, <1>q DEF Fetch, history, Hands, TypeInv, TypeOK, ProcessTypeOK
  \* One fact for the steps of a worker that holds a notification.
  <1>g. ASSUME cur.id \in Ids
        PROVE  \E i \in Ids : /\ i = cur.id /\ Hands = {i}
                              /\ cur'.id = NoId => Hands' = {}
                              /\ cur' = cur => Hands' = Hands
    BY <1>g, <1>t DEF Hands
  <1>8. CASE FetchNothing \/ FetchRaises
    <2>1. cur.id \in Ids
      BY <1>8, <1>t, HandsFull DEF FetchNothing, FetchRaises
    <2>2. /\ cur'.id = NoId /\ Queued' = Queued
          /\ UNCHANGED <<used, sends, settled>>
      BY <1>8, <1>q, <1>t DEF FetchNothing, FetchRaises, LetGo, history
    <2> QED BY <2>1, <2>2, <1>7, <1>g
  <1>9. ASSUME NEW i \in Ids, FetchPartial(i)
        PROVE  Abstract
    <2>1. /\ i \notin used /\ used' = used \union {i} /\ cur'.id = i
          /\ UNCHANGED <<redis, settled, sends>> /\ cur.id \in Ids
      BY <1>9, <1>t, HandsFull DEF FetchPartial, Fresh
    <2> PICK c \in Ids : c = cur.id
      BY <2>1
    <2>2. /\ Hands = {c} /\ Hands' = {i} /\ Queued' = Queued
          /\ i # c /\ c \in used /\ c \notin settled /\ c \notin Queued
      BY <1>9, <2>1, <1>t, <1>o, <1>q DEF Hands, UsedIds, OnePlace, FetchPartial, At
    <2>3. /\ Phase(c) = "working" /\ Phase(i) = "new"
          /\ Phase(c)' = "lost" /\ Phase(i)' = "working"
      BY <2>1, <2>2, <1>p, <1>d
    <2>4. \A j \in Ids \ {i, c} : Phase(j)' = Phase(j)
      BY <2>1, <2>2 DEF Phase
    <2>5. /\ PhaseMap' = [PhaseMap EXCEPT ![c] = "lost", ![i] = "working"]
          /\ PhaseMap[c] = "working" /\ PhaseMap[i] = "new"
      BY <2>2, <2>3, <2>4 DEF PhaseMap
    <2>6. Delivery!Replace(c, i)
      BY <2>1, <2>5 DEF Delivery!Replace, PhaseMap
    <2> QED BY <2>6 DEF Delivery!DeliveryNext
  <1>10. CASE Claim \/ ClaimRaises
    <2>1. Queued' = Queued
      BY <1>10, <1>q DEF Claim, ClaimRaises
    <2>2. cur'.id = cur.id
      BY <1>10, <1>t DEF Claim, ClaimRaises, TakeAttempt, TypeInv, TypeOK,
         ProcessTypeOK
    <2> QED BY <1>10, <2>1, <2>2, <1>s DEF Claim, ClaimRaises, history, Hands
  <1>11. CASE CallSucceeds \/ CallFails
    <2>1. /\ cur.id \in Ids /\ pc = "call"
          /\ UNCHANGED <<redis, cur, used, settled>>
          /\ sends' = [sends EXCEPT ![cur.id] = @ + 1]
      BY <1>11, <1>t, HandsFull DEF CallSucceeds, CallFails, At
    <2>2. sends[cur.id] < Limit
      BY <2>1, <1>t, LimitNat DEF IInv, AttemptsInHands, TypeInv, TypeOK,
         ProcessTypeOK
    <2>5. Hands' = Hands /\ Queued' = Queued /\ cur.id \in Hands \ Queued
      BY <2>1, <1>t, <1>o, <1>q DEF Hands
    <2>3. PhaseMap' = PhaseMap /\ PhaseMap[cur.id] = "working"
      BY <2>1, <2>5, <1>t, PhaseSteady, PhaseValues DEF PhaseMap
    <2>4. Delivery!Run(cur.id)
      BY <2>1, <2>2, <2>3 DEF Delivery!Run, PhaseMap, Limit
    <2> QED BY <2>1, <2>4 DEF Delivery!DeliveryNext
  <1>12. CASE RecordSentNoMethod \/ RecordSentRaises
    <2>1. Queued' = Queued
      BY <1>12, <1>q DEF RecordSentNoMethod, RecordSentRaises
    <2> QED BY <1>12, <2>1, <1>s DEF RecordSentNoMethod, RecordSentRaises,
          history, Hands
  <1>13. CASE RecordSent \/ GiveUp \/ GiveUpNoMethod \/ GiveUpRaises
    <2>1. cur.id \in Ids /\ Hands \intersect Queued = {}
      BY <1>13, <1>t, <1>o, HandsFull
         DEF RecordSent, GiveUp, GiveUpNoMethod, GiveUpRaises, At
    <2>2. /\ Queued' = Queued /\ UNCHANGED <<used, sends>>
          /\ \/ cur'.id = NoId /\ settled' = settled \union {cur.id}
             \/ cur' = cur /\ settled' = settled
      BY <1>13, <1>q, <1>t DEF RecordSent, GiveUp, GiveUpNoMethod, GiveUpRaises,
         LetGo, Escalate, GivenUp
    <2> QED BY <2>1, <2>2, <1>7, <1>f, <1>g
  <1>14. CASE ScheduleRetry \/ ScheduleRetryRaises
    <2>1. cur.id \in Ids /\ cur.id \notin Range(pending)
      BY <1>14, <1>t, HandsFull DEF ScheduleRetry, ScheduleRetryRaises,
         OnePlace, Hands
    <2>2. Queued' = Queued \/ Queued' = Queued \union {cur.id}
      BY <1>14, <2>1, <1>t, <1>q, QueuedSteps DEF ScheduleRetry, ScheduleRetryRaises
    <2>3. /\ UNCHANGED <<used, sends, settled>>
          /\ cur'.id = NoId \/ cur' = cur
      BY <1>14, <1>t DEF ScheduleRetry, ScheduleRetryRaises, LetGo, Escalate, history
    <2> QED BY <2>1, <2>2, <2>3, <1>7, <1>f, <1>g
  <1>15. ASSUME NEW i \in Ids, BecomeDue(i) \/ Expire(i)
         PROVE  Abstract
    <2>1. Queued' = Queued
      BY <1>15, <1>t, QueuedSteps DEF Expire
    <2> QED BY <1>15, <2>1, <1>s DEF BecomeDue, Expire, process, history, Hands
  <1>16. CASE UNCHANGED vars
    BY <1>16, <1>s, <1>q DEF vars, process, history, Hands
  <1> QED
    BY <1>1, <1>2, <1>3, <1>4, <1>5, <1>6, <1>8, <1>9, <1>10, <1>11,
       <1>12, <1>13, <1>14, <1>15, <1>16
    DEF Next, Worker, WorkerRaises, Enqueue, EnqueueRaises, Pop, PopRaises, process

\* The queue over Redis implements the abstract delivery: a settled or lost
\* notification is never worked on again, one at a time is in work, and the
\* callback runs only for that one, at most Limit times.
THEOREM QueueDelivers == Spec => Delivers
  <1>1. Init => Delivery!DeliveryInit
    <2> SUFFICES ASSUME Init PROVE Delivery!DeliveryInit
      OBVIOUS
    <2>1. Queued = {} /\ Hands = {} /\ used = {} /\ settled = {}
      BY DEF Init, Queued, Hands, NoNotification, Range
    <2>2. \A i \in Ids : Phase(i) = "new"
      BY <2>1 DEF Phase
    <2> QED BY <2>2 DEF Init, Delivery!DeliveryInit
  <1>2. IInv /\ IInv' /\ [Next]_vars
          => [Delivery!DeliveryNext]_(Delivery!deliveryVars)
    BY DeliveryStep
  <1> QED BY <1>1, <1>2, Invariance, PTL DEF Spec, Delivers, Delivery!DeliverySpec
=============================================================================
