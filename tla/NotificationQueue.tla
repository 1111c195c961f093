-------------------------- MODULE NotificationQueue --------------------------
(***************************************************************************)
(* scripts/watchtower/notification_queue.py: the Redis-backed notification *)
(* queue of the Watchtower service, with its single asyncio worker.        *)
(*                                                                         *)
(* An await of the code is the end of an action: the webhook handlers      *)
(* enqueue between any two awaits of the worker, and the process may be    *)
(* stopped at each of them.  A MULTI/EXEC pipeline is one atomic change of *)
(* the Redis variables.  A Redis call may raise, whether or not the server *)
(* carried it out.                                                         *)
(*                                                                         *)
(* Redis keys:  pending  watchtower:notif:pending (LPUSH at the tail of    *)
(*                       the sequence, BRPOP at its head)                  *)
(*              retry    watchtower:notif:retry, the scores not reached    *)
(*              due      the same sorted set, the scores already reached,  *)
(*                       in score order                                    *)
(*              hash     watchtower:notif:{id}                             *)
(*              stats    watchtower:notif:stats                            *)
(***************************************************************************)
EXTENDS Integers, Sequences, FiniteSets, Functions

CONSTANTS
  Ids,              (* uuid4 values.                                       *)
  NoId,             (* Not an id: the worker's hands are empty.            *)
  NoHash,           (* Not a hash: the key does not exist.                 *)
  MaxRetries,       (* WATCHTOWER_QUEUE_MAX_RETRIES.                       *)
  HincrbybyExists,  (* Whether a pipeline of the Redis client has a method *)
                    (* hincrbyby: FALSE for redis.asyncio, TRUE for the    *)
                    (* MagicMock pipelines of the unit tests.              *)
  MaxEnqueues,      (* Bound: notifications enqueued.                      *)
  MaxCrashes,       (* Bound: stops and crashes of the service.            *)
  MaxErrors,        (* Bound: Redis calls that raise.                      *)
  MaxExpiries       (* Bound: hashes whose TTL runs out.                   *)

ASSUME QueueAssumption ==
  /\ NoId \notin Ids
  /\ MaxRetries \in Nat
  /\ HincrbybyExists \in BOOLEAN
  /\ {MaxEnqueues, MaxCrashes, MaxErrors, MaxExpiries} \subseteq Nat

VARIABLES
  (*************************************************************************)
  (* Redis                                                                 *)
  (*************************************************************************)
  pending, retry, due, hash, stats,
  (*************************************************************************)
  (* The Watchtower process                                                *)
  (*************************************************************************)
  link,     (* "down", "degraded" (no Redis at start) or "connected".      *)
  pc,       (* The worker's next await.                                    *)
  cur,      (* The notification in the worker's hands.                     *)
  local,    (* NotificationQueue._stats.                                   *)
  (*************************************************************************)
  (* History: read by the properties, never by a guard of the code         *)
  (*************************************************************************)
  used,     (* Ids handed out by uuid4.                                    *)
  accepted, (* Ids enqueue returned to its caller.                         *)
  settled,  (* Ids recorded as sent, or given up after their last attempt. *)
  acked,    (* Ids for which the callback reported success.                *)
  sends,    (* Callback runs per id.                                       *)
  crashes, errors, expiries

redis   == <<pending, retry, due, hash, stats>>
process == <<link, pc, cur, local>>
history == <<used, accepted, settled, acked, sends>>
faults  == <<crashes, errors, expiries>>
vars    == <<redis, process, history, faults>>

-----------------------------------------------------------------------------
(* Data *)

DefaultMaxRetries == 3

Status == {"QUEUED", "PROCESSING", "SENT", "FAILED", "RETRYING"}

\* A hash holds all fields when enqueue wrote it, and then it carries a TTL.
\* An HSET on an expired key leaves one with some fields, without id, payload
\* and TTL.
Fields == {"all", "some"}

Hash == [status: Status, attempts: Nat, fields: Fields]

ASSUME HashAssumption == NoHash \notin Hash

NoNotification == [id |-> NoId, attempts |-> 0, fields |-> "some"]

Counters == {"enqueued", "sent", "failed", "retried"}

\* max_retries as from_dict reads it.
RetryLimit(fields) == IF fields = "all" THEN MaxRetries ELSE DefaultMaxRetries

Larger(m, n) == IF m < n THEN n ELSE m

\* At least one attempt is made, whatever the limit.
AttemptLimit(fields) == Larger(1, RetryLimit(fields))

Queued == Range(pending) \union Range(due) \union retry

\* HSET of a status on the hash of i, which creates the hash if it is gone.
\* from_dict reads a missing attempts field as 0.
WithStatus(i, s) ==
  [hash EXCEPT ![i] = IF @ = NoHash
                      THEN [status |-> s, attempts |-> 0, fields |-> "some"]
                      ELSE [@ EXCEPT !.status = s]]

WithClaim(i, n) ==
  [hash EXCEPT ![i] = [status   |-> "PROCESSING",
                       attempts |-> n,
                       fields   |-> IF @ = NoHash THEN "some" ELSE @.fields]]

\* s without its first x.
Without(s, x) ==
  IF x \notin Range(s) THEN s
  ELSE LET k == CHOOSE n \in DOMAIN s : s[n] = x
       IN  [n \in 1..Len(s)-1 |-> IF n < k THEN s[n] ELSE s[n+1]]

Count(c) == stats' = [stats EXCEPT ![c] = @ + 1]

CountDone(c) == stats' = [stats EXCEPT ![c] = @ + 1, !["depth"] = @ - 1]

CountLocal(c) == local' = [local EXCEPT ![c] = @ + 1]

NoLocal == [c \in Counters |-> 0]

Error ==
  /\ errors < MaxErrors
  /\ errors' = errors + 1
  /\ UNCHANGED <<crashes, expiries>>

At(step) == link = "connected" /\ pc = step


\* Slip: the empty hands are None and not a notification.
LetGoSlip == pc' = "poll" /\ cur' = NoId

LetGo == pc' = "poll" /\ cur' = NoNotification

-----------------------------------------------------------------------------
Init ==
  /\ pending = <<>> /\ retry = {} /\ due = <<>>
  /\ hash = [i \in Ids |-> NoHash]
  /\ stats = [c \in Counters \union {"depth"} |-> 0]
  /\ link = "down" /\ pc = "off" /\ cur = NoNotification
  /\ local = NoLocal
  /\ used = {} /\ accepted = {} /\ settled = {} /\ acked = {}
  /\ sends = [i \in Ids |-> 0]
  /\ crashes = 0 /\ errors = 0 /\ expiries = 0

(***************************************************************************)
(* Life of the process                                                     *)
(***************************************************************************)

\* WatchtowerService.start: connect, then start_worker.
Start ==
  /\ link = "down"
  /\ link' = "connected"
  /\ pc' = "poll"
  /\ UNCHANGED <<redis, cur, local, history, faults>>

\* connect fails: the queue is dropped for the life of the process.
StartDegraded ==
  /\ link = "down"
  /\ link' = "degraded"
  /\ Error
  /\ UNCHANGED <<redis, pc, cur, local, history>>

\* A crash, or stop: the cancelled worker leaves its loop at its await, and
\* nothing puts back what it holds.
Halt ==
  /\ link # "down"
  /\ crashes < MaxCrashes
  /\ crashes' = crashes + 1
  /\ link' = "down" /\ pc' = "off" /\ cur' = NoNotification
  /\ local' = NoLocal
  /\ UNCHANGED <<redis, history, errors, expiries>>

(***************************************************************************)
(* enqueue                                                                 *)
(***************************************************************************)

Fresh(i) == i \in Ids \ used

StoreQueued(i) ==
  /\ hash' = [hash EXCEPT ![i] =
                [status |-> "QUEUED", attempts |-> 0, fields |-> "all"]]
  /\ pending' = Append(pending, i)
  /\ stats' = [stats EXCEPT !["enqueued"] = @ + 1, !["depth"] = @ + 1]
  /\ UNCHANGED <<retry, due>>

MayEnqueue(i) ==
  /\ link = "connected"
  /\ Fresh(i)
  /\ Cardinality(used) < MaxEnqueues
  /\ used' = used \union {i}

Enqueue(i) ==
  /\ MayEnqueue(i)
  /\ StoreQueued(i)
  /\ CountLocal("enqueued")
  /\ accepted' = accepted \union {i}
  /\ UNCHANGED <<link, pc, cur, settled, acked, sends, faults>>

\* The pipeline raises and the caller gets None, stored or not.
EnqueueRaises(i) ==
  /\ MayEnqueue(i)
  /\ Error
  /\ StoreQueued(i) \/ UNCHANGED redis
  /\ UNCHANGED <<process, accepted, settled, acked, sends>>

(***************************************************************************)
(* worker_loop, first await: _process_retries                              *)
(***************************************************************************)


\* Slips: no ZREM; no LPUSH; the scores are compared the wrong way round.
MoveDueNoZrem ==
  /\ pending' = pending \o due
  /\ UNCHANGED <<retry, due, hash, stats>>

MoveDueNoLpush ==
  /\ due' = <<>>
  /\ UNCHANGED <<pending, retry, hash, stats>>

MoveDueNever == UNCHANGED redis

MoveDue ==
  /\ pending' = pending \o due
  /\ due' = <<>>
  /\ UNCHANGED <<retry, hash, stats>>

ProcessRetries ==
  /\ At("poll")
  /\ MoveDue
  /\ pc' = "dequeue"
  /\ UNCHANGED <<link, cur, local, history, faults>>

ProcessRetriesRaises ==
  /\ At("poll")
  /\ Error
  /\ MoveDue \/ UNCHANGED redis
  /\ pc' = "dequeue"
  /\ UNCHANGED <<link, cur, local, history>>

(***************************************************************************)
(* worker_loop, second await: _dequeue, a BRPOP and then an HGETALL        *)
(***************************************************************************)


\* Slip: LRANGE where BRPOP is meant.
PopHeadSlip ==
  /\ pending # <<>>
  /\ UNCHANGED redis

PopHead ==
  /\ pending # <<>>
  /\ pending' = Tail(pending)
  /\ UNCHANGED <<retry, due, hash, stats>>

Pop ==
  /\ At("dequeue")
  /\ PopHead
  /\ cur' = [NoNotification EXCEPT !.id = Head(pending)]
  /\ pc' = "fetch"
  /\ UNCHANGED <<link, local, history, faults>>

PopTimesOut ==
  /\ At("dequeue")
  /\ pending = <<>>
  /\ pc' = "poll"
  /\ UNCHANGED <<redis, link, cur, local, history, faults>>

PopRaises ==
  /\ At("dequeue")
  /\ Error
  /\ PopHead \/ UNCHANGED redis
  /\ pc' = "poll"
  /\ UNCHANGED <<link, cur, local, history>>

Fetch ==
  /\ At("fetch")
  /\ hash[cur.id] # NoHash
  /\ hash[cur.id].fields = "all"
  /\ cur' = [cur EXCEPT !.attempts = hash[cur.id].attempts, !.fields = "all"]
  /\ pc' = "claim"
  /\ UNCHANGED <<redis, link, local, history, faults>>

FetchNothing ==
  /\ At("fetch")
  /\ hash[cur.id] = NoHash
  /\ LetGo
  /\ UNCHANGED <<redis, link, local, history, faults>>

\* The hash has no id field: from_dict makes one up.
FetchPartial(i) ==
  /\ At("fetch")
  /\ hash[cur.id] # NoHash
  /\ hash[cur.id].fields = "some"
  /\ Fresh(i)
  /\ used' = used \union {i}
  /\ cur' = [id |-> i, attempts |-> hash[cur.id].attempts, fields |-> "some"]
  /\ pc' = "claim"
  /\ UNCHANGED <<redis, link, local, accepted, settled, acked, sends, faults>>

FetchRaises ==
  /\ At("fetch")
  /\ Error
  /\ LetGo
  /\ UNCHANGED <<redis, link, local, history>>

(***************************************************************************)
(* worker_loop, third await: _process_notification                         *)
(***************************************************************************)


\* Slip: the attempts field is left out of the HSET.
StoreClaimSlip ==
  /\ hash' = WithStatus(cur.id, "PROCESSING")
  /\ UNCHANGED <<pending, retry, due, stats>>

StoreClaim ==
  /\ hash' = WithClaim(cur.id, cur.attempts + 1)
  /\ UNCHANGED <<pending, retry, due, stats>>


\* Slip: attempts count down.
TakeAttemptSlip == cur' = [cur EXCEPT !.attempts = @ - 1]

TakeAttempt == cur' = [cur EXCEPT !.attempts = @ + 1]

Claim ==
  /\ At("claim")
  /\ StoreClaim
  /\ TakeAttempt
  /\ pc' = "call"
  /\ UNCHANGED <<link, local, history, faults>>

\* The attempt counts although the callback is not reached.
ClaimRaises ==
  /\ At("claim")
  /\ Error
  /\ StoreClaim \/ UNCHANGED redis
  /\ TakeAttempt
  /\ pc' = "recover"
  /\ UNCHANGED <<link, local, history>>

CallSucceeds ==
  /\ At("call")
  /\ sends' = [sends EXCEPT ![cur.id] = @ + 1]
  /\ acked' = acked \union {cur.id}
  /\ pc' = "record"
  /\ UNCHANGED <<redis, link, cur, local, used, accepted, settled, faults>>

\* The callback answers with an error, or it raises.
CallFails ==
  /\ At("call")
  /\ sends' = [sends EXCEPT ![cur.id] = @ + 1]
  /\ pc' \in {"fail", "recover"}
  /\ UNCHANGED <<redis, link, cur, local, used, accepted, settled, acked, faults>>


\* Slip: the depth is not counted down.
StoreSentSlip ==
  /\ hash' = WithStatus(cur.id, "SENT")
  /\ Count("sent")
  /\ UNCHANGED <<pending, retry, due>>

StoreSent ==
  /\ hash' = WithStatus(cur.id, "SENT")
  /\ CountDone("sent")
  /\ UNCHANGED <<pending, retry, due>>

RecordSent ==
  /\ At("record")
  /\ HincrbybyExists
  /\ StoreSent
  /\ CountLocal("sent")
  /\ settled' = settled \union {cur.id}
  /\ LetGo
  /\ UNCHANGED <<link, used, accepted, acked, sends, faults>>

\* AttributeError while the pipeline is built: nothing is executed, and the
\* handler of _process_notification treats the send as failed.
RecordSentNoMethod ==
  /\ At("record")
  /\ ~ HincrbybyExists
  /\ pc' = "recover"
  /\ UNCHANGED <<redis, link, cur, local, history, faults>>

RecordSentRaises ==
  /\ At("record")
  /\ HincrbybyExists
  /\ Error
  /\ StoreSent \/ UNCHANGED redis
  /\ pc' = "recover"
  /\ UNCHANGED <<link, cur, local, history>>

(***************************************************************************)
(* _handle_send_failure, called from the try block of                    *)
(* _process_notification (pc "fail") or from its handler (pc "recover").   *)
(* What it raises in the try block reaches that handler, which calls it    *)
(* again; what it raises there reaches worker_loop.                        *)
(***************************************************************************)

Failing == link = "connected" /\ pc \in {"fail", "recover"}

Escalate == IF pc = "fail" THEN pc' = "recover" /\ UNCHANGED cur ELSE LetGo

\* What the worker gives up without having recorded it.
GivenUp == IF pc = "fail" THEN settled ELSE settled \union {cur.id}


\* Slip: > for >=.
LastAttemptSlip == cur.attempts > RetryLimit(cur.fields)

LastAttempt == cur.attempts >= RetryLimit(cur.fields)

StoreFailed ==
  /\ hash' = WithStatus(cur.id, "FAILED")
  /\ CountDone("failed")
  /\ UNCHANGED <<pending, retry, due>>

GiveUp ==
  /\ Failing
  /\ LastAttempt
  /\ HincrbybyExists
  /\ StoreFailed
  /\ CountLocal("failed")
  /\ settled' = settled \union {cur.id}
  /\ LetGo
  /\ UNCHANGED <<link, used, accepted, acked, sends, faults>>

GiveUpNoMethod ==
  /\ Failing
  /\ LastAttempt
  /\ ~ HincrbybyExists
  /\ settled' = GivenUp
  /\ Escalate
  /\ UNCHANGED <<redis, link, local, used, accepted, acked, sends, faults>>

GiveUpRaises ==
  /\ Failing
  /\ LastAttempt
  /\ HincrbybyExists
  /\ Error
  /\ StoreFailed \/ UNCHANGED redis
  /\ settled' = GivenUp
  /\ Escalate
  /\ UNCHANGED <<link, local, used, accepted, acked, sends>>


\* Slip: no ZADD.
StoreRetryNoZadd ==
  /\ hash' = WithStatus(cur.id, "RETRYING")
  /\ Count("retried")
  /\ UNCHANGED <<pending, retry, due>>

\* ZADD moves an id that is in the set to its new score.
StoreRetry ==
  /\ hash' = WithStatus(cur.id, "RETRYING")
  /\ retry' = retry \union {cur.id}
  /\ due' = Without(due, cur.id)
  /\ Count("retried")
  /\ UNCHANGED pending

ScheduleRetry ==
  /\ Failing
  /\ ~ LastAttempt
  /\ StoreRetry
  /\ CountLocal("retried")
  /\ LetGo
  /\ UNCHANGED <<link, history, faults>>

ScheduleRetryRaises ==
  /\ Failing
  /\ ~ LastAttempt
  /\ Error
  /\ StoreRetry \/ UNCHANGED redis
  /\ Escalate
  /\ UNCHANGED <<link, local, history>>

(***************************************************************************)
(* Time                                                                    *)
(***************************************************************************)

\* next_retry_at is reached.
BecomeDue(i) ==
  /\ i \in retry
  /\ retry' = retry \ {i}
  /\ due' = Append(due, i)
  /\ UNCHANGED <<pending, hash, stats, process, history, faults>>

\* The TTL set by enqueue runs out.
Expire(i) ==
  /\ expiries < MaxExpiries
  /\ hash[i] # NoHash
  /\ hash[i].fields = "all"
  /\ hash' = [hash EXCEPT ![i] = NoHash]
  /\ expiries' = expiries + 1
  /\ UNCHANGED <<pending, retry, due, stats, process, history, crashes, errors>>

-----------------------------------------------------------------------------
Worker ==
  \/ ProcessRetries
  \/ Pop \/ PopTimesOut
  \/ Fetch \/ FetchNothing \/ \E i \in Ids : FetchPartial(i)
  \/ Claim \/ CallSucceeds \/ CallFails
  \/ RecordSent \/ RecordSentNoMethod
  \/ GiveUp \/ GiveUpNoMethod \/ ScheduleRetry

WorkerRaises ==
  \/ ProcessRetriesRaises \/ PopRaises \/ FetchRaises \/ ClaimRaises
  \/ RecordSentRaises \/ GiveUpRaises \/ ScheduleRetryRaises

Next ==
  \/ Start \/ StartDegraded \/ Halt
  \/ \E i \in Ids : Enqueue(i) \/ EnqueueRaises(i)
  \/ Worker
  \/ WorkerRaises
  \/ \E i \in Ids : BecomeDue(i) \/ Expire(i)

Spec == Init /\ [][Next]_vars

\* The loop never blocks for good (BRPOP and the callback have timeouts),
\* systemd restarts the service, and every retry time is reached.
Fairness ==
  /\ WF_vars(Worker)
  /\ WF_vars(Start)
  /\ \A i \in Ids : WF_vars(BecomeDue(i))

FairSpec == Spec /\ Fairness

-----------------------------------------------------------------------------
(* Properties *)

Hands == IF cur.id = NoId THEN {} ELSE {cur.id}

\* Accepted by enqueue, neither settled nor anywhere in the queue any more.
Lost == {i \in accepted \ settled : i \notin Queued \union Hands}

RedisTypeOK ==
  /\ pending \in Seq(Ids) /\ due \in Seq(Ids) /\ retry \in SUBSET Ids
  /\ hash \in [Ids -> Hash \union {NoHash}]
  /\ stats \in [Counters \union {"depth"} -> Int]

ProcessTypeOK ==
  /\ link \in {"down", "degraded", "connected"}
  /\ pc \in {"off", "poll", "dequeue", "fetch", "claim", "call", "record",
             "fail", "recover"}
  /\ cur \in [id: Ids \union {NoId}, attempts: Nat, fields: Fields]
  /\ local \in [Counters -> Nat]

HistoryTypeOK ==
  /\ used \in SUBSET Ids /\ accepted \in SUBSET Ids
  /\ settled \in SUBSET Ids /\ acked \in SUBSET Ids
  /\ sends \in [Ids -> Nat]

FaultsTypeOK == crashes \in Nat /\ errors \in Nat /\ expiries \in Nat

\* Every variable keeps its type; a notification in the worker's hands is a
\* record with a natural number of attempts.
TypeOK == RedisTypeOK /\ ProcessTypeOK /\ HistoryTypeOK /\ FaultsTypeOK

NoRepeats ==
  /\ IsInjective(pending) /\ IsInjective(due)
  /\ Range(pending) \intersect Range(due) = {}
  /\ retry \intersect (Range(pending) \union Range(due)) = {}

\* The worker is about to ZADD again what a first call that raised stored.
Redoing == pc = "recover" /\ ~ LastAttempt

\* A notification is in one place: once in the pending list, once in the
\* retry set, in the worker's hands, or settled.  Two runs of the callback for
\* one notification are never both still to come, whatever fails in between.
OnePlace ==
  /\ NoRepeats
  /\ settled \intersect (Queued \union Hands) = {}
  /\ Hands \intersect Range(pending) = {}
  /\ Hands \intersect Queued # {} => Redoing

\* "Maximum retries prevent infinite retry loops": the callback runs at most
\* max_retries times for one id (once if max_retries is 0), across crashes,
\* failed Redis calls and hashes that expire under way.
BoundedSends == \A i \in Ids : sends[i] <= AttemptLimit("all")

\* The attempt is stored before the callback runs: a restarted worker never
\* reads a count below the number of sends already made.
SendsAreCounted ==
  \A i \in Ids : hash[i] # NoHash /\ hash[i].fields = "all"
                 => sends[i] <= hash[i].attempts

\* A crash, a failed Redis call or an expired hash costs at most one accepted
\* notification: what is not in the worker's hands survives a restart.
OneLossPerFault == Cardinality(Lost) <= crashes + errors + expiries

\* The depth of a client without hincrbyby is never counted down.
Uncounted == IF HincrbybyExists THEN {} ELSE settled

\* Each notification leaves the depth once, when it is recorded as sent or
\* failed: the depth is the backlog, what was lost, and what was settled without
\* a record.  A Redis call whose answer was an error shifts it by at most one (a
\* SENT or FAILED pipeline that was carried out is counted down again), and so
\* does a hash that expired (its notification is made into another one).
DepthIsBacklog ==
  stats["depth"] - Cardinality(Queued \union Hands) - Cardinality(Lost)
                 - Cardinality(Uncounted)
    \in -(errors + expiries) .. errors

\* The counters of the process, exported as metrics, never claim more than
\* Redis has recorded.
LocalBehindRedis == \A c \in Counters : local[c] <= stats[c]

\* Refinement: the queue is a NotificationDelivery.
Phase(i) ==
  IF i \in settled THEN "settled"
  ELSE IF i \in Queued THEN "waiting"
  ELSE IF i \in Hands THEN "working"
  ELSE IF i \in used THEN "lost"
  ELSE "new"

Delivery == INSTANCE NotificationDelivery
              WITH Limit <- AttemptLimit("all"),
                   phase <- [i \in Ids |-> Phase(i)],
                   runs  <- sends

\* A settled or lost notification is never worked on again, one at a time is
\* in work, and the callback runs only for that one and within its limit.
Delivers == Delivery!DeliverySpec

Faulty == crashes + errors + expiries > 0

\* Whatever enqueue accepted is settled in the end, unless something failed:
\* the pending list drains and every retry comes back.
AcceptedIsSettled ==
  \A i \in Ids : i \in accepted ~> i \in settled \/ Faulty

\* Nothing stays in the pending list or the retry set for ever, whatever fails,
\* and not when the service is stopped and started again: the exceptions of the
\* loop leave it running.  A process that found no Redis at its start has no
\* worker.
QueueDrains ==
  \A i \in Ids : i \in Queued ~> i \notin Queued \/ link = "degraded"

\* What the callback delivered is recorded as SENT or, "observable, not silently
\* lost", as FAILED by the time the worker is through with it.
OutcomeIsRecorded ==
  \A i \in settled \intersect acked :
    hash[i] # NoHash /\ hash[i].status \in {"SENT", "FAILED"}
=============================================================================
