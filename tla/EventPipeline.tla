---------------------------- MODULE EventPipeline ----------------------------
(***************************************************************************)
(* scripts/watchtower/watchtower.py: the way of an operational event from  *)
(* POST /api/events, and of an alert from POST /api/alertmanager/webhook,  *)
(* to the Telegram users.                                                  *)
(*                                                                         *)
(*    handler (deduplication) -> notification queue -> worker's callback   *)
(*                            -> task that sends directly                  *)
(*    alert handler (deduplication) -> sends directly, then answers        *)
(*                                                                         *)
(* The handler, the tasks and the worker share one asyncio loop: an await  *)
(* ends an action.  Users link, unlink and change their preferences        *)
(* through the settings API meanwhile, and the service may be stopped or   *)
(* crash.  The queue is NotificationDelivery, which NotificationQueue      *)
(* implements.  One event type is modelled: a preference is on or off (of  *)
(* alerts: SECURITY_ALERT and HEALTH_ALERT, off if both are).  The alerts  *)
(* of one POST, sent one after the other, are requests of their own.       *)
(***************************************************************************)
EXTENDS Integers, FiniteSets

CONSTANTS
  Events,           (* Requests, each an event or an alert.                *)
  Prints,           (* Fingerprints: event type and detail, or the labels  *)
                    (* of an alert.                                        *)
  PrintOf,          (* The fingerprint of each request.                    *)
  Users,            (* CloudVault users.                                   *)
  NoUser,           (* Not a user.                                         *)
  Worker,           (* Not an event: the sender that is the queue worker.  *)
  NoRun,            (* Not a run: the sender is idle.                      *)
  Limit,            (* How often the queue runs its callback for an event. *)
  RecordsSuccess,   (* Whether the queue can record a success: FALSE for   *)
                    (* redis.asyncio, see NotificationQueue.               *)
  EventWindow,      (* _EVENT_DEDUP_WINDOW_SECONDS, in ticks.              *)
  AlertWindow,      (* _ALERT_DEDUP_WINDOW_SECONDS, in ticks.              *)
  MaxTime,          (* Bound: ticks of the clock.                          *)
  MaxStops,         (* Bound: stops and crashes of the service.            *)
  MaxFaults,        (* Bound: calls of Redis, PostgreSQL or Telegram that  *)
                    (* fail.                                               *)
  MaxChanges        (* Bound: changes of link and preference per user.     *)

ASSUME PipelineAssumption ==
  /\ IsFiniteSet(Events)
  /\ PrintOf \in [Events -> Prints]
  /\ NoUser \notin Users
  /\ Worker \notin Events
  /\ RecordsSuccess \in BOOLEAN
  /\ Limit \in Nat \ {0}
  /\ {EventWindow, AlertWindow} \subseteq Nat
  /\ {MaxTime, MaxStops, MaxFaults, MaxChanges} \subseteq Nat

VARIABLES
  (*************************************************************************)
  (* The Watchtower process                                                *)
  (*************************************************************************)
  svc,      (* "down"; "direct": listening without a queue; "queued";      *)
            (* "stopping": the worker is cancelled; "closing": the queue   *)
            (* is disconnected.                                            *)
  recent,   (* _recent_events and _recent_alerts, 0 for no entry.          *)
  handler,  (* Where the request is.                                       *)
  run,      (* What each sender is doing.                                  *)
  (*************************************************************************)
  (* The notification queue, PostgreSQL, the clock                         *)
  (*************************************************************************)
  phase, runs,
  linked,   (* Users with a row in oc_telegram_connections.                *)
  muted,    (* Users whose preference for the event type is "false".       *)
  now,
  (*************************************************************************)
  (* History                                                               *)
  (*************************************************************************)
  stamp,    (* When a request passed the handler's check, or was dropped.  *)
  life,     (* The process that handled it.                                *)
  via,      (* Whether it came as an event or as an alert.                 *)
  direct,   (* Events a direct task was started for.                       *)
  unsure,   (* Events the handler has no answer from Redis for.            *)
  upset,    (* Events that met a failed call on their way.                 *)
  got,      (* Telegram messages per event and user.                       *)
  quota,    (* Messages under way to a user at the last change.            *)
  late,     (* Messages sent to a user who is gone since the last change.  *)
  starts, stops, faults, changes

process  == <<svc, recent, handler, run>>
queue    == <<phase, runs>>
people   == <<linked, muted>>
requests == <<stamp, life, via, direct, unsure>>
messages == <<got, late>>
vars     == <<process, queue, people, now, requests, messages, upset, quota,
              starts, stops, faults, changes>>

\* The worker sends for the queue; the task of an event is named after it.
Senders == Events \union {Worker}

Queue == INSTANCE NotificationDelivery WITH Ids <- Events

Run == [event: Events, stage: {"connections", "users", "failed"},
        todo: SUBSET Users, at: Users \union {NoUser},
        prefs: {"read", "unknown"}, hit: SUBSET Users]

ASSUME RunAssumption == NoRun \notin Run

Begun(e) == [event |-> e, stage |-> "connections", todo |-> {}, at |-> NoUser,
             prefs |-> "read", hit |-> {}]

Kinds == {"event", "alert"}

WindowOf(k) == IF k = "event" THEN EventWindow ELSE AlertWindow

NoMarks == [k \in Kinds |-> [f \in Prints |-> 0]]

Busy(s) == run[s] # NoRun

\* s is between two users.
Between(s) == Busy(s) /\ run[s].stage = "users" /\ run[s].at = NoUser

Sending(s) == Busy(s) /\ run[s].at # NoUser

Over(s) == \/ Busy(s) /\ run[s].stage = "failed"
           \/ Between(s) /\ run[s].todo = {}

Fault(e) ==
  /\ faults < MaxFaults
  /\ faults' = faults + 1
  /\ upset' = upset \union {e}

NoFault == UNCHANGED <<faults, upset>>

-----------------------------------------------------------------------------
Init ==
  /\ svc = "down"
  /\ recent = NoMarks
  /\ handler = [e \in Events |-> "none"]
  /\ run = [s \in Senders |-> NoRun]
  /\ Queue!DeliveryInit
  /\ linked = Users /\ muted = {} /\ now = 1
  /\ stamp = [e \in Events |-> 0] /\ life = [e \in Events |-> 0]
  /\ via = [e \in Events |-> "none"]
  /\ direct = {} /\ unsure = {} /\ upset = {}
  /\ got = [e \in Events |-> [u \in Users |-> 0]]
  /\ quota = [u \in Users |-> 0] /\ late = [u \in Users |-> 0]
  /\ starts = 0 /\ stops = 0 /\ faults = 0 /\ changes = [u \in Users |-> 0]

(***************************************************************************)
(* WatchtowerService                                                       *)
(***************************************************************************)

\* start: the site listens before the queue is connected, and without a queue
\* for good when Redis is down.
Listen ==
  /\ svc = "down"
  /\ svc' = "direct"
  /\ starts' = starts + 1
  /\ UNCHANGED <<recent, handler, run, queue, people, now, requests, messages,
                 upset, quota, stops, faults, changes>>

ConnectQueue ==
  /\ svc = "direct"
  /\ svc' = "queued"
  /\ UNCHANGED <<recent, handler, run, queue, people, now, requests, messages,
                 upset, quota, starts, stops, faults, changes>>

\* Slip: the queue goes with the worker.
DropHandsSlip ==
  /\ phase' = [e \in Events |-> IF phase[e] \in {"waiting", "working"}
                                THEN "lost" ELSE phase[e]]
  /\ UNCHANGED runs

\* What the worker holds is lost with it.
DropHands ==
  IF \E e \in Events : phase[e] = "working"
  THEN \E e \in Events : phase[e] = "working" /\ Queue!Lose(e)
  ELSE UNCHANGED queue

\* stop: the worker is cancelled, then the queue is disconnected, and the site
\* goes last.
StopWorker ==
  /\ svc = "queued"
  /\ stops < MaxStops
  /\ stops' = stops + 1
  /\ svc' = "stopping"
  /\ DropHands
  /\ run' = [run EXCEPT ![Worker] = NoRun]
  /\ UNCHANGED <<recent, handler, people, now, requests, messages, upset,
                 quota, starts, faults, changes>>

Disconnect ==
  /\ svc = "stopping"
  /\ svc' = "closing"
  /\ UNCHANGED <<recent, handler, run, queue, people, now, requests, messages,
                 upset, quota, starts, stops, faults, changes>>

\* Handlers and tasks end with the loop, in the middle of what they do.  A
\* stored event stays in Redis.
EndProcess ==
  /\ svc' = "down"
  /\ recent' = NoMarks
  /\ handler' = [e \in Events |->
                   CASE handler[e] \in {"enqueuing", "alerting"} -> "cut"
                     [] handler[e] = "done" /\ Busy(e) -> "cut"
                     [] handler[e] = "stored" -> "done"
                     [] OTHER -> handler[e]]
  /\ run' = [s \in Senders |-> NoRun]
  /\ DropHands
  /\ UNCHANGED <<people, now, requests, messages, upset, quota, starts, faults,
                 changes>>

Exit ==
  /\ svc = "closing"
  /\ EndProcess
  /\ UNCHANGED stops

Crash ==
  /\ svc # "down"
  /\ stops < MaxStops
  /\ stops' = stops + 1
  /\ EndProcess

(***************************************************************************)
(* handle_event_webhook and handle_alertmanager_webhook                    *)
(***************************************************************************)

Duplicate(e, k) ==
  recent[k][PrintOf[e]] > 0 /\ now - recent[k][PrintOf[e]] < WindowOf(k)

\* Slip: the fingerprint is marked by the direct branch only.
MarkSlip(e, k) ==
  recent' = IF svc = "direct" THEN [recent EXCEPT ![k][PrintOf[e]] = now]
                              ELSE recent

Mark(e, k) == recent' = [recent EXCEPT ![k][PrintOf[e]] = now]

Arrives(e, k) ==
  /\ svc # "down"
  /\ handler[e] = "none"
  /\ stamp' = [stamp EXCEPT ![e] = now]
  /\ life' = [life EXCEPT ![e] = starts]
  /\ via' = [via EXCEPT ![e] = k]

QueueConnected == svc \in {"queued", "stopping"}

PostDuplicate(e, k) ==
  /\ Arrives(e, k)
  /\ Duplicate(e, k)
  /\ handler' = [handler EXCEPT ![e] = "dropped"]
  /\ UNCHANGED <<svc, recent, run, queue, people, now, direct, unsure,
                 messages, upset, quota, starts, stops, faults, changes>>

\* Slip: the coroutine is made and never scheduled.
SendDirectlySlip(e) ==
  /\ handler' = [handler EXCEPT ![e] = "done"]
  /\ direct' = direct \union {e}
  /\ UNCHANGED run

\* ensure_future(_send_event_to_telegram(body)), and the answer 200.
SendDirectly(e) ==
  /\ handler' = [handler EXCEPT ![e] = "done"]
  /\ run' = [run EXCEPT ![e] = Begun(e)]
  /\ direct' = direct \union {e}

PostDirect(e) ==
  /\ Arrives(e, "event")
  /\ ~ Duplicate(e, "event")
  /\ Mark(e, "event")
  /\ ~ QueueConnected
  /\ SendDirectly(e)
  /\ UNCHANGED <<svc, queue, people, now, unsure, messages, upset, quota,
                 starts, stops, faults, changes>>

\* Slip: the queue and a direct task.
PostQueuedSlip(e) ==
  /\ Arrives(e, "event")
  /\ ~ Duplicate(e, "event")
  /\ Mark(e, "event")
  /\ QueueConnected
  /\ run' = [run EXCEPT ![e] = Begun(e)]
  /\ direct' = direct \union {e}
  /\ handler' = [handler EXCEPT ![e] = "enqueuing"]
  /\ UNCHANGED <<svc, queue, people, now, unsure, messages, upset, quota,
                 starts, stops, faults, changes>>

PostQueued(e) ==
  /\ Arrives(e, "event")
  /\ ~ Duplicate(e, "event")
  /\ Mark(e, "event")
  /\ QueueConnected
  /\ handler' = [handler EXCEPT ![e] = "enqueuing"]
  /\ UNCHANGED <<svc, run, queue, people, now, direct, unsure, messages, upset,
                 quota, starts, stops, faults, changes>>

\* Redis executes the pipeline of enqueue.
EnqueueStores(e) ==
  /\ handler[e] = "enqueuing"
  /\ Queue!Accept(e)
  /\ handler' = [handler EXCEPT ![e] = "stored"]
  /\ UNCHANGED <<svc, recent, run, people, now, requests, messages, upset,
                 quota, starts, stops, faults, changes>>

EnqueueReturns(e) ==
  /\ handler[e] = "stored"
  /\ handler' = [handler EXCEPT ![e] = "done"]
  /\ UNCHANGED <<svc, recent, run, queue, people, now, requests, messages,
                 upset, quota, starts, stops, faults, changes>>

\* Slip: no fall-back when enqueue returns None.
FallBackSlip(e) ==
  /\ handler' = [handler EXCEPT ![e] = "done"]
  /\ UNCHANGED <<run, direct>>

\* enqueue returns None: Redis failed, before or after it stored the event, or
\* disconnect closed the connection under the call.
FallBack(e) == SendDirectly(e)

EnqueueFails(e) ==
  /\ handler[e] \in {"enqueuing", "stored"}
  /\ Fault(e) \/ (svc = "closing" /\ NoFault)
  /\ FallBack(e)
  /\ unsure' = unsure \union {e}
  /\ UNCHANGED <<svc, recent, queue, people, now, stamp, life, via, messages,
                 quota, starts, stops, changes>>

\* handle_alertmanager_webhook awaits _send_alert_to_telegram; its answer is
\* 200 whatever that does.
PostAlert(e) ==
  /\ Arrives(e, "alert")
  /\ ~ Duplicate(e, "alert")
  /\ Mark(e, "alert")
  /\ handler' = [handler EXCEPT ![e] = "alerting"]
  /\ run' = [run EXCEPT ![e] = Begun(e)]
  /\ direct' = direct \union {e}
  /\ UNCHANGED <<svc, queue, people, now, unsure, messages, upset, quota,
                 starts, stops, faults, changes>>

\* That an alert is over is not told, and does not clear its mark.
PostResolved(e) ==
  /\ Arrives(e, "alert")
  /\ ~ Duplicate(e, "alert")
  /\ handler' = [handler EXCEPT ![e] = "resolved"]
  /\ UNCHANGED <<svc, recent, run, queue, people, now, direct, unsure,
                 messages, upset, quota, starts, stops, faults, changes>>

(***************************************************************************)
(* The queue's worker                                                      *)
(***************************************************************************)

WorkerTakes(e) ==
  /\ svc = "queued"
  /\ ~ Busy(Worker)
  /\ Queue!Take(e)
  /\ UNCHANGED <<process, people, now, requests, messages, upset, quota,
                 starts, stops, faults, changes>>

WorkerCalls(e) ==
  /\ svc = "queued"
  /\ ~ Busy(Worker)
  /\ Queue!Run(e)
  /\ run' = [run EXCEPT ![Worker] = Begun(e)]
  /\ UNCHANGED <<svc, recent, handler, people, now, requests, messages, upset,
                 quota, starts, stops, faults, changes>>

\* _queue_send_callback reports success if one user was reached.
Succeeded(s) == run[s].stage = "users" /\ run[s].hit # {}

Done(e) == (Succeeded(Worker) /\ RecordsSuccess) \/ runs[e] >= Limit

WorkerFinishes ==
  /\ Over(Worker)
  /\ LET e == run[Worker].event
     IN  IF Done(e) THEN Queue!Settle(e) ELSE Queue!Requeue(e)
  /\ run' = [run EXCEPT ![Worker] = NoRun]
  /\ UNCHANGED <<svc, recent, handler, people, now, requests, messages, upset,
                 quota, starts, stops, faults, changes>>

\* What a failed Redis call or an expired hash does outside the callback: see
\* the actions of NotificationQueue that raise.
QueueFaults(e) ==
  /\ phase[e] \in {"waiting", "working"}
  /\ phase[e] = "working" => ~ Busy(Worker) \/ Over(Worker)
  /\ Fault(e)
  /\ Queue!Lose(e) \/ Queue!Requeue(e) \/ Queue!Settle(e)
  /\ run' = IF phase[e] = "working" THEN [run EXCEPT ![Worker] = NoRun]
                                     ELSE run
  /\ UNCHANGED <<svc, recent, handler, people, now, requests, messages, quota,
                 starts, stops, changes>>

(***************************************************************************)
(* _queue_send_callback, _send_event_to_telegram, _send_alert_to_telegram  *)
(***************************************************************************)

unsent == <<svc, recent, handler, queue, people, now, requests, quota, starts,
            stops, changes>>

\* Slip: rows without a telegram_user_id are not skipped.
ReadConnectionsSlip(s) ==
  /\ Busy(s)
  /\ run[s].stage = "connections"
  /\ run' = [run EXCEPT ![s].stage = "users",
                        ![s].todo = linked \union {NoUser}]
  /\ NoFault
  /\ UNCHANGED <<unsent, messages>>

ReadConnections(s) ==
  /\ Busy(s)
  /\ run[s].stage = "connections"
  /\ \/ /\ run' = [run EXCEPT ![s].stage = "users", ![s].todo = linked]
        /\ NoFault
     \/ /\ Fault(run[s].event)
        /\ run' = [run EXCEPT ![s].stage = "failed"]
  /\ UNCHANGED <<unsent, messages>>

\* Slip: the preferences are read and not looked at.
ReadPrefsSlip(s, u) ==
  /\ Between(s)
  /\ u \in run[s].todo
  /\ run' = [run EXCEPT ![s].todo = @ \ {u}, ![s].prefs = "read", ![s].at = u]
  /\ NoFault
  /\ UNCHANGED <<unsent, messages>>

ReadPrefs(s, u) ==
  /\ Between(s)
  /\ u \in run[s].todo
  /\ run' = [run EXCEPT ![s].todo = @ \ {u},
                        ![s].prefs = "read",
                        ![s].at = IF u \in muted THEN NoUser ELSE u]
  /\ NoFault
  /\ UNCHANGED <<unsent, messages>>

\* The callback fails as a whole, whoever it has reached already; the direct
\* task sends anyway.
ReadPrefsRaises(s, u) ==
  /\ Between(s)
  /\ u \in run[s].todo
  /\ Fault(run[s].event)
  /\ run' = IF s = Worker
            THEN [run EXCEPT ![s].stage = "failed"]
            ELSE [run EXCEPT ![s].todo = @ \ {u}, ![s].prefs = "unknown",
                             ![s].at = u]
  /\ UNCHANGED <<unsent, messages>>

Gone(u) == u \in muted \/ u \notin linked

\* Telegram shows the message of s to the user.
Shown(s) ==
  LET u == run[s].at
  IN  /\ got' = [got EXCEPT ![run[s].event][u] = @ + 1]
      /\ late' = IF Gone(u) /\ run[s].prefs = "read"
                 THEN [late EXCEPT ![u] = @ + 1]
                 ELSE late

Send(s) ==
  /\ Sending(s)
  /\ Shown(s)
  /\ run' = [run EXCEPT ![s].at = NoUser, ![s].hit = @ \union {run[s].at}]
  /\ NoFault
  /\ UNCHANGED unsent

\* An error or a timeout, with or without the message.
SendFails(s) ==
  /\ Sending(s)
  /\ Fault(run[s].event)
  /\ Shown(s) \/ UNCHANGED messages
  /\ run' = [run EXCEPT ![s].at = NoUser]
  /\ UNCHANGED unsent

TaskEnds(e) ==
  /\ Over(e)
  /\ run' = [run EXCEPT ![e] = NoRun]
  /\ handler' = [handler EXCEPT ![e] = IF @ = "alerting" THEN "done" ELSE @]
  /\ NoFault
  /\ UNCHANGED <<svc, recent, queue, people, now, requests, messages, quota,
                 starts, stops, changes>>

(***************************************************************************)
(* Users and time                                                          *)
(***************************************************************************)

\* Senders that have read enough to send to u, given who is muted.
UnderWay(u, m) ==
  Cardinality({s \in Senders :
                 Busy(s) /\ (run[s].at = u \/ u \in run[s].todo \ m)})

Change(u, m) ==
  /\ changes[u] < MaxChanges
  /\ changes' = [changes EXCEPT ![u] = @ + 1]
  /\ muted' = m
  /\ quota' = [quota EXCEPT ![u] = UnderWay(u, m)]
  /\ late' = [late EXCEPT ![u] = 0]
  /\ UNCHANGED <<process, queue, now, requests, got, upset, starts, stops,
                 faults>>

\* POST /api/telegram/prefs.
SetPref(u) ==
  /\ Change(u, IF u \in muted THEN muted \ {u} ELSE muted \union {u})
  /\ UNCHANGED linked

\* POST /api/telegram/disconnect keeps the preferences.
Unlink(u) ==
  /\ u \in linked
  /\ linked' = linked \ {u}
  /\ Change(u, muted)

Tick ==
  /\ now < MaxTime
  /\ now' = now + 1
  /\ UNCHANGED <<process, queue, people, requests, messages, upset, quota,
                 starts, stops, faults, changes>>

-----------------------------------------------------------------------------
Handle(e) == EnqueueStores(e) \/ EnqueueReturns(e)

WorkerQueue ==
  \/ WorkerFinishes
  \/ \E e \in Events : WorkerTakes(e) \/ WorkerCalls(e)

Sender(s) ==
  \/ ReadConnections(s)
  \/ \E u \in Users : ReadPrefs(s, u)
  \/ Send(s)

Next ==
  \/ Listen \/ ConnectQueue \/ StopWorker \/ Disconnect \/ Exit \/ Crash
  \/ \E e \in Events : \/ \E k \in Kinds : PostDuplicate(e, k)
                       \/ PostDirect(e) \/ PostQueued(e)
                       \/ PostAlert(e) \/ PostResolved(e)
                       \/ Handle(e) \/ EnqueueFails(e)
                       \/ QueueFaults(e) \/ TaskEnds(e)
  \/ WorkerQueue
  \/ \E s \in Senders : \/ Sender(s) \/ SendFails(s)
                        \/ \E u \in Users : ReadPrefsRaises(s, u)
  \/ \E u \in Users : SetPref(u) \/ Unlink(u)
  \/ Tick

Spec == Init /\ [][Next]_vars

\* Every call has a timeout, so each await returns; the loop serves all that
\* wait; systemd restarts the service, and Redis is up when it does.
Fairness ==
  /\ WF_vars(Listen) /\ WF_vars(ConnectQueue)
  /\ WF_vars(Disconnect) /\ WF_vars(Exit)
  /\ WF_vars(WorkerQueue)
  /\ \A e \in Events : WF_vars(Handle(e))
  /\ \A s \in Senders : WF_vars(Sender(s))

FairSpec == Spec /\ Fairness

-----------------------------------------------------------------------------
(* Properties *)

\* Every variable keeps its type.
TypeOK ==
  /\ svc \in {"down", "direct", "queued", "stopping", "closing"}
  /\ recent \in [Kinds -> [Prints -> Nat]]
  /\ handler \in [Events -> {"none", "enqueuing", "stored", "alerting", "done",
                             "dropped", "resolved", "cut"}]
  /\ via \in [Events -> Kinds \union {"none"}]
  /\ run \in [Senders -> Run \union {NoRun}]
  /\ Queue!DeliveryTypeOK
  /\ linked \in SUBSET Users /\ muted \in SUBSET Users
  /\ now \in Nat
  /\ stamp \in [Events -> Nat] /\ life \in [Events -> Nat]
  /\ direct \in SUBSET Events /\ unsure \in SUBSET Events
  /\ upset \in SUBSET Events
  /\ got \in [Events -> [Users -> Nat]]
  /\ quota \in [Users -> Nat] /\ late \in [Users -> Nat]
  /\ starts \in Nat /\ stops \in Nat /\ faults \in Nat
  /\ changes \in [Users -> Nat]

Admitted(e) ==
  handler[e] \in {"enqueuing", "stored", "alerting", "done", "cut"}

SameStorm(d, e) ==
  PrintOf[d] = PrintOf[e] /\ life[d] = life[e] /\ via[d] = via[e]

\* Of the requests with one fingerprint, one process lets through at most one
\* per window (of events, of alerts), however the awaits of their handlers
\* interleave.
OncePerWindow ==
  \A d, e \in Events :
    d # e /\ Admitted(d) /\ Admitted(e) /\ SameStorm(d, e)
      => \/ stamp[d] - stamp[e] >= WindowOf(via[d])
         \/ stamp[e] - stamp[d] >= WindowOf(via[d])

\* An event is with its handler, which goes on to the queue or a direct task;
\* the queue has taken it; or it was sent directly, by a task that ran or runs
\* to its end.
OnItsWay(e) ==
  \/ handler[e] = "enqueuing"
  \/ phase[e] \in {"waiting", "working", "settled"}
  \/ e \in direct /\ handler[e] # "cut"

\* The worker's hands, or the handler or task of the event, were emptied.
Lost(e) == handler[e] = "cut" \/ phase[e] = "lost"

\* The process that handled e has been stopped or has crashed.
Stopped(e) == life[e] < starts \/ svc \in {"stopping", "closing", "down"}

\* The service answers for e: it is on its way, or what took it is known, a call
\* that failed for it or the end of the process.
Accounted(e) == OnItsWay(e) \/ (Lost(e) /\ (e \in upset \/ Stopped(e)))

\* A request is dropped as a duplicate only if one with its fingerprint was let
\* through within the window by the same process, and as long as that process is
\* not being stopped, this one is on its way: although the handler marks the
\* fingerprint before it knows whether anybody takes the event, no failure of
\* enqueue silences a storm.  Excepted is a twin that the queue lost to a failed
\* call.  A stop may well take the only copy and go on dropping its duplicates.
SuppressedIsCarried ==
  \A d \in Events : handler[d] = "dropped" =>
    \E e \in Events : /\ Admitted(e) /\ SameStorm(d, e) /\ Accounted(e)
                      /\ stamp[d] - stamp[e] < WindowOf(via[d])

\* A stop or a crash costs the queue the event in its worker's hands and no
\* other, although the site takes events until the process ends.
StopsLoseOne ==
  Cardinality({e \in Events : phase[e] = "lost" /\ e \notin upset}) <= stops

\* One event reaches a user at most once per run of the callback and once more
\* through the direct task, and it takes both ways only if Redis stored it
\* without telling the handler.
Copies(e) == runs[e] + (IF e \in direct THEN 1 ELSE 0)

BoundedCopies ==
  \A e \in Events :
    /\ \A u \in Users : got[e][u] <= Copies(e)
    /\ e \in direct /\ phase[e] # "new" => e \in unsure

\* A user who turns the event off or disconnects gets only the messages whose
\* sender had already read the preferences or the list of connections; a direct
\* task that cannot read the preferences is excepted.
OptOutIsHonoured == \A u \in Users : Gone(u) => late[u] <= quota[u]

\* What was let through is not forgotten, through however many runs, stops and
\* changes by other users, unless a call failed for it: it is on its way, or the
\* end of its process took it from the worker, its handler or its task.  As long
\* as the queue has it, a user who stays linked and wants it has it already, or
\* there is a run left, or the worker has this user still ahead; and a direct
\* task that no stop has cut has reached him, or has him ahead.
Ahead(s, e, u) ==
  /\ Busy(s) /\ run[s].event = e
  /\ run[s].stage = "connections" \/ u \in run[s].todo \/ run[s].at = u

Pending(e) ==
  /\ runs[e] < Limit
  /\ phase[e] = "waiting" \/ (phase[e] = "working" /\ ~ Busy(Worker))

Served(e, u) ==
  /\ phase[e] \in {"waiting", "working", "settled"} =>
       got[e][u] > 0 \/ Pending(e) \/ Ahead(Worker, e, u)
  /\ e \in direct /\ handler[e] # "cut" =>
       got[e][u] > 0 \/ Ahead(e, e, u)

OwedIsCarried ==
  \A e \in Events :
    Admitted(e) => /\ Accounted(e)
                   /\ \A u \in Users :
                        e \notin upset /\ changes[u] = 0 => Served(e, u)

\* An event or an alert that is let through reaches every user who stays linked
\* and wants it, whatever other users do meanwhile, unless a call fails or the
\* service stops under way.
ReachesUsers ==
  \A e \in Events, u \in Users :
    Admitted(e) ~> got[e][u] > 0 \/ changes[u] > 0 \/ stops + faults > 0
=============================================================================
