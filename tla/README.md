# CloudVault in TLA+

CloudVault installs Nextcloud behind nginx on one Debian host and adds its own
services around it: *Watchtower* (an aiohttp service that turns operational events
and Prometheus alerts into Telegram messages), a *Telegram bot*, a Nextcloud app
that reports uploads, and shell scripts for backup, restore, disaster recovery and
maintenance. This directory models the parts whose correctness depends on the
order of concurrent steps, on failures between two steps, or on time. TLC checks
the models on small instances; TLAPS proves the most important results for every
value of the constants.

Paths below are relative to the repository; `W/` stands for `scripts/watchtower/`.

## 1. Inventory

| Component | State | Operations | Hard because |
|---|---|---|---|
| Notification queue, `W/notification_queue.py` | Redis: pending list, retry set, a hash per notification, counters; in the process: the worker's hands and its own counters | `connect`, `enqueue`, `worker_loop` (`_process_retries`, `_dequeue`, `_process_notification`, `_handle_send_failure`), `stop_worker` | Every Redis call may raise before or after the server did its work; crash between two calls; hashes expire; failure handling inside failure handling |
| Operational events, `W/watchtower.py` (`handle_event_webhook`, `_send_event_to_telegram`, `_queue_send_callback`) | `_recent_events`, tasks, the queue | POST `/api/events`, direct task, queue callback, `start`, `stop` | Check-then-act across awaits; enqueue that fails after it stored; users who change their settings while a send is under way |
| Telegram linking, `W/telegram_linking.py`, `sql/telegram_link.sql` | Two PostgreSQL tables | `create_link_token`, `validate_and_consume_token`, `disconnect`, `cleanup_expired_tokens` | Concurrent transactions, lock order, lost answers |
| Telegram linking API, `W/watchtower.py` | none of its own | Handlers that call the linking methods in threads | Timeouts around committed transactions |
| Alertmanager webhook, `W/watchtower.py` | `_recent_alerts` | POST `/api/alertmanager/webhook` | Marked before sent; the sends run under the handler |
| Watchtower service, `W/watchtower.py` | Prometheus latch, background tasks | health, status, watchdog, start, stop | Latched state |
| Queue metrics, `W/watchtower_metrics.py` | Prometheus series | `update_queue_stats` | Process counters against persistent ones |
| Telegram bot, `W/telegram_bot.py` | update offset in memory | polling or webhook, `/start <token>` | Redelivered updates after a restart |
| Upload notifier, `apps/upload_notifier` | table `oc_upload_notifier_pending`, cursor `av_last_activity_id` | listeners before and after writes, a job each minute | Requests and job interleave on rows without a unique key |
| Backup, USB mirror, restore, disaster recovery, `scripts/*.sh` | archives, the mirror, the site's data, database, configuration, maintenance flag | `create_backup`, `prune_retention`, `sync_backup`, `restore_archive`, `dr-recover` | No script runs under `set -e` (`set -uo pipefail`, backup.sh:21, restore.sh:17): a command may fail half-way, and unless a `\|\|` looks at it the next one runs |
| Maintenance, `scripts/maintenance.sh` | the maintenance flag | a list of `occ` commands | The flag is shared with restore |
| Event reporting of the scripts, `scripts/lib/notify.sh` | none | one POST | Fire and forget |
| Settings page, collector, health checks, installer, playbooks, configuration, demo, tests | little or none | | Sequential, declarative or read-only |

How they interact: the scripts and the upload notifier POST events to Watchtower;
Watchtower drops duplicates, enqueues in Redis and falls back to a direct task; the
queue's worker calls back into Watchtower, which reads the linked users and their
preferences from PostgreSQL and calls Telegram. The settings page and the bot call
Watchtower's linking API. Restore and maintenance meet at Nextcloud's maintenance
flag; backup, USB mirror and disaster recovery meet at the backup directory.

What makes each correct:

* *Queue*: a notification is never in two places; the callback never runs more
  often than the retry limit, across restarts; a fault costs one notification at
  most; everything accepted is settled in the end; the depth counter is the backlog,
  but for what faults and unrecorded outcomes left in it.
* *Events*: one event per fingerprint and window; a dropped duplicate is never the
  only copy as long as its process goes on; nobody gets more copies than attempts were
  made; an opt-out holds; what was let through is carried until everybody who wants it
  has it, a call failed for it or a stop took it; a stop costs the queue one event.
* *Linking*: a token links once; an account belongs to one user; a refused request
  leaves the token usable; what a disconnect has revoked stays revoked; deadlocks
  are answered.
* *Uploads*: a completion is kept back only within the window of a reported one;
  an aborted upload is reported, one in time is not; the table empties.
* *Alerts*: a firing alert is not repeated within 300 s, and what is dropped was sent.
* *Bot*: each update is handled at least once, and in its order within one process; a
  welcome is true; reports go to linked accounts only.
* *Backup and recovery*: an archive has the file of each of its rows, and so has an
  open site, but for files that a failure has cost; recovery never deletes the only
  copy; a site that a script leaves closed is reported.

The hazards, each at its line, and the properties that would catch it going wrong
are in `PROJECT.json`.

## 2. Plan

| Order | Module | Composes | Status |
|---|---|---|---|
| 1 | `NotificationDelivery` (abstract), `NotificationQueue`, `NotificationQueueProofs`, `NotificationQueueLossProofs` | the queue implements `NotificationDelivery` | done |
| 2 | `EventPipeline` (events and alerts), `EventPipelineProofs` | over `NotificationDelivery` | done |
| 3 | `AccountLinks` (abstract), `TelegramLinking`, `TelegramLinkingProofs`, `TelegramLinkingRefinement` | the transactions implement `AccountLinks` | done |
| 4 | `TelegramBot`, `TelegramBotProofs` | over `AccountLinks` | done |
| 5 | `BackupRecovery`, `BackupRecoveryProofs` | five scripts over one backup directory, one USB and one maintenance flag | done |
| 6 | `UploadTracker`, `UploadTrackerProofs` | | done |
| 7 | The antivirus cursor of `UploadTracker.php` (248, 295) | | left |
| 8 | Pure functions: retry delay, path filters, metrics | | left |

The two abstract specifications are what makes the compositions small:
`EventPipeline` uses the queue as a `NotificationDelivery` and `TelegramBot` uses the
linking tables as `AccountLinks`, and both uses are justified by a proved refinement.

Every safety invariant of a run, and every action property and refinement, is proved
(section 6). What is worth stating and proving next is a promise of `EventPipeline` as
a module of its own, one step per event and user, which `BoundedCopies`,
`OptOutIsHonoured` and `OwedIsCarried` would become steps of.

## 3. The modules and the code

### NotificationDelivery

What the queue promises, one phase per notification: *new*, *waiting*, *working*,
*settled*, *lost*. One notification is worked on at a time and its callback runs at
most `Limit` times. `Replace` is there because the code has it: when only part of a
hash is left, `from_dict` makes up a fresh id (notification_queue.py:109-124).

### NotificationQueue

Redis is five variables; a MULTI/EXEC pipeline is one step. The sorted set of
retries is split into `retry` (score not reached) and `due` (reached, in score
order), so that time needs no clock. The worker is a program counter over its
awaits: `poll` → `dequeue` → `fetch` → `claim` → `call` → `record`/`fail`/`recover`.
`fail` is `_handle_send_failure` called from the `try` block and `recover` the same
function called from its handler; what it raises in the first goes to the second
(`Escalate`). Every Redis call has a `...Raises` twin in which the server may or may
not have done the work. `HincrbybyExists` says whether the pipeline has the method
`hincrbyby` that the code calls: not in `redis.asyncio`, but in the `MagicMock`
pipelines of the tests.

History variables (`used`, `accepted`, `settled`, `acked`, `sends`) are read by
properties only. The refinement mapping to `NotificationDelivery` is at the end of
the module: a notification is *working* when the worker holds it, *waiting* when it
is in a list or set, *settled* when recorded.

### EventPipeline

One asyncio loop: an await ends an action. A request comes as an event or as an
alert (`via`); `handler` is where it is, `run` what each sender (a direct task, the
alert handler, or the worker's callback) is doing, `svc` the stages of `start` and
`stop`. Both kinds are checked and marked in one step, each against its own table of
marks and its own window; an event then goes to the queue or to a direct task, an
alert is sent under the handler, which answers when the sends are through. The alerts
of one POST are requests of their own. The queue is `NotificationDelivery`. `quota`
and `late` count, for a user who opted out, the messages already under way and those
that came. `RecordsSuccess` says whether the queue can record a
success: it is FALSE in both runs, for the queue as it ships cannot (see
`OutcomeIsRecorded`); the theorems hold for either. The end of a process cuts what its
handlers and tasks are doing (`EndProcess`), and takes what the worker has in hand.

### AccountLinks

What the linking methods do to tokens and links, seen from outside their transactions:
a token is made once, expires, and is spent once, by a link of its owner to an account
that nobody else has, or by a disconnect of its owner; nothing else makes or undoes a
link. This is what requests that overlap keep to, and less than what each does alone:
`Disconnect(u, S)` may leave out tokens made meanwhile and may leave a connection made
meanwhile (shown by the run `disconnect_revokes`), and `Create` does not ask for an
active token, for two requests may both find none. That requests act as if each had run
alone is not claimed, because it is not so.

### TelegramLinking

PostgreSQL under READ COMMITTED: `owner`, `state` and `conn` are the committed
tables; `locks` the row and unique-key locks of open transactions. Each statement
is an action; a blocked one is disabled while another transaction holds what it
needs; changes appear with the commit. `Deadlocked` and `DeadlockAbort` are
PostgreSQL's detector. The initial state is any table earlier requests may have
left. A row
that is deleted and inserted again while a DELETE waits for it is taken for the same
row. `LinksAccounts` is the refinement: a transaction takes effect at its commit, in a
step of `AccountLinks`, with the latitude that module gives.

### TelegramBot

`stage` is the bot's next await: `poll` (getUpdates), `take` (the next update of the
batch, after the offset was moved), then `post` for a linking token, `check` and `get`
for a report, `send` for every answer. The offset lives in the process and starts
at 0; Telegram forgets the updates before the offset it is asked for (`confirmed`),
so that a crash brings back the rest. A handler that raises abandons its batch
(`Raise`); a call that fails ends in an answer or in `Raise`, as in the code. A
validation whose caller has gone may still be committed (`late`, `LateLink`). A
validation is one step, at the moment its transaction begins: the token must be active
then (`Valid`). Of
Watchtower the module has what decides an answer: `validate-token`, `check-auth`, the
five internal reports and the latch `_prometheus_unavailable`, which `/health`
clears and which `/status` reads. In webhook mode (`hooked`) updates are posted and
acknowledged. Linking is `AccountLinks`, so that users create tokens and disconnect
between any two awaits of the bot.

### BackupRecovery

Each script is a program counter over the commands that change something: `bk` for
`backup.sh` (dump, copy, seal, USB hook), `rs` for `restore.sh` (pull, choose, close,
config, database, data, open), `mt` for `maintenance.sh`, `dr` for the fetch of
`dr-recover.sh`. None knows of the others, so all interleave, with users who upload
and delete files while the site is open. The site is `rows` (what the database
lists), `files` (what the data directory has), the maintenance `flag` of
`config.php` and `web`; an archive is a snapshot of these, taken dump first. A command
fails as the script treats it, and hardly any failure ends a script:

* `backup.sh`: half a dump and half a config are taken (`Dump`); rsync and the tar of
  the data may leave part (`CopyFails`); the tar of the parts may leave members out or
  cut them short, and is encrypted all the same (`Seal`, `Damaged`); a missing key, an
  empty dump or a failing openssl exits. What an archive has is in its `holds`.
* `restore.sh`: an archive that cannot be decrypted ends it before it touches the site
  (`Choose`); occ and systemctl may fail unseen, so that the site may stay open in
  mid-restore or closed after it (`Close`, `Reopen`); `rm -rf` of the config is followed
  by a tar nobody looks at, so that config.php may be gone (`flag` "none",
  `RestoreConfig`); psql runs without a single transaction, so that a failed or cut
  import leaves part of the dump, in a new database or, when DROP DATABASE failed, among
  the old rows (`RestoreDatabase`, `HalfImported`); tar of the data may leave part.
* `maintenance.sh`: leaves in silence without config.php; counts the commands that fail,
  goes on and reports at the end (`Run`, `MaintenanceReports`).
* A power cut leaves the stage it meets half done (`CutShort`), and nginx and PHP start
  with the host. A lost host is rebuilt by `install.sh`, whose failure is reported, and
  recovered by `dr-recover.sh --from-usb` or by `dr-recover.yml` (`Routes`), which
  copies the archives itself and hands `restore.sh` the newest.

`reported` says that somebody has been told since the site was last open; the operator
then reopens it. `lost` has the files the site is without for a reason that no property
can forbid: a command left them out and its failure was ignored, an import or a power
cut in mid-restore did not come to them, a web server that did not stop showed their rows
first, they were deleted between dump and copy, or their rows come from a dump made in
mid-restore. `RestoresWhole` excepts them, and nothing else.

### UploadTracker

`todo` is what is left of a request: Nextcloud's hooks around one write (a new file,
an existing one, or the rename that ends a chunked upload) and the write itself.
`at` is the next statement of the current hook. `rows` holds the rows of each path:
a sequence, for nothing makes `node_path` unique. `job` is `failStale`: select, then
one POST and one DELETE per stale row, then the sweep. Ages replace clock values
and stop one tick after the TTL, so time goes on for ever in a finite model; a tick
is longer than a statement and than the timeout of a POST. A chunked upload that
stops before its rename fires no hook a listener looks at: it is *unseen*, and
nothing reports it. A SELECT of the job that fails with a database error ends the run
(`JobDies`); any other failure makes an empty list, and the sweep follows (`JobMisses`).

## 4. Runs

All "pass" runs are complete explorations.

| Run | Question | Bounds |
|---|---|---|
| `queue_shipped` | The queue as it ships: one place per notification, the retry limit over restarts, one loss per fault, the refinement of `NotificationDelivery`, and that what was accepted is settled and nothing stays queued | 1 notification, limit 2, one crash, one failing Redis call and one expired hash in every combination; 3 ids, for `from_dict` makes up new ones |
| `queue_mock` | The depth counter, and the SENT and FAILED pipelines, over a client that has `hincrbyby` | 2 notifications and the one an expired hash makes, limit 2, one crash, one failing call and one expired hash |
| `outcome_is_recorded` | Findings: neither success nor the end of the attempts is recorded | 2 notifications, no fault |
| `event_storm` | Deduplication of events and alerts: one per window, never the only copy dropped while its process goes on; what a stop costs the queue | 2 requests with one fingerprint, windows 1 and 2, 3 ticks, one stop or crash, one fault |
| `event_delivery` | Copies per user, opt-out, nothing forgotten, delivery | 1 event or alert, 2 users with one change each, 2 faults, 1 stop |
| `linking` | Safety of linking, the refinement of `AccountLinks`, and that every request is answered | 2 users, accounts, tokens and requests of any kind, one lost database |
| `disconnect_revokes` | Finding: a validate between the two statements of a disconnect | as above, no fault |
| `bot` | No update is lost, order and repetition, true welcomes, authorized reports, the latch, and that every update is handled | 2 updates of any text, 2 users, 1 account, 1 token, one crash and one fault, both modes |
| `uploads` | What is kept back, what is reported as failed, that an aborted upload keeps its row until it is reported, that the table empties | 2 requests for one file, window and TTL 2 ticks, one fault |
| `reported_once` | Finding: one write reported twice | as above, no fault |
| `recovery` | An open site is whole but for what failures cost it, and is not left closed in silence | 1 file, 1 backup, 1 restore on a live host, two troubles (a command that fails, seen or not, a power cut or a lost host), both ways to recover |
| `fetch_keeps_backup` | Finding: `dr-recover.sh --from-usb` empties the USB | 1 file, 1 backup, 1 lost host |

Why the bounds are enough: the hazards are about *two* parties on one object (two
notifications that change places in the queue, two requests with one fingerprint,
two transactions on a token, a redelivered update and its first handling, a backup
or a restore beside the maintenance) and about *one* fault at a bad moment; each
bound allows every order of these. A third request would find the object in a
state the second may leave it in; `linking` starts from any tables for that reason.
`queue_shipped` has one notification because `queue_mock` has two, and because its
invariants are proved for any number. `recovery` has one file, because the scripts
treat files alike and nothing relates one to another, so that a part of a set is the file
or none; and two troubles, for a lost host takes one and the recovery may then fail. It
makes one archive: which of several
archives is taken matters only to `Choose`, which takes the newest; the theorems
have any number of archives and troubles. Windows and TTL are chosen so that a time
inside, at and after each boundary exists, and so that the two windows differ.

The theorems of section 6 remove the bounds from the safety properties of every run.

`CHECK_DEADLOCK FALSE` is set where the bounds make the system stop: all requests
made and the budget of faults used. `bot` and `uploads` check deadlock. Symmetry is
used in runs that check an invariant only.

### Findings

* `OutcomeIsRecorded`: both pipelines of the worker call `pipe.hincrbyby`
  (notification_queue.py:376, 416), a name `redis.asyncio` does not have. The
  `AttributeError` is caught and treated as a failed send: a delivered notification
  is sent again until its attempts are used up, and a given-up one stays PROCESSING.
  The unit tests do not see it because their pipelines are mocks.
* `DisconnectRevokes`: `disconnect` deletes the connection and marks the tokens in a
  second statement; a validation that commits in between leaves a connection behind.
* `ReportedOnce`: `beginWrite` takes away the completion marker of another request.
* `FetchKeepsBackup`: on a rebuilt host, `dr-recover.sh --from-usb` calls
  `usb-backup.sh`, which mirrors `BACKUP_DIR` to the USB with `--delete`
  (dr-recover.sh:86, usb-backup.sh:80). The directory is new and empty
  (install.sh:651): the archives to be fetched are deleted. `dr-recover.sh:15` and
  `docs/BACKUP.md:139` name this as the way to recover. The playbook's way
  (`restore.sh --from-usb`) copies in the right direction.

### Divergences seen while modelling, without a run of their own

* In webhook mode, the default, the bot's server answers every update with 200 and
  hands none to the code that handles updates (telegram_bot.py:787), although its
  docstring (715-718) and README.md:435 describe it as a way to run the bot. The
  model has it (`Webhook`); `UpdatesAreHandled` is about polling.
* A bot that polls while a webhook is set is refused by Telegram for ever: nothing
  deletes the webhook.
* The bot's messages for an invalid and for an already linked token cannot be
  reached: `raise_for_status` turns these answers into errors first.
* `prune_retention` is never called by a backup, although docs/BACKUP.md:49 says it
  runs after each. The model lets it run at any time.
* The BACKUP_FAILED report at backup.sh:222 is never sent: the failures that are looked
  at exit inside `create_backup` (71, 80, 107), the others are not looked at.
* An alert that resolves and fires again within 300 s is dropped: its mark stays.
* `command_requests_total` is counted in the bot's process, which nobody scrapes.
* The nightly backup of a rebuilt host, too, mirrors with `--delete` and takes the
  old archives off the USB, unless they were pulled first.
* A power cut between the database and the data of a restore leaves an open site
  whose rows lack files: nginx and PHP are enabled at boot, and the restored flag
  may be off. `RestoresWhole` excepts it (`lost`).
* `restore.sh` says "Restore complete" (128) and reports nothing when the services did
  not start (121), occ did not clear the flag (124) or the config was not unpacked after
  it had been removed (91-93), although docs/BACKUP.md:86 has it restart the services and
  end the maintenance mode. The nightly maintenance clears a flag that was left on, but
  leaves in silence without config.php (maintenance.sh:46-47). `ReopensOrReports` excepts
  the two cases that nothing repairs: no config.php, and services that did not start.
* `restore.sh` unpacks the archived config.php (93) over the one in which it has just
  set maintenance mode (84), which was off when the archive was made, as a rule: database
  and data are restored behind a stopped web server only, although restore.sh:6 says that
  "Nextcloud is placed in maintenance mode around the restore window".
* `create_link_token` says "Raises ValueError if user already has an active (unused,
  unexpired) token" (telegram_linking.py:100), but it locks nothing between its SELECT
  (106) and its INSERT (118), and no index forbids a second one: two requests that
  overlap both make one. `CreateSelect` and `CreateInsert` have it.
* `beginWrite` can make two rows of one path, and an upload that completed is then
  reported as failed because of the other row; `failStale` deletes by path, so that an
  upload that began meanwhile may never be reported. The model has both; `NoHastyFailure`
  excepts the first, `AbortedIsTracked` counts the second as accounted for.

## 5. Fairness

* Queue: weak fairness of the worker's steps (the loop never ends and each Redis call
  has a timeout), of restarts (systemd's `Restart=on-failure` after a crash, an operator after a stop)
  and of time (`BecomeDue`). None for faults.
* Events: weak fairness of each handler, task and of the worker (one loop serves all
  that wait, every call has a timeout), and of `start` and the later stages of `stop`.
* Linking: weak fairness of each request's steps: a thread runs its method to the end,
  PostgreSQL serves its statements and breaks deadlocks. None for new requests.
* Bot: weak fairness of the bot's own steps (`Bot`): its calls have timeouts. That
  includes its start; the repository has no unit that starts the bot again, so this
  is what an operator or a supervisor does. None for users, Prometheus or
  Watchtower's restarts.
* Recovery: weak fairness of the steps of `restore.sh` and of the fetch (a script that
  runs goes on), and of `maintenance.sh`, which includes its nightly timer. None for
  backups, for the operator's restores or for the rebuild of a host.
* Uploads: weak fairness of each request, of the write (it ends or is aborted), of the
  job (Nextcloud's cron) and of the clock.

## 6. Proofs

All theorems are about `Spec`, without fairness, and assume only the named `ASSUME`s
of the modules: sets disjoint from their "none" values, bounds that are natural
numbers, and where noted more. They hold for any number of ids, requests, users and
faults.

### The queue

`NotificationQueueProofs` (`QueueAssumption`) proves `TypeCorrect`,
`OnePlaceForEach`, `SendsBounded`, `SendsCounted`, and `QueueDelivers`: the queue
implements `NotificationDelivery`. The inductive invariant is `IInv`. That no id is
in two places needs that ids are never handed out twice (`UsedIds`); that the callback
runs at most `max_retries` times needs that the attempts stored in Redis and those in
the worker's hands are both never behind the sends (`AttemptsInRedis`,
`AttemptsInHands`), with a case for each stage of the worker, because the attempt is
counted before the callback runs and read back after a restart.

`NotificationQueueLossProofs` (also `HashAssumption`: "no hash" is not a hash) proves
`LossesAreFaults`, `DepthCountsBacklog` and `CountersAreRecorded` (`LocalBehindRedis`,
which no run checks: a counter of the process moves in the step after the one in
Redis). `OneLossPerFault` is not inductive: an
expired hash costs its notification only later, when a worker pops the id. The proof
counts `Doomed` instead, the accepted notifications that are lost or have no whole
hash any more: every step of the code leaves this set alone or makes it smaller, and
every fault adds at most one.

`DepthIsBacklog` bounds the counter on both sides, for either client. From above: the
depth exceeds the notifications nothing has counted down yet (`Owed`: accepted and
not settled, or settled without a record) by at most one per call that raised. From
below: all that the depth has to count (`All`: what is here, what was lost, what is
never counted down), and once more each accepted notification whose hash has expired
(`Broken`: a worker will make it into another one that nothing counted), is covered by
the depth and one for each error and expiry. `DepthInv` is these two inequalities and
that the sets are finite; each action is reduced to how many elements it adds to or
takes from the sets and what it does to the counter (`Effect`, `AtMost`), so that the
counting is done once.

### Events

`EventPipelineProofs` (`PipelineAssumption`, with finitely many requests) proves
`TypesHold`, `StormsAreThinned` (`OncePerWindow`), `NothingIsSwallowed`
(`SuppressedIsCarried`), `CopiesAreBounded`, `StopsAreCheap` (`StopsLoseOne`),
`OptOutHolds` and `NothingIsForgotten` (`OwedIsCarried`), for a queue that records
successes and for one that does not.

* One request per window, and no only copy dropped: the marks of a process are the
  stamps of requests it let through, and no older than any of them (`Marked`,
  `Stamped`). What is let through is with its handler, in the queue, settled, or sent by a
  task that no stop cut (`OnItsWay`); else the end of its process took it, or the queue
  lost it to a failed call (`Accounted`). So a duplicate that a process drops has a twin
  on its way as long as that process goes on; a stop may take the only copy, and the
  site, which goes last, then drops duplicates of an event that nobody has. The
  statements except just that.
* What a stop costs: only a worker with a connected queue has an event in hand (`Idle`),
  and that one at most; what was cut off or lost without a failed call was so by the end
  of its process (`LostByStops`). Each step is reduced to what it does to the process and
  the queue together (`StopView`), so that the lost events are counted once.
* Copies: what a user has got from one request and what the senders at work still have
  ahead for that user are together no more than the copies allowed (`Counted`), which
  needs what each stage of a sender implies (`Shapes`).
* Opting out: the messages that came late and the senders that still owe one fit the
  quota (`OwedFits`); nobody starts to owe one to a user who is gone.
* Nothing forgotten, the safety half of `ReachesUsers`: for the queue and for the
  direct task apart, a user who wants the event has it or is still ahead of somebody
  (`Kept`). Each hand-over needs its own fact: the worker has one event in hand, the
  one its callback runs for (`Hands`), so a stop loses nothing else; an event goes
  back to the queue only with a run left (`Unspent`); a sender gives up only for a
  failed call (`FailedIsUpset`); and who changed nothing is among those the sender
  reads (`Willing`). `RunAssumption` says that "no run" is not a run.

### Linking

`TelegramLinkingProofs` proves `LinkingTypes`, `SingleUse` (`TokenLinksOnce`),
`AccountsAreUnique` (`OneUserPerAccount`) and `RevocationIsFinal`
(`RevokedNeverLinks`). Its invariant says what the locks are for: no two
transactions hold one row (`LocksExclude`); a request past its FOR UPDATE holds an
unused token (`Held`); one that is about to link holds an account nobody has
(`Reserved`); a token whose disconnect has been answered is used or gone, and no
request holds it (`Revoked`). Neither single use nor revocation is inductive without
these.

`TelegramLinkingRefinement` adds that a validate acts for the owner of its token
(`OwnToken`) and that a disconnect has locked tokens of its own user only
(`OwnMarks`), and proves `TokensSpentForAReason` and
`LinkingImplementsAccountLinks`: a commit is one step of `AccountLinks` and every
other statement a stutter.

### The bot

`TelegramBotProofs` (`BotAssumption`: texts and answers are told apart) proves
`TypesHold`, `NoUpdateIsLost` (`ConfirmedIsHandled`), `ConnectedOnce`
(`ConnectedIsTrue`), `ReportsAreAuthorized` (`ReportNeedsLink`), `TakenInOrder`
(`InOrderOnce`) and `LatchIsCleared` (`StatusAfterHealth`). The invariant relates the
offset, the update in hand and the settled ones (`InHand`, `Progress`): everything
before the offset is settled, or is the one update in hand, whose stage then does not
poll. A welcome is said once because a token that linked an account is spent for ever
(`Joined`), which is where `AccountLinks` is used.

### Recovery

`BackupRecoveryProofs` (`RecoveryAssumption`) proves `TypesHold` and
`RestoredSitesAreWhole` (`RestoresWhole`). The invariant carries the promise through
the scripts: what `backup.sh` has in its work directory is as good as an archive at
each of its stages (`WorkWhole`), whatever a tar that failed unseen has left of it
(`Damaged`); so is what `restore.sh` has unpacked (`SourceWhole`); between the database
and the data of a restore, the rows have their files in the directory *or in the
archive*, and in the directory alone if the web server runs (`SiteWhole`), but for what
is in `lost`; and no restore runs while the host is gone or fetches (`OneRecovery`). The
theorem says that no row loses its file except by the failures and overlaps that `lost`
stands for (section 3); that those do lose files is what the code does.

### Uploads

`UploadTrackerProofs` (`TrackerAssumption`) proves `TypesHold`, `SuppressionEnds`
(`SuppressedInWindow`), `FailuresAreOld` (`NoHastyFailure`) and `AbortedAreTracked`
(`AbortedIsTracked`), for any number of requests, paths and faults. Nothing makes a
path's rows unique, so the invariant is about every row of a sequence, and each
conjunct is what one of the theorems needs to be inductive:

* a marker of completion is at least as old as the last decision about its path, and
  no time passes while a decision is carried out (`MarkerInv`); so a marker that keeps
  a completion back is younger than the window only if the decision is;
* a path that never had two rows at once has one at most (`TwinInv`), and its started
  row has a request that began no later and was aborted or will still complete it
  (`SponsorInv`): a stale row is the row of a request that is late;
* a request that began a row has a started one to rely on till it is informed or
  excused, and an UPDATE on its way finds a row (`TrackInv`), whatever the hooks of
  other requests and the job take away.

### Model-checked only

Liveness (`AcceptedIsSettled`, `QueueDrains`, `ReachesUsers`, `EveryRequestEnds`,
`UpdatesAreHandled`, `AbortedIsReported`, `TableDrains`, `ReopensOrReports`): fairness
is out of the prover's reach. For four of them the safety half is proved: without a
fault nothing is lost (`OneLossPerFault`), forgotten (`OwedIsCarried`), confirmed
unhandled (`ConfirmedIsHandled`) or untracked (`AbortedIsTracked`); what TLC adds is
that the fair steps are enough to get there. The four runs that expect a violation
are counterexamples, which need no proof.

## 7. Not modelled

* Message texts, formatting, HTTP details, authentication headers, logging.
* Retry delays as numbers: a retry is not due, then due.
* Redis eviction under memory pressure (a lost hash is an expired one).
* The antivirus cursor (`reportAntivirusRejections`, UploadTracker.php:248-295): it
  reads Nextcloud's activity table, whose ids and commit order belong to Nextcloud.
* A user whose send failed while another was reached (watchtower.py:2175): the
  callback succeeds and that user is not tried again; the model has it, and
  `ReachesUsers` is about runs without a failed call.
* That Telegram forgets updates after 24 hours.
* The watchdog of systemd and its timing; Prometheus series and their conversion
  (`W/watchtower_metrics.py`).
* The bounds of time in a backup: labels and ages of archives are one order.
* The components with the status `not_modelled` in `PROJECT.json`, with the reason
  there: they are sequential, declarative, read-only or outside the system.
