----------------------------- MODULE TelegramBot -----------------------------
(***************************************************************************)
(* scripts/watchtower/telegram_bot.py with what it asks of Watchtower      *)
(* (scripts/watchtower/watchtower.py): the bot fetches updates by polling, *)
(* or is posted them by Telegram, and handles them one at a time:          *)
(*                                                                         *)
(*     off -> poll -> take -+-> post (validate-token) ----------+-> send   *)
(*              ^       ^   +-> check (authorization) -> get ---+     |    *)
(*              |       |   +-------------------- (/start, /help)     |    *)
(*              +-------+---------------------------------------------+    *)
(*                                                                         *)
(* Telegram keeps an update until a getUpdates call asks for a later one.  *)
(* The offset of the bot lives in its process.  Linking is the object of   *)
(* AccountLinks, which TelegramLinking implements.                         *)
(***************************************************************************)
EXTENDS Integers

CONSTANTS
  Users,            (* CloudVault user ids.                                *)
  Accounts,         (* Telegram user ids.                                  *)
  Tokens,           (* Link tokens: the text is then "/start <token>".     *)
  Commands,         (* The other texts of updates.                         *)
  Modes,            (* WATCHTELEGRAM_USE_WEBHOOK: the modes of a start.    *)
  None,             (* Not a user, an account, a token or a text.          *)
  MaxUpdates,       (* Bound: updates sent to the bot, ids from 1.         *)
  MaxCrashes,       (* Bound: ends of the bot's process.                   *)
  MaxFaults         (* Bound: calls that fail, handlers that raise.        *)

Open == {"start", "help"}
Reports == {"status", "health", "metrics", "storage", "jobs", "alerts"}

\* Messages to accounts that passed the check; "trouble" stands for all that say
\* what could not be had.
Disclosing == {"figures", "blank", "report", "trouble"}
Answers == {"help", "connected", "unavailable", "denied"} \union Disclosing

ASSUME BotAssumption ==
  /\ Commands \subseteq Open \union Reports \union {"other"}
  /\ Modes \subseteq {"polling", "webhook"}
  /\ None \notin Users \union Accounts \union Tokens \union Commands
  /\ None \notin Answers
  /\ Tokens \intersect (Open \union Reports \union {"other"}) = {}
  /\ MaxUpdates \in Nat /\ MaxCrashes \in Nat /\ MaxFaults \in Nat

VARIABLES
  (*************************************************************************)
  (* PostgreSQL, through telegram_linking.py                               *)
  (*************************************************************************)
  owner, phase, conn,
  late,       (* Validations sent to Watchtower whose caller is gone.      *)
  (*************************************************************************)
  (* Watchtower and Prometheus                                             *)
  (*************************************************************************)
  prom,       (* Whether Prometheus answers.                               *)
  latch,      (* _prometheus_unavailable.                                  *)
  (*************************************************************************)
  (* Telegram                                                              *)
  (*************************************************************************)
  text, from, (* The updates.                                              *)
  arrived,    (* The number of updates so far.                             *)
  confirmed,  (* Updates up to this one are forgotten.                     *)
  hooked,     (* A webhook is set: getUpdates is refused.                  *)
  (*************************************************************************)
  (* The bot's process                                                     *)
  (*************************************************************************)
  stage, offset,
  at, upto,   (* The update in hand, and the last one of the batch.        *)
  answer,     (* The message about to be sent.                             *)
  (*************************************************************************)
  (* History                                                               *)
  (*************************************************************************)
  done,       (* Updates handled to the end.                               *)
  skipped,    (* Updates whose handler raised.                             *)
  acked,      (* Updates posted to the webhook and answered 200.           *)
  begun,      (* Updates taken by this process.                            *)
  joined,     (* The account each token linked.                            *)
  welcomes,   (* Messages per token that say it linked.                    *)
  cut,        (* The account at hand lost a link since it was checked.     *)
  sound,      (* A health check found Prometheus up, and it still is.      *)
  crashes, faults

links    == <<owner, phase, conn, late, joined>>
monitor  == <<prom, latch, sound>>
telegram == <<text, from, arrived, confirmed, hooked>>
bot      == <<stage, offset, at, upto, answer>>
past     == <<done, skipped, acked, begun, welcomes, cut>>
vars     == <<links, monitor, telegram, bot, past, crashes, faults>>

Linking == INSTANCE AccountLinks

Updates == 1..MaxUpdates
Texts == Commands \union Tokens
Handling == {"post", "check", "get", "send"}
Stages == Handling \union {"off", "poll", "take", "serve"}

TypeOK ==
  /\ Linking!LinksTypeOK
  /\ late \subseteq Tokens \X Accounts
  /\ joined \in [Tokens -> Accounts \union {None}]
  /\ prom \in {"up", "down"} /\ latch \in BOOLEAN /\ sound \in BOOLEAN
  /\ text \in [Updates -> Texts \union {None}]
  /\ from \in [Updates -> Accounts \union {None}]
  /\ arrived \in 0..MaxUpdates
  /\ confirmed \in 0..arrived
  /\ hooked \in BOOLEAN
  /\ stage \in Stages
  /\ offset \in 0..arrived + 1
  /\ upto \in 0..arrived
  /\ at \in 0..upto
  /\ answer \in Answers \union {None}
  /\ done \subseteq Updates /\ skipped \subseteq Updates
  /\ acked \subseteq Updates /\ begun \subseteq Updates
  /\ welcomes \in [Tokens -> Nat]
  /\ cut \in BOOLEAN
  /\ crashes \in 0..MaxCrashes
  /\ faults \in 0..MaxFaults

Init ==
  /\ Linking!LinksInit
  /\ \A t \in Tokens : phase[t] = "new"
  /\ late = {}
  /\ joined = [t \in Tokens |-> None]
  /\ prom \in {"up", "down"}
  /\ latch = FALSE /\ sound = FALSE
  /\ text = [i \in Updates |-> None]
  /\ from = [i \in Updates |-> None]
  /\ arrived = 0 /\ confirmed = 0
  /\ hooked = FALSE
  /\ stage = "off" /\ offset = 0 /\ at = 0 /\ upto = 0
  /\ answer = None
  /\ done = {} /\ skipped = {} /\ acked = {} /\ begun = {}
  /\ welcomes = [t \in Tokens |-> 0]
  /\ cut = FALSE
  /\ crashes = 0 /\ faults = 0

(***************************************************************************)
(* Telegram's side                                                         *)
(***************************************************************************)

\* Somebody writes to the bot; a linking token is read off the settings page.
Arrive ==
  /\ arrived < MaxUpdates
  /\ \E x \in Texts, a \in Accounts :
       /\ text' = [text EXCEPT ![arrived + 1] = x]
       /\ from' = [from EXCEPT ![arrived + 1] = a]
  /\ arrived' = arrived + 1
  /\ UNCHANGED <<links, monitor, confirmed, hooked, bot, past, crashes,
                 faults>>

Fault ==
  /\ faults < MaxFaults
  /\ faults' = faults + 1

(***************************************************************************)
(* The process                                                             *)
(***************************************************************************)

\* With a webhook URL, main sets it in either mode; nothing ever removes it.
Start ==
  /\ stage = "off"
  /\ \E m \in Modes : stage' = IF m = "polling" THEN "poll" ELSE "serve"
  /\ hooked' \in {hooked, TRUE}
  /\ UNCHANGED <<links, monitor, text, from, arrived, confirmed, offset, at,
                 upto, answer, past, crashes, faults>>

\* A validation under way is in Watchtower's hands.
Crash ==
  /\ stage # "off"
  /\ crashes < MaxCrashes
  /\ crashes' = crashes + 1
  /\ stage' = "off" /\ offset' = 0 /\ at' = 0 /\ upto' = 0
  /\ answer' = None
  /\ begun' = {} /\ cut' = FALSE
  /\ \/ UNCHANGED late
     \/ stage = "post" /\ late' = late \union {<<text[at], from[at]>>}
  /\ UNCHANGED <<owner, phase, conn, joined, monitor, telegram, done, skipped,
                 acked, welcomes, faults>>

LaterSlip(x, y) == y
Later(x, y) == IF x > y THEN x ELSE y

\* getUpdates(offset) forgets the updates before offset and returns the others.
Poll ==
  /\ stage = "poll"
  /\ ~ hooked
  /\ confirmed' = Later(confirmed, offset - 1)
  /\ \/ /\ at' = confirmed'
        /\ upto' = arrived
        /\ stage' = IF at' < upto' THEN "take" ELSE "poll"
        /\ UNCHANGED faults
     \/ /\ Fault
        /\ UNCHANGED <<at, upto, stage>>
  /\ UNCHANGED <<links, monitor, text, from, arrived, hooked, offset, answer,
                 past, crashes>>

\* The update in hand is over; on to the next one of the batch.
Handled ==
  /\ stage' = IF at' < upto THEN "take" ELSE "poll"
  /\ done' = done \union {at'}
  /\ answer' = None

Reply(message) ==
  /\ stage' = "send"
  /\ answer' = message
  /\ UNCHANGED done

\* The offset that asks for what follows update i; it is set before i is
\* handled.
FollowingSlip(i) == upto + 1
FollowingItself(i) == i
Following(i) == i + 1

\* handle_update, up to its first call.
Take ==
  /\ stage = "take"
  /\ at' = at + 1
  /\ offset' = Following(at')
  /\ begun' = begun \union {at'}
  /\ \/ (text[at'] = "other" /\ Handled)
     \/ (text[at'] \in Open /\ Reply("help"))
     \/ /\ text[at'] \in Tokens \union Reports
        /\ stage' = IF text[at'] \in Tokens THEN "post" ELSE "check"
        /\ UNCHANGED <<answer, done>>
  /\ UNCHANGED <<links, monitor, telegram, upto, skipped, acked, welcomes,
                 cut, crashes, faults>>

\* An exception ends the batch: five seconds later the rest is fetched anew.
Raise ==
  /\ stage \in Handling
  /\ Fault
  /\ stage' = "poll"
  /\ skipped' = skipped \union {at}
  /\ answer' = None
  /\ cut' = FALSE
  /\ UNCHANGED <<links, monitor, telegram, offset, at, upto, done, acked,
                 begun, welcomes, crashes>>

(***************************************************************************)
(* /start <token>                                                          *)
(***************************************************************************)

\* The step stands for the moment the transaction begins, whose time it compares
\* with: a token that expires while the transaction waits was active then.
Valid(t, a) ==
  /\ phase[t] = "active"
  /\ owner[t] # None
  /\ ~ Linking!Elsewhere(t, a)

\* The transaction of validate_and_consume_token that links.
ConsumeSlip(t, a) ==
  /\ Valid(t, a)
  /\ conn' = [conn EXCEPT ![owner[t]] = a]
  /\ joined' = [joined EXCEPT ![t] = a]
  /\ UNCHANGED <<owner, phase>>

Consume(t, a) ==
  /\ Valid(t, a)
  /\ Linking!Link(t, a)
  /\ joined' = [joined EXCEPT ![t] = a]

\* handle_internal_validate answers an invalid token with 400 and an account
\* linked elsewhere with 409, which raise_for_status turns into the same
\* "watchtower_unavailable" as a call that fails or comes too late.
Post ==
  /\ stage = "post"
  /\ \/ /\ Consume(text[at], from[at])
        /\ Reply("connected")
        /\ UNCHANGED <<late, faults>>
     \/ /\ ~ Valid(text[at], from[at])
        /\ Reply("unavailable")
        /\ UNCHANGED <<links, faults>>
     \/ /\ Fault
        /\ Reply("unavailable")
        /\ late' \in {late, late \union {<<text[at], from[at]>>}}
        /\ UNCHANGED <<owner, phase, conn, joined>>
  /\ UNCHANGED <<monitor, telegram, offset, at, upto, skipped, acked, begun,
                 welcomes, cut, crashes>>

\* A check of authorization is under way or was passed.
Checked == stage = "get" \/ answer \in Disclosing

Linked(f, a) == \E u \in Users : f[u] = a

\* What a change of the connections means for the update in hand.
Unlinking ==
  cut' = \/ cut
         \/ /\ Checked
            /\ Linked(conn, from[at])
            /\ ~ Linked(conn', from[at])

LateLink ==
  \E v \in late :
    /\ late' = late \ {v}
    /\ \/ Consume(v[1], v[2])
       \/ /\ ~ Valid(v[1], v[2])
          /\ UNCHANGED <<owner, phase, conn, joined>>
    /\ Unlinking
    /\ UNCHANGED <<monitor, telegram, bot, done, skipped, acked, begun,
                   welcomes, crashes, faults>>

\* The settings page, the clock and the hourly cleanup.
Settings ==
  /\ \/ \E t \in Tokens, u \in Users : Linking!Create(t, u)
     \/ \E u \in Users, S \in SUBSET Tokens : Linking!Disconnect(u, S)
     \/ \E t \in Tokens : Linking!Expire(t) \/ Linking!Forget(t)
  /\ Unlinking
  /\ UNCHANGED <<late, joined, monitor, telegram, bot, done, skipped, acked,
                 begun, welcomes, crashes, faults>>

(***************************************************************************)
(* The commands that report                                                *)
(***************************************************************************)

\* Whoever cannot be checked is denied.
UncheckedSlip ==
  /\ stage' = "get"
  /\ UNCHANGED <<answer, done>>

Unchecked == Reply("denied")

Check ==
  /\ stage = "check"
  /\ \/ /\ Linked(conn, from[at])
        /\ stage' = "get"
        /\ UNCHANGED <<answer, done, faults>>
     \/ /\ ~ Linked(conn, from[at])
        /\ Reply("denied")
        /\ UNCHANGED faults
     \/ (Fault /\ Unchecked)
  /\ UNCHANGED <<links, monitor, telegram, offset, at, upto, skipped, acked,
                 begun, welcomes, cut, crashes>>

\* _check_prometheus_health sets the latch and clears it.
HealthCheckSlip ==
  /\ latch' = (latch \/ prom = "down")
  /\ sound' = (prom = "up")

HealthCheck ==
  /\ latch' = (prom = "down")
  /\ sound' = (prom = "up")

\* What Watchtower answers: handle_internal_status asks Prometheus for figures
\* unless the latch says that it is down.  A query that fails is an answer
\* without figures and does not raise, so the status never sets the latch.
StatusServed == {IF latch \/ prom = "down" THEN "blank" ELSE "figures"}
HealthServed == {"report"}
MetricsServed == {"report", "prometheus_disabled"}
StorageServed == {"report", "unavailable"}
JobsServed == {"report"}
AlertsServed == {"report", "alertmanager_unavailable"}

Served(command) ==
  CASE command = "status"  -> StatusServed
    [] command = "health"  -> HealthServed
    [] command = "metrics" -> MetricsServed
    [] command = "storage" -> StorageServed
    [] command = "jobs"    -> JobsServed
    [] command = "alerts"  -> AlertsServed

\* The bot's words for it.
Message(result) ==
  IF result \in {"figures", "blank", "report"} THEN result ELSE "trouble"

\* The command's question to Watchtower; one that fails may have reached it.
Get ==
  /\ stage = "get"
  /\ \/ /\ \E result \in Served(text[at]) : Reply(Message(result))
        /\ IF text[at] = "health" THEN HealthCheck
                                  ELSE UNCHANGED <<latch, sound>>
        /\ UNCHANGED faults
     \/ /\ Fault
        /\ Reply("trouble")
        /\ UNCHANGED <<latch, sound>> \/ (text[at] = "health" /\ HealthCheck)
  /\ UNCHANGED <<links, prom, telegram, offset, at, upto, skipped, acked,
                 begun, welcomes, cut, crashes>>

\* GET /health by anybody on the host.
PublicHealth ==
  /\ HealthCheck
  /\ UNCHANGED <<links, prom, telegram, bot, past, crashes, faults>>

PrometheusGoes ==
  /\ prom' = IF prom = "up" THEN "down" ELSE "up"
  /\ sound' = FALSE
  /\ UNCHANGED <<links, latch, telegram, bot, past, crashes, faults>>

WatchtowerRestarts ==
  /\ latch' = FALSE
  /\ UNCHANGED <<links, prom, sound, telegram, bot, past, crashes, faults>>

(***************************************************************************)
(* The end of an update                                                    *)
(***************************************************************************)

\* send_message: a message that fails is logged and not tried again.
Send ==
  /\ stage = "send"
  /\ UNCHANGED at
  /\ Handled
  /\ welcomes' = IF answer = "connected"
                 THEN [welcomes EXCEPT ![text[at]] = @ + 1] ELSE welcomes
  /\ cut' = FALSE
  /\ UNCHANGED <<links, monitor, telegram, offset, upto, skipped, acked,
                 begun, crashes, faults>>

(***************************************************************************)
(* Webhook mode                                                            *)
(***************************************************************************)

\* webhook_handler answers 200, but it hands the executor a function that only
\* makes the coroutine handle_webhook_request(...) and never awaits it.
Webhook ==
  /\ stage = "serve"
  /\ hooked
  /\ confirmed < arrived
  /\ confirmed' = confirmed + 1
  /\ acked' = acked \union {confirmed'}
  /\ UNCHANGED <<links, monitor, text, from, arrived, hooked, bot, done,
                 skipped, begun, welcomes, cut, crashes, faults>>

(***************************************************************************)
(* Specification                                                           *)
(***************************************************************************)

Bot ==
  \/ Start \/ Poll \/ Take \/ Raise \/ Post \/ Check \/ Get \/ Send \/ Webhook

Next ==
  \/ Bot \/ Crash \/ Arrive \/ LateLink \/ Settings
  \/ PublicHealth \/ PrometheusGoes \/ WatchtowerRestarts

Spec == Init /\ [][Next]_vars

FairSpec == Spec /\ WF_vars(Bot)

(***************************************************************************)
(* Properties                                                              *)
(***************************************************************************)

Settled == done \union skipped \union acked

\* Telegram forgets an update (getUpdates with a later offset, run_polling)
\* only after the bot handled it to the end, gave it up because its handler
\* raised, or took it by the webhook: no crash loses a message of a user.
ConfirmedIsHandled == 1..confirmed \subseteq Settled

\* Within one life of the process the updates are handled in their order, each
\* once, although batches are abandoned and fetched again: a handler that
\* raises cannot hold the bot up for ever with the same update.
InOrderOnce ==
  [][stage = "take" /\ at' # at /\ stage' # "off"
       => \A i \in begun : i < at']_vars

\* "connected successfully" is said at most once for a token, over redelivered
\* updates, several updates that bring the token, and validations that come
\* late; and it is said to the account that the token really linked.
ConnectedIsTrue ==
  /\ \A t \in Tokens : welcomes[t] =< IF joined[t] = None THEN 0 ELSE 1
  /\ answer = "connected" => /\ joined[text[at]] = from[at]
                             /\ welcomes[text[at]] = 0

\* Reports on the system go to linked accounts only: what is sent answers a
\* check that found a link, which is still there unless it was cut after the
\* check; a check that fails denies.
ReportNeedsLink ==
  answer \in Disclosing /\ ~ cut => Linked(conn, from[at])

\* Once a health check found Prometheus up and it stayed up, /status shows
\* figures: the latch that blanks them does not outlive the outage.
StatusAfterHealth ==
  [][sound /\ stage = "get" /\ text[at] = "status" /\ stage' = "send"
       => answer' \in {"figures", "trouble"}]_vars

\* Every update is handled in the end, over crashes, failing calls and handlers
\* that raise, if somebody starts the bot again; unless a webhook is set, which
\* the bot neither serves in polling mode nor handles in webhook mode.
UpdatesAreHandled ==
  []<>(1..arrived \subseteq Settled \/ hooked \/ stage = "serve")
=============================================================================
