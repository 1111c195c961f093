-------------------------- MODULE TelegramBotProofs --------------------------
(***************************************************************************)
(* Theorems about TelegramBot, for any users, accounts, tokens, commands,  *)
(* and number of updates, crashes and failing calls.                       *)
(***************************************************************************)
EXTENDS TelegramBot, TLAPS

\* What has arrived has a text and a sender.
Received ==
  \A i \in 1..arrived : text[i] \in Texts /\ from[i] \in Accounts

\* There is an update in hand while one is handled, and one to take while the
\* batch goes on.
InHand ==
  /\ stage \in Handling => at > 0 /\ offset = at + 1
  /\ stage = "take" => at < upto /\ offset =< at + 1
  /\ stage \in {"post"} => text[at] \in Tokens
  /\ stage \in {"check", "get"} => text[at] \in Reports
  /\ answer # None => stage = "send"
  /\ answer = "connected" => text[at] \in Tokens

\* All updates up to the one in hand, and all before the offset, are settled or
\* in hand.
Progress ==
  /\ 1..confirmed \subseteq Settled
  /\ \A i \in 1..at : i \in Settled \/ (stage \in Handling /\ i = at)
  /\ \A i \in 1..offset - 1 : i \in Settled \/ (stage \in Handling /\ i = at)

\* What the process has begun lies before its offset.
Begun == begun \subseteq 1..offset - 1

\* A token that linked an account is spent.
Joined == \A t \in Tokens : joined[t] # None => phase[t] = "spent"

\* The check of the update in hand still holds, or its link was cut since.
Authorized == Checked /\ ~ cut => Linked(conn, from[at])

\* The latch is clear while Prometheus stays as a health check found it.
Healthy == sound => ~ latch /\ prom = "up"

IInv ==
  /\ TypeOK /\ Received /\ InHand /\ Progress /\ Begun
  /\ Joined /\ ConnectedIsTrue /\ Authorized /\ Healthy

-----------------------------------------------------------------------------
(* Linking *)

LEMMA CreateTypes ==
  ASSUME Linking!LinksTypeOK, NEW t \in Tokens, NEW u \in Users,
         Linking!Create(t, u)
  PROVE  Linking!LinksTypeOK' /\ phase[t] = "new"
         /\ \A x \in Tokens : phase[x] = "spent" => phase'[x] = "spent"
  BY DEF Linking!LinksTypeOK, Linking!Create, Linking!Phases

LEMMA DisconnectTypes ==
  ASSUME Linking!LinksTypeOK, NEW u \in Users, NEW S \in SUBSET Tokens,
         Linking!Disconnect(u, S)
  PROVE  Linking!LinksTypeOK'
         /\ \A x \in Tokens : phase[x] = "spent" => phase'[x] = "spent"
<1>1. phase' \in [Tokens -> Linking!Phases]
  BY DEF Linking!LinksTypeOK, Linking!Disconnect, Linking!Phases
<1>2. conn' \in [Users -> Accounts \union {None}]
  BY DEF Linking!LinksTypeOK, Linking!Disconnect
<1>3. \A x \in Tokens : phase[x] = "spent" => phase'[x] = "spent"
  BY DEF Linking!LinksTypeOK, Linking!Disconnect
<1> QED
  BY <1>1, <1>2, <1>3 DEF Linking!LinksTypeOK, Linking!Disconnect

LEMMA AgeTypes ==
  ASSUME Linking!LinksTypeOK, NEW t \in Tokens,
         Linking!Expire(t) \/ Linking!Forget(t)
  PROVE  Linking!LinksTypeOK'
         /\ \A x \in Tokens : phase[x] = "spent" => phase'[x] = "spent"
  BY DEF Linking!LinksTypeOK, Linking!Expire, Linking!Forget, Linking!Phases

LEMMA ConsumeTypes ==
  ASSUME Linking!LinksTypeOK, joined \in [Tokens -> Accounts \union {None}],
         NEW t \in Tokens, NEW a \in Accounts, Consume(t, a)
  PROVE  /\ Linking!LinksTypeOK'
         /\ joined' \in [Tokens -> Accounts \union {None}]
         /\ phase[t] # "spent" /\ phase'[t] = "spent" /\ joined'[t] = a
         /\ \A x \in Tokens \ {t} :
              phase'[x] = phase[x] /\ joined'[x] = joined[x]
<1>1. phase' \in [Tokens -> Linking!Phases]
  BY DEF Consume, Linking!Link, Linking!LinksTypeOK, Linking!Phases
<1>2. conn' \in [Users -> Accounts \union {None}]
  BY DEF Consume, Linking!Link, Linking!LinksTypeOK
<1>3. /\ phase[t] # "spent" /\ phase'[t] = "spent"
      /\ \A x \in Tokens \ {t} : phase'[x] = phase[x]
  BY DEF Consume, Linking!Link, Linking!LinksTypeOK, Linking!Spendable
<1> QED
  BY <1>1, <1>2, <1>3 DEF Consume, Linking!Link, Linking!LinksTypeOK

LEMMA SettingsEffect ==
  ASSUME TypeOK, Settings
  PROVE  /\ Linking!LinksTypeOK'
         /\ \A x \in Tokens : phase[x] = "spent" => phase'[x] = "spent"
<1>1. CASE \E t \in Tokens, u \in Users : Linking!Create(t, u)
  BY <1>1, CreateTypes DEF TypeOK
<1>2. CASE \E u \in Users, S \in SUBSET Tokens : Linking!Disconnect(u, S)
  BY <1>2, DisconnectTypes DEF TypeOK
<1>3. CASE \E t \in Tokens : Linking!Expire(t) \/ Linking!Forget(t)
  BY <1>3, AgeTypes DEF TypeOK
<1> QED
  BY <1>1, <1>2, <1>3 DEF Settings

-----------------------------------------------------------------------------
(* Types *)

LEMMA FaultTypes ==
  ASSUME TypeOK, Fault
  PROVE  faults' \in 0..MaxFaults
  BY BotAssumption DEF TypeOK, Fault

LEMMA InitTypes == Init => TypeOK
<1> SUFFICES ASSUME Init PROVE TypeOK
  OBVIOUS
<1>1. Linking!LinksTypeOK
  BY DEF Init, Linking!LinksInit, Linking!LinksTypeOK, Linking!Phases
<1>2. latch \in BOOLEAN /\ sound \in BOOLEAN /\ hooked \in BOOLEAN
      /\ cut \in BOOLEAN
  BY DEF Init
<1> QED
  BY <1>1, <1>2, BotAssumption DEF Init, TypeOK, Stages

\* The steps that leave the links, Watchtower and Telegram's updates alone.
LEMMA ProcessTypes ==
  ASSUME TypeOK, Received, InHand,
         Start \/ Poll \/ Take \/ Raise \/ Check \/ Send \/ Webhook
  PROVE  TypeOK'
<1> USE DEF links, monitor, telegram, bot, past, Linking!LinksTypeOK
<1>1. CASE Start
  <2>1. stage' \in Stages /\ hooked' \in BOOLEAN
    BY <1>1 DEF Start, Stages, TypeOK
  <2> QED
    BY <1>1, <2>1 DEF Start, TypeOK
<1>2. CASE Poll
  <2>1. confirmed' \in 0..arrived /\ confirmed' >= confirmed
    BY <1>2 DEF Poll, Later, TypeOK
  <2>2. /\ upto' \in 0..arrived /\ at' \in 0..upto'
        /\ stage' \in Stages /\ faults' \in 0..MaxFaults
    BY <1>2, <2>1, FaultTypes DEF Poll, TypeOK, Stages
  <2> QED
    BY <1>2, <2>1, <2>2 DEF Poll, TypeOK
<1>3. CASE Take
  <2>1. /\ at' \in 1..upto /\ at' \in Updates /\ at' \in 1..arrived
        /\ offset' \in 0..arrived + 1
    BY <1>3, BotAssumption DEF Take, Following, InHand, TypeOK, Updates
  <2>2. stage' \in Stages /\ answer' \in Answers \union {None}
    BY <1>3
    DEF Take, Handled, Reply, TypeOK, Stages, Handling, Answers
  <2>3. done' \subseteq Updates /\ begun' \subseteq Updates
    BY <1>3, <2>1 DEF Take, Handled, Reply, TypeOK
  <2> QED
    BY <1>3, <2>1, <2>2, <2>3 DEF Take, TypeOK
<1>4. CASE Raise
  <2>1. at \in Updates
    BY <1>4, BotAssumption DEF Raise, InHand, TypeOK, Updates
  <2>2. stage' \in Stages /\ faults' \in 0..MaxFaults /\ cut' \in BOOLEAN
    BY <1>4, FaultTypes DEF Raise, Stages
  <2> QED
    BY <1>4, <2>1, <2>2 DEF Raise, TypeOK
<1>5. CASE Check
  <2>1. stage' \in Stages /\ answer' \in Answers \union {None}
    BY <1>5
    DEF Check, Reply, Unchecked, TypeOK, Stages, Handling, Answers
  <2>2. faults' \in 0..MaxFaults
    BY <1>5, FaultTypes DEF Check, TypeOK
  <2>3. UNCHANGED done
    BY <1>5 DEF Check, Reply, Unchecked
  <2> QED
    BY <1>5, <2>1, <2>2, <2>3 DEF Check, TypeOK
<1>6. CASE Send
  <2>1. at' = at /\ at \in Updates
    BY <1>6, BotAssumption DEF Send, InHand, Handling, TypeOK, Updates
  <2>2. /\ stage' \in Stages /\ answer' \in Answers \union {None}
        /\ done' \subseteq Updates /\ cut' \in BOOLEAN
    BY <1>6, <2>1 DEF Send, Handled, TypeOK, Stages
  <2>3. welcomes' \in [Tokens -> Nat]
    BY <1>6, <2>1 DEF Send, TypeOK, InHand
  <2> QED
    BY <1>6, <2>1, <2>2, <2>3 DEF Send, TypeOK
<1>7. CASE Webhook
  <2>1. confirmed' \in Updates /\ confirmed' \in 0..arrived
    BY <1>7, BotAssumption DEF Webhook, TypeOK, Updates
  <2> QED
    BY <1>7, <2>1 DEF Webhook, TypeOK
<1> QED
  BY <1>1, <1>2, <1>3, <1>4, <1>5, <1>6, <1>7

\* The update in hand has a text and a sender.
LEMMA HandKnown ==
  ASSUME TypeOK, Received, InHand, stage \in Handling
  PROVE  at \in 1..arrived /\ at \in Updates /\ text[at] \in Texts
         /\ from[at] \in Accounts
<1>1. at \in 1..arrived /\ at \in Updates
  BY BotAssumption DEF TypeOK, InHand, Updates
<1> QED
  BY <1>1 DEF Received

LEMMA LinkingTypes ==
  ASSUME TypeOK, Received, InHand, Post \/ LateLink \/ Settings \/ Crash
  PROVE  TypeOK'
<1> USE DEF links, monitor, telegram, bot, past
<1>1. CASE Post
  <2>0. text[at] \in Tokens /\ from[at] \in Accounts
    BY <1>1, HandKnown DEF Post, InHand, Handling
  <2>1. /\ Linking!LinksTypeOK'
        /\ joined' \in [Tokens -> Accounts \union {None}]
    <3>1. CASE Consume(text[at], from[at])
      BY <2>0, <3>1, ConsumeTypes DEF TypeOK
    <3>2. CASE UNCHANGED <<owner, phase, conn, joined>>
      BY <3>2 DEF TypeOK, Linking!LinksTypeOK
    <3> QED
      BY <1>1, <3>1, <3>2 DEF Post
  <2>2. late' \subseteq Tokens \X Accounts
    BY <1>1, <2>0 DEF Post, TypeOK
  <2>3. /\ stage' \in Stages /\ answer' \in Answers \union {None}
        /\ UNCHANGED done
    BY <1>1 DEF Post, Reply, Stages, Handling, Answers
  <2>4. faults' \in 0..MaxFaults
    BY <1>1, FaultTypes DEF Post, TypeOK
  <2> QED
    BY <1>1, <2>1, <2>2, <2>3, <2>4 DEF Post, TypeOK
<1>2. CASE LateLink
  <2>1. PICK v \in late :
          /\ late' = late \ {v}
          /\ \/ Consume(v[1], v[2])
             \/ ~ Valid(v[1], v[2]) /\ UNCHANGED <<owner, phase, conn, joined>>
          /\ Unlinking
          /\ UNCHANGED <<monitor, telegram, bot, done, skipped, acked, begun,
                         welcomes, crashes, faults>>
    BY <1>2 DEF LateLink
  <2>2. v[1] \in Tokens /\ v[2] \in Accounts
    BY <2>1 DEF TypeOK
  <2>3. /\ Linking!LinksTypeOK'
        /\ joined' \in [Tokens -> Accounts \union {None}]
    <3>1. CASE Consume(v[1], v[2])
      BY <2>2, <3>1, ConsumeTypes DEF TypeOK
    <3>2. CASE UNCHANGED <<owner, phase, conn, joined>>
      BY <3>2 DEF TypeOK, Linking!LinksTypeOK
    <3> QED
      BY <2>1, <3>1, <3>2
  <2>4. cut' \in BOOLEAN
    BY <2>1 DEF Unlinking
  <2>5. late' \subseteq Tokens \X Accounts
    BY <2>1 DEF TypeOK
  <2> QED
    BY <2>1, <2>3, <2>4, <2>5 DEF TypeOK
<1>3. CASE Settings
  <2>1. Linking!LinksTypeOK'
    BY <1>3, SettingsEffect
  <2>2. cut' \in BOOLEAN
    BY <1>3 DEF Settings, Unlinking
  <2> QED
    BY <1>3, <2>1, <2>2 DEF Settings, TypeOK
<1>4. CASE Crash
  <2>1. late' \subseteq Tokens \X Accounts
    <3>1. CASE stage = "post"
      <4>1. text[at] \in Tokens /\ from[at] \in Accounts
        BY <3>1, HandKnown DEF InHand, Handling
      <4> QED
        BY <1>4, <4>1 DEF Crash, TypeOK
    <3> QED
      BY <1>4, <3>1 DEF Crash, TypeOK
  <2>2. crashes' \in 0..MaxCrashes
    BY <1>4, BotAssumption DEF Crash, TypeOK
  <2>3. /\ stage' \in Stages /\ upto' \in 0..arrived
        /\ at' \in 0..upto' /\ offset' \in 0..arrived + 1
    BY <1>4 DEF Crash, Stages, TypeOK
  <2>4. cut' \in BOOLEAN
    BY <1>4 DEF Crash
  <2> QED
    BY <1>4, <2>1, <2>2, <2>3, <2>4 DEF Crash, TypeOK, Linking!LinksTypeOK
<1> QED
  BY <1>1, <1>2, <1>3, <1>4

LEMMA HealthCheckEffect ==
  ASSUME HealthCheck, prom \in {"up", "down"}
  PROVE  /\ latch' \in BOOLEAN /\ sound' \in BOOLEAN
         /\ sound' => ~ latch' /\ prom = "up"
  BY DEF HealthCheck

LEMMA MonitorTypes ==
  ASSUME TypeOK,
         \/ Get \/ Arrive \/ PublicHealth \/ PrometheusGoes
         \/ WatchtowerRestarts
  PROVE  TypeOK'
<1> USE DEF links, monitor, telegram, bot, past, Linking!LinksTypeOK
<1>1. CASE Get
  <2>1. /\ stage' \in Stages /\ answer' \in Answers \union {None}
        /\ UNCHANGED done
    BY <1>1 DEF Get, Reply, Message, Stages, Handling, Answers, Disclosing
  <2>2. latch' \in BOOLEAN /\ sound' \in BOOLEAN
    BY <1>1, HealthCheckEffect DEF Get, TypeOK
  <2>3. faults' \in 0..MaxFaults
    BY <1>1, FaultTypes DEF Get, TypeOK
  <2> QED
    BY <1>1, <2>1, <2>2, <2>3 DEF Get, TypeOK
<1>2. CASE Arrive
  <2>1. PICK x \in Texts, a \in Accounts :
          /\ text' = [text EXCEPT ![arrived + 1] = x]
          /\ from' = [from EXCEPT ![arrived + 1] = a]
    BY <1>2 DEF Arrive
  <2>2. arrived' = arrived + 1 /\ arrived' \in 0..MaxUpdates
    BY <1>2, BotAssumption DEF Arrive, TypeOK
  <2>3. /\ text' \in [Updates -> Texts \union {None}]
        /\ from' \in [Updates -> Accounts \union {None}]
    BY <2>1 DEF TypeOK
  <2>4. confirmed' \in 0..arrived' /\ offset' \in 0..arrived' + 1
        /\ upto' \in 0..arrived' /\ at' \in 0..upto'
    BY <1>2, <2>2 DEF Arrive, TypeOK
  <2> QED
    BY <1>2, <2>2, <2>3, <2>4 DEF Arrive, TypeOK
<1>3. CASE PublicHealth
  BY <1>3, HealthCheckEffect DEF PublicHealth, TypeOK
<1>4. CASE PrometheusGoes
  <2>1. prom' \in {"up", "down"} /\ sound' \in BOOLEAN
    BY <1>4 DEF PrometheusGoes
  <2> QED
    BY <1>4, <2>1 DEF PrometheusGoes, TypeOK
<1>5. CASE WatchtowerRestarts
  <2>1. latch' \in BOOLEAN
    BY <1>5 DEF WatchtowerRestarts
  <2> QED
    BY <1>5, <2>1 DEF WatchtowerRestarts, TypeOK
<1> QED
  BY <1>1, <1>2, <1>3, <1>4, <1>5

LEMMA NextTypes ==
  ASSUME TypeOK, Received, InHand, Next
  PROVE  TypeOK'
  BY ProcessTypes, LinkingTypes, MonitorTypes DEF Next, Bot

\* The steps that the bot's process and Telegram have no part in.
Elsewise ==
  \/ LateLink \/ Settings
  \/ PublicHealth \/ PrometheusGoes \/ WatchtowerRestarts

LEMMA ElsewiseEffect ==
  ASSUME Elsewise
  PROVE  /\ UNCHANGED <<text, from, arrived, confirmed, hooked>>
         /\ UNCHANGED <<stage, offset, at, upto, answer>>
         /\ UNCHANGED <<done, skipped, acked, begun, welcomes>>
  BY DEF Elsewise, LateLink, Settings, PublicHealth, PrometheusGoes,
         WatchtowerRestarts, telegram, bot, past

-----------------------------------------------------------------------------
(* The update in hand *)

LEMMA NoneIsNoAnswer == None # "connected" /\ None \notin Disclosing
  BY BotAssumption DEF Answers

LEMMA ReceivedStep ==
  ASSUME TypeOK, Received, Next
  PROVE  Received'
<1>1. CASE Arrive
  <2>1. PICK x \in Texts, a \in Accounts :
          /\ text' = [text EXCEPT ![arrived + 1] = x]
          /\ from' = [from EXCEPT ![arrived + 1] = a]
    BY <1>1 DEF Arrive
  <2>2. arrived' = arrived + 1 /\ arrived + 1 \in Updates /\ arrived \in Nat
    BY <1>1, BotAssumption DEF Arrive, TypeOK, Updates
  <2>3. ASSUME NEW i \in 1..arrived'
        PROVE  text'[i] \in Texts /\ from'[i] \in Accounts
    <3>1. CASE i = arrived + 1
      BY <2>1, <2>2, <3>1 DEF TypeOK
    <3>2. CASE i \in 1..arrived
      BY <2>1, <2>2, <3>2 DEF TypeOK, Received, Updates
    <3> QED
      BY <2>2, <3>1, <3>2
  <2> QED
    BY <2>3 DEF Received
<1>2. CASE ~ Arrive
  <2>1. UNCHANGED <<text, from, arrived>>
    BY <1>2, ElsewiseEffect
    DEF Next, Bot, Elsewise, Start, Poll, Take, Raise, Post, Check, Get, Send,
        Webhook, Crash, telegram
  <2> QED
    BY <2>1 DEF Received
<1> QED
  BY <1>1, <1>2

LEMMA ReplyEffect ==
  ASSUME NEW x \in Answers \ {"connected"}, Reply(x),
         UNCHANGED <<at, offset, text>>,
         TypeOK, InHand, stage \in Handling
  PROVE  InHand'
  BY DEF InHand, Reply, Handling, TypeOK

\* What getUpdates answers begins at or after the offset asked for.
LEMMA PollKeepsUp ==
  ASSUME TypeOK, Poll, at' = confirmed'
  PROVE  offset' =< at' + 1
<1>1. ASSUME NEW a \in Int, NEW b \in Int, b >= a - 1
      PROVE  a =< b + 1
  BY <1>1
<1>2. /\ offset \in Int /\ confirmed' \in Int
      /\ confirmed' >= offset - 1
  BY DEF Poll, Later, TypeOK
<1>3. offset =< confirmed' + 1
  BY <1>1, <1>2
<1> QED
  BY <1>3 DEF Poll

LEMMA InHandStep ==
  ASSUME TypeOK, Received, InHand, Next
  PROVE  InHand'
<1> USE DEF InHand, links, monitor, telegram, bot, past
<1>1. CASE Start
  BY <1>1 DEF Start, Handling
<1>2. CASE Poll
  <2>1. CASE Fault /\ UNCHANGED <<at, upto, stage>>
    BY <1>2, <2>1 DEF Poll, Handling
  <2>2. CASE /\ at' = confirmed'
             /\ upto' = arrived
             /\ stage' = IF at' < upto' THEN "take" ELSE "poll"
    <3>1. confirmed' >= offset - 1 /\ confirmed' \in Int
      BY <1>2 DEF Poll, Later, TypeOK
    <3>2. offset' = offset /\ answer' = answer /\ answer = None
      BY <1>2 DEF Poll
    <3>3. offset' =< at' + 1
      BY <1>2, <2>2, PollKeepsUp
    <3> QED
      BY <2>2, <3>2, <3>3, NoneIsNoAnswer DEF Handling
  <2> QED
    BY <1>2, <2>1, <2>2 DEF Poll
<1>3. CASE Take
  <2>1. at' = at + 1 /\ offset' = at' + 1 /\ at' > 0 /\ upto' = upto
        /\ text' = text
    BY <1>3 DEF Take, Following, TypeOK
  <2>2. answer = None
    BY <1>3 DEF Take
  <2>3. CASE text[at'] = "other" /\ Handled
    BY <2>1, <2>2, <2>3, NoneIsNoAnswer DEF Handled, Handling, TypeOK
  <2>4. CASE text[at'] \in Open /\ Reply("help")
    BY <2>1, <2>4 DEF Reply, Handling
  <2>5. CASE /\ text[at'] \in Tokens \union Reports
             /\ stage' = IF text[at'] \in Tokens THEN "post" ELSE "check"
             /\ UNCHANGED <<answer, done>>
    BY <2>1, <2>2, <2>5, NoneIsNoAnswer DEF Handling
  <2> QED
    BY <1>3, <2>3, <2>4, <2>5 DEF Take
<1>4. CASE Raise
  BY <1>4, NoneIsNoAnswer DEF Raise, Handling
<1>5. CASE Post
  <2>1. UNCHANGED <<at, offset, text>> /\ text[at] \in Tokens
    BY <1>5 DEF Post
  <2>2. stage' = "send"
    BY <1>5 DEF Post, Reply
  <2> QED
    BY <1>5, <2>1, <2>2 DEF Post, Handling
<1>6. CASE Check
  BY <1>6, NoneIsNoAnswer DEF Check, Reply, Unchecked, Handling
<1>7. CASE Get
  <2>1. PICK x \in Disclosing : Reply(x)
    BY <1>7 DEF Get, Message, Disclosing
  <2> QED
    BY <1>7, <2>1 DEF Get, Reply, Handling, Disclosing
<1>8. CASE Send
  BY <1>8, NoneIsNoAnswer DEF Send, Handled, Handling, TypeOK
<1>9. CASE Webhook \/ Crash
  BY <1>9, NoneIsNoAnswer DEF Webhook, Crash, Handling
<1>10. CASE Arrive
  <2>1. stage \in Handling => text'[at] = text[at]
    BY <1>10, HandKnown DEF Arrive, TypeOK
  <2>2. UNCHANGED <<stage, offset, at, upto, answer>>
    BY <1>10 DEF Arrive
  <2>3. answer = "connected" => text'[at] = text[at]
    BY <2>1, NoneIsNoAnswer DEF Handling
  <2> QED
    BY <2>1, <2>2, <2>3 DEF Handling
<1>11. CASE Elsewise
  BY <1>11, ElsewiseEffect
<1> QED
  BY <1>1, <1>2, <1>3, <1>4, <1>5, <1>6, <1>7, <1>8, <1>9, <1>10, <1>11
  DEF Next, Bot, Elsewise

-----------------------------------------------------------------------------
(* Progress *)

LEMMA ProgressStep ==
  ASSUME TypeOK, Received, InHand, Progress, Next
  PROVE  Progress'
<1> USE DEF Settled, links, monitor, telegram, bot, past
<1>1. CASE Start
  BY <1>1 DEF Start, Progress, Handling
<1>2. CASE Poll
  <2>1. /\ UNCHANGED <<offset, done, skipped, acked>> /\ stage \notin Handling
        /\ stage' \notin Handling
        /\ confirmed' = confirmed \/ confirmed' = offset - 1
    BY <1>2 DEF Poll, Later, Handling
  <2>2. 1..confirmed' \subseteq Settled
    BY <2>1 DEF Progress
  <2>3. \A i \in 1..at' : i \in Settled
    BY <1>2, <2>1, <2>2 DEF Poll, Progress
  <2> QED
    BY <2>1, <2>2, <2>3 DEF Progress
<1>3. CASE Take
  <2>1. /\ at' = at + 1 /\ offset' - 1 = at' /\ at \in Nat
        /\ UNCHANGED <<confirmed, skipped, acked>>
        /\ stage \notin Handling /\ done \subseteq done'
    BY <1>3 DEF Take, Following, Handled, Reply, Handling, TypeOK
  <2>2. at' \in done' \/ stage' \in Handling
    BY <1>3 DEF Take, Handled, Reply, Handling
  <2>3. \A i \in 1..at' : i \in 1..at \/ i = at'
    BY <2>1
  <2> QED
    BY <2>1, <2>2, <2>3 DEF Progress
<1>4. CASE Raise
  BY <1>4 DEF Raise, Progress, Handling
<1>5. CASE Post \/ Check \/ Get
  <2>1. stage' \in Handling /\ UNCHANGED <<at, offset, confirmed, done>>
        /\ UNCHANGED <<skipped, acked>>
    BY <1>5 DEF Post, Check, Get, Reply, Unchecked, Handling
  <2> QED
    BY <2>1 DEF Progress
<1>6. CASE Send
  BY <1>6 DEF Send, Handled, Progress, Handling
<1>7. CASE Webhook
  <2>1. /\ UNCHANGED <<stage, at, offset, done, skipped>>
        /\ confirmed' = confirmed + 1 /\ confirmed \in Nat
        /\ acked' = acked \union {confirmed'}
    BY <1>7 DEF Webhook, TypeOK
  <2>2. \A i \in 1..confirmed' : i \in 1..confirmed \/ i = confirmed'
    BY <2>1
  <2> QED
    BY <2>1, <2>2 DEF Progress
<1>8. CASE Crash
  BY <1>8 DEF Crash, Progress
<1>9. CASE Arrive
  BY <1>9 DEF Arrive, Progress
<1>10. CASE Elsewise
  BY <1>10, ElsewiseEffect DEF Progress
<1> QED
  BY <1>1, <1>2, <1>3, <1>4, <1>5, <1>6, <1>7, <1>8, <1>9, <1>10
  DEF Next, Bot, Elsewise

LEMMA BegunStep ==
  ASSUME TypeOK, InHand, Begun, Next
  PROVE  Begun'
<1> USE DEF Begun, links, monitor, telegram, bot, past
<1>1. CASE Take
  <2>1. /\ at' = at + 1 /\ offset' = at' + 1 /\ at \in Nat
        /\ offset =< at + 1 /\ offset \in Nat
        /\ begun' = begun \union {at'}
    BY <1>1 DEF Take, Following, InHand, TypeOK
  <2>2. \A i \in 1..offset - 1 : i \in 1..offset' - 1
    BY <2>1
  <2>3. at' \in 1..offset' - 1
    BY <2>1
  <2> QED
    BY <2>1, <2>2, <2>3
<1>2. CASE Crash
  BY <1>2 DEF Crash
<1>3. CASE ~ Take /\ ~ Crash
  <2>1. UNCHANGED <<begun, offset>>
    BY <1>3, ElsewiseEffect
    DEF Next, Bot, Elsewise, Start, Poll, Raise, Post, Check, Get, Send,
        Webhook, Arrive
  <2> QED
    BY <2>1
<1> QED
  BY <1>1, <1>2, <1>3

-----------------------------------------------------------------------------
(* Links *)

LEMMA ConsumeKeeps ==
  ASSUME TypeOK, Joined, NEW t \in Tokens, NEW a \in Accounts, Consume(t, a)
  PROVE  /\ Joined' /\ joined[t] = None
         /\ joined'[t] = a
         /\ \A x \in Tokens \ {t} : joined'[x] = joined[x]
  BY ConsumeTypes DEF TypeOK, Joined

LEMMA JoinedStep ==
  ASSUME TypeOK, Received, InHand, Joined, Next
  PROVE  Joined'
<1> USE DEF links, monitor, telegram, bot, past
<1>1. CASE Post
  <2>1. text[at] \in Tokens /\ from[at] \in Accounts
    BY <1>1, HandKnown DEF Post, InHand, Handling
  <2> QED
    BY <1>1, <2>1, ConsumeKeeps DEF Post, Joined
<1>2. CASE LateLink
  <2>1. PICK v \in late : \/ Consume(v[1], v[2])
                          \/ UNCHANGED <<owner, phase, conn, joined>>
    BY <1>2 DEF LateLink
  <2>2. v[1] \in Tokens /\ v[2] \in Accounts
    BY <2>1 DEF TypeOK
  <2> QED
    BY <2>1, <2>2, ConsumeKeeps DEF Joined
<1>3. CASE Settings
  <2>1. joined' = joined
    BY <1>3 DEF Settings
  <2> QED
    BY <1>3, <2>1, SettingsEffect DEF Joined
<1>4. CASE ~ (Post \/ LateLink \/ Settings)
  <2>1. UNCHANGED <<phase, joined>>
    BY <1>4
    DEF Next, Bot, Start, Poll, Take, Raise, Check, Get, Send, Webhook, Crash,
        Arrive, PublicHealth, PrometheusGoes, WatchtowerRestarts
  <2> QED
    BY <2>1 DEF Joined
<1> QED
  BY <1>1, <1>2, <1>3, <1>4

\* A link made for another update leaves alone what was said of a token.
LEMMA ConsumeConnected ==
  ASSUME TypeOK, Joined, ConnectedIsTrue, UNCHANGED welcomes,
         NEW t \in Tokens, NEW a \in Accounts, Consume(t, a)
  PROVE  /\ \A x \in Tokens :
              welcomes'[x] =< IF joined'[x] = None THEN 0 ELSE 1
         /\ welcomes'[t] = 0
         /\ \A x \in Tokens : joined[x] # None => joined'[x] = joined[x]
<1>1. /\ joined[t] = None /\ joined'[t] = a
      /\ \A x \in Tokens \ {t} : joined'[x] = joined[x]
  BY ConsumeKeeps
<1>2. welcomes[t] = 0
  BY <1>1 DEF ConnectedIsTrue, TypeOK
<1>3. a # None
  BY BotAssumption
<1> QED
  BY <1>1, <1>2, <1>3 DEF ConnectedIsTrue, TypeOK

LEMMA ConnectedStep ==
  ASSUME TypeOK, Received, InHand, Joined, ConnectedIsTrue, Next
  PROVE  ConnectedIsTrue'
<1> USE DEF links, monitor, telegram, bot, past
<1>1. CASE Post
  <2>1. text[at] \in Tokens /\ from[at] \in Accounts
    BY <1>1, HandKnown DEF Post, InHand, Handling
  <2>2. UNCHANGED <<at, text, from, welcomes>>
    BY <1>1 DEF Post
  <2>3. CASE Consume(text[at], from[at])
    BY <1>1, <2>1, <2>2, <2>3, ConsumeConnected, ConsumeKeeps
    DEF ConnectedIsTrue
  <2>4. CASE Reply("unavailable") /\ UNCHANGED joined
    BY <2>2, <2>4 DEF ConnectedIsTrue, Reply
  <2> QED
    BY <1>1, <2>3, <2>4 DEF Post
<1>2. CASE LateLink
  <2>1. PICK v \in late : \/ Consume(v[1], v[2])
                          \/ UNCHANGED <<owner, phase, conn, joined>>
    BY <1>2 DEF LateLink
  <2>2. v[1] \in Tokens /\ v[2] \in Accounts
    BY <2>1 DEF TypeOK
  <2>3. UNCHANGED <<stage, answer, at, text, from, welcomes>>
    BY <1>2, ElsewiseEffect DEF Elsewise
  <2>4. CASE Consume(v[1], v[2])
    <3>1. /\ \A x \in Tokens :
               welcomes'[x] =< IF joined'[x] = None THEN 0 ELSE 1
          /\ \A x \in Tokens : joined[x] # None => joined'[x] = joined[x]
      BY <2>2, <2>3, <2>4, ConsumeConnected
    <3>2. answer = "connected" =>
            /\ text[at] \in Tokens /\ from[at] \in Accounts
            /\ joined[text[at]] = from[at]
      BY HandKnown, NoneIsNoAnswer DEF InHand, Handling, ConnectedIsTrue
    <3>3. answer = "connected" => joined'[text[at]] = from[at]
      BY <3>1, <3>2, BotAssumption
    <3> QED
      BY <2>3, <3>1, <3>3 DEF ConnectedIsTrue
  <2>5. CASE UNCHANGED <<owner, phase, conn, joined>>
    BY <2>3, <2>5 DEF ConnectedIsTrue
  <2> QED
    BY <2>1, <2>4, <2>5
<1>3. CASE Send
  <2>1. UNCHANGED joined /\ answer' = None
    BY <1>3 DEF Send, Handled
  <2>2. CASE answer = "connected"
    <3>1. /\ text[at] \in Tokens /\ from[at] \in Accounts
          /\ joined[text[at]] = from[at] /\ welcomes[text[at]] = 0
      BY <1>3, <2>2, HandKnown DEF Send, InHand, Handling, ConnectedIsTrue
    <3>2. welcomes' = [welcomes EXCEPT ![text[at]] = @ + 1]
      BY <1>3, <2>2 DEF Send
    <3>3. joined[text[at]] # None
      BY <3>1, BotAssumption
    <3>4. \A x \in Tokens :
            welcomes'[x] =< IF joined'[x] = None THEN 0 ELSE 1
      BY <2>1, <3>1, <3>2, <3>3 DEF ConnectedIsTrue, TypeOK
    <3> QED
      BY <2>1, <3>4, NoneIsNoAnswer DEF ConnectedIsTrue
  <2>3. CASE answer # "connected"
    BY <1>3, <2>1, <2>3, NoneIsNoAnswer DEF Send, ConnectedIsTrue
  <2> QED
    BY <2>2, <2>3
<1>4. CASE Arrive
  <2>1. stage \in Handling => text'[at] = text[at] /\ from'[at] = from[at]
    BY <1>4, HandKnown DEF Arrive, TypeOK
  <2>2. UNCHANGED <<stage, at, answer, joined, welcomes>>
    BY <1>4 DEF Arrive
  <2>3. answer = "connected" => stage \in Handling
    BY NoneIsNoAnswer DEF InHand, Handling
  <2> QED
    BY <2>1, <2>2, <2>3 DEF ConnectedIsTrue
<1>5. CASE Settings \/ PublicHealth \/ PrometheusGoes \/ WatchtowerRestarts
  <2>1. UNCHANGED <<answer, at, text, from, welcomes>>
    BY <1>5, ElsewiseEffect DEF Elsewise
  <2>2. UNCHANGED joined
    BY <1>5 DEF Settings, PublicHealth, PrometheusGoes, WatchtowerRestarts
  <2> QED
    BY <2>1, <2>2 DEF ConnectedIsTrue
<1>6. CASE Start \/ Poll \/ Take \/ Raise \/ Check \/ Get \/ Webhook \/ Crash
  <2>1. UNCHANGED <<joined, welcomes>>
    BY <1>6 DEF Start, Poll, Take, Raise, Check, Get, Webhook, Crash
  <2>2. answer' # "connected" \/ UNCHANGED <<answer, at, text, from>>
    <3>1. CASE Take
      <4>1. answer = None
        BY <3>1 DEF Take, InHand
      <4> QED
        BY <3>1, <4>1, NoneIsNoAnswer DEF Take, Handled, Reply
    <3>2. CASE Get
      BY <3>2 DEF Get, Reply, Message
    <3>3. CASE Poll
      <4>1. answer' = None
        BY <3>3 DEF Poll, InHand
      <4> QED
        BY <4>1, NoneIsNoAnswer
    <3>4. CASE Start \/ Raise \/ Check \/ Webhook \/ Crash
      BY <3>4, NoneIsNoAnswer
      DEF Start, Raise, Check, Reply, Unchecked, Webhook, Crash
    <3> QED
      BY <1>6, <3>1, <3>2, <3>3, <3>4
  <2> QED
    BY <2>1, <2>2 DEF ConnectedIsTrue
<1> QED
  BY <1>1, <1>2, <1>3, <1>4, <1>5, <1>6 DEF Next, Bot

-----------------------------------------------------------------------------
(* Reports *)

LEMMA AuthorizedStep ==
  ASSUME TypeOK, Received, InHand, Authorized, Next
  PROVE  Authorized'
<1> USE DEF links, monitor, telegram, bot, past
<1>1. CASE LateLink \/ Settings
  <2>1. UNCHANGED <<stage, answer, at, from>>
    BY <1>1, ElsewiseEffect DEF Elsewise
  <2>2. Unlinking
    BY <1>1 DEF LateLink, Settings
  <2>3. ASSUME Checked', ~ cut' PROVE Linked(conn', from[at])
    <3>1. Checked
      BY <2>1, <2>3 DEF Checked
    <3>2. ~ cut /\ ~ (Linked(conn, from[at]) /\ ~ Linked(conn', from[at]))
      BY <2>2, <2>3, <3>1 DEF Unlinking
    <3> QED
      BY <3>1, <3>2 DEF Authorized
  <2>4. Linked(conn, from[at])' <=> Linked(conn', from[at])
    BY <2>1 DEF Linked
  <2> QED
    BY <2>3, <2>4 DEF Authorized
<1>2. CASE Check
  <2>1. UNCHANGED <<conn, at, from, cut>>
    BY <1>2 DEF Check
  <2>2. Checked' => Linked(conn, from[at])
    BY <1>2, NoneIsNoAnswer
    DEF Check, Checked, Reply, Unchecked, InHand, Disclosing
  <2> QED
    BY <2>1, <2>2 DEF Authorized, Linked
<1>3. CASE Get
  <2>1. UNCHANGED <<conn, at, from, cut>> /\ Checked
    BY <1>3 DEF Get, Checked
  <2> QED
    BY <2>1 DEF Authorized, Linked
<1>4. CASE Arrive
  <2>1. UNCHANGED <<conn, stage, answer, at, cut>>
    BY <1>4 DEF Arrive
  <2>2. Checked => stage \in Handling
    BY NoneIsNoAnswer DEF Checked, Handling, InHand
  <2>3. stage \in Handling => from'[at] = from[at]
    BY <1>4, HandKnown DEF Arrive, TypeOK
  <2> QED
    BY <2>1, <2>2, <2>3 DEF Authorized, Checked, Linked
<1>5. CASE PublicHealth \/ PrometheusGoes \/ WatchtowerRestarts
  <2>1. UNCHANGED <<conn, stage, answer, at, from, cut>>
    BY <1>5 DEF PublicHealth, PrometheusGoes, WatchtowerRestarts
  <2> QED
    BY <2>1 DEF Authorized, Checked, Linked
<1>6. CASE Start \/ Poll \/ Take \/ Raise \/ Post \/ Send \/ Webhook \/ Crash
  <2>1. ~ Checked'
    <3>1. CASE Take
      <4>1. answer = None
        BY <3>1 DEF Take, InHand
      <4> QED
        BY <3>1, <4>1, NoneIsNoAnswer
        DEF Take, Handled, Reply, Checked, Disclosing
    <3>2. CASE Poll
      <4>1. answer' = None /\ stage' \in {"poll", "take"}
        BY <3>2 DEF Poll, InHand
      <4> QED
        BY <4>1, NoneIsNoAnswer DEF Checked
    <3>3. CASE Start \/ Webhook
      <4>1. answer' = None /\ stage' \in {"poll", "serve"}
        BY <3>3 DEF Start, Webhook, InHand
      <4> QED
        BY <4>1, NoneIsNoAnswer DEF Checked
    <3>4. CASE Raise \/ Post \/ Send \/ Crash
      BY <3>4, NoneIsNoAnswer
      DEF Raise, Post, Send, Handled, Crash, Reply, Checked, Disclosing
    <3> QED
      BY <1>6, <3>1, <3>2, <3>3, <3>4
  <2> QED
    BY <2>1 DEF Authorized
<1> QED
  BY <1>1, <1>2, <1>3, <1>4, <1>5, <1>6 DEF Next, Bot

LEMMA HealthyStep ==
  ASSUME TypeOK, Healthy, Next
  PROVE  Healthy'
<1> USE DEF Healthy, links, monitor, telegram, bot, past
<1>1. CASE Get
  <2>1. prom' = prom /\ (HealthCheck \/ UNCHANGED <<latch, sound>>)
    BY <1>1 DEF Get
  <2> QED
    BY <2>1, HealthCheckEffect DEF TypeOK
<1>2. CASE PublicHealth
  BY <1>2, HealthCheckEffect DEF PublicHealth, TypeOK
<1>3. CASE PrometheusGoes
  BY <1>3 DEF PrometheusGoes
<1>4. CASE WatchtowerRestarts
  BY <1>4 DEF WatchtowerRestarts
<1>5. CASE ~ (Get \/ PublicHealth \/ PrometheusGoes \/ WatchtowerRestarts)
  <2>1. UNCHANGED <<prom, latch, sound>>
    BY <1>5
    DEF Next, Bot, Start, Poll, Take, Raise, Post, Check, Send, Webhook,
        Crash, Arrive, LateLink, Settings
  <2> QED
    BY <2>1
<1> QED
  BY <1>1, <1>2, <1>3, <1>4, <1>5

-----------------------------------------------------------------------------
(* The theorems *)

LEMMA InitInv == Init => IInv
<1> SUFFICES ASSUME Init PROVE IInv
  OBVIOUS
<1>1. Received /\ Begun
  BY DEF Init, Received, Begun
<1>2. InHand
  BY NoneIsNoAnswer DEF Init, InHand, Handling
<1>3. Progress
  BY DEF Init, Progress
<1>4. Joined /\ ConnectedIsTrue
  BY NoneIsNoAnswer DEF Init, Joined, ConnectedIsTrue
<1>5. Authorized
  BY NoneIsNoAnswer DEF Init, Authorized, Checked
<1>6. Healthy
  BY DEF Init, Healthy
<1> QED
  BY <1>1, <1>2, <1>3, <1>4, <1>5, <1>6, InitTypes DEF IInv

LEMMA StutterInv == IInv /\ UNCHANGED vars => IInv'
<1> SUFFICES ASSUME IInv, UNCHANGED vars PROVE IInv'
  OBVIOUS
<1> USE DEF IInv, vars, links, monitor, telegram, bot, past
<1>1. TypeOK'
  BY DEF TypeOK, Linking!LinksTypeOK
<1>2. Received' /\ InHand' /\ Begun'
  BY DEF Received, InHand, Begun
<1>3. Progress'
  BY DEF Progress, Settled
<1>4. Joined' /\ ConnectedIsTrue'
  BY DEF Joined, ConnectedIsTrue
<1>5. Authorized'
  BY DEF Authorized, Checked, Linked
<1>6. Healthy'
  BY DEF Healthy
<1> QED
  BY <1>1, <1>2, <1>3, <1>4, <1>5, <1>6

LEMMA StepInv == IInv /\ [Next]_vars => IInv'
  BY NextTypes, ReceivedStep, InHandStep, ProgressStep, BegunStep, JoinedStep,
     ConnectedStep, AuthorizedStep, HealthyStep, StutterInv DEF IInv

LEMMA InvHolds == Spec => []IInv
  BY InitInv, StepInv, PTL DEF Spec

\* The types of the links, the updates, the latch and the bot's process.
THEOREM TypesHold == Spec => []TypeOK
<1>1. IInv => TypeOK
  BY DEF IInv
<1> QED
  BY InvHolds, <1>1, PTL

\* run_polling tells Telegram to forget an update only after it was handled,
\* given up by an exception or taken by the webhook, although the offset is
\* advanced before the handler runs and batches are abandoned: Telegram learns
\* the offset by the next getUpdates, when nothing is in hand.
THEOREM NoUpdateIsLost == Spec => []ConfirmedIsHandled
<1>1. IInv => ConfirmedIsHandled
  BY DEF IInv, Progress, ConfirmedIsHandled
<1> QED
  BY InvHolds, <1>1, PTL

\* "connected successfully" is true and said once for each token, over
\* redelivered updates and validations that come late.
THEOREM ConnectedOnce == Spec => []ConnectedIsTrue
<1>1. IInv => ConnectedIsTrue
  BY DEF IInv
<1> QED
  BY InvHolds, <1>1, PTL

\* Only accounts whose check found a link are sent a report.
THEOREM ReportsAreAuthorized == Spec => []ReportNeedsLink
<1>1. IInv => ReportNeedsLink
  BY DEF IInv, Authorized, Checked, ReportNeedsLink
<1> QED
  BY InvHolds, <1>1, PTL

\* The updates of one life of the process are taken in their order, each once.
THEOREM TakenInOrder == Spec => InOrderOnce
<1>1. ASSUME IInv, [Next]_vars
      PROVE  [stage = "take" /\ at' # at /\ stage' # "off"
                => \A i \in begun : i < at']_vars
  <2> SUFFICES ASSUME stage = "take", at' # at, stage' # "off"
               PROVE  \A i \in begun : i < at'
    OBVIOUS
  <2>1. Take
    BY <1>1, ElsewiseEffect
    DEF Next, Bot, Elsewise, Start, Poll, Raise, Post, Check, Get, Send,
        Webhook, Crash, Arrive, vars, bot, Handling
  <2>2. at' = at + 1 /\ offset =< at + 1 /\ at \in Nat /\ offset \in Nat
    BY <1>1, <2>1 DEF Take, IInv, InHand, TypeOK
  <2>3. \A i \in begun : i =< offset - 1 /\ i \in Nat
    BY <1>1, <2>2 DEF IInv, Begun
  <2> QED
    BY <2>2, <2>3
<1> QED
  BY InvHolds, <1>1, PTL DEF Spec, InOrderOnce

\* The latch that blanks /status does not outlive an outage that a health check
\* saw the end of.
THEOREM LatchIsCleared == Spec => StatusAfterHealth
<1>1. ASSUME IInv, [Next]_vars
      PROVE  [sound /\ stage = "get" /\ text[at] = "status" /\ stage' = "send"
                => answer' \in {"figures", "trouble"}]_vars
  <2> SUFFICES ASSUME sound, stage = "get", text[at] = "status",
                      stage' = "send"
               PROVE  answer' \in {"figures", "trouble"}
    OBVIOUS
  <2>1. Get
    BY <1>1, ElsewiseEffect
    DEF Next, Bot, Elsewise, Start, Poll, Take, Raise, Post, Check, Send,
        Webhook, Crash, Arrive, vars, bot
  <2>2. ~ latch /\ prom = "up"
    BY <1>1 DEF IInv, Healthy
  <2>3. Served(text[at]) = {"figures"}
    BY <2>2 DEF Served, StatusServed
  <2> QED
    BY <2>1, <2>3 DEF Get, Reply, Message
<1> QED
  BY InvHolds, <1>1, PTL DEF Spec, StatusAfterHealth
=============================================================================
