------------------------ MODULE TelegramLinkingProofs ------------------------
(***************************************************************************)
(* Theorems about TelegramLinking, for any users, accounts, tokens,        *)
(* requests and number of faults.                                          *)
(***************************************************************************)
EXTENDS TelegramLinking, TLAPS

\* The steps of a validate after its first look at the token.
Validating == {"lock", "check", "upsert", "unique", "link"}

\* What a request that runs was called with.
Args ==
  \A j \in Jobs : Running(j) =>
    /\ job[j].user \in Users
    /\ pc[j] \in Validating =>
         job[j].token \in Tokens /\ job[j].account \in Accounts

\* Rows that are not there yet have no owner, unused ones have one.
Owned ==
  \A t \in Tokens :
    /\ state[t] = "none" => owner[t] = None /\ links[t] = 0
    /\ Unused(t) => owner[t] # None

\* Two transactions never hold the same row or key.
LocksExclude ==
  \A j, k \in Jobs : j # k => locks[j] \intersect locks[k] = {}

\* What a validate has locked by now, and that the token is still good.
Held ==
  \A j \in Jobs :
    /\ pc[j] \in Validating \ {"lock"} =>
         job[j].token \in locks[j] /\ Unused(job[j].token)
    /\ pc[j] \in {"unique", "link"} => job[j].user \in locks[j]

\* An account that is locked is about to be linked, to nobody else, or belongs
\* to a user that the same transaction has locked.
Reserved ==
  \A j \in Jobs :
    /\ pc[j] = "link" => job[j].account \in locks[j] /\ ~LinkedElsewhere(j)
    /\ \A a \in locks[j] \intersect Accounts :
         \/ pc[j] = "link" /\ a = job[j].account
         \/ \E u \in locks[j] \intersect Users : conn[u] = a

\* A token that made its connection is not unused.
Spent ==
  \A t \in Tokens :
    /\ links[t] <= 1
    /\ links[t] = 1 => ~Unused(t)

\* A disconnect still has to mark the tokens it met, or has locked them.
Revoking ==
  \A j \in Jobs : \A t \in seen[j] :
    /\ state[t] # "none"
    /\ pc[j] = "mark" /\ owner[t] = job[j].user /\ Unused(t) =>
         t \in todo[j] \union locks[j]

\* What an answered disconnect has met is not usable any more.
Revoked == \A t \in revoked : ~Unused(t) /\ state[t] # "none"

-----------------------------------------------------------------------------
(* Types *)

LEMMA InitTypes == Init => TypeOK
  BY LinkingAssumption DEF Init, TypeOK, NoJob, Steps, Running

\* What can be locked.
Items == Users \union Accounts \union Tokens

LEMMA GoToEffect ==
  ASSUME TypeOK, NEW j \in Jobs, NEW x \in Steps \union Answers, GoTo(j, x)
  PROVE  /\ pc' \in [Jobs -> Steps \union Answers]
         /\ pc'[j] = x
         /\ \A k \in Jobs \ {j} : pc'[k] = pc[k]
  BY DEF TypeOK, GoTo

LEMMA HoldEffect ==
  ASSUME TypeOK, NEW j \in Jobs, NEW r \in SUBSET Items, Hold(j, r)
  PROVE  /\ locks' \in [Jobs -> SUBSET Items]
         /\ locks'[j] = locks[j] \union r
         /\ \A k \in Jobs \ {j} : locks'[k] = locks[k]
  BY DEF TypeOK, Hold, Items

LEMMA FinishEffect ==
  ASSUME TypeOK, NEW j \in Jobs, NEW x \in Answers, Finish(j, x)
  PROVE  /\ pc' \in [Jobs -> Steps \union Answers]
         /\ locks' \in [Jobs -> SUBSET Items]
         /\ todo' \in [Jobs -> SUBSET Tokens]
         /\ pc'[j] = x /\ locks'[j] = {} /\ todo'[j] = {}
         /\ \A k \in Jobs \ {j} :
              pc'[k] = pc[k] /\ locks'[k] = locks[k] /\ todo'[k] = todo[k]
  <1>1. GoTo(j, x)
    BY DEF Finish
  <1>2. /\ locks' \in [Jobs -> SUBSET Items]
        /\ locks'[j] = {}
        /\ \A k \in Jobs \ {j} : locks'[k] = locks[k]
    BY DEF TypeOK, Finish, Items
  <1>3. /\ todo' \in [Jobs -> SUBSET Tokens]
        /\ todo'[j] = {}
        /\ \A k \in Jobs \ {j} : todo'[k] = todo[k]
    BY DEF TypeOK, Finish
  <1> QED BY <1>1, <1>2, <1>3, GoToEffect

JobType == [user : Users \union {None}, token : Tokens \union {None},
            account : Accounts \union {None}]

LEMMA BeginEffect ==
  ASSUME TypeOK, NEW j \in Jobs, NEW args \in JobType, Begin(j, args)
  PROVE  /\ job' \in [Jobs -> JobType]
         /\ job'[j] = args
         /\ \A k \in Jobs \ {j} : job'[k] = job[k]
         /\ seen' \in [Jobs -> SUBSET Tokens]
         /\ seen'[j] = {t \in Tokens : owner[t] # None}
         /\ \A k \in Jobs \ {j} : seen'[k] = seen[k]
         /\ locks[j] = {}
         /\ UNCHANGED <<tables, links, revoked, via, faults>>
  <1>1. /\ job' \in [Jobs -> JobType]
        /\ job'[j] = args
        /\ \A k \in Jobs \ {j} : job'[k] = job[k]
    BY DEF TypeOK, Begin, JobType
  <1>2. /\ seen' \in [Jobs -> SUBSET Tokens]
        /\ seen'[j] = {t \in Tokens : owner[t] # None}
        /\ \A k \in Jobs \ {j} : seen'[k] = seen[k]
    BY DEF TypeOK, Begin
  <1>3. locks[j] = {}
    BY DEF TypeOK, Begin, Running
  <1> QED BY <1>1, <1>2, <1>3 DEF Begin

\* What a step leaves in locks belongs to a transaction that is still open.
LEMMA OpenLocks ==
  ASSUME TypeOK, NEW j \in Jobs,
         pc' \in [Jobs -> Steps \union Answers],
         locks' \in [Jobs -> SUBSET Items],
         \A k \in Jobs \ {j} : pc'[k] = pc[k] /\ locks'[k] = locks[k],
         locks'[j] = {} \/ pc'[j] \notin {"idle"} \union Answers
  PROVE  /\ locks' \in [Jobs -> SUBSET Items]
         /\ \A k \in Jobs : locks'[k] # {} => Running(k)'
  BY DEF TypeOK, Running

LEMMA TypeStep ==
  ASSUME TypeOK, Args, Next
  PROVE  TypeOK'
  <1> USE DEF Items, JobType
  <1>1. ASSUME NEW j \in Jobs, NEW u \in Users,
               CreateSelect(j, u) \/ DisconnectSelect(j, u)
        PROVE  TypeOK'
    <2>1. [NoJob EXCEPT !.user = u] \in JobType
      BY DEF NoJob
    <2>2. PICK x \in Steps \union Answers : GoTo(j, x)
      BY <1>1 DEF CreateSelect, DisconnectSelect, Steps, Answers
    <2>3. Begin(j, [NoJob EXCEPT !.user = u]) /\ UNCHANGED <<todo, locks>>
      BY <1>1 DEF CreateSelect, DisconnectSelect
    <2>4. locks[j] = {}
      BY <2>1, <2>3, BeginEffect
    <2>5. \A k \in Jobs : locks'[k] # {} => Running(k)'
      BY <2>2, <2>3, <2>4, GoToEffect DEF TypeOK, Running
    <2> QED
      BY <2>1, <2>2, <2>3, <2>5, BeginEffect, GoToEffect DEF TypeOK, tables
  <1>2. ASSUME NEW j \in Jobs, NEW t \in Tokens, NEW a \in Accounts,
               ValidateSelect(j, t, a)
        PROVE  TypeOK'
    <2> DEFINE args == [user |-> owner[t], token |-> t, account |-> a]
    <2>1. args \in JobType
      BY DEF TypeOK
    <2>2. PICK x \in Steps \union Answers : GoTo(j, x)
      BY <1>2 DEF ValidateSelect, Steps, Answers
    <2>3. Begin(j, args) /\ UNCHANGED <<todo, locks>>
      BY <1>2 DEF ValidateSelect
    <2> HIDE DEF args
    <2>4. locks[j] = {}
      BY <2>1, <2>3, BeginEffect
    <2>5. \A k \in Jobs : locks'[k] # {} => Running(k)'
      BY <2>2, <2>3, <2>4, GoToEffect DEF TypeOK, Running
    <2> QED
      BY <2>1, <2>2, <2>3, <2>5, BeginEffect, GoToEffect DEF TypeOK, tables
  <1>3. ASSUME NEW j \in Jobs, NEW x \in Answers, Finish(j, x),
               \/ UNCHANGED <<tables, job, history>>
               \/ UNCHANGED <<tables, job, links, seen, revoked, via>> /\ Fault
        PROVE  TypeOK'
    <2>1. faults' \in 0..MaxFaults
      BY <1>3, LinkingAssumption DEF TypeOK, Fault, history
    <2>2. \A k \in Jobs : locks'[k] # {} => Running(k)'
      BY <1>3, FinishEffect, OpenLocks
    <2> QED
      BY <1>3, <2>1, <2>2, FinishEffect DEF TypeOK, tables, history
  <1>4. ASSUME NEW j \in Jobs, NEW t \in Tokens, CreateInsert(j, t)
        PROVE  TypeOK'
    <2>1. PICK x \in Answers : Finish(j, x)
      BY <1>4 DEF CreateInsert, Answers
    <2>2. faults' \in 0..MaxFaults
      BY <1>4, LinkingAssumption DEF CreateInsert, TypeOK, Fault
    <2>3. \A k \in Jobs : locks'[k] # {} => Running(k)'
      BY <2>1, FinishEffect, OpenLocks
    <2>4. job[j].user \in Users
      BY <1>4 DEF CreateInsert, Args, Running, Answers
    <2>5. /\ owner' \in [Tokens -> Users \union {None}]
          /\ state' \in [Tokens -> {"none", "active", "expired", "used", "gone"}]
      BY <1>4, <2>4 DEF CreateInsert, TypeOK
    <2> QED
      BY <1>4, <2>1, <2>2, <2>3, <2>5, FinishEffect DEF CreateInsert, TypeOK
  <1>5. ASSUME NEW j \in Jobs, NEW x \in Steps, NEW r \in SUBSET Items,
               x # "idle", GoTo(j, x),
               Hold(j, r) \/ (UNCHANGED locks /\ Running(j)),
               UNCHANGED <<tables, job, history>>,
               todo' \in [Jobs -> SUBSET Tokens]
        PROVE  TypeOK'
    <2>1. locks' \in [Jobs -> SUBSET Items]
      BY <1>5, HoldEffect DEF TypeOK
    <2>2. \A k \in Jobs \ {j} : locks'[k] = locks[k]
      BY <1>5, HoldEffect
    <2>3. pc'[j] \notin {"idle"} \union Answers
      BY <1>5, GoToEffect DEF Steps, Answers
    <2>4. \A k \in Jobs : locks'[k] # {} => Running(k)'
      BY <1>5, <2>1, <2>2, <2>3, GoToEffect, OpenLocks
    <2> QED
      BY <1>5, <2>1, <2>4, GoToEffect DEF TypeOK, tables, history
  <1>6. ASSUME NEW j \in Jobs, ValidateLock(j)
        PROVE  TypeOK'
    <2>1. job[j].token \in Tokens
      BY <1>6 DEF ValidateLock, Args, Running, Answers, Validating
    <2>2. CASE Unused(job[j].token)
      BY <1>6, <1>5, <2>1, <2>2 DEF ValidateLock, LockToken, Steps, TypeOK
    <2>3. CASE ~Unused(job[j].token)
      BY <1>6, <1>3, <2>3 DEF ValidateLock, Answers
    <2> QED BY <2>2, <2>3
  <1>7. ASSUME NEW j \in Jobs, ValidateCheck(j)
        PROVE  TypeOK'
    <2>1. Running(j)
      BY <1>7 DEF ValidateCheck, Running, Answers
    <2>2. CASE LinkedElsewhere(j)
      BY <1>7, <1>3, <2>2 DEF ValidateCheck, Reject, Answers
    <2>3. CASE ~LinkedElsewhere(j)
      <3>1. GoTo(j, "upsert") /\ UNCHANGED <<todo, locks>>
        BY <1>7, <2>3 DEF ValidateCheck
      <3> QED BY <1>7, <1>5, <2>1, <3>1 DEF ValidateCheck, Steps, TypeOK
    <2> QED BY <2>2, <2>3
  <1>8. ASSUME NEW j \in Jobs, ValidateUpsert(j)
        PROVE  TypeOK'
    <2>1. job[j].user \in Users
      BY <1>8 DEF ValidateUpsert, Args, Running, Answers
    <2> QED BY <1>8, <1>5, <2>1 DEF ValidateUpsert, Steps, TypeOK
  <1>9. ASSUME NEW j \in Jobs, ValidateUnique(j)
        PROVE  TypeOK'
    <2>1. job[j].account \in Accounts /\ job[j].user \in Users
      BY <1>9 DEF ValidateUnique, Args, Running, Answers, Validating
    <2>2. {job[j].account, conn[job[j].user]} \ {None} \in SUBSET Items
      BY <2>1 DEF TypeOK
    <2>3. CASE Taken(j)
      BY <1>9, <1>3, <2>3 DEF ValidateUnique, Answers
    <2>4. CASE ~Taken(j)
      BY <1>9, <1>5, <2>2, <2>4 DEF ValidateUnique, Steps, TypeOK
    <2> QED BY <2>3, <2>4
  <1>10. ASSUME NEW j \in Jobs, ValidateCommit(j)
         PROVE  TypeOK'
    <2>1. PICK x \in Answers : Finish(j, x)
      BY <1>10 DEF ValidateCommit, Answers
    <2>2. faults' \in 0..MaxFaults
      BY <1>10, LinkingAssumption DEF ValidateCommit, TypeOK, Fault
    <2>3. \A k \in Jobs : locks'[k] # {} => Running(k)'
      BY <2>1, FinishEffect, OpenLocks
    <2>4. /\ job[j].user \in Users /\ job[j].token \in Tokens
          /\ job[j].account \in Accounts
      BY <1>10 DEF ValidateCommit, Args, Running, Answers, Validating
    <2>5. /\ state' \in [Tokens -> {"none", "active", "expired", "used", "gone"}]
          /\ conn' \in [Users -> Accounts \union {None}]
          /\ links' \in [Tokens -> Nat]
          /\ via' \in [Users -> Tokens \union {None}]
      BY <1>10, <2>4 DEF ValidateCommit, TypeOK
    <2> QED
      BY <1>10, <2>1, <2>2, <2>3, <2>5, FinishEffect DEF ValidateCommit, TypeOK
  <1>11. ASSUME NEW j \in Jobs, DisconnectDelete(j)
         PROVE  TypeOK'
    <2>1. job[j].user \in Users /\ Running(j)
      BY <1>11 DEF DisconnectDelete, Args, Running, Answers
    <2>2. conn[job[j].user] # None => {job[j].user, conn[job[j].user]} \in SUBSET Items
      BY <2>1 DEF TypeOK
    <2>3. /\ GoTo(j, "select") /\ "select" \in Steps
          /\ UNCHANGED <<tables, job, todo, history>>
      BY <1>11 DEF DisconnectDelete, Steps
    <2>4. todo' \in [Jobs -> SUBSET Tokens]
      BY <2>3 DEF TypeOK
    <2>5. CASE conn[job[j].user] # None
      <3>1. Hold(j, {job[j].user, conn[job[j].user]})
        BY <1>11, <2>5 DEF DisconnectDelete
      <3> QED BY <1>5, <2>2, <2>3, <2>4, <2>5, <3>1
    <2>6. CASE conn[job[j].user] = None
      <3>1. UNCHANGED locks
        BY <1>11, <2>6 DEF DisconnectDelete
      <3> QED BY <1>5, <2>1, <2>3, <2>4, <3>1
    <2> QED BY <2>5, <2>6
  <1>12. ASSUME NEW j \in Jobs, DisconnectTokens(j)
         PROVE  TypeOK'
    <2>1. Running(j)
      BY <1>12 DEF DisconnectTokens, Running, Answers
    <2>2. todo' \in [Jobs -> SUBSET Tokens] /\ UNCHANGED locks
      BY <1>12 DEF DisconnectTokens, ToMark, TokensOf, TypeOK
    <2>3. GoTo(j, "mark") /\ UNCHANGED <<tables, job, history>>
      BY <1>12 DEF DisconnectTokens
    <2> QED BY <1>5, <2>1, <2>2, <2>3 DEF Steps
  <1>13. ASSUME NEW j \in Jobs, NEW t \in Tokens, DisconnectToken(j, t)
         PROVE  TypeOK'
    <2>1. pc[j] = "mark" /\ Running(j) /\ pc' = pc
      BY <1>13 DEF DisconnectToken, Running, Answers
    <2>2. GoTo(j, "mark")
      BY <2>1 DEF TypeOK, GoTo
    <2>3. todo' \in [Jobs -> SUBSET Tokens]
      BY <1>13 DEF DisconnectToken, TypeOK
    <2>4. {t} \in SUBSET Items
      OBVIOUS
    <2> QED BY <1>5, <1>13, <2>1, <2>2, <2>3, <2>4 DEF DisconnectToken, Steps
  <1>14. ASSUME NEW j \in Jobs, DisconnectCommit(j)
         PROVE  TypeOK'
    <2>1. PICK x \in Answers : Finish(j, x)
      BY <1>14 DEF DisconnectCommit, Answers
    <2>2. faults' \in 0..MaxFaults
      BY <1>14, LinkingAssumption DEF DisconnectCommit, TypeOK, Fault
    <2>3. \A k \in Jobs : locks'[k] # {} => Running(k)'
      BY <2>1, FinishEffect, OpenLocks
    <2>4. /\ state' \in [Tokens -> {"none", "active", "expired", "used", "gone"}]
          /\ conn' \in [Users -> Accounts \union {None}]
          /\ revoked' \in SUBSET Tokens
      BY <1>14 DEF DisconnectCommit, TypeOK, TokensOf
    <2> QED
      BY <1>14, <2>1, <2>2, <2>3, <2>4, FinishEffect
         DEF DisconnectCommit, TypeOK
  <1>15. ASSUME NEW j \in Jobs, DeadlockAbort(j) \/ LoseDatabase(j)
         PROVE  TypeOK'
    BY <1>3, <1>15 DEF DeadlockAbort, LoseDatabase, Answers
  <1>16. ASSUME NEW t \in Tokens, Expire(t) \/ CleanUp(t)
         PROVE  TypeOK'
    <2>1. /\ owner' \in [Tokens -> Users \union {None}]
          /\ state' \in [Tokens -> {"none", "active", "expired", "used", "gone"}]
      BY <1>16 DEF Expire, CleanUp, TypeOK
    <2>2. UNCHANGED <<conn, threads, history>>
      BY <1>16 DEF Expire, CleanUp
    <2> QED BY <2>1, <2>2 DEF TypeOK, threads, history, Running
  <1> QED
    BY <1>1, <1>2, <1>4, <1>6, <1>7, <1>8, <1>9, <1>10, <1>11, <1>12, <1>13,
       <1>14, <1>15, <1>16 DEF Next, Call, Step

-----------------------------------------------------------------------------
(* Who changes what *)

\* A step of request j.
Acts(j) == Call(j) \/ Step(j) \/ LoseDatabase(j)

\* Request k does not move.
SameRequest(k) ==
  /\ pc'[k] = pc[k] /\ job'[k] = job[k] /\ todo'[k] = todo[k]
  /\ locks'[k] = locks[k] /\ seen'[k] = seen[k]

LEMMA SomebodyActs ==
  ASSUME Next
  PROVE  (\E j \in Jobs : Acts(j)) \/ (\E t \in Tokens : Expire(t) \/ CleanUp(t))
  BY DEF Next, Acts

LEMMA OthersRest ==
  ASSUME TypeOK, Args, NEW j \in Jobs, Acts(j), NEW k \in Jobs \ {j}
  PROVE  SameRequest(k)
  <1>1. ASSUME NEW args \in JobType, NEW x \in Steps \union Answers,
               Begin(j, args), GoTo(j, x), UNCHANGED <<todo, locks>>
        PROVE  SameRequest(k)
    BY <1>1, BeginEffect, GoToEffect DEF SameRequest
  <1>2. ASSUME NEW x \in Answers, Finish(j, x), UNCHANGED <<job, seen>>
        PROVE  SameRequest(k)
    BY <1>2, FinishEffect DEF SameRequest
  <1>3. ASSUME NEW x \in Steps, GoTo(j, x), UNCHANGED <<job, seen, todo>>,
               \/ UNCHANGED locks
               \/ \E r \in SUBSET Items : Hold(j, r)
        PROVE  SameRequest(k)
    BY <1>3, HoldEffect, GoToEffect DEF SameRequest
  <1>4. CASE Call(j)
    <2>1. CASE \E u \in Users : CreateSelect(j, u) \/ DisconnectSelect(j, u)
      <3>1. PICK u \in Users : CreateSelect(j, u) \/ DisconnectSelect(j, u)
        BY <2>1
      <3>2. [NoJob EXCEPT !.user = u] \in JobType
        BY DEF NoJob, JobType
      <3>3. PICK x \in Steps \union Answers : GoTo(j, x)
        BY <3>1 DEF CreateSelect, DisconnectSelect, Steps, Answers
      <3> QED
        BY <3>1, <3>2, <3>3, <1>1 DEF CreateSelect, DisconnectSelect
    <2>2. CASE \E t \in Tokens, a \in Accounts : ValidateSelect(j, t, a)
      <3>1. PICK t \in Tokens, a \in Accounts : ValidateSelect(j, t, a)
        BY <2>2
      <3>2. [user |-> owner[t], token |-> t, account |-> a] \in JobType
        BY DEF TypeOK, JobType
      <3>3. PICK x \in Steps \union Answers : GoTo(j, x)
        BY <3>1 DEF ValidateSelect, Steps, Answers
      <3> QED BY <3>1, <3>2, <3>3, <1>1 DEF ValidateSelect
    <2> QED BY <1>4, <2>1, <2>2 DEF Call
  <1>5. CASE LoseDatabase(j) \/ DeadlockAbort(j)
    BY <1>2, <1>5 DEF LoseDatabase, DeadlockAbort, Answers, history
  <1>6. CASE ValidateCommit(j) \/ DisconnectCommit(j)
    BY <1>2, <1>6 DEF ValidateCommit, DisconnectCommit, Answers
  <1>7. CASE \E t \in Tokens : CreateInsert(j, t)
    BY <1>2, <1>7 DEF CreateInsert, Answers
  <1>8. CASE ValidateLock(j)
    <2>1. {job[j].token} \in SUBSET Items
      BY <1>8 DEF ValidateLock, Args, Running, Answers, Validating, Items
    <2>2. CASE Unused(job[j].token)
      BY <1>8, <1>3, <2>1, <2>2 DEF ValidateLock, LockToken, Steps, history
    <2>3. CASE ~Unused(job[j].token)
      BY <1>8, <1>2, <2>3 DEF ValidateLock, Answers, history
    <2> QED BY <2>2, <2>3
  <1>9. CASE ValidateCheck(j)
    <2>1. CASE LinkedElsewhere(j)
      BY <1>9, <1>2, <2>1 DEF ValidateCheck, Reject, Answers, history
    <2>2. CASE ~LinkedElsewhere(j)
      BY <1>9, <1>3, <2>2 DEF ValidateCheck, Steps, history
    <2> QED BY <2>1, <2>2
  <1>10. CASE ValidateUpsert(j)
    <2>1. {job[j].user} \in SUBSET Items
      BY <1>10 DEF ValidateUpsert, Args, Running, Answers, Items
    <2> QED BY <1>10, <1>3, <2>1 DEF ValidateUpsert, Steps, history
  <1>11. CASE ValidateUnique(j)
    <2>1. {job[j].account, conn[job[j].user]} \ {None} \in SUBSET Items
      BY <1>11 DEF ValidateUnique, Args, Running, Answers, Validating, Items,
           TypeOK
    <2>2. CASE Taken(j)
      BY <1>11, <1>2, <2>2 DEF ValidateUnique, Answers, history
    <2>3. CASE ~Taken(j)
      BY <1>11, <1>3, <2>1, <2>3 DEF ValidateUnique, Steps, history
    <2> QED BY <2>2, <2>3
  <1>12. CASE DisconnectDelete(j)
    <2>1. job[j].user \in Users
      BY <1>12 DEF DisconnectDelete, Args, Running, Answers
    <2>2. conn[job[j].user] # None =>
            {job[j].user, conn[job[j].user]} \in SUBSET Items
      BY <2>1 DEF TypeOK, Items
    <2> QED BY <1>12, <1>3, <2>2 DEF DisconnectDelete, Steps, history
  <1>13. CASE DisconnectTokens(j)
    BY <1>13, GoToEffect DEF DisconnectTokens, SameRequest, TypeOK, history, Steps
  <1>14. CASE \E t \in Tokens : DisconnectToken(j, t)
    BY <1>14 DEF DisconnectToken, Hold, SameRequest, TypeOK, history
  <1> QED
    BY <1>4, <1>5, <1>6, <1>7, <1>8, <1>9, <1>10, <1>11, <1>12, <1>13, <1>14
       DEF Acts, Step

LEMMA ActsOrRests ==
  ASSUME TypeOK, Args, Next, NEW k \in Jobs
  PROVE  Acts(k) \/ SameRequest(k)
  <1>1. ASSUME NEW t \in Tokens, Expire(t) \/ CleanUp(t)
        PROVE  SameRequest(k)
    BY <1>1 DEF Expire, CleanUp, threads, history, SameRequest
  <1>2. ASSUME NEW j \in Jobs, Acts(j), j # k
        PROVE  SameRequest(k)
    BY <1>2, OthersRest
  <1> QED BY <1>1, <1>2, SomebodyActs

-----------------------------------------------------------------------------
(* The invariant *)

\* A statement, or its failure, belongs to the request that runs.
LEMMA StepKeepsJob ==
  ASSUME TypeOK, NEW j \in Jobs, Step(j) \/ LoseDatabase(j)
  PROVE  /\ job' = job /\ Running(j)
         /\ pc'[j] \in Validating => pc[j] \in Validating
  <1>1. ASSUME NEW x, GoTo(j, x)
        PROVE  pc'[j] = x
    BY <1>1 DEF GoTo, TypeOK
  <1>2. CASE \/ ValidateLock(j) \/ ValidateCheck(j)
             \/ ValidateUpsert(j) \/ ValidateUnique(j)
    BY <1>2 DEF ValidateLock, ValidateCheck, ValidateUpsert, ValidateUnique,
                Running, Answers, Validating
  <1>3. CASE DisconnectDelete(j) \/ DisconnectTokens(j)
    <2>1. pc'[j] \in {"select", "mark"}
      BY <1>1, <1>3 DEF DisconnectDelete, DisconnectTokens
    <2> QED
      BY <1>3, <2>1
      DEF DisconnectDelete, DisconnectTokens, Running, Answers, Validating
  <1>4. CASE \/ \E t \in Tokens : CreateInsert(j, t)
             \/ ValidateCommit(j) \/ DisconnectCommit(j)
    <2>1. pc'[j] \in Answers
      BY <1>1, <1>4
      DEF CreateInsert, ValidateCommit, DisconnectCommit, Finish, Answers
    <2>2. job' = job /\ Running(j)
      BY <1>4
      DEF CreateInsert, ValidateCommit, DisconnectCommit, Running, Answers
    <2> QED
      BY <2>1, <2>2 DEF Answers, Validating
  <1>5. CASE DeadlockAbort(j) \/ LoseDatabase(j)
    <2>1. pc'[j] = "error"
      BY <1>1, <1>5 DEF DeadlockAbort, LoseDatabase, Finish
    <2>2. job' = job /\ Running(j)
      BY <1>5
      DEF DeadlockAbort, LoseDatabase, Deadlocked, WaitsFor, Running, Answers
    <2> QED
      BY <2>1, <2>2 DEF Validating
  <1>6. CASE \E t \in Tokens : DisconnectToken(j, t)
    BY <1>6 DEF DisconnectToken, Running, Answers
  <1> QED BY <1>2, <1>3, <1>4, <1>5, <1>6 DEF Step

LEMMA ArgsStep ==
  ASSUME TypeOK, Args, Owned, Next
  PROVE  Args'
  <1>1. ASSUME NEW t \in Tokens, Expire(t) \/ CleanUp(t)
        PROVE  Args'
    BY <1>1 DEF Expire, CleanUp, threads, Args, Running
  <1>2. ASSUME NEW j \in Jobs, Acts(j)
        PROVE  Args'
    <2> DEFINE Good(k) ==
          Running(k) =>
            /\ job[k].user \in Users
            /\ pc[k] \in Validating =>
                 job[k].token \in Tokens /\ job[k].account \in Accounts
    <2>1. ASSUME NEW k \in Jobs \ {j} PROVE Good(k)'
      <3>1. SameRequest(k) /\ Good(k)
        BY <1>2, OthersRest DEF Args
      <3> QED BY <3>1 DEF SameRequest, Running
    <2>2. CASE Step(j) \/ LoseDatabase(j)
      <3>1. Good(j)'
        BY <2>2, StepKeepsJob DEF Args
      <3> QED BY <2>1, <3>1 DEF Args
    <2>3. ASSUME NEW u \in Users, CreateSelect(j, u) \/ DisconnectSelect(j, u)
          PROVE  Args'
      <3>1. [NoJob EXCEPT !.user = u] \in JobType
        BY DEF NoJob, JobType
      <3>2. job'[j] = [NoJob EXCEPT !.user = u]
        BY <2>3, <3>1, BeginEffect DEF CreateSelect, DisconnectSelect
      <3>3. pc'[j] \notin Validating
        BY <2>3 DEF CreateSelect, DisconnectSelect, GoTo, TypeOK, Validating
      <3>4. Good(j)'
        BY <3>2, <3>3 DEF NoJob
      <3> QED BY <2>1, <3>4 DEF Args
    <2>4. ASSUME NEW t \in Tokens, NEW a \in Accounts, ValidateSelect(j, t, a)
          PROVE  Args'
      <3> DEFINE args == [user |-> owner[t], token |-> t, account |-> a]
      <3>1. args \in JobType
        BY DEF TypeOK, JobType
      <3>2. job'[j] = args
        BY <2>4, <3>1, BeginEffect DEF ValidateSelect
      <3>3. Running(j)' => state[t] = "active"
        BY <2>4 DEF ValidateSelect, GoTo, TypeOK, Running, Answers
      <3>4. state[t] = "active" => owner[t] \in Users
        BY DEF Owned, Unused, TypeOK
      <3>5. Good(j)'
        BY <3>2, <3>3, <3>4
      <3> QED BY <2>1, <3>5 DEF Args
    <2> QED BY <1>2, <2>2, <2>3, <2>4 DEF Acts, Call
  <1> QED BY <1>1, <1>2, SomebodyActs

\* The actions that change the tables or their history.
LEMMA TablesChange ==
  ASSUME Next
  PROVE  \/ UNCHANGED <<tables, links, revoked, via>>
         \/ \E j \in Jobs, t \in Tokens : CreateInsert(j, t)
         \/ \E j \in Jobs : ValidateCommit(j) \/ DisconnectCommit(j)
         \/ \E t \in Tokens : Expire(t) \/ CleanUp(t)
  <1>1. ASSUME NEW j \in Jobs, Call(j) \/ LoseDatabase(j)
        PROVE  UNCHANGED <<tables, links, revoked, via>>
    BY <1>1 DEF Call, CreateSelect, ValidateSelect, DisconnectSelect, Begin,
                LoseDatabase
  <1>2. ASSUME NEW j \in Jobs, Step(j),
               \A t \in Tokens : ~ CreateInsert(j, t),
               ~ ValidateCommit(j), ~ DisconnectCommit(j)
        PROVE  UNCHANGED <<tables, links, revoked, via>>
    BY <1>2 DEF Step, ValidateLock, ValidateCheck, ValidateUpsert,
                ValidateUnique, DisconnectDelete, DisconnectTokens,
                DisconnectToken, DeadlockAbort, history
  <1> QED BY <1>1, <1>2, SomebodyActs DEF Acts

LEMMA OwnedStep ==
  ASSUME TypeOK, Args, Owned, Held, Next
  PROVE  Owned'
  <1>1. CASE UNCHANGED <<tables, links, revoked, via>>
    BY <1>1 DEF Owned, Unused, tables
  <1>2. ASSUME NEW j \in Jobs, NEW t \in Tokens, CreateInsert(j, t)
        PROVE  Owned'
    <2>1. job[j].user \in Users
      BY <1>2 DEF CreateInsert, Args, Running, Answers
    <2> QED
      BY <1>2, <2>1, LinkingAssumption DEF CreateInsert, TypeOK, Owned, Unused
  <1>3. ASSUME NEW j \in Jobs, ValidateCommit(j)
        PROVE  Owned'
    <2>1. job[j].token \in Tokens
      BY <1>3 DEF ValidateCommit, Args, Running, Answers, Validating
    <2> QED BY <1>3, <2>1 DEF ValidateCommit, TypeOK, Owned, Unused
  <1>4. ASSUME NEW j \in Jobs, DisconnectCommit(j)
        PROVE  Owned'
    BY <1>4 DEF DisconnectCommit, TypeOK, Owned, Unused
  <1>5. ASSUME NEW t \in Tokens, Expire(t) \/ CleanUp(t)
        PROVE  Owned'
    BY <1>5 DEF Expire, CleanUp, TypeOK, Owned, Unused, history
  <1> QED BY <1>1, <1>2, <1>3, <1>4, <1>5, TablesChange

LEMMA SpentStep ==
  ASSUME TypeOK, Args, Owned, Held, Spent, Next
  PROVE  Spent'
  <1>1. CASE UNCHANGED <<tables, links, revoked, via>>
    BY <1>1 DEF Spent, Unused, tables
  <1>2. ASSUME NEW j \in Jobs, NEW t \in Tokens, CreateInsert(j, t)
        PROVE  Spent'
    BY <1>2 DEF CreateInsert, TypeOK, Owned, Spent, Unused
  <1>3. ASSUME NEW j \in Jobs, ValidateCommit(j)
        PROVE  Spent'
    <2>1. job[j].token \in Tokens /\ Unused(job[j].token)
      BY <1>3 DEF ValidateCommit, Args, Held, Running, Answers, Validating
    <2>2. links[job[j].token] = 0
      <3>1. links[job[j].token] \in Nat
        BY <2>1 DEF TypeOK
      <3>2. links[job[j].token] <= 1 /\ links[job[j].token] # 1
        BY <2>1 DEF Spent
      <3> QED BY <3>1, <3>2
    <2>3. /\ links' = [links EXCEPT ![job[j].token] = 1]
          /\ state' = [state EXCEPT ![job[j].token] = "used"]
      BY <1>3, <2>1, <2>2 DEF ValidateCommit, TypeOK
    <2>4. ASSUME NEW t \in Tokens, t # job[j].token
          PROVE  links'[t] = links[t] /\ state'[t] = state[t]
      BY <2>3, <2>4 DEF TypeOK
    <2>5. links'[job[j].token] = 1 /\ state'[job[j].token] = "used"
      BY <2>1, <2>3 DEF TypeOK
    <2> QED BY <2>4, <2>5 DEF Spent, Unused
  <1>4. ASSUME NEW j \in Jobs, DisconnectCommit(j)
        PROVE  Spent'
    BY <1>4 DEF DisconnectCommit, TypeOK, Spent, Unused
  <1>5. ASSUME NEW t \in Tokens, Expire(t) \/ CleanUp(t)
        PROVE  Spent'
    BY <1>5 DEF Expire, CleanUp, TypeOK, Spent, Unused, history
  <1> QED BY <1>1, <1>2, <1>3, <1>4, <1>5, TablesChange

\* The account of a user whom nobody else has locked is locked by nobody else.
LEMMA AccountFree ==
  ASSUME TypeOK, Args, Held, Reserved, OneUserPerAccount,
         NEW u \in Users, conn[u] # None, NEW k \in Jobs, u \notin locks[k]
  PROVE  conn[u] \notin locks[k]
  <1> SUFFICES ASSUME conn[u] \in locks[k]
               PROVE  FALSE
    OBVIOUS
  <1>1. conn[u] \in locks[k] \intersect Accounts
    BY DEF TypeOK
  <1>2. CASE pc[k] = "link" /\ conn[u] = job[k].account
    BY <1>2 DEF Held, Reserved, LinkedElsewhere
  <1>3. CASE \E v \in locks[k] \intersect Users : conn[v] = conn[u]
    BY <1>3 DEF OneUserPerAccount
  <1> QED BY <1>1, <1>2, <1>3 DEF Reserved

LEMMA LocksStep ==
  ASSUME TypeOK, Args, LocksExclude, Held, Reserved, OneUserPerAccount, Next
  PROVE  LocksExclude'
  <1>1. ASSUME NEW t \in Tokens, Expire(t) \/ CleanUp(t)
        PROVE  LocksExclude'
    BY <1>1 DEF Expire, CleanUp, threads, LocksExclude
  <1>2. ASSUME NEW j \in Jobs, Acts(j)
        PROVE  LocksExclude'
    <2>1. \A k \in Jobs \ {j} : locks'[k] = locks[k]
      BY <1>2, OthersRest DEF SameRequest
    <2>2. CASE locks'[j] \subseteq locks[j]
      BY <2>1, <2>2 DEF LocksExclude
    <2>3. ASSUME NEW r \in SUBSET Items, Hold(j, r),
                 \A k \in Jobs \ {j} : r \intersect locks[k] = {}
          PROVE  LocksExclude'
      <3>1. locks'[j] = locks[j] \union r
        BY <2>3, HoldEffect
      <3>2. \A k \in Jobs \ {j} :
              locks[j] \intersect locks[k] = {} /\ locks[k] \intersect locks[j] = {}
        BY DEF LocksExclude
      <3> QED BY <2>1, <2>3, <3>1, <3>2 DEF LocksExclude
    <2>4. ASSUME NEW x \in Answers, Finish(j, x)
          PROVE  LocksExclude'
      BY <2>2, <2>4, FinishEffect
    <2>5. CASE Call(j)
      BY <2>2, <2>5 DEF Call, CreateSelect, ValidateSelect, DisconnectSelect
    <2>6. CASE \/ LoseDatabase(j) \/ DeadlockAbort(j) \/ ValidateCommit(j)
               \/ DisconnectCommit(j) \/ \E t \in Tokens : CreateInsert(j, t)
      BY <2>4, <2>6 DEF LoseDatabase, DeadlockAbort, ValidateCommit,
           DisconnectCommit, CreateInsert, Answers
    <2>7. CASE ValidateLock(j)
      <3>1. {job[j].token} \in SUBSET Items
        BY <2>7 DEF ValidateLock, Args, Running, Answers, Validating, Items
      <3>2. CASE Unused(job[j].token)
        BY <2>7, <3>1, <3>2, <2>3 DEF ValidateLock, LockToken, Free
      <3>3. CASE ~Unused(job[j].token)
        BY <2>4, <2>7, <3>3 DEF ValidateLock, Answers
      <3> QED BY <3>2, <3>3
    <2>8. CASE ValidateCheck(j)
      BY <2>2, <2>4, <2>8 DEF ValidateCheck, Reject, Answers
    <2>9. CASE ValidateUpsert(j)
      <3>1. {job[j].user} \in SUBSET Items
        BY <2>9 DEF ValidateUpsert, Args, Running, Answers, Items
      <3> QED BY <2>3, <2>9, <3>1 DEF ValidateUpsert, Free
    <2>10. CASE ValidateUnique(j)
      <3>1. /\ job[j].account \in Accounts /\ job[j].user \in Users
            /\ job[j].user \in locks[j]
        BY <2>10 DEF ValidateUnique, Args, Running, Answers, Validating, Held
      <3> DEFINE r == {job[j].account, conn[job[j].user]} \ {None}
      <3>2. r \in SUBSET Items
        BY <3>1 DEF TypeOK, Items
      <3>3. CASE Taken(j)
        BY <2>4, <2>10, <3>3 DEF ValidateUnique, Answers
      <3>4. CASE ~Taken(j)
        <4>1. ASSUME NEW k \in Jobs \ {j} PROVE r \intersect locks[k] = {}
          <5>1. job[j].account \notin locks[k]
            BY <2>10 DEF ValidateUnique, Free
          <5>2. job[j].user \notin locks[k]
            BY <3>1 DEF LocksExclude
          <5>3. conn[job[j].user] # None => conn[job[j].user] \notin locks[k]
            BY <3>1, <5>2, AccountFree
          <5> QED BY <5>1, <5>3
        <4>2. Hold(j, r)
          BY <2>10, <3>4 DEF ValidateUnique
        <4> HIDE DEF r
        <4> QED BY <2>3, <3>2, <4>1, <4>2
      <3> QED BY <3>3, <3>4
    <2>11. CASE DisconnectDelete(j)
      <3> DEFINE r == {job[j].user, conn[job[j].user]}
      <3>1. job[j].user \in Users
        BY <2>11 DEF DisconnectDelete, Args, Running, Answers
      <3>2. CASE conn[job[j].user] = None
        BY <2>2, <2>11, <3>2 DEF DisconnectDelete
      <3>3. CASE conn[job[j].user] # None
        <4>1. r \in SUBSET Items /\ Hold(j, r)
          BY <2>11, <3>1, <3>3 DEF TypeOK, Items, DisconnectDelete
        <4>2. ASSUME NEW k \in Jobs \ {j} PROVE r \intersect locks[k] = {}
          <5>1. job[j].user \notin locks[k]
            BY <2>11 DEF DisconnectDelete, Free
          <5> QED BY <3>1, <3>3, <5>1, AccountFree
        <4> HIDE DEF r
        <4> QED BY <2>3, <4>1, <4>2
      <3> QED BY <3>2, <3>3
    <2>12. CASE DisconnectTokens(j)
      BY <2>2, <2>12 DEF DisconnectTokens
    <2>13. ASSUME NEW t \in Tokens, DisconnectToken(j, t)
           PROVE  LocksExclude'
      <3>1. CASE Unused(t)
        BY <2>3, <2>13, <3>1 DEF DisconnectToken, Free, Items
      <3>2. CASE ~Unused(t)
        BY <2>2, <2>13, <3>2 DEF DisconnectToken
      <3> QED BY <3>1, <3>2
    <2> QED
      BY <1>2, <2>5, <2>6, <2>7, <2>8, <2>9, <2>10, <2>11, <2>12, <2>13
         DEF Acts, Step
  <1> QED BY <1>1, <1>2, SomebodyActs

\* A token or user that one transaction holds is left alone by the others.
LEMMA TokenKept ==
  ASSUME TypeOK, Args, LocksExclude, Held, Next,
         NEW k \in Jobs, NEW t \in Tokens, t \in locks[k], Unused(t),
         ~ValidateCommit(k), ~DisconnectCommit(k)
  PROVE  Unused(t)'
  <1>1. CASE UNCHANGED <<tables, links, revoked, via>>
    BY <1>1 DEF tables, Unused
  <1>2. ASSUME NEW j \in Jobs, NEW s \in Tokens, CreateInsert(j, s)
        PROVE  Unused(t)'
    BY <1>2 DEF CreateInsert, TypeOK, Unused
  <1>3. ASSUME NEW j \in Jobs, ValidateCommit(j)
        PROVE  Unused(t)'
    <2>1. j # k
      BY <1>3
    <2>2. job[j].token \in locks[j]
      BY <1>3 DEF ValidateCommit, Held, Validating
    <2>3. job[j].token # t
      BY <2>1, <2>2 DEF LocksExclude
    <2>4. state'[t] = state[t]
      BY <1>3, <2>3 DEF ValidateCommit, TypeOK
    <2> QED BY <2>4 DEF Unused
  <1>4. ASSUME NEW j \in Jobs, DisconnectCommit(j)
        PROVE  Unused(t)'
    <2>1. t \notin locks[j]
      BY <1>4 DEF LocksExclude
    <2>2. state'[t] = state[t]
      BY <1>4, <2>1 DEF DisconnectCommit
    <2> QED BY <2>2 DEF Unused
  <1>5. ASSUME NEW s \in Tokens, Expire(s) \/ CleanUp(s)
        PROVE  Unused(t)'
    BY <1>5 DEF Expire, CleanUp, TypeOK, Unused
  <1> QED BY <1>1, <1>2, <1>3, <1>4, <1>5, TablesChange

LEMMA UserKept ==
  ASSUME TypeOK, Args, LocksExclude, Held, Next,
         NEW k \in Jobs, NEW u \in Users, u \in locks[k],
         ~ValidateCommit(k), ~DisconnectCommit(k)
  PROVE  conn'[u] = conn[u]
  <1>1. CASE UNCHANGED conn
    BY <1>1
  <1>2. ASSUME NEW j \in Jobs, ValidateCommit(j)
        PROVE  conn'[u] = conn[u]
    <2>1. j # k
      BY <1>2
    <2>2. job[j].user \in locks[j]
      BY <1>2 DEF ValidateCommit, Held
    <2>3. job[j].user # u
      BY <2>1, <2>2 DEF LocksExclude
    <2> QED BY <1>2, <2>3 DEF ValidateCommit, TypeOK
  <1>3. ASSUME NEW j \in Jobs, DisconnectCommit(j)
        PROVE  conn'[u] = conn[u]
    <2>1. u \notin locks[j]
      BY <1>3 DEF LocksExclude
    <2> QED BY <1>3, <2>1 DEF DisconnectCommit
  <1> QED
    BY <1>1, <1>2, <1>3, TablesChange DEF tables, CreateInsert, Expire, CleanUp

LEMMA CommitEnds ==
  ASSUME TypeOK, NEW j \in Jobs, ValidateCommit(j) \/ DisconnectCommit(j)
  PROVE  pc'[j] \in Answers /\ locks'[j] = {}
  <1>1. PICK x \in Answers : Finish(j, x)
    BY DEF ValidateCommit, DisconnectCommit, Answers
  <1> QED BY <1>1, FinishEffect

LEMMA HeldStep ==
  ASSUME TypeOK, Args, LocksExclude, Held, Next
  PROVE  Held'
  <1> SUFFICES ASSUME NEW k \in Jobs
               PROVE  /\ pc'[k] \in Validating \ {"lock"} =>
                           job'[k].token \in locks'[k] /\ Unused(job[k].token)'
                      /\ pc'[k] \in {"unique", "link"} => job'[k].user \in locks'[k]
    BY DEF Held
  <1>1. CASE ValidateCommit(k) \/ DisconnectCommit(k)
    BY <1>1, CommitEnds DEF Answers, Validating
  <1>2. CASE /\ ~ValidateCommit(k) /\ ~DisconnectCommit(k)
             /\ SameRequest(k)
    <2>1. pc[k] \in Validating \ {"lock"} => job[k].token \in Tokens
      BY DEF Args, Running, Validating, Answers
    <2>2. pc[k] \in Validating \ {"lock"} => Unused(job[k].token)'
      <3> SUFFICES ASSUME pc[k] \in Validating \ {"lock"}
                   PROVE  Unused(job[k].token)'
        OBVIOUS
      <3>1. job[k].token \in locks[k] /\ Unused(job[k].token)
        BY DEF Held
      <3>2. PICK t \in Tokens : t = job[k].token
        BY <2>1
      <3>3. Unused(t)'
        BY <1>2, <3>1, <3>2, TokenKept
      <3>4. job'[k].token = t
        BY <1>2, <3>2 DEF SameRequest
      <3> QED BY <3>3, <3>4 DEF Unused
    <2> QED BY <1>2, <2>2 DEF Held, SameRequest
  <1>3. CASE Acts(k) /\ ~ValidateCommit(k) /\ ~DisconnectCommit(k)
    <2>1. CASE Call(k)
      <3>1. pc'[k] \notin Validating \ {"lock"}
        BY <2>1 DEF Call, CreateSelect, ValidateSelect, DisconnectSelect, GoTo,
             TypeOK, Validating
      <3> QED BY <3>1 DEF Validating
    <2>2. ASSUME NEW x \in Answers, Finish(k, x)
          PROVE  pc'[k] \notin Validating
      BY <2>2, FinishEffect DEF Validating, Answers
    <2>3. CASE \/ LoseDatabase(k) \/ DeadlockAbort(k)
               \/ \E t \in Tokens : CreateInsert(k, t)
      <3>1. pc'[k] \notin Validating
        BY <2>2, <2>3 DEF LoseDatabase, DeadlockAbort, CreateInsert, Answers
      <3> QED BY <3>1 DEF Validating
    <2>4. CASE \/ DisconnectDelete(k) \/ DisconnectTokens(k)
               \/ \E t \in Tokens : DisconnectToken(k, t)
      <3>1. pc'[k] \notin Validating
        BY <2>4 DEF DisconnectDelete, DisconnectTokens, DisconnectToken, GoTo,
             TypeOK, Validating
      <3> QED BY <3>1 DEF Validating
    <2>5. CASE ValidateLock(k)
      <3>1. job[k].token \in Tokens
        BY <2>5 DEF ValidateLock, Args, Running, Answers, Validating
      <3>2. CASE Unused(job[k].token)
        <4>1. Hold(k, {job[k].token}) /\ GoTo(k, "check")
          BY <2>5, <3>2 DEF ValidateLock, LockToken
        <4>2. /\ locks'[k] = locks[k] \union {job[k].token}
              /\ pc'[k] = "check"
          BY <3>1, <4>1, HoldEffect, GoToEffect DEF Items, Steps
        <4>3. job' = job /\ state' = state
          BY <2>5 DEF ValidateLock, tables
        <4> QED BY <3>2, <4>2, <4>3 DEF Validating, Unused
      <3>3. CASE ~Unused(job[k].token)
        <4>1. pc'[k] \notin Validating
          BY <2>2, <2>5, <3>3 DEF ValidateLock, Answers
        <4> QED BY <4>1 DEF Validating
      <3> QED BY <3>2, <3>3
    <2>6. CASE ValidateCheck(k)
      <3>1. CASE LinkedElsewhere(k)
        <4>1. pc'[k] \notin Validating
          BY <2>2, <2>6, <3>1 DEF ValidateCheck, Reject, Answers
        <4> QED BY <4>1 DEF Validating
      <3>2. CASE ~LinkedElsewhere(k)
        <4>1. pc'[k] = "upsert"
          BY <2>6, <3>2, GoToEffect DEF ValidateCheck, Steps
        <4>2. job' = job /\ state' = state /\ locks' = locks
          BY <2>6, <3>2 DEF ValidateCheck, tables
        <4> QED BY <2>6, <4>1, <4>2 DEF ValidateCheck, Held, Validating, Unused
      <3> QED BY <3>1, <3>2
    <2>7. CASE ValidateUpsert(k)
      <3>1. job[k].user \in Users
        BY <2>7 DEF ValidateUpsert, Args, Running, Answers
      <3>2. /\ locks'[k] = locks[k] \union {job[k].user}
            /\ pc'[k] = "unique"
        BY <2>7, <3>1, HoldEffect, GoToEffect DEF ValidateUpsert, Items, Steps
      <3>3. job' = job /\ state' = state
        BY <2>7 DEF ValidateUpsert, tables
      <3> QED BY <2>7, <3>2, <3>3 DEF ValidateUpsert, Held, Validating, Unused
    <2>8. CASE ValidateUnique(k)
      <3>1. job[k].account \in Accounts /\ job[k].user \in Users
        BY <2>8 DEF ValidateUnique, Args, Running, Answers, Validating
      <3>2. {job[k].account, conn[job[k].user]} \ {None} \in SUBSET Items
        BY <3>1 DEF TypeOK, Items
      <3>3. CASE Taken(k)
        <4>1. pc'[k] \notin Validating
          BY <2>2, <2>8, <3>3 DEF ValidateUnique, Answers
        <4> QED BY <4>1 DEF Validating
      <3>4. CASE ~Taken(k)
        <4>1. locks[k] \subseteq locks'[k]
          BY <2>8, <3>2, <3>4, HoldEffect DEF ValidateUnique
        <4>2. job' = job /\ state' = state
          BY <2>8 DEF ValidateUnique, tables
        <4> QED BY <2>8, <4>1, <4>2 DEF ValidateUnique, Held, Validating, Unused
      <3> QED BY <3>3, <3>4
    <2> QED
      BY <1>3, <2>1, <2>3, <2>4, <2>5, <2>6, <2>7, <2>8 DEF Acts, Step
  <1>4. Acts(k) \/ SameRequest(k)
    BY ActsOrRests
  <1> QED BY <1>1, <1>2, <1>3, <1>4

LEMMA ReservedStep ==
  ASSUME TypeOK, Args, LocksExclude, Held, Reserved, Next
  PROVE  Reserved'
  <1> DEFINE Backed(k, a) ==
        \/ pc[k] = "link" /\ a = job[k].account
        \/ \E u \in locks[k] \intersect Users : conn[u] = a
  <1> SUFFICES ASSUME NEW k \in Jobs
               PROVE  /\ pc'[k] = "link" =>
                           job'[k].account \in locks'[k] /\ LinkedElsewhere(k)' = FALSE
                      /\ \A a \in locks'[k] \intersect Accounts : Backed(k, a)'
    BY DEF Reserved
  <1>1. ASSUME locks'[k] = {}, pc'[k] \in Answers
        PROVE  /\ pc'[k] # "link"
               /\ \A a \in locks'[k] \intersect Accounts : Backed(k, a)'
    BY <1>1 DEF Answers
  <1>2. ASSUME NEW x \in Answers, Finish(k, x)
        PROVE  /\ pc'[k] # "link"
               /\ \A a \in locks'[k] \intersect Accounts : Backed(k, a)'
    BY <1>1, <1>2, FinishEffect
  <1>3. CASE ValidateCommit(k) \/ DisconnectCommit(k)
    BY <1>1, <1>3, CommitEnds
  <1>4. CASE /\ ~ValidateCommit(k) /\ ~DisconnectCommit(k)
             /\ SameRequest(k)
    <2>1. ASSUME pc[k] = "link", NEW u \in Users \ {job[k].user}
          PROVE  conn'[u] # job[k].account
      <3>1. /\ job[k].account \in locks[k] /\ job[k].account \in Accounts
            /\ conn[u] # job[k].account
        BY <2>1 DEF Reserved, LinkedElsewhere, Args, Running, Answers, Validating
      <3>2. CASE conn' = conn
        BY <3>1, <3>2
      <3>3. ASSUME NEW j \in Jobs, ValidateCommit(j)
            PROVE  conn'[u] # job[k].account
        <4>1. job[j].account \in locks[j] /\ j # k
          BY <1>4, <3>3 DEF ValidateCommit, Reserved
        <4>2. job[j].account # job[k].account
          BY <3>1, <4>1 DEF LocksExclude
        <4> QED BY <3>1, <3>3, <4>2 DEF ValidateCommit, TypeOK
      <3>4. ASSUME NEW j \in Jobs, DisconnectCommit(j)
            PROVE  conn'[u] # job[k].account
        BY <3>1, <3>4, LinkingAssumption DEF DisconnectCommit
      <3> QED
        BY <3>2, <3>3, <3>4, TablesChange DEF tables, CreateInsert, Expire, CleanUp
    <2>2. pc[k] = "link" => job[k].account \in locks[k]
      BY DEF Reserved
    <2>3. ASSUME NEW a \in locks[k] \intersect Accounts
          PROVE  Backed(k, a)'
      <3>1. CASE pc[k] = "link" /\ a = job[k].account
        BY <1>4, <3>1 DEF SameRequest
      <3>2. ASSUME NEW u \in locks[k] \intersect Users, conn[u] = a
            PROVE  Backed(k, a)'
        <4>1. conn'[u] = a
          BY <1>4, <3>2, UserKept
        <4> QED BY <1>4, <4>1 DEF SameRequest
      <3> QED BY <3>1, <3>2 DEF Reserved
    <2>4. pc[k] = "link" => LinkedElsewhere(k)' = FALSE
      BY <1>4, <2>1 DEF LinkedElsewhere, SameRequest
    <2>5. locks'[k] = locks[k] /\ pc'[k] = pc[k] /\ job'[k] = job[k]
      BY <1>4 DEF SameRequest
    <2> HIDE DEF Backed
    <2> QED BY <2>2, <2>3, <2>4, <2>5
  <1>5. ASSUME pc[k] # "link", pc'[k] # "link", conn' = conn,
               NEW r \in SUBSET Items,
               locks' = locks \/ Hold(k, r),
               \A a \in r \intersect Accounts :
                 \E u \in r \intersect Users : conn[u] = a
        PROVE  \A a \in locks'[k] \intersect Accounts : Backed(k, a)'
    <2>1. locks'[k] \in {locks[k], locks[k] \union r}
      BY <1>5, HoldEffect
    <2>2. \A a \in locks[k] \intersect Accounts :
            \E u \in locks[k] \intersect Users : conn[u] = a
      BY <1>5 DEF Reserved
    <2> QED BY <1>5, <2>1, <2>2
  <1>6. ASSUME pc[k] # "link", conn' = conn, locks' = locks
        PROVE  \A a \in locks'[k] \intersect Accounts : Backed(k, a)'
    BY <1>6 DEF Reserved
  <1>7. CASE Acts(k) /\ ~ValidateCommit(k) /\ ~DisconnectCommit(k)
    <2>1. CASE \/ LoseDatabase(k) \/ DeadlockAbort(k)
               \/ \E t \in Tokens : CreateInsert(k, t)
      BY <1>2, <2>1 DEF LoseDatabase, DeadlockAbort, CreateInsert, Answers
    <2>2. CASE Call(k) \/ DisconnectTokens(k)
      <3>1. pc[k] # "link" /\ pc'[k] # "link" /\ conn' = conn /\ locks' = locks
        BY <2>2 DEF Call, CreateSelect, ValidateSelect, DisconnectSelect,
             DisconnectTokens, Begin, Running, Answers, GoTo, TypeOK, tables
      <3> QED BY <1>6, <3>1
    <2>3. ASSUME NEW t \in Tokens, DisconnectToken(k, t)
          PROVE  /\ pc'[k] # "link"
                 /\ \A a \in locks'[k] \intersect Accounts : Backed(k, a)'
      <3>1. {t} \in SUBSET Items /\ {t} \intersect Accounts = {}
        BY LinkingAssumption DEF Items
      <3>2. pc[k] # "link" /\ pc' = pc /\ conn' = conn
        BY <2>3 DEF DisconnectToken, tables
      <3>3. UNCHANGED locks \/ Hold(k, {t})
        BY <2>3 DEF DisconnectToken
      <3> QED BY <1>5, <3>1, <3>2, <3>3
    <2>4. CASE ValidateLock(k)
      <3>1. {job[k].token} \in SUBSET Items /\ {job[k].token} \intersect Accounts = {}
        BY <2>4, LinkingAssumption
           DEF ValidateLock, Args, Running, Answers, Validating, Items
      <3>2. CASE Unused(job[k].token)
        <4>1. Hold(k, {job[k].token}) /\ GoTo(k, "check")
          BY <2>4, <3>2 DEF ValidateLock, LockToken
        <4>2. pc[k] # "link" /\ pc'[k] # "link" /\ conn' = conn
          BY <2>4, <4>1, GoToEffect DEF ValidateLock, tables, Steps
        <4> QED BY <1>5, <3>1, <4>1, <4>2
      <3>3. CASE ~Unused(job[k].token)
        BY <1>2, <2>4, <3>3 DEF ValidateLock, Answers
      <3> QED BY <3>2, <3>3
    <2>5. CASE ValidateCheck(k)
      <3>1. CASE LinkedElsewhere(k)
        BY <1>2, <2>5, <3>1 DEF ValidateCheck, Reject, Answers
      <3>2. CASE ~LinkedElsewhere(k)
        <4>1. pc[k] # "link" /\ pc'[k] # "link" /\ conn' = conn /\ locks' = locks
          BY <2>5, <3>2, GoToEffect DEF ValidateCheck, tables, Steps
        <4> QED BY <1>6, <4>1
      <3> QED BY <3>1, <3>2
    <2>6. CASE ValidateUpsert(k)
      <3>1. {job[k].user} \in SUBSET Items /\ {job[k].user} \intersect Accounts = {}
        BY <2>6, LinkingAssumption
           DEF ValidateUpsert, Args, Running, Answers, Items
      <3>2. pc[k] # "link" /\ pc'[k] # "link" /\ conn' = conn
        BY <2>6, GoToEffect DEF ValidateUpsert, tables, Steps
      <3> QED BY <1>5, <2>6, <3>1, <3>2 DEF ValidateUpsert
    <2>7. CASE ValidateUnique(k)
      <3>1. /\ job[k].account \in Accounts /\ job[k].user \in Users
            /\ job[k].user \in locks[k]
        BY <2>7 DEF ValidateUnique, Args, Running, Answers, Validating, Held
      <3>2. CASE Taken(k)
        BY <1>2, <2>7, <3>2 DEF ValidateUnique, Answers
      <3>3. CASE ~Taken(k)
        <4>1. {job[k].account, conn[job[k].user]} \ {None} \in SUBSET Items
          BY <3>1 DEF TypeOK, Items
        <4>2. /\ locks'[k] = locks[k] \union ({job[k].account, conn[job[k].user]} \ {None})
              /\ pc'[k] = "link" /\ job' = job /\ conn' = conn
          BY <2>7, <3>3, <4>1, HoldEffect, GoToEffect
             DEF ValidateUnique, tables, Steps
        <4>3. job'[k].account \in locks'[k]
          BY <3>1, <4>2, LinkingAssumption
        <4>4. LinkedElsewhere(k)' = FALSE
          BY <3>3, <4>2 DEF Taken, LinkedElsewhere
        <4>5. ASSUME NEW a \in locks'[k] \intersect Accounts
              PROVE  Backed(k, a)'
          <5>1. CASE a = job[k].account
            BY <4>2, <5>1
          <5>2. CASE a = conn[job[k].user]
            BY <3>1, <4>2, <5>2
          <5>3. CASE a \in locks[k]
            <6>1. PICK u \in locks[k] \intersect Users : conn[u] = a
              BY <2>7, <5>3 DEF Reserved, ValidateUnique
            <6> QED BY <4>2, <6>1
          <5> QED BY <4>2, <5>1, <5>2, <5>3
        <4> QED BY <4>3, <4>4, <4>5
      <3> QED BY <3>2, <3>3
    <2>8. CASE DisconnectDelete(k)
      <3>1. job[k].user \in Users
        BY <2>8 DEF DisconnectDelete, Args, Running, Answers
      <3>2. pc[k] # "link" /\ pc'[k] # "link" /\ conn' = conn
        BY <2>8, GoToEffect DEF DisconnectDelete, tables, Steps
      <3>3. CASE conn[job[k].user] = None
        BY <1>6, <2>8, <3>2, <3>3 DEF DisconnectDelete
      <3>4. CASE conn[job[k].user] # None
        <4> DEFINE r == {job[k].user, conn[job[k].user]}
        <4>1. r \in SUBSET Items /\ Hold(k, r)
          BY <2>8, <3>1, <3>4 DEF TypeOK, Items, DisconnectDelete
        <4>2. \A a \in r \intersect Accounts : \E u \in r \intersect Users : conn[u] = a
          BY <3>1, LinkingAssumption
        <4> HIDE DEF r
        <4> QED BY <1>5, <3>2, <4>1, <4>2
      <3> QED BY <3>3, <3>4
    <2> HIDE DEF Backed
    <2> QED
      BY <1>7, <2>1, <2>2, <2>3, <2>4, <2>5, <2>6, <2>7, <2>8 DEF Acts, Step
  <1>8. Acts(k) \/ SameRequest(k)
    BY ActsOrRests
  <1> HIDE DEF Backed
  <1> QED BY <1>3, <1>4, <1>7, <1>8

LEMMA OneUserStep ==
  ASSUME TypeOK, Args, Reserved, OneUserPerAccount, Next
  PROVE  OneUserPerAccount'
  <1>1. CASE conn' = conn
    BY <1>1 DEF OneUserPerAccount
  <1>2. ASSUME NEW j \in Jobs, ValidateCommit(j)
        PROVE  OneUserPerAccount'
    <2>1. \A u \in Users \ {job[j].user} : conn[u] # job[j].account
      BY <1>2 DEF ValidateCommit, Reserved, LinkedElsewhere
    <2>2. \A u \in Users :
            conn'[u] = IF u = job[j].user THEN job[j].account ELSE conn[u]
      BY <1>2 DEF ValidateCommit, TypeOK
    <2> QED BY <2>1, <2>2 DEF OneUserPerAccount
  <1>3. ASSUME NEW j \in Jobs, DisconnectCommit(j)
        PROVE  OneUserPerAccount'
    BY <1>3 DEF DisconnectCommit, OneUserPerAccount
  <1> QED
    BY <1>1, <1>2, <1>3, TablesChange DEF tables, CreateInsert, Expire, CleanUp

\* A token that exists is never unused again, changes no owner, and links only
\* while it is unused.
LEMMA TokenLife ==
  ASSUME TypeOK, Args, Held, Next, NEW t \in Tokens, state[t] # "none"
  PROVE  /\ state'[t] # "none"
         /\ Unused(t)' => Unused(t)
         /\ owner'[t] # None => owner'[t] = owner[t]
         /\ links'[t] # links[t] => Unused(t)
  <1>1. CASE UNCHANGED <<tables, links, revoked, via>>
    BY <1>1 DEF tables, Unused
  <1>2. ASSUME NEW j \in Jobs, NEW s \in Tokens, CreateInsert(j, s)
        PROVE  /\ state'[t] = state[t] /\ owner'[t] = owner[t]
               /\ links' = links
    BY <1>2 DEF CreateInsert, TypeOK
  <1>3. ASSUME NEW j \in Jobs, ValidateCommit(j)
        PROVE  /\ state'[t] \in {state[t], "used"} /\ owner' = owner
               /\ links'[t] # links[t] => Unused(t)
    <2>1. job[j].token \in Tokens /\ Unused(job[j].token)
      BY <1>3 DEF ValidateCommit, Args, Held, Running, Answers, Validating
    <2> QED BY <1>3, <2>1 DEF ValidateCommit, TypeOK
  <1>4. ASSUME NEW j \in Jobs, DisconnectCommit(j)
        PROVE  /\ state'[t] \in {state[t], "used"} /\ owner' = owner
               /\ links' = links
    BY <1>4 DEF DisconnectCommit
  <1>5. ASSUME NEW s \in Tokens, Expire(s) \/ CleanUp(s)
        PROVE  /\ \/ state'[t] = state[t]
                  \/ state[t] = "active" /\ state'[t] = "expired"
                  \/ state'[t] = "gone"
               /\ owner'[t] \in {owner[t], None} /\ links' = links
    BY <1>5 DEF Expire, CleanUp, TypeOK, history
  <1> QED BY <1>1, <1>2, <1>3, <1>4, <1>5, TablesChange DEF Unused

LEMMA RevokingStep ==
  ASSUME TypeOK, Args, Owned, Held, Revoking, Next
  PROVE  Revoking'
  <1> SUFFICES ASSUME NEW k \in Jobs, NEW t \in seen'[k]
               PROVE  /\ state'[t] # "none"
                      /\ pc'[k] = "mark" /\ owner'[t] = job'[k].user /\ Unused(t)' =>
                           t \in todo'[k] \union locks'[k]
    BY DEF Revoking
  <1>1. CASE t \in seen[k] /\ pc'[k] # "mark"
    BY <1>1, TokenLife DEF Revoking, TypeOK
  <1>2. CASE SameRequest(k)
    <2>1. t \in seen[k] /\ t \in Tokens /\ state[t] # "none"
      BY <1>2 DEF SameRequest, Revoking, TypeOK
    <2>2. pc'[k] = "mark" => job'[k].user # None
      BY <1>2, LinkingAssumption DEF SameRequest, Args, Running, Answers
    <2>3. pc[k] = "mark" /\ owner[t] = job[k].user /\ Unused(t) =>
            t \in todo[k] \union locks[k]
      BY <2>1 DEF Revoking
    <2> QED BY <1>2, <2>1, <2>2, <2>3, TokenLife DEF SameRequest
  <1>3. ASSUME NEW args \in JobType, Begin(k, args), pc'[k] # "mark"
        PROVE  state'[t] # "none"
    <2>1. t \in Tokens /\ owner[t] # None /\ state' = state
      BY <1>3, BeginEffect DEF tables
    <2> QED BY <2>1 DEF Owned
  <1>4. CASE Call(k)
    <2>1. ASSUME NEW u \in Users, CreateSelect(k, u) \/ DisconnectSelect(k, u)
          PROVE  state'[t] # "none" /\ pc'[k] # "mark"
      <3>1. [NoJob EXCEPT !.user = u] \in JobType
        BY DEF NoJob, JobType
      <3>2. pc'[k] # "mark"
        BY <2>1 DEF CreateSelect, DisconnectSelect, GoTo, TypeOK
      <3> QED BY <1>3, <2>1, <3>1, <3>2 DEF CreateSelect, DisconnectSelect
    <2>2. ASSUME NEW s \in Tokens, NEW a \in Accounts, ValidateSelect(k, s, a)
          PROVE  state'[t] # "none" /\ pc'[k] # "mark"
      <3>1. [user |-> owner[s], token |-> s, account |-> a] \in JobType
        BY DEF TypeOK, JobType
      <3>2. pc'[k] # "mark"
        BY <2>2 DEF ValidateSelect, GoTo, TypeOK
      <3> QED BY <1>3, <2>2, <3>1, <3>2 DEF ValidateSelect
    <2> QED BY <1>4, <2>1, <2>2 DEF Call
  <1>5. CASE DisconnectTokens(k)
    <2>1. t \in seen[k] /\ t \in Tokens /\ UNCHANGED <<tables, job>>
      BY <1>5 DEF DisconnectTokens, history, TypeOK
    <2>2. todo'[k] = {s \in Tokens : owner[s] = job[k].user /\ Unused(s)}
      BY <1>5 DEF DisconnectTokens, ToMark, TokensOf, TypeOK
    <2> QED BY <2>1, <2>2 DEF Revoking, tables, Unused
  <1>6. ASSUME NEW s \in Tokens, DisconnectToken(k, s)
        PROVE  /\ state'[t] # "none"
               /\ owner'[t] = job'[k].user /\ Unused(t)' =>
                    t \in todo'[k] \union locks'[k]
    <2>1. /\ t \in seen[k] /\ t \in Tokens /\ pc[k] = "mark"
          /\ UNCHANGED <<tables, job>>
      BY <1>6 DEF DisconnectToken, history, TypeOK
    <2>2. todo'[k] = todo[k] \ {s}
      BY <1>6 DEF DisconnectToken, TypeOK
    <2>3. CASE Unused(s)
      <3>1. {s} \in SUBSET Items
        BY DEF Items
      <3>2. locks'[k] = locks[k] \union {s}
        BY <1>6, <2>3, <3>1, HoldEffect DEF DisconnectToken
      <3> QED BY <2>1, <2>2, <3>2 DEF Revoking, tables, Unused
    <2>4. CASE ~Unused(s)
      <3>1. locks' = locks
        BY <1>6, <2>4 DEF DisconnectToken
      <3> QED BY <2>1, <2>2, <2>4, <3>1 DEF Revoking, tables, Unused
    <2> QED BY <2>3, <2>4
  <1>7. CASE /\ Step(k) \/ LoseDatabase(k)
             /\ ~DisconnectTokens(k)
             /\ ~\E s \in Tokens : DisconnectToken(k, s)
    <2>1. seen' = seen
      BY <1>7 DEF Step, LoseDatabase, CreateInsert, ValidateLock, ValidateCheck,
         ValidateUpsert, ValidateUnique, ValidateCommit, DisconnectDelete,
         DisconnectCommit, DeadlockAbort, history
    <2>2. pc'[k] # "mark"
      BY <1>7 DEF Step, LoseDatabase, CreateInsert, ValidateLock, ValidateCheck,
         ValidateUpsert, ValidateUnique, ValidateCommit, DisconnectDelete,
         DisconnectCommit, DeadlockAbort, Finish, GoTo, Reject, TypeOK
    <2> QED BY <1>1, <2>1, <2>2
  <1> QED BY <1>2, <1>4, <1>5, <1>6, <1>7, ActsOrRests DEF Acts

LEMMA RevokedStep ==
  ASSUME TypeOK, Args, Held, Revoking, Revoked, Next
  PROVE  Revoked'
  <1>1. ASSUME NEW t \in revoked PROVE ~Unused(t)' /\ state'[t] # "none"
    BY <1>1, TokenLife DEF Revoked, TypeOK
  <1>2. CASE revoked' = revoked
    BY <1>1, <1>2 DEF Revoked
  <1>3. ASSUME NEW j \in Jobs, DisconnectCommit(j), NEW t \in revoked', t \notin revoked
        PROVE  ~Unused(t)' /\ state'[t] # "none"
    <2>1. t \in seen[j] /\ t \in TokensOf(job[j].user)
      BY <1>3 DEF DisconnectCommit
    <2>2. t \in Tokens /\ state[t] # "none" /\ (Unused(t) => t \in locks[j])
      BY <1>3, <2>1 DEF DisconnectCommit, Revoking, TokensOf
    <2>3. state'[t] = IF t \in locks[j] THEN "used" ELSE state[t]
      BY <1>3, <2>2 DEF DisconnectCommit
    <2> QED BY <2>2, <2>3 DEF Unused
  <1>4. (\E j \in Jobs : DisconnectCommit(j)) \/ revoked' = revoked
    BY TablesChange DEF CreateInsert, ValidateCommit, Expire, CleanUp, history
  <1> QED BY <1>1, <1>2, <1>3, <1>4 DEF Revoked

-----------------------------------------------------------------------------
(* Theorems *)

IInv ==
  /\ TypeOK /\ Args /\ Owned /\ LocksExclude /\ Held /\ Reserved
  /\ OneUserPerAccount /\ Spent /\ Revoking /\ Revoked

LEMMA InitInv == Init => IInv
  <1> SUFFICES ASSUME Init PROVE IInv
    OBVIOUS
  <1>1. TypeOK
    BY InitTypes
  <1>2. Args /\ LocksExclude /\ Held /\ Reserved /\ Revoking /\ Revoked
    BY DEF Init, Args, LocksExclude, Held, Reserved, Revoking, Revoked, Running,
       Validating
  <1>3. Owned /\ Spent
    BY LinkingAssumption DEF Init, Owned, Spent, Unused
  <1>4. OneUserPerAccount
    BY DEF Init, OneUserPerAccount, IsInjective
  <1> QED BY <1>1, <1>2, <1>3, <1>4 DEF IInv

LEMMA InvStep == IInv /\ [Next]_vars => IInv'
  <1> SUFFICES ASSUME IInv, [Next]_vars PROVE IInv'
    OBVIOUS
  <1>1. CASE Next
    BY <1>1, TypeStep, ArgsStep, OwnedStep, LocksStep, HeldStep, ReservedStep,
       OneUserStep, SpentStep, RevokingStep, RevokedStep DEF IInv
  <1>2. CASE UNCHANGED vars
    BY <1>2 DEF vars, tables, threads, history, IInv, TypeOK, Args, Owned,
       LocksExclude, Held, Reserved, LinkedElsewhere, OneUserPerAccount, Spent,
       Revoking, Revoked, Running, Unused
  <1> QED BY <1>1, <1>2

LEMMA Invariance == Spec => []IInv
  BY InitInv, InvStep, PTL DEF Spec

\* Requests, transactions and tables keep their types, and whatever is locked
\* is locked by a transaction that is still open.
THEOREM LinkingTypes == Spec => []TypeOK
  <1>1. IInv => TypeOK
    BY DEF IInv
  <1> QED BY <1>1, Invariance, PTL

\* However many requests bring a token at once, it makes one connection at most.
THEOREM SingleUse == Spec => []TokenLinksOnce
  <1>1. IInv => TokenLinksOnce
    BY DEF IInv, Spent, TokenLinksOnce
  <1> QED BY <1>1, Invariance, PTL

\* No Telegram account is ever linked to two users.
THEOREM AccountsAreUnique == Spec => []OneUserPerAccount
  <1>1. IInv => OneUserPerAccount
    BY DEF IInv
  <1> QED BY <1>1, Invariance, PTL

\* A token that an answered disconnect has met makes no connection afterwards.
THEOREM RevocationIsFinal == Spec => RevokedNeverLinks
  <1>1. ASSUME IInv, [Next]_vars
        PROVE  [\A t \in revoked : links'[t] = links[t]]_vars
    <2>1. CASE UNCHANGED vars
      BY <2>1
    <2>2. ASSUME Next, NEW t \in revoked
          PROVE  links'[t] = links[t]
      <3>1. t \in Tokens /\ state[t] # "none" /\ ~Unused(t)
        BY <1>1 DEF IInv, Revoked, TypeOK
      <3> QED BY <1>1, <2>2, <3>1, TokenLife DEF IInv
    <2> QED BY <1>1, <2>1, <2>2
  <1> QED BY <1>1, Invariance, PTL DEF Spec, RevokedNeverLinks
=============================================================================
