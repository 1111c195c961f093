--------------------------- MODULE TelegramLinking ---------------------------
(***************************************************************************)
(* scripts/watchtower/telegram_linking.py: linking CloudVault users with   *)
(* Telegram accounts through one-time tokens.                              *)
(*                                                                         *)
(* Every API request runs one method of Database in a thread of the        *)
(* executor, as one PostgreSQL transaction (READ COMMITTED): statements of *)
(* different requests interleave.  A statement sees what is committed when *)
(* it starts, waits for the row and unique-key locks that others hold, and *)
(* then looks at the row again.  A transaction changes the tables when it  *)
(* commits; PostgreSQL aborts one of the transactions that wait for each   *)
(* other.                                                                  *)
(***************************************************************************)
EXTENDS Integers, FiniteSets, Functions

CONSTANTS
  Users,            (* CloudVault user ids.                                *)
  Accounts,         (* Numeric Telegram user ids.                          *)
  Tokens,           (* Link tokens.                                        *)
  Jobs,             (* Requests to the API, each run once.                 *)
  None,             (* Not a user, an account or a token.                  *)
  MaxFaults         (* Bound: transactions that lose the database.         *)

ASSUME LinkingAssumption ==
  /\ None \notin Users \union Accounts \union Tokens
  /\ Users \intersect Accounts = {}
  /\ Tokens \intersect (Users \union Accounts) = {}
  /\ MaxFaults \in Nat

VARIABLES
  (*************************************************************************)
  (* PostgreSQL, committed                                                 *)
  (*************************************************************************)
  owner,    (* user_id of a row of oc_telegram_link_tokens, None if there  *)
            (* is no row.                                                  *)
  state,    (* "none" yet, "active", "expired" (used_at is null), "used",  *)
            (* or "gone" from the table.                                   *)
  conn,     (* oc_telegram_connections: the account of a user, or None.    *)
  (*************************************************************************)
  (* Requests and their transactions                                       *)
  (*************************************************************************)
  pc,       (* The next statement, or the answer to the caller.            *)
  job,      (* Arguments.                                                  *)
  todo,     (* Tokens a disconnect has yet to mark.                        *)
  locks,    (* Rows (tokens, users) and unique keys (accounts) it holds.   *)
  (*************************************************************************)
  (* History                                                               *)
  (*************************************************************************)
  links,    (* How often a token made a connection.                        *)
  seen,     (* Tokens there were when the request began.                   *)
  revoked,  (* Tokens that were there when a disconnect of their user      *)
            (* began that has been answered.                               *)
  via,      (* The token that made the connection of a user.               *)
  faults

tables  == <<owner, state, conn>>
threads == <<pc, job, todo, locks>>
history == <<links, seen, revoked, via, faults>>
vars    == <<tables, threads, history>>

Answers == {"created", "active_token_exists", "linked", "invalid_token",
            "telegram_already_linked", "disconnected", "error"}

Steps == {"idle", "insert", "lock", "check", "upsert", "unique", "link",
          "delete", "select", "mark"}

NoJob == [user |-> None, token |-> None, account |-> None]

Running(j) == pc[j] \notin {"idle"} \union Answers

\* No other transaction holds r.
Free(j, r) == \A k \in Jobs \ {j} : r \notin locks[k]

Hold(j, r) == locks' = [locks EXCEPT ![j] = @ \union r]

GoTo(j, step) == pc' = [pc EXCEPT ![j] = step]

\* Commit, rollback and the closing of the connection release all locks.
Finish(j, answer) ==
  /\ GoTo(j, answer)
  /\ locks' = [locks EXCEPT ![j] = {}]
  /\ todo' = [todo EXCEPT ![j] = {}]

Unused(t) == state[t] \in {"active", "expired"}

TokensOf(u) == {t \in Tokens : owner[t] = u}

Begin(j, args) ==
  /\ pc[j] = "idle"
  /\ job' = [job EXCEPT ![j] = args]
  /\ seen' = [seen EXCEPT ![j] = {t \in Tokens : owner[t] # None}]
  /\ UNCHANGED <<tables, links, revoked, via, faults>>

Fault ==
  /\ faults < MaxFaults
  /\ faults' = faults + 1

-----------------------------------------------------------------------------
\* Any tables that earlier requests may have left: at most one active token per
\* user, and accounts linked once.
Init ==
  /\ owner \in [Tokens -> Users \union {None}]
  /\ IsInjective([t \in {s \in Tokens : owner[s] # None} |-> owner[t]])
  /\ state = [t \in Tokens |-> IF owner[t] = None THEN "none" ELSE "active"]
  /\ conn \in [Users -> Accounts \union {None}]
  /\ IsInjective([u \in {v \in Users : conn[v] # None} |-> conn[u]])
  /\ pc = [j \in Jobs |-> "idle"]
  /\ job = [j \in Jobs |-> NoJob]
  /\ todo = [j \in Jobs |-> {}]
  /\ locks = [j \in Jobs |-> {}]
  /\ links = [t \in Tokens |-> 0]
  /\ seen = [j \in Jobs |-> {}]
  /\ revoked = {}
  /\ via = [u \in Users |-> None]
  /\ faults = 0

(***************************************************************************)
(* create_link_token                                                       *)
(***************************************************************************)

HasActiveToken(u) == \E t \in TokensOf(u) : state[t] = "active"

\* Bound: a request to create a token begins while Tokens has one left for it.
TokenLeft ==
  Cardinality({j \in Jobs : pc[j] = "insert"})
    < Cardinality({t \in Tokens : state[t] = "none"})

CreateSelect(j, u) ==
  /\ HasActiveToken(u) \/ TokenLeft
  /\ Begin(j, [NoJob EXCEPT !.user = u])
  /\ GoTo(j, IF HasActiveToken(u) THEN "active_token_exists" ELSE "insert")
  /\ UNCHANGED <<todo, locks>>

\* The INSERT and the commit, whose answer may be lost.  token_urlsafe never
\* gives a token twice.
CreateInsert(j, t) ==
  /\ pc[j] = "insert"
  /\ state[t] = "none"
  /\ owner' = [owner EXCEPT ![t] = job[j].user]
  /\ state' = [state EXCEPT ![t] = "active"]
  /\ \/ Finish(j, "created") /\ UNCHANGED faults
     \/ Finish(j, "error") /\ Fault
  /\ UNCHANGED <<conn, job, links, seen, revoked, via>>

(***************************************************************************)
(* validate_and_consume_token                                              *)
(***************************************************************************)

ValidateSelect(j, t, a) ==
  /\ Begin(j, [user |-> owner[t], token |-> t, account |-> a])
  /\ GoTo(j, IF state[t] = "active" THEN "lock" ELSE "invalid_token")
  /\ UNCHANGED <<todo, locks>>

\* Slip: without FOR UPDATE.
LockTokenSlip(j) == UNCHANGED locks

\* FOR UPDATE.  now() is the time the transaction began: a token that expires
\* while the statement waits still counts.
LockToken(j) == Hold(j, {job[j].token})

ValidateLock(j) ==
  /\ pc[j] = "lock"
  /\ Free(j, job[j].token)
  /\ IF Unused(job[j].token)
     THEN LockToken(j) /\ GoTo(j, "check") /\ UNCHANGED todo
     ELSE Finish(j, "invalid_token")
  /\ UNCHANGED <<tables, job, history>>

LinkedElsewhere(j) ==
  \E u \in Users \ {job[j].user} : conn[u] = job[j].account

\* Slip: without the finally that closes the connection.
RejectSlip(j, answer) == GoTo(j, answer) /\ UNCHANGED <<todo, locks>>

\* rollback and close: the token stays unused.
Reject(j, answer) == Finish(j, answer)

\* Slip: the token is marked as used before the check, in a transaction of its own.
ValidateCheckSlip(j) ==
  /\ pc[j] = "check"
  /\ state' = [state EXCEPT ![job[j].token] = "used"]
  /\ IF LinkedElsewhere(j)
     THEN Reject(j, "telegram_already_linked")
     ELSE GoTo(j, "upsert") /\ UNCHANGED <<todo, locks>>
  /\ UNCHANGED <<owner, conn, job, history>>

ValidateCheck(j) ==
  /\ pc[j] = "check"
  /\ IF LinkedElsewhere(j)
     THEN Reject(j, "telegram_already_linked")
     ELSE GoTo(j, "upsert") /\ UNCHANGED <<todo, locks>>
  /\ UNCHANGED <<tables, job, history>>

\* INSERT ... ON CONFLICT (user_id): the row of the user first, ...
ValidateUpsert(j) ==
  /\ pc[j] = "upsert"
  /\ Free(j, job[j].user)
  /\ Hold(j, {job[j].user})
  /\ GoTo(j, "unique")
  /\ UNCHANGED <<tables, job, todo, history>>

\* Slip: telegram_user_id without its unique constraint.
TakenSlip(j) == FALSE

\* ... then the key telegram_user_id, old and new.
Taken(j) == LinkedElsewhere(j)

ValidateUnique(j) ==
  /\ pc[j] = "unique"
  /\ Free(j, job[j].account)     \* the entry of an open transaction
  /\ IF Taken(j)
     THEN Finish(j, "error")
     ELSE /\ Hold(j, {job[j].account, conn[job[j].user]} \ {None})
          /\ GoTo(j, "link")
          /\ UNCHANGED todo
  /\ UNCHANGED <<tables, job, history>>

\* The commit; its answer may be lost.
ValidateCommit(j) ==
  /\ pc[j] = "link"
  /\ state' = [state EXCEPT ![job[j].token] = "used"]
  /\ conn' = [conn EXCEPT ![job[j].user] = job[j].account]
  /\ \/ Finish(j, "linked") /\ UNCHANGED faults
     \/ Finish(j, "error") /\ Fault
  /\ links' = [links EXCEPT ![job[j].token] = @ + 1]
  /\ via' = [via EXCEPT ![job[j].user] = job[j].token]
  /\ UNCHANGED <<owner, job, seen, revoked>>

(***************************************************************************)
(* disconnect                                                              *)
(***************************************************************************)

\* The DELETE sees no row, or waits for it.  (A row deleted and inserted again
\* while it waits is taken for the same row.)
DisconnectSelect(j, u) ==
  /\ Begin(j, [NoJob EXCEPT !.user = u])
  /\ GoTo(j, IF conn[u] = None THEN "select" ELSE "delete")
  /\ UNCHANGED <<todo, locks>>

DisconnectDelete(j) ==
  /\ pc[j] = "delete"
  /\ Free(j, job[j].user)
  /\ IF conn[job[j].user] # None
     THEN Hold(j, {job[j].user, conn[job[j].user]})
     ELSE UNCHANGED locks
  /\ GoTo(j, "select")
  /\ UNCHANGED <<tables, job, todo, history>>

\* Slip: the tokens are not looked at.
ToMarkSlip(u) == {}

\* The UPDATE of the tokens: the rows it sees, one after the other, expired ones
\* too.
ToMark(u) == {t \in TokensOf(u) : Unused(t)}

DisconnectTokens(j) ==
  /\ pc[j] = "select"
  /\ todo' = [todo EXCEPT ![j] = ToMark(job[j].user)]
  /\ GoTo(j, "mark")
  /\ UNCHANGED <<tables, job, locks, history>>

DisconnectToken(j, t) ==
  /\ pc[j] = "mark"
  /\ t \in todo[j]
  /\ Free(j, t)
  /\ todo' = [todo EXCEPT ![j] = @ \ {t}]
  /\ IF Unused(t) THEN Hold(j, {t}) ELSE UNCHANGED locks
  /\ UNCHANGED <<tables, pc, job, history>>

DisconnectCommit(j) ==
  /\ pc[j] = "mark"
  /\ todo[j] = {}
  /\ state' = [t \in Tokens |-> IF t \in locks[j] THEN "used" ELSE state[t]]
  /\ conn' = [u \in Users |-> IF u \in locks[j] THEN None ELSE conn[u]]
  /\ \/ /\ Finish(j, "disconnected")
        /\ revoked' = revoked \union (seen[j] \intersect TokensOf(job[j].user))
        /\ UNCHANGED faults
     \/ Finish(j, "error") /\ Fault /\ UNCHANGED revoked
  /\ UNCHANGED <<owner, job, links, seen, via>>

(***************************************************************************)
(* Rollbacks, time                                                         *)
(***************************************************************************)

\* The transactions that hold what j waits for.
WaitsFor(j) ==
  LET wanted ==
        CASE pc[j] = "lock"                 -> {job[j].token}
          [] pc[j] \in {"upsert", "delete"} -> {job[j].user}
          [] pc[j] = "unique"               -> {job[j].account}
          [] pc[j] = "mark"                 -> todo[j]
          [] OTHER                          -> {}
  IN  {k \in Jobs \ {j} : locks[k] \intersect wanted # {}}

Deadlocked(j) ==
  \E k \in WaitsFor(j) :
    j \in UNION {WaitsFor(l) : l \in {k} \union WaitsFor(k)}

DeadlockAbort(j) ==
  /\ Deadlocked(j)
  /\ Finish(j, "error")
  /\ UNCHANGED <<tables, job, history>>

LoseDatabase(j) ==
  /\ Running(j)
  /\ Fault
  /\ Finish(j, "error")
  /\ UNCHANGED <<tables, job, links, seen, revoked, via>>

Expire(t) ==
  /\ state[t] = "active"
  /\ state' = [state EXCEPT ![t] = "expired"]
  /\ UNCHANGED <<owner, conn, threads, history>>

\* cleanup_expired_tokens, an hour later.
CleanUp(t) ==
  /\ state[t] \in {"expired", "used"}
  /\ \A j \in Jobs : t \notin locks[j]
  /\ owner' = [owner EXCEPT ![t] = None]
  /\ state' = [state EXCEPT ![t] = "gone"]
  /\ UNCHANGED <<conn, threads, history>>

-----------------------------------------------------------------------------
Step(j) ==
  \/ \E t \in Tokens : CreateInsert(j, t)
  \/ ValidateLock(j) \/ ValidateCheck(j) \/ ValidateUpsert(j)
  \/ ValidateUnique(j) \/ ValidateCommit(j)
  \/ DisconnectDelete(j) \/ DisconnectTokens(j)
  \/ \E t \in Tokens : DisconnectToken(j, t)
  \/ DisconnectCommit(j)
  \/ DeadlockAbort(j)

Call(j) ==
  \/ \E u \in Users : CreateSelect(j, u) \/ DisconnectSelect(j, u)
  \/ \E t \in Tokens, a \in Accounts : ValidateSelect(j, t, a)

Next ==
  \/ \E j \in Jobs : Call(j) \/ Step(j) \/ LoseDatabase(j)
  \/ \E t \in Tokens : Expire(t) \/ CleanUp(t)

Spec == Init /\ [][Next]_vars

\* A thread runs its method to the end; PostgreSQL serves its statements and
\* breaks deadlocks.
FairSpec == Spec /\ \A j \in Jobs : WF_vars(Step(j))

-----------------------------------------------------------------------------
\* Types, and who may hold what: a transaction that has ended holds nothing.
TypeOK ==
  /\ owner \in [Tokens -> Users \union {None}]
  /\ state \in [Tokens -> {"none", "active", "expired", "used", "gone"}]
  /\ conn \in [Users -> Accounts \union {None}]
  /\ pc \in [Jobs -> Steps \union Answers]
  /\ job \in [Jobs -> [user : Users \union {None},
                       token : Tokens \union {None},
                       account : Accounts \union {None}]]
  /\ todo \in [Jobs -> SUBSET Tokens]
  /\ locks \in [Jobs -> SUBSET (Users \union Accounts \union Tokens)]
  /\ \A j \in Jobs : locks[j] # {} => Running(j)
  /\ links \in [Tokens -> Nat]
  /\ seen \in [Jobs -> SUBSET Tokens]
  /\ revoked \in SUBSET Tokens
  /\ via \in [Users -> Tokens \union {None}]
  /\ faults \in 0..MaxFaults

\* "Tokens are single-use": a token makes one connection at most, however many
\* requests bring it at once, and also when the answer of the first one is lost.
TokenLinksOnce == \A t \in Tokens : links[t] <= 1

\* A Telegram account belongs to one CloudVault user, also when two users link
\* it at the same time, both having seen it free.
OneUserPerAccount ==
  \A u, v \in Users : conn[u] # None /\ conn[u] = conn[v] => u = v

\* Refinement: to its callers, linking is AccountLinks.
Phase(t) ==
  CASE state[t] = "none"            -> "new"
    [] state[t] \in {"used", "gone"} -> "spent"
    [] OTHER                        -> state[t]

Links == INSTANCE AccountLinks WITH phase <- [t \in Tokens |-> Phase(t)]

\* However their statements interleave, a token is created once and spent once:
\* by a commit that links it, to its own user and to an account that no other
\* user has, by a disconnect of its own user, or by the cleanup.  A link is made by no other
\* step, and undone by none but a disconnect of its user or a new link of that
\* user.  This does not say that requests act as if each had run alone: a
\* disconnect may miss a link made beside it (DisconnectRevokes), and two requests
\* that both find no active token give a user two.
LinksAccounts == Links!LinksSpec

\* All or nothing: a token is spent only by the commit that makes its
\* connection, or by a disconnect of its own user.  A request that is refused,
\* fails or is rolled back leaves it to be tried again.
SpentForAReason ==
  [][\A t \in Tokens :
       Unused(t) /\ state'[t] = "used" =>
         \/ links'[t] = links[t] + 1
         \/ \E j \in Jobs : pc[j] = "mark" /\ job[j].user = owner[t]]_vars

\* Once a disconnect has been answered, no token that was there when it began
\* ever makes a connection again, not even one that a request held meanwhile.
RevokedNeverLinks ==
  [][\A t \in revoked : links'[t] = links[t]]_vars

\* disconnect and validate lock users and tokens in opposite orders: still
\* every request that has begun is answered.
EveryRequestEnds == \A j \in Jobs : Running(j) ~> ~Running(j)

\* disconnect: "Remove Telegram connection and invalidate active tokens."  A
\* connection that is there came from no token of before an answered disconnect.
DisconnectRevokes ==
  \A u \in Users : conn[u] # None => via[u] \notin revoked
=============================================================================
