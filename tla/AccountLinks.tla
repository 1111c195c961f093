----------------------------- MODULE AccountLinks -----------------------------
(***************************************************************************)
(* What scripts/watchtower/telegram_linking.py does to tokens and links,   *)
(* seen from outside its transactions:                                     *)
(*                                                                         *)
(*     new -> active -> expired           a token may be spent from active *)
(*              |          |              or expired, by linking or by a   *)
(*              +-> spent <-+             disconnect, and stays spent      *)
(*                                                                         *)
(* It is what requests that overlap keep to, which is less than what a     *)
(* request does alone.  Two requests for a token of one user may both get  *)
(* one.  A disconnect may miss tokens and a connection made meanwhile.     *)
(* Neither is what the docstrings promise, but it is what the code does.   *)
(* TelegramLinking is shown to implement this module; TelegramBot is       *)
(* composed with it.                                                       *)
(***************************************************************************)
CONSTANTS
  Users,            (* CloudVault user ids.                                *)
  Accounts,         (* Telegram user ids.                                  *)
  Tokens,           (* Link tokens.                                        *)
  None              (* Not a user, an account or a token.                  *)

VARIABLES
  owner,    (* The user a stored token was made for, or None.              *)
  phase,    (* The life-cycle phase of each token.                         *)
  conn      (* The account linked with each user, or None.                 *)

linkVars == <<owner, phase, conn>>

Phases == {"new", "active", "expired", "spent"}

LinksTypeOK ==
  /\ owner \in [Tokens -> Users \union {None}]
  /\ phase \in [Tokens -> Phases]
  /\ conn \in [Users -> Accounts \union {None}]

Distinct(f, S) == \A x, y \in S : f[x] = f[y] /\ f[x] # None => x = y

LinksInit ==
  /\ owner \in [Tokens -> Users \union {None}]
  /\ phase = [t \in Tokens |-> IF owner[t] = None THEN "new" ELSE "active"]
  /\ conn \in [Users -> Accounts \union {None}]
  /\ Distinct(conn, Users)

Spendable(t) == phase[t] \in {"active", "expired"}

\* The account belongs to a user other than the owner of t.
Elsewhere(t, a) == \E u \in Users \ {owner[t]} : conn[u] = a

\* The code asks for an active token of u first, but another request may insert
\* one between that question and the INSERT.
Create(t, u) ==
  /\ phase[t] = "new"
  /\ owner' = [owner EXCEPT ![t] = u]
  /\ phase' = [phase EXCEPT ![t] = "active"]
  /\ UNCHANGED conn

\* A token that expires under a request in progress still counts.
Link(t, a) ==
  /\ Spendable(t)
  /\ owner[t] # None
  /\ ~ Elsewhere(t, a)
  /\ phase' = [phase EXCEPT ![t] = "spent"]
  /\ conn' = [conn EXCEPT ![owner[t]] = a]
  /\ UNCHANGED owner

\* Tokens made while the disconnect is under way may be left out of S, and so
\* may a connection.
Disconnect(u, S) ==
  /\ \A t \in S : owner[t] = u /\ Spendable(t)
  /\ phase' = [t \in Tokens |-> IF t \in S THEN "spent" ELSE phase[t]]
  /\ conn' = conn \/ conn' = [conn EXCEPT ![u] = None]
  /\ UNCHANGED owner

Expire(t) ==
  /\ phase[t] = "active"
  /\ phase' = [phase EXCEPT ![t] = "expired"]
  /\ UNCHANGED <<owner, conn>>

\* cleanup_expired_tokens deletes the row.
Forget(t) ==
  /\ phase[t] \in {"expired", "spent"}
  /\ phase' = [phase EXCEPT ![t] = "spent"]
  /\ owner' = [owner EXCEPT ![t] = None]
  /\ UNCHANGED conn

LinksNext ==
  \/ \E t \in Tokens, u \in Users : Create(t, u)
  \/ \E t \in Tokens, a \in Accounts : Link(t, a)
  \/ \E u \in Users, S \in SUBSET Tokens : Disconnect(u, S)
  \/ \E t \in Tokens : Expire(t) \/ Forget(t)

LinksSpec == LinksInit /\ [][LinksNext]_linkVars
=============================================================================
