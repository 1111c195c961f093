---------------------- MODULE TelegramLinkingRefinement ----------------------
(***************************************************************************)
(* That TelegramLinking implements AccountLinks, for any users, accounts,  *)
(* tokens, requests and number of faults.  The invariant of                *)
(* TelegramLinkingProofs says who has locked what; what it lacks is whose  *)
(* tokens a request has in mind.                                           *)
(***************************************************************************)
EXTENDS TelegramLinkingProofs

\* A validate read the owner of its token with the token: as long as the token
\* is unused, that is still its owner.
OwnToken ==
  \A j \in Jobs : pc[j] \in Validating =>
    /\ state[job[j].token] # "none"
    /\ Unused(job[j].token) => owner[job[j].token] = job[j].user

Disconnecting == {"delete", "select", "mark"}

\* A disconnect has locked only unused tokens of its user, and no other user.
OwnMarks ==
  \A j \in Jobs : pc[j] \in Disconnecting =>
    /\ \A t \in locks[j] \intersect Tokens :
         Unused(t) /\ owner[t] = job[j].user
    /\ \A u \in locks[j] \intersect Users : u = job[j].user
    /\ pc[j] = "mark" => \A t \in todo[j] :
         state[t] # "none" /\ (Unused(t) => owner[t] = job[j].user)

RInv == IInv /\ OwnToken /\ OwnMarks

-----------------------------------------------------------------------------
(* The invariant *)

\* A token that is still unused keeps its owner.
LEMMA OwnerKept ==
  ASSUME IInv, Next, NEW t \in Tokens, state[t] # "none"
  PROVE  /\ state'[t] # "none"
         /\ Unused(t)' => Unused(t) /\ owner'[t] = owner[t]
<1>1. Owned'
  BY OwnedStep DEF IInv
<1>2. Unused(t)' => owner'[t] # None
  BY <1>1 DEF Owned
<1> QED
  BY <1>2, TokenLife DEF IInv

LEMMA OwnTokenStep ==
  ASSUME IInv, OwnToken, Next
  PROVE  OwnToken'
<1> SUFFICES ASSUME NEW k \in Jobs, pc'[k] \in Validating
             PROVE  /\ state'[job'[k].token] # "none"
                    /\ Unused(job[k].token)' =>
                         owner'[job'[k].token] = job'[k].user
  BY DEF OwnToken
<1>1. CASE pc[k] \in Validating /\ job'[k] = job[k]
  <2>1. /\ job[k].token \in Tokens
        /\ state[job[k].token] # "none"
        /\ Unused(job[k].token) => owner[job[k].token] = job[k].user
    BY <1>1 DEF OwnToken, IInv, Args, Running, Validating, Answers
  <2>2. PICK t \in Tokens : t = job[k].token
    BY <2>1
  <2>3. /\ state'[t] # "none"
        /\ Unused(t)' => Unused(t) /\ owner'[t] = owner[t]
    BY <2>1, <2>2, OwnerKept
  <2> QED
    BY <1>1, <2>1, <2>2, <2>3 DEF Unused
<1>2. CASE SameRequest(k)
  BY <1>1, <1>2 DEF SameRequest
<1>3. CASE Step(k) \/ LoseDatabase(k)
  BY <1>1, <1>3, StepKeepsJob DEF IInv
<1>4. CASE Call(k)
  <2>1. PICK t \in Tokens, a \in Accounts : ValidateSelect(k, t, a)
    BY <1>4
    DEF Call, CreateSelect, DisconnectSelect, GoTo, IInv, TypeOK, Validating
  <2>2. [user |-> owner[t], token |-> t, account |-> a] \in JobType
    BY DEF IInv, TypeOK, JobType
  <2>3. /\ job'[k] = [user |-> owner[t], token |-> t, account |-> a]
        /\ UNCHANGED tables
    BY <2>1, <2>2, BeginEffect DEF ValidateSelect, IInv
  <2>4. state[t] = "active"
    BY <2>1 DEF ValidateSelect, GoTo, IInv, TypeOK, Validating
  <2> QED
    BY <2>3, <2>4 DEF tables
<1> QED
  BY <1>2, <1>3, <1>4, ActsOrRests DEF Acts, IInv

LEMMA OwnMarksStep ==
  ASSUME IInv, OwnMarks, Next
  PROVE  OwnMarks'
<1> SUFFICES ASSUME NEW k \in Jobs, pc'[k] \in Disconnecting
             PROVE  /\ \A t \in locks'[k] \intersect Tokens :
                         Unused(t)' /\ owner'[t] = job'[k].user
                    /\ \A u \in locks'[k] \intersect Users : u = job'[k].user
                    /\ pc'[k] = "mark" => \A t \in todo'[k] :
                         /\ state'[t] # "none"
                         /\ Unused(t)' => owner'[t] = job'[k].user
  BY DEF OwnMarks
<1>1. ~ ValidateCommit(k) /\ ~ DisconnectCommit(k)
  BY CommitEnds DEF IInv, Disconnecting, Answers
<1>2. ASSUME NEW t \in locks[k] \intersect Tokens, Unused(t)
      PROVE  Unused(t)' /\ owner'[t] = owner[t]
  <2>1. Unused(t)'
    BY <1>1, <1>2, TokenKept DEF IInv
  <2> QED
    BY <1>2, <2>1, OwnerKept DEF Unused
<1>3. CASE SameRequest(k)
  <2>1. \A t \in todo[k] : t \in Tokens
    BY DEF IInv, TypeOK
  <2> QED
    BY <1>2, <1>3, <2>1, OwnerKept DEF SameRequest, OwnMarks, Disconnecting
<1>4. CASE Call(k)
  <2>1. PICK u \in Users : DisconnectSelect(k, u)
    BY <1>4
    DEF Call, CreateSelect, ValidateSelect, GoTo, IInv, TypeOK, Disconnecting
  <2>2. locks'[k] = {} /\ pc'[k] # "mark"
    BY <2>1 DEF DisconnectSelect, Begin, GoTo, IInv, TypeOK, Running
  <2> QED
    BY <2>2
<1>5. CASE DisconnectDelete(k)
  <2>1. /\ pc[k] = "delete" /\ pc'[k] = "select" /\ job' = job
        /\ UNCHANGED tables
    BY <1>5, GoToEffect DEF DisconnectDelete, Steps, IInv
  <2>2. job[k].user \in Users
    BY <2>1 DEF IInv, Args, Running, Answers
  <2>3. conn[job[k].user] # None => conn[job[k].user] \in Accounts
    BY <2>2 DEF IInv, TypeOK
  <2>4. locks'[k] \intersect Tokens = locks[k] \intersect Tokens
    BY <1>5, <2>2, <2>3, LinkingAssumption
    DEF DisconnectDelete, Hold, IInv, TypeOK
  <2>5. \A u \in locks'[k] \intersect Users :
          u \in locks[k] \/ u = job[k].user
    BY <1>5, <2>2, <2>3, LinkingAssumption
    DEF DisconnectDelete, Hold, IInv, TypeOK
  <2> QED
    BY <2>1, <2>4, <2>5 DEF OwnMarks, Disconnecting, tables, Unused
<1>6. CASE DisconnectTokens(k)
  <2>1. /\ pc[k] = "select" /\ UNCHANGED <<tables, job, locks>>
        /\ todo'[k] = ToMark(job[k].user)
    BY <1>6 DEF DisconnectTokens, IInv, TypeOK
  <2> QED
    BY <2>1
    DEF OwnMarks, Disconnecting, tables, Unused, ToMark, TokensOf
<1>7. ASSUME NEW t \in Tokens, DisconnectToken(k, t)
      PROVE  /\ \A s \in locks'[k] \intersect Tokens :
                  Unused(s)' /\ owner'[s] = job'[k].user
             /\ \A u \in locks'[k] \intersect Users : u = job'[k].user
             /\ pc'[k] = "mark" => \A s \in todo'[k] :
                  /\ state'[s] # "none"
                  /\ Unused(s)' => owner'[s] = job'[k].user
  <2>1. /\ pc[k] = "mark" /\ t \in todo[k] /\ UNCHANGED <<tables, pc, job>>
        /\ todo'[k] = todo[k] \ {t}
    BY <1>7 DEF DisconnectToken, IInv, TypeOK
  <2>2. locks'[k] = IF Unused(t) THEN locks[k] \union {t} ELSE locks[k]
    BY <1>7 DEF DisconnectToken, Hold, IInv, TypeOK
  <2>3. Unused(t) => owner[t] = job[k].user
    BY <2>1 DEF OwnMarks, Disconnecting
  <2>4. t \notin Users
    BY LinkingAssumption
  <2> QED
    BY <2>1, <2>2, <2>3, <2>4 DEF OwnMarks, Disconnecting, tables, Unused
<1>8. CASE \/ \E t \in Tokens : CreateInsert(k, t)
           \/ ValidateLock(k) \/ ValidateCheck(k) \/ ValidateUpsert(k)
           \/ ValidateUnique(k) \/ DeadlockAbort(k) \/ LoseDatabase(k)
  BY <1>8
  DEF CreateInsert, ValidateLock, ValidateCheck, ValidateUpsert,
      ValidateUnique, DeadlockAbort, LoseDatabase, Finish, GoTo, Reject,
      Disconnecting, IInv, TypeOK
<1> QED
  BY <1>1, <1>3, <1>4, <1>5, <1>6, <1>7, <1>8, ActsOrRests DEF Acts, Step, IInv

LEMMA RInvHolds == Spec => []RInv
<1>1. Init => RInv
  BY InitInv
  DEF Init, RInv, OwnToken, OwnMarks, Validating, Disconnecting
<1>2. RInv /\ [Next]_vars => RInv'
  <2> SUFFICES ASSUME RInv, [Next]_vars PROVE RInv'
    OBVIOUS
  <2>1. CASE Next
    BY <2>1, InvStep, OwnTokenStep, OwnMarksStep DEF RInv
  <2>2. CASE UNCHANGED vars
    BY <2>2, InvStep
    DEF RInv, OwnToken, OwnMarks, Unused, vars, tables, threads
  <2> QED
    BY <2>1, <2>2
<1> QED
  BY <1>1, <1>2, PTL DEF Spec

-----------------------------------------------------------------------------
(* The refinement *)

phase == [t \in Tokens |-> Phase(t)]

LEMMA PhaseOf ==
  ASSUME NEW t \in Tokens
  PROVE  phase[t] = Phase(t) /\ phase'[t] = Phase(t)'
  BY DEF phase

LEMMA InsertCreates ==
  ASSUME RInv, NEW j \in Jobs, NEW t \in Tokens, CreateInsert(j, t)
  PROVE  Links!LinksNext
<1>1. job[j].user \in Users
  BY DEF CreateInsert, RInv, IInv, Args, Running, Answers
<1>2. phase[t] = "new"
  BY PhaseOf DEF CreateInsert, Phase
<1>3. phase' = [phase EXCEPT ![t] = "active"]
  BY DEF CreateInsert, RInv, IInv, TypeOK, phase, Phase
<1>4. Links!Create(t, job[j].user)
  BY <1>2, <1>3 DEF Links!Create, CreateInsert, phase
<1> QED
  BY <1>1, <1>4 DEF Links!LinksNext

LEMMA CommitLinks ==
  ASSUME RInv, NEW j \in Jobs, ValidateCommit(j)
  PROVE  Links!LinksNext
<1>1. PICK t \in Tokens, a \in Accounts :
        t = job[j].token /\ a = job[j].account
  BY DEF ValidateCommit, RInv, IInv, Args, Running, Validating, Answers
<1>2. Unused(t) /\ owner[t] = job[j].user /\ job[j].user \in Users
  BY <1>1
  DEF ValidateCommit, RInv, IInv, Args, Running, Held, OwnToken, Validating,
      Answers
<1>3. ~ LinkedElsewhere(j)
  BY DEF ValidateCommit, RInv, IInv, Reserved
<1>4. Links!Spendable(t)
  BY <1>2, PhaseOf DEF Links!Spendable, phase, Phase, Unused
<1>5. ~ Links!Elsewhere(t, a) /\ owner[t] # None
  BY <1>1, <1>2, <1>3, LinkingAssumption
  DEF Links!Elsewhere, LinkedElsewhere
<1>6. phase' = [phase EXCEPT ![t] = "spent"]
  BY <1>1 DEF ValidateCommit, RInv, IInv, TypeOK, phase, Phase
<1>7. conn' = [conn EXCEPT ![owner[t]] = a] /\ owner' = owner
  BY <1>1, <1>2 DEF ValidateCommit
<1>8. Links!Link(t, a)
  BY <1>4, <1>5, <1>6, <1>7 DEF Links!Link, phase
<1> QED
  BY <1>8 DEF Links!LinksNext

LEMMA CommitDisconnects ==
  ASSUME RInv, NEW j \in Jobs, DisconnectCommit(j)
  PROVE  Links!LinksNext
<1>1. PICK u \in Users : u = job[j].user
  BY DEF DisconnectCommit, RInv, IInv, Args, Running, Answers
<1> DEFINE S == locks[j] \intersect Tokens
<1>2. /\ \A t \in S : Unused(t) /\ owner[t] = u
      /\ \A v \in locks[j] \intersect Users : v = u
  BY <1>1 DEF DisconnectCommit, RInv, OwnMarks, Disconnecting
<1>3. \A t \in S : owner[t] = u /\ Links!Spendable(t)
  BY <1>2, PhaseOf DEF Links!Spendable, phase, Phase, Unused
<1>4. phase' = [t \in Tokens |-> IF t \in S THEN "spent" ELSE phase[t]]
  BY DEF DisconnectCommit, RInv, IInv, TypeOK, phase, Phase
<1>5. conn' = conn \/ conn' = [conn EXCEPT ![u] = None]
  <2>1. conn' = [v \in Users |-> IF v \in locks[j] THEN None ELSE conn[v]]
        /\ conn = [v \in Users |-> conn[v]]
    BY DEF DisconnectCommit, RInv, IInv, TypeOK
  <2>2. CASE u \in locks[j]
    <3>1. \A v \in Users : v \in locks[j] <=> v = u
      BY <1>2, <2>2
    <3>2. conn' = [v \in Users |-> IF v = u THEN None ELSE conn[v]]
      BY <2>1, <3>1
    <3> QED
      BY <2>1, <3>2
  <2>3. CASE u \notin locks[j]
    <3>1. \A v \in Users : v \notin locks[j]
      BY <1>2, <2>3
    <3> QED
      BY <2>1, <3>1
  <2> QED
    BY <2>2, <2>3
<1>6. owner' = owner
  BY DEF DisconnectCommit
<1>7. Links!Disconnect(u, S)
  BY <1>3, <1>4, <1>5, <1>6 DEF Links!Disconnect, phase
<1>8. S \in SUBSET Tokens
  OBVIOUS
<1> QED
  BY <1>7, <1>8 DEF Links!LinksNext

LEMMA TimePasses ==
  ASSUME RInv, NEW t \in Tokens, Expire(t) \/ CleanUp(t)
  PROVE  Links!LinksNext
<1>1. CASE Expire(t)
  <2>1. phase[t] = "active" /\ phase' = [phase EXCEPT ![t] = "expired"]
    BY <1>1, PhaseOf DEF Expire, RInv, IInv, TypeOK, phase, Phase
  <2>2. Links!Expire(t)
    BY <1>1, <2>1 DEF Expire, Links!Expire, phase
  <2> QED
    BY <2>2 DEF Links!LinksNext
<1>2. CASE CleanUp(t)
  <2>1. phase[t] \in {"expired", "spent"}
        /\ phase' = [phase EXCEPT ![t] = "spent"]
    BY <1>2, PhaseOf DEF CleanUp, RInv, IInv, TypeOK, phase, Phase
  <2>2. Links!Forget(t)
    BY <1>2, <2>1 DEF CleanUp, Links!Forget, phase
  <2> QED
    BY <2>2 DEF Links!LinksNext
<1> QED
  BY <1>1, <1>2

LEMMA InitMaps == Init => Links!LinksInit
<1> SUFFICES ASSUME Init PROVE Links!LinksInit
  OBVIOUS
<1>1. phase = [t \in Tokens |-> IF owner[t] = None THEN "new" ELSE "active"]
  BY DEF Init, phase, Phase
<1>2. Links!Distinct(conn, Users)
  BY DEF Init, IsInjective, Links!Distinct
<1> QED
  BY <1>1, <1>2 DEF Init, Links!LinksInit, phase

LEMMA StepMaps ==
  ASSUME RInv, [Next]_vars
  PROVE  [Links!LinksNext]_(Links!linkVars)
<1>1. CASE UNCHANGED tables
  <2>1. UNCHANGED <<owner, phase, conn>>
    BY <1>1 DEF tables, phase, Phase
  <2> QED
    BY <2>1 DEF Links!linkVars, phase
<1>2. CASE UNCHANGED vars
  BY <1>1, <1>2 DEF vars
<1>3. CASE Next
  BY <1>1, <1>3, TablesChange, InsertCreates, CommitLinks, CommitDisconnects,
     TimePasses
<1> QED
  BY <1>2, <1>3

\* The requests of all threads change the tables one at a time and for a reason:
\* create_link_token, validate_and_consume_token and disconnect, whose
\* transactions interleave statement by statement, implement the object of
\* AccountLinks, which the bot is modelled with.
THEOREM LinkingImplementsAccountLinks == Spec => LinksAccounts
  BY RInvHolds, InitMaps, StepMaps, PTL
  DEF Spec, LinksAccounts, Links!LinksSpec

\* A token is spent by the commit that makes its connection, or by a disconnect
\* of its own user, whatever fails or is rolled back.
THEOREM TokensSpentForAReason == Spec => SpentForAReason
<1>1. ASSUME RInv, [Next]_vars
      PROVE  [\A t \in Tokens :
                Unused(t) /\ state'[t] = "used" =>
                  \/ links'[t] = links[t] + 1
                  \/ \E j \in Jobs :
                       pc[j] = "mark" /\ job[j].user = owner[t]]_vars
  <2> SUFFICES ASSUME Next, NEW t \in Tokens, Unused(t), state'[t] = "used"
               PROVE  \/ links'[t] = links[t] + 1
                      \/ \E j \in Jobs :
                           pc[j] = "mark" /\ job[j].user = owner[t]
    BY <1>1
  <2>1. CASE UNCHANGED tables
    BY <2>1 DEF tables, Unused
  <2>2. ASSUME NEW j \in Jobs, NEW s \in Tokens, CreateInsert(j, s)
        PROVE  FALSE
    BY <1>1, <2>2 DEF CreateInsert, RInv, IInv, TypeOK, Unused
  <2>3. ASSUME NEW j \in Jobs, ValidateCommit(j)
        PROVE  links'[t] = links[t] + 1
    <3>1. t = job[j].token
      BY <1>1, <2>3 DEF ValidateCommit, RInv, IInv, TypeOK, Unused
    <3> QED
      BY <1>1, <2>3, <3>1 DEF ValidateCommit, RInv, IInv, TypeOK
  <2>4. ASSUME NEW j \in Jobs, DisconnectCommit(j)
        PROVE  pc[j] = "mark" /\ job[j].user = owner[t]
    <3>1. t \in locks[j] /\ pc[j] = "mark"
      BY <2>4 DEF DisconnectCommit, Unused
    <3> QED
      BY <1>1, <3>1 DEF RInv, OwnMarks, Disconnecting
  <2>5. ASSUME NEW s \in Tokens, Expire(s) \/ CleanUp(s)
        PROVE  FALSE
    BY <1>1, <2>5 DEF Expire, CleanUp, RInv, IInv, TypeOK, Unused
  <2> QED
    BY <2>1, <2>2, <2>3, <2>4, <2>5, TablesChange
<1> QED
  BY RInvHolds, <1>1, PTL DEF Spec, SpentForAReason
=============================================================================
