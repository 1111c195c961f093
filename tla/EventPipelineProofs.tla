------------------------- MODULE EventPipelineProofs -------------------------
(***************************************************************************)
(* Theorems about EventPipeline, for any requests, fingerprints, users,    *)
(* windows, limit of the queue, and number of stops, faults and changes.   *)
(***************************************************************************)
EXTENDS EventPipeline, FiniteSetTheorems, TLAPS

Stages == {"connections", "users", "failed"}
HandlerStates == {"none", "enqueuing", "stored", "alerting", "done", "dropped",
                  "resolved", "cut"}

-----------------------------------------------------------------------------
(* The queue and the senders *)

\* A step of the queue on one event.
QueueStep(e) ==
  \/ Queue!Accept(e) \/ Queue!Take(e) \/ Queue!Run(e) \/ Queue!Requeue(e)
  \/ Queue!Settle(e) \/ Queue!Lose(e)

LEMMA QueueEffect ==
  ASSUME Queue!DeliveryTypeOK, NEW e \in Events, QueueStep(e)
  PROVE  /\ Queue!DeliveryTypeOK'
         /\ \A d \in Events : phase[d] # "new" => phase'[d] # "new"
         /\ \A d \in Events \ {e} : phase'[d] = phase[d]
         /\ phase'[e] # "new" \/ phase'[e] = phase[e]
<1> USE DEF Queue!DeliveryTypeOK, Queue!Phases, Queue!Goes
<1>1. CASE Queue!Run(e)
  <2>1. runs[e] + 1 \in 0..Limit
    BY <1>1, PipelineAssumption DEF Queue!Run
  <2> QED
    BY <1>1, <2>1 DEF Queue!Run
<1>2. CASE Queue!Accept(e) \/ Queue!Take(e)
  BY <1>2 DEF Queue!Accept, Queue!Take
<1>3. CASE Queue!Requeue(e) \/ Queue!Settle(e) \/ Queue!Lose(e)
  BY <1>3 DEF Queue!Requeue, Queue!Settle, Queue!Lose
<1> QED
  BY <1>1, <1>2, <1>3 DEF QueueStep

LEMMA DropHandsEffect ==
  ASSUME Queue!DeliveryTypeOK, DropHands
  PROVE  /\ Queue!DeliveryTypeOK'
         /\ \A d \in Events : phase[d] # "new" => phase'[d] # "new"
         /\ \A d \in Events : phase[d] = "new" => phase'[d] = "new"
         /\ \A d \in Events : phase'[d] = "settled" => phase[d] = "settled"
         /\ UNCHANGED runs
<1>1. CASE \E e \in Events : phase[e] = "working"
  <2>1. PICK e \in Events : phase[e] = "working" /\ Queue!Lose(e)
    BY <1>1 DEF DropHands
  <2> QED
    BY <2>1
    DEF Queue!Lose, Queue!Goes, Queue!DeliveryTypeOK, Queue!Phases
<1>2. CASE ~ \E e \in Events : phase[e] = "working"
  BY <1>2 DEF DropHands, queue, Queue!DeliveryTypeOK
<1> QED
  BY <1>1, <1>2

LEMMA BegunIsRun ==
  ASSUME NEW e \in Events
  PROVE  Begun(e) \in Run
  BY DEF Begun, Run

\* A sender starts, goes on or ends.
LEMMA RunStarts ==
  ASSUME run \in [Senders -> Run \union {NoRun}], NEW s \in Senders,
         NEW r \in Run \union {NoRun}, run' = [run EXCEPT ![s] = r]
  PROVE  run' \in [Senders -> Run \union {NoRun}]
  OBVIOUS

LEMMA RunGoesOn ==
  ASSUME run \in [Senders -> Run \union {NoRun}], NEW s \in Senders, Busy(s)
  PROVE  /\ run[s] \in Run
         /\ run[s].event \in Events
         /\ run[s].todo \subseteq Users
         /\ run[s].at \in Users \union {NoUser}
         /\ run[s].hit \subseteq Users
         /\ run[s].stage \in Stages
  BY DEF Busy, Run, Stages

LEMMA FaultTypes ==
  ASSUME TypeOK, NEW e \in Events, Fault(e)
  PROVE  faults' \in Nat /\ upset' \in SUBSET Events
  BY DEF TypeOK, Fault

\* What the actions leave alone.
LEMMA InitTypes == Init => TypeOK
<1> SUFFICES ASSUME Init PROVE TypeOK
  OBVIOUS
<1>1. Queue!DeliveryTypeOK
  BY PipelineAssumption
  DEF Init, Queue!DeliveryInit, Queue!DeliveryTypeOK, Queue!Phases
<1>2. recent \in [Kinds -> [Prints -> Nat]]
  BY DEF Init, NoMarks
<1>3. got \in [Events -> [Users -> Nat]]
  BY DEF Init
<1> QED
  BY <1>1, <1>2, <1>3 DEF Init, TypeOK

LEMMA ServiceTypes ==
  ASSUME TypeOK,
         \/ Listen \/ ConnectQueue \/ StopWorker \/ Disconnect \/ Exit
         \/ Crash \/ Tick
  PROVE  TypeOK'
<1> USE DEF TypeOK, process, queue, people, requests, messages
<1>1. CASE Listen \/ ConnectQueue \/ Disconnect \/ Tick
  BY <1>1 DEF Listen, ConnectQueue, Disconnect, Tick, Queue!DeliveryTypeOK
<1>2. CASE StopWorker
  <2>1. Queue!DeliveryTypeOK'
    BY <1>2, DropHandsEffect DEF StopWorker
  <2>2. run' \in [Senders -> Run \union {NoRun}]
    BY <1>2 DEF StopWorker
  <2> QED
    BY <1>2, <2>1, <2>2 DEF StopWorker
<1>3. CASE Exit \/ Crash
  <2>1. EndProcess /\ stops' \in Nat
    BY <1>3 DEF Exit, Crash
  <2>2. Queue!DeliveryTypeOK'
    BY <2>1, DropHandsEffect DEF EndProcess
  <2>3. recent' \in [Kinds -> [Prints -> Nat]]
    BY <2>1 DEF EndProcess, NoMarks
  <2>4. handler' \in [Events -> HandlerStates]
    BY <2>1 DEF EndProcess, HandlerStates
  <2>5. run' \in [Senders -> Run \union {NoRun}]
    BY <2>1 DEF EndProcess
  <2> QED
    BY <2>1, <2>2, <2>3, <2>4, <2>5 DEF EndProcess, HandlerStates
<1> QED
  BY <1>1, <1>2, <1>3

\* The handler lets request e through, or drops it.
Posts(e) ==
  \/ \E k \in Kinds : PostDuplicate(e, k)
  \/ PostDirect(e) \/ PostQueued(e) \/ PostAlert(e) \/ PostResolved(e)

LEMMA ArrivesEffect ==
  ASSUME TypeOK, NEW e \in Events, NEW k \in Kinds, Arrives(e, k)
  PROVE  /\ handler[e] = "none" /\ svc # "down"
         /\ stamp' \in [Events -> Nat] /\ life' \in [Events -> Nat]
         /\ via' \in [Events -> Kinds \union {"none"}]
         /\ stamp'[e] = now /\ life'[e] = starts /\ via'[e] = k
         /\ \A d \in Events \ {e} :
              stamp'[d] = stamp[d] /\ life'[d] = life[d] /\ via'[d] = via[d]
  BY DEF TypeOK, Arrives

LEMMA MarkEffect ==
  ASSUME TypeOK, NEW e \in Events, NEW k \in Kinds, Mark(e, k)
  PROVE  /\ recent' \in [Kinds -> [Prints -> Nat]]
         /\ recent'[k][PrintOf[e]] = now
         /\ \A j \in Kinds, f \in Prints :
              recent'[j][f] = IF j = k /\ f = PrintOf[e] THEN now
                              ELSE recent[j][f]
<1>1. PrintOf[e] \in Prints
  BY PipelineAssumption
<1> QED
  BY <1>1 DEF TypeOK, Mark

LEMMA SendDirectlyEffect ==
  ASSUME TypeOK, NEW e \in Events, SendDirectly(e)
  PROVE  /\ run' \in [Senders -> Run \union {NoRun}]
         /\ handler' \in [Events -> HandlerStates]
         /\ direct' \in SUBSET Events
  BY BegunIsRun DEF TypeOK, SendDirectly, Senders, HandlerStates

LEMMA PostTypes ==
  ASSUME TypeOK, NEW e \in Events, Posts(e)
  PROVE  TypeOK'
<1> USE DEF TypeOK, queue, people, messages, Queue!DeliveryTypeOK
<1>1. ASSUME NEW k \in Kinds, PostDuplicate(e, k) PROVE TypeOK'
  <2>1. handler' \in [Events -> HandlerStates]
    BY <1>1 DEF PostDuplicate, HandlerStates
  <2> QED
    BY <1>1, <2>1, ArrivesEffect DEF PostDuplicate, HandlerStates
<1>2. CASE PostDirect(e)
  BY <1>2, ArrivesEffect, MarkEffect, SendDirectlyEffect
  DEF PostDirect, Kinds, HandlerStates
<1>3. CASE PostQueued(e)
  <2>1. handler' \in [Events -> HandlerStates]
    BY <1>3 DEF PostQueued, HandlerStates
  <2> QED
    BY <1>3, <2>1, ArrivesEffect, MarkEffect
    DEF PostQueued, Kinds, HandlerStates
<1>4. CASE PostAlert(e)
  <2>1. handler' \in [Events -> HandlerStates]
        /\ run' \in [Senders -> Run \union {NoRun}]
    BY <1>4, BegunIsRun DEF PostAlert, HandlerStates, Senders
  <2> QED
    BY <1>4, <2>1, ArrivesEffect, MarkEffect
    DEF PostAlert, Kinds, HandlerStates
<1>5. CASE PostResolved(e)
  <2>1. handler' \in [Events -> HandlerStates]
    BY <1>5 DEF PostResolved, HandlerStates
  <2> QED
    BY <1>5, <2>1, ArrivesEffect DEF PostResolved, Kinds, HandlerStates
<1> QED
  BY <1>1, <1>2, <1>3, <1>4, <1>5 DEF Posts

LEMMA HandlerTypes ==
  ASSUME TypeOK, NEW e \in Events, Handle(e) \/ EnqueueFails(e)
  PROVE  TypeOK'
<1> USE DEF TypeOK, queue, people, requests, messages
<1>1. CASE EnqueueStores(e)
  <2>1. Queue!DeliveryTypeOK'
    BY <1>1, QueueEffect DEF EnqueueStores, QueueStep
  <2> QED
    BY <1>1, <2>1 DEF EnqueueStores
<1>2. CASE EnqueueReturns(e)
  BY <1>2 DEF EnqueueReturns, Queue!DeliveryTypeOK
<1>3. CASE EnqueueFails(e)
  <2>1. faults' \in Nat /\ upset' \in SUBSET Events
    BY <1>3, FaultTypes DEF EnqueueFails, NoFault
  <2> QED
    BY <1>3, <2>1, SendDirectlyEffect
    DEF EnqueueFails, FallBack, HandlerStates, Queue!DeliveryTypeOK
<1> QED
  BY <1>1, <1>2, <1>3 DEF Handle

LEMMA WorkerTypes ==
  ASSUME TypeOK,
         WorkerQueue \/ \E e \in Events : QueueFaults(e)
  PROVE  TypeOK'
<1> USE DEF TypeOK, process, people, requests, messages
<1>1. ASSUME NEW e \in Events, WorkerTakes(e) PROVE TypeOK'
  <2>1. Queue!DeliveryTypeOK'
    BY <1>1, QueueEffect DEF WorkerTakes, QueueStep
  <2> QED
    BY <1>1, <2>1 DEF WorkerTakes
<1>2. ASSUME NEW e \in Events, WorkerCalls(e) PROVE TypeOK'
  <2>1. Queue!DeliveryTypeOK'
    BY <1>2, QueueEffect DEF WorkerCalls, QueueStep
  <2>2. run' \in [Senders -> Run \union {NoRun}]
    BY <1>2, BegunIsRun DEF WorkerCalls, Senders
  <2> QED
    BY <1>2, <2>1, <2>2 DEF WorkerCalls
<1>3. CASE WorkerFinishes
  <2>1. PICK e \in Events : QueueStep(e)
    BY <1>3, RunGoesOn
    DEF WorkerFinishes, QueueStep, Over, Between, Senders
  <2>2. Queue!DeliveryTypeOK'
    BY <2>1, QueueEffect
  <2>3. run' \in [Senders -> Run \union {NoRun}]
    BY <1>3 DEF WorkerFinishes
  <2> QED
    BY <1>3, <2>2, <2>3 DEF WorkerFinishes
<1>4. ASSUME NEW e \in Events, QueueFaults(e) PROVE TypeOK'
  <2>1. Queue!DeliveryTypeOK'
    BY <1>4, QueueEffect DEF QueueFaults, QueueStep
  <2>2. run' \in [Senders -> Run \union {NoRun}]
    BY <1>4 DEF QueueFaults
  <2>3. faults' \in Nat /\ upset' \in SUBSET Events
    BY <1>4, FaultTypes DEF QueueFaults
  <2> QED
    BY <1>4, <2>1, <2>2, <2>3 DEF QueueFaults
<1> QED
  BY <1>1, <1>2, <1>3, <1>4 DEF WorkerQueue

LEMMA ShownEffect ==
  ASSUME TypeOK, NEW s \in Senders, Sending(s), Shown(s)
  PROVE  /\ got' \in [Events -> [Users -> Nat]]
         /\ late' \in [Users -> Nat]
         /\ \A e \in Events, u \in Users :
              got'[e][u] = IF e = run[s].event /\ u = run[s].at
                           THEN got[e][u] + 1 ELSE got[e][u]
<1>1. run[s].event \in Events /\ run[s].at \in Users
  BY RunGoesOn DEF TypeOK, Sending
<1> QED
  BY <1>1 DEF TypeOK, Shown

LEMMA SenderTypes ==
  ASSUME TypeOK, NEW s \in Senders,
         \/ Sender(s) \/ SendFails(s)
         \/ \E u \in Users : ReadPrefsRaises(s, u)
  PROVE  TypeOK'
<1> USE DEF unsent, people, queue, requests, messages, NoFault
<1>1. CASE ReadConnections(s)
  <2>1. run[s] \in Run /\ run[s].event \in Events
    BY <1>1, RunGoesOn DEF ReadConnections, TypeOK
  <2>2. run' \in [Senders -> Run \union {NoRun}]
    <3>1. PICK r \in Run : run' = [run EXCEPT ![s] = r]
      <4>1. CASE run' = [run EXCEPT ![s].stage = "failed"]
        <5> DEFINE r == [run[s] EXCEPT !.stage = "failed"]
        <5>1. r \in Run /\ run' = [run EXCEPT ![s] = r]
          BY <2>1, <4>1 DEF Run
        <5> QED
          BY <5>1
      <4>2. CASE run' = [run EXCEPT ![s].stage = "users", ![s].todo = linked]
        <5> DEFINE r == [run[s] EXCEPT !.stage = "users", !.todo = linked]
        <5>1. r \in Run
          BY <2>1 DEF Run, TypeOK
        <5>2. run' = [run EXCEPT ![s] = r]
          BY <2>1, <4>2 DEF TypeOK
        <5> QED
          BY <5>1, <5>2
      <4> QED
        BY <1>1, <4>1, <4>2 DEF ReadConnections
    <3> QED
      BY <3>1 DEF TypeOK
  <2>3. faults' \in Nat /\ upset' \in SUBSET Events
    BY <1>1, <2>1, FaultTypes DEF ReadConnections, TypeOK
  <2> QED
    BY <1>1, <2>2, <2>3 DEF ReadConnections, TypeOK, Queue!DeliveryTypeOK
<1>2. ASSUME NEW u \in Users, ReadPrefs(s, u) PROVE TypeOK'
  <2>1. run[s] \in Run
    BY <1>2, RunGoesOn DEF ReadPrefs, Between, TypeOK
  <2>2. run' \in [Senders -> Run \union {NoRun}]
    <3>1. run'[s] \in Run
      BY <1>2, <2>1 DEF ReadPrefs, TypeOK, Run
    <3>2. run' = [run EXCEPT ![s] = run'[s]]
      BY <1>2 DEF ReadPrefs, TypeOK
    <3> QED
      BY <3>1, <3>2 DEF TypeOK
  <2> QED
    BY <1>2, <2>2 DEF ReadPrefs, TypeOK, Queue!DeliveryTypeOK
<1>3. ASSUME NEW u \in Users, ReadPrefsRaises(s, u) PROVE TypeOK'
  <2>1. run[s] \in Run /\ run[s].event \in Events
    BY <1>3, RunGoesOn DEF ReadPrefsRaises, Between, TypeOK
  <2>2. run' \in [Senders -> Run \union {NoRun}]
    <3>1. run'[s] \in Run
      BY <1>3, <2>1 DEF ReadPrefsRaises, TypeOK, Run
    <3>2. run' = [run EXCEPT ![s] = run'[s]]
      BY <1>3 DEF ReadPrefsRaises, TypeOK
    <3> QED
      BY <3>1, <3>2 DEF TypeOK
  <2>3. faults' \in Nat /\ upset' \in SUBSET Events
    BY <1>3, <2>1, FaultTypes DEF ReadPrefsRaises
  <2> QED
    BY <1>3, <2>2, <2>3 DEF ReadPrefsRaises, TypeOK, Queue!DeliveryTypeOK
<1>4. CASE Send(s)
  <2>1. run[s] \in Run /\ run[s].at \in Users
    BY <1>4, RunGoesOn DEF Send, Sending, TypeOK
  <2>2. run' \in [Senders -> Run \union {NoRun}]
    BY <1>4, <2>1 DEF Send, TypeOK, Run
  <2> QED
    BY <1>4, <2>2, ShownEffect DEF Send, TypeOK, Queue!DeliveryTypeOK
<1>5. CASE SendFails(s)
  <2>1. run[s] \in Run /\ run[s].event \in Events
    BY <1>5, RunGoesOn DEF SendFails, Sending, TypeOK
  <2>2. run' \in [Senders -> Run \union {NoRun}]
    BY <1>5, <2>1 DEF SendFails, TypeOK, Run
  <2>3. faults' \in Nat /\ upset' \in SUBSET Events
    BY <1>5, <2>1, FaultTypes DEF SendFails
  <2>4. got' \in [Events -> [Users -> Nat]] /\ late' \in [Users -> Nat]
    BY <1>5, ShownEffect DEF SendFails, TypeOK
  <2> QED
    BY <1>5, <2>2, <2>3, <2>4 DEF SendFails, TypeOK, Queue!DeliveryTypeOK
<1> QED
  BY <1>1, <1>2, <1>3, <1>4, <1>5 DEF Sender

LEMMA TaskEndTypes ==
  ASSUME TypeOK, NEW e \in Events, TaskEnds(e)
  PROVE  TypeOK'
<1>1. handler' \in [Events -> HandlerStates]
  BY DEF TypeOK, TaskEnds, HandlerStates
<1>2. run' \in [Senders -> Run \union {NoRun}]
  BY DEF TypeOK, TaskEnds
<1> QED
  BY <1>1, <1>2
  DEF TypeOK, TaskEnds, HandlerStates, queue, people, requests, messages,
      NoFault, Queue!DeliveryTypeOK

LEMMA SendersAreFinite ==
  ASSUME NEW S \in SUBSET Senders
  PROVE  IsFiniteSet(S) /\ Cardinality(S) \in Nat
<1>1. IsFiniteSet(Senders)
  BY PipelineAssumption, FS_AddElement DEF Senders
<1> QED
  BY <1>1, FS_Subset, FS_CardinalityType

LEMMA ChangeEffect ==
  ASSUME TypeOK, NEW u \in Users, NEW m \in SUBSET Users, Change(u, m)
  PROVE  /\ quota' \in [Users -> Nat] /\ quota'[u] = UnderWay(u, m)
         /\ late' \in [Users -> Nat] /\ late'[u] = 0
         /\ changes' \in [Users -> Nat]
         /\ \A v \in Users \ {u} : quota'[v] = quota[v] /\ late'[v] = late[v]
<1>1. UnderWay(u, m) \in Nat
  BY SendersAreFinite DEF UnderWay
<1>2. quota' = [quota EXCEPT ![u] = UnderWay(u, m)]
  BY DEF Change
<1> HIDE DEF UnderWay
<1>3. quota' \in [Users -> Nat] /\ quota'[u] = UnderWay(u, m)
      /\ \A v \in Users \ {u} : quota'[v] = quota[v]
  BY <1>1, <1>2 DEF TypeOK
<1> QED
  BY <1>3 DEF TypeOK, Change

LEMMA UserTypes ==
  ASSUME TypeOK, NEW u \in Users, SetPref(u) \/ Unlink(u)
  PROVE  TypeOK'
<1>1. PICK m \in SUBSET Users : Change(u, m)
  BY DEF SetPref, Unlink, TypeOK
<1>2. linked' \in SUBSET Users
  BY DEF SetPref, Unlink, TypeOK
<1> QED
  BY <1>1, <1>2, ChangeEffect
  DEF TypeOK, Change, process, queue, requests, Queue!DeliveryTypeOK

LEMMA TypeStep ==
  ASSUME TypeOK, [Next]_vars
  PROVE  TypeOK'
<1>1. CASE UNCHANGED vars
  BY <1>1
  DEF TypeOK, vars, process, queue, people, requests, messages,
      Queue!DeliveryTypeOK
<1>2. CASE Next
  BY <1>2, ServiceTypes, PostTypes, HandlerTypes, WorkerTypes, SenderTypes,
     TaskEndTypes, UserTypes DEF Next, Posts
<1> QED
  BY <1>1, <1>2

-----------------------------------------------------------------------------
(* Which requests are let through *)

\* A request that was looked at has its stamp, its process and its kind.
Stamped ==
  /\ now >= 1
  /\ \A e \in Events : handler[e] # "none" =>
       stamp[e] \in 1..now /\ life[e] =< starts /\ via[e] \in Kinds

\* The marks of this process are no older than the requests it let through, and
\* each of them is the stamp of one of these.
Marked ==
  /\ svc = "down" => recent = NoMarks
  /\ svc # "down" => \A e \in Events : Admitted(e) /\ life[e] = starts =>
       recent[via[e]][PrintOf[e]] >= stamp[e]
  /\ \A k \in Kinds, f \in Prints : recent[k][f] > 0 =>
       \E e \in Events : /\ Admitted(e) /\ PrintOf[e] = f /\ via[e] = k
                         /\ life[e] = starts /\ stamp[e] = recent[k][f]

\* An event was taken over by somebody, who may have been cut off since.
Carried(e) ==
  \/ handler[e] \in {"enqueuing", "cut"}
  \/ phase[e] # "new"
  \/ e \in direct

\* What is let through is carried; and it takes both ways only if the handler
\* did not learn that Redis had it.
Entered ==
  \A e \in Events :
    /\ Admitted(e) => Carried(e)
    /\ handler[e] \in {"none", "enqueuing"} => phase[e] = "new"
    /\ handler[e] \in {"none", "enqueuing", "stored", "dropped", "resolved"} =>
         e \notin direct
    /\ e \in direct /\ phase[e] # "new" => e \in unsure

Admission == Stamped /\ Marked /\ Entered

\* The effect of a request's first look.
Lets(e, k) ==
  /\ ~ Duplicate(e, k)
  /\ recent'[k][PrintOf[e]] = now
  /\ \A j \in Kinds, f \in Prints :
       ~ (j = k /\ f = PrintOf[e]) => recent'[j][f] = recent[j][f]
  /\ \/ handler'[e] = "enqueuing" /\ direct' = direct
     \/ handler'[e] \in {"done", "alerting"} /\ direct' = direct \union {e}

Drops(e, k) ==
  /\ UNCHANGED <<recent, direct>>
  /\ \/ handler'[e] = "dropped" /\ Duplicate(e, k)
     \/ handler'[e] = "resolved"

LEMMA PostEffect ==
  ASSUME TypeOK, NEW e \in Events, Posts(e)
  PROVE  /\ handler[e] = "none" /\ svc # "down"
         /\ UNCHANGED <<svc, starts, now, phase, unsure>>
         /\ \A d \in Events \ {e} :
              /\ handler'[d] = handler[d] /\ stamp'[d] = stamp[d]
              /\ life'[d] = life[d] /\ via'[d] = via[d]
         /\ \E k \in Kinds :
              /\ stamp'[e] = now /\ life'[e] = starts /\ via'[e] = k
              /\ Lets(e, k) \/ Drops(e, k)
<1>1. ASSUME NEW k \in Kinds, PostDuplicate(e, k)
      PROVE  /\ UNCHANGED <<svc, starts, now, phase, unsure>> /\ Arrives(e, k)
             /\ \A d \in Events \ {e} : handler'[d] = handler[d]
             /\ Drops(e, k)
  BY <1>1 DEF PostDuplicate, Drops, queue, TypeOK
<1>2. ASSUME PostResolved(e)
      PROVE  /\ UNCHANGED <<svc, starts, now, phase, unsure>>
             /\ Arrives(e, "alert")
             /\ \A d \in Events \ {e} : handler'[d] = handler[d]
             /\ Drops(e, "alert")
  BY <1>2 DEF PostResolved, Drops, queue, TypeOK
<1>3. ASSUME PostDirect(e)
      PROVE  /\ UNCHANGED <<svc, starts, now, phase, unsure>>
             /\ Arrives(e, "event")
             /\ \A d \in Events \ {e} : handler'[d] = handler[d]
             /\ Lets(e, "event")
  BY <1>3, MarkEffect
  DEF PostDirect, SendDirectly, Lets, Kinds, queue, TypeOK
<1>4. ASSUME PostQueued(e)
      PROVE  /\ UNCHANGED <<svc, starts, now, phase, unsure>>
             /\ Arrives(e, "event")
             /\ \A d \in Events \ {e} : handler'[d] = handler[d]
             /\ Lets(e, "event")
  BY <1>4, MarkEffect DEF PostQueued, Lets, Kinds, queue, TypeOK
<1>5. ASSUME PostAlert(e)
      PROVE  /\ UNCHANGED <<svc, starts, now, phase, unsure>>
             /\ Arrives(e, "alert")
             /\ \A d \in Events \ {e} : handler'[d] = handler[d]
             /\ Lets(e, "alert")
  BY <1>5, MarkEffect DEF PostAlert, Lets, Kinds, queue, TypeOK
<1>6. {"event", "alert"} = Kinds
  BY DEF Kinds
<1> HIDE DEF Lets, Drops
<1> QED
  BY <1>1, <1>2, <1>3, <1>4, <1>5, <1>6, ArrivesEffect DEF Posts

\* After that, a request that was let through stays so.
LEMMA LaterEffect ==
  ASSUME TypeOK, Next, \A e \in Events : ~ Posts(e)
  PROVE  /\ UNCHANGED <<stamp, life, via>>
         /\ \A e \in Events :
              \/ handler'[e] = handler[e]
              \/ /\ handler[e] \in {"enqueuing", "stored", "alerting"}
                 /\ handler'[e] \in {"stored", "done", "cut"}
              \/ handler[e] = "done" /\ handler'[e] = "cut"
<1> USE DEF requests, process
<1>1. CASE Listen \/ ConnectQueue \/ Disconnect \/ StopWorker \/ Tick
  BY <1>1 DEF Listen, ConnectQueue, Disconnect, StopWorker, Tick
<1>2. CASE Exit \/ Crash
  <2>1. EndProcess
    BY <1>2 DEF Exit, Crash
  <2> QED
    BY <2>1 DEF EndProcess
<1>3. ASSUME NEW e \in Events,
             EnqueueStores(e) \/ EnqueueReturns(e) \/ EnqueueFails(e)
      PROVE  /\ UNCHANGED <<stamp, life, via>>
             /\ handler[e] \in {"enqueuing", "stored"}
             /\ handler'[e] \in {"stored", "done"}
             /\ \A d \in Events \ {e} : handler'[d] = handler[d]
  BY <1>3
  DEF EnqueueStores, EnqueueReturns, EnqueueFails, FallBack, SendDirectly,
      TypeOK
<1>4. ASSUME NEW e \in Events, TaskEnds(e)
      PROVE  /\ UNCHANGED <<stamp, life, via>>
             /\ \/ handler'[e] = handler[e]
                \/ handler[e] = "alerting" /\ handler'[e] = "done"
             /\ \A d \in Events \ {e} : handler'[d] = handler[d]
  BY <1>4 DEF TaskEnds, TypeOK
<1>5. CASE WorkerQueue \/ \E e \in Events : QueueFaults(e)
  BY <1>5 DEF WorkerQueue, WorkerTakes, WorkerCalls, WorkerFinishes, QueueFaults
<1>6. ASSUME NEW s \in Senders,
             \/ Sender(s) \/ SendFails(s)
             \/ \E u \in Users : ReadPrefsRaises(s, u)
      PROVE  UNCHANGED <<stamp, life, via, handler>>
  BY <1>6
  DEF Sender, SendFails, ReadConnections, ReadPrefs, ReadPrefsRaises, Send,
      unsent
<1>7. ASSUME NEW u \in Users, SetPref(u) \/ Unlink(u)
      PROVE  UNCHANGED <<stamp, life, via, handler>>
  BY <1>7 DEF SetPref, Unlink, Change
<1> QED
  BY <1>1, <1>2, <1>3, <1>4, <1>5, <1>6, <1>7 DEF Next, Handle, Posts

\* Who changes the marks, the process and the clock.
LEMMA MarksChange ==
  ASSUME TypeOK, Next, \A e \in Events : ~ Posts(e)
  PROVE  \/ /\ UNCHANGED <<recent, starts>> /\ now' \in {now, now + 1}
            /\ svc' = "down" <=> svc = "down"
         \/ UNCHANGED <<recent, now>> /\ svc = "down" /\ starts' = starts + 1
         \/ UNCHANGED <<starts, now>> /\ svc' = "down" /\ recent' = NoMarks
<1> USE DEF process
<1>1. CASE Listen \/ ConnectQueue \/ Disconnect \/ StopWorker \/ Tick
  BY <1>1 DEF Listen, ConnectQueue, Disconnect, StopWorker, Tick
<1>2. CASE Exit \/ Crash
  <2>1. EndProcess
    BY <1>2 DEF Exit, Crash
  <2> QED
    BY <2>1 DEF EndProcess
<1>3. ASSUME NEW e \in Events,
             \/ EnqueueStores(e) \/ EnqueueReturns(e) \/ EnqueueFails(e)
             \/ TaskEnds(e)
      PROVE  UNCHANGED <<recent, starts, now, svc>>
  BY <1>3 DEF EnqueueStores, EnqueueReturns, EnqueueFails, TaskEnds
<1>4. CASE WorkerQueue \/ \E e \in Events : QueueFaults(e)
  BY <1>4 DEF WorkerQueue, WorkerTakes, WorkerCalls, WorkerFinishes, QueueFaults
<1>5. ASSUME NEW s \in Senders,
             \/ Sender(s) \/ SendFails(s)
             \/ \E u \in Users : ReadPrefsRaises(s, u)
      PROVE  UNCHANGED <<recent, starts, now, svc>>
  BY <1>5
  DEF Sender, SendFails, ReadConnections, ReadPrefs, ReadPrefsRaises, Send,
      unsent
<1>6. ASSUME NEW u \in Users, SetPref(u) \/ Unlink(u)
      PROVE  UNCHANGED <<recent, starts, now, svc>>
  BY <1>6 DEF SetPref, Unlink, Change
<1> QED
  BY <1>1, <1>2, <1>3, <1>4, <1>5, <1>6 DEF Next, Handle, Posts

\* What the queue, the direct tasks and the unanswered calls become meanwhile.
LEMMA CarriesChange ==
  ASSUME TypeOK, Next, \A e \in Events : ~ Posts(e)
  PROVE  /\ \A e \in Events :
              \/ phase'[e] = "new" <=> phase[e] = "new"
              \/ handler[e] = "enqueuing" /\ handler'[e] = "stored"
                 /\ phase'[e] # "new" /\ direct' = direct
         /\ \A e \in Events : handler[e] = "enqueuing" =>
              \/ handler'[e] \in {"enqueuing", "cut"}
              \/ handler'[e] = "stored" /\ phase'[e] # "new"
              \/ handler'[e] = "done" /\ e \in direct'
         /\ \A e \in Events :
              /\ handler'[e] = "enqueuing" => handler[e] = "enqueuing"
              /\ handler'[e] = "stored" => handler[e] \in {"enqueuing", "stored"}
         /\ \/ UNCHANGED <<direct, unsure>>
            \/ \E e \in Events : /\ handler'[e] = "done"
                                 /\ direct' = direct \union {e}
                                 /\ unsure' = unsure \union {e}
<1> USE DEF process, requests
<1>1. CASE Listen \/ ConnectQueue \/ Disconnect \/ Tick
  BY <1>1 DEF Listen, ConnectQueue, Disconnect, Tick, queue
<1>2. CASE StopWorker
  BY <1>2, DropHandsEffect DEF StopWorker, TypeOK
<1>3. CASE Exit \/ Crash
  <2>1. EndProcess
    BY <1>3 DEF Exit, Crash
  <2> QED
    BY <2>1, DropHandsEffect DEF EndProcess, TypeOK
<1>4. ASSUME NEW e \in Events, EnqueueStores(e)
      PROVE  /\ UNCHANGED <<direct, unsure>>
             /\ handler[e] = "enqueuing" /\ handler'[e] = "stored"
             /\ phase'[e] # "new"
             /\ \A d \in Events \ {e} :
                  handler'[d] = handler[d] /\ phase'[d] = phase[d]
  BY <1>4
  DEF EnqueueStores, TypeOK, Queue!Accept, Queue!Goes, Queue!DeliveryTypeOK
<1>5. ASSUME NEW e \in Events, EnqueueReturns(e) \/ TaskEnds(e)
      PROVE  /\ UNCHANGED <<direct, unsure, phase>>
             /\ \A d \in Events : \/ handler'[d] = handler[d]
                                  \/ /\ handler[d] \in {"stored", "alerting"}
                                     /\ handler'[d] = "done"
  BY <1>5 DEF EnqueueReturns, TaskEnds, TypeOK, queue
<1>6. ASSUME NEW e \in Events, EnqueueFails(e)
      PROVE  /\ direct' = direct \union {e} /\ unsure' = unsure \union {e}
             /\ UNCHANGED phase /\ handler'[e] = "done"
             /\ \A d \in Events \ {e} : handler'[d] = handler[d]
  BY <1>6 DEF EnqueueFails, FallBack, SendDirectly, TypeOK, queue
<1>7. CASE WorkerQueue \/ \E e \in Events : QueueFaults(e)
  <2>1. UNCHANGED <<direct, unsure, handler>>
    BY <1>7
    DEF WorkerQueue, WorkerTakes, WorkerCalls, WorkerFinishes, QueueFaults
  <2>2. PICK e \in Events :
          \/ Queue!Take(e) \/ Queue!Run(e) \/ Queue!Settle(e)
          \/ Queue!Requeue(e)
          \/ Queue!Lose(e) /\ phase[e] # "new"
    <3>1. CASE WorkerFinishes
      <4>1. PICK e \in Events : Queue!Settle(e) \/ Queue!Requeue(e)
        BY <3>1, RunGoesOn DEF WorkerFinishes, Over, Between, Senders, TypeOK
      <4> QED
        BY <4>1
    <3>2. CASE \E e \in Events : WorkerTakes(e) \/ WorkerCalls(e)
      BY <3>2 DEF WorkerTakes, WorkerCalls
    <3>3. CASE \E e \in Events : QueueFaults(e)
      <4>1. PICK e \in Events : QueueFaults(e)
        BY <3>3
      <4>2. phase[e] # "new"
        BY <4>1 DEF QueueFaults
      <4> QED
        BY <4>1, <4>2 DEF QueueFaults
    <3> QED
      BY <1>7, <3>1, <3>2, <3>3 DEF WorkerQueue
  <2>3. \A d \in Events : phase'[d] = "new" <=> phase[d] = "new"
    BY <2>2
    DEF Queue!Take, Queue!Run, Queue!Settle, Queue!Requeue, Queue!Lose,
        Queue!Goes, TypeOK, Queue!DeliveryTypeOK
  <2> QED
    BY <2>1, <2>3
<1>8. ASSUME NEW s \in Senders,
             \/ Sender(s) \/ SendFails(s)
             \/ \E u \in Users : ReadPrefsRaises(s, u)
      PROVE  UNCHANGED <<direct, unsure, handler, phase>>
  BY <1>8
  DEF Sender, SendFails, ReadConnections, ReadPrefs, ReadPrefsRaises, Send,
      unsent, queue
<1>9. ASSUME NEW u \in Users, SetPref(u) \/ Unlink(u)
      PROVE  UNCHANGED <<direct, unsure, handler, phase>>
  BY <1>9 DEF SetPref, Unlink, Change, queue
<1> QED
  BY <1>1, <1>2, <1>3, <1>4, <1>5, <1>6, <1>7, <1>8, <1>9
  DEF Next, Handle, Posts

\* The handler's part of Entered does not need the rest.
LEMMA EnteredStep ==
  ASSUME TypeOK, Entered, Next
  PROVE  Entered'
<1> USE DEF Entered, Admitted, Carried
<1>1. ASSUME NEW e \in Events, Posts(e) PROVE Entered'
  <2>1. PICK k \in Kinds : Lets(e, k) \/ Drops(e, k)
    BY <1>1, PostEffect
  <2>2. /\ handler[e] = "none" /\ UNCHANGED <<phase, unsure>>
        /\ \A d \in Events \ {e} : handler'[d] = handler[d]
    BY <1>1, PostEffect
  <2>3. CASE handler'[e] = "enqueuing" /\ direct' = direct
    BY <2>2, <2>3
  <2>4. CASE /\ handler'[e] \in {"done", "alerting"}
             /\ direct' = direct \union {e}
    BY <2>2, <2>4
  <2>5. CASE handler'[e] \in {"dropped", "resolved"} /\ direct' = direct
    BY <2>2, <2>5
  <2> QED
    BY <2>1, <2>3, <2>4, <2>5 DEF Lets, Drops
<1>2. CASE \A e \in Events : ~ Posts(e)
  <2>1. \A e \in Events :
          \/ handler'[e] = handler[e]
          \/ /\ handler[e] \in {"enqueuing", "stored", "alerting"}
             /\ handler'[e] \in {"stored", "done", "cut"}
          \/ handler[e] = "done" /\ handler'[e] = "cut"
    BY <1>2, LaterEffect
  <2>2. \A e \in Events :
          \/ phase'[e] = "new" <=> phase[e] = "new"
          \/ handler[e] = "enqueuing" /\ handler'[e] = "stored"
             /\ phase'[e] # "new" /\ direct' = direct
    BY <1>2, CarriesChange
  <2>3. \A e \in Events : handler[e] = "enqueuing" =>
          \/ handler'[e] \in {"enqueuing", "cut"}
          \/ handler'[e] = "stored" /\ phase'[e] # "new"
          \/ handler'[e] = "done" /\ e \in direct'
    BY <1>2, CarriesChange
  <2>4. \/ UNCHANGED <<direct, unsure>>
        \/ \E e \in Events : /\ handler'[e] = "done"
                             /\ direct' = direct \union {e}
                             /\ unsure' = unsure \union {e}
    BY <1>2, CarriesChange
  <2>5. \A e \in Events :
          /\ handler'[e] = "enqueuing" => handler[e] = "enqueuing"
          /\ handler'[e] = "stored" => handler[e] \in {"enqueuing", "stored"}
    BY <1>2, CarriesChange
  <2>6. ASSUME NEW e \in Events
        PROVE  /\ Admitted(e)' => Carried(e)'
               /\ handler'[e] \in {"none", "enqueuing"} => phase'[e] = "new"
    BY <2>1, <2>2, <2>3, <2>4
  <2>7. ASSUME NEW e \in Events,
               handler'[e] \in {"none", "enqueuing", "stored", "dropped",
                                "resolved"}
        PROVE  e \notin direct'
    <3>1. e \notin direct
      BY <2>1, <2>5, <2>7
    <3> QED
      BY <2>4, <2>7, <3>1
  <2>8. ASSUME NEW e \in Events, e \in direct', phase'[e] # "new"
        PROVE  e \in unsure'
    <3>1. CASE e \in direct
      <4>1. phase[e] # "new"
        BY <2>2, <2>8, <3>1
      <4> QED
        BY <2>4, <3>1, <4>1
    <3>2. CASE e \notin direct
      BY <2>4, <2>8, <3>2
    <3> QED
      BY <3>1, <3>2
  <2> QED
    BY <2>6, <2>7, <2>8
<1> QED
  BY <1>1, <1>2

LEMMA WindowType ==
  ASSUME NEW k \in Kinds
  PROVE  WindowOf(k) \in Nat
  BY PipelineAssumption DEF WindowOf, Kinds

\* A request that another one's step does not concern.
LEMMA OthersStay ==
  ASSUME TypeOK, NEW e \in Events, Posts(e)
  PROVE  \A d \in Events \ {e} :
           /\ Admitted(d)' <=> Admitted(d)
           /\ stamp'[d] = stamp[d] /\ life'[d] = life[d] /\ via'[d] = via[d]
           /\ handler'[d] = handler[d]
  BY PostEffect DEF Admitted

LEMMA LaterStay ==
  ASSUME TypeOK, Next, \A e \in Events : ~ Posts(e)
  PROVE  /\ \A d \in Events : /\ Admitted(d)' <=> Admitted(d)
                              /\ handler'[d] = "none" <=> handler[d] = "none"
                              /\ handler'[d] = "dropped"
                                   <=> handler[d] = "dropped"
         /\ UNCHANGED <<stamp, life, via>>
  BY LaterEffect DEF Admitted

LEMMA StampedStep ==
  ASSUME TypeOK, Stamped, Next
  PROVE  Stamped'
<1> USE DEF Stamped
<1>1. ASSUME NEW e \in Events, Posts(e) PROVE Stamped'
  <2>1. UNCHANGED <<now, starts>>
        /\ stamp'[e] = now /\ life'[e] = starts /\ via'[e] \in Kinds
    BY <1>1, PostEffect
  <2> QED
    BY <1>1, <2>1, OthersStay DEF TypeOK
<1>2. CASE \A e \in Events : ~ Posts(e)
  <2>1. now' \in {now, now + 1} /\ starts' \in {starts, starts + 1}
    BY <1>2, MarksChange
  <2>2. now' >= now /\ starts' >= starts
    BY <2>1 DEF TypeOK
  <2>3. ASSUME NEW d \in Events, handler'[d] # "none"
        PROVE  /\ stamp'[d] \in 1..now' /\ life'[d] =< starts'
               /\ via'[d] \in Kinds
    <3>1. /\ stamp'[d] = stamp[d] /\ life'[d] = life[d] /\ via'[d] = via[d]
          /\ handler[d] # "none"
      BY <1>2, <2>3, LaterStay
    <3>2. /\ stamp[d] \in 1..now /\ life[d] =< starts /\ via[d] \in Kinds
      BY <3>1
    <3>3. now \in Nat /\ starts \in Nat /\ life[d] \in Nat
          /\ now' \in Nat /\ starts' \in Nat
      BY <2>1 DEF TypeOK
    <3> QED
      BY <2>2, <3>1, <3>2, <3>3
  <2> QED
    BY <2>1, <2>2, <2>3 DEF TypeOK
<1> QED
  BY <1>1, <1>2

LEMMA MarkedStep ==
  ASSUME TypeOK, Stamped, Marked, Next
  PROVE  Marked'
<1>1. ASSUME NEW e \in Events, Posts(e) PROVE Marked'
  <2>1. PICK k \in Kinds :
          /\ stamp'[e] = now /\ life'[e] = starts /\ via'[e] = k
          /\ Lets(e, k) \/ Drops(e, k)
    BY <1>1, PostEffect
  <2>2. handler[e] = "none" /\ svc # "down" /\ UNCHANGED <<svc, starts, now>>
    BY <1>1, PostEffect
  <2>3. ~ Admitted(e)
    BY <2>2 DEF Admitted
  <2>4. CASE Lets(e, k)
    <3>1. /\ recent'[k][PrintOf[e]] = now
          /\ \A j \in Kinds, f \in Prints :
               ~ (j = k /\ f = PrintOf[e]) => recent'[j][f] = recent[j][f]
          /\ Admitted(e)'
      BY <2>4 DEF Lets, Admitted
    <3>2. ASSUME NEW d \in Events, Admitted(d)', life'[d] = starts'
          PROVE  recent'[via'[d]][PrintOf[d]] >= stamp'[d]
      <4>1. CASE d = e
        BY <2>1, <3>1, <4>1 DEF TypeOK
      <4>2. CASE d # e
        <5>1. /\ Admitted(d) /\ life[d] = starts /\ via'[d] = via[d]
              /\ stamp'[d] = stamp[d]
          BY <1>1, <2>2, <3>2, <4>2, OthersStay
        <5>2. recent[via[d]][PrintOf[d]] >= stamp[d] /\ via[d] \in Kinds
              /\ stamp[d] =< now /\ PrintOf[d] \in Prints
          BY <2>2, <5>1, PipelineAssumption
          DEF Marked, Stamped, Admitted, TypeOK
        <5> QED
          BY <3>1, <5>1, <5>2 DEF TypeOK
      <4> QED
        BY <4>1, <4>2
    <3>3. ASSUME NEW j \in Kinds, NEW f \in Prints, recent'[j][f] > 0
          PROVE  \E d \in Events :
                   /\ Admitted(d)' /\ PrintOf[d] = f /\ via'[d] = j
                   /\ life'[d] = starts' /\ stamp'[d] = recent'[j][f]
      <4>1. CASE j = k /\ f = PrintOf[e]
        BY <2>1, <2>2, <3>1, <4>1
      <4>2. CASE ~ (j = k /\ f = PrintOf[e])
        <5>1. PICK d \in Events :
                /\ Admitted(d) /\ PrintOf[d] = f /\ via[d] = j
                /\ life[d] = starts /\ stamp[d] = recent[j][f]
          BY <3>1, <3>3, <4>2 DEF Marked
        <5> QED
          BY <1>1, <2>2, <2>3, <3>1, <4>2, <5>1, OthersStay
      <4> QED
        BY <4>1, <4>2
    <3> QED
      BY <2>2, <3>2, <3>3 DEF Marked
  <2>5. CASE Drops(e, k)
    <3>1. UNCHANGED recent /\ ~ Admitted(e)'
      BY <2>5 DEF Drops, Admitted
    <3>2. ASSUME NEW d \in Events, Admitted(d)', life'[d] = starts'
          PROVE  recent'[via'[d]][PrintOf[d]] >= stamp'[d]
      <4>1. /\ Admitted(d) /\ life[d] = starts /\ via'[d] = via[d]
            /\ stamp'[d] = stamp[d]
        BY <1>1, <2>2, <3>1, <3>2, OthersStay
      <4> QED
        BY <2>2, <3>1, <4>1 DEF Marked
    <3>3. ASSUME NEW j \in Kinds, NEW f \in Prints, recent'[j][f] > 0
          PROVE  \E d \in Events :
                   /\ Admitted(d)' /\ PrintOf[d] = f /\ via'[d] = j
                   /\ life'[d] = starts' /\ stamp'[d] = recent'[j][f]
      <4>1. PICK d \in Events :
              /\ Admitted(d) /\ PrintOf[d] = f /\ via[d] = j
              /\ life[d] = starts /\ stamp[d] = recent[j][f]
        BY <3>1, <3>3 DEF Marked
      <4> QED
        BY <1>1, <2>2, <2>3, <3>1, <4>1, OthersStay
    <3> QED
      BY <2>2, <3>2, <3>3 DEF Marked
  <2> QED
    BY <2>1, <2>4, <2>5
<1>2. CASE \A e \in Events : ~ Posts(e)
  <2>1. /\ \A d \in Events : Admitted(d)' <=> Admitted(d)
        /\ UNCHANGED <<stamp, life, via>>
    BY <1>2, LaterStay
  <2>2. CASE /\ UNCHANGED <<recent, starts>>
             /\ svc' = "down" <=> svc = "down"
    BY <2>1, <2>2 DEF Marked
  <2>3. CASE UNCHANGED recent /\ svc = "down" /\ starts' = starts + 1
    <3>1. \A d \in Events : Admitted(d) => life[d] # starts'
      BY <2>3 DEF Stamped, Admitted, TypeOK
    <3>2. recent' = NoMarks
      BY <2>3 DEF Marked
    <3>3. \A j \in Kinds, f \in Prints : ~ (recent'[j][f] > 0)
      BY <3>2 DEF NoMarks
    <3> QED
      BY <2>1, <3>1, <3>2, <3>3 DEF Marked
  <2>4. CASE svc' = "down" /\ recent' = NoMarks
    <3>1. \A j \in Kinds, f \in Prints : ~ (recent'[j][f] > 0)
      BY <2>4 DEF NoMarks
    <3> QED
      BY <2>4, <3>1 DEF Marked
  <2> QED
    BY <1>2, <2>2, <2>3, <2>4, MarksChange
<1> QED
  BY <1>1, <1>2

LEMMA OnceStep ==
  ASSUME TypeOK, Stamped, Marked, OncePerWindow, Next
  PROVE  OncePerWindow'
<1> USE DEF OncePerWindow, SameStorm
<1>1. ASSUME NEW e \in Events, Posts(e) PROVE OncePerWindow'
  <2>1. PICK k \in Kinds :
          /\ stamp'[e] = now /\ life'[e] = starts /\ via'[e] = k
          /\ Lets(e, k) \/ Drops(e, k)
    BY <1>1, PostEffect
  <2>2. svc # "down"
    BY <1>1, PostEffect
  <2>3. CASE Lets(e, k)
    <3>1. ASSUME NEW d \in Events \ {e}, Admitted(d)', PrintOf[d] = PrintOf[e],
                 life'[d] = starts, via'[d] = k
          PROVE  stamp'[e] - stamp'[d] >= WindowOf(k)
      <4>1. /\ Admitted(d) /\ life[d] = starts /\ via[d] = k
            /\ stamp'[d] = stamp[d]
        BY <1>1, <3>1, OthersStay
      <4>2. recent[k][PrintOf[e]] >= stamp[d]
        BY <2>2, <3>1, <4>1 DEF Marked
      <4>3. stamp[d] \in 1..now /\ recent[k][PrintOf[e]] \in Nat /\ now \in Nat
        BY <4>1, PipelineAssumption DEF Stamped, Admitted, TypeOK
      <4>4. now - recent[k][PrintOf[e]] >= WindowOf(k)
        BY <2>3, <4>2, <4>3, WindowType DEF Lets, Duplicate
      <4> QED
        BY <2>1, <4>1, <4>2, <4>3, <4>4, WindowType
    <3>2. ASSUME NEW c \in Events, NEW d \in Events, c # d,
                 Admitted(c)', Admitted(d)', SameStorm(c, d)'
          PROVE  \/ stamp'[c] - stamp'[d] >= WindowOf(via'[c])
                 \/ stamp'[d] - stamp'[c] >= WindowOf(via'[c])
      <4>1. CASE c # e /\ d # e
        <5>1. /\ Admitted(c) /\ Admitted(d) /\ SameStorm(c, d)
              /\ via'[c] = via[c]
              /\ stamp'[c] = stamp[c] /\ stamp'[d] = stamp[d]
          BY <1>1, <3>2, <4>1, OthersStay
        <5> QED
          BY <3>2, <5>1
      <4>2. CASE c = e
        BY <2>1, <3>1, <3>2, <4>2
      <4>3. CASE d = e
        BY <2>1, <3>1, <3>2, <4>3
      <4> QED
        BY <4>1, <4>2, <4>3
    <3> QED
      BY <3>2
  <2>4. CASE Drops(e, k)
    <3>1. ~ Admitted(e)'
      BY <2>4 DEF Drops, Admitted
    <3> QED
      BY <1>1, <3>1, OthersStay
  <2> QED
    BY <2>1, <2>3, <2>4
<1>2. CASE \A e \in Events : ~ Posts(e)
  BY <1>2, LaterStay
<1> QED
  BY <1>1, <1>2

\* A dropped request has a twin that was taken over.
TwinsCarried ==
  \A d \in Events : handler[d] = "dropped" =>
    \E e \in Events : /\ Admitted(e) /\ SameStorm(d, e) /\ Carried(e)
                      /\ stamp[d] - stamp[e] < WindowOf(via[d])

LEMMA SuppressedStep ==
  ASSUME TypeOK, Stamped, Marked, Entered, TwinsCarried, Next, Entered'
  PROVE  TwinsCarried'
<1> USE DEF TwinsCarried, SameStorm
<1>1. \A e \in Events : Admitted(e)' => Carried(e)'
  BY DEF Entered
<1>2. ASSUME NEW e \in Events, Posts(e) PROVE TwinsCarried'
  <2>1. PICK k \in Kinds :
          /\ stamp'[e] = now /\ life'[e] = starts /\ via'[e] = k
          /\ Lets(e, k) \/ Drops(e, k)
    BY <1>2, PostEffect
  <2>2. ~ Admitted(e)
    BY <1>2, PostEffect DEF Admitted
  <2>3. ASSUME NEW d \in Events \ {e}, handler'[d] = "dropped"
        PROVE  \E c \in Events :
                 /\ Admitted(c)' /\ SameStorm(d, c)' /\ Carried(c)'
                 /\ stamp'[d] - stamp'[c] < WindowOf(via'[d])
    <3>1. handler[d] = "dropped"
      BY <1>2, <2>3, OthersStay
    <3>2. PICK c \in Events : /\ Admitted(c) /\ SameStorm(d, c)
                              /\ stamp[d] - stamp[c] < WindowOf(via[d])
      BY <3>1
    <3> QED
      BY <1>1, <1>2, <2>2, <3>2, OthersStay
  <2>4. ASSUME handler'[e] = "dropped"
        PROVE  \E c \in Events :
                 /\ Admitted(c)' /\ SameStorm(e, c)' /\ Carried(c)'
                 /\ stamp'[e] - stamp'[c] < WindowOf(via'[e])
    <3>1. Duplicate(e, k)
      BY <2>1, <2>4 DEF Lets, Drops
    <3>2. PICK c \in Events : /\ Admitted(c) /\ PrintOf[c] = PrintOf[e]
                              /\ via[c] = k /\ life[c] = starts
                              /\ stamp[c] = recent[k][PrintOf[e]]
      BY <3>1, PipelineAssumption DEF Marked, Duplicate
    <3> QED
      BY <1>1, <1>2, <2>1, <2>2, <3>1, <3>2, OthersStay DEF Duplicate
  <2> QED
    BY <2>3, <2>4
<1>3. CASE \A e \in Events : ~ Posts(e)
  <2>1. ASSUME NEW d \in Events, handler'[d] = "dropped"
        PROVE  \E c \in Events :
                 /\ Admitted(c)' /\ SameStorm(d, c)' /\ Carried(c)'
                 /\ stamp'[d] - stamp'[c] < WindowOf(via'[d])
    <3>1. PICK c \in Events : /\ Admitted(c) /\ SameStorm(d, c)
                              /\ stamp[d] - stamp[c] < WindowOf(via[d])
      BY <1>3, <2>1, LaterStay
    <3> QED
      BY <1>1, <1>3, <3>1, LaterStay
  <2> QED
    BY <2>1
<1> QED
  BY <1>2, <1>3

-----------------------------------------------------------------------------
(* What the senders still owe *)

\* s has read enough to send to u, who turned the event off or left since.
Owes(s, u) ==
  /\ Busy(s)
  /\ \/ run[s].at = u /\ run[s].prefs = "read"
     \/ u \in run[s].todo \ muted

\* A sender has one user in hand, whom it does not come back to; a task sends
\* its own event; and who was hit was reached.
Shape(s) ==
  Busy(s) =>
    /\ run[s].at \in Users =>
         run[s].stage = "users" /\ run[s].at \notin run[s].todo
    /\ run[s].stage = "connections" => run[s].todo = {}
    /\ s \in Events => run[s].event = s /\ s \in direct
    /\ \A u \in run[s].hit : got[run[s].event][u] > 0

Shapes == \A s \in Senders : Shape(s)

\* Each user has at most the messages of the runs so far, and those still ahead.
Owed(s, e, u) == IF Ahead(s, e, u) THEN 1 ELSE 0

Counted ==
  \A e \in Events, u \in Users :
    got[e][u] + Owed(Worker, e, u) + Owed(e, e, u) <= Copies(e)

\* A step of a sender, field by field.
LEMMA ReadConnectionsEffect ==
  ASSUME TypeOK, NEW s \in Senders, ReadConnections(s)
  PROVE  /\ Busy(s) /\ run[s].stage = "connections"
         /\ \A t \in Senders \ {s} : run'[t] = run[t]
         /\ run'[s].event = run[s].event /\ run'[s].at = run[s].at
         /\ run'[s].hit = run[s].hit
         /\ \/ run'[s].stage = "users" /\ run'[s].todo = linked
            \/ run'[s].stage = "failed" /\ run'[s].todo = run[s].todo
         /\ UNCHANGED <<got, late>>
<1>1. run[s] \in Run
  BY RunGoesOn DEF ReadConnections, TypeOK
<1>2. \/ run'[s] = [run[s] EXCEPT !.stage = "users", !.todo = linked]
      \/ run'[s] = [run[s] EXCEPT !.stage = "failed"]
  BY DEF ReadConnections, TypeOK
<1> QED
  BY <1>1, <1>2 DEF ReadConnections, TypeOK, Run, messages

LEMMA ReadPrefsEffect ==
  ASSUME TypeOK, NEW s \in Senders, NEW u \in Users, ReadPrefs(s, u)
  PROVE  /\ Between(s) /\ u \in run[s].todo
         /\ \A t \in Senders \ {s} : run'[t] = run[t]
         /\ run'[s].event = run[s].event /\ run'[s].hit = run[s].hit
         /\ run'[s].stage = run[s].stage /\ run'[s].todo = run[s].todo \ {u}
         /\ run'[s].at = IF u \in muted THEN NoUser ELSE u
         /\ UNCHANGED <<got, late>>
<1>1. run[s] \in Run
  BY RunGoesOn DEF ReadPrefs, Between, TypeOK
<1>2. run'[s] = [run[s] EXCEPT !.todo = @ \ {u}, !.prefs = "read",
                               !.at = IF u \in muted THEN NoUser ELSE u]
  BY DEF ReadPrefs, TypeOK
<1> QED
  BY <1>1, <1>2 DEF ReadPrefs, TypeOK, Run, messages

LEMMA ReadPrefsRaisesEffect ==
  ASSUME TypeOK, NEW s \in Senders, NEW u \in Users, ReadPrefsRaises(s, u)
  PROVE  /\ Between(s) /\ u \in run[s].todo
         /\ \A t \in Senders \ {s} : run'[t] = run[t]
         /\ run'[s].event = run[s].event /\ run'[s].hit = run[s].hit
         /\ \/ /\ run'[s].stage = "failed" /\ run'[s].todo = run[s].todo
               /\ run'[s].at = NoUser
            \/ /\ run'[s].stage = "users" /\ run'[s].todo = run[s].todo \ {u}
               /\ run'[s].at = u /\ run'[s].prefs = "unknown"
         /\ UNCHANGED <<got, late>>
<1>1. run[s] \in Run
  BY RunGoesOn DEF ReadPrefsRaises, Between, TypeOK
<1>2. \/ run'[s] = [run[s] EXCEPT !.stage = "failed"]
      \/ run'[s] = [run[s] EXCEPT !.todo = @ \ {u}, !.prefs = "unknown",
                                  !.at = u]
  BY DEF ReadPrefsRaises, TypeOK
<1> QED
  BY <1>1, <1>2 DEF ReadPrefsRaises, Between, TypeOK, Run, messages

LEMMA SendEffect ==
  ASSUME TypeOK, NEW s \in Senders, Send(s) \/ SendFails(s)
  PROVE  /\ Sending(s)
         /\ \A t \in Senders \ {s} : run'[t] = run[t]
         /\ run'[s].event = run[s].event /\ run'[s].at = NoUser
         /\ run'[s].stage = run[s].stage /\ run'[s].todo = run[s].todo
         /\ \/ run'[s].hit = run[s].hit
            \/ run'[s].hit = run[s].hit \union {run[s].at} /\ Shown(s)
         /\ Shown(s) \/ UNCHANGED <<got, late>>
<1>1. run[s] \in Run
  BY RunGoesOn DEF Send, SendFails, Sending, TypeOK
<1>2. CASE Send(s)
  <2>1. run'[s] = [run[s] EXCEPT !.at = NoUser,
                                 !.hit = @ \union {run[s].at}]
    BY <1>2 DEF Send, TypeOK
  <2> QED
    BY <1>1, <1>2, <2>1 DEF Send, TypeOK, Run
<1>3. CASE SendFails(s)
  <2>1. run'[s] = [run[s] EXCEPT !.at = NoUser]
    BY <1>3 DEF SendFails, TypeOK
  <2> QED
    BY <1>1, <1>3, <2>1 DEF SendFails, TypeOK, Run, messages
<1> QED
  BY <1>2, <1>3

SenderSteps(s) ==
  \/ Sender(s) \/ SendFails(s)
  \/ \E u \in Users : ReadPrefsRaises(s, u)

\* What a sender's step leaves alone.
LEMMA SenderLeaves ==
  ASSUME NEW s \in Senders, SenderSteps(s)
  PROVE  /\ UNCHANGED <<phase, runs, linked, muted, quota, direct>>
         /\ upset \subseteq upset'
  BY DEF SenderSteps, Sender, ReadConnections, ReadPrefs, ReadPrefsRaises,
     Send, SendFails, unsent, queue, people, requests, NoFault, Fault

\* What a sender gets done is taken from what is ahead.
LEMMA SenderCounts ==
  ASSUME TypeOK, NEW s \in Senders, SenderSteps(s), Shape(s)
  PROVE  /\ Busy(s) /\ run'[s].event = run[s].event
         /\ \A t \in Senders \ {s} : run'[t] = run[t]
         /\ \A e \in Events, u \in Users : Ahead(s, e, u)' => Ahead(s, e, u)
         /\ \A e \in Events, u \in Users :
              \/ got'[e][u] = got[e][u]
              \/ /\ got'[e][u] = got[e][u] + 1 /\ e = run[s].event
                 /\ Ahead(s, e, u) /\ ~ Ahead(s, e, u)'
<1> USE PipelineAssumption DEF Ahead, Shape
<1>1. CASE ReadConnections(s)
  <2>1. run[s] \in Run
    BY <1>1, RunGoesOn DEF ReadConnections, TypeOK
  <2> QED
    BY <1>1, <2>1, ReadConnectionsEffect
<1>2. ASSUME NEW u \in Users, ReadPrefs(s, u)
      PROVE  /\ Busy(s) /\ run'[s].event = run[s].event
             /\ \A t \in Senders \ {s} : run'[t] = run[t]
             /\ \A e \in Events, v \in Users :
                  Ahead(s, e, v)' => Ahead(s, e, v)
             /\ UNCHANGED got
  BY <1>2, ReadPrefsEffect DEF Between
<1>3. ASSUME NEW u \in Users, ReadPrefsRaises(s, u)
      PROVE  /\ Busy(s) /\ run'[s].event = run[s].event
             /\ \A t \in Senders \ {s} : run'[t] = run[t]
             /\ \A e \in Events, v \in Users :
                  Ahead(s, e, v)' => Ahead(s, e, v)
             /\ UNCHANGED got
  BY <1>3, ReadPrefsRaisesEffect DEF Between
<1>4. CASE Send(s) \/ SendFails(s)
  <2>1. /\ Sending(s) /\ run'[s].event = run[s].event
        /\ \A t \in Senders \ {s} : run'[t] = run[t]
        /\ run'[s].at = NoUser /\ run'[s].stage = run[s].stage
        /\ run'[s].todo = run[s].todo
        /\ Shown(s) \/ UNCHANGED got
    BY <1>4, SendEffect
  <2>2. Busy(s) /\ run[s].at \in Users /\ run[s].stage = "users"
        /\ run[s].at \notin run[s].todo
    BY <2>1, RunGoesOn DEF Sending, TypeOK
  <2>3. ASSUME NEW e \in Events, NEW u \in Users
        PROVE  \/ got'[e][u] = got[e][u]
               \/ /\ got'[e][u] = got[e][u] + 1 /\ e = run[s].event
                  /\ u = run[s].at
    BY <2>1, ShownEffect
  <2>4. ASSUME NEW e \in Events, NEW u \in Users, e = run[s].event,
               u = run[s].at
        PROVE  Ahead(s, e, u) /\ ~ Ahead(s, e, u)'
    BY <2>1, <2>2, <2>4
  <2>5. \A e \in Events, u \in Users : Ahead(s, e, u)' => Ahead(s, e, u)
    BY <2>1, <2>2
  <2> HIDE DEF Ahead
  <2> QED
    BY <2>1, <2>2, <2>3, <2>4, <2>5
<1> HIDE DEF Ahead
<1> QED
  BY <1>1, <1>2, <1>3, <1>4 DEF SenderSteps, Sender

LEMMA SenderShape ==
  ASSUME TypeOK, NEW s \in Senders, SenderSteps(s), Shapes
  PROVE  Shapes'
<1> USE PipelineAssumption
<1>1. /\ \A e \in Events, u \in Users :
           got[e][u] \in Nat /\ got'[e][u] \in Nat /\ got'[e][u] >= got[e][u]
      /\ direct' = direct
  <2>1. Shape(s)
    BY DEF Shapes
  <2>2. TypeOK'
    BY SenderTypes DEF SenderSteps
  <2> QED
    BY <2>1, <2>2, SenderCounts, SenderLeaves DEF TypeOK
<1>2. ASSUME NEW t \in Senders \ {s} PROVE Shape(t)'
  <2>1. run'[t] = run[t]
    BY <1>2, SenderCounts DEF Shapes
  <2>2. Shape(t)
    BY DEF Shapes
  <2>3. CASE Busy(t)
    <3>1. run[t].event \in Events /\ run[t].hit \subseteq Users
      BY <2>3, RunGoesOn DEF TypeOK
    <3> QED
      BY <1>1, <2>1, <2>2, <2>3, <3>1 DEF Shape, Busy
  <2>4. CASE ~ Busy(t)
    BY <2>1, <2>4 DEF Shape, Busy
  <2> QED
    BY <2>3, <2>4
<1>3. Shape(s)'
  <2>1. Shape(s) /\ Busy(s)
    BY SenderCounts DEF Shapes
  <2>2. run[s].event \in Events /\ run[s].hit \subseteq Users
        /\ run[s].at \in Users \union {NoUser}
    BY <2>1, RunGoesOn DEF TypeOK
  <2>3. \A u \in run[s].hit : got'[run[s].event][u] > 0
    BY <1>1, <2>1, <2>2 DEF Shape
  <2>4. s \in Events => run[s].event = s /\ s \in direct'
    BY <1>1, <2>1 DEF Shape
  <2>5. CASE ReadConnections(s)
    <3>1. /\ run'[s].at \in Users => run'[s].at \notin run'[s].todo
          /\ run'[s].at \notin Users
          /\ run'[s].stage # "connections"
      BY <2>1, <2>5, ReadConnectionsEffect DEF Shape
    <3>2. run'[s].event = run[s].event /\ run'[s].hit = run[s].hit
      BY <2>5, ReadConnectionsEffect
    <3> QED
      BY <2>3, <2>4, <3>1, <3>2 DEF Shape
  <2>6. ASSUME NEW u \in Users, ReadPrefs(s, u) \/ ReadPrefsRaises(s, u)
        PROVE  Shape(s)'
    <3>1. /\ run'[s].event = run[s].event /\ run'[s].hit = run[s].hit
          /\ run'[s].stage # "connections"
          /\ run'[s].at \in Users =>
               run'[s].stage = "users" /\ run'[s].at \notin run'[s].todo
      BY <2>6, ReadPrefsEffect, ReadPrefsRaisesEffect DEF Between
    <3> QED
      BY <2>3, <2>4, <3>1 DEF Shape
  <2>7. CASE Send(s) \/ SendFails(s)
    <3>1. /\ run'[s].event = run[s].event /\ run'[s].at = NoUser
          /\ run'[s].stage = run[s].stage
          /\ run[s].at # NoUser
          /\ \/ run'[s].hit = run[s].hit
             \/ run'[s].hit = run[s].hit \union {run[s].at} /\ Shown(s)
      BY <2>7, SendEffect DEF Sending
    <3>2. run[s].stage = "users"
      BY <2>1, <2>2, <3>1 DEF Shape
    <3>3. \A u \in run'[s].hit : got'[run[s].event][u] > 0
      <4>1. CASE run'[s].hit = run[s].hit
        BY <2>3, <4>1
      <4>2. CASE run'[s].hit = run[s].hit \union {run[s].at} /\ Shown(s)
        <5>1. got'[run[s].event][run[s].at] = got[run[s].event][run[s].at] + 1
          BY <2>1, <2>2, <3>1, <4>2, ShownEffect DEF Sending
        <5>2. got'[run[s].event][run[s].at] > 0
          BY <1>1, <2>2, <3>1, <5>1
        <5> QED
          BY <2>3, <4>2, <5>2
      <4> QED
        BY <3>1, <4>1, <4>2
    <3> QED
      BY <2>4, <3>1, <3>2, <3>3 DEF Shape
  <2> QED
    BY <2>5, <2>6, <2>7 DEF SenderSteps, Sender
<1> QED
  BY <1>2, <1>3 DEF Shapes

\* Who turned the event off or left is sent what was owed already.
LEMMA SenderOwes ==
  ASSUME TypeOK, NEW s \in Senders, SenderSteps(s), Shape(s),
         NEW u \in Users, Gone(u)
  PROVE  /\ Owes(s, u)' => Owes(s, u)
         /\ \/ late'[u] = late[u]
            \/ late'[u] = late[u] + 1 /\ Owes(s, u) /\ ~ Owes(s, u)'
<1> USE PipelineAssumption
<1>1. muted' = muted
  BY SenderLeaves
<1>2. CASE ReadConnections(s)
  BY <1>1, <1>2, ReadConnectionsEffect DEF Owes, Gone, Shape
<1>3. ASSUME NEW v \in Users, ReadPrefs(s, v) PROVE Owes(s, u)' => Owes(s, u)
  BY <1>1, <1>3, ReadPrefsEffect DEF Owes, Between
<1>4. ASSUME NEW v \in Users, ReadPrefsRaises(s, v)
      PROVE  Owes(s, u)' => Owes(s, u)
  BY <1>1, <1>4, ReadPrefsRaisesEffect DEF Owes, Between
<1>5. CASE Send(s) \/ SendFails(s)
  <2>1. /\ Sending(s) /\ run'[s].at = NoUser /\ run'[s].todo = run[s].todo
        /\ Shown(s) \/ UNCHANGED late
    BY <1>5, SendEffect
  <2>2. Busy(s) /\ run[s].at \in Users /\ run[s].at \notin run[s].todo
    BY <2>1, RunGoesOn DEF Sending, TypeOK, Shape
  <2>3. Owes(s, u)' => Owes(s, u)
    BY <1>1, <2>1, <2>2 DEF Owes
  <2>4. \/ late'[u] = late[u]
        \/ /\ late'[u] = late[u] + 1
           /\ run[s].at = u /\ run[s].prefs = "read"
    BY <2>1 DEF Shown, TypeOK
  <2>5. ASSUME run[s].at = u, run[s].prefs = "read"
        PROVE  Owes(s, u) /\ ~ Owes(s, u)'
    BY <1>1, <2>1, <2>2, <2>5 DEF Owes
  <2> QED
    BY <2>3, <2>4, <2>5
<1>6. ASSUME NEW v \in Users, ReadPrefs(s, v) \/ ReadPrefsRaises(s, v)
      PROVE  UNCHANGED late
  BY <1>6, ReadPrefsEffect, ReadPrefsRaisesEffect
<1> QED
  BY <1>2, <1>3, <1>4, <1>5, <1>6, ReadConnectionsEffect
  DEF SenderSteps, Sender

\* What the other steps do to the senders.
Starting(e) ==
  \/ /\ run' = [run EXCEPT ![Worker] = Begun(e)]
     /\ ~ Busy(Worker) /\ runs'[e] = runs[e] + 1
  \/ /\ run' = [run EXCEPT ![e] = Begun(e)]
     /\ e \notin direct /\ e \in direct'

Others ==
  /\ \A e \in Events : runs'[e] >= runs[e]
  /\ direct \subseteq direct' /\ upset \subseteq upset'
  /\ \/ \A s \in Senders : run'[s] \in {run[s], NoRun}
     \/ \E e \in Events : Starting(e)

LEMMA RunsGrow ==
  ASSUME TypeOK, NEW e \in Events, QueueStep(e)
  PROVE  \A d \in Events : runs'[d] >= runs[d]
<1>1. \A d \in Events : runs[d] \in Nat
  BY PipelineAssumption DEF TypeOK, Queue!DeliveryTypeOK
<1>2. CASE Queue!Run(e)
  BY <1>1, <1>2 DEF Queue!Run, TypeOK, Queue!DeliveryTypeOK
<1>3. CASE UNCHANGED runs
  BY <1>1, <1>3
<1> QED
  BY <1>2, <1>3
  DEF QueueStep, Queue!Accept, Queue!Take, Queue!Requeue, Queue!Settle,
      Queue!Lose

LEMMA RunsType ==
  ASSUME TypeOK
  PROVE  \A e \in Events : runs[e] \in Nat
  BY PipelineAssumption DEF TypeOK, Queue!DeliveryTypeOK

LEMMA DirectStarts ==
  ASSUME TypeOK, NEW e \in Events, run' = [run EXCEPT ![e] = Begun(e)],
         e \notin direct, direct' = direct \union {e}, upset \subseteq upset',
         UNCHANGED runs
  PROVE  Others
<1>1. Starting(e)
  BY DEF Starting
<1>2. \A d \in Events : runs'[d] >= runs[d]
  BY RunsType
<1> QED
  BY <1>1, <1>2 DEF Others

LEMMA OtherSteps ==
  ASSUME TypeOK, Entered, Next, \A s \in Senders : ~ SenderSteps(s)
  PROVE  Others /\ UNCHANGED got
<1> USE RunsType, PipelineAssumption DEF process, requests, messages, queue
<1>1. CASE Listen \/ ConnectQueue \/ Disconnect \/ Tick
  BY <1>1 DEF Listen, ConnectQueue, Disconnect, Tick, Others
<1>2. CASE StopWorker
  <2>1. UNCHANGED runs
    BY <1>2, DropHandsEffect DEF StopWorker, TypeOK
  <2> QED
    BY <1>2, <2>1 DEF StopWorker, TypeOK, Others, Senders
<1>3. CASE Exit \/ Crash
  <2>1. EndProcess
    BY <1>3 DEF Exit, Crash
  <2>2. UNCHANGED runs
    BY <2>1, DropHandsEffect DEF EndProcess, TypeOK
  <2> QED
    BY <2>1, <2>2 DEF EndProcess, TypeOK, Others
<1>4. ASSUME NEW e \in Events, Posts(e) PROVE Others /\ UNCHANGED got
  <2>1. e \notin direct
    BY <1>4, PostEffect DEF Entered
  <2>2. CASE UNCHANGED <<run, direct, upset, runs, got>>
    BY <2>2 DEF Others
  <2>3. CASE /\ run' = [run EXCEPT ![e] = Begun(e)] /\ UNCHANGED <<runs, got>>
             /\ direct' = direct \union {e} /\ UNCHANGED upset
    BY <2>1, <2>3, DirectStarts
  <2> QED
    <3>1. \/ UNCHANGED <<run, direct, upset, runs, got>>
          \/ /\ run' = [run EXCEPT ![e] = Begun(e)]
             /\ direct' = direct \union {e} /\ UNCHANGED <<runs, got, upset>>
      BY <1>4
      DEF Posts, PostDuplicate, PostDirect, PostQueued, PostAlert,
          PostResolved, SendDirectly
    <3> QED
      BY <2>2, <2>3, <3>1
<1>5. ASSUME NEW e \in Events, Handle(e) PROVE Others /\ UNCHANGED got
  <2>1. UNCHANGED <<runs, run, direct, upset, got>>
    BY <1>5 DEF Handle, EnqueueStores, EnqueueReturns, Queue!Accept
  <2> QED
    BY <2>1 DEF Others
<1>6. ASSUME NEW e \in Events, EnqueueFails(e) PROVE Others /\ UNCHANGED got
  <2>1. e \notin direct
    BY <1>6 DEF EnqueueFails, Entered
  <2>2. /\ run' = [run EXCEPT ![e] = Begun(e)] /\ UNCHANGED <<runs, got>>
        /\ direct' = direct \union {e} /\ upset \subseteq upset'
    BY <1>6 DEF EnqueueFails, FallBack, SendDirectly, Fault, NoFault
  <2> QED
    BY <2>1, <2>2, DirectStarts
<1>7. CASE WorkerQueue
  <2>1. ASSUME NEW e \in Events, WorkerTakes(e) PROVE Others /\ UNCHANGED got
    BY <2>1 DEF WorkerTakes, Queue!Take, Others
  <2>2. ASSUME NEW e \in Events, WorkerCalls(e) PROVE Others /\ UNCHANGED got
    <3>1. \A d \in Events : runs'[d] >= runs[d]
      BY <2>2, RunsGrow DEF WorkerCalls, QueueStep
    <3>2. /\ run' = [run EXCEPT ![Worker] = Begun(e)]
          /\ ~ Busy(Worker) /\ runs'[e] = runs[e] + 1
      BY <2>2 DEF WorkerCalls, Queue!Run, TypeOK, Queue!DeliveryTypeOK
    <3> QED
      BY <2>2, <3>1, <3>2 DEF WorkerCalls, Others, Starting
  <2>3. CASE WorkerFinishes
    <3>1. UNCHANGED runs
      BY <2>3 DEF WorkerFinishes, Queue!Settle, Queue!Requeue
    <3> QED
      BY <2>3, <3>1 DEF WorkerFinishes, TypeOK, Others, Senders
  <2> QED
    BY <1>7, <2>1, <2>2, <2>3 DEF WorkerQueue
<1>8. ASSUME NEW e \in Events, QueueFaults(e) PROVE Others /\ UNCHANGED got
  <2>1. UNCHANGED runs
    BY <1>8 DEF QueueFaults, Queue!Settle, Queue!Requeue, Queue!Lose
  <2>2. \A s \in Senders : run'[s] \in {run[s], NoRun}
    BY <1>8 DEF QueueFaults, TypeOK, Senders
  <2> QED
    BY <1>8, <2>1, <2>2 DEF QueueFaults, Fault, Others
<1>9. ASSUME NEW e \in Events, TaskEnds(e) PROVE Others /\ UNCHANGED got
  BY <1>9 DEF TaskEnds, TypeOK, Others, Senders, NoFault
<1>10. ASSUME NEW u \in Users, SetPref(u) \/ Unlink(u)
       PROVE  Others /\ UNCHANGED got
  BY <1>10 DEF SetPref, Unlink, Change, Others
<1> QED
  BY <1>1, <1>2, <1>3, <1>4, <1>5, <1>6, <1>7, <1>8, <1>9, <1>10
  DEF Next, Posts, SenderSteps

LEMMA ShapeOthers ==
  ASSUME TypeOK, Shapes, Others, UNCHANGED got
  PROVE  Shapes'
<1>1. ASSUME NEW s \in Senders, run'[s] \in {run[s], NoRun} PROVE Shape(s)'
  BY <1>1 DEF Shapes, Shape, Busy, Others
<1>2. ASSUME NEW e \in Events, Starting(e), NEW s \in Senders PROVE Shape(s)'
  <2>1. CASE run'[s] = run[s]
    BY <1>1, <2>1
  <2>2. CASE run'[s] # run[s]
    <3>1. run'[s] = Begun(e) /\ (s = Worker \/ (s = e /\ e \in direct'))
      BY <1>2, <2>2 DEF Starting, TypeOK
    <3>2. NoUser \notin Users /\ Worker \notin Events
      BY PipelineAssumption
    <3> QED
      BY <3>1, <3>2 DEF Shape, Begun
  <2> QED
    BY <2>1, <2>2
<1> QED
  BY <1>1, <1>2 DEF Others, Shapes

LEMMA CountedOthers ==
  ASSUME TypeOK, TypeOK', Shapes, Counted, Others, UNCHANGED got
  PROVE  Counted'
<1>1. ASSUME NEW e \in Events
      PROVE  /\ Copies(e) \in Nat /\ Copies(e)' \in Nat
             /\ Copies(e)' >= Copies(e)
  BY RunsType DEF Copies, Others, TypeOK, Queue!DeliveryTypeOK
<1>2. \A s \in Senders, e \in Events, u \in Users :
        Owed(s, e, u) \in {0, 1} /\ Owed(s, e, u)' \in {0, 1}
  BY DEF Owed
<1>3. \A s \in Senders, e \in Events, u \in Users :
        run'[s] \in {run[s], NoRun} => Owed(s, e, u)' <= Owed(s, e, u)
  BY DEF Owed, Ahead, Busy
<1>4. Worker \in Senders /\ Events \subseteq Senders /\ Worker \notin Events
  BY PipelineAssumption DEF Senders
<1>5. \A e \in Events, u \in Users : got[e][u] \in Nat /\ got'[e][u] = got[e][u]
  BY DEF TypeOK
<1>6. SUFFICES ASSUME NEW e \in Events, NEW u \in Users
               PROVE  got'[e][u] + Owed(Worker, e, u)' + Owed(e, e, u)'
                        <= Copies(e)'
  BY DEF Counted
<1>7. got[e][u] + Owed(Worker, e, u) + Owed(e, e, u) <= Copies(e)
  BY DEF Counted
<1> DEFINE w == Owed(Worker, e, u)  d == Owed(e, e, u)
           w1 == Owed(Worker, e, u)'  d1 == Owed(e, e, u)'
           c == Copies(e)  c1 == Copies(e)'
<1>8. CASE w1 <= w /\ d1 <= d
  <2> HIDE DEF w, d, w1, d1, c, c1
  <2>1. {w, d, w1, d1} \subseteq {0, 1} /\ c \in Nat /\ c1 \in Nat /\ c1 >= c
    BY <1>1, <1>2, <1>4 DEF w, d, w1, d1, c, c1
  <2>2. got[e][u] + w + d <= c
    BY <1>7 DEF w, d, c
  <2>3. got'[e][u] + w1 + d1 <= c1
    BY <1>5, <1>8, <2>1, <2>2
  <2> QED
    BY <2>3 DEF w1, d1, c1
<1>9. CASE /\ c1 >= c + 1
           /\ \/ w = 0 /\ d1 <= d
              \/ w1 <= w /\ d = 0
  <2> HIDE DEF w, d, w1, d1, c, c1
  <2>1. {w, d, w1, d1} \subseteq {0, 1} /\ c \in Nat /\ c1 \in Nat
    BY <1>1, <1>2, <1>4 DEF w, d, w1, d1, c, c1
  <2>2. got[e][u] + w + d <= c
    BY <1>7 DEF w, d, c
  <2>3. got'[e][u] + w1 + d1 <= c1
    BY <1>5, <1>9, <2>1, <2>2
  <2> QED
    BY <2>3 DEF w1, d1, c1
<1>10. CASE \A s \in Senders : run'[s] \in {run[s], NoRun}
  BY <1>3, <1>4, <1>8, <1>10
<1>11. ASSUME NEW b \in Events, Starting(b)
       PROVE  (w1 <= w /\ d1 <= d)
              \/ (c1 >= c + 1 /\ ((w = 0 /\ d1 <= d) \/ (w1 <= w /\ d = 0)))
  <2>1. CASE b # e
    <3>1. run'[e] = run[e]
      BY <1>4, <1>11, <2>1 DEF Starting, TypeOK
    <3>2. d1 <= d
      BY <1>3, <1>4, <3>1
    <3>3. run'[Worker] \in {run[Worker], Begun(b)}
      BY <1>4, <1>11, <2>1 DEF Starting, TypeOK
    <3>4. w1 <= w
      <4>1. CASE run'[Worker] = run[Worker]
        BY <1>3, <1>4, <4>1
      <4>2. CASE run'[Worker] = Begun(b)
        <5>1. ~ Ahead(Worker, e, u)'
          BY <2>1, <4>2 DEF Ahead, Begun
        <5> QED
          BY <1>2, <1>4, <5>1 DEF Owed
      <4> QED
        BY <3>3, <4>1, <4>2
    <3> QED
      BY <3>2, <3>4
  <2>2. CASE /\ b = e /\ run' = [run EXCEPT ![Worker] = Begun(b)]
             /\ ~ Busy(Worker) /\ runs'[b] = runs[b] + 1
    <3>1. w = 0
      BY <2>2 DEF Owed, Ahead
    <3>2. d1 <= d
      BY <1>3, <1>4, <2>2 DEF TypeOK
    <3>3. c1 >= c + 1
      BY <2>2, RunsType DEF Copies, Others
    <3> QED
      BY <3>1, <3>2, <3>3
  <2>3. CASE /\ b = e /\ run' = [run EXCEPT ![b] = Begun(b)]
             /\ b \notin direct /\ b \in direct'
    <3>1. d = 0
      <4>1. ~ Busy(e)
        BY <1>4, <2>3 DEF Shapes, Shape
      <4> QED
        BY <4>1 DEF Owed, Ahead
    <3>2. w1 <= w
      BY <1>3, <1>4, <2>3 DEF TypeOK
    <3>3. c1 >= c + 1
      <4>1. runs[e] \in Nat /\ runs'[e] \in Nat /\ runs'[e] >= runs[e]
        BY RunsType DEF Others, TypeOK, Queue!DeliveryTypeOK
      <4> QED
        BY <2>3, <4>1 DEF Copies
    <3> QED
      BY <3>1, <3>2, <3>3
  <2> QED
    BY <1>11, <2>1, <2>2, <2>3 DEF Starting
<1> QED
  BY <1>8, <1>9, <1>10, <1>11 DEF Others

LEMMA CountedSender ==
  ASSUME TypeOK, TypeOK', Shapes, Counted, NEW s \in Senders, SenderSteps(s)
  PROVE  Counted'
<1>1. Shape(s)
  BY DEF Shapes
<1>2. /\ \A t \in Senders \ {s} : run'[t] = run[t]
      /\ \A e \in Events, u \in Users :
           /\ Ahead(s, e, u)' => Ahead(s, e, u)
           /\ \/ got'[e][u] = got[e][u]
              \/ /\ got'[e][u] = got[e][u] + 1 /\ e = run[s].event
                 /\ Ahead(s, e, u) /\ ~ Ahead(s, e, u)'
  BY <1>1, SenderCounts
<1>3. Worker \in Senders /\ Events \subseteq Senders /\ Worker \notin Events
      /\ Senders = Events \union {Worker}
  BY PipelineAssumption DEF Senders
<1>4. SUFFICES ASSUME NEW e \in Events, NEW u \in Users
               PROVE  got'[e][u] + Owed(Worker, e, u)' + Owed(e, e, u)'
                        <= Copies(e)'
  BY DEF Counted
<1>5. got[e][u] + Owed(Worker, e, u) + Owed(e, e, u) <= Copies(e)
      /\ Copies(e)' = Copies(e)
  BY SenderLeaves DEF Counted, Copies
<1>6. \A t \in Senders \ {s} : Owed(t, e, u)' = Owed(t, e, u)
  BY <1>2 DEF Owed, Ahead, Busy
<1>7. \/ got'[e][u] = got[e][u] /\ Owed(s, e, u)' <= Owed(s, e, u)
      \/ /\ got'[e][u] = got[e][u] + 1 /\ e = run[s].event
         /\ Owed(s, e, u)' = 0 /\ Owed(s, e, u) = 1
  BY <1>2 DEF Owed
<1>8. e = run[s].event => s \in {Worker, e}
  <2>1. Busy(s)
    BY <1>1, SenderCounts
  <2> QED
    BY <1>1, <1>3, <2>1 DEF Shape
<1> DEFINE w == Owed(Worker, e, u)  d == Owed(e, e, u)
           w1 == Owed(Worker, e, u)'  d1 == Owed(e, e, u)'
           c == Copies(e)
<1>9. {w, d, w1, d1} \subseteq {0, 1} /\ c \in Nat /\ got[e][u] \in Nat
  BY RunsType DEF Owed, Copies, TypeOK
<1>10. \/ got'[e][u] = got[e][u] /\ w1 <= w /\ d1 <= d
       \/ got'[e][u] = got[e][u] + 1 /\ w1 = 0 /\ w = 1 /\ d1 = d
       \/ got'[e][u] = got[e][u] + 1 /\ d1 = 0 /\ d = 1 /\ w1 = w
  <2>1. CASE s = Worker
    <3>1. d1 = d
      BY <1>3, <1>6, <2>1
    <3> HIDE DEF w, d, w1, d1
    <3>2. \/ got'[e][u] = got[e][u] /\ w1 <= w
          \/ got'[e][u] = got[e][u] + 1 /\ w1 = 0 /\ w = 1
      BY <1>7, <2>1 DEF w, w1
    <3> QED
      BY <1>9, <3>1, <3>2
  <2>2. CASE s = e
    <3>1. w1 = w
      BY <1>3, <1>6, <2>2
    <3> HIDE DEF w, d, w1, d1
    <3>2. \/ got'[e][u] = got[e][u] /\ d1 <= d
          \/ got'[e][u] = got[e][u] + 1 /\ d1 = 0 /\ d = 1
      BY <1>7, <2>2 DEF d, d1
    <3> QED
      BY <1>9, <3>1, <3>2
  <2>3. CASE s \notin {Worker, e}
    <3>1. w1 = w /\ d1 = d
      BY <1>3, <1>6, <2>3
    <3>2. got'[e][u] = got[e][u]
      BY <1>7, <1>8, <2>3
    <3> HIDE DEF w, d, w1, d1
    <3> QED
      BY <1>9, <3>1, <3>2
  <2> QED
    BY <2>1, <2>2, <2>3
<1> HIDE DEF w, d, w1, d1, c
<1>11. got[e][u] + w + d <= c
  BY <1>5 DEF w, d, c
<1>12. got'[e][u] + w1 + d1 <= c
  BY <1>9, <1>10, <1>11
<1> QED
  BY <1>5, <1>12 DEF w1, d1, c

-----------------------------------------------------------------------------
(* Opting out *)

Owing(u) == {s \in Senders : Owes(s, u)}

\* What is owed to a user who is gone still fits the quota.
OwedFits ==
  \A u \in Users : Gone(u) => late[u] + Cardinality(Owing(u)) <= quota[u]

LEMMA OwingIsFinite ==
  ASSUME NEW u \in Users
  PROVE  IsFiniteSet(Owing(u)) /\ Cardinality(Owing(u)) \in Nat
  BY SendersAreFinite DEF Owing

\* Nobody starts to owe anything to a user who is gone.
LEMMA OthersOwe ==
  ASSUME TypeOK, Others, UNCHANGED muted, NEW u \in Users, NEW s \in Senders
  PROVE  Owes(s, u)' => Owes(s, u)
<1>1. CASE run'[s] \in {run[s], NoRun}
  BY <1>1 DEF Owes, Busy
<1>2. ASSUME NEW e \in Events, Starting(e), run'[s] # run[s]
      PROVE  ~ Owes(s, u)'
  <2>1. run'[s] = Begun(e)
    BY <1>2 DEF Starting, TypeOK
  <2> QED
    BY <2>1, PipelineAssumption DEF Owes, Begun
<1> QED
  BY <1>1, <1>2 DEF Others

LEMMA OwedShrinks ==
  ASSUME TypeOK, TypeOK', NEW u \in Users,
         \A s \in Senders : Owes(s, u)' => Owes(s, u),
         UNCHANGED quota,
         late[u] + Cardinality(Owing(u)) <= quota[u],
         \/ late'[u] = late[u]
         \/ /\ late'[u] = late[u] + 1
            /\ \E s \in Senders : Owes(s, u) /\ ~ Owes(s, u)'
  PROVE  (late[u] + Cardinality(Owing(u)) <= quota[u])'
<1> DEFINE A == Owing(u)
           B == Owing(u)'
<1>1. /\ IsFiniteSet(A) /\ Cardinality(A) \in Nat
      /\ B \subseteq A /\ A \subseteq Senders
  BY OwingIsFinite DEF Owing
<1>2. late[u] \in Nat /\ late'[u] \in Nat /\ quota[u] \in Nat
  BY DEF TypeOK
<1>3. CASE late'[u] = late[u]
  <2>1. Cardinality(B) <= Cardinality(A) /\ Cardinality(B) \in Nat
    BY <1>1, FS_Subset, FS_CardinalityType
  <2> QED
    BY <1>1, <1>2, <1>3, <2>1
<1>4. CASE late'[u] = late[u] + 1 /\ \E s \in Senders : Owes(s, u) /\ ~ Owes(s, u)'
  <2>1. PICK s \in A : s \notin B
    BY <1>4 DEF Owing
  <2>2. /\ IsFiniteSet(A \ {s}) /\ Cardinality(A \ {s}) = Cardinality(A) - 1
    BY <1>1, FS_RemoveElement
  <2>3. B \subseteq A \ {s}
    BY <1>1, <2>1
  <2>4. Cardinality(B) <= Cardinality(A \ {s}) /\ Cardinality(B) \in Nat
    BY <2>2, <2>3, FS_Subset, FS_CardinalityType
  <2> QED
    BY <1>1, <1>2, <1>4, <2>2, <2>4
<1> QED
  BY <1>3, <1>4

LEMMA OwedBySender ==
  ASSUME TypeOK, TypeOK', Shapes, OwedFits, NEW s \in Senders, SenderSteps(s)
  PROVE  OwedFits'
<1>1. Shape(s) /\ UNCHANGED <<muted, linked, quota>>
  BY SenderLeaves DEF Shapes
<1>2. ASSUME NEW u \in Users, Gone(u)
      PROVE  (late[u] + Cardinality(Owing(u)) <= quota[u])'
  <2>1. \A t \in Senders \ {s} : Owes(t, u)' => Owes(t, u)
    BY <1>1, SenderCounts DEF Owes, Busy
  <2>2. /\ Owes(s, u)' => Owes(s, u)
        /\ \/ late'[u] = late[u]
           \/ late'[u] = late[u] + 1 /\ Owes(s, u) /\ ~ Owes(s, u)'
    BY <1>1, <1>2, SenderOwes
  <2>3. \A t \in Senders : Owes(t, u)' => Owes(t, u)
    BY <2>1, <2>2
  <2>4. late[u] + Cardinality(Owing(u)) <= quota[u]
    BY <1>2 DEF OwedFits
  <2> QED
    BY <1>1, <2>2, <2>3, <2>4, OwedShrinks
<1>3. \A u \in Users : Gone(u)' <=> Gone(u)
  BY <1>1 DEF Gone
<1> QED
  BY <1>2, <1>3 DEF OwedFits

LEMMA OwedOthers ==
  ASSUME TypeOK, TypeOK', OwedFits, Others,
         UNCHANGED <<muted, linked, quota, late>>
  PROVE  OwedFits'
<1>1. ASSUME NEW u \in Users, Gone(u)
      PROVE  (late[u] + Cardinality(Owing(u)) <= quota[u])'
  <2>1. \A t \in Senders : Owes(t, u)' => Owes(t, u)
    BY OthersOwe
  <2>2. late[u] + Cardinality(Owing(u)) <= quota[u]
    BY <1>1 DEF OwedFits
  <2> QED
    BY <2>1, <2>2, OwedShrinks
<1>2. \A u \in Users : Gone(u)' <=> Gone(u)
  BY DEF Gone
<1> QED
  BY <1>1, <1>2 DEF OwedFits

\* A change grants what is under way at that moment.
LEMMA OwedAtChange ==
  ASSUME TypeOK, TypeOK', OwedFits, NEW u \in Users, SetPref(u) \/ Unlink(u)
  PROVE  OwedFits'
<1>1. PICK m \in SUBSET Users : /\ Change(u, m)
                                /\ \A v \in Users \ {u} : v \in m <=> v \in muted
                                /\ \A v \in Users \ {u} :
                                     v \in linked' <=> v \in linked
  BY DEF SetPref, Unlink, TypeOK
<1>2. run' = run /\ muted' = m
  BY <1>1 DEF Change, process
<1>3. (late[u] + Cardinality(Owing(u)) <= quota[u])'
  <2> DEFINE A == {s \in Senders :
                     Busy(s) /\ (run[s].at = u \/ u \in run[s].todo \ m)}
             B == Owing(u)'
  <2>1. late'[u] = 0 /\ quota'[u] = Cardinality(A)
    BY <1>1, ChangeEffect DEF UnderWay
  <2>2. B \subseteq A /\ A \subseteq Senders
    BY <1>2 DEF Owing, Owes, Busy
  <2>3. Cardinality(B) <= Cardinality(A)
    BY <2>2, SendersAreFinite, FS_Subset
  <2>4. Cardinality(B) \in Nat
    BY <2>2, SendersAreFinite
  <2> QED
    BY <2>1, <2>3, <2>4
<1>4. ASSUME NEW v \in Users \ {u}, Gone(v)'
      PROVE  (late[v] + Cardinality(Owing(v)) <= quota[v])'
  <2>1. Gone(v)
    BY <1>1, <1>2, <1>4 DEF Gone
  <2>2. Owing(v)' = Owing(v)
    BY <1>1, <1>2 DEF Owing, Owes, Busy
  <2>3. late'[v] = late[v] /\ quota'[v] = quota[v]
    BY <1>1, ChangeEffect
  <2> QED
    BY <2>1, <2>2, <2>3 DEF OwedFits
<1> QED
  BY <1>3, <1>4 DEF OwedFits

LEMMA OwedStep ==
  ASSUME TypeOK, TypeOK', Shapes, Entered, OwedFits, Next
  PROVE  OwedFits'
<1>1. CASE \E s \in Senders : SenderSteps(s)
  BY <1>1, OwedBySender
<1>2. CASE \E u \in Users : SetPref(u) \/ Unlink(u)
  BY <1>2, OwedAtChange
<1>3. CASE /\ \A s \in Senders : ~ SenderSteps(s)
           /\ \A u \in Users : ~ (SetPref(u) \/ Unlink(u))
  <2>1. Others
    BY <1>3, OtherSteps
  <2>2. UNCHANGED <<muted, linked, quota, late>>
    BY <1>3
    DEF Next, SenderSteps, Listen, ConnectQueue, StopWorker, Disconnect, Exit,
        Crash, EndProcess, PostDuplicate, PostDirect, PostQueued, PostAlert,
        PostResolved, Handle, EnqueueStores, EnqueueReturns, EnqueueFails,
        QueueFaults, TaskEnds, WorkerQueue, WorkerFinishes, WorkerTakes,
        WorkerCalls, Tick, people, messages
  <2> QED
    BY <2>1, <2>2, OwedOthers
<1> QED
  BY <1>1, <1>2, <1>3

-----------------------------------------------------------------------------
(* What is still carried *)

\* The worker has one event in hand, the one its callback runs for.
Hands ==
  /\ \A d, e \in Events : phase[d] = "working" /\ phase[e] = "working" => d = e
  /\ Busy(Worker) => phase[run[Worker].event] = "working"

\* An event that met no failed call waits for a run that is left.
Unspent ==
  \A e \in Events :
    /\ phase[e] = "new" => runs[e] = 0
    /\ /\ e \notin upset
       /\ phase[e] = "waiting" \/ (phase[e] = "working" /\ ~ Busy(Worker))
       => runs[e] < Limit

\* Who changed nothing is linked and wants the events.
Willing == \A u \in Users : changes[u] = 0 => u \in linked /\ u \notin muted

\* A sender gives up only for a failed call.
FailedIsUpset ==
  \A s \in Senders :
    Busy(s) /\ run[s].stage = "failed" => run[s].event \in upset

Kept ==
  \A e \in Events, u \in Users :
    e \notin upset /\ changes[u] = 0 => Served(e, u)

\* What the worker has in hand is lost, and nothing else changes.
LEMMA DropHandsEmpties ==
  ASSUME TypeOK, Hands, DropHands
  PROVE  /\ UNCHANGED runs
         /\ \A e \in Events :
              IF phase[e] = "working" THEN phase'[e] = "lost"
                                      ELSE phase'[e] = phase[e]
<1>1. CASE \E e \in Events : phase[e] = "working"
  <2>1. PICK e \in Events : phase[e] = "working" /\ Queue!Lose(e)
    BY <1>1 DEF DropHands
  <2>2. \A d \in Events : phase[d] = "working" => d = e
    BY <2>1 DEF Hands
  <2> QED
    BY <2>1, <2>2
    DEF Queue!Lose, Queue!Goes, TypeOK, Queue!DeliveryTypeOK
<1>2. CASE ~ \E e \in Events : phase[e] = "working"
  BY <1>2 DEF DropHands, queue
<1> QED
  BY <1>1, <1>2

\* A sender stays busy, and gives up only for a failed call.
LEMMA SenderStaysBusy ==
  ASSUME TypeOK, NEW s \in Senders, SenderSteps(s)
  PROVE  /\ run'[s] \in Run
         /\ run'[s].stage = "failed" =>
              run[s].stage = "failed" \/ run[s].event \in upset'
<1> DEFINE Goal == /\ run'[s] \in Run
                   /\ run'[s].stage = "failed" =>
                        run[s].stage = "failed" \/ run[s].event \in upset'
<1> USE DEF TypeOK
<1>1. ASSUME ReadConnections(s) PROVE Goal
  <2>1. run[s] \in Run
    BY <1>1, RunGoesOn DEF ReadConnections
  <2>2. CASE run' = [run EXCEPT ![s].stage = "users", ![s].todo = linked]
    <3>1. run'[s] = [run[s] EXCEPT !.stage = "users", !.todo = linked]
      BY <2>2
    <3> QED
      BY <2>1, <3>1 DEF Run
  <2>3. CASE /\ run' = [run EXCEPT ![s].stage = "failed"]
             /\ Fault(run[s].event)
    <3>1. run'[s] = [run[s] EXCEPT !.stage = "failed"]
      BY <2>3
    <3> QED
      BY <2>1, <2>3, <3>1 DEF Run, Fault
  <2> QED
    BY <1>1, <2>2, <2>3 DEF ReadConnections
<1>2. ASSUME NEW u \in Users, ReadPrefs(s, u)
      PROVE  Goal
  <2>1. run[s] \in Run
    BY <1>2, RunGoesOn DEF ReadPrefs, Between
  <2>2. run'[s] = [run[s] EXCEPT !.todo = @ \ {u}, !.prefs = "read",
                                 !.at = IF u \in muted THEN NoUser ELSE u]
    BY <1>2 DEF ReadPrefs
  <2> QED
    BY <1>2, <2>1, <2>2 DEF Run
<1>3. ASSUME NEW u \in Users, ReadPrefsRaises(s, u)
      PROVE  Goal
  <2>1. run[s] \in Run
    BY <1>3, RunGoesOn DEF ReadPrefsRaises, Between
  <2>2. \/ run'[s] = [run[s] EXCEPT !.stage = "failed"]
        \/ run'[s] = [run[s] EXCEPT !.todo = @ \ {u}, !.prefs = "unknown",
                                    !.at = u]
    BY <1>3 DEF ReadPrefsRaises
  <2> QED
    BY <1>3, <2>1, <2>2 DEF Run, ReadPrefsRaises, Fault
<1>4. ASSUME Send(s) \/ SendFails(s) PROVE Goal
  <2>1. run[s] \in Run /\ run[s].at \in Users
    BY <1>4, RunGoesOn DEF Send, SendFails, Sending
  <2>2. CASE Send(s)
    <3> DEFINE h == run[s].hit \union {run[s].at}
    <3>1. run'[s] = [run[s] EXCEPT !.at = NoUser, !.hit = h]
      BY <2>1, <2>2 DEF Send
    <3>2. h \in SUBSET Users
      BY <2>1 DEF Run
    <3> HIDE DEF h, TypeOK
    <3>3. run'[s] \in Run /\ run'[s].stage = run[s].stage
      BY <2>1, <3>1, <3>2 DEF Run
    <3> QED
      BY <3>3
  <2>3. CASE SendFails(s)
    <3>1. run'[s] = [run[s] EXCEPT !.at = NoUser]
      BY <2>3 DEF SendFails
    <3> QED
      BY <2>1, <3>1 DEF Run
  <2> QED
    BY <1>4, <2>2, <2>3
<1> HIDE DEF TypeOK, Goal
<1>5. Goal
  BY <1>1, <1>2, <1>3, <1>4 DEF SenderSteps, Sender
<1> QED
  BY <1>5 DEF Goal

LEMMA BegunIsBusy ==
  ASSUME NEW e \in Events
  PROVE  /\ Begun(e) # NoRun
         /\ Begun(e).event = e /\ Begun(e).stage = "connections"
  BY BegunIsRun, RunAssumption DEF Begun

\* A user who is linked and wants the event stays before its sender until he
\* has it, unless a call fails.
LEMMA AheadStays ==
  ASSUME TypeOK, Shapes, NEW s \in Senders, SenderSteps(s),
         NEW e \in Events, NEW u \in Users, Ahead(s, e, u),
         e \notin upset', u \in linked, u \notin muted
  PROVE  Ahead(s, e, u)' \/ got'[e][u] > 0
<1>1. run'[s].event = e /\ Busy(s)'
  <2>1. run'[s].event = run[s].event
    BY SenderCounts DEF Shapes
  <2> QED
    BY <2>1, SenderStaysBusy, RunAssumption DEF Ahead, Busy
<1>2. NoUser \notin Users
  BY PipelineAssumption
<1>3. CASE ReadConnections(s)
  <2>1. run'[s].stage = "users" /\ run'[s].todo = linked
    <3>1. run'[s].stage # "failed"
      BY <1>3, SenderStaysBusy DEF Ahead, ReadConnections
    <3> QED
      BY <1>3, <3>1, ReadConnectionsEffect
  <2> QED
    BY <1>1, <2>1 DEF Ahead
<1>4. ASSUME NEW v \in Users, ReadPrefs(s, v) PROVE Ahead(s, e, u)'
  <2>1. /\ run[s].stage = "users" /\ run[s].at = NoUser
        /\ run'[s].todo = run[s].todo \ {v}
        /\ run'[s].at = IF v \in muted THEN NoUser ELSE v
    BY <1>4, ReadPrefsEffect DEF Between
  <2>2. u \in run[s].todo
    BY <1>2, <2>1 DEF Ahead
  <2> QED
    BY <1>1, <2>1, <2>2 DEF Ahead
<1>5. ASSUME NEW v \in Users, ReadPrefsRaises(s, v) PROVE FALSE
  BY <1>5 DEF ReadPrefsRaises, Fault, Ahead
<1>6. CASE SendFails(s)
  BY <1>6 DEF SendFails, Fault, Ahead
<1>7. CASE Send(s)
  <2>1. /\ Sending(s) /\ Shown(s)
        /\ run'[s].stage = run[s].stage /\ run'[s].todo = run[s].todo
    BY <1>7, SendEffect DEF Send
  <2>2. CASE run[s].at = u
    <3>1. got'[e][u] = got[e][u] + 1 /\ got[e][u] \in Nat
      BY <2>1, <2>2, ShownEffect DEF Ahead, TypeOK
    <3> QED
      BY <3>1
  <2>3. CASE run[s].at # u
    BY <1>1, <2>1, <2>3 DEF Ahead
  <2> QED
    BY <2>2, <2>3
<1> QED
  BY <1>3, <1>4, <1>5, <1>6, <1>7 DEF SenderSteps, Sender

\* What a step does to the queue and its worker.
WorkerView ==
  \/ UNCHANGED queue /\ (run'[Worker] = run[Worker] \/ SenderSteps(Worker))
  \/ DropHands /\ run'[Worker] = NoRun
  \/ /\ run'[Worker] = run[Worker]
     /\ \E e \in Events : \/ Queue!Accept(e)
                          \/ Queue!Take(e) /\ ~ Busy(Worker)
  \/ \E e \in Events : /\ Queue!Run(e) /\ ~ Busy(Worker)
                       /\ run'[Worker] = Begun(e)
  \/ WorkerFinishes
  \/ \E e \in Events : QueueFaults(e)

LEMMA WorkerViews ==
  ASSUME TypeOK, Next
  PROVE  WorkerView
<1> USE DEF process, WorkerView
<1>1. Worker \in Senders /\ Worker \notin Events
  BY PipelineAssumption DEF Senders
<1>2. CASE Listen \/ ConnectQueue \/ Disconnect \/ Tick
  BY <1>2 DEF Listen, ConnectQueue, Disconnect, Tick
<1>3. CASE StopWorker
  BY <1>1, <1>3 DEF StopWorker, TypeOK
<1>4. CASE Exit \/ Crash
  BY <1>1, <1>4 DEF Exit, Crash, EndProcess
<1>5. ASSUME NEW e \in Events, Posts(e) PROVE WorkerView
  <2>1. UNCHANGED queue /\ run'[Worker] = run[Worker]
    BY <1>1, <1>5
    DEF Posts, PostDuplicate, PostDirect, PostQueued, PostAlert,
        PostResolved, SendDirectly, TypeOK
  <2> QED
    BY <2>1
<1>6. ASSUME NEW e \in Events, Handle(e) PROVE WorkerView
  BY <1>6 DEF Handle, EnqueueStores, EnqueueReturns
<1>7. ASSUME NEW e \in Events, EnqueueFails(e) \/ TaskEnds(e)
      PROVE  WorkerView
  <2>1. UNCHANGED queue /\ run'[Worker] = run[Worker]
    BY <1>1, <1>7
    DEF EnqueueFails, FallBack, SendDirectly, TaskEnds, TypeOK
  <2> QED
    BY <2>1
<1>8. ASSUME NEW e \in Events, WorkerTakes(e) PROVE WorkerView
  BY <1>8 DEF WorkerTakes
<1>9. ASSUME NEW e \in Events, WorkerCalls(e) PROVE WorkerView
  BY <1>1, <1>9 DEF WorkerCalls, TypeOK
<1>10. ASSUME NEW s \in Senders, SenderSteps(s) PROVE WorkerView
  <2>1. UNCHANGED queue
    BY <1>10, SenderLeaves DEF queue
  <2>2. s # Worker => run'[Worker] = run[Worker]
    BY <1>1, <1>10
    DEF SenderSteps, Sender, ReadConnections, ReadPrefs, ReadPrefsRaises,
        Send, SendFails, TypeOK
  <2> QED
    BY <1>10, <2>1, <2>2
<1>11. ASSUME NEW u \in Users, SetPref(u) \/ Unlink(u) PROVE WorkerView
  BY <1>11 DEF SetPref, Unlink, Change
<1> QED
  BY <1>2, <1>3, <1>4, <1>5, <1>6, <1>7, <1>8, <1>9, <1>10, <1>11
  DEF Next, Posts, SenderSteps, WorkerQueue

\* The event whose callback is over goes back or is settled; the hands are
\* empty.
LEMMA FinishEffect ==
  ASSUME TypeOK, Hands, WorkerFinishes
  PROVE  /\ Busy(Worker) /\ Over(Worker) /\ run[Worker].event \in Events
         /\ run'[Worker] = NoRun /\ UNCHANGED <<runs, upset, got>>
         /\ \A d \in Events :
              d # run[Worker].event => phase'[d] = phase[d]
         /\ LET e == run[Worker].event
            IN  \/ phase'[e] = "settled" /\ Done(e)
                \/ phase'[e] = "waiting" /\ ~ Done(e)
<1>1. Worker \in Senders
  BY DEF Senders
<1>2. Busy(Worker) /\ Over(Worker) /\ run[Worker].event \in Events
  BY <1>1, RunGoesOn DEF WorkerFinishes, Over, Between, TypeOK
<1>3. run'[Worker] = NoRun /\ UNCHANGED <<upset, got>>
  BY <1>1 DEF WorkerFinishes, TypeOK, messages
<1> DEFINE e == run[Worker].event
<1>4. CASE Done(e) /\ Queue!Settle(e)
  BY <1>2, <1>3, <1>4
  DEF Queue!Settle, Queue!Goes, TypeOK, Queue!DeliveryTypeOK
<1>5. CASE ~ Done(e) /\ Queue!Requeue(e)
  BY <1>2, <1>3, <1>5
  DEF Queue!Requeue, Queue!Goes, TypeOK, Queue!DeliveryTypeOK
<1> QED
  BY <1>4, <1>5 DEF WorkerFinishes

LEMMA QueueFaultsEffect ==
  ASSUME TypeOK, NEW e \in Events, QueueFaults(e)
  PROVE  /\ phase[e] \in {"waiting", "working"}
         /\ phase'[e] \in {"waiting", "settled", "lost"}
         /\ \A d \in Events \ {e} : phase'[d] = phase[d]
         /\ e \in upset' /\ UNCHANGED <<runs, got>>
         /\ IF phase[e] = "working" THEN run'[Worker] = NoRun
                                    ELSE UNCHANGED run
<1>1. Worker \in Senders
  BY DEF Senders
<1> QED
  BY <1>1
  DEF QueueFaults, Fault, Queue!Lose, Queue!Requeue, Queue!Settle,
      Queue!Goes, TypeOK, Queue!DeliveryTypeOK, messages

\* The worker's own steps keep its event.
LEMMA WorkerKeepsEvent ==
  ASSUME TypeOK, Shapes, run'[Worker] = run[Worker] \/ SenderSteps(Worker)
  PROVE  /\ Busy(Worker)' <=> Busy(Worker)
         /\ Busy(Worker) => run'[Worker].event = run[Worker].event
<1>1. Worker \in Senders
  BY DEF Senders
<1>2. CASE SenderSteps(Worker)
  <2>1. Busy(Worker) /\ run'[Worker].event = run[Worker].event
    BY <1>1, <1>2, SenderCounts DEF Shapes
  <2>2. Busy(Worker)'
    BY <1>1, <1>2, SenderStaysBusy, RunAssumption DEF Busy
  <2> QED
    BY <2>1, <2>2
<1>3. CASE run'[Worker] = run[Worker]
  BY <1>3 DEF Busy
<1> QED
  BY <1>2, <1>3

LEMMA HandsStep ==
  ASSUME TypeOK, Shapes, Hands, Next
  PROVE  Hands'
<1> USE DEF Hands
<1>1. WorkerView
  BY WorkerViews
<1>2. Worker \in Senders /\ Limit \in Nat
  BY PipelineAssumption DEF Senders
<1>3. Busy(Worker) => run[Worker].event \in Events
  BY <1>2, RunGoesOn DEF TypeOK
<1>4. CASE UNCHANGED queue /\ (run'[Worker] = run[Worker] \/ SenderSteps(Worker))
  <2>1. /\ Busy(Worker)' => Busy(Worker)
        /\ Busy(Worker) => run'[Worker].event = run[Worker].event
    BY <1>4, WorkerKeepsEvent
  <2> QED
    BY <1>4, <2>1 DEF queue
<1>5. CASE DropHands /\ run'[Worker] = NoRun
  <2>1. \A e \in Events : phase'[e] # "working"
    BY <1>5, DropHandsEmpties
  <2> QED
    BY <1>5, <2>1 DEF Busy
<1>6. ASSUME NEW e \in Events, Queue!Accept(e), run'[Worker] = run[Worker]
      PROVE  Hands'
  <2>1. /\ phase[e] = "new" /\ phase'[e] = "waiting"
        /\ \A d \in Events \ {e} : phase'[d] = phase[d]
    BY <1>6 DEF Queue!Accept, Queue!Goes, TypeOK, Queue!DeliveryTypeOK
  <2> QED
    BY <1>3, <1>6, <2>1 DEF Busy
<1>7. ASSUME NEW e \in Events, Queue!Take(e), run'[Worker] = run[Worker],
             ~ Busy(Worker)
      PROVE  Hands'
  <2>1. /\ \A d \in Events : phase[d] # "working"
        /\ \A d \in Events \ {e} : phase'[d] = phase[d]
    BY <1>7 DEF Queue!Take, Queue!Goes, TypeOK, Queue!DeliveryTypeOK
  <2> QED
    BY <1>7, <2>1 DEF Busy
<1>8. ASSUME NEW e \in Events, Queue!Run(e), run'[Worker] = Begun(e)
      PROVE  Hands'
  BY <1>8, BegunIsBusy DEF Queue!Run
<1>9. CASE WorkerFinishes
  <2>1. \A d \in Events : phase'[d] # "working"
    BY <1>9, FinishEffect
  <2> QED
    BY <1>9, <2>1, FinishEffect DEF Busy
<1>10. ASSUME NEW e \in Events, QueueFaults(e) PROVE Hands'
  BY <1>3, <1>10, QueueFaultsEffect DEF Busy
<1> QED
  BY <1>1, <1>4, <1>5, <1>6, <1>7, <1>8, <1>9, <1>10 DEF WorkerView

LEMMA UnspentStep ==
  ASSUME TypeOK, Shapes, Hands, Unspent, Next, upset \subseteq upset'
  PROVE  Unspent'
<1> USE DEF Unspent
<1>1. WorkerView
  BY WorkerViews
<1>2. Worker \in Senders /\ Limit \in Nat \ {0}
  BY PipelineAssumption DEF Senders
<1>3. CASE UNCHANGED queue /\ (run'[Worker] = run[Worker] \/ SenderSteps(Worker))
  <2>1. Busy(Worker)' <=> Busy(Worker)
    BY <1>3, WorkerKeepsEvent
  <2> QED
    BY <1>3, <2>1 DEF queue
<1>4. CASE DropHands /\ run'[Worker] = NoRun
  BY <1>4, DropHandsEmpties
<1>5. ASSUME NEW e \in Events, Queue!Accept(e), run'[Worker] = run[Worker]
      PROVE  Unspent'
  <2>1. /\ phase[e] = "new" /\ phase'[e] = "waiting" /\ UNCHANGED runs
        /\ \A d \in Events \ {e} : phase'[d] = phase[d]
    BY <1>5 DEF Queue!Accept, Queue!Goes, TypeOK, Queue!DeliveryTypeOK
  <2> QED
    BY <1>2, <1>5, <2>1 DEF Busy
<1>6. ASSUME NEW e \in Events, Queue!Take(e), run'[Worker] = run[Worker],
             ~ Busy(Worker)
      PROVE  Unspent'
  <2>1. /\ phase[e] = "waiting" /\ phase'[e] = "working" /\ UNCHANGED runs
        /\ \A d \in Events \ {e} : phase'[d] = phase[d]
    BY <1>6 DEF Queue!Take, Queue!Goes, TypeOK, Queue!DeliveryTypeOK
  <2> QED
    BY <1>6, <2>1 DEF Busy
<1>7. ASSUME NEW e \in Events, Queue!Run(e), run'[Worker] = Begun(e)
      PROVE  Unspent'
  <2>1. /\ phase[e] = "working" /\ UNCHANGED phase
        /\ \A d \in Events \ {e} : runs'[d] = runs[d]
    BY <1>7 DEF Queue!Run, TypeOK, Queue!DeliveryTypeOK
  <2>2. Busy(Worker)'
    BY <1>7, BegunIsBusy DEF Busy
  <2> QED
    BY <2>1, <2>2
<1>8. CASE WorkerFinishes
  <2>1. \A d \in Events : runs[d] \in Nat
    BY RunsType
  <2>2. \A d \in Events : ~ Done(d) => runs[d] < Limit
    BY <1>2, <2>1 DEF Done
  <2>3. \A d \in Events : phase'[d] # "working"
    BY <1>8, FinishEffect DEF Hands
  <2> QED
    BY <1>8, <2>2, <2>3, FinishEffect
<1>9. ASSUME NEW e \in Events, QueueFaults(e) PROVE Unspent'
  <2>1. ASSUME NEW d \in Events \ {e}, d \notin upset',
               phase'[d] = "waiting" \/ (phase'[d] = "working" /\ ~ Busy(Worker)')
        PROVE  runs'[d] < Limit
    <3>1. /\ phase'[d] = phase[d] /\ d \notin upset /\ UNCHANGED runs
          /\ IF phase[e] = "working" THEN run'[Worker] = NoRun
                                     ELSE UNCHANGED run
      BY <1>9, <2>1, QueueFaultsEffect
    <3>2. phase[d] = "working" => UNCHANGED run
      BY <3>1 DEF Hands
    <3> QED
      BY <2>1, <3>1, <3>2 DEF Busy
  <2>2. e \in upset' /\ phase'[e] # "new" /\ UNCHANGED runs
        /\ \A d \in Events \ {e} : phase'[d] = phase[d]
    BY <1>9, QueueFaultsEffect
  <2> QED
    BY <2>1, <2>2
<1> QED
  BY <1>1, <1>3, <1>4, <1>5, <1>6, <1>7, <1>8, <1>9 DEF WorkerView

LEMMA WillingStep ==
  ASSUME TypeOK, Willing, Next
  PROVE  Willing'
<1> USE DEF Willing
<1>1. ASSUME NEW u \in Users, SetPref(u) \/ Unlink(u) PROVE Willing'
  <2>1. changes'[u] # 0
    BY <1>1 DEF SetPref, Unlink, Change, TypeOK
  <2>2. ASSUME NEW v \in Users \ {u}
        PROVE  /\ changes'[v] = changes[v]
               /\ v \in linked' <=> v \in linked
               /\ v \in muted' <=> v \in muted
    BY <1>1 DEF SetPref, Unlink, Change, TypeOK
  <2> QED
    BY <2>1, <2>2
<1>2. CASE UNCHANGED <<changes, people>>
  BY <1>2 DEF people
<1> QED
  BY <1>1, <1>2
  DEF Next, Listen, ConnectQueue, StopWorker, Disconnect, Exit, Crash,
      EndProcess, PostDuplicate, PostDirect, PostQueued, PostAlert,
      PostResolved, Handle, EnqueueStores, EnqueueReturns, EnqueueFails,
      QueueFaults, TaskEnds, WorkerQueue, WorkerFinishes, WorkerTakes,
      WorkerCalls, Sender, ReadConnections, ReadPrefs, ReadPrefsRaises, Send,
      SendFails, unsent, Tick

LEMMA FailedStep ==
  ASSUME TypeOK, Shapes, Entered, FailedIsUpset, Next, upset \subseteq upset'
  PROVE  FailedIsUpset'
<1> USE DEF FailedIsUpset
<1>1. ASSUME NEW s \in Senders, SenderSteps(s) PROVE FailedIsUpset'
  <2>1. /\ Busy(s) /\ run'[s].event = run[s].event
        /\ \A t \in Senders \ {s} : run'[t] = run[t]
    BY <1>1, SenderCounts DEF Shapes
  <2>2. run'[s].stage = "failed" =>
          run[s].stage = "failed" \/ run[s].event \in upset'
    BY <1>1, SenderStaysBusy
  <2> QED
    BY <2>1, <2>2 DEF Busy
<1>2. CASE \A s \in Senders : ~ SenderSteps(s)
  <2>1. Others
    BY <1>2, OtherSteps
  <2>2. ASSUME NEW s \in Senders, run'[s] \in {run[s], NoRun}, Busy(s)',
               run'[s].stage = "failed"
        PROVE  run'[s].event \in upset'
    BY <2>2 DEF Busy
  <2>3. ASSUME NEW e \in Events, Starting(e), NEW s \in Senders
        PROVE  run'[s] = run[s] \/ run'[s] = Begun(e)
    BY <2>3 DEF Starting, TypeOK
  <2> QED
    BY <2>1, <2>2, <2>3, BegunIsBusy DEF Others
<1> QED
  BY <1>1, <1>2

\* What was cut stays so.
LEMMA CutStays ==
  ASSUME TypeOK, Next, NEW e \in Events, handler[e] = "cut"
  PROVE  handler'[e] = "cut"
<1>1. ASSUME NEW d \in Events, Posts(d) PROVE handler'[e] = "cut"
  BY <1>1, PostEffect
<1>2. CASE \A d \in Events : ~ Posts(d)
  BY <1>2, LaterEffect
<1> QED
  BY <1>1, <1>2

\* What a step does to the task of an event.
TaskView(e) ==
  \/ run'[e] = run[e] /\ (e \in direct' => e \in direct)
  \/ run'[e] = Begun(e)
  \/ SenderSteps(e) /\ UNCHANGED direct
  \/ EndProcess
  \/ TaskEnds(e) /\ UNCHANGED direct

LEMMA TaskViews ==
  ASSUME TypeOK, Next, NEW e \in Events
  PROVE  TaskView(e)
<1> USE DEF process, requests, TaskView
<1>1. e \in Senders /\ e # Worker
  BY PipelineAssumption DEF Senders
<1>2. CASE Listen \/ ConnectQueue \/ Disconnect \/ StopWorker \/ Tick
  BY <1>1, <1>2
  DEF Listen, ConnectQueue, Disconnect, StopWorker, Tick, TypeOK
<1>3. CASE Exit \/ Crash
  BY <1>3 DEF Exit, Crash
<1>4. ASSUME NEW d \in Events, Posts(d) PROVE TaskView(e)
  <2>1. \/ UNCHANGED <<run, direct>>
        \/ run' = [run EXCEPT ![d] = Begun(d)] /\ direct' = direct \union {d}
    BY <1>4
    DEF Posts, PostDuplicate, PostDirect, PostQueued, PostAlert,
        PostResolved, SendDirectly
  <2> QED
    BY <1>1, <2>1 DEF TypeOK
<1>5. ASSUME NEW d \in Events, Handle(d) PROVE TaskView(e)
  BY <1>5 DEF Handle, EnqueueStores, EnqueueReturns
<1>6. ASSUME NEW d \in Events, EnqueueFails(d) PROVE TaskView(e)
  BY <1>1, <1>6 DEF EnqueueFails, FallBack, SendDirectly, TypeOK
<1>7. ASSUME NEW d \in Events, QueueFaults(d) PROVE TaskView(e)
  BY <1>1, <1>7 DEF QueueFaults, TypeOK
<1>8. ASSUME NEW d \in Events, TaskEnds(d) PROVE TaskView(e)
  BY <1>1, <1>8 DEF TaskEnds, TypeOK
<1>9. CASE WorkerQueue
  BY <1>1, <1>9
  DEF WorkerQueue, WorkerFinishes, WorkerTakes, WorkerCalls, TypeOK
<1>10. ASSUME NEW s \in Senders, SenderSteps(s) PROVE TaskView(e)
  <2>1. UNCHANGED direct
    BY <1>10, SenderLeaves
  <2>2. s # e => run'[e] = run[e]
    BY <1>1, <1>10
    DEF SenderSteps, Sender, ReadConnections, ReadPrefs, ReadPrefsRaises,
        Send, SendFails, TypeOK
  <2> QED
    BY <1>10, <2>1, <2>2
<1>11. ASSUME NEW u \in Users, SetPref(u) \/ Unlink(u) PROVE TaskView(e)
  BY <1>11 DEF SetPref, Unlink, Change
<1> QED
  BY <1>2, <1>3, <1>4, <1>5, <1>6, <1>7, <1>8, <1>9, <1>10, <1>11
  DEF Next, Posts, SenderSteps

\* A sender that is over has nobody ahead, unless a call failed.
LEMMA OverHasNobody ==
  ASSUME FailedIsUpset, NEW s \in Senders, Over(s), NEW e \in Events,
         e \notin upset, NEW u \in Users
  PROVE  ~ Ahead(s, e, u)
  BY PipelineAssumption DEF FailedIsUpset, Over, Between, Ahead

LEMMA TaskKept ==
  ASSUME TypeOK, TypeOK', Stamped, Entered, Shapes, FailedIsUpset, Willing,
         Kept, Next, upset \subseteq upset',
         \A e \in Events, u \in Users : got'[e][u] >= got[e][u],
         NEW e \in Events, NEW u \in Users, e \notin upset', changes[u] = 0,
         e \in direct', handler'[e] # "cut"
  PROVE  got'[e][u] > 0 \/ Ahead(e, e, u)'
<1>1. got[e][u] \in Nat /\ got'[e][u] \in Nat /\ got'[e][u] >= got[e][u]
  BY DEF TypeOK
<1>2. e \in Senders /\ u \in linked /\ u \notin muted /\ e \notin upset
  BY DEF Senders, Willing
<1>3. CASE e \in direct
  <2>1. got[e][u] > 0 \/ Ahead(e, e, u)
    <3>1. handler[e] # "cut"
      BY CutStays
    <3> QED
      BY <1>2, <1>3, <3>1 DEF Kept, Served
  <2>2. CASE got[e][u] > 0
    BY <1>1, <2>2
  <2>3. CASE Ahead(e, e, u)
    <3>1. CASE run'[e] = run[e]
      BY <2>3, <3>1 DEF Ahead, Busy
    <3>2. CASE run'[e] = Begun(e)
      BY <3>2, BegunIsBusy DEF Ahead, Busy
    <3>3. CASE SenderSteps(e)
      BY <1>2, <2>3, <3>3, AheadStays
    <3>4. CASE TaskEnds(e)
      BY <1>2, <2>3, <3>4, OverHasNobody DEF TaskEnds
    <3>5. CASE EndProcess
      <4>1. Busy(e)
        BY <2>3 DEF Ahead
      <4>2. handler[e] \in {"alerting", "done", "cut"}
        BY <1>3 DEF Entered, TypeOK
      <4> QED
        BY <3>5, <4>1, <4>2 DEF EndProcess
    <3> QED
      BY <3>1, <3>2, <3>3, <3>4, <3>5, TaskViews DEF TaskView
  <2> QED
    BY <2>1, <2>2, <2>3
<1>4. CASE e \notin direct
  <2>1. run'[e] = Begun(e)
    BY <1>4, TaskViews DEF TaskView, EndProcess, requests
  <2> QED
    BY <2>1, BegunIsBusy DEF Ahead, Busy
<1> QED
  BY <1>3, <1>4

LEMMA QueueKept ==
  ASSUME TypeOK, TypeOK', Shapes, Hands, Unspent, FailedIsUpset, Willing, Kept,
         Next, upset \subseteq upset',
         \A e \in Events, u \in Users : got'[e][u] >= got[e][u],
         NEW e \in Events, NEW u \in Users, e \notin upset', changes[u] = 0,
         phase'[e] \in {"waiting", "working", "settled"}
  PROVE  got'[e][u] > 0 \/ Pending(e)' \/ Ahead(Worker, e, u)'
<1> DEFINE Goal == got'[e][u] > 0 \/ Pending(e)' \/ Ahead(Worker, e, u)'
           Was == got[e][u] > 0 \/ Pending(e) \/ Ahead(Worker, e, u)
<1>1. got[e][u] \in Nat /\ got'[e][u] \in Nat /\ got'[e][u] >= got[e][u]
  BY DEF TypeOK
<1>2. Worker \in Senders /\ u \in linked /\ u \notin muted /\ e \notin upset
  BY DEF Senders, Willing
<1>3. phase[e] \in {"waiting", "working", "settled"} => Was
  BY <1>2 DEF Kept, Served
<1>4. Ahead(Worker, e, u) => phase[e] = "working" /\ Busy(Worker)
  BY DEF Ahead, Hands
<1>5. got[e][u] > 0 => Goal
  BY <1>1
<1>6. ASSUME UNCHANGED queue, run'[Worker] = run[Worker] \/ SenderSteps(Worker)
      PROVE  Goal
  <2>1. Busy(Worker)' <=> Busy(Worker)
    BY <1>6, WorkerKeepsEvent
  <2>2. UNCHANGED <<phase, runs>>
    BY <1>6 DEF queue
  <2>3. Pending(e) => Pending(e)'
    BY <2>1, <2>2 DEF Pending
  <2>4. Ahead(Worker, e, u) => Ahead(Worker, e, u)' \/ got'[e][u] > 0
    <3>1. CASE run'[Worker] = run[Worker]
      BY <3>1 DEF Ahead, Busy
    <3>2. CASE SenderSteps(Worker)
      BY <1>2, <3>2, AheadStays
    <3> QED
      BY <1>6, <3>1, <3>2
  <2> QED
    BY <1>3, <1>5, <2>2, <2>3, <2>4
<1>7. ASSUME DropHands, run'[Worker] = NoRun PROVE Goal
  <2>1. phase'[e] = phase[e] /\ phase[e] # "working" /\ UNCHANGED runs
    BY <1>7, DropHandsEmpties
  <2>2. Pending(e) => Pending(e)'
    BY <2>1 DEF Pending
  <2> QED
    BY <1>3, <1>4, <1>5, <2>1, <2>2
<1>8. ASSUME NEW d \in Events, Queue!Accept(d), run'[Worker] = run[Worker]
      PROVE  Goal
  <2>1. /\ phase[d] = "new" /\ phase'[d] = "waiting" /\ UNCHANGED runs
        /\ \A c \in Events \ {d} : phase'[c] = phase[c]
    BY <1>8 DEF Queue!Accept, Queue!Goes, TypeOK, Queue!DeliveryTypeOK
  <2>2. CASE d = e
    <3>1. runs'[e] < Limit
      BY <2>1, <2>2, PipelineAssumption DEF Unspent
    <3> QED
      BY <2>1, <2>2, <3>1 DEF Pending
  <2>3. CASE d # e
    <3>1. phase'[e] = phase[e] /\ UNCHANGED runs
      BY <2>1, <2>3
    <3>2. /\ Pending(e) => Pending(e)'
          /\ Ahead(Worker, e, u) => Ahead(Worker, e, u)'
      BY <1>8, <3>1 DEF Pending, Ahead, Busy
    <3> QED
      BY <1>3, <1>5, <3>1, <3>2
  <2> QED
    BY <2>2, <2>3
<1>9. ASSUME NEW d \in Events, Queue!Take(d), run'[Worker] = run[Worker],
             ~ Busy(Worker)
      PROVE  Goal
  <2>1. /\ phase[d] = "waiting" /\ phase'[d] = "working" /\ UNCHANGED runs
        /\ \A c \in Events \ {d} : phase'[c] = phase[c]
    BY <1>9 DEF Queue!Take, Queue!Goes, TypeOK, Queue!DeliveryTypeOK
  <2>2. Pending(e) => Pending(e)'
    BY <1>9, <2>1 DEF Pending, Busy
  <2>3. phase[e] \in {"waiting", "working", "settled"}
    BY <2>1
  <2> QED
    BY <1>3, <1>4, <1>5, <1>9, <2>2, <2>3
<1>10. ASSUME NEW d \in Events, Queue!Run(d), run'[Worker] = Begun(d),
              ~ Busy(Worker)
       PROVE  Goal
  <2>1. /\ phase[d] = "working" /\ UNCHANGED phase
        /\ \A c \in Events \ {d} : runs'[c] = runs[c]
    BY <1>10 DEF Queue!Run, TypeOK, Queue!DeliveryTypeOK
  <2>2. CASE d = e
    BY <1>10, <2>2, BegunIsBusy DEF Ahead, Busy
  <2>3. CASE d # e
    <3>1. phase[e] # "working"
      BY <2>1, <2>3 DEF Hands
    <3>2. Pending(e) => Pending(e)'
      BY <2>1, <2>3, <3>1 DEF Pending
    <3> QED
      BY <1>3, <1>4, <1>5, <1>10, <2>1, <3>2
  <2> QED
    BY <2>2, <2>3
<1>11. ASSUME WorkerFinishes PROVE Goal
  <2>1. /\ Busy(Worker) /\ Over(Worker) /\ run'[Worker] = NoRun
        /\ UNCHANGED runs /\ phase[run[Worker].event] = "working"
    BY <1>11, FinishEffect DEF Hands
  <2>2. ~ Ahead(Worker, e, u)
    BY <1>2, <2>1, OverHasNobody
  <2>3. CASE e = run[Worker].event
    <3>1. got[e][u] > 0
      BY <1>3, <2>1, <2>2, <2>3 DEF Pending
    <3> QED
      BY <1>5, <3>1
  <2>4. CASE e # run[Worker].event
    <3>1. phase'[e] = phase[e]
      BY <1>11, <2>4, FinishEffect
    <3>2. Pending(e) => Pending(e)'
      BY <2>1, <3>1 DEF Pending
    <3> QED
      BY <1>3, <1>5, <2>2, <3>1, <3>2
  <2> QED
    BY <2>3, <2>4
<1>12. ASSUME NEW d \in Events, QueueFaults(d) PROVE Goal
  <2>1. /\ d # e /\ phase'[e] = phase[e] /\ UNCHANGED runs
        /\ IF phase[d] = "working" THEN run'[Worker] = NoRun
                                   ELSE UNCHANGED run
    BY <1>12, QueueFaultsEffect
  <2>2. CASE phase[d] = "working"
    <3>1. phase[e] # "working"
      BY <2>1, <2>2 DEF Hands
    <3>2. Pending(e) => Pending(e)'
      BY <2>1, <3>1 DEF Pending
    <3> QED
      BY <1>3, <1>4, <1>5, <2>1, <3>1, <3>2
  <2>3. CASE phase[d] # "working"
    <3>1. /\ Pending(e) => Pending(e)'
          /\ Ahead(Worker, e, u) => Ahead(Worker, e, u)'
      BY <2>1, <2>3 DEF Pending, Ahead, Busy
    <3> QED
      BY <1>3, <1>5, <2>1, <3>1
  <2> QED
    BY <2>2, <2>3
<1> HIDE DEF Goal
<1>13. Goal
  BY <1>6, <1>7, <1>8, <1>9, <1>10, <1>11, <1>12, WorkerViews DEF WorkerView
<1> QED
  BY <1>13 DEF Goal

LEMMA KeptStep ==
  ASSUME TypeOK, TypeOK', Stamped, Entered, Shapes, Hands, Unspent,
         FailedIsUpset, Willing, Kept, Next, upset \subseteq upset',
         \A e \in Events, u \in Users : got'[e][u] >= got[e][u]
  PROVE  Kept'
<1>1. ASSUME NEW e \in Events, NEW u \in Users, e \notin upset',
             changes'[u] = 0
      PROVE  Served(e, u)'
  <2>1. changes[u] = 0
    <3>1. CASE UNCHANGED changes
      BY <1>1, <3>1
    <3>2. ASSUME NEW v \in Users, SetPref(v) \/ Unlink(v) PROVE changes[u] = 0
      BY <1>1, <3>2 DEF SetPref, Unlink, Change, TypeOK
    <3> QED
      BY <3>1, <3>2
      DEF Next, Listen, ConnectQueue, StopWorker, Disconnect, Exit, Crash,
          EndProcess, PostDuplicate, PostDirect, PostQueued, PostAlert,
          PostResolved, Handle, EnqueueStores, EnqueueReturns, EnqueueFails,
          QueueFaults, TaskEnds, WorkerQueue, WorkerFinishes, WorkerTakes,
          WorkerCalls, Sender, ReadConnections, ReadPrefs, ReadPrefsRaises,
          Send, SendFails, unsent, Tick
  <2> QED
    BY <1>1, <2>1, TaskKept, QueueKept DEF Served
<1> QED
  BY <1>1 DEF Kept

-----------------------------------------------------------------------------
(* What a stop takes *)

\* Only a connected queue has a worker.
Idle == \A e \in Events : phase[e] = "working" => svc = "queued"

\* What was cut off, or lost without a failed call, was so by the end of its
\* process.
LostByStops ==
  \A e \in Events :
    /\ handler[e] = "cut" => life[e] < starts \/ svc = "down"
    /\ phase[e] = "lost" /\ e \notin upset => Stopped(e)
    /\ life[e] =< starts

LostToStops == {e \in Events : phase[e] = "lost" /\ e \notin upset}

LEMMA CarriedIsAccounted ==
  ASSUME TypeOK, LostByStops, NEW e \in Events, Carried(e)
  PROVE  Accounted(e)
<1>1. phase[e] \in {"new", "waiting", "working", "settled", "lost"}
  BY DEF TypeOK, Queue!DeliveryTypeOK, Queue!Phases
<1> QED
  BY <1>1 DEF Carried, Accounted, OnItsWay, Lost, LostByStops, Stopped

\* How a step moves the process and the queue together.
StopView ==
  \/ /\ DropHands /\ svc # "down" /\ UNCHANGED <<upset, starts>>
     /\ svc' = "down" \/ (svc' = "stopping" /\ UNCHANGED handler)
     /\ stops' = stops + 1 \/ (UNCHANGED stops /\ svc = "closing")
  \/ /\ UNCHANGED <<phase, handler, upset, stops>>
     /\ \/ svc = "down" /\ svc' = "direct" /\ starts' = starts + 1
        \/ svc = "direct" /\ svc' = "queued" /\ UNCHANGED starts
        \/ svc = "stopping" /\ svc' = "closing" /\ UNCHANGED starts
  \/ /\ UNCHANGED <<svc, starts, stops>> /\ upset \subseteq upset'
     /\ \A e \in Events : handler'[e] = "cut" => handler[e] = "cut"
     /\ \A e \in Events :
          /\ phase'[e] = "lost" => phase[e] = "lost" \/ e \in upset'
          /\ phase'[e] = "working" => phase[e] = "working" \/ svc = "queued"

LEMMA StopViews ==
  ASSUME TypeOK, Next
  PROVE  StopView
<1> USE DEF process
<1> DEFINE Goes3 ==
      /\ UNCHANGED <<svc, starts, stops>> /\ upset \subseteq upset'
      /\ \A e \in Events : handler'[e] = "cut" => handler[e] = "cut"
      /\ \A e \in Events :
           /\ phase'[e] = "lost" => phase[e] = "lost" \/ e \in upset'
           /\ phase'[e] = "working" => phase[e] = "working" \/ svc = "queued"
<1>1. ASSUME Listen \/ ConnectQueue \/ Disconnect PROVE StopView
  BY <1>1 DEF Listen, ConnectQueue, Disconnect, StopView, queue
<1>2. CASE StopWorker
  BY <1>2 DEF StopWorker, StopView
<1>3. CASE Exit \/ Crash
  BY <1>3 DEF Exit, Crash, EndProcess, StopView
<1>4. ASSUME UNCHANGED <<svc, starts, stops, upset, phase, handler>> PROVE Goes3
  BY <1>4
<1>5. ASSUME NEW e \in Events, Posts(e) PROVE Goes3
  <2>1. /\ handler[e] = "none" /\ UNCHANGED <<svc, starts, phase>>
        /\ \A d \in Events \ {e} : handler'[d] = handler[d]
    BY <1>5, PostEffect
  <2>2. UNCHANGED <<stops, upset>> /\ handler'[e] # "cut"
    BY <1>5
    DEF Posts, PostDuplicate, PostDirect, PostQueued, PostAlert, PostResolved,
        SendDirectly, TypeOK
  <2> QED
    BY <2>1, <2>2
<1>6. ASSUME NEW e \in Events, EnqueueStores(e) PROVE Goes3
  BY <1>6 DEF EnqueueStores, Queue!Accept, Queue!Goes, TypeOK,
              Queue!DeliveryTypeOK
<1>7. ASSUME NEW e \in Events,
             EnqueueReturns(e) \/ EnqueueFails(e) \/ TaskEnds(e)
      PROVE  Goes3
  BY <1>7
  DEF EnqueueReturns, EnqueueFails, TaskEnds, FallBack, SendDirectly, Fault,
      NoFault, queue, TypeOK
<1>8. ASSUME NEW e \in Events, WorkerTakes(e) \/ WorkerCalls(e) PROVE Goes3
  <2>1. UNCHANGED <<svc, starts, stops, upset, handler>>
    BY <1>8 DEF WorkerTakes, WorkerCalls
  <2>2. svc = "queued"
    BY <1>8 DEF WorkerTakes, WorkerCalls
  <2>3. \A d \in Events : phase'[d] = "lost" => phase[d] = "lost"
    BY <1>8
    DEF WorkerTakes, WorkerCalls, Queue!Take, Queue!Run, Queue!Goes, TypeOK,
        Queue!DeliveryTypeOK
  <2> QED
    BY <2>1, <2>2, <2>3
<1>9. ASSUME WorkerFinishes PROVE Goes3
  <2>1. UNCHANGED <<svc, starts, stops, upset, handler>>
    BY <1>9 DEF WorkerFinishes
  <2>2. PICK e \in Events : Queue!Settle(e) \/ Queue!Requeue(e)
    BY <1>9, RunGoesOn DEF WorkerFinishes, Over, Between, Senders, TypeOK
  <2>3. \A d \in Events : phase'[d] \in {phase[d], "settled", "waiting"}
    BY <2>2
    DEF Queue!Settle, Queue!Requeue, Queue!Goes, TypeOK, Queue!DeliveryTypeOK
  <2> QED
    BY <2>1, <2>3
<1>10. ASSUME NEW e \in Events, QueueFaults(e) PROVE Goes3
  <2>1. UNCHANGED <<svc, starts, stops, handler>> /\ upset \subseteq upset'
    BY <1>10 DEF QueueFaults, Fault
  <2> QED
    BY <1>10, <2>1, QueueFaultsEffect
<1>11. ASSUME NEW s \in Senders, SenderSteps(s) PROVE Goes3
  <2>1. UNCHANGED <<svc, starts, stops, phase, handler>> /\ upset \subseteq upset'
    BY <1>11
    DEF SenderSteps, Sender, ReadConnections, ReadPrefs, ReadPrefsRaises, Send,
        SendFails, unsent, queue, Fault, NoFault
  <2> QED
    BY <2>1
<1>12. ASSUME Tick \/ \E u \in Users : SetPref(u) \/ Unlink(u) PROVE Goes3
  <2>1. UNCHANGED <<svc, starts, stops, upset, phase, handler>>
    BY <1>12 DEF Tick, SetPref, Unlink, Change, queue
  <2> QED
    BY <1>4, <2>1
<1>13. Goes3 => StopView
  BY DEF StopView
<1> HIDE DEF Goes3
<1> QED
  BY <1>1, <1>2, <1>3, <1>5, <1>6, <1>7, <1>8, <1>9, <1>10, <1>11, <1>12,
     <1>13 DEF Next, Posts, Handle, WorkerQueue, SenderSteps

LEMMA IdleStep ==
  ASSUME TypeOK, Hands, Idle, Next
  PROVE  Idle'
<1>1. CASE DropHands
  BY <1>1, DropHandsEmpties DEF Idle
<1>2. CASE ~ DropHands
  BY <1>2, StopViews DEF StopView, Idle
<1> QED
  BY <1>1, <1>2

LEMMA LostStep ==
  ASSUME TypeOK, Hands, Entered, LostByStops, Next
  PROVE  LostByStops'
<1> SUFFICES ASSUME NEW e \in Events
             PROVE  /\ handler'[e] = "cut" => life'[e] < starts' \/ svc' = "down"
                    /\ phase'[e] = "lost" /\ e \notin upset' => Stopped(e)'
                    /\ life'[e] =< starts'
  BY DEF LostByStops
<1>1. /\ life[e] \in Nat /\ starts \in Nat /\ life[e] =< starts
      /\ handler[e] = "cut" => life[e] < starts \/ svc = "down"
      /\ phase[e] = "lost" /\ e \notin upset =>
           life[e] < starts \/ svc \in {"stopping", "closing", "down"}
  BY DEF LostByStops, Stopped, TypeOK
<1>2. ASSUME Posts(e)
      PROVE  /\ life'[e] = starts' /\ starts' = starts
             /\ handler'[e] # "cut" /\ phase'[e] = "new"
  <2>1. handler[e] = "none" /\ UNCHANGED <<starts, phase>>
        /\ life'[e] = starts /\ handler'[e] # "cut"
    BY <1>2, PostEffect DEF Lets, Drops
  <2> QED
    BY <2>1 DEF Entered
<1>3. ASSUME ~ Posts(e) PROVE life'[e] = life[e]
  <2>1. ASSUME NEW d \in Events, Posts(d) PROVE life'[e] = life[e]
    BY <1>3, <2>1, PostEffect
  <2> QED
    BY <2>1, LaterEffect
<1>4. CASE Posts(e)
  BY <1>1, <1>2, <1>4
<1>5. CASE ~ Posts(e)
  <2>1. CASE /\ DropHands /\ UNCHANGED <<upset, starts>>
             /\ svc' = "down" \/ (svc' = "stopping" /\ UNCHANGED handler)
             /\ svc # "down"
    BY <1>1, <1>3, <1>5, <2>1 DEF Stopped
  <2>2. CASE /\ UNCHANGED <<phase, handler, upset>>
             /\ \/ svc = "down" /\ svc' = "direct" /\ starts' = starts + 1
                \/ svc = "direct" /\ svc' = "queued" /\ UNCHANGED starts
                \/ svc = "stopping" /\ svc' = "closing" /\ UNCHANGED starts
    BY <1>1, <1>3, <1>5, <2>2 DEF Stopped
  <2>3. CASE /\ UNCHANGED <<svc, starts>> /\ upset \subseteq upset'
             /\ handler'[e] = "cut" => handler[e] = "cut"
             /\ phase'[e] = "lost" => phase[e] = "lost" \/ e \in upset'
    BY <1>1, <1>3, <1>5, <2>3 DEF Stopped
  <2> QED
    BY <2>1, <2>2, <2>3, StopViews DEF StopView
<1> QED
  BY <1>4, <1>5

LEMMA CheapStep ==
  ASSUME TypeOK, TypeOK', Hands, Idle, StopsLoseOne, Next
  PROVE  StopsLoseOne'
<1> DEFINE c == Cardinality(LostToStops)
           d == Cardinality(LostToStops')
<1>1. LostToStops \subseteq Events /\ LostToStops' \subseteq Events
  BY DEF LostToStops
<1>2. /\ IsFiniteSet(LostToStops) /\ IsFiniteSet(LostToStops')
      /\ c \in Nat /\ d \in Nat
  BY <1>1, PipelineAssumption, FS_Subset, FS_CardinalityType
<1>3. c <= stops
  BY DEF StopsLoseOne, LostToStops
<1>4. stops \in Nat /\ stops' \in Nat
  BY DEF TypeOK
<1>5. ASSUME LostToStops' \subseteq LostToStops, stops' >= stops
      PROVE  d <= stops'
  <2>1. d <= c
    BY <1>2, <1>5, FS_Subset
  <2> HIDE DEF c, d
  <2> QED
    BY <1>2, <1>3, <1>4, <1>5, <2>1
<1>6. CASE /\ UNCHANGED <<phase, upset, stops>>
  BY <1>4, <1>5, <1>6 DEF LostToStops, StopsLoseOne
<1>7. CASE /\ upset \subseteq upset' /\ UNCHANGED stops
           /\ \A e \in Events :
                phase'[e] = "lost" => phase[e] = "lost" \/ e \in upset'
  BY <1>4, <1>5, <1>7 DEF LostToStops, StopsLoseOne
<1>8. CASE /\ DropHands /\ UNCHANGED upset
           /\ stops' = stops + 1 \/ (UNCHANGED stops /\ svc = "closing")
  <2>1. \A e \in Events : IF phase[e] = "working" THEN phase'[e] = "lost"
                                                  ELSE phase'[e] = phase[e]
    BY <1>8, DropHandsEmpties
  <2>2. CASE \A e \in Events : phase[e] # "working"
    BY <1>4, <1>5, <1>8, <2>1, <2>2 DEF LostToStops, StopsLoseOne
  <2>3. ASSUME NEW e \in Events, phase[e] = "working" PROVE d <= stops'
    <3>1. stops' = stops + 1
      BY <1>8, <2>3 DEF Idle
    <3>2. LostToStops' \subseteq LostToStops \union {e}
      BY <1>8, <2>1, <2>3 DEF LostToStops, Hands
    <3>3. /\ IsFiniteSet(LostToStops \union {e})
          /\ \/ Cardinality(LostToStops \union {e}) = c
             \/ Cardinality(LostToStops \union {e}) = c + 1
      BY <1>2, FS_AddElement
    <3>4. d <= Cardinality(LostToStops \union {e})
      BY <3>2, <3>3, FS_Subset
    <3> HIDE DEF c, d
    <3> QED
      BY <1>2, <1>3, <1>4, <3>1, <3>3, <3>4
  <2> QED
    BY <2>2, <2>3 DEF StopsLoseOne, LostToStops
<1> QED
  BY <1>6, <1>7, <1>8, StopViews DEF StopView

-----------------------------------------------------------------------------
(* The inductive invariant and the theorems *)

IInv ==
  /\ TypeOK
  /\ Stamped /\ Marked /\ Entered
  /\ OncePerWindow /\ TwinsCarried
  /\ Shapes /\ Counted /\ OwedFits
  /\ Hands /\ Unspent /\ Willing /\ FailedIsUpset /\ Kept
  /\ Idle /\ LostByStops /\ StopsLoseOne

LEMMA InitIInv == Init => IInv
<1> SUFFICES ASSUME Init PROVE IInv
  OBVIOUS
<1>1. TypeOK
  BY InitTypes
<1>2. \A e \in Events : handler[e] = "none" /\ ~ Admitted(e)
  BY DEF Init, Admitted
<1>3. /\ now = 1 /\ svc = "down" /\ recent = NoMarks /\ direct = {}
      /\ linked = Users /\ muted = {}
  BY DEF Init
<1>4. \A e \in Events : phase[e] = "new" /\ runs[e] = 0
  BY DEF Init, Queue!DeliveryInit
<1>5. \A s \in Senders : ~ Busy(s)
  BY DEF Init, Busy
<1>6. Stamped
  BY <1>2, <1>3 DEF Stamped
<1>7. Marked
  <2>1. \A k \in Kinds, f \in Prints : ~ (recent[k][f] > 0)
    BY <1>3 DEF NoMarks
  <2> QED
    BY <1>3, <2>1 DEF Marked
<1>8. Entered
  BY <1>2, <1>3, <1>4 DEF Entered
<1>9. OncePerWindow /\ TwinsCarried
  BY <1>2 DEF OncePerWindow, TwinsCarried
<1>10. Shapes
  BY <1>5 DEF Shapes, Shape
<1>11. Counted
  <2>1. \A e \in Events, u \in Users :
          /\ got[e][u] = 0 /\ Owed(Worker, e, u) = 0 /\ Owed(e, e, u) = 0
          /\ Copies(e) = 0
    BY <1>3, <1>4, <1>5 DEF Init, Owed, Ahead, Copies, Senders
  <2> QED
    BY <2>1 DEF Counted
<1>12. Idle /\ LostByStops /\ StopsLoseOne
  <2>1. Idle /\ LostByStops
    BY <1>2, <1>4 DEF Init, Idle, LostByStops
  <2>2. LostToStops = {}
    BY <1>4 DEF LostToStops
  <2>3. stops = 0
    BY DEF Init
  <2> QED
    BY <2>1, <2>2, <2>3, FS_EmptySet DEF StopsLoseOne, LostToStops
<1>13. OwedFits
  BY <1>3 DEF OwedFits, Gone
<1>14. Hands /\ Unspent /\ FailedIsUpset
  <2>1. Worker \in Senders
    BY DEF Senders
  <2> QED
    BY <1>4, <1>5, <2>1, PipelineAssumption DEF Hands, Unspent, FailedIsUpset
<1>15. Willing /\ Kept
  BY <1>3, <1>4 DEF Willing, Kept, Served
<1> QED
  BY <1>1, <1>6, <1>7, <1>8, <1>9, <1>10, <1>11, <1>12, <1>13, <1>14, <1>15
  DEF IInv

LEMMA StutterIInv ==
  ASSUME IInv, UNCHANGED vars
  PROVE  IInv'
<1>1. TypeOK'
  BY TypeStep DEF IInv
<1> USE DEF IInv, vars, process, queue, people, requests, messages
<1>2. Stamped' /\ Marked' /\ Entered' /\ OncePerWindow' /\ TwinsCarried'
  BY DEF Stamped, Marked, Entered, OncePerWindow, TwinsCarried,
     Admitted, Carried, SameStorm
<1>3. Shapes' /\ Counted'
  BY DEF Shapes, Shape, Counted, Owed, Ahead, Copies, Busy
<1>4. Idle' /\ LostByStops' /\ StopsLoseOne'
  BY DEF Idle, LostByStops, Stopped, StopsLoseOne
<1>5. OwedFits'
  <2>1. \A u \in Users : Owing(u)' = Owing(u)
    BY DEF Owing, Owes, Busy
  <2> QED
    BY <2>1 DEF OwedFits, Gone
<1>6. Hands' /\ Unspent' /\ Willing' /\ FailedIsUpset' /\ Kept'
  BY DEF Hands, Unspent, Willing, FailedIsUpset, Kept, Served, Pending, Ahead,
     Busy
<1> QED
  BY <1>1, <1>2, <1>3, <1>4, <1>5, <1>6

LEMMA StepIInv ==
  ASSUME IInv, Next
  PROVE  IInv'
<1> USE DEF IInv
<1>1. TypeOK'
  BY TypeStep
<1>2. Stamped' /\ Marked' /\ Entered'
  BY StampedStep, MarkedStep, EnteredStep
<1>3. /\ OncePerWindow' /\ TwinsCarried'
      /\ Idle' /\ LostByStops'
  BY <1>2, OnceStep, SuppressedStep, IdleStep, LostStep
<1>4. CASE \E s \in Senders : SenderSteps(s)
  <2>1. Shapes' /\ Counted'
    BY <1>1, <1>4, SenderShape, CountedSender
  <2>2. \A e \in Events, u \in Users : got'[e][u] >= got[e][u]
    <3>1. PICK s \in Senders : SenderSteps(s)
      BY <1>4
    <3>2. Shape(s)
      BY DEF Shapes
    <3> HIDE DEF IInv
    <3>3. \A e \in Events, u \in Users :
            got'[e][u] = got[e][u] \/ got'[e][u] = got[e][u] + 1
      BY <3>1, <3>2, SenderCounts DEF IInv
    <3> QED
      BY <3>3 DEF IInv, TypeOK
  <2>3. upset \subseteq upset'
    BY <1>4, SenderLeaves
  <2>4. /\ Hands' /\ Unspent' /\ Willing' /\ FailedIsUpset' /\ Kept'
    BY <1>1, <2>2, <2>3, HandsStep, UnspentStep, WillingStep, FailedStep,
       KeptStep
  <2> QED
    BY <1>1, <1>2, <1>3, <2>1, <2>2, <2>3, <2>4, OwedStep, CheapStep
<1>5. CASE \A s \in Senders : ~ SenderSteps(s)
  <2>1. Others /\ UNCHANGED got
    BY <1>5, OtherSteps
  <2>2. Shapes' /\ Counted'
    BY <1>1, <2>1, ShapeOthers, CountedOthers
  <2>3. /\ \A e \in Events, u \in Users : got'[e][u] >= got[e][u]
        /\ upset \subseteq upset'
    BY <2>1 DEF TypeOK, Others
  <2>4. /\ Hands' /\ Unspent' /\ Willing' /\ FailedIsUpset' /\ Kept'
    BY <1>1, <2>3, HandsStep, UnspentStep, WillingStep, FailedStep, KeptStep
  <2> QED
    BY <1>1, <1>2, <1>3, <2>2, <2>3, <2>4, OwedStep, CheapStep
<1> QED
  BY <1>4, <1>5

LEMMA InvHolds == Spec => []IInv
<1>1. IInv /\ [Next]_vars => IInv'
  BY StepIInv, StutterIInv
<1> QED
  BY InitIInv, <1>1, PTL DEF Spec

\* Every variable keeps its type.
THEOREM TypesHold == Spec => []TypeOK
<1>1. IInv => TypeOK
  BY DEF IInv
<1> QED
  BY InvHolds, <1>1, PTL

\* One process lets through one request per fingerprint and window: the handler
\* marks the fingerprint before its first await, so every request it let
\* through is no younger than the mark, and a mark in the window stops the next.
THEOREM StormsAreThinned == Spec => []OncePerWindow
<1>1. IInv => OncePerWindow
  BY DEF IInv
<1> QED
  BY InvHolds, <1>1, PTL

\* A dropped duplicate has a twin, let through within the window by the same
\* process, that is on its way as long as this process is neither stopped nor
\* down, unless the queue lost it to a failed call: a mark is always the stamp of
\* such a request, and only the end of a process cuts one off.
THEOREM NothingIsSwallowed == Spec => []SuppressedIsCarried
<1>1. IInv => SuppressedIsCarried
  <2> SUFFICES ASSUME IInv, NEW d \in Events, handler[d] = "dropped"
               PROVE  \E e \in Events :
                        /\ Admitted(e) /\ SameStorm(d, e) /\ Accounted(e)
                        /\ stamp[d] - stamp[e] < WindowOf(via[d])
    BY DEF SuppressedIsCarried
  <2>1. PICK e \in Events : /\ Admitted(e) /\ SameStorm(d, e) /\ Carried(e)
                            /\ stamp[d] - stamp[e] < WindowOf(via[d])
    BY DEF IInv, TwinsCarried
  <2>2. Accounted(e)
    BY <2>1, CarriedIsAccounted DEF IInv
  <2> QED
    BY <2>1, <2>2
<1> QED
  BY InvHolds, <1>1, PTL

\* No user is sent more copies of an event than the queue ran its callback, and
\* one more for the direct task: what is sent and what is still ahead together
\* never exceed that.
THEOREM CopiesAreBounded == Spec => []BoundedCopies
<1>1. IInv => BoundedCopies
  <2> SUFFICES ASSUME IInv PROVE BoundedCopies
    OBVIOUS
  <2>1. ASSUME NEW e \in Events, NEW u \in Users
        PROVE  got[e][u] <= Copies(e)
    <3>1. /\ got[e][u] \in Nat /\ Copies(e) \in Nat
          /\ Owed(Worker, e, u) \in {0, 1} /\ Owed(e, e, u) \in {0, 1}
      BY RunsType DEF IInv, TypeOK, Copies, Owed
    <3>2. got[e][u] + Owed(Worker, e, u) + Owed(e, e, u) <= Copies(e)
      BY DEF IInv, Counted
    <3> QED
      BY <3>1, <3>2
  <2> QED
    BY <2>1 DEF BoundedCopies, IInv, Entered
<1> QED
  BY InvHolds, <1>1, PTL

\* A stop or a crash costs the queue the event in its worker's hands and no
\* other: only a connected queue has a worker, who has one event in hand.
THEOREM StopsAreCheap == Spec => []StopsLoseOne
<1>1. IInv => StopsLoseOne
  BY DEF IInv
<1> QED
  BY InvHolds, <1>1, PTL

\* A user who opts out gets at most what was under way to him: the messages sent
\* since and the senders that still owe him one fit that number.
THEOREM OptOutHolds == Spec => []OptOutIsHonoured
<1>1. IInv => OptOutIsHonoured
  <2> SUFFICES ASSUME IInv, NEW u \in Users, Gone(u)
               PROVE  late[u] <= quota[u]
    BY DEF OptOutIsHonoured
  <2>1. late[u] + Cardinality(Owing(u)) <= quota[u]
    BY DEF IInv, OwedFits
  <2>2. late[u] \in Nat /\ quota[u] \in Nat /\ Cardinality(Owing(u)) \in Nat
    BY OwingIsFinite DEF IInv, TypeOK
  <2> QED
    BY <2>1, <2>2
<1> QED
  BY InvHolds, <1>1, PTL

\* An event that was let through, and for which no call failed, is on its way or
\* was cut off by the end of its process.  While the queue has it, whoever stays
\* linked and wants it has it, or there is a run left, or the worker has him
\* ahead; and a task that was not cut off has reached him or has him ahead.
THEOREM NothingIsForgotten == Spec => []OwedIsCarried
<1>1. IInv => OwedIsCarried
  <2>1. ASSUME IInv, NEW e \in Events, Admitted(e) PROVE Accounted(e)
    BY <2>1, CarriedIsAccounted DEF IInv, Entered
  <2> QED
    BY <2>1 DEF IInv, Kept, OwedIsCarried
<1> QED
  BY InvHolds, <1>1, PTL
=============================================================================
