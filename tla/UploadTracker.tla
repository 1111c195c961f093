---------------------------- MODULE UploadTracker ----------------------------
(***************************************************************************)
(* apps/upload_notifier: the Nextcloud app that reports uploads.           *)
(* Listeners run in the PHP process of each request, before and after      *)
(* Nextcloud writes the file, and keep one row per path in                 *)
(* oc_upload_notifier_pending; a background job looks for rows that stay.  *)
(*                                                                         *)
(* Requests and job share the table only: a SELECT and the statement that  *)
(* follows it are two actions, and so is each POST to Watchtower.          *)
(* Nextcloud's file locks are shared while listeners run, so requests for  *)
(* one path interleave.  Both event types are taken to be enabled.         *)
(***************************************************************************)
EXTENDS Integers, Sequences, FiniteSets, Functions

CONSTANTS
  Uploads,          (* Requests, each run once.                            *)
  Paths,            (* Paths of user files.                                *)
  PathOf,           (* The file a request writes.                          *)
  NoPath,           (* Not a path: the job is not at a row.                *)
  Window,           (* The window of complete, in ticks.                   *)
  Ttl,              (* failure_ttl, in ticks.                              *)
  MaxFaults         (* Bound: failing statements, killed processes.        *)

ASSUME TrackerAssumption ==
  /\ PathOf \in [Uploads -> Paths]
  /\ NoPath \notin Paths
  /\ {Window, Ttl, MaxFaults} \subseteq Nat
  /\ Window <= Ttl

VARIABLES
  rows,     (* The rows of each path: event and age of started_at.         *)
  files,    (* Paths with a file: Nextcloud's storage.                     *)
  (*************************************************************************)
  (* PHP processes                                                         *)
  (*************************************************************************)
  todo,     (* What is left of a request: its hooks and the write.         *)
  at,       (* The next statement of the current hook.                     *)
  job,      (* The job: "due", reporting and clearing stale rows, or at    *)
            (* "rest" till the clock moves on.                             *)
  (*************************************************************************)
  (* History                                                               *)
  (*************************************************************************)
  fate,     (* "none" before a request; "open", "written", "aborted",      *)
            (* "unseen".                                                   *)
  told,     (* UPLOAD_COMPLETED reports of a request.                      *)
  informed, (* Requests for whose path UPLOAD_FAILED came since they began. *)
  excused,  (* Requests whose row another request completed, or the job    *)
            (* took away without reporting them.                           *)
  twins,    (* Paths that ever had two rows: both requests found none.     *)
  since,    (* Age of the begin of a request that has not completed.       *)
  decided,  (* Age of the last decision to report a path as completed.     *)
  faults

requests == <<todo, at>>
ages     == <<since, decided>>
history  == <<fate, told, informed, excused, twins, ages, faults>>
vars     == <<rows, files, requests, job, history>>

-----------------------------------------------------------------------------
(* Data *)

\* Bound: ages stop one tick after the longest time the code compares with.
Old == Ttl + 1

Starts == {"create", "write"}
Ends   == {"created", "written", "renamed"}

Row == [event: Starts \union {"completed"}, age: 0..Old]

\* The hooks of Nextcloud around one write.
Hooks(kind) ==
  CASE kind = "create"  -> <<"create", "write", "transfer", "created",
                             "written">>
    [] kind = "write"   -> <<"write", "transfer", "written">>
    [] kind = "chunked" -> <<"transfer", "renamed">>

Resting == [step |-> "rest", left |-> [p \in Paths |-> 0], path |-> NoPath]

Hook(u) == Head(todo[u])

Active(u) == todo[u] # <<>>

InHook(u, hooks) == Active(u) /\ Hook(u) \in hooks /\ at[u] = "hook"

HookEnds(u) ==
  /\ todo' = [todo EXCEPT ![u] = Tail(@)]
  /\ at' = [at EXCEPT ![u] = "hook"]

GoTo(u, step) ==
  /\ at' = [at EXCEPT ![u] = step]
  /\ UNCHANGED todo

\* Begun, and not completed.
Unfinished(u) == fate[u] \in {"open", "aborted"} \/ Active(u)

Excuse(us) == excused' = excused \union us

Fault ==
  /\ faults < MaxFaults
  /\ faults' = faults + 1

\* UPDATE ... WHERE node_path = p.
SetAll(p, event) ==
  rows' = [rows EXCEPT ![p] = [i \in DOMAIN @ |-> [event |-> event, age |-> 0]]]

DeleteAll(p) == rows' = [rows EXCEPT ![p] = <<>>]

\* find: any row of the path (LIMIT 1), or none, also when the SELECT fails.
Finds(p, r) == r \in Range(rows[p]) /\ UNCHANGED faults

FindsNone(p) == (rows[p] = <<>> /\ UNCHANGED faults) \/ Fault

-----------------------------------------------------------------------------
Init ==
  /\ rows = [p \in Paths |-> <<>>]
  /\ files = {}
  /\ todo = [u \in Uploads |-> <<>>]
  /\ at = [u \in Uploads |-> "hook"]
  /\ job = Resting
  /\ fate = [u \in Uploads |-> "none"]
  /\ told = [u \in Uploads |-> 0]
  /\ informed = {} /\ excused = {} /\ twins = {}
  /\ since = [u \in Uploads |-> Old]
  /\ decided = [p \in Paths |-> Old]
  /\ faults = 0

(***************************************************************************)
(* A request to Nextcloud                                                  *)
(***************************************************************************)

Request(u) ==
  /\ fate[u] = "none"
  /\ \E kind \in {"create", "write", "chunked"} :
       /\ kind = "create" => PathOf[u] \notin files
       /\ kind = "write" => PathOf[u] \in files
       /\ todo' = [todo EXCEPT ![u] = Hooks(kind)]
  /\ fate' = [fate EXCEPT ![u] = "open"]
  /\ since' = [since EXCEPT ![u] = 0]
  /\ UNCHANGED <<rows, files, at, job, told, informed, excused, twins, decided,
                 faults>>

Transfer(u) ==
  /\ InHook(u, {"transfer"})
  /\ files' = files \union {PathOf[u]}
  /\ fate' = [fate EXCEPT ![u] = "written"]
  /\ HookEnds(u)
  /\ UNCHANGED <<rows, job, told, informed, excused, twins, ages, faults>>

\* Cancelled, out of space, locked: no hook runs any more.  Of a chunked upload
\* that stops before the rename no listener has seen anything.
Abort(u) ==
  /\ InHook(u, {"transfer"})
  /\ fate' = [fate EXCEPT ![u] =
                IF todo[u] = Hooks("chunked") THEN "unseen" ELSE "aborted"]
  /\ todo' = [todo EXCEPT ![u] = <<>>]
  /\ UNCHANGED <<rows, files, at, job, told, informed, excused, twins, ages,
                 faults>>

\* The PHP process dies.
Kill(u) ==
  /\ Active(u)
  /\ Fault
  /\ fate' = [fate EXCEPT ![u] = IF @ = "open" THEN "aborted" ELSE @]
  /\ todo' = [todo EXCEPT ![u] = <<>>]
  /\ at' = [at EXCEPT ![u] = "hook"]
  /\ UNCHANGED <<rows, files, job, told, informed, excused, twins, ages>>

(***************************************************************************)
(* beginWrite, called before the write and by complete                     *)
(***************************************************************************)

\* Where beginWrite goes after it found a row with this event, or none.
\* Slip: any row counts as begun.
StoreStepSlip(event) ==
  CASE event \in Starts \union {"completed"} -> "begun"
    [] event = "none"                        -> "insert"

StoreStep(event) ==
  CASE event \in Starts     -> "begun"
    [] event = "completed"  -> "reset"
    [] event = "none"       -> "insert"

BeginFind(u) ==
  /\ InHook(u, Starts)
  /\ \E event \in Starts \union {"completed", "none"} :
       /\ \/ event = "none" /\ FindsNone(PathOf[u])
          \/ \E r \in Row : r.event = event /\ Finds(PathOf[u], r)
       /\ IF StoreStep(event) = "begun" THEN HookEnds(u)
                                        ELSE GoTo(u, StoreStep(event))
  /\ UNCHANGED <<rows, files, job, fate, told, informed, excused, twins, ages>>

InnerFind(u) ==
  /\ Active(u) /\ at[u] = "inner"
  /\ \E event \in Starts \union {"completed", "none"} :
       /\ \/ event = "none" /\ FindsNone(PathOf[u])
          \/ \E r \in Row : r.event = event /\ Finds(PathOf[u], r)
       /\ GoTo(u, IF StoreStep(event) = "begun" THEN "stamp"
                                                ELSE StoreStep(event))
  /\ UNCHANGED <<rows, files, job, fate, told, informed, excused, twins, ages>>

\* Slip: complete hands its own event on.
StartEventSlip(u) == Hook(u)

\* complete always begins a 'write'.
StartEvent(u) == IF Hook(u) \in Starts THEN Hook(u) ELSE "write"

\* Slip: a marker that is reused keeps its age.
StoreSlip(u) ==
  LET p == PathOf[u]
  IN  IF at[u] = "insert"
      THEN rows' = [rows EXCEPT ![p] =
                      Append(@, [event |-> StartEvent(u), age |-> 0])]
      ELSE rows' = [rows EXCEPT ![p] =
                      [i \in DOMAIN @ |-> [@[i] EXCEPT !.event = StartEvent(u)]]]

Store(u) ==
  LET p == PathOf[u]
  IN  IF at[u] = "insert"
      THEN rows' = [rows EXCEPT ![p] =
                      Append(@, [event |-> StartEvent(u), age |-> 0])]
      ELSE SetAll(p, StartEvent(u))

BeginStore(u) ==
  /\ Active(u) /\ at[u] \in {"insert", "reset"}
  /\ (Store(u) /\ UNCHANGED faults) \/ (Fault /\ UNCHANGED rows)
  /\ twins' = twins \union {q \in Paths : Len(rows'[q]) > 1}
  /\ IF Hook(u) \in Starts THEN HookEnds(u) ELSE GoTo(u, "stamp")
  /\ UNCHANGED <<files, job, fate, told, informed, excused, ages>>

(***************************************************************************)
(* complete                                                                *)
(***************************************************************************)

Suppressed(r) == r.event = "completed" /\ r.age < Window

\* Slip: a suppressed completion opens a window of its own.
SuppressSlip(u) ==
  /\ HookEnds(u)
  /\ SetAll(PathOf[u], "completed")

Suppress(u) ==
  /\ HookEnds(u)
  /\ UNCHANGED rows

\* The decision is taken here; what follows carries it out.
Decide(u, step) ==
  /\ GoTo(u, step)
  /\ decided' = [decided EXCEPT ![PathOf[u]] = 0]

CompleteFind(u) ==
  /\ InHook(u, Ends)
  /\ \/ /\ FindsNone(PathOf[u])
        /\ Decide(u, "inner")
        /\ UNCHANGED rows
     \/ \E r \in Row :
          /\ Finds(PathOf[u], r)
          /\ IF Suppressed(r)
             THEN Suppress(u) /\ UNCHANGED decided
             ELSE Decide(u, "stamp") /\ UNCHANGED rows
  /\ UNCHANGED <<files, job, fate, told, informed, excused, twins, since>>

Stamp(u) ==
  /\ Active(u) /\ at[u] = "stamp"
  /\ \/ SetAll(PathOf[u], "completed") /\ UNCHANGED faults
     \/ Fault /\ UNCHANGED rows
  /\ GoTo(u, "notify")
  /\ Excuse({v \in Uploads \ {u} : PathOf[v] = PathOf[u] /\ Unfinished(v)})
  /\ UNCHANGED <<files, job, fate, told, informed, twins, ages>>

\* reportCompleted; a POST that fails is only logged.
Notify(u) ==
  /\ Active(u) /\ at[u] \in {"notify", "posting"}
  /\ \/ told' = [told EXCEPT ![u] = @ + 1] /\ UNCHANGED faults
     \/ Fault /\ UNCHANGED told
  /\ HookEnds(u)
  /\ UNCHANGED <<rows, files, job, fate, informed, excused, twins, ages>>

(***************************************************************************)
(* CheckPendingUploadsJob: failStale                                       *)
(***************************************************************************)

Stale(r) == r.event \in Starts /\ r.age > Ttl

\* One entry per row: a path with two stale rows is there twice.
JobSelect ==
  /\ job.step = "due"
  /\ job' = [Resting EXCEPT
               !.step = "report",
               !.left = [p \in Paths |->
                 Cardinality({i \in DOMAIN rows[p] : Stale(rows[p][i])})]]
  /\ UNCHANGED <<rows, files, requests, history>>

\* POST UPLOAD_FAILED.
JobReport(p) ==
  /\ job.step = "report"
  /\ job.left[p] > 0
  /\ job' = [job EXCEPT !.step = "clear", !.path = p]
  /\ \/ /\ informed' = informed \union
                         {u \in Uploads : PathOf[u] = p /\ fate[u] # "none"}
        /\ UNCHANGED faults
     \/ Fault /\ UNCHANGED informed
  /\ UNCHANGED <<rows, files, requests, fate, told, excused, twins, ages>>

\* Slip: the path is left in the table.
ClearSlip(p) == UNCHANGED rows

Clear(p) == DeleteAll(p)

JobClear ==
  /\ job.step = "clear"
  /\ (Clear(job.path) /\ UNCHANGED faults) \/ (Fault /\ UNCHANGED rows)
  /\ job' = [job EXCEPT !.step = "report", !.left[job.path] = @ - 1,
                        !.path = NoPath]
  /\ Excuse({u \in Uploads \ informed : PathOf[u] = job.path /\ Unfinished(u)})
  /\ UNCHANGED <<files, requests, fate, told, informed, twins, ages>>

\* Completion markers past the TTL.  (The code compares with the time the run
\* began: a marker that grows old during the run is left to the next one.)
Expired(r) == r.event = "completed" /\ r.age > Ttl

\* The other rows, in any order: the table keeps none, and find takes any row.
Unexpired(s) ==
  LET kept  == {i \in DOMAIN s : ~ Expired(s[i])}
      place == CHOOSE f \in Bijection(1..Cardinality(kept), kept) : TRUE
  IN  [n \in 1..Cardinality(kept) |-> s[place[n]]]

Sweep == rows' = [p \in Paths |-> Unexpired(rows[p])]

JobSweep ==
  /\ job.step = "report"
  /\ \A p \in Paths : job.left[p] = 0
  /\ (Sweep /\ UNCHANGED faults) \/ (Fault /\ UNCHANGED rows)
  /\ job' = Resting
  /\ Excuse({u \in Uploads : at[u] = "reset"})
  /\ UNCHANGED <<files, requests, fate, told, informed, twins, ages>>

\* The SELECT fails with something else than a database error: no row is reported,
\* and the sweep follows.
JobMisses ==
  /\ job.step = "due"
  /\ Fault
  /\ job' = [Resting EXCEPT !.step = "report"]
  /\ UNCHANGED <<rows, files, requests, fate, told, informed, excused, twins,
                 ages>>

\* The SELECT fails with a database error, or the process dies.
JobDies ==
  /\ job.step # "rest"
  /\ Fault
  /\ job' = Resting
  /\ UNCHANGED <<rows, files, requests, fate, told, informed, excused, twins,
                 ages>>

-----------------------------------------------------------------------------
Later(age) == IF age < Old THEN age + 1 ELSE age

\* A tick is much longer than a statement: time passes in the write and in a
\* POST.  The timeout of a POST is less than a tick: one may end in it.
AtStatement(u) == Active(u) /\ ~ InHook(u, {"transfer"}) /\ at[u] # "notify"

JobAtStatement == \/ job.step = "clear"
                  \/ job.step = "report" /\ \A p \in Paths : job.left[p] = 0

Tick ==
  /\ \A u \in Uploads : ~ AtStatement(u)
  /\ ~ JobAtStatement
  /\ rows' = [p \in Paths |->
                [i \in DOMAIN rows[p] |-> [rows[p][i] EXCEPT !.age = Later(@)]]]
  /\ since' = [u \in Uploads |-> IF Unfinished(u) THEN Later(since[u]) ELSE Old]
  /\ decided' = [p \in Paths |-> Later(decided[p])]
  /\ job' = IF job.step = "rest" THEN [job EXCEPT !.step = "due"] ELSE job
  /\ at' = [u \in Uploads |-> IF at[u] = "notify" THEN "posting" ELSE at[u]]
  /\ UNCHANGED <<files, todo, fate, told, informed, excused, twins, faults>>

Step(u) ==
  \/ BeginFind(u) \/ InnerFind(u) \/ BeginStore(u)
  \/ Transfer(u) \/ Abort(u)
  \/ CompleteFind(u) \/ Stamp(u) \/ Notify(u)

Run == JobSelect \/ (\E p \in Paths : JobReport(p)) \/ JobClear \/ JobSweep

Next ==
  \/ \E u \in Uploads : Request(u) \/ Step(u) \/ Kill(u)
  \/ Run \/ JobMisses \/ JobDies
  \/ Tick

Spec == Init /\ [][Next]_vars

\* Processes run on, a write ends, cron runs the job, and time passes.
FairSpec ==
  /\ Spec
  /\ \A u \in Uploads : WF_vars(Step(u))
  /\ WF_vars(Run) /\ WF_vars(Tick)

-----------------------------------------------------------------------------
(* Properties *)

\* Every variable keeps its type, and a statement is under way only inside a
\* hook.
TypeOK ==
  /\ rows \in [Paths -> Seq(Row)]
  /\ files \in SUBSET Paths
  /\ todo \in [Uploads -> Seq(Starts \union Ends \union {"transfer"})]
  /\ at \in [Uploads -> {"hook", "insert", "reset", "inner", "stamp", "notify",
                       "posting"}]
  /\ \A u \in Uploads : at[u] # "hook" => Active(u)
  /\ job \in [step: {"rest", "due", "report", "clear"}, left: [Paths -> Nat],
              path: Paths \union {NoPath}]
  /\ fate \in [Uploads -> {"none", "open", "written", "aborted", "unseen"}]
  /\ told \in [Uploads -> Nat]
  /\ informed \in SUBSET Uploads /\ excused \in SUBSET Uploads
  /\ twins \in SUBSET Paths
  /\ since \in [Uploads -> 0..Old] /\ decided \in [Paths -> 0..Old]
  /\ faults \in 0..MaxFaults

\* A completion is kept back only within the window of one that was to be
\* reported: being kept back neither opens nor prolongs a window, whichever
\* requests and hooks the completions come from.
Kept(u) ==
  InHook(u, Ends) /\ todo'[u] = Tail(todo[u]) /\ UNCHANGED faults

SuppressedInWindow ==
  [][\A u \in Uploads : Kept(u) => decided[PathOf[u]] < Window]_vars

\* A path the job picks has a request that began more than the TTL ago and
\* has not completed.  Two requests with a row each are excepted, and faults.
NoHastyFailure ==
  [][\A p \in Paths :
       job.step = "due" /\ job'.left[p] > 0 =>
         \/ \E u \in Uploads : /\ PathOf[u] = p
                               /\ since[u] > Ttl
                               /\ Unfinished(u)
         \/ p \in twins
         \/ faults > 0]_vars

Unaccounted(u) ==
  fate[u] = "aborted" /\ u \notin informed \union excused /\ faults = 0

\* An upload that was aborted, and that no report has accounted for, has left a
\* started row for the job to find: neither another request nor the job takes
\* the last row of its path away before the upload is informed or excused.
AbortedIsTracked ==
  \A u \in Uploads :
    Unaccounted(u) => \E r \in Range(rows[PathOf[u]]) : r.event \in Starts

\* An upload that is aborted is reported as failed, unless another request
\* completed the row the two shared, or the request began while the job was
\* about to delete the row it relies on, or something failed.
AbortedIsReported ==
  (\E u \in Uploads : Unaccounted(u)) ~> (\A u \in Uploads : ~ Unaccounted(u))

\* The table does not grow for ever: with no request at work on a path, its rows
\* go, whatever failed before.
TableDrains ==
  \A p \in Paths :
    (\A u \in Uploads : PathOf[u] = p => ~ Active(u))
      ~> \/ rows[p] = <<>>
         \/ \E u \in Uploads : PathOf[u] = p /\ Active(u)

\* UploadTracker: "so a single physical write (which can fire several Node
\* events, e.g. both create and write hooks for a new file) is only reported
\* once."
ReportedOnce == \A u \in Uploads : told[u] <= 1
=============================================================================
