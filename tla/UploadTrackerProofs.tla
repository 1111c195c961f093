------------------------ MODULE UploadTrackerProofs ------------------------
(***************************************************************************)
(* Invariants of UploadTracker, proved for every set of requests and of    *)
(* paths, for every window and time to live, and for any number of faults. *)
(***************************************************************************)
EXTENDS UploadTracker, SequenceTheorems, FiniteSetTheorems, TLAPS

-----------------------------------------------------------------------------
(* The inductive invariant *)

\* What is left of a request before its transfer, and after it.
Chunked == <<"transfer", "renamed">>

Begun == {<<"write", "transfer", "created", "written">>,
          <<"transfer", "created", "written">>,
          <<"transfer", "written">>}

Before == Begun \union {<<"create", "write", "transfer", "created", "written">>,
                        <<"write", "transfer", "written">>,
                        Chunked}

After == {<<"created", "written">>, <<"written">>, <<"renamed">>}

Deciding(u) ==
  \/ at[u] \in {"inner", "stamp"}
  \/ at[u] \in {"insert", "reset"} /\ todo[u] \in After

\* A request is where its history says it is, and a statement is under way only
\* in the hook it belongs to.
RequestInv ==
  \A u \in Uploads :
    /\ fate[u] \in {"none", "aborted", "unseen"} => todo[u] = <<>>
    /\ fate[u] = "open" => todo[u] \in Before
    /\ fate[u] = "written" => todo[u] \in After \union {<<>>}
    /\ at[u] # "hook" => Hook(u) \in Starts \union Ends
    /\ at[u] \in {"inner", "stamp", "notify", "posting"} => todo[u] \in After

JobInv ==
  /\ job.step \in {"rest", "due"} => \A p \in Paths : job.left[p] = 0
  /\ job.step = "clear" => job.path \in Paths /\ job.left[job.path] > 0

\* A completion marker is at least as old as the last decision about its path,
\* and no time passes while a decision is carried out.
MarkerInv ==
  /\ \A p \in Paths : \A i \in DOMAIN rows[p] :
       rows[p][i].event = "completed" => decided[p] =< rows[p][i].age
  /\ \A u \in Uploads : Deciding(u) => decided[PathOf[u]] = 0

TwinInv == \A p \in Paths \ twins : Len(rows[p]) =< 1

\* What keeps a started row from being orphaned: a request that will still
\* complete it, or that was aborted.
Sponsor(u) ==
  \/ fate[u] = "aborted"
  \/ todo[u] \in Before \ {Chunked}
  \/ todo[u] \in After /\ at[u] \notin {"notify", "posting"}

Sponsored(p, age) ==
  \E u \in Uploads : PathOf[u] = p /\ Sponsor(u) /\ since[u] >= age

SponsorInv ==
  faults = 0 =>
    \A p \in Paths \ twins : \A i \in DOMAIN rows[p] :
      rows[p][i].event \in Starts => Sponsored(p, rows[p][i].age)

\* A request that began a row has one to rely on till it is accounted for, and
\* an UPDATE that is on its way finds a row.
Started(p) == \E i \in DOMAIN rows[p] : rows[p][i].event \in Starts

TrackInv ==
  faults = 0 =>
    \A u \in Uploads \ (informed \union excused) :
      /\ fate[u] = "aborted" \/ todo[u] \in Begun => Started(PathOf[u])
      /\ at[u] = "reset" => rows[PathOf[u]] # <<>>

ShapeInv == TypeOK /\ RequestInv /\ JobInv

IInv == ShapeInv /\ MarkerInv /\ TwinInv /\ SponsorInv /\ TrackInv

-----------------------------------------------------------------------------
(* Hooks *)

HookNames == Starts \union Ends \union {"transfer"}

\* Every sequence of hooks a request can have left, and the next hook of each.
LEMMA HookSteps ==
  /\ Tail(<<"create", "write", "transfer", "created", "written">>)
       = <<"write", "transfer", "created", "written">>
  /\ Tail(<<"write", "transfer", "created", "written">>)
       = <<"transfer", "created", "written">>
  /\ Tail(<<"transfer", "created", "written">>) = <<"created", "written">>
  /\ Tail(<<"write", "transfer", "written">>) = <<"transfer", "written">>
  /\ Tail(<<"transfer", "written">>) = <<"written">>
  /\ Tail(<<"transfer", "renamed">>) = <<"renamed">>
  /\ Tail(<<"created", "written">>) = <<"written">>
  /\ Tail(<<"written">>) = <<>>
  /\ Tail(<<"renamed">>) = <<>>
OBVIOUS

LEMMA HookHeads ==
  /\ Head(<<"create", "write", "transfer", "created", "written">>) = "create"
  /\ Head(<<"write", "transfer", "created", "written">>) = "write"
  /\ Head(<<"transfer", "created", "written">>) = "transfer"
  /\ Head(<<"write", "transfer", "written">>) = "write"
  /\ Head(<<"transfer", "written">>) = "transfer"
  /\ Head(<<"transfer", "renamed">>) = "transfer"
  /\ Head(<<"created", "written">>) = "created"
  /\ Head(<<"written">>) = "written"
  /\ Head(<<"renamed">>) = "renamed"
OBVIOUS

LEMMA HookTypes ==
  /\ <<"create", "write", "transfer", "created", "written">> \in Seq(HookNames)
  /\ <<"write", "transfer", "created", "written">> \in Seq(HookNames)
  /\ <<"transfer", "created", "written">> \in Seq(HookNames)
  /\ <<"write", "transfer", "written">> \in Seq(HookNames)
  /\ <<"transfer", "written">> \in Seq(HookNames)
  /\ <<"transfer", "renamed">> \in Seq(HookNames)
  /\ <<"created", "written">> \in Seq(HookNames)
  /\ <<"written">> \in Seq(HookNames)
  /\ <<"renamed">> \in Seq(HookNames)
BY DEF HookNames, Starts, Ends

LEMMA HookNumbers ==
  /\ \A t \in After : t # <<>>
  /\ \A t \in Before : Len(t) \in 2..5 /\ t # <<>>
  /\ Before \intersect After = {}
  /\ Chunked \notin Begun
  /\ Hooks("create") \notin Begun /\ Hooks("write") \notin Begun
<1>1. \A t \in After : t # <<>>
  BY DEF After
<1>2. \A t \in Before : t # <<>> /\ Len(t) \in 2..5
  BY DEF Before, Begun, Chunked
<1>3. Before \intersect After = {}
  BY DEF Before, Begun, Chunked, After
<1>4. Chunked \notin Begun
  BY DEF Begun, Chunked
<1>5. Hooks("create") \notin Begun /\ Hooks("write") \notin Begun
  BY DEF Begun, Hooks
<1> QED
  BY <1>1, <1>2, <1>3, <1>4, <1>5

LEMMA BeforeHooks ==
  ASSUME NEW t \in Before
  PROVE  /\ t \in Seq(HookNames) /\ t # <<>>
         /\ Head(t) \in Starts \union {"transfer"}
         /\ Head(t) \in Starts => Tail(t) \in Begun
         /\ Head(t) = "transfer" => Tail(t) \in After
         /\ Head(t) = "transfer" => t \in Begun \union {Chunked}
<1>1. t \in Seq(HookNames)
  BY HookTypes DEF Before, Begun, Chunked
<1>2. t # <<>>
  BY HookNumbers
<1>3. Head(t) \in Starts \union {"transfer"}
  BY HookHeads, HookSteps DEF Before, Begun, Chunked, Starts
<1>4. Head(t) \in Starts => Tail(t) \in Begun
  BY HookHeads, HookSteps DEF Before, Begun, Chunked, Starts
<1>5. Head(t) = "transfer" => Tail(t) \in After /\ t \in Begun \union {Chunked}
  BY HookHeads, HookSteps DEF Before, Begun, Chunked, After
<1> QED
  BY <1>1, <1>2, <1>3, <1>4, <1>5

LEMMA AfterHooks ==
  ASSUME NEW t \in After
  PROVE  /\ t \in Seq(HookNames) /\ t # <<>>
         /\ Head(t) \in Ends
         /\ Tail(t) \in After \union {<<>>}
<1>1. t \in Seq(HookNames)
  BY HookTypes DEF After
<1>2. t # <<>>
  BY HookNumbers
<1>3. Head(t) \in Ends /\ Tail(t) \in After \union {<<>>}
  BY HookHeads, HookSteps DEF After, Ends
<1> QED
  BY <1>1, <1>2, <1>3

LEMMA HookSets ==
  /\ Starts \intersect Ends = {} /\ "transfer" \notin Starts \union Ends
  /\ "completed" \notin Starts
  /\ "write" \in Starts
  /\ Before \intersect After = {} /\ <<>> \notin Before \union After
  /\ Begun \subseteq Before \ {Chunked}
  /\ Chunked \in Before /\ Chunked \notin Begun
  /\ Hooks("create") \in Before /\ Hooks("create") \notin Begun
  /\ Hooks("write") \in Before /\ Hooks("write") \notin Begun
  /\ Hooks("chunked") = Chunked
BY HookNumbers DEF Before, Begun, Chunked, Starts, Ends, Hooks

-----------------------------------------------------------------------------
(* Types *)

RowTypes == rows \in [Paths -> Seq(Row)]

RequestTypes ==
  /\ todo \in [Uploads -> Seq(HookNames)]
  /\ at \in [Uploads -> {"hook", "insert", "reset", "inner", "stamp", "notify",
                       "posting"}]
  /\ \A u \in Uploads : at[u] # "hook" => Active(u)
  /\ fate \in [Uploads -> {"none", "open", "written", "aborted", "unseen"}]

JobTypes ==
  job \in [step: {"rest", "due", "report", "clear"}, left: [Paths -> Nat],
           path: Paths \union {NoPath}]

HistoryTypes ==
  /\ files \in SUBSET Paths
  /\ told \in [Uploads -> Nat]
  /\ informed \in SUBSET Uploads /\ excused \in SUBSET Uploads
  /\ twins \in SUBSET Paths
  /\ since \in [Uploads -> 0..Old] /\ decided \in [Paths -> 0..Old]
  /\ faults \in 0..MaxFaults

LEMMA TypeParts ==
  /\ TypeOK <=> RowTypes /\ RequestTypes /\ JobTypes /\ HistoryTypes
  /\ TypeOK' <=> RowTypes' /\ RequestTypes' /\ JobTypes' /\ HistoryTypes'
BY DEF TypeOK, RowTypes, RequestTypes, JobTypes, HistoryTypes, HookNames

LEMMA Numbers ==
  /\ Ttl \in Nat /\ Window \in Nat /\ MaxFaults \in Nat /\ Old \in Nat
  /\ Old = Ttl + 1 /\ Window =< Ttl
  /\ \A a \in 0..Old : /\ Later(a) \in 0..Old /\ Later(a) >= a
                       /\ a < Old => Later(a) = a + 1
                       /\ \A b \in 0..Old : a =< b => Later(a) =< Later(b)
BY TrackerAssumption DEF Old, Later

LEMMA PathTypes == \A u \in Uploads : PathOf[u] \in Paths
BY TrackerAssumption

-----------------------------------------------------------------------------
(* The rows of a path *)

LEMMA UnexpiredRows ==
  ASSUME NEW s \in Seq(Row)
  PROVE  /\ Unexpired(s) \in Seq(Row)
         /\ Len(Unexpired(s)) =< Len(s)
         /\ \A n \in DOMAIN Unexpired(s) :
              \E i \in DOMAIN s : Unexpired(s)[n] = s[i]
         /\ \A i \in DOMAIN s : ~ Expired(s[i]) =>
              \E n \in DOMAIN Unexpired(s) : Unexpired(s)[n] = s[i]
<1> DEFINE kept  == {i \in DOMAIN s : ~ Expired(s[i])}
           size  == Cardinality(kept)
           place == CHOOSE f \in Bijection(1..size, kept) : TRUE
<1>1. DOMAIN s = 1..Len(s) /\ Len(s) \in Nat
  OBVIOUS
<1>2. IsFiniteSet(1..Len(s)) /\ Cardinality(1..Len(s)) = Len(s)
  BY <1>1, FS_Interval
<1>3. IsFiniteSet(kept) /\ size =< Len(s)
  <2>1. kept \in SUBSET (1..Len(s))
    BY <1>1
  <2> HIDE DEF kept
  <2> QED
    BY <1>2, <2>1, FS_Subset
<1>4. size \in Nat /\ Bijection(1..size, kept) # {}
  <2> HIDE DEF kept
  <2> QED
    BY <1>3, FS_CardinalityType DEF ExistsBijection
<1>5. place \in Bijection(1..size, kept)
  <2> HIDE DEF kept, size
  <2> QED
    BY <1>4
<1>6. /\ place \in [1..size -> kept]
      /\ \A i \in kept : \E n \in 1..size : place[n] = i
  <2> HIDE DEF kept, size, place
  <2> QED
    BY <1>5 DEF Bijection, Injection, Surjection
<1>7. Unexpired(s) = [n \in 1..size |-> s[place[n]]]
  BY DEF Unexpired
<1>8. \A i \in kept : i \in DOMAIN s /\ s[i] \in Row
  BY <1>1
<1>9. \A i \in DOMAIN s : ~ Expired(s[i]) => i \in kept
  OBVIOUS
<1> HIDE DEF kept, size, place
<1>10. \A n \in 1..size : s[place[n]] \in Row
  BY <1>6, <1>8
<1>11. Unexpired(s) \in Seq(Row) /\ Len(Unexpired(s)) = size
       /\ DOMAIN Unexpired(s) = 1..size
  BY <1>4, <1>7, <1>10
<1>12. \A n \in DOMAIN Unexpired(s) :
         \E i \in DOMAIN s : Unexpired(s)[n] = s[i]
  BY <1>6, <1>7, <1>8, <1>11
<1>13. ASSUME NEW i \in DOMAIN s, ~ Expired(s[i])
       PROVE  \E n \in DOMAIN Unexpired(s) : Unexpired(s)[n] = s[i]
  <2>1. PICK n \in 1..size : place[n] = i
    BY <1>6, <1>9, <1>13
  <2> QED
    BY <1>7, <1>11, <2>1
<1> QED
  BY <1>3, <1>11, <1>12, <1>13

LEMMA FunctionIsSequence ==
  ASSUME NEW S, NEW n \in Nat, NEW f \in [1..n -> S]
  PROVE  f \in Seq(S) /\ Len(f) = n
OBVIOUS

\* What each statement does to the rows of its path and of the others.
LEMMA SetAllRows ==
  ASSUME RowTypes, NEW p \in Paths, NEW e \in Starts \union {"completed"},
         SetAll(p, e)
  PROVE  /\ RowTypes'
         /\ \A q \in Paths \ {p} : rows'[q] = rows[q]
         /\ Len(rows'[p]) = Len(rows[p])
         /\ DOMAIN rows'[p] = DOMAIN rows[p]
         /\ \A i \in DOMAIN rows'[p] : rows'[p][i] = [event |-> e, age |-> 0]
<1>1. [event |-> e, age |-> 0] \in Row
  BY Numbers DEF Row
<1>2. rows[p] \in Seq(Row) /\ DOMAIN rows[p] = 1..Len(rows[p])
  BY DEF RowTypes
<1> DEFINE s == [i \in 1..Len(rows[p]) |-> [event |-> e, age |-> 0]]
<1>3. s \in Seq(Row) /\ Len(s) = Len(rows[p]) /\ DOMAIN s = 1..Len(rows[p])
      /\ \A i \in 1..Len(rows[p]) : s[i] = [event |-> e, age |-> 0]
  <2>1. Len(rows[p]) \in Nat
    BY <1>2
  <2> QED
    BY <1>1, <2>1
<1>4. rows' = [rows EXCEPT ![p] = s]
  BY <1>2 DEF SetAll
<1> HIDE DEF s
<1>5. rows'[p] = s /\ \A q \in Paths \ {p} : rows'[q] = rows[q]
  BY <1>4 DEF RowTypes
<1>6. RowTypes'
  BY <1>3, <1>4 DEF RowTypes
<1> QED
  BY <1>2, <1>3, <1>5, <1>6

LEMMA AppendRows ==
  ASSUME RowTypes, NEW p \in Paths, NEW e \in Starts \union {"completed"},
         rows' = [rows EXCEPT ![p] = Append(@, [event |-> e, age |-> 0])]
  PROVE  /\ RowTypes'
         /\ \A q \in Paths \ {p} : rows'[q] = rows[q]
         /\ Len(rows'[p]) = Len(rows[p]) + 1
         /\ DOMAIN rows[p] = 1..Len(rows[p])
         /\ DOMAIN rows'[p] = 1..(Len(rows[p]) + 1)
         /\ \A i \in DOMAIN rows[p] : rows'[p][i] = rows[p][i]
         /\ rows'[p][Len(rows[p]) + 1] = [event |-> e, age |-> 0]
<1> DEFINE r == [event |-> e, age |-> 0]
<1>1. r \in Row
  BY Numbers DEF Row
<1>2. rows[p] \in Seq(Row)
  BY DEF RowTypes
<1> HIDE DEF r
<1>3. rows'[p] = Append(rows[p], r) /\ \A q \in Paths \ {p} : rows'[q] = rows[q]
  BY DEF RowTypes, r
<1>4. RowTypes'
  <2>1. Append(rows[p], r) \in Seq(Row)
    BY <1>1, <1>2
  <2> QED
    BY <2>1 DEF RowTypes, r
<1>5. /\ Len(rows'[p]) = Len(rows[p]) + 1
      /\ DOMAIN rows[p] = 1..Len(rows[p])
      /\ DOMAIN rows'[p] = 1..(Len(rows[p]) + 1)
      /\ \A i \in DOMAIN rows[p] : rows'[p][i] = rows[p][i]
      /\ rows'[p][Len(rows[p]) + 1] = r
  BY <1>1, <1>2, <1>3
<1> QED
  BY <1>3, <1>4, <1>5 DEF r

LEMMA DeleteRows ==
  ASSUME RowTypes, NEW p \in Paths, DeleteAll(p)
  PROVE  /\ RowTypes'
         /\ \A q \in Paths \ {p} : rows'[q] = rows[q]
         /\ rows'[p] = <<>>
BY DEF RowTypes, DeleteAll

LEMMA SweptRows ==
  ASSUME RowTypes, Sweep
  PROVE  RowTypes' /\ \A p \in Paths : rows'[p] = Unexpired(rows[p])
<1>1. \A p \in Paths : rows[p] \in Seq(Row)
  BY DEF RowTypes
<1>2. \A p \in Paths : Unexpired(rows[p]) \in Seq(Row)
  BY <1>1, UnexpiredRows
<1> QED
  BY <1>2 DEF Sweep, RowTypes

LEMMA AgedRows ==
  ASSUME RowTypes, Tick
  PROVE  /\ RowTypes'
         /\ \A p \in Paths :
              /\ Len(rows'[p]) = Len(rows[p])
              /\ DOMAIN rows'[p] = DOMAIN rows[p]
              /\ \A i \in DOMAIN rows[p] :
                   /\ rows[p][i] \in Row
                   /\ rows'[p][i].event = rows[p][i].event
                   /\ rows'[p][i].age = Later(rows[p][i].age)
<1> DEFINE aged(p) == [i \in DOMAIN rows[p] |->
                         [rows[p][i] EXCEPT !.age = Later(@)]]
<1>1. ASSUME NEW p \in Paths
      PROVE  /\ aged(p) \in Seq(Row)
             /\ Len(aged(p)) = Len(rows[p])
             /\ DOMAIN aged(p) = DOMAIN rows[p]
             /\ \A i \in DOMAIN rows[p] :
                  /\ rows[p][i] \in Row
                  /\ aged(p)[i].event = rows[p][i].event
                  /\ aged(p)[i].age = Later(rows[p][i].age)
  <2>1. /\ rows[p] \in Seq(Row) /\ DOMAIN rows[p] = 1..Len(rows[p])
        /\ Len(rows[p]) \in Nat
        /\ \A i \in DOMAIN rows[p] : rows[p][i] \in Row
    BY DEF RowTypes
  <2>2. \A r \in Row : /\ [r EXCEPT !.age = Later(@)] \in Row
                       /\ [r EXCEPT !.age = Later(@)].event = r.event
                       /\ [r EXCEPT !.age = Later(@)].age = Later(r.age)
    BY Numbers DEF Row
  <2>3. \A i \in 1..Len(rows[p]) : aged(p)[i] \in Row
    BY <2>1, <2>2
  <2>4. DOMAIN aged(p) = 1..Len(rows[p])
    BY <2>1
  <2>5. \A i \in DOMAIN rows[p] : /\ aged(p)[i].event = rows[p][i].event
                                  /\ aged(p)[i].age = Later(rows[p][i].age)
    BY <2>1, <2>2
  <2>6. aged(p) \in [1..Len(rows[p]) -> Row]
    BY <2>1, <2>3
  <2> HIDE DEF aged
  <2>7. aged(p) \in Seq(Row) /\ Len(aged(p)) = Len(rows[p])
    BY <2>1, <2>6, FunctionIsSequence
  <2> QED
    BY <2>1, <2>4, <2>5, <2>7
<1>2. rows' = [p \in Paths |-> aged(p)]
  BY DEF Tick
<1> HIDE DEF aged
<1> QED
  BY <1>1, <1>2 DEF RowTypes

-----------------------------------------------------------------------------
(* The shape of the requests and of the job *)

Requests == RequestTypes /\ RequestInv

\* The hook a request is at tells where the request is.
LEMMA HookShape ==
  ASSUME Requests, NEW u \in Uploads, Active(u)
  PROVE  /\ Hook(u) \in Ends => todo[u] \in After /\ fate[u] = "written"
         /\ Hook(u) \notin Ends => todo[u] \in Before /\ fate[u] = "open"
         /\ Hook(u) = "transfer" => at[u] = "hook"
         /\ Tail(todo[u]) \in Seq(HookNames) /\ Tail(todo[u]) # todo[u]
<1>1. \/ todo[u] \in Before /\ fate[u] = "open"
      \/ todo[u] \in After /\ fate[u] = "written"
  BY DEF Requests, RequestTypes, RequestInv, Active
<1>2. Hook(u) \in Ends <=> todo[u] \in After
  BY <1>1, BeforeHooks, AfterHooks, HookSets DEF Hook
<1>3. Hook(u) = "transfer" => at[u] = "hook"
  BY HookSets DEF Requests, RequestInv
<1>4. Tail(todo[u]) \in Seq(HookNames) /\ Tail(todo[u]) # todo[u]
  <2>1. todo[u] \in Seq(HookNames) /\ todo[u] # <<>>
    BY DEF Requests, RequestTypes, Active
  <2>2. /\ Tail(todo[u]) \in Seq(HookNames)
        /\ Len(Tail(todo[u])) = Len(todo[u]) - 1
    BY <2>1, HeadTailProperties
  <2>3. Len(todo[u]) \in Nat
    BY <2>1
  <2>4. Len(Tail(todo[u])) # Len(todo[u])
    BY <2>2, <2>3
  <2> QED
    BY <2>2, <2>4
<1> QED
  BY <1>1, <1>2, <1>3, <1>4, HookSets

\* A request goes on with its hook, or to the next one, and the others stay.
LEMMA GoesOn ==
  ASSUME Requests, NEW u \in Uploads, Active(u), UNCHANGED fate,
         NEW step \in {"insert", "reset", "inner", "stamp", "notify"},
         \/ Hook(u) \in Ends
         \/ Hook(u) \in Starts /\ step \in {"insert", "reset"},
         GoTo(u, step)
  PROVE  Requests'
<1>1. UNCHANGED <<todo, fate>> /\ at' = [at EXCEPT ![u] = step]
  BY DEF GoTo
<1>2. RequestTypes'
  BY <1>1 DEF Requests, RequestTypes, Active
<1>3. Hook(u) \in Ends => todo[u] \in After
  BY HookShape
<1>4. ASSUME NEW v \in Uploads
      PROVE  /\ at'[v] # "hook" => Hook(v)' \in Starts \union Ends
             /\ at'[v] \in {"inner", "stamp", "notify", "posting"} =>
                  todo'[v] \in After
  <2>1. CASE v = u
    BY <1>1, <1>3, <2>1 DEF Hook, Requests, RequestTypes
  <2>2. CASE v # u
    <3>1. at'[v] = at[v] /\ todo'[v] = todo[v]
      BY <1>1, <2>2 DEF Requests, RequestTypes
    <3> QED
      BY <3>1 DEF Hook, Requests, RequestInv
  <2> QED
    BY <2>1, <2>2
<1>5. RequestInv'
  BY <1>1, <1>4 DEF Requests, RequestInv
<1> QED
  BY <1>2, <1>5 DEF Requests

LEMMA NextHook ==
  ASSUME Requests, NEW u \in Uploads, Active(u), HookEnds(u),
         \/ Hook(u) # "transfer" /\ UNCHANGED fate
         \/ Hook(u) = "transfer" /\ fate' = [fate EXCEPT ![u] = "written"]
  PROVE  /\ Requests'
         /\ Hook(u) \in Starts => todo'[u] \in Begun
         /\ Hook(u) \in Ends => todo'[u] \in After \union {<<>>}
         /\ Hook(u) = "transfer" => todo'[u] \in After
         /\ at'[u] = "hook"
         /\ \A v \in Uploads \ {u} : UNCHANGED <<todo[v], at[v], fate[v]>>
<1>1. /\ todo'[u] = Tail(todo[u]) /\ at'[u] = "hook"
      /\ \A v \in Uploads \ {u} : UNCHANGED <<todo[v], at[v], fate[v]>>
  BY DEF HookEnds, Requests, RequestTypes
<1>2. /\ Hook(u) \in Starts => todo'[u] \in Begun
      /\ Hook(u) \in Ends => todo'[u] \in After \union {<<>>}
      /\ Hook(u) = "transfer" => todo'[u] \in After
  BY <1>1, HookShape, BeforeHooks, AfterHooks, HookSets DEF Hook
<1>3. Hook(u) \in Starts \union Ends \union {"transfer"}
  BY HookShape, BeforeHooks, AfterHooks DEF Hook
<1>4. RequestTypes'
  <2>1. todo' \in [Uploads -> Seq(HookNames)]
    BY HookShape DEF HookEnds, Requests, RequestTypes
  <2>2. at' \in [Uploads -> {"hook", "insert", "reset", "inner", "stamp",
                            "notify", "posting"}]
    BY DEF HookEnds, Requests, RequestTypes
  <2>3. fate' \in [Uploads -> {"none", "open", "written", "aborted", "unseen"}]
    BY DEF Requests, RequestTypes
  <2>4. \A v \in Uploads : at'[v] # "hook" => Active(v)'
    BY <1>1 DEF Active, Requests, RequestTypes
  <2> QED
    BY <2>1, <2>2, <2>3, <2>4 DEF RequestTypes
<1>5. ASSUME NEW v \in Uploads
      PROVE  /\ fate'[v] \in {"none", "aborted", "unseen"} => todo'[v] = <<>>
             /\ fate'[v] = "open" => todo'[v] \in Before
             /\ fate'[v] = "written" => todo'[v] \in After \union {<<>>}
             /\ at'[v] # "hook" => Hook(v)' \in Starts \union Ends
             /\ at'[v] \in {"inner", "stamp", "notify", "posting"} =>
                  todo'[v] \in After
  <2>1. CASE v = u
    <3>1. /\ Hook(u) \in Starts => fate'[u] = "open"
          /\ Hook(u) \in Ends \union {"transfer"} => fate'[u] = "written"
      BY HookShape, HookSets DEF Requests, RequestTypes
    <3> QED
      BY <1>1, <1>2, <1>3, <2>1, <3>1, HookSets
  <2>2. CASE v # u
    BY <1>1, <2>2 DEF Hook, Requests, RequestInv
  <2> QED
    BY <2>1, <2>2
<1>6. RequestInv'
  BY <1>5 DEF RequestInv
<1> QED
  BY <1>1, <1>2, <1>4, <1>6 DEF Requests

\* A request begins, or ends before its time.
LEMMA BeginsOrEnds ==
  ASSUME Requests, NEW u \in Uploads,
         \/ Request(u) \/ Abort(u) \/ Kill(u)
  PROVE  Requests'
<1>1. /\ Request(u) => todo'[u] \in Before /\ fate'[u] = "open"
      /\ Abort(u) \/ Kill(u) => todo'[u] = <<>>
      /\ Abort(u) \/ Kill(u) => fate'[u] \in {"aborted", "unseen", "written"}
      /\ at'[u] = "hook"
      /\ todo'[u] \in Seq(HookNames)
      /\ \A v \in Uploads \ {u} : UNCHANGED <<todo[v], at[v], fate[v]>>
  <2>1. CASE Request(u)
    <3>1. PICK kind \in {"create", "write", "chunked"} :
            todo' = [todo EXCEPT ![u] = Hooks(kind)]
      BY <2>1 DEF Request
    <3>2. Hooks(kind) \in Before
      BY HookSets
    <3>3. at[u] = "hook"
      BY <2>1 DEF Request, Requests, RequestTypes, RequestInv, Active
    <3>4. ~ Abort(u) /\ ~ Kill(u)
      BY <2>1
      DEF Request, Abort, Kill, InHook, Active, Requests, RequestInv
    <3>5. fate' = [fate EXCEPT ![u] = "open"] /\ at' = at
      BY <2>1 DEF Request
    <3> QED
      BY <3>1, <3>2, <3>3, <3>4, <3>5, BeforeHooks DEF Requests, RequestTypes
  <2>2. CASE Abort(u)
    <3>1. ~ Request(u)
      BY <2>2
      DEF Request, Abort, InHook, Active, Requests, RequestInv
    <3> QED
      BY <2>2, <3>1 DEF Abort, InHook, Requests, RequestTypes
  <2>3. CASE Kill(u)
    <3>1. ~ Request(u)
      BY <2>3
      DEF Request, Kill, Active, Requests, RequestInv
    <3>2. fate[u] \in {"open", "written"}
      BY <2>3 DEF Kill, Active, Requests, RequestInv, RequestTypes
    <3> QED
      BY <2>3, <3>1, <3>2 DEF Kill, Requests, RequestTypes
  <2> QED
    BY <2>1, <2>2, <2>3
<1>2. RequestTypes'
  <2>1. /\ todo' = [todo EXCEPT ![u] = todo'[u]]
        /\ at' = [at EXCEPT ![u] = at'[u]]
        /\ fate' = [fate EXCEPT ![u] = fate'[u]]
    BY DEF Request, Abort, Kill, Requests, RequestTypes
  <2>2. todo' \in [Uploads -> Seq(HookNames)]
    BY <1>1, <2>1 DEF Requests, RequestTypes
  <2>3. at' \in [Uploads -> {"hook", "insert", "reset", "inner", "stamp",
                            "notify", "posting"}]
    BY <1>1, <2>1 DEF Requests, RequestTypes
  <2>4. fate' \in [Uploads -> {"none", "open", "written", "aborted", "unseen"}]
    BY <1>1, <2>1 DEF Requests, RequestTypes
  <2>5. \A v \in Uploads : at'[v] # "hook" => Active(v)'
    BY <1>1 DEF Active, Requests, RequestTypes
  <2> QED
    BY <2>2, <2>3, <2>4, <2>5 DEF RequestTypes
<1>3. RequestInv'
  BY <1>1 DEF Hook, Requests, RequestInv
<1> QED
  BY <1>2, <1>3 DEF Requests

LEMMA RequestsStep ==
  ASSUME Requests, [Next]_vars
  PROVE  Requests'
<1>1. ASSUME UNCHANGED <<todo, at, fate>>
      PROVE  Requests'
  BY <1>1 DEF Requests, RequestTypes, RequestInv, Active, Hook
<1>2. ASSUME NEW u \in Uploads, Step(u)
      PROVE  Requests'
  <2>1. CASE BeginFind(u)
    <3>1. Active(u) /\ Hook(u) \in Starts /\ UNCHANGED fate
      BY <2>1 DEF BeginFind, InHook
    <3>2. HookEnds(u) \/ \E step \in {"insert", "reset"} : GoTo(u, step)
      BY <2>1 DEF BeginFind, StoreStep
    <3> QED
      BY <3>1, <3>2, GoesOn, NextHook, HookSets
  <2>2. CASE InnerFind(u)
    <3>1. Active(u) /\ UNCHANGED fate /\ Hook(u) \in Ends
      BY <2>2, AfterHooks DEF InnerFind, Requests, RequestInv, Hook
    <3>2. PICK step \in {"insert", "reset", "stamp"} : GoTo(u, step)
      BY <2>2 DEF InnerFind, StoreStep
    <3>3. step \in {"insert", "reset", "inner", "stamp", "notify"}
      OBVIOUS
    <3> QED
      BY <3>1, <3>2, <3>3, GoesOn
  <2>3. CASE BeginStore(u)
    <3>1. Active(u) /\ UNCHANGED fate /\ Hook(u) \in Starts \union Ends
      BY <2>3 DEF BeginStore, Requests, RequestInv
    <3>2. CASE Hook(u) \in Starts
      <4>1. HookEnds(u)
        BY <2>3, <3>2 DEF BeginStore
      <4> QED
        BY <3>1, <3>2, <4>1, NextHook, HookSets
    <3>3. CASE Hook(u) \notin Starts
      <4>1. GoTo(u, "stamp")
        BY <2>3, <3>3 DEF BeginStore
      <4> QED
        BY <3>1, <3>3, <4>1, GoesOn
    <3> QED
      BY <3>2, <3>3
  <2>4. CASE Transfer(u)
    BY <2>4, NextHook DEF Transfer, InHook
  <2>5. CASE Abort(u)
    BY <2>5, BeginsOrEnds
  <2>6. CASE CompleteFind(u)
    <3>1. Active(u) /\ UNCHANGED fate /\ Hook(u) \in Ends
      BY <2>6 DEF CompleteFind, InHook
    <3>2. HookEnds(u) \/ \E step \in {"inner", "stamp"} : GoTo(u, step)
      BY <2>6 DEF CompleteFind, Suppress, Decide
    <3> QED
      BY <3>1, <3>2, GoesOn, NextHook, HookSets
  <2>7. CASE Stamp(u)
    <3>1. Active(u) /\ UNCHANGED fate /\ Hook(u) \in Ends
      BY <2>7, AfterHooks DEF Stamp, Requests, RequestInv, Hook
    <3> QED
      BY <2>7, <3>1, GoesOn DEF Stamp
  <2>8. CASE Notify(u)
    <3>1. Active(u) /\ UNCHANGED fate /\ Hook(u) \in Ends
      BY <2>8, AfterHooks DEF Notify, Requests, RequestInv, Hook
    <3> QED
      BY <2>8, <3>1, NextHook, HookSets DEF Notify
  <2> QED
    BY <1>2, <2>1, <2>2, <2>3, <2>4, <2>5, <2>6, <2>7, <2>8 DEF Step
<1>3. ASSUME NEW u \in Uploads, Request(u) \/ Kill(u)
      PROVE  Requests'
  BY <1>3, BeginsOrEnds
<1>4. CASE Tick
  <2>1. UNCHANGED <<todo, fate>>
        /\ \A u \in Uploads : \/ at'[u] = at[u]
                              \/ at[u] = "notify" /\ at'[u] = "posting"
    BY <1>4 DEF Tick
  <2>2. at' \in [Uploads -> {"hook", "insert", "reset", "inner", "stamp",
                            "notify", "posting"}]
    BY <1>4 DEF Tick, Requests, RequestTypes
  <2> QED
    BY <2>1, <2>2 DEF Requests, RequestTypes, RequestInv, Active, Hook
<1>5. CASE Run \/ JobMisses \/ JobDies
  <2>1. UNCHANGED <<todo, at, fate>>
    BY <1>5 DEF Run, JobSelect, JobReport, JobClear, JobSweep, JobMisses, JobDies,
            requests, history
  <2> QED
    BY <1>1, <2>1
<1>6. CASE UNCHANGED vars
  BY <1>1, <1>6 DEF vars, requests, history
<1> QED
  BY <1>2, <1>3, <1>4, <1>5, <1>6 DEF Next

\* What the job holds, and the rows it has still to report.
LEMMA JobStep ==
  ASSUME RowTypes, JobTypes, JobInv, [Next]_vars
  PROVE  JobTypes' /\ JobInv'
<1>1. CASE job' = job \/ job' = Resting
  BY <1>1 DEF JobTypes, JobInv, Resting
<1>2. CASE JobSelect
  <2> DEFINE stale(p) ==
        {i \in DOMAIN rows[p] : Stale(rows[p][i])}
  <2>1. \A p \in Paths : Cardinality(stale(p)) \in Nat
    <3> SUFFICES ASSUME NEW p \in Paths
                 PROVE  Cardinality(stale(p)) \in Nat
      OBVIOUS
    <3>1. Len(rows[p]) \in Nat /\ DOMAIN rows[p] = 1..Len(rows[p])
      BY DEF RowTypes
    <3>2. stale(p) \in SUBSET (1..Len(rows[p]))
      BY <3>1
    <3>3. IsFiniteSet(1..Len(rows[p]))
      BY <3>1, FS_Interval
    <3> HIDE DEF stale
    <3> QED
      BY <3>2, <3>3, FS_Subset, FS_CardinalityType
  <2>2. job' = [Resting EXCEPT !.step = "report",
                               !.left = [p \in Paths |-> Cardinality(stale(p))]]
    BY <1>2 DEF JobSelect
  <2> HIDE DEF stale
  <2>3. job' = [step |-> "report", path |-> NoPath,
                left |-> [p \in Paths |-> Cardinality(stale(p))]]
    BY <2>2 DEF Resting
  <2> QED
    BY <2>1, <2>3 DEF JobTypes, JobInv
<1>3. ASSUME NEW p \in Paths, JobReport(p)
      PROVE  JobTypes' /\ JobInv'
  BY <1>3 DEF JobReport, JobTypes, JobInv
<1>4. CASE JobClear
  <2>1. job.path \in Paths /\ job.left[job.path] \in Nat
        /\ job.left[job.path] - 1 \in Nat
    BY <1>4 DEF JobClear, JobTypes, JobInv
  <2>2. job' = [step |-> "report", path |-> NoPath,
                left |-> [job.left EXCEPT ![job.path] = @ - 1]]
    BY <1>4 DEF JobClear, JobTypes
  <2> QED
    BY <2>1, <2>2 DEF JobTypes, JobInv
<1>5. CASE Tick
  <2>1. CASE job.step = "rest"
    <3>1. job' = [job EXCEPT !.step = "due"]
      BY <1>5, <2>1 DEF Tick
    <3> QED
      BY <2>1, <3>1 DEF JobTypes, JobInv
  <2>2. CASE job.step # "rest"
    BY <1>1, <1>5, <2>2 DEF Tick
  <2> QED
    BY <2>1, <2>2
<1>6. CASE JobSweep \/ JobMisses \/ JobDies \/ UNCHANGED vars
  <2>1. CASE JobMisses
    <3>1. job' = [step |-> "report", path |-> NoPath,
                  left |-> [p \in Paths |-> 0]]
      BY <2>1 DEF JobMisses, Resting
    <3> QED
      BY <3>1 DEF JobTypes, JobInv
  <2> QED
    BY <1>1, <1>6, <2>1 DEF JobSweep, JobDies, vars
<1>7. ASSUME NEW u \in Uploads, Request(u) \/ Step(u) \/ Kill(u)
      PROVE  job' = job
  BY <1>7 DEF Request, Step, Kill, BeginFind, InnerFind, BeginStore, Transfer,
          Abort, CompleteFind, Stamp, Notify
<1> QED
  BY <1>1, <1>2, <1>3, <1>4, <1>5, <1>6, <1>7 DEF Next, Run

\* How the row of a request's hook is stored, and which statements touch rows.
LEMMA StoreRows ==
  ASSUME RowTypes, NEW u \in Uploads, Store(u)
  PROVE  /\ RowTypes'
         /\ \A q \in Paths \ {PathOf[u]} : rows'[q] = rows[q]
         /\ StartEvent(u) \in Starts
         /\ at[u] = "insert" =>
              /\ Len(rows'[PathOf[u]]) = Len(rows[PathOf[u]]) + 1
              /\ DOMAIN rows[PathOf[u]] = 1..Len(rows[PathOf[u]])
              /\ DOMAIN rows'[PathOf[u]] = 1..(Len(rows[PathOf[u]]) + 1)
              /\ \A i \in DOMAIN rows[PathOf[u]] :
                   rows'[PathOf[u]][i] = rows[PathOf[u]][i]
              /\ rows'[PathOf[u]][Len(rows[PathOf[u]]) + 1]
                  = [event |-> StartEvent(u), age |-> 0]
         /\ at[u] # "insert" =>
              /\ Len(rows'[PathOf[u]]) = Len(rows[PathOf[u]])
              /\ DOMAIN rows'[PathOf[u]] = DOMAIN rows[PathOf[u]]
              /\ \A i \in DOMAIN rows'[PathOf[u]] :
                   rows'[PathOf[u]][i] = [event |-> StartEvent(u), age |-> 0]
<1> DEFINE e == StartEvent(u)
           p == PathOf[u]
<1>1. e \in Starts /\ p \in Paths
  BY HookSets, PathTypes DEF StartEvent
<1>2. CASE at[u] = "insert"
  <2>1. rows' = [rows EXCEPT ![p] = Append(@, [event |-> e, age |-> 0])]
    BY <1>2 DEF Store
  <2> HIDE DEF e, p
  <2>2. /\ RowTypes'
        /\ \A q \in Paths \ {p} : rows'[q] = rows[q]
        /\ Len(rows'[p]) = Len(rows[p]) + 1
        /\ DOMAIN rows[p] = 1..Len(rows[p])
        /\ DOMAIN rows'[p] = 1..(Len(rows[p]) + 1)
        /\ \A i \in DOMAIN rows[p] : rows'[p][i] = rows[p][i]
        /\ rows'[p][Len(rows[p]) + 1] = [event |-> e, age |-> 0]
    BY <1>1, <2>1, AppendRows
  <2> QED
    BY <1>1, <1>2, <2>2 DEF e, p
<1>3. CASE at[u] # "insert"
  <2>1. SetAll(p, e)
    BY <1>3 DEF Store
  <2> HIDE DEF e, p
  <2>2. /\ RowTypes'
        /\ \A q \in Paths \ {p} : rows'[q] = rows[q]
        /\ Len(rows'[p]) = Len(rows[p])
        /\ DOMAIN rows'[p] = DOMAIN rows[p]
        /\ \A i \in DOMAIN rows'[p] : rows'[p][i] = [event |-> e, age |-> 0]
    BY <1>1, <2>1, SetAllRows
  <2> QED
    BY <1>1, <1>3, <2>2 DEF e, p
<1> QED
  BY <1>2, <1>3

LEMMA OtherRows ==
  ASSUME [Next]_vars
  PROVE  \/ UNCHANGED rows
         \/ \E u \in Uploads : BeginStore(u) /\ Store(u)
         \/ \E u \in Uploads : Stamp(u) /\ SetAll(PathOf[u], "completed")
         \/ JobClear /\ DeleteAll(job.path)
         \/ JobSweep /\ Sweep
         \/ Tick
<1>1. ASSUME NEW u \in Uploads, Request(u) \/ Step(u) \/ Kill(u)
      PROVE  \/ UNCHANGED rows
             \/ BeginStore(u) /\ Store(u)
             \/ Stamp(u) /\ SetAll(PathOf[u], "completed")
  BY <1>1 DEF Request, Step, Kill, BeginFind, InnerFind, BeginStore, Transfer,
          Abort, CompleteFind, Suppress, Stamp, Notify
<1>2. CASE Run \/ JobMisses \/ JobDies
  BY <1>2 DEF Run, JobSelect, JobReport, JobClear, Clear, JobSweep, JobMisses, JobDies
<1> QED
  BY <1>1, <1>2 DEF Next, vars

LEMMA RowsOf ==
  ASSUME RowTypes, JobInv, [Next]_vars, NEW p \in Paths, rows'[p] # rows[p]
  PROVE  \/ \E u \in Uploads : BeginStore(u) /\ Store(u) /\ PathOf[u] = p
         \/ \E u \in Uploads : /\ Stamp(u) /\ SetAll(PathOf[u], "completed")
                               /\ PathOf[u] = p
         \/ JobClear /\ DeleteAll(job.path) /\ job.path = p
         \/ JobSweep /\ Sweep
         \/ Tick
<1>1. ASSUME NEW u \in Uploads, Store(u)
      PROVE  PathOf[u] = p
  BY <1>1, StoreRows
<1>2. ASSUME NEW u \in Uploads, SetAll(PathOf[u], "completed")
      PROVE  PathOf[u] = p
  BY <1>2, SetAllRows, PathTypes
<1>3. JobClear /\ DeleteAll(job.path) => job.path = p
  BY DeleteRows DEF JobClear, JobInv
<1> QED
  BY <1>1, <1>2, <1>3, OtherRows

LEMMA RowTypesStep ==
  ASSUME RowTypes, JobTypes, JobInv, [Next]_vars
  PROVE  RowTypes'
<1>1. CASE UNCHANGED rows
  BY <1>1 DEF RowTypes
<1>2. CASE \E u \in Uploads : BeginStore(u) /\ Store(u)
  BY <1>2, StoreRows
<1>3. CASE \E u \in Uploads : Stamp(u) /\ SetAll(PathOf[u], "completed")
  BY <1>3, SetAllRows, PathTypes
<1>4. CASE JobClear /\ DeleteAll(job.path)
  BY <1>4, DeleteRows DEF JobClear, JobInv
<1>5. CASE JobSweep /\ Sweep
  BY <1>5, SweptRows
<1>6. CASE Tick
  BY <1>6, AgedRows
<1> QED
  BY <1>1, <1>2, <1>3, <1>4, <1>5, <1>6, OtherRows

LEMMA HistoryStep ==
  ASSUME HistoryTypes, [Next]_vars
  PROVE  HistoryTypes'
<1> USE DEF HistoryTypes
<1>a. Fault => faults' \in 0..MaxFaults
  BY Numbers DEF Fault
<1>b. 0 \in 0..Old
  BY Numbers
<1>1. ASSUME NEW u \in Uploads, Request(u) \/ Kill(u) \/ Transfer(u) \/ Abort(u)
      PROVE  HistoryTypes'
  <2>1. CASE Request(u)
    BY <1>b, <2>1 DEF Request
  <2>2. CASE Kill(u)
    BY <1>a, <2>2 DEF Kill, ages
  <2>3. CASE Transfer(u) \/ Abort(u)
    BY <2>3, PathTypes DEF Transfer, Abort, ages
  <2> QED
    BY <1>1, <2>1, <2>2, <2>3
<1>2. ASSUME NEW u \in Uploads,
             BeginFind(u) \/ InnerFind(u) \/ BeginStore(u) \/ CompleteFind(u)
      PROVE  HistoryTypes'
  <2>1. faults' \in 0..MaxFaults
    BY <1>a, <1>2
    DEF BeginFind, InnerFind, BeginStore, CompleteFind, Finds, FindsNone
  <2>2. CASE BeginFind(u) \/ InnerFind(u)
    BY <2>1, <2>2 DEF BeginFind, InnerFind, ages
  <2>3. CASE BeginStore(u)
    BY <2>1, <2>3 DEF BeginStore, ages
  <2>4. CASE CompleteFind(u)
    <3>1. decided' = decided \/ decided' = [decided EXCEPT ![PathOf[u]] = 0]
      BY <2>4 DEF CompleteFind, Decide
    <3>2. decided' \in [Paths -> 0..Old]
      BY <1>b, <3>1
    <3> QED
      BY <2>1, <2>4, <3>2 DEF CompleteFind
  <2> QED
    BY <1>2, <2>2, <2>3, <2>4
<1>3. ASSUME NEW u \in Uploads, Stamp(u) \/ Notify(u)
      PROVE  HistoryTypes'
  BY <1>a, <1>3 DEF Stamp, Notify, Excuse, ages
<1>4. CASE Run
  <2>1. CASE JobSelect
    BY <2>1 DEF JobSelect, history, ages
  <2>2. CASE \E p \in Paths : JobReport(p)
    BY <1>a, <2>2 DEF JobReport, ages
  <2>3. CASE JobClear
    BY <1>a, <2>3 DEF JobClear, Excuse, ages
  <2>4. CASE JobSweep
    BY <1>a, <2>4 DEF JobSweep, Excuse, ages
  <2> QED
    BY <1>4, <2>1, <2>2, <2>3, <2>4 DEF Run
<1>5. CASE JobMisses \/ JobDies \/ UNCHANGED vars
  BY <1>a, <1>5 DEF JobMisses, JobDies, vars, history, ages
<1>6. CASE Tick
  BY <1>6, Numbers DEF Tick
<1> QED
  BY <1>1, <1>2, <1>3, <1>4, <1>5, <1>6 DEF Next, Step

LEMMA ShapeStep ==
  ASSUME ShapeInv, [Next]_vars
  PROVE  ShapeInv'
<1>1. RowTypes /\ Requests /\ JobTypes /\ HistoryTypes /\ JobInv
  BY TypeParts DEF ShapeInv, Requests
<1>2. RowTypes' /\ Requests' /\ JobTypes' /\ HistoryTypes' /\ JobInv'
  BY <1>1, RowTypesStep, RequestsStep, JobStep, HistoryStep
<1> QED
  BY <1>2, TypeParts DEF ShapeInv, Requests

LEMMA ShapeInit == Init => ShapeInv
<1> SUFFICES ASSUME Init
             PROVE  ShapeInv
  OBVIOUS
<1>1. RowTypes
  BY DEF Init, RowTypes
<1>2. Requests
  BY DEF Init, Requests, RequestTypes, RequestInv
<1>3. JobTypes /\ JobInv
  BY DEF Init, JobTypes, JobInv, Resting
<1>4. HistoryTypes
  BY Numbers DEF Init, HistoryTypes
<1> QED
  BY <1>1, <1>2, <1>3, <1>4, TypeParts DEF ShapeInv, Requests

-----------------------------------------------------------------------------
(* Markers and decisions *)

LEMMA ShapeFacts ==
  ShapeInv => RowTypes /\ Requests /\ JobTypes /\ HistoryTypes /\ JobInv
BY TypeParts DEF ShapeInv, Requests

\* A request that is not the one that takes the step stays where it is.
LEMMA OthersStay ==
  ASSUME Requests, NEW u \in Uploads, Request(u) \/ Step(u) \/ Kill(u)
  PROVE  \A v \in Uploads \ {u} : UNCHANGED <<todo[v], at[v], fate[v]>>
BY DEF Request, Step, Kill, BeginFind, InnerFind, BeginStore, Transfer, Abort,
       CompleteFind, Suppress, Decide, Stamp, Notify, HookEnds, GoTo, Requests,
       RequestTypes

LEMMA DecidedSteps ==
  ASSUME HistoryTypes, [Next]_vars, ~ Tick
  PROVE  /\ \A p \in Paths : decided'[p] \in {decided[p], 0}
         /\ rows' # rows => decided' = decided
<1>1. CASE \E u \in Uploads : CompleteFind(u)
  BY <1>1, PathTypes DEF CompleteFind, Suppress, Decide, HistoryTypes
<1>2. CASE ~ \E u \in Uploads : CompleteFind(u)
  <2>1. decided' = decided
    BY <1>2
    DEF Next, Request, Step, Kill, BeginFind, InnerFind, BeginStore, Transfer,
        Abort, Stamp, Notify, Run, JobSelect, JobReport, JobClear, JobSweep,
        JobMisses, JobDies, ages, history, vars
  <2> QED
    BY <2>1
<1> QED
  BY <1>1, <1>2

LEMMA DecidingStep ==
  ASSUME ShapeInv, MarkerInv, [Next]_vars, NEW u \in Uploads, Deciding(u)'
  PROVE  decided'[PathOf[u]] = 0
<1> USE ShapeFacts
<1>1. CASE Deciding(u) /\ ~ Tick
  BY <1>1, DecidedSteps, PathTypes DEF MarkerInv
<1>2. CASE Tick
  <2>1. at'[u] # "posting" => at'[u] = at[u]
    BY <1>2 DEF Tick, Requests, RequestTypes
  <2>2. at[u] \in {"inner", "stamp", "insert", "reset"}
    BY <1>2, <2>1 DEF Deciding
  <2>3. AtStatement(u)
    BY <2>2 DEF AtStatement, InHook, Requests, RequestTypes
  <2> QED
    BY <1>2, <2>3 DEF Tick
<1>3. CASE ~ Deciding(u) /\ ~ Tick
  <2>1. ~ UNCHANGED <<at[u], todo[u]>>
    BY <1>3 DEF Deciding
  <2>2. Request(u) \/ Step(u) \/ Kill(u)
    <3>1. ~ UNCHANGED <<at, todo>>
      BY <2>1
    <3>2. PICK v \in Uploads : Request(v) \/ Step(v) \/ Kill(v)
      BY <1>3, <3>1
      DEF Next, Run, JobSelect, JobReport, JobClear, JobSweep, JobMisses, JobDies,
          requests, history, vars
    <3> QED
      BY <2>1, <3>2, OthersStay
  <2>3. at'[u] # "hook"
    BY DEF Deciding
  <2>4. CASE BeginFind(u)
    <3>1. Hook(u) \in Starts /\ Active(u)
      BY <2>4 DEF BeginFind, InHook
    <3>2. todo[u] \in Before /\ todo[u] \notin After
      BY <3>1, HookShape, HookSets
    <3>3. /\ todo'[u] = todo[u]
          /\ at'[u] \in {"insert", "reset"}
      BY <2>3, <2>4
      DEF BeginFind, HookEnds, GoTo, StoreStep, Requests, RequestTypes
    <3> QED
      BY <3>2, <3>3 DEF Deciding
  <2>5. CASE InnerFind(u)
    BY <1>3, <2>5 DEF InnerFind, Deciding
  <2>6. CASE BeginStore(u)
    <3>1. Hook(u) \notin Starts
      BY <2>3, <2>6 DEF BeginStore, HookEnds, Requests, RequestTypes
    <3>2. todo[u] \in After
      BY <2>6, <3>1, HookShape DEF BeginStore, Requests, RequestInv
    <3> QED
      BY <1>3, <2>6, <3>2 DEF BeginStore, Deciding
  <2>7. CASE CompleteFind(u)
    <3>1. decided' = [decided EXCEPT ![PathOf[u]] = 0]
      BY <2>3, <2>7
      DEF CompleteFind, Suppress, Decide, HookEnds, Requests, RequestTypes
    <3> QED
      BY <3>1, PathTypes DEF HistoryTypes
  <2>8. CASE Stamp(u)
    BY <2>8 DEF Stamp, GoTo, Deciding, Requests, RequestTypes
  <2>9. CASE Notify(u) \/ Transfer(u) \/ Kill(u)
    BY <2>3, <2>9 DEF Notify, Transfer, Kill, HookEnds, Requests, RequestTypes
  <2>10. CASE Abort(u) \/ Request(u)
    <3>1. at[u] = "hook"
      BY <2>10 DEF Abort, Request, InHook, Active, Requests, RequestTypes,
                   RequestInv
    <3> QED
      BY <2>3, <2>10, <3>1 DEF Abort, Request
  <2> QED
    BY <2>2, <2>4, <2>5, <2>6, <2>7, <2>8, <2>9, <2>10 DEF Step
<1> QED
  BY <1>1, <1>2, <1>3

LEMMA MarkerStep ==
  ASSUME ShapeInv, MarkerInv, [Next]_vars
  PROVE  MarkerInv'
<1> USE ShapeFacts
<1>1. ASSUME NEW p \in Paths, NEW i \in DOMAIN rows'[p],
             rows'[p][i].event = "completed"
      PROVE  decided'[p] =< rows'[p][i].age
  <2>1. /\ decided[p] \in 0..Old
        /\ \A j \in DOMAIN rows[p] : rows[p][j].age \in 0..Old
    <3>1. \A j \in DOMAIN rows[p] : rows[p][j] \in Row
      BY DEF RowTypes
    <3> QED
      BY <3>1 DEF HistoryTypes, Row
  <2>2. CASE rows'[p] = rows[p] /\ ~ Tick
    <3>1. decided[p] =< rows[p][i].age /\ rows[p][i].age \in 0..Old
      BY <1>1, <2>1, <2>2 DEF MarkerInv
    <3>2. decided'[p] \in {decided[p], 0}
      BY <2>2, DecidedSteps
    <3> QED
      BY <2>1, <2>2, <3>1, <3>2, Numbers
  <2>3. ASSUME NEW u \in Uploads, BeginStore(u), Store(u), p = PathOf[u],
               ~ Tick, rows' # rows
        PROVE  decided'[p] =< rows'[p][i].age
    <3>1. decided' = decided
      BY <2>3, DecidedSteps
    <3>2. StartEvent(u) # "completed"
      BY <2>3, StoreRows, HookSets
    <3>a. RowTypes /\ Store(u)
      BY <2>3
    <3>3. CASE at[u] = "insert"
      <4>1. i \in DOMAIN rows[p] /\ rows'[p][i] = rows[p][i]
        <5>1. /\ DOMAIN rows[p] = 1..Len(rows[p])
              /\ DOMAIN rows'[p] = 1..(Len(rows[p]) + 1)
              /\ \A j \in DOMAIN rows[p] : rows'[p][j] = rows[p][j]
              /\ rows'[p][Len(rows[p]) + 1].event # "completed"
          <6> HIDE ShapeFacts
          <6>1. rows'[p][Len(rows[p]) + 1]
                = [event |-> StartEvent(u), age |-> 0]
            BY <2>3, <3>a, <3>3, StoreRows
          <6> QED
            BY <2>3, <3>a, <3>2, <3>3, <6>1, StoreRows
        <5>2. Len(rows[p]) \in Nat
          BY DEF RowTypes
        <5> QED
          BY <1>1, <5>1, <5>2
      <4> QED
        BY <1>1, <3>1, <4>1 DEF MarkerInv
    <3>4. CASE at[u] # "insert"
      <4>1. rows'[p][i] = [event |-> StartEvent(u), age |-> 0]
        BY <1>1, <2>3, <3>a, <3>4, StoreRows
      <4> QED
        BY <1>1, <3>2, <4>1
    <3> QED
      BY <3>3, <3>4
  <2>4. ASSUME NEW u \in Uploads, Stamp(u), SetAll(PathOf[u], "completed"),
               p = PathOf[u], ~ Tick
        PROVE  decided'[p] =< rows'[p][i].age
    <3>1. rows'[p][i] = [event |-> "completed", age |-> 0]
      BY <2>4, SetAllRows
    <3>2. decided[p] = 0
      BY <2>4 DEF MarkerInv, Deciding, Stamp
    <3>3. decided'[p] = 0
      BY <2>4, <3>2, DecidedSteps
    <3> QED
      BY <3>1, <3>3
  <2>5. CASE JobSweep /\ Sweep /\ ~ Tick
    <3>1. decided' = decided
      BY <2>5 DEF JobSweep, ages
    <3>2. PICK j \in DOMAIN rows[p] : rows'[p][i] = rows[p][j]
      <4>1. rows'[p] = Unexpired(rows[p]) /\ rows[p] \in Seq(Row)
        BY <2>5, SweptRows DEF RowTypes
      <4> QED
        BY <4>1, UnexpiredRows
    <3> QED
      BY <1>1, <3>1, <3>2 DEF MarkerInv
  <2>6. CASE Tick
    <3>1. decided'[p] = Later(decided[p])
      BY <2>6 DEF Tick
    <3>2. /\ i \in DOMAIN rows[p]
          /\ rows'[p][i].event = rows[p][i].event
          /\ rows'[p][i].age = Later(rows[p][i].age)
      BY <2>6, AgedRows
    <3>3. decided[p] =< rows[p][i].age
      BY <1>1, <3>2 DEF MarkerInv
    <3> QED
      BY <2>1, <3>1, <3>2, <3>3, Numbers
  <2>7. CASE JobClear /\ DeleteAll(job.path) /\ p = job.path
    BY <2>7, DeleteRows
  <2>8. CASE rows'[p] # rows[p]
    BY <2>3, <2>4, <2>5, <2>6, <2>7, <2>8, RowsOf
  <2> QED
    BY <2>2, <2>3, <2>4, <2>5, <2>6, <2>7, <2>8
<1> QED
  BY <1>1, DecidingStep DEF MarkerInv

-----------------------------------------------------------------------------
(* Rows and the requests they stand for *)

LEMMA RowFacts ==
  ASSUME RowTypes, NEW p \in Paths
  PROVE  /\ rows[p] \in Seq(Row) /\ Len(rows[p]) \in Nat
         /\ DOMAIN rows[p] = 1..Len(rows[p])
         /\ \A i \in DOMAIN rows[p] :
              rows[p][i] \in Row /\ rows[p][i].age \in 0..Old
<1>1. /\ rows[p] \in Seq(Row) /\ Len(rows[p]) \in Nat
      /\ DOMAIN rows[p] = 1..Len(rows[p])
      /\ \A i \in DOMAIN rows[p] : rows[p][i] \in Row
  BY DEF RowTypes
<1> QED
  BY <1>1 DEF Row

\* What only grows.
LEMMA Grows ==
  ASSUME HistoryTypes, [Next]_vars
  PROVE  /\ twins \subseteq twins'
         /\ informed \subseteq informed'
         /\ excused \subseteq excused'
         /\ faults' = 0 => faults = 0 /\ ~ Fault
<1>1. faults' = faults \/ Fault
  BY DEF Next, Request, Step, Kill, BeginFind, InnerFind, BeginStore, Transfer,
     Abort, CompleteFind, Finds, FindsNone, Stamp, Notify, Run, JobSelect,
     JobReport, JobClear, JobSweep, JobMisses, JobDies, Tick, ages, history, vars
<1>2. faults \in Nat /\ (Fault => faults' = faults + 1)
  BY Numbers DEF HistoryTypes, Fault
<1>3. faults' = 0 => faults = 0 /\ ~ Fault
  BY <1>1, <1>2
<1>4. /\ twins \subseteq twins'
      /\ informed \subseteq informed'
      /\ excused \subseteq excused'
  BY DEF Next, Request, Step, Kill, BeginFind, InnerFind, BeginStore, Transfer,
     Abort, CompleteFind, Stamp, Notify, Run, JobSelect, Excuse,
     JobReport, JobClear, JobSweep, JobMisses, JobDies, Tick, ages, history, vars
<1> QED
  BY <1>3, <1>4

LEMMA TwinStep ==
  ASSUME ShapeInv, TwinInv, [Next]_vars
  PROVE  TwinInv'
<1> USE ShapeFacts
<1> SUFFICES ASSUME NEW p \in Paths, p \notin twins'
             PROVE  Len(rows'[p]) =< 1
  BY DEF TwinInv
<1>1. Len(rows[p]) \in Nat /\ Len(rows'[p]) \in Nat
  <2>1. RowTypes'
    BY RowTypesStep
  <2> QED
    BY <2>1 DEF RowTypes
<1>2. Len(rows[p]) =< 1
  BY Grows DEF TwinInv
<1>3. CASE rows'[p] = rows[p]
  BY <1>2, <1>3
<1>4. CASE \E u \in Uploads : BeginStore(u)
  BY <1>1, <1>4 DEF BeginStore
<1>5. ASSUME NEW u \in Uploads, SetAll(PathOf[u], "completed"), PathOf[u] = p
      PROVE  Len(rows'[p]) = Len(rows[p])
  BY <1>5, SetAllRows
<1>6. CASE JobClear /\ DeleteAll(job.path) /\ job.path = p
  <2>1. rows'[p] = <<>>
    BY <1>6, DeleteRows
  <2> QED
    BY <2>1
<1>7. CASE Sweep
  <2>1. rows'[p] = Unexpired(rows[p]) /\ rows[p] \in Seq(Row)
    BY <1>7, SweptRows, RowFacts
  <2> QED
    BY <1>1, <1>2, <2>1, UnexpiredRows
<1>8. CASE Tick
  BY <1>2, <1>8, AgedRows
<1> QED
  BY <1>2, <1>3, <1>4, <1>5, <1>6, <1>7, <1>8, RowsOf

LEMMA SponsorFacts ==
  ASSUME Requests, NEW u \in Uploads, Sponsor(u)
  PROVE  Unfinished(u)
BY HookSets DEF Sponsor, Unfinished, Active

\* A sponsor remains one, unless it completes its path's rows or finds them
\* completed.
LEMMA StaysSponsor ==
  ASSUME ShapeInv, [Next]_vars, faults' = 0, NEW u \in Uploads, Sponsor(u)
  PROVE  \/ /\ Sponsor(u)'
            /\ ~ Tick => since'[u] = since[u]
            /\ Tick => since'[u] = Later(since[u])
         \/ Stamp(u)
         \/ CompleteFind(u) /\ Suppress(u)
<1> USE ShapeFacts
<1>1. CASE Tick
  <2>1. Unfinished(u)
    BY SponsorFacts
  <2>2. since'[u] = Later(since[u])
    BY <1>1, <2>1 DEF Tick
  <2>3. UNCHANGED <<todo, fate>>
        /\ (at'[u] \in {"notify", "posting"} => at[u] = at'[u] \/ at[u] = "notify")
    BY <1>1 DEF Tick, Requests, RequestTypes
  <2> QED
    BY <1>1, <2>2, <2>3 DEF Sponsor
<1>2. CASE ~ Tick /\ UNCHANGED <<todo[u], at[u], fate[u]>>
  <2>1. since'[u] = since[u]
    <3>1. ASSUME NEW v \in Uploads, Request(v)
          PROVE  v # u
      <4>1. todo[v] = <<>> /\ fate[v] = "none"
        BY <3>1 DEF Request, Requests, RequestInv
      <4> QED
        BY <4>1, HookSets DEF Sponsor
    <3> QED
      BY <1>2, <3>1
      DEF Next, Request, Step, Kill, BeginFind, InnerFind, BeginStore, Transfer,
         Abort, CompleteFind, Stamp, Notify, Run, JobSelect, JobReport,
         JobClear, JobSweep, JobMisses, JobDies, ages, history, vars, HistoryTypes
  <2> QED
    BY <1>2, <2>1 DEF Sponsor
<1>3. CASE ~ Tick /\ ~ UNCHANGED <<todo[u], at[u], fate[u]>>
  <2>1. Request(u) \/ Step(u) \/ Kill(u)
    <3>1. ~ UNCHANGED <<at, todo, fate>>
      BY <1>3
    <3>2. PICK v \in Uploads : Request(v) \/ Step(v) \/ Kill(v)
      BY <1>3, <3>1
      DEF Next, Run, JobSelect, JobReport, JobClear, JobSweep, JobMisses, JobDies,
          requests, history, vars
    <3> QED
      BY <1>3, <3>2, OthersStay
  <2>2. ~ Kill(u)
    BY Grows DEF Kill
  <2>3. ~ Request(u)
    BY HookSets DEF Request, Requests, RequestInv, Sponsor
  <2>4. since'[u] = since[u]
    BY <2>1, <2>2, <2>3
    DEF Step, BeginFind, InnerFind, BeginStore, Transfer, Abort, CompleteFind,
        Stamp, Notify, ages
  <2>5. CASE BeginFind(u)
    <3>1. Active(u) /\ Hook(u) \in Starts /\ UNCHANGED fate
      BY <2>5 DEF BeginFind, InHook
    <3>2. CASE HookEnds(u)
      <4>1. todo'[u] \in Begun
        BY <3>1, <3>2, NextHook, HookSets
      <4> QED
        BY <1>3, <2>4, <4>1, HookSets DEF Sponsor
    <3>3. CASE ~ HookEnds(u)
      <4>1. todo' = todo /\ todo[u] \in Before
        BY <2>5, <3>1, <3>3, HookShape, HookSets DEF BeginFind, GoTo
      <4> QED
        BY <1>3, <2>4, <3>1, <4>1, HookSets DEF Sponsor
    <3> QED
      BY <3>2, <3>3
  <2>6. CASE InnerFind(u)
    <3>1. UNCHANGED <<todo, fate>> /\ at'[u] \notin {"notify", "posting"}
      BY <2>6 DEF InnerFind, GoTo, StoreStep, Requests, RequestTypes
    <3> QED
      BY <1>3, <2>4, <3>1 DEF Sponsor
  <2>7. CASE BeginStore(u)
    <3>1. Active(u) /\ UNCHANGED fate
      BY <2>7 DEF BeginStore
    <3>2. CASE Hook(u) \in Starts
      <4>1. todo'[u] \in Begun
        BY <2>7, <3>1, <3>2, NextHook, HookSets DEF BeginStore
      <4> QED
        BY <1>3, <2>4, <4>1, HookSets DEF Sponsor
    <3>3. CASE Hook(u) \notin Starts
      <4>1. UNCHANGED <<todo, fate>> /\ at'[u] = "stamp"
        BY <2>7, <3>3 DEF BeginStore, GoTo, Requests, RequestTypes
      <4> QED
        BY <1>3, <2>4, <4>1 DEF Sponsor
    <3> QED
      BY <3>2, <3>3
  <2>8. CASE Transfer(u)
    <3>1. todo'[u] \in After /\ at'[u] = "hook"
      BY <2>8, NextHook DEF Transfer, InHook
    <3> QED
      BY <1>3, <2>4, <3>1 DEF Sponsor
  <2>9. CASE Abort(u)
    <3>1. Active(u) /\ Hook(u) = "transfer" /\ fate[u] = "open"
      BY <2>9, HookShape, HookSets DEF Abort, InHook
    <3>2. todo[u] # Chunked
      BY <3>1, HookShape, HookSets DEF Sponsor
    <3>3. fate'[u] = "aborted"
      BY <2>9, <3>2, HookSets DEF Abort, Requests, RequestTypes
    <3> QED
      BY <1>3, <2>4, <3>3 DEF Sponsor
  <2>10. CASE CompleteFind(u) /\ ~ Suppress(u)
    <3>1. UNCHANGED <<todo, fate>> /\ at'[u] \in {"inner", "stamp"}
      BY <2>10 DEF CompleteFind, Decide, GoTo, Requests, RequestTypes
    <3> QED
      BY <1>3, <2>4, <3>1 DEF Sponsor
  <2>11. ~ Notify(u)
    <3>1. ASSUME Notify(u)
          PROVE  FALSE
      <4>1. at[u] \in {"notify", "posting"} /\ Active(u)
        BY <3>1 DEF Notify
      <4>2. todo[u] \in After
        BY <4>1 DEF Requests, RequestInv
      <4> QED
        BY <4>1, <4>2, HookShape, AfterHooks, HookSets DEF Sponsor, Hook
    <3> QED
      BY <3>1
  <2> QED
    BY <2>1, <2>2, <2>3, <2>5, <2>6, <2>7, <2>8, <2>9, <2>10, <2>11 DEF Step
<1> QED
  BY <1>1, <1>2, <1>3

\* A started row keeps a sponsor as long as its path has a started row.
LEMMA KeepsSponsor ==
  ASSUME ShapeInv, TwinInv, SponsorInv, [Next]_vars, faults' = 0, ~ Tick,
         NEW p \in Paths, p \notin twins,
         NEW j \in DOMAIN rows[p], rows[p][j].event \in Starts,
         NEW i \in DOMAIN rows'[p], rows'[p][i].event \in Starts
  PROVE  \E u \in Uploads :
           PathOf[u] = p /\ Sponsor(u)' /\ since'[u] >= rows[p][j].age
<1> USE ShapeFacts
<1>1. faults = 0
  BY Grows
<1>2. PICK u \in Uploads : PathOf[u] = p /\ Sponsor(u) /\ since[u] >= rows[p][j].age
  BY <1>1 DEF SponsorInv, Sponsored
<1>3. ~ Stamp(u)
  <2> SUFFICES ASSUME Stamp(u)
               PROVE  FALSE
    OBVIOUS
  <2>1. SetAll(p, "completed")
    BY <1>2, Grows DEF Stamp
  <2>2. rows'[p][i] = [event |-> "completed", age |-> 0]
    BY <2>1, SetAllRows
  <2> QED
    BY <2>2, HookSets
<1>4. ~ (CompleteFind(u) /\ Suppress(u))
  <2> SUFFICES ASSUME CompleteFind(u), Suppress(u)
               PROVE  FALSE
    OBVIOUS
  <2>1. at'[u] = "hook"
    BY DEF Suppress, HookEnds, Requests, RequestTypes
  <2>2. ~ \E step \in {"inner", "stamp"} : Decide(u, step)
    BY <2>1 DEF Decide, GoTo, Requests, RequestTypes
  <2>3. PICK r \in Row : r \in Range(rows[p]) /\ Suppressed(r)
    BY <1>2, <2>2 DEF CompleteFind, Finds
  <2>4. PICK k \in DOMAIN rows[p] : r = rows[p][k]
    BY <2>3 DEF Range
  <2>5. j = k
    <3>1. Len(rows[p]) =< 1
      BY DEF TwinInv
    <3> QED
      BY <3>1, RowFacts
  <2> QED
    BY <2>3, <2>4, <2>5, HookSets DEF Suppressed
<1>5. Sponsor(u)' /\ since'[u] = since[u]
  BY <1>2, <1>3, <1>4, StaysSponsor
<1> QED
  BY <1>2, <1>5

LEMMA SponsorStep ==
  ASSUME ShapeInv, TwinInv, SponsorInv, [Next]_vars
  PROVE  SponsorInv'
<1> USE ShapeFacts
<1> SUFFICES ASSUME faults' = 0, NEW p \in Paths, p \notin twins',
                    NEW i \in DOMAIN rows'[p], rows'[p][i].event \in Starts
             PROVE  \E u \in Uploads : /\ PathOf[u] = p /\ Sponsor(u)'
                                       /\ since'[u] >= rows'[p][i].age
  BY DEF SponsorInv, Sponsored
<1>1. p \notin twins /\ faults = 0 /\ ~ Fault
  BY Grows
<1>2. ASSUME NEW j \in DOMAIN rows[p], rows'[p][i] = rows[p][j], ~ Tick
      PROVE  \E u \in Uploads : /\ PathOf[u] = p /\ Sponsor(u)'
                                /\ since'[u] >= rows'[p][i].age
  BY <1>1, <1>2, KeepsSponsor
<1>3. ASSUME NEW v \in Uploads, BeginStore(v), Store(v), PathOf[v] = p,
             rows'[p][i].age = 0
      PROVE  PathOf[v] = p /\ Sponsor(v)' /\ since'[v] >= rows'[p][i].age
  <2>1. since'[v] \in 0..Old
    BY HistoryStep DEF HistoryTypes
  <2>2. Sponsor(v)'
    <3>1. CASE Hook(v) \in Starts
      <4>1. todo'[v] \in Begun
        BY <1>3, <3>1, NextHook, HookSets DEF BeginStore
      <4> QED
        BY <4>1, HookSets DEF Sponsor
    <3>2. CASE Hook(v) \notin Starts
      <4>1. UNCHANGED <<todo, fate>> /\ at'[v] = "stamp"
        BY <1>3, <3>2 DEF BeginStore, GoTo, Requests, RequestTypes
      <4>2. todo[v] \in After
        BY <1>3, <3>2, HookShape DEF BeginStore, Requests, RequestInv
      <4> QED
        BY <4>1, <4>2 DEF Sponsor
    <3> QED
      BY <3>1, <3>2
  <2> QED
    BY <1>3, <2>1, <2>2, Numbers
<1>4. CASE rows'[p] = rows[p] /\ ~ Tick
  BY <1>2, <1>4
<1>5. ASSUME NEW v \in Uploads, BeginStore(v), Store(v), PathOf[v] = p, ~ Tick
      PROVE  \E u \in Uploads : /\ PathOf[u] = p /\ Sponsor(u)'
                                /\ since'[u] >= rows'[p][i].age
  <2>1. CASE at[v] = "insert"
    <3>1. CASE i \in DOMAIN rows[p]
      <4>1. rows'[p][i] = rows[p][i]
        BY <1>5, <2>1, <3>1, StoreRows
      <4> QED
        BY <1>2, <1>5, <3>1, <4>1
    <3>2. CASE i \notin DOMAIN rows[p]
      <4>1. i = Len(rows[p]) + 1
        <5>1. /\ DOMAIN rows[p] = 1..Len(rows[p])
              /\ DOMAIN rows'[p] = 1..(Len(rows[p]) + 1)
          BY <1>5, <2>1, StoreRows
        <5> QED
          BY <3>2, <5>1, RowFacts
      <4>2. rows'[p][i] = [event |-> StartEvent(v), age |-> 0]
        BY <1>5, <2>1, <4>1, StoreRows
      <4> QED
        BY <1>3, <1>5, <4>2
    <3> QED
      BY <3>1, <3>2
  <2>2. CASE at[v] # "insert"
    <3>1. rows'[p][i] = [event |-> StartEvent(v), age |-> 0]
      BY <1>5, <2>2, StoreRows
    <3> QED
      BY <1>3, <1>5, <3>1
  <2> QED
    BY <2>1, <2>2
<1>6. ~ \E u \in Uploads : SetAll(PathOf[u], "completed") /\ PathOf[u] = p
  <2> SUFFICES ASSUME NEW u \in Uploads, SetAll(PathOf[u], "completed"),
                      PathOf[u] = p
               PROVE  FALSE
    OBVIOUS
  <2>1. rows'[p][i] = [event |-> "completed", age |-> 0]
    BY SetAllRows
  <2> QED
    BY <2>1, HookSets
<1>7. ~ (JobClear /\ DeleteAll(job.path) /\ job.path = p)
  BY DeleteRows
<1>8. CASE Sweep /\ ~ Tick
  <2>1. rows'[p] = Unexpired(rows[p]) /\ rows[p] \in Seq(Row)
    BY <1>8, SweptRows, RowFacts
  <2>2. PICK j \in DOMAIN rows[p] : rows'[p][i] = rows[p][j]
    BY <2>1, UnexpiredRows
  <2> QED
    BY <1>2, <1>8, <2>2
<1>9. CASE Tick
  <2>1. /\ i \in DOMAIN rows[p]
        /\ rows'[p][i].event = rows[p][i].event
        /\ rows'[p][i].age = Later(rows[p][i].age)
    BY <1>9, AgedRows
  <2>2. PICK u \in Uploads :
          PathOf[u] = p /\ Sponsor(u) /\ since[u] >= rows[p][i].age
    BY <1>1, <2>1 DEF SponsorInv, Sponsored
  <2>3. Sponsor(u)' /\ since'[u] = Later(since[u])
    <3>1. ~ Stamp(u)
      BY <1>9 DEF Stamp, Tick, AtStatement, InHook
    <3>2. ~ CompleteFind(u)
      BY <1>9, HookSets DEF CompleteFind, Tick, AtStatement, InHook
    <3> QED
      BY <1>9, <2>2, <3>1, <3>2, StaysSponsor
  <2>4. since[u] \in 0..Old /\ rows[p][i].age \in 0..Old
    BY <2>1, RowFacts DEF HistoryTypes
  <2>5. Later(since[u]) >= Later(rows[p][i].age)
    BY <2>2, <2>4, Numbers
  <2> QED
    BY <2>1, <2>2, <2>3, <2>5
<1> QED
  BY <1>4, <1>5, <1>6, <1>7, <1>8, <1>9, RowsOf

\* The rows of a path stay, and stay started, but for a completion, and for the
\* job's DELETE.
LEMMA RowsStay ==
  ASSUME ShapeInv, [Next]_vars, faults' = 0, NEW p \in Paths
  PROVE  /\ Started(p) =>
              \/ Started(p)'
              \/ \E u \in Uploads : Stamp(u) /\ PathOf[u] = p
              \/ JobClear /\ job.path = p
         /\ rows[p] # <<>> =>
              \/ rows'[p] # <<>>
              \/ JobClear /\ job.path = p
              \/ JobSweep
<1> USE ShapeFacts
<1>1. RowTypes'
  BY RowTypesStep
<1>2. ASSUME NEW s \in Seq(Row), NEW t \in Seq(Row), Len(s) =< Len(t), s # <<>>
      PROVE  t # <<>>
  BY <1>2
<1>3. CASE rows'[p] = rows[p]
  BY <1>3 DEF Started
<1>4. ASSUME NEW u \in Uploads, Store(u), PathOf[u] = p
      PROVE  /\ Started(p) => Started(p)'
             /\ rows[p] # <<>> => rows'[p] # <<>>
  <2>1. CASE at[u] = "insert"
    <3>1. DOMAIN rows[p] \subseteq DOMAIN rows'[p]
          /\ \A i \in DOMAIN rows[p] : rows'[p][i] = rows[p][i]
      <4>1. /\ DOMAIN rows[p] = 1..Len(rows[p])
            /\ DOMAIN rows'[p] = 1..(Len(rows[p]) + 1)
            /\ \A i \in DOMAIN rows[p] : rows'[p][i] = rows[p][i]
        BY <1>4, <2>1, StoreRows
      <4> QED
        BY <4>1, RowFacts
    <3>2. Len(rows'[p]) = Len(rows[p]) + 1 /\ Len(rows[p]) \in Nat
      BY <1>4, <2>1, StoreRows, RowFacts
    <3> QED
      BY <3>1, <3>2 DEF Started
  <2>2. CASE at[u] # "insert"
    <3>1. /\ DOMAIN rows'[p] = DOMAIN rows[p]
          /\ Len(rows'[p]) = Len(rows[p])
          /\ \A i \in DOMAIN rows'[p] :
               rows'[p][i] = [event |-> StartEvent(u), age |-> 0]
          /\ StartEvent(u) \in Starts
      BY <1>4, <2>2, StoreRows
    <3>2. rows[p] # <<>> => rows'[p] # <<>>
      BY <1>1, <1>2, <3>1, RowFacts DEF RowTypes
    <3> QED
      BY <3>1, <3>2 DEF Started
  <2> QED
    BY <2>1, <2>2
<1>5. ASSUME NEW u \in Uploads, SetAll(PathOf[u], "completed"), PathOf[u] = p,
             rows[p] # <<>>
      PROVE  rows'[p] # <<>>
  <2>1. Len(rows'[p]) = Len(rows[p])
    BY <1>5, SetAllRows
  <2> QED
    BY <1>1, <1>2, <1>5, <2>1, RowFacts DEF RowTypes
<1>6. ASSUME Sweep, Started(p)
      PROVE  Started(p)'
  <2>1. rows'[p] = Unexpired(rows[p]) /\ rows[p] \in Seq(Row)
    BY <1>6, SweptRows, RowFacts
  <2>2. PICK i \in DOMAIN rows[p] : rows[p][i].event \in Starts
    BY <1>6 DEF Started
  <2>3. ~ Expired(rows[p][i])
    BY <2>2, HookSets DEF Expired
  <2>4. PICK n \in DOMAIN rows'[p] : rows'[p][n] = rows[p][i]
    BY <2>1, <2>2, <2>3, UnexpiredRows
  <2> QED
    BY <2>2, <2>4 DEF Started
<1>7. ASSUME Tick
      PROVE  /\ Started(p) => Started(p)'
             /\ rows[p] # <<>> => rows'[p] # <<>>
  <2>1. /\ Len(rows'[p]) = Len(rows[p])
        /\ DOMAIN rows'[p] = DOMAIN rows[p]
        /\ \A i \in DOMAIN rows[p] : rows'[p][i].event = rows[p][i].event
    BY <1>7, AgedRows
  <2>2. rows[p] # <<>> => rows'[p] # <<>>
    BY <1>1, <1>2, <2>1, RowFacts DEF RowTypes
  <2> QED
    BY <2>1, <2>2 DEF Started
<1> QED
  BY <1>3, <1>4, <1>5, <1>6, <1>7, RowsOf

LEMMA TrackStep ==
  ASSUME ShapeInv, TrackInv, [Next]_vars
  PROVE  TrackInv'
<1> USE ShapeFacts
<1> SUFFICES ASSUME faults' = 0, NEW u \in Uploads,
                    u \notin informed', u \notin excused'
             PROVE  /\ fate'[u] = "aborted" \/ todo'[u] \in Begun
                         => Started(PathOf[u])'
                    /\ at'[u] = "reset" => rows'[PathOf[u]] # <<>>
  BY DEF TrackInv
<1>1. u \notin informed /\ u \notin excused /\ faults = 0 /\ ~ Fault
  BY Grows
<1>2. /\ fate[u] = "aborted" \/ todo[u] \in Begun => Started(PathOf[u])
      /\ at[u] = "reset" => rows[PathOf[u]] # <<>>
  BY <1>1 DEF TrackInv
<1>3. PathOf[u] \in Paths
  BY PathTypes
<1>4. JobClear /\ job.path = PathOf[u] => ~ Unfinished(u)
  BY <1>1 DEF JobClear, Excuse
<1>5. ASSUME NEW v \in Uploads, Stamp(v), PathOf[v] = PathOf[u]
      PROVE  v = u \/ ~ Unfinished(u)
  BY <1>5 DEF Stamp, Excuse
<1>6. ASSUME fate[u] = "aborted" \/ todo[u] \in Begun
      PROVE  Started(PathOf[u])'
  <2>1. Unfinished(u)
    BY <1>6, HookSets DEF Unfinished, Active
  <2>2. ~ Stamp(u)
    <3>1. todo[u] \notin After
      BY <1>6, HookSets DEF Requests, RequestInv
    <3> QED
      BY <3>1 DEF Stamp, Requests, RequestInv
  <2> QED
    BY <1>2, <1>3, <1>4, <1>5, <1>6, <2>1, <2>2, RowsStay
<1>7. ASSUME at[u] = "reset"
      PROVE  rows'[PathOf[u]] # <<>>
  <2>1. Unfinished(u)
    BY <1>7 DEF Unfinished, Requests, RequestTypes
  <2>2. ~ JobSweep
    BY <1>1, <1>7 DEF JobSweep, Excuse
  <2> QED
    BY <1>2, <1>3, <1>4, <1>7, <2>1, <2>2, RowsStay
<1>8. CASE UNCHANGED <<todo[u], at[u], fate[u]>>
  BY <1>6, <1>7, <1>8
<1>9. CASE Tick
  <2>1. UNCHANGED <<todo, fate>> /\ (at'[u] = "reset" => at[u] = "reset")
    BY <1>9 DEF Tick, Requests, RequestTypes
  <2> QED
    BY <1>6, <1>7, <2>1
<1>10. CASE ~ Tick /\ ~ UNCHANGED <<todo[u], at[u], fate[u]>>
  <2>1. Request(u) \/ Step(u)
    <3>1. ~ UNCHANGED <<at, todo, fate>>
      BY <1>10
    <3>2. PICK v \in Uploads : Request(v) \/ Step(v) \/ Kill(v)
      BY <1>10, <3>1
      DEF Next, Run, JobSelect, JobReport, JobClear, JobSweep, JobMisses, JobDies,
          requests, history, vars
    <3> QED
      BY <1>1, <1>10, <3>2, OthersStay DEF Kill
  <2>2. CASE Request(u)
    <3>1. /\ fate'[u] = "open" /\ UNCHANGED at
          /\ todo'[u] \notin Begun
      BY <2>2, HookSets DEF Request, Requests, RequestTypes
    <3> QED
      BY <1>7, <3>1
  <2>3. CASE BeginFind(u)
    <3>1. UNCHANGED fate /\ UNCHANGED rows
      BY <2>3 DEF BeginFind
    <3>2. PICK event \in Starts \union {"completed", "none"} :
            /\ event # "none" =>
                 \E r \in Range(rows[PathOf[u]]) : r.event = event
            /\ IF StoreStep(event) = "begun" THEN HookEnds(u)
                                             ELSE GoTo(u, StoreStep(event))
      BY <2>3 DEF BeginFind, Finds
    <3>3. CASE event \in Starts
      <4>1. Started(PathOf[u])'
        BY <3>1, <3>2, <3>3, HookSets DEF Started, Range, Starts
      <4>2. at'[u] = "hook"
        BY <3>2, <3>3 DEF StoreStep, Starts, HookEnds, Requests, RequestTypes
      <4> QED
        BY <4>1, <4>2
    <3>4. CASE event \notin Starts
      <4>1. UNCHANGED todo
            /\ (at'[u] = "reset" => event = "completed")
        BY <3>2, <3>4 DEF StoreStep, GoTo, Requests, RequestTypes
      <4>2. event = "completed" => rows'[PathOf[u]] # <<>>
        BY <3>1, <3>2 DEF Range
      <4> QED
        BY <1>6, <3>1, <4>1, <4>2
    <3> QED
      BY <3>3, <3>4
  <2>4. CASE InnerFind(u)
    <3>1. UNCHANGED <<todo, fate, rows>>
      BY <2>4 DEF InnerFind, GoTo
    <3>2. at'[u] = "reset" => \E r \in Range(rows[PathOf[u]]) : TRUE
      BY <2>4 DEF InnerFind, Finds, GoTo, StoreStep, Requests, RequestTypes,
                  Starts
    <3>3. at'[u] = "reset" => rows'[PathOf[u]] # <<>>
      BY <3>1, <3>2 DEF Range
    <3> QED
      BY <1>6, <3>1, <3>3
  <2>5. CASE BeginStore(u)
    <3>1. Store(u) /\ Active(u) /\ UNCHANGED fate /\ at'[u] # "reset"
      BY <1>1, <2>5 DEF BeginStore, HookEnds, GoTo, Requests, RequestTypes
    <3>2. CASE at[u] = "insert"
      <4>1. /\ Len(rows[PathOf[u]]) + 1 \in DOMAIN rows'[PathOf[u]]
            /\ rows'[PathOf[u]][Len(rows[PathOf[u]]) + 1].event \in Starts
        <5>1. /\ DOMAIN rows'[PathOf[u]] = 1..(Len(rows[PathOf[u]]) + 1)
              /\ rows'[PathOf[u]][Len(rows[PathOf[u]]) + 1]
                 = [event |-> StartEvent(u), age |-> 0]
              /\ StartEvent(u) \in Starts
          BY <3>1, <3>2, StoreRows
        <5>2. Len(rows[PathOf[u]]) \in Nat
          BY <1>3, RowFacts
        <5> QED
          BY <5>1, <5>2
      <4>2. Started(PathOf[u])'
        BY <4>1 DEF Started
      <4> QED
        BY <3>1, <4>2
    <3>3. CASE at[u] = "reset"
      <4>1. /\ DOMAIN rows'[PathOf[u]] = DOMAIN rows[PathOf[u]]
            /\ \A i \in DOMAIN rows'[PathOf[u]] :
                 rows'[PathOf[u]][i] = [event |-> StartEvent(u), age |-> 0]
            /\ StartEvent(u) \in Starts
        BY <3>1, <3>3, StoreRows
      <4>2. 1 \in DOMAIN rows[PathOf[u]]
        <5>1. rows[PathOf[u]] # <<>>
          BY <1>2, <3>3
        <5> QED
          BY <1>3, <5>1, RowFacts
      <4>3. Started(PathOf[u])'
        BY <4>1, <4>2 DEF Started
      <4> QED
        BY <3>1, <4>3
    <3> QED
      BY <2>5, <3>2, <3>3 DEF BeginStore
  <2>6. CASE Transfer(u)
    <3>1. todo'[u] \in After /\ at'[u] = "hook" /\ fate'[u] = "written"
      BY <2>6, NextHook DEF Transfer, InHook, Requests, RequestTypes
    <3> QED
      BY <3>1, HookSets
  <2>7. CASE Abort(u)
    <3>1. Active(u) /\ Hook(u) = "transfer" /\ at'[u] = "hook"
      BY <2>7 DEF Abort, InHook
    <3>2. todo'[u] = <<>>
      BY <2>7 DEF Abort, Requests, RequestTypes
    <3>3. fate'[u] = "aborted" => todo[u] # Chunked
      BY <2>7, HookSets DEF Abort, Requests, RequestTypes
    <3>4. todo[u] \in Begun \union {Chunked}
      BY <3>1, HookShape, BeforeHooks, HookSets DEF Hook
    <3> QED
      BY <1>6, <3>1, <3>2, <3>3, <3>4, HookSets
  <2>8. CASE CompleteFind(u) \/ Stamp(u) \/ Notify(u)
    <3>1. UNCHANGED fate /\ at'[u] # "reset"
      BY <2>8 DEF CompleteFind, Suppress, Decide, Stamp, Notify, HookEnds, GoTo,
                  Requests, RequestTypes
    <3>2. todo[u] \in After
      BY <2>8, HookShape
      DEF CompleteFind, Stamp, Notify, InHook, Requests, RequestInv
    <3>3. todo'[u] = todo[u] \/ todo'[u] = Tail(todo[u])
      BY <2>8 DEF CompleteFind, Suppress, Decide, Stamp, Notify, HookEnds, GoTo,
                  Requests, RequestTypes
    <3>4. todo'[u] \notin Begun
      BY <3>2, <3>3, AfterHooks, HookSets
    <3> QED
      BY <1>6, <3>1, <3>4
  <2> QED
    BY <2>1, <2>2, <2>3, <2>4, <2>5, <2>6, <2>7, <2>8 DEF Step
<1> QED
  BY <1>8, <1>9, <1>10

-----------------------------------------------------------------------------
(* Theorems *)

LEMMA InitInv == Init => IInv
<1> SUFFICES ASSUME Init
             PROVE  IInv
  OBVIOUS
<1>1. ShapeInv
  BY ShapeInit
<1>2. \A p \in Paths : rows[p] = <<>> /\ DOMAIN rows[p] = {} /\ Len(rows[p]) = 0
  BY DEF Init
<1>3. MarkerInv
  BY <1>2 DEF Init, MarkerInv, Deciding
<1>4. TwinInv
  BY <1>2 DEF TwinInv
<1>5. SponsorInv
  BY <1>2 DEF SponsorInv
<1>6. TrackInv
  BY HookSets DEF Init, TrackInv
<1> QED
  BY <1>1, <1>3, <1>4, <1>5, <1>6 DEF IInv

LEMMA StepInv == IInv /\ [Next]_vars => IInv'
BY ShapeStep, MarkerStep, TwinStep, SponsorStep, TrackStep DEF IInv

LEMMA Invariance == Spec => []IInv
BY InitInv, StepInv, PTL DEF Spec

\* Whatever requests, job and faults do to one another, every variable keeps its
\* type, and a statement is under way only inside a hook.
THEOREM TypesHold == Spec => []TypeOK
<1>1. IInv => TypeOK
  BY DEF IInv, ShapeInv
<1> QED
  BY <1>1, Invariance, PTL

\* However many requests share a path, an upload that was aborted and that no
\* report has accounted for is in the table for the job to find.
THEOREM AbortedAreTracked == Spec => []AbortedIsTracked
<1>1. IInv => AbortedIsTracked
  BY DEF IInv, TrackInv, AbortedIsTracked, Unaccounted, Started, Range
<1> QED
  BY <1>1, Invariance, PTL

\* However many requests and hooks complete one path, a completion is kept back
\* only within the window of one that was to be reported.
THEOREM SuppressionEnds == Spec => SuppressedInWindow
<1>1. ASSUME IInv, [Next]_vars, NEW u \in Uploads, Kept(u)
      PROVE  decided[PathOf[u]] < Window
  <2>a. ShapeInv /\ Requests /\ HistoryTypes /\ RowTypes /\ MarkerInv
    BY <1>1, ShapeFacts DEF IInv
  <2>1. /\ InHook(u, Ends) /\ Active(u) /\ Hook(u) \in Ends
        /\ todo'[u] = Tail(todo[u]) /\ UNCHANGED faults
    BY <1>1 DEF Kept, InHook
  <2>2. todo'[u] # todo[u]
    BY <2>a, <2>1, HookShape
  <2>3. Request(u) \/ Step(u) \/ Kill(u)
    <3>1. PICK v \in Uploads : Request(v) \/ Step(v) \/ Kill(v)
      BY <1>1, <2>2
      DEF Next, Run, JobSelect, JobReport, JobClear, JobSweep, JobMisses, JobDies, Tick,
          requests, history, vars
    <3> QED
      BY <2>a, <2>2, <3>1, OthersStay
  <2>4. CompleteFind(u) /\ Suppress(u)
    <3>1. ~ Kill(u)
      BY <2>a, <2>1, Numbers DEF Kill, Fault, HistoryTypes
    <3>2. ~ Request(u)
      BY <2>a, <2>1 DEF Request, Active, Requests, RequestInv
    <3>3. ~ (BeginFind(u) \/ Transfer(u) \/ Abort(u))
      BY <2>1, HookSets DEF BeginFind, Transfer, Abort, InHook
    <3>4. ~ (InnerFind(u) \/ BeginStore(u) \/ Stamp(u) \/ Notify(u))
      BY <2>1 DEF InnerFind, BeginStore, Stamp, Notify, InHook
    <3>5. CompleteFind(u)
      BY <2>3, <3>1, <3>2, <3>3, <3>4 DEF Step
    <3> QED
      BY <2>2, <3>5 DEF CompleteFind, Decide, GoTo
  <2>5. PICK r \in Row : r \in Range(rows[PathOf[u]]) /\ Suppressed(r)
    BY <2>2, <2>4 DEF CompleteFind, Decide, GoTo, Finds
  <2>6. PICK i \in DOMAIN rows[PathOf[u]] : r = rows[PathOf[u]][i]
    BY <2>5 DEF Range
  <2>7. decided[PathOf[u]] =< r.age /\ r.age < Window
    BY <2>a, <2>5, <2>6, PathTypes DEF MarkerInv, Suppressed
  <2>8. decided[PathOf[u]] \in Nat /\ r.age \in Nat
    BY <2>a, <2>5, PathTypes, Numbers DEF HistoryTypes, Row
  <2> QED
    BY <2>7, <2>8, Numbers
<1>2. IInv /\ [Next]_vars
        => [\A u \in Uploads : Kept(u) => decided[PathOf[u]] < Window]_vars
  BY <1>1
<1> QED
  BY <1>2, Invariance, PTL DEF Spec, SuppressedInWindow

\* However many requests there are, a path the job takes for failed has one that
\* began more than the TTL ago and has not completed, but for two requests that
\* each inserted a row, and for faults.
THEOREM FailuresAreOld == Spec => NoHastyFailure
<1>1. ASSUME IInv, [Next]_vars, NEW p \in Paths,
             job.step = "due", job'.left[p] > 0, p \notin twins, ~ (faults > 0)
      PROVE  \E u \in Uploads : /\ PathOf[u] = p
                                /\ since[u] > Ttl
                                /\ Unfinished(u)
  <2>a. /\ ShapeInv /\ Requests /\ HistoryTypes /\ RowTypes /\ JobTypes /\ JobInv
        /\ SponsorInv
    BY <1>1, ShapeFacts DEF IInv
  <2>1. JobSelect
    <3>1. job.left[p] = 0
      BY <1>1, <2>a DEF JobInv
    <3>2. job' # job /\ job' # Resting
      BY <1>1, <3>1 DEF Resting
    <3>3. ~ Tick
      BY <1>1, <3>2 DEF Tick
    <3>4. ~ \E u \in Uploads : Request(u) \/ Step(u) \/ Kill(u)
      BY <3>2 DEF Request, Step, Kill, BeginFind, InnerFind, BeginStore,
         Transfer, Abort, CompleteFind, Stamp, Notify
    <3>5. ~ (JobDies \/ JobSweep \/ UNCHANGED vars)
      BY <3>2 DEF JobDies, JobSweep, vars
    <3>7. ~ JobMisses
      BY <1>1 DEF JobMisses, Resting
    <3>6. ~ (JobClear \/ \E q \in Paths : JobReport(q))
      BY <1>1 DEF JobClear, JobReport
    <3> QED
      BY <1>1, <3>3, <3>4, <3>5, <3>6, <3>7 DEF Next, Run
  <2>2. PICK i \in DOMAIN rows[p] : Stale(rows[p][i])
    <3>1. job'.left[p] = Cardinality({i \in DOMAIN rows[p] : Stale(rows[p][i])})
      BY <2>1 DEF JobSelect, Resting
    <3>2. {i \in DOMAIN rows[p] : Stale(rows[p][i])} # {}
      BY <1>1, <3>1, FS_EmptySet
    <3> QED
      BY <3>2
  <2>3. faults = 0
    BY <1>1, <2>a, Numbers DEF HistoryTypes
  <2>4. PICK u \in Uploads :
          PathOf[u] = p /\ Sponsor(u) /\ since[u] >= rows[p][i].age
    BY <1>1, <2>a, <2>2, <2>3 DEF SponsorInv, Sponsored, Stale
  <2>5. since[u] > Ttl
    <3>1. rows[p][i].age > Ttl /\ rows[p][i].age \in Nat
      BY <2>a, <2>2, RowFacts, Numbers DEF Stale
    <3>2. since[u] \in Nat
      BY <2>a, Numbers DEF HistoryTypes
    <3> QED
      BY <2>4, <3>1, <3>2, Numbers
  <2> QED
    BY <2>a, <2>4, <2>5, SponsorFacts
<1>2. IInv /\ [Next]_vars
        => [\A p \in Paths :
              job.step = "due" /\ job'.left[p] > 0 =>
                \/ \E u \in Uploads : /\ PathOf[u] = p
                                      /\ since[u] > Ttl
                                      /\ Unfinished(u)
                \/ p \in twins
                \/ faults > 0]_vars
  BY <1>1
<1> QED
  BY <1>2, Invariance, PTL DEF Spec, NoHastyFailure
=============================================================================
