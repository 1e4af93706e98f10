--------------------------- MODULE KubecostMetrics ---------------------------
(***************************************************************************)
(* The Kubecost emitter beside the snapshot provider: the exporter's loop  *)
(* (src/pkg/emitter/exporter.go), KubecostEmitter.Init and Emit            *)
(* (src/kubecost/emitter.go), and the adapters that the OpenCost pipelines *)
(* query at any time (src/kubecost/adapters).                              *)
(*                                                                         *)
(* A snapshot the provider hands over reaches four adapters one after the  *)
(* other, each under its own lock. The metrics adapter keeps the two       *)
(* newest windows of every resolution and answers a query from the window  *)
(* that starts at the queried time; Init builds all four at once, and when *)
(* it fails every later Emit panics, which the exporter recovers from.     *)
(***************************************************************************)
EXTENDS SnapshotWindows, MetricTables, Sequences, FiniteSets

VARIABLES
  phase,     \* of the exporter's goroutine
  adapters,  \* KubecostEmitter.dataSource: none, ready, or broken after a failed Init
  turn,      \* position in Order of the adapter the running Emit updates next, or 0
  emitted,   \* the snapshot being emitted: when it was taken, and its metrics
  version,   \* when the snapshot was taken that an adapter serves
  held       \* MetricsResolution.snapshots: for each window start, the time up to
             \* which its data was seen

kvars == <<vars, phase, adapters, turn, emitted, version, held>>

Adapter == {"info", "map", "cluster", "metrics"}
MaxBackfillSnapshots == 2

KTypeOK ==
  /\ TypeOK
  /\ phase \in {"init", "running", "ended"}
  /\ adapters \in {"none", "ready", "broken"}
  /\ turn \in 0..4
  /\ emitted \in [at : 0..Horizon, metrics : SUBSET MetricsSnapshot]
  /\ version \in [Adapter -> 0..Horizon]
  /\ DOMAIN held = Resolution
  /\ \A r \in Resolution : \A s \in DOMAIN held[r] : s \in Nat /\ held[r][s] \in Nat

KInit ==
  /\ Init
  /\ phase = "init" /\ adapters = "none"
  /\ turn = 0 /\ emitted = [at |-> 0, metrics |-> {}]
  /\ version = [a \in Adapter |-> 0]
  /\ held = [r \in Resolution |-> <<>>]

-----------------------------------------------------------------------------
\* The windows of some metrics snapshots, and the time up to which one was seen.
Starts(S) == {d.start : d \in S}
SeenUpTo(S, s) == (CHOOSE d \in S : d.start = s).asOf

\* Mutant of Recorded: a window that is held already is not replaced.
RecordedOnce(h, S) ==
  [s \in DOMAIN h \cup Starts(S) |-> IF s \in DOMAIN h THEN h[s] ELSE SeenUpTo(S, s)]

\* MetricsResolution.updateSnapshot for each snapshot of one resolution.
Recorded(h, S) ==
  [s \in DOMAIN h \cup Starts(S) |-> IF s \in Starts(S) THEN SeenUpTo(S, s) ELSE h[s]]

\* Mutant of Newest: the oldest windows are the ones that stay.
Oldest(W) == {s \in W : Cardinality({u \in W : u < s}) < MaxBackfillSnapshots}

\* What is left when the oldest is dropped until MaxBackfillSnapshots remain.
Newest(W) == {s \in W : Cardinality({u \in W : u > s}) < MaxBackfillSnapshots}

Retained(h) == [s \in Newest(DOMAIN h) |-> h[s]]

\* MetricsQuerierAdapter.Update, and its constructor when h is empty.
WithMetrics(h, metrics) ==
  [r \in Resolution |->
     LET S == {d \in metrics : d.res = r} IN
     IF S = {} THEN h[r] ELSE Retained(Recorded(h[r], S))]

\* Mutant of Order: the cluster map is forgotten.
OrderWithoutMap == <<"info", "cluster", "metrics">>

\* OpenCostDataSourceAdapter.Update, in its order.
Order == <<"info", "map", "cluster", "metrics">>

-----------------------------------------------------------------------------
\* The initial snapshot: KubecostEmitter.Init builds the adapters, or fails
\* before it stores them. Either way the exporter goes on.
Initialize ==
  /\ phase = "init" /\ SnapshotOK
  /\ phase' = "running"
  /\ \/ /\ adapters' = "ready"
        /\ version' = [a \in Adapter |-> now]
        /\ held' = WithMetrics(held, Summary)
     \/ /\ adapters' = "broken"
        /\ UNCHANGED <<version, held>>
  /\ UNCHANGED <<turn, emitted>>

\* The initial snapshot fails: the exporter's goroutine returns.
InitialFails ==
  /\ phase = "init" /\ (MetricsFail \/ OtherFail)
  /\ phase' = "ended"
  /\ UNCHANGED <<adapters, turn, emitted, version, held>>

\* A later snapshot is handed to Emit, which starts to update the adapters; with
\* no adapters it panics on the nil data source and the panic is recovered.
Collect ==
  /\ phase = "running" /\ turn = 0 /\ SnapshotOK
  /\ emitted' = [at |-> now, metrics |-> Summary]
  /\ turn' = IF adapters = "ready" THEN 1 ELSE 0
  /\ UNCHANGED <<phase, adapters, version, held>>

\* A later snapshot fails: the loop goes on without an emission.
CollectFails ==
  /\ phase = "running" /\ turn = 0 /\ (MetricsFail \/ OtherFail)
  /\ UNCHANGED <<phase, adapters, turn, emitted, version, held>>

\* The next adapter is updated.
Update ==
  /\ turn # 0
  /\ turn' = IF turn = Len(Order) THEN 0 ELSE turn + 1
  /\ version' = [version EXCEPT ![Order[turn]] = emitted.at]
  /\ held' = IF Order[turn] = "metrics" THEN WithMetrics(held, emitted.metrics) ELSE held
  /\ UNCHANGED <<vars, phase, adapters, emitted>>

KTick ==
  /\ Tick
  /\ UNCHANGED <<phase, adapters, turn, emitted, version, held>>

KNext == Initialize \/ InitialFails \/ Collect \/ CollectFails \/ Update \/ KTick

KSpec == KInit /\ [][KNext]_kvars

-----------------------------------------------------------------------------
\* The queries whose results the adapter hands out for query q.
ResultsOf == [q \in AdapterQueries |-> Source[FieldRead(q)]]

\* metricsSnapshotFor and the query method: whose results the answer holds, and
\* up to when their data was seen; an error, with neither, when the window that
\* starts at Truncate(t, r) is not held.
Answer(q, r, t) ==
  LET s == Truncate(t, r) IN
  IF s \in DOMAIN held[r] THEN [of |-> ResultsOf[q], asOf |-> held[r][s]]
                          ELSE [of |-> {}, asOf |-> 0]

\* The adapter's promise: a query that starts at time t and is answered gets what the
\* source returned for that very query and the window around t, in a snapshot that
\* was handed over.
AnswersSound ==
  \A r \in Resolution : \A t \in 0..Horizon : \A q \in SnapshotQueries :
    LET a == Answer(q, r, t) IN
    a.of # {} => /\ a.of = {q}
                 /\ [res |-> r, start |-> Truncate(t, r), asOf |-> a.asOf] \in delivered

\* "It allows the OpenCost emitter to work with the snapshotted metrics data
\* provided by the exporter" (metricsquerier.go:99-100): every query and every list
\* that an adapter answers from a snapshot is one that a snapshot fills.
EveryQueryServed ==
  /\ \A r \in Resolution : \A t \in DOMAIN held[r] : \A q \in AdapterQueries :
       Answer(q, r, t).of # {}
  /\ adapters = "ready" => AdapterLists \subseteq ListsFilled(FlaggedLists)

\* Between two emissions the adapter holds exactly the two newest windows of every
\* resolution that were handed over to it, each in its newest version: no window
\* is dropped early, none stays, none is overwritten by an older summary.
HoldsNewest ==
  (adapters = "ready" /\ turn = 0) =>
    \A r \in Resolution :
      LET given == {d \in delivered : d.res = r}
          starts == {d.start : d \in given} IN
      /\ DOMAIN held[r] =
           {s \in starts : \A u, v \in starts : (u > s /\ v > s) => u = v}
      /\ \A d \in given : d.start \in DOMAIN held[r] => held[r][d.start] >= d.asOf

\* End to end: the last window of a resolution that closed before the latest
\* emission is answered with all its data, if a snapshot fell into it and the
\* first one after its end came from the source.
LastClosedServed ==
  (adapters = "ready" /\ turn = 0 /\ version["metrics"] = lastSnapshot) =>
    \A r \in Resolution :
      LET s == Truncate(lastSnapshot, r) - r IN
      (/\ \E a \in attempts : s <= a.at /\ a.at < s + r
       /\ \E b \in attempts : FirstFrom(b, s + r) /\ b.kind = "fresh")
        => \A q \in SnapshotQueries : Answer(q, r, s).asOf >= s + r

\* A pipeline that reads while an Emit updates the adapters sees at most two
\* snapshots, the one being emitted and the one handed over before it.
AdaptersInStep ==
  adapters = "ready" =>
    \A a, b \in Adapter : ~\E x \in attempts :
      x.kind # "failed" /\ version[a] < x.at /\ x.at < version[b]
=============================================================================
