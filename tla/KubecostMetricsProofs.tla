------------------------ MODULE KubecostMetricsProofs ------------------------
(***************************************************************************)
(* Theorems about the Kubecost emitter beside the snapshot provider. Every *)
(* step of it is a step of the provider or none, so the provider's         *)
(* theorems carry over; on top of them, for any resolutions, cache, gaps   *)
(* and failures: types, what the adapters answer, how far apart they are,  *)
(* which windows they hold, and that a closed window is answered whole.    *)
(***************************************************************************)
EXTENDS KubecostMetrics, SnapshotWindowsProofs, FiniteSetTheorems, WellFoundedInduction

\* The emitter's steps are steps of the provider.
LEMMA StepIsSnapshotStep == KNext => [Next]_vars
<1>1. Initialize => Next
  BY DEF Initialize, Next
<1>2. InitialFails => Next
  BY DEF InitialFails, Next
<1>3. Collect => Next
  BY DEF Collect, Next
<1>4. CollectFails => Next
  BY DEF CollectFails, Next
<1>5. Update => UNCHANGED vars
  BY DEF Update
<1>6. KTick => Next
  BY DEF KTick, Next
<1> QED
  BY <1>1, <1>2, <1>3, <1>4, <1>5, <1>6 DEF KNext

\* KubecostEmitter and its adapters leave the snapshot provider's behaviour alone.
THEOREM KubecostRefinesProvider == KSpec => Spec
<1>1. KInit => Init
  BY DEF KInit
<1>2. [KNext]_kvars => [Next]_vars
  BY StepIsSnapshotStep DEF kvars
<1> QED
  BY <1>1, <1>2, PTL DEF KSpec, Spec

\* So a window that was called into, and after whose end the first call came from
\* the source, is handed to the emitters whole.
THEOREM KubecostTwoWindowRule == KSpec => []ClosedWindowsComplete
  BY KubecostRefinesProvider, TwoWindowRule, PTL

\* Until a call fails or the cache answers, no data of any window is omitted that is
\* at least as long as two snapshots may be apart.
THEOREM KubecostOmitsNothing == KSpec => []UndisturbedComplete
  BY KubecostRefinesProvider, UndisturbedOmitsNothing, PTL

\* Emitters never get metrics older than the cache allows.
THEOREM KubecostNeverStale == KSpec => BoundedStaleness
  BY KubecostRefinesProvider, SummaryNeverStale

-----------------------------------------------------------------------------
\* What an adapter holds, and what is on its way to it, was handed over.
HeldInv ==
  /\ emitted.metrics \subseteq delivered
  /\ \A r \in Resolution : \A s \in DOMAIN held[r] :
       [res |-> r, start |-> s, asOf |-> held[r][s]] \in delivered

\* An adapter that the running Emit has not reached.
Waiting(a) == turn # 0 /\ \E i \in turn..4 : Order[i] = a

\* The adapters that wait serve the snapshot that the metrics adapter, the last of
\* them, serves; the others the one being emitted. No snapshot lies in between.
TurnInv ==
  /\ phase = "init" => turn = 0
  /\ adapters = "ready" =>
       /\ version["metrics"] <= lastSnapshot
       /\ turn # 0 => version["metrics"] <= emitted.at /\ emitted.at <= lastSnapshot
       /\ \A a \in Adapter :
            version[a] = IF turn = 0 \/ Waiting(a) THEN version["metrics"] ELSE emitted.at
       /\ \A x \in attempts :
            x.kind # "failed" =>
              x.at <= version["metrics"] \/ (turn # 0 /\ x.at = emitted.at)

KInv == IInv /\ KTypeOK /\ HeldInv /\ TurnInv

\* What the provider hands over is well typed and remembered as handed over.
LEMMA SummaryHandedOver ==
  ASSUME TypeOK, SnapshotOK
  PROVE  /\ Summary \subseteq MetricsSnapshot
         /\ Summary \subseteq delivered'
         /\ delivered \subseteq delivered'
         /\ now \in 0..Horizon /\ now > lastSnapshot /\ lastSnapshot' = now /\ now' = now
<1>1. now \in Nat /\ lastSnapshot \in Nat /\ now \in 0..Horizon
  BY WindowsAssumption DEF TypeOK
<1>2. MetricsSummary(now, lastSnapshot) \subseteq MetricsSnapshot
  BY <1>1, MetricsSummaryType
<1>3. Summary \subseteq MetricsSnapshot
  BY <1>2 DEF Summary, TypeOK
<1> QED
  BY <1>1, <1>3 DEF SnapshotOK, Snapshot

\* Metrics that reach the adapter replace what it holds by windows handed over.
LEMMA MetricsHandedOver ==
  ASSUME NEW D \in SUBSET MetricsSnapshot, NEW S \in SUBSET D, NEW h,
         DOMAIN h = Resolution,
         \A r \in Resolution : \A s \in DOMAIN h[r] :
            [res |-> r, start |-> s, asOf |-> h[r][s]] \in D
  PROVE  /\ DOMAIN WithMetrics(h, S) = Resolution
         /\ \A r \in Resolution : \A s \in DOMAIN WithMetrics(h, S)[r] :
              [res |-> r, start |-> s, asOf |-> WithMetrics(h, S)[r][s]] \in D
<1>1. DOMAIN WithMetrics(h, S) = Resolution
  BY DEF WithMetrics
<1>2. SUFFICES ASSUME NEW r \in Resolution, NEW s \in DOMAIN WithMetrics(h, S)[r]
               PROVE  [res |-> r, start |-> s, asOf |-> WithMetrics(h, S)[r][s]] \in D
  BY <1>1
<1> DEFINE T == {d \in S : d.res = r}
<1>3. CASE T = {}
  <2>1. WithMetrics(h, S)[r] = h[r]
    BY <1>3 DEF WithMetrics
  <2> QED
    BY <2>1
<1>4. CASE T # {}
  <2>1. WithMetrics(h, S)[r] = Retained(Recorded(h[r], T))
    BY <1>4 DEF WithMetrics
  <2>2. /\ s \in DOMAIN h[r] \cup Starts(T)
        /\ WithMetrics(h, S)[r][s] = Recorded(h[r], T)[s]
    BY <2>1 DEF Retained, Newest, Recorded
  <2>3. CASE s \in Starts(T)
    <3>1. PICK d \in T : d.start = s
      BY <2>3 DEF Starts
    <3>2. PICK e \in T : e.start = s /\ SeenUpTo(T, s) = e.asOf
      BY <3>1 DEF SeenUpTo
    <3>3. e = [res |-> r, start |-> s, asOf |-> e.asOf] /\ e \in D
      BY <3>2 DEF MetricsSnapshot
    <3> QED
      BY <2>2, <2>3, <3>2, <3>3 DEF Recorded
  <2>4. CASE s \notin Starts(T)
    BY <2>2, <2>4 DEF Recorded
  <2> QED
    BY <2>3, <2>4
<1> QED
  BY <1>3, <1>4

\* The handed-over records give the types of what is held.
LEMMA HeldType ==
  ASSUME NEW D \in SUBSET MetricsSnapshot, NEW h,
         \A r \in Resolution : \A s \in DOMAIN h[r] :
            [res |-> r, start |-> s, asOf |-> h[r][s]] \in D
  PROVE  \A r \in Resolution : \A s \in DOMAIN h[r] : s \in Nat /\ h[r][s] \in Nat
<1> SUFFICES ASSUME NEW r \in Resolution, NEW s \in DOMAIN h[r]
             PROVE  s \in Nat /\ h[r][s] \in Nat
  OBVIOUS
<1>1. [res |-> r, start |-> s, asOf |-> h[r][s]] \in MetricsSnapshot
  OBVIOUS
<1> QED
  BY <1>1 DEF MetricsSnapshot

LEMMA KInitInv == KInit => KInv
<1> SUFFICES ASSUME KInit PROVE KInv
  OBVIOUS
<1>1. IInv
  BY InitIInv DEF KInit
<1>2. KTypeOK
  BY <1>1, WindowsAssumption DEF KInit, KTypeOK, IInv, Adapter
<1>3. HeldInv /\ TurnInv
  BY DEF KInit, HeldInv, TurnInv
<1> QED
  BY <1>1, <1>2, <1>3 DEF KInv

\* The provider's own invariant.
LEMMA ProviderInv == IInv /\ [Next]_vars => IInv'
<1>1. IInv /\ Calls => IInv'
  BY CallTypeOK, CallLastInv, CallFirstInv, CallComplete DEF IInv
<1> QED
  BY <1>1, TickIInv, StutterIInv DEF Next, Calls

LEMMA InitializeInv == KInv /\ Initialize => KInv'
<1> SUFFICES ASSUME KInv, Initialize PROVE KInv'
  OBVIOUS
<1>1. IInv'
  BY ProviderInv DEF KInv, Initialize, Next
<1>2. TypeOK /\ TypeOK' /\ SnapshotOK /\ KTypeOK /\ HeldInv /\ delivered' \in SUBSET MetricsSnapshot
  BY <1>1 DEF KInv, IInv, Initialize, TypeOK
<1>3. /\ Summary \subseteq delivered' /\ delivered \subseteq delivered'
      /\ now \in 0..Horizon /\ lastSnapshot' = now
  BY <1>2, SummaryHandedOver
<1>4. CASE adapters' = "ready" /\ version' = [a \in Adapter |-> now]
           /\ held' = WithMetrics(held, Summary)
  <2>1. /\ DOMAIN held' = Resolution
        /\ \A r \in Resolution : \A s \in DOMAIN held'[r] :
             [res |-> r, start |-> s, asOf |-> held'[r][s]] \in delivered'
    BY <1>2, <1>3, <1>4, MetricsHandedOver DEF HeldInv, KTypeOK
  <2>2. \A r \in Resolution : \A s \in DOMAIN held'[r] : s \in Nat /\ held'[r][s] \in Nat
    BY <1>2, <2>1, HeldType
  <2>3. KTypeOK'
    BY <1>2, <1>3, <1>4, <2>1, <2>2 DEF KTypeOK, Initialize
  <2>4. HeldInv'
    BY <1>2, <1>3, <2>1 DEF HeldInv, Initialize
  <2>5. turn' = turn /\ \A x \in attempts' : x.at <= now /\ x.at \in Nat
    BY <1>1, <1>3 DEF IInv, LastInv, Initialize, TypeOK, Attempt
  <2>6. now <= lastSnapshot' /\ now \in Nat
    BY <1>3
  <2>7. turn' = 0
    BY <2>5 DEF KInv, TurnInv, Initialize
  <2>8. TurnInv'
    BY <2>5, <2>6, <2>7, <1>4 DEF TurnInv, Adapter
  <2> QED
    BY <1>1, <2>3, <2>4, <2>8 DEF KInv
<1>5. CASE adapters' = "broken" /\ UNCHANGED <<version, held>>
  <2>1. KTypeOK'
    BY <1>2, <1>5 DEF KTypeOK, Initialize
  <2>2. HeldInv'
    BY <1>2, <1>3, <1>5 DEF HeldInv, KTypeOK, Initialize
  <2> QED
    BY <1>1, <1>5, <2>1, <2>2 DEF KInv, TurnInv, Initialize
<1> QED
  BY <1>4, <1>5 DEF Initialize

\* A snapshot that fails changes nothing but the provider's state.
LEMMA FailureInv == KInv /\ (InitialFails \/ CollectFails) => KInv'
<1> SUFFICES ASSUME KInv, InitialFails \/ CollectFails PROVE KInv'
  OBVIOUS
<1>1. IInv'
  BY ProviderInv DEF KInv, InitialFails, CollectFails, Next
<1>2. /\ UNCHANGED <<adapters, turn, emitted, version, held, delivered>>
      /\ phase' \in {phase, "ended"}
      /\ lastSnapshot' = now /\ now > lastSnapshot /\ turn = 0
      /\ attempts' = attempts \cup {[at |-> now, kind |-> "failed"]}
  BY DEF InitialFails, CollectFails, MetricsFail, OtherFail, Snapshot, KInv, TurnInv
<1>3. KTypeOK' /\ HeldInv'
  BY <1>1, <1>2 DEF KInv, KTypeOK, HeldInv, IInv
<1>4. TurnInv'
  <2>1. now \in Nat /\ lastSnapshot \in Nat /\ version \in [Adapter -> 0..Horizon]
    BY DEF KInv, IInv, TypeOK, KTypeOK
  <2>2. version["metrics"] \in Nat
    BY <2>1 DEF Adapter
  <2> QED
    BY <1>2, <2>1, <2>2 DEF KInv, TurnInv
<1> QED
  BY <1>1, <1>3, <1>4 DEF KInv

LEMMA CollectInv == KInv /\ Collect => KInv'
<1> SUFFICES ASSUME KInv, Collect PROVE KInv'
  OBVIOUS
<1>1. IInv'
  BY ProviderInv DEF KInv, Collect, Next
<1>2. TypeOK /\ TypeOK' /\ SnapshotOK /\ KTypeOK /\ HeldInv /\ TurnInv
  BY <1>1 DEF KInv, IInv, Collect
<1>3. /\ Summary \subseteq MetricsSnapshot
      /\ Summary \subseteq delivered' /\ delivered \subseteq delivered'
      /\ now \in 0..Horizon /\ now > lastSnapshot /\ lastSnapshot' = now
  BY <1>2, SummaryHandedOver
<1>4. KTypeOK'
  BY <1>2, <1>3 DEF Collect, KTypeOK
<1>5. HeldInv'
  BY <1>2, <1>3 DEF Collect, HeldInv
<1>6. TurnInv'
  <2>1. now \in Nat /\ lastSnapshot \in Nat /\ version["metrics"] \in Nat
    BY <1>2 DEF TypeOK, KTypeOK, Adapter
  <2>2. phase' = "running" /\ adapters' = adapters /\ version' = version /\ turn = 0
    BY DEF Collect
  <2>3. CASE adapters = "ready"
    <3>1. turn' = 1 /\ emitted'.at = now
      BY <2>3 DEF Collect
    <3>2. version["metrics"] <= now
      BY <1>2, <1>3, <2>1, <2>3 DEF TurnInv
    <3>3. \A a \in Adapter : Waiting(a)'
      BY <3>1 DEF Waiting, Order, Adapter
    <3>4. \A a \in Adapter : version[a] = version["metrics"]
      BY <1>2, <2>2, <2>3 DEF TurnInv
    <3>5. \E k : attempts' = attempts \cup {[at |-> now, kind |-> k]}
      BY <1>2 DEF SnapshotOK, Snapshot
    <3>6. \A x \in attempts : x.kind # "failed" => x.at <= version["metrics"]
      BY <1>2, <2>2, <2>3 DEF TurnInv
    <3> QED
      BY <1>3, <2>1, <2>2, <2>3, <3>1, <3>2, <3>3, <3>4, <3>5, <3>6 DEF TurnInv
  <2>4. CASE adapters # "ready"
    BY <2>2, <2>4 DEF TurnInv
  <2> QED
    BY <2>3, <2>4
<1> QED
  BY <1>1, <1>4, <1>5, <1>6 DEF KInv

\* Order names every adapter once, the metrics adapter last.
LEMMA OrderOfAdapters ==
  /\ Len(Order) = 4
  /\ Order[1] = "info" /\ Order[2] = "map" /\ Order[3] = "cluster" /\ Order[4] = "metrics"
  BY DEF Order

LEMMA UpdateInv == KInv /\ Update => KInv'
<1> SUFFICES ASSUME KInv, Update PROVE KInv'
  OBVIOUS
<1>1. IInv'
  BY StutterIInv DEF KInv, Update
<1>2. TypeOK /\ KTypeOK /\ HeldInv /\ TurnInv /\ delivered' = delivered
      /\ delivered \in SUBSET MetricsSnapshot
  BY DEF KInv, IInv, TypeOK, Update, vars
<1>3. turn \in 1..4 /\ turn' \in 0..4 /\ emitted' = emitted /\ phase' = phase
      /\ adapters' = adapters /\ (phase = "init" => turn' = 0)
  BY <1>2, OrderOfAdapters DEF KTypeOK, Update, TurnInv
<1>4. /\ DOMAIN held' = Resolution
      /\ \A r \in Resolution : \A s \in DOMAIN held'[r] :
           [res |-> r, start |-> s, asOf |-> held'[r][s]] \in delivered
  <2>1. CASE Order[turn] = "metrics"
    <3>1. held' = WithMetrics(held, emitted.metrics)
      BY <2>1 DEF Update
    <3>2. /\ emitted.metrics \in SUBSET delivered /\ DOMAIN held = Resolution
          /\ \A r \in Resolution : \A s \in DOMAIN held[r] :
               [res |-> r, start |-> s, asOf |-> held[r][s]] \in delivered
      BY <1>2 DEF HeldInv, KTypeOK
    <3> QED
      BY <1>2, <3>1, <3>2, MetricsHandedOver
  <2>2. CASE Order[turn] # "metrics"
    BY <1>2, <2>2 DEF Update, HeldInv, KTypeOK
  <2> QED
    BY <2>1, <2>2
<1>5. \A r \in Resolution : \A s \in DOMAIN held'[r] : s \in Nat /\ held'[r][s] \in Nat
  BY <1>2, <1>4, HeldType
<1>6. version' \in [Adapter -> 0..Horizon]
  BY <1>2 DEF KTypeOK, Update
<1>7. KTypeOK'
  BY <1>1, <1>2, <1>3, <1>4, <1>5, <1>6 DEF KTypeOK, IInv
<1>8. HeldInv'
  BY <1>2, <1>3, <1>4 DEF HeldInv
<1>9. TurnInv'
  <2>1. CASE adapters = "ready"
    <3>1. /\ version["metrics"] <= emitted.at /\ emitted.at <= lastSnapshot
          /\ \A a \in Adapter :
               version[a] = IF Waiting(a) THEN version["metrics"] ELSE emitted.at
          /\ \A x \in attempts :
               x.kind # "failed" => x.at <= version["metrics"] \/ x.at = emitted.at
      BY <1>2, <1>3, <2>1 DEF TurnInv
    <3>2. attempts' = attempts /\ lastSnapshot' = lastSnapshot
          /\ \A x \in attempts : x.at \in Nat /\ x.at <= lastSnapshot
      BY DEF Update, vars, KInv, IInv, TypeOK, LastInv, Attempt
    <3>3. CASE turn = 4
      <4>1. turn' = 0 /\ version' = [version EXCEPT !["metrics"] = emitted.at]
        BY <3>3, OrderOfAdapters DEF Update
      <4>2. \A a \in Adapter : a # "metrics" => ~Waiting(a)
        BY <3>3, OrderOfAdapters DEF Waiting, Adapter
      <4>3. \A a \in Adapter : version'[a] = emitted.at
        BY <1>2, <3>1, <4>1, <4>2 DEF KTypeOK
      <4>4. version'["metrics"] = emitted.at
        BY <4>3 DEF Adapter
      <4>5. \A x \in attempts : x.kind # "failed" => x.at <= emitted.at
        <5>1. emitted.at \in Nat /\ version["metrics"] \in Nat
          BY <1>2 DEF KTypeOK, Adapter
        <5> QED
          BY <3>1, <3>2, <5>1
      <4> QED
        BY <1>3, <2>1, <3>1, <3>2, <4>1, <4>3, <4>4, <4>5 DEF TurnInv
    <3>4. CASE turn \in 1..3
      <4>1. turn' = turn + 1 /\ version' = [version EXCEPT ![Order[turn]] = emitted.at]
            /\ Order[turn] # "metrics" /\ Order[turn] \in Adapter
        BY <3>4, OrderOfAdapters DEF Update, Adapter
      <4>2. \A a \in Adapter : Waiting(a)' <=> Waiting(a) /\ a # Order[turn]
        BY <3>4, <4>1, OrderOfAdapters DEF Waiting, Adapter
      <4>3. version'["metrics"] = version["metrics"]
        BY <1>2, <4>1 DEF KTypeOK, Adapter
      <4>4. \A a \in Adapter :
               version'[a] = IF Waiting(a)' THEN version["metrics"] ELSE emitted.at
        BY <1>2, <3>1, <4>1, <4>2 DEF KTypeOK
      <4>5. turn' # 0 /\ phase' # "init"
        BY <1>2, <1>3, <3>4, <4>1 DEF TurnInv
      <4>6. \A a \in Adapter : version'[a] = IF turn' = 0 \/ Waiting(a)'
                                              THEN version'["metrics"] ELSE emitted'.at
        BY <1>3, <4>3, <4>4, <4>5
      <4>7. /\ version'["metrics"] <= lastSnapshot'
            /\ version'["metrics"] <= emitted'.at /\ emitted'.at <= lastSnapshot'
        BY <1>2, <1>3, <2>1, <3>1, <3>2, <4>3 DEF TurnInv
      <4>8. \A x \in attempts' : x.kind # "failed" =>
               x.at <= version'["metrics"] \/ (turn' # 0 /\ x.at = emitted'.at)
        BY <1>3, <3>1, <3>2, <4>3, <4>5
      <4> QED
        BY <4>5, <4>6, <4>7, <4>8 DEF TurnInv
    <3> QED
      BY <1>3, <3>3, <3>4
  <2>2. CASE adapters # "ready"
    BY <1>3, <2>2 DEF TurnInv
  <2> QED
    BY <2>1, <2>2
<1> QED
  BY <1>1, <1>7, <1>8, <1>9 DEF KInv


LEMMA KStep == KInv /\ [KNext]_kvars => KInv'
<1>1. KInv /\ KTick => KInv'
  <2> SUFFICES ASSUME KInv, KTick PROVE KInv'
    OBVIOUS
  <2>1. IInv'
    BY TickIInv DEF KInv, KTick
  <2>2. KTypeOK' /\ HeldInv' /\ TurnInv'
    BY <2>1 DEF KInv, IInv, KTick, Tick, KTypeOK, HeldInv, TurnInv, Waiting, cacheVars
  <2> QED
    BY <2>1, <2>2 DEF KInv
<1>2. KInv /\ UNCHANGED kvars => KInv'
  <2> SUFFICES ASSUME KInv, UNCHANGED kvars PROVE KInv'
    OBVIOUS
  <2>1. IInv'
    BY StutterIInv DEF KInv, kvars
  <2>2. KTypeOK' /\ HeldInv' /\ TurnInv'
    BY <2>1 DEF KInv, IInv, kvars, vars, KTypeOK, HeldInv, TurnInv, Waiting
  <2> QED
    BY <2>1, <2>2 DEF KInv
<1> QED
  BY <1>1, <1>2, InitializeInv, FailureInv, CollectInv, UpdateInv DEF KNext

LEMMA KInvariance == KSpec => []KInv
  BY KStep, KInitInv, PTL DEF KSpec

-----------------------------------------------------------------------------
\* Type correctness for any resolutions, cache, gaps and number of failures.
THEOREM KubecostTypeCorrect == KSpec => []KTypeOK
<1>1. KInv => KTypeOK
  BY DEF KInv
<1> QED
  BY KInvariance, <1>1, PTL

\* Whenever a pipeline reads, the adapters it reads serve at most two snapshots, the
\* one being emitted and the one handed over just before it.
THEOREM AdaptersAlwaysInStep == KSpec => []AdaptersInStep
<1>1. KInv => AdaptersInStep
  <2> SUFFICES ASSUME KInv, adapters = "ready", NEW a \in Adapter, NEW b \in Adapter,
                      NEW x \in attempts, x.kind # "failed",
                      version[a] < x.at, x.at < version[b]
               PROVE  FALSE
    BY DEF AdaptersInStep
  <2>1. /\ emitted.at \in Nat /\ x.at \in Nat
        /\ \A c \in Adapter : version[c] \in Nat
    BY DEF KInv, IInv, TypeOK, KTypeOK, Attempt
  <2>2. /\ turn # 0 => version["metrics"] <= emitted.at
        /\ version[a] \in {version["metrics"], emitted.at} /\ version[b] \in {version["metrics"], emitted.at}
        /\ turn = 0 => version[a] = version["metrics"] /\ version[b] = version["metrics"]
        /\ x.at <= version["metrics"] \/ (turn # 0 /\ x.at = emitted.at)
    BY DEF KInv, TurnInv
  <2>3. version["metrics"] \in Nat
    BY <2>1 DEF Adapter
  <2> QED
    BY <2>1, <2>2, <2>3
<1> QED
  BY KInvariance, <1>1, PTL

\* The nine renamed fields have names of their own, so every field holds the
\* results of one query.
LEMMA OneQueryPerField ==
  \A q \in SnapshotQueries : ResultsOf[q] = {q}
<1> SUFFICES ASSUME NEW q \in SnapshotQueries PROVE ResultsOf[q] = {q}
  OBVIOUS
<1>1. q \in AdapterQueries
  BY DEF SnapshotQueries
<1>2. \A p \in DOMAIN Shortened : Shortened[p] \notin AdapterQueries
  BY DEF Shortened, AdapterQueries, StorageUseQueries, NodeQueries, ClusterAndPodQueries,
         ContainerQueries, ComputeQueries, VolumeAndEgressQueries, NetworkQueries,
         LabelQueries, QuotaQueries, QuotaUseQueries, WorkloadQueries, OwnerQueries,
         DeviceQueries
<1>3. \A p, o \in DOMAIN Shortened : Shortened[p] = Shortened[o] => p = o
  BY DEF Shortened
<1>4. \A p, o \in AdapterQueries : FieldWritten(p) = FieldRead(o) => p = o
  BY <1>2, <1>3 DEF FieldWritten, FieldRead
<1>5. FieldWritten(q) = FieldRead(q) /\ FieldRead(q) \in MetricsField
  BY <1>1 DEF FieldWritten, FieldRead, MetricsField
<1>6. Source[FieldRead(q)] = {p \in SnapshotQueries : FieldWritten(p) = FieldRead(q)}
  BY <1>5 DEF Source
<1>7. Source[FieldRead(q)] = {q}
  BY <1>1, <1>4, <1>5, <1>6 DEF SnapshotQueries
<1> QED
  BY <1>1, <1>7 DEF ResultsOf

\* An answered query returns what the source returned for that query and window in a
\* snapshot that was handed over.
THEOREM AnswersAlwaysSound == KSpec => []AnswersSound
<1>1. KInv => AnswersSound
  <2> SUFFICES ASSUME KInv, NEW r \in Resolution, NEW t \in 0..Horizon,
                      NEW q \in SnapshotQueries, Answer(q, r, t).of # {}
               PROVE  /\ Answer(q, r, t).of = {q}
                      /\ [res |-> r, start |-> Truncate(t, r), asOf |-> Answer(q, r, t).asOf]
                           \in delivered
    BY DEF AnswersSound
  <2> DEFINE s == Truncate(t, r)
  <2>1. s \in DOMAIN held[r]
    BY DEF Answer
  <2>2. Answer(q, r, t) = [of |-> ResultsOf[q], asOf |-> held[r][s]]
    BY <2>1 DEF Answer
  <2> QED
    BY <2>1, <2>2, OneQueryPerField DEF KInv, HeldInv
<1> QED
  BY KInvariance, <1>1, PTL

-----------------------------------------------------------------------------
\* The two greatest elements of a set of numbers, without counting.
NewestTwo(X) == {s \in X : \A u, v \in X : (u > s /\ v > s) => u = v}

\* A set of fewer than two elements.
LEMMA FewerThanTwo ==
  ASSUME NEW A, IsFiniteSet(A)
  PROVE  Cardinality(A) < 2 <=> \A u, v \in A : u = v
<1>1. Cardinality(A) \in Nat
  BY FS_CardinalityType
<1>2. Cardinality(A) = 0 <=> A = {}
  BY FS_EmptySet
<1>3. Cardinality(A) = 1 <=> \E x : A = {x}
  BY FS_Singleton
<1>4. (\A u, v \in A : u = v) <=> (A = {} \/ \E x : A = {x})
  <2>1. ASSUME \A u, v \in A : u = v, A # {} PROVE \E x : A = {x}
    <3>1. PICK x \in A : TRUE
      BY <2>1
    <3>2. A = {x}
      BY <2>1
    <3> QED
      BY <3>2
  <2> QED
    BY <2>1
<1>5. Cardinality(A) < 2 <=> Cardinality(A) = 0 \/ Cardinality(A) = 1
  BY <1>1
<1> QED
  BY <1>2, <1>3, <1>4, <1>5, Zenon

\* Counting the newer windows gives the same two.
LEMMA NewestIsNewestTwo ==
  ASSUME NEW n \in Nat, NEW W \in SUBSET (0..n)
  PROVE  Newest(W) = NewestTwo(W)
<1>1. ASSUME NEW s \in W
      PROVE  Cardinality({u \in W : u > s}) < 2
               <=> \A u, v \in W : (u > s /\ v > s) => u = v
  <2>1. IsFiniteSet({u \in W : u > s})
    <3>1. IsFiniteSet(0..n)
      BY FS_Interval
    <3>2. {u \in W : u > s} \in SUBSET (0..n)
      OBVIOUS
    <3> QED
      BY <3>1, <3>2, FS_Subset
  <2>2. Cardinality({u \in W : u > s}) < 2
          <=> \A u, v \in {w \in W : w > s} : u = v
    BY <2>1, FewerThanTwo
  <2> QED
    BY <2>2
<1> QED
  BY <1>1 DEF Newest, NewestTwo, MaxBackfillSnapshots

\* A bounded set of numbers has a greatest one.
LEMMA HasMax ==
  ASSUME NEW n \in Nat, NEW X \in SUBSET (0..n), X # {}
  PROVE  \E m \in X : \A x \in X : x <= m
<1> DEFINE T == {k \in 0..n : n - k \in X}
<1>1. T \subseteq Nat /\ T # {}
  <2>1. PICK x \in X : TRUE
    OBVIOUS
  <2>2. n - x \in T
    BY <2>1
  <2> QED
    BY <2>2
<1>2. PICK k \in T : \A y \in T : ~(<<y, k>> \in OpToRel(<, Nat))
  BY <1>1, NatLessThanWellFounded, WFMin
<1>3. \A y \in T : ~(y < k)
  BY <1>1, <1>2 DEF OpToRel
<1>4. \A x \in X : n - x \in T
  OBVIOUS
<1>5. \A x \in X : x <= n - k
  BY <1>3, <1>4
<1> QED
  BY <1>5

\* An element with two greater ones is below two of the two greatest.
LEMMA TwoAbove ==
  ASSUME NEW n \in Nat, NEW X \in SUBSET (0..n), NEW s \in Nat,
         NEW u \in X, NEW v \in X, u > s, v > s, u # v
  PROVE  \E a, b \in NewestTwo(X) : a > s /\ b > s /\ a # b
<1>1. PICK a \in X : \A x \in X : x <= a
  BY HasMax
<1>2. PICK b \in X \ {a} : \A x \in X \ {a} : x <= b
  <2>1. X \ {a} \in SUBSET (0..n) /\ X \ {a} # {}
    OBVIOUS
  <2> QED
    BY <2>1, HasMax
<1>3. a \in NewestTwo(X)
  BY <1>1 DEF NewestTwo
<1>4. b \in NewestTwo(X)
  BY <1>1, <1>2 DEF NewestTwo
<1>5. a > s /\ b > s
  BY <1>1, <1>2
<1> QED
  BY <1>2, <1>3, <1>4, <1>5

\* A set of numbers up to n.
UpTo(n, X) == X \subseteq 0..n

\* What was dropped before new windows came would have been dropped after.
LEMMA MergedNewest ==
  ASSUME NEW n \in Nat, NEW X, NEW Y, UpTo(n, X), UpTo(n, Y)
  PROVE  NewestTwo(NewestTwo(X) \cup Y) = NewestTwo(X \cup Y)
<1>. X \in SUBSET (0..n) /\ Y \in SUBSET (0..n)
  BY DEF UpTo
<1>1. ASSUME NEW s \in NewestTwo(X \cup Y) PROVE s \in NewestTwo(NewestTwo(X) \cup Y)
  BY DEF NewestTwo
<1>2. ASSUME NEW s \in NewestTwo(NewestTwo(X) \cup Y) PROVE s \in NewestTwo(X \cup Y)
  <2>1. s \in X \cup Y /\ s \in Nat
    BY DEF NewestTwo
  <2>2. SUFFICES ASSUME NEW u \in X \cup Y, NEW v \in X \cup Y, u > s, v > s, u # v
                 PROVE  FALSE
    BY <2>1 DEF NewestTwo
  <2>3. \A a, b \in NewestTwo(X) \cup Y : (a > s /\ b > s) => a = b
    BY DEF NewestTwo
  <2>4. \A w \in X : w > s => w \in NewestTwo(X)
    <3> SUFFICES ASSUME NEW w \in X, w > s, w \notin NewestTwo(X) PROVE FALSE
      OBVIOUS
    <3>1. PICK a, b \in X : a > w /\ b > w /\ a # b
      BY DEF NewestTwo
    <3>2. a > s /\ b > s
      BY <2>1, <3>1
    <3>3. PICK c, d \in NewestTwo(X) : c > s /\ d > s /\ c # d
      BY <2>1, <3>1, <3>2, TwoAbove
    <3> QED
      BY <2>3, <3>3
  <2> QED
    BY <2>2, <2>3, <2>4
<1> QED
  BY <1>1, <1>2

\* What the provider remembers and has handed over: windows that start before the
\* time up to which they were seen, none newer than what a new summary will be.
RecordInv ==
  /\ lastMetricsSummary <= lastSnapshot
  /\ \A d \in metricsSummary : d.asOf = lastMetricsSummary
  /\ \A d \in delivered \cup metricsSummary :
       d.start % d.res = 0 /\ d.start <= d.asOf /\ d.asOf <= lastSnapshot
  /\ UseMetricsCache => \A d \in delivered : d.asOf <= lastMetricsSummary

\* An adapter that was given some windows of a resolution holds the two newest, each
\* in its newest version.
HoldsOf(h, given) ==
  /\ DOMAIN h = NewestTwo(Starts(given))
  /\ \A d \in given : d.start \in DOMAIN h => h[d.start] >= d.asOf

OfRes(S, r) == {d \in S : d.res = r}

\* The metrics adapter was given everything handed over, except for what the
\* running Emit has yet to bring, which is newer.
GivenInv ==
  /\ phase = "init" => delivered = {} /\ \A r \in Resolution : DOMAIN held[r] = {}
  /\ adapters = "ready" =>
       \E G \in SUBSET delivered :
         /\ delivered = IF turn = 0 THEN G ELSE G \cup emitted.metrics
         /\ turn # 0 => \E at \in 0..Horizon :
              /\ \A d \in emitted.metrics : d.asOf = at
              /\ \A d \in G : d.asOf <= at
         /\ \A r \in Resolution : HoldsOf(held[r], OfRes(G, r))
-----------------------------------------------------------------------------
\* Truncate gives the start of a window.
LEMMA TruncateIsStart ==
  ASSUME NEW r \in Nat \ {0}, NEW t \in Nat
  PROVE  /\ Truncate(t, r) \in Nat /\ Truncate(t, r) % r = 0
         /\ Truncate(t, r) <= t /\ t < Truncate(t, r) + r
<1> DEFINE q == t \div r
<1>1. q \in Nat /\ t % r \in 0..(r - 1) /\ t = r * q + (t % r)
  OBVIOUS
<1>2. Truncate(t, r) = r * q
  <2>1. \A k \in Int, m \in Nat : t = k + m => t - m = k
    OBVIOUS
  <2> QED
    BY <1>1, <2>1 DEF Truncate
<1>3. r * q \in Nat /\ (r * q) % r = 0
  BY <1>1
<1> HIDE DEF q
<1> QED
  BY <1>1, <1>2, <1>3

\* The window before a window starts one length earlier.
LEMMA StartBefore ==
  ASSUME NEW r \in Nat \ {0}, NEW p \in Nat, p % r = 0, p >= r
  PROVE  (p - r) % r = 0
<1> DEFINE k == p \div r
<1>1. k \in Nat /\ p = r * k
  OBVIOUS
<1> HIDE DEF k
<1>2. k # 0
  <2>1. k = 0 => r * k = 0
    OBVIOUS
  <2> QED
    BY <1>1, <2>1
<1>3. k - 1 \in Nat
  BY <1>1, <1>2
<1>4. r * (k - 1) = r * k - r
  BY <1>1
<1>5. (r * (k - 1)) % r = 0
  BY <1>3
<1> QED
  BY <1>1, <1>4, <1>5

\* When the data of the summary was seen that a call gets.
SummaryAt == IF CacheHit THEN lastMetricsSummary ELSE now

\* A call gets windows seen up to one time, not before any that was handed over.
LEMMA SummaryRecords ==
  ASSUME TypeOK, RecordInv, now > lastSnapshot
  PROVE  /\ SummaryAt \in 0..Horizon /\ SummaryAt <= now
         /\ \A d \in delivered : d.asOf <= SummaryAt
         /\ Summary \subseteq MetricsSnapshot
         /\ \A d \in Summary :
              d.asOf = SummaryAt /\ d.start % d.res = 0 /\ d.start <= d.asOf
<1>1. /\ now \in 0..Horizon /\ now \in Nat /\ lastSnapshot \in Nat
      /\ lastMetricsSummary \in 0..Horizon /\ lastMetricsSummary <= lastSnapshot
      /\ metricsSummary \subseteq MetricsSnapshot /\ delivered \subseteq MetricsSnapshot
  BY WindowsAssumption DEF TypeOK, RecordInv
<1>2. CASE CacheHit
  <2>1. SummaryAt = lastMetricsSummary /\ Summary = metricsSummary /\ UseMetricsCache
    BY <1>2 DEF SummaryAt, Summary, CacheHit
  <2> QED
    BY <1>1, <2>1 DEF RecordInv
<1>3. CASE ~CacheHit
  <2>1. SummaryAt = now /\ Summary = MetricsSummary(now, lastSnapshot)
    BY <1>3 DEF SummaryAt, Summary
  <2>2. Summary \subseteq MetricsSnapshot
    BY <1>1, <2>1, MetricsSummaryType
  <2>3. ASSUME NEW d \in Summary
        PROVE  d.asOf = now /\ d.start % d.res = 0 /\ d.start <= now
    <3>0. PICK r \in Resolution : \E s \in SnapshotWindowsFor(now, lastSnapshot, r) :
            d = [res |-> r, start |-> s, asOf |-> now]
      BY <2>1 DEF MetricsSummary
    <3>1. PICK s \in SnapshotWindowsFor(now, lastSnapshot, r) :
            d = [res |-> r, start |-> s, asOf |-> now]
      BY <3>0
    <3>2. s = Truncate(now, r) \/ s = Truncate(lastSnapshot, r)
      BY DEF SnapshotWindowsFor
    <3>3. s \in Nat /\ s % r = 0 /\ s <= now
      <4>1. r \in Nat \ {0}
        BY WindowsAssumption
      <4>2. CASE s = Truncate(now, r)
        BY <1>1, <4>1, <4>2, TruncateIsStart
      <4>3. CASE s = Truncate(lastSnapshot, r)
        <5>1. s \in Nat /\ s % r = 0 /\ s <= lastSnapshot
          BY <1>1, <4>1, <4>3, TruncateIsStart
        <5> QED
          BY <1>1, <5>1
      <4> QED
        BY <3>2, <4>2, <4>3
    <3> QED
      BY <3>1, <3>3
  <2>4. \A d \in delivered : d.asOf <= now
    BY <1>1 DEF RecordInv, MetricsSnapshot
  <2> QED
    BY <1>1, <2>1, <2>2, <2>3, <2>4
<1> QED
  BY <1>2, <1>3

\* Calls and the clock keep the order of the records.
LEMMA RecordStep == TypeOK /\ RecordInv /\ [Next]_vars => RecordInv'
<1> SUFFICES ASSUME TypeOK, RecordInv, [Next]_vars PROVE RecordInv'
  OBVIOUS
<1>1. CASE Tick \/ UNCHANGED vars
  BY <1>1 DEF Tick, vars, cacheVars, RecordInv
<1>2. CASE Calls
  <2>1. now > lastSnapshot /\ lastSnapshot' = now
    BY <1>2, CallStep
  <2>2. /\ now \in Nat /\ lastSnapshot \in Nat /\ lastMetricsSummary \in Nat
        /\ delivered \subseteq MetricsSnapshot /\ metricsSummary \subseteq MetricsSnapshot
    BY DEF TypeOK
  <2>3. /\ SummaryAt \in Nat /\ SummaryAt <= now
        /\ \A d \in delivered : d.asOf <= SummaryAt
        /\ \A d \in Summary :
             d.asOf = SummaryAt /\ d.start % d.res = 0 /\ d.start <= d.asOf
    BY <2>1, SummaryRecords
  <2>4. delivered' = delivered \/ (Remember /\ delivered' = delivered \cup Summary)
    BY <1>2 DEF Calls, SnapshotOK, MetricsFail, OtherFail
  <2>5. \/ lastMetricsSummary' = now /\ metricsSummary' = Summary /\ SummaryAt = now
        \/ UNCHANGED cacheVars
    BY <1>2 DEF Calls, SnapshotOK, MetricsFail, OtherFail, Remember, SummaryAt
  <2>6. Remember /\ UseMetricsCache => lastMetricsSummary' = SummaryAt
    BY DEF Remember, SummaryAt, cacheVars
  <2>7. lastMetricsSummary' <= now /\ lastMetricsSummary' >= lastMetricsSummary
    BY <2>1, <2>2, <2>5 DEF cacheVars, RecordInv
  <2>8. \A d \in metricsSummary' : d.asOf = lastMetricsSummary'
    BY <2>3, <2>5 DEF cacheVars, RecordInv
  <2>9. \A d \in delivered \cup metricsSummary \cup Summary :
          d.start % d.res = 0 /\ d.start <= d.asOf /\ d.asOf <= now
    BY <2>1, <2>2, <2>3 DEF RecordInv, MetricsSnapshot
  <2>10. UseMetricsCache => \A d \in delivered' : d.asOf <= lastMetricsSummary'
    <3>1. CASE delivered' = delivered
      <4> SUFFICES ASSUME UseMetricsCache, NEW d \in delivered
                   PROVE  d.asOf <= lastMetricsSummary'
        BY <3>1
      <4>1. d.asOf <= lastMetricsSummary /\ d.asOf \in Nat
        BY <2>2 DEF RecordInv, MetricsSnapshot
      <4>2. lastMetricsSummary' \in Nat
        BY <2>2, <2>5 DEF cacheVars
      <4> QED
        BY <2>2, <2>7, <4>1, <4>2
    <3>2. CASE Remember /\ delivered' = delivered \cup Summary
      BY <2>3, <2>6, <3>2
    <3> QED
      BY <2>4, <3>1, <3>2
  <2>11. delivered' \cup metricsSummary' \subseteq delivered \cup metricsSummary \cup Summary
    BY <2>4, <2>5 DEF cacheVars
  <2> QED
    BY <2>1, <2>7, <2>8, <2>9, <2>10, <2>11 DEF RecordInv
<1> QED
  BY <1>1, <1>2 DEF Next, Calls
-----------------------------------------------------------------------------
\* What an adapter holds once it is brought windows seen up to the same time, none
\* of them older than what it was given before.
LEMMA NewestKept ==
  ASSUME NEW n \in Nat, NEW at, NEW h, NEW G, NEW S, S # {},
         Starts(G) \subseteq 0..n, Starts(S) \subseteq 0..n,
         \A d \in S : d.asOf = at, at \in Nat, \A d \in G : d.asOf <= at,
         HoldsOf(h, G)
  PROVE  HoldsOf(Retained(Recorded(h, S)), G \cup S)
<1> DEFINE W == DOMAIN h \cup Starts(S)
           k == Retained(Recorded(h, S))
<1>1. DOMAIN h = NewestTwo(Starts(G)) /\ DOMAIN h \subseteq Starts(G)
  BY DEF HoldsOf, NewestTwo
<1>2. W \in SUBSET (0..n)
  BY <1>1
<1>3. Newest(W) = NewestTwo(W)
  BY <1>2, NewestIsNewestTwo
<1>4. Starts(G \cup S) = Starts(G) \cup Starts(S)
  BY DEF Starts
<1>5. NewestTwo(W) = NewestTwo(Starts(G \cup S))
  <2>1. NewestTwo(NewestTwo(Starts(G)) \cup Starts(S)) = NewestTwo(Starts(G) \cup Starts(S))
    <3>1. UpTo(n, Starts(G)) /\ UpTo(n, Starts(S))
      BY DEF UpTo
    <3> QED
      BY <3>1, MergedNewest, SMT
  <2>2. W = NewestTwo(Starts(G)) \cup Starts(S)
    BY <1>1
  <2> HIDE DEF W
  <2> QED
    BY <1>4, <2>1, <2>2
<1>6. /\ DOMAIN Recorded(h, S) = W
      /\ \A s \in W : Recorded(h, S)[s] = IF s \in Starts(S) THEN SeenUpTo(S, s) ELSE h[s]
  BY DEF Recorded
<1>7. DOMAIN k = Newest(W) /\ \A s \in Newest(W) : k[s] = Recorded(h, S)[s]
  BY <1>6 DEF Retained
<1>8. DOMAIN k = NewestTwo(Starts(G \cup S))
  BY <1>3, <1>5, <1>7
<1>9. ASSUME NEW d \in G \cup S, d.start \in DOMAIN k PROVE k[d.start] >= d.asOf
  <2>1. d.start \in W /\ k[d.start] = Recorded(h, S)[d.start]
    BY <1>7, <1>9 DEF Newest
  <2>2. CASE d.start \in Starts(S)
    <3>1. PICK e \in S : e.start = d.start
      BY <2>2 DEF Starts
    <3>2. SeenUpTo(S, d.start) = at
      BY <3>1 DEF SeenUpTo
    <3>3. k[d.start] = at
      BY <1>6, <2>1, <2>2, <3>2
    <3>4. d.asOf <= at
      BY <1>9
    <3> QED
      BY <3>3, <3>4
  <2>3. CASE d.start \notin Starts(S)
    <3>1. d \in G /\ d.start \in DOMAIN h
      BY <2>1, <2>3 DEF Starts
    <3>2. k[d.start] = h[d.start]
      BY <1>6, <2>1, <2>3
    <3> QED
      BY <3>1, <3>2 DEF HoldsOf
  <2> QED
    BY <2>2, <2>3
<1> QED
  BY <1>8, <1>9 DEF HoldsOf

\* MetricsQuerierAdapter.Update keeps the two newest windows of every resolution.
LEMMA MetricsKeepNewest ==
  ASSUME NEW at \in Nat, NEW h, NEW G \in SUBSET MetricsSnapshot,
         NEW S \in SUBSET MetricsSnapshot,
         \A d \in G \cup S : d.start <= Horizon,
         \A d \in S : d.asOf = at, \A d \in G : d.asOf <= at,
         \A r \in Resolution : HoldsOf(h[r], OfRes(G, r))
  PROVE  \A r \in Resolution : HoldsOf(WithMetrics(h, S)[r], OfRes(G \cup S, r))
<1> SUFFICES ASSUME NEW r \in Resolution
             PROVE  HoldsOf(WithMetrics(h, S)[r], OfRes(G \cup S, r))
  OBVIOUS
<1>1. OfRes(G \cup S, r) = OfRes(G, r) \cup OfRes(S, r)
  BY DEF OfRes
<1>2. WithMetrics(h, S)[r] = IF OfRes(S, r) = {} THEN h[r]
                             ELSE Retained(Recorded(h[r], OfRes(S, r)))
  BY DEF WithMetrics, OfRes
<1>3. Horizon \in Nat
  BY WindowsAssumption
<1>4. CASE OfRes(S, r) = {}
  BY <1>1, <1>2, <1>4
<1>5. CASE OfRes(S, r) # {}
  <2>1. Starts(OfRes(G, r)) \subseteq 0..Horizon /\ Starts(OfRes(S, r)) \subseteq 0..Horizon
    BY <1>3 DEF Starts, OfRes, MetricsSnapshot
  <2>2. /\ \A d \in OfRes(S, r) : d.asOf = at
        /\ \A d \in OfRes(G, r) : d.asOf <= at
    BY DEF OfRes
  <2>3. HoldsOf(Retained(Recorded(h[r], OfRes(S, r))), OfRes(G, r) \cup OfRes(S, r))
    BY <1>3, <1>5, <2>1, <2>2, NewestKept
  <2> QED
    BY <1>1, <1>2, <1>5, <2>3
<1> QED
  BY <1>4, <1>5

\* Nothing that is handed over starts after the bound on time.
LEMMA StartsBounded ==
  TypeOK /\ RecordInv => \A d \in delivered : d.start <= Horizon
<1> SUFFICES ASSUME TypeOK, RecordInv, NEW d \in delivered PROVE d.start <= Horizon
  OBVIOUS
<1>1. d.start \in Nat /\ d.asOf \in Nat /\ lastSnapshot \in 0..Horizon /\ Horizon \in Nat
  BY WindowsAssumption DEF TypeOK, MetricsSnapshot
<1>2. d.start <= d.asOf /\ d.asOf <= lastSnapshot
  BY DEF RecordInv
<1> QED
  BY <1>1, <1>2

GInv == KInv /\ RecordInv /\ GivenInv

\* The three invariants hold initially and are kept by every action.
LEMMA GivenInit == KInit => GInv
<1> SUFFICES ASSUME KInit PROVE GInv
  OBVIOUS
<1>1. KInv
  BY KInitInv
<1>2. RecordInv
  BY DEF KInit, Init, RecordInv
<1>3. GivenInv
  BY DEF KInit, Init, GivenInv
<1> QED
  BY <1>1, <1>2, <1>3 DEF GInv

LEMMA InitializeGiven == GInv /\ Initialize => GivenInv'
<1> SUFFICES ASSUME GInv, Initialize PROVE GivenInv'
  OBVIOUS
<1>1. phase = "init" /\ phase' = "running" /\ turn = 0 /\ turn' = 0 /\ delivered = {}
      /\ TypeOK /\ RecordInv
  BY DEF GInv, KInv, IInv, TurnInv, GivenInv, Initialize
<1>2. SUFFICES ASSUME adapters' = "ready"
               PROVE  \A r \in Resolution : HoldsOf(held'[r], OfRes(delivered', r))
  BY <1>1 DEF GivenInv
<1>3. held' = WithMetrics(held, Summary) /\ delivered' = Summary /\ now > lastSnapshot
  BY <1>1, <1>2 DEF Initialize, SnapshotOK, Snapshot
<1>4. /\ SummaryAt \in Nat /\ Summary \in SUBSET MetricsSnapshot
      /\ \A d \in Summary : d.asOf = SummaryAt
  BY <1>1, <1>3, SummaryRecords
<1>5. \A r \in Resolution : HoldsOf(held[r], OfRes({}, r))
  BY <1>1 DEF GInv, GivenInv, HoldsOf, OfRes, Starts, NewestTwo
<1>6. \A d \in Summary : d.start <= Horizon
  <2>1. /\ SummaryAt \in 0..Horizon /\ Horizon \in Nat
        /\ \A d \in Summary : d.asOf = SummaryAt /\ d.start <= d.asOf
    BY <1>1, <1>3, SummaryRecords, WindowsAssumption
  <2>2. \A d \in Summary : d.start \in Nat
    BY <1>4 DEF MetricsSnapshot
  <2> QED
    BY <2>1, <2>2
<1>7. \A r \in Resolution : HoldsOf(WithMetrics(held, Summary)[r], OfRes({} \cup Summary, r))
  BY <1>4, <1>5, <1>6, MetricsKeepNewest
<1> QED
  BY <1>3, <1>7

LEMMA CollectGiven == GInv /\ Collect => GivenInv'
<1> SUFFICES ASSUME GInv, Collect PROVE GivenInv'
  OBVIOUS
<1>1. phase' = "running" /\ turn = 0 /\ adapters' = adapters /\ held' = held
      /\ TypeOK /\ RecordInv /\ delivered' = delivered \cup Summary /\ now > lastSnapshot
  BY DEF GInv, KInv, IInv, Collect, SnapshotOK, Snapshot
<1>2. SUFFICES ASSUME adapters = "ready"
               PROVE  \E G \in SUBSET delivered' :
         /\ delivered' = IF turn' = 0 THEN G ELSE G \cup emitted'.metrics
         /\ turn' # 0 => \E at \in 0..Horizon :
              /\ \A d \in emitted'.metrics : d.asOf = at
              /\ \A d \in G : d.asOf <= at
         /\ \A r \in Resolution : HoldsOf(held'[r], OfRes(G, r))
  BY <1>1 DEF GivenInv
<1>3. turn' = 1 /\ emitted'.metrics = Summary
  BY <1>2 DEF Collect
<1>4. \A r \in Resolution : HoldsOf(held[r], OfRes(delivered, r))
  BY <1>1, <1>2 DEF GInv, GivenInv
<1>5. /\ SummaryAt \in 0..Horizon
      /\ \A d \in Summary : d.asOf = SummaryAt
      /\ \A d \in delivered : d.asOf <= SummaryAt
  BY <1>1, SummaryRecords
<1> QED
  BY <1>1, <1>3, <1>4, <1>5

LEMMA UpdateGiven == GInv /\ Update => GivenInv'
<1> SUFFICES ASSUME GInv, Update PROVE GivenInv'
  OBVIOUS
<1>1. /\ turn \in 1..4 /\ phase' = phase /\ adapters' = adapters /\ emitted' = emitted
      /\ delivered' = delivered /\ phase # "init" /\ TypeOK /\ RecordInv
      /\ emitted.metrics \in SUBSET MetricsSnapshot /\ emitted.metrics \subseteq delivered
  BY DEF GInv, KInv, IInv, KTypeOK, HeldInv, TurnInv, Update, vars
<1>2. SUFFICES ASSUME adapters = "ready" PROVE GivenInv'
  BY <1>1 DEF GivenInv
<1>3. PICK G \in SUBSET delivered :
         /\ delivered = G \cup emitted.metrics
         /\ \E at \in 0..Horizon :
              /\ \A d \in emitted.metrics : d.asOf = at
              /\ \A d \in G : d.asOf <= at
         /\ \A r \in Resolution : HoldsOf(held[r], OfRes(G, r))
  BY <1>1, <1>2 DEF GInv, GivenInv
<1>4. CASE turn \in 1..3
  <2>1. turn' # 0 /\ held' = held
    BY <1>4, OrderOfAdapters DEF Update
  <2> QED
    BY <1>1, <1>3, <2>1 DEF GivenInv
<1>5. CASE turn = 4
  <2>1. turn' = 0 /\ held' = WithMetrics(held, emitted.metrics)
    BY <1>5, OrderOfAdapters DEF Update
  <2>2. PICK at \in 0..Horizon : /\ \A d \in emitted.metrics : d.asOf = at
                                 /\ \A d \in G : d.asOf <= at
    BY <1>3
  <2>3. at \in Nat /\ G \in SUBSET MetricsSnapshot
    BY <1>1, WindowsAssumption DEF TypeOK
  <2>4. \A d \in G \cup emitted.metrics : d.start <= Horizon
    BY <1>1, <1>3, StartsBounded
  <2>5. \A r \in Resolution :
          HoldsOf(WithMetrics(held, emitted.metrics)[r], OfRes(G \cup emitted.metrics, r))
    BY <1>1, <1>3, <2>2, <2>3, <2>4, MetricsKeepNewest
  <2> QED
    BY <1>1, <1>3, <2>1, <2>5 DEF GivenInv
<1> QED
  BY <1>1, <1>4, <1>5

\* Calls that fail, and the clock, hand over nothing.
LEMMA OtherGiven ==
  GInv /\ (InitialFails \/ CollectFails \/ KTick \/ UNCHANGED kvars) => GivenInv'
<1> SUFFICES ASSUME GInv, InitialFails \/ CollectFails \/ KTick \/ UNCHANGED kvars
             PROVE  GivenInv'
  OBVIOUS
<1>1. /\ UNCHANGED <<adapters, turn, emitted, held, delivered>>
      /\ phase' = "init" => phase = "init"
  BY DEF InitialFails, CollectFails, KTick, kvars, vars, Tick, MetricsFail, OtherFail
<1> QED
  BY <1>1 DEF GInv, GivenInv

LEMMA GivenInvariance == KSpec => []GInv
<1>1. GInv /\ [KNext]_kvars => GInv'
  <2> SUFFICES ASSUME GInv, [KNext]_kvars PROVE GInv'
    OBVIOUS
  <2>1. KInv'
    BY KStep DEF GInv
  <2>2. RecordInv'
    BY StepIsSnapshotStep, RecordStep DEF GInv, KInv, IInv, kvars
  <2>3. GivenInv'
    BY InitializeGiven, CollectGiven, UpdateGiven, OtherGiven DEF KNext
  <2> QED
    BY <2>1, <2>2, <2>3 DEF GInv
<1> QED
  BY <1>1, GivenInit, PTL DEF KSpec

\* Between two emissions the metrics adapter holds the two newest windows of every
\* resolution that were handed over, each in its newest version, whatever was cached
\* or failed.
THEOREM AdapterHoldsNewest == KSpec => []HoldsNewest
<1>1. GInv => HoldsNewest
  BY DEF GInv, GivenInv, HoldsNewest, HoldsOf, OfRes, Starts, NewestTwo
<1> QED
  BY <1>1, GivenInvariance, PTL

\* The last window that closed is one of the two newest the adapter was given.
LEMMA LastClosedHeld ==
  ASSUME GInv, adapters = "ready", turn = 0, NEW r \in Resolution,
         NEW a \in attempts, Truncate(lastSnapshot, r) - r <= a.at,
         a.at < Truncate(lastSnapshot, r) - r + r,
         NEW b \in attempts, FirstFrom(b, Truncate(lastSnapshot, r) - r + r), b.kind = "fresh"
  PROVE  LET s == Truncate(lastSnapshot, r) - r IN
         /\ s \in DOMAIN held[r] /\ held[r][s] >= s + r
         /\ Truncate(s, r) = s
<1> DEFINE p == Truncate(lastSnapshot, r)
           s == p - r
           given == OfRes(delivered, r)
<1>1. /\ r \in Nat \ {0} /\ lastSnapshot \in 0..Horizon /\ lastSnapshot \in Nat /\ Horizon \in Nat
      /\ TypeOK /\ RecordInv /\ ClosedWindowsComplete /\ a.at \in Nat
      /\ delivered \subseteq MetricsSnapshot
  BY WindowsAssumption DEF GInv, KInv, IInv, TypeOK, Attempt
<1>2. p \in Nat /\ p % r = 0 /\ p <= lastSnapshot /\ lastSnapshot < p + r
  BY <1>1, TruncateIsStart
<1> HIDE DEF p
<1>3. s + r = p /\ s \in Int
  BY <1>1, <1>2
<1>4. s \in Nat /\ s % r = 0
  <2>1. p >= r
    <3>1. a.at < p
      BY <1>1, <1>2 DEF p
    <3>2. SUFFICES ASSUME p < r PROVE FALSE
      BY <1>1, <1>2
    <3>3. p % r = p
      BY <1>1, <1>2, <3>2
    <3> QED
      BY <1>1, <1>2, <3>1, <3>3
  <2>2. s \in Nat
    BY <1>1, <1>2, <2>1
  <2>3. s % r = 0
    BY <1>1, <1>2, <2>1, StartBefore
  <2> QED
    BY <2>2, <2>3
<1>5. s \in WindowStart(r)
  BY <1>1, <1>2, <1>4 DEF WindowStart
<1>6. Complete(r, s)
  BY <1>1, <1>5 DEF ClosedWindowsComplete, p
<1>7. PICK d \in delivered : d.res = r /\ d.start = s /\ d.asOf >= s + r
  BY <1>6 DEF Complete
<1>8. d \in given /\ s \in Starts(given)
  BY <1>7 DEF OfRes, Starts
<1>9. HoldsOf(held[r], given)
  BY DEF GInv, GivenInv
<1>10. ASSUME NEW u \in Starts(given), u > s PROVE u = p
  <2>1. PICK e \in given : e.start = u
    BY DEF Starts
  <2>2. u \in Nat /\ u % r = 0 /\ u <= lastSnapshot
    <3>1. e \in delivered /\ e.res = r /\ e.start \in Nat /\ e.asOf \in Nat
      BY <1>1 DEF OfRes, MetricsSnapshot
    <3>2. e.start % r = 0 /\ e.start <= e.asOf /\ e.asOf <= lastSnapshot
      BY <1>1, <3>1 DEF RecordInv
    <3> QED
      BY <1>1, <2>1, <3>1, <3>2
  <2>3. u >= p
    <3>1. SUFFICES ASSUME u < s + r PROVE FALSE
      BY <1>1, <1>2, <1>3, <2>2
    <3>2. Truncate(u, r) = s /\ Truncate(u, r) = u
      BY <1>1, <1>4, <1>10, <2>2, <3>1, TruncateStart
    <3> QED
      BY <1>4, <1>10, <2>2, <3>2
  <2>4. Truncate(lastSnapshot, r) = u
    <3>1. lastSnapshot < u + r
      BY <1>1, <1>2, <2>2, <2>3
    <3> QED
      BY <1>1, <2>2, <3>1, TruncateStart
  <2> QED
    BY <2>4 DEF p
<1>11. s \in DOMAIN held[r]
  BY <1>8, <1>9, <1>10 DEF HoldsOf, NewestTwo
<1>12. held[r][s] >= d.asOf
  BY <1>7, <1>8, <1>9, <1>11 DEF HoldsOf
<1>13. held[r][s] \in Nat /\ d.asOf \in Nat
  BY <1>1, <1>7, <1>11 DEF GInv, KInv, KTypeOK, MetricsSnapshot
<1>14. held[r][s] >= s + r
  BY <1>1, <1>4, <1>7, <1>12, <1>13
<1>15. Truncate(s, r) = s
  BY <1>1, <1>4, TruncateStart
<1> QED
  BY <1>11, <1>14, <1>15 DEF p

\* End to end, from the source to the answer: the last window of a resolution that
\* closed before the latest emission is answered with all its data, if a snapshot
\* fell into it and the first one after its end came from the source.
THEOREM LastClosedWindowServed == KSpec => []LastClosedServed
<1>1. GInv => LastClosedServed
  <2> SUFFICES ASSUME GInv, adapters = "ready", turn = 0, NEW r \in Resolution,
                      NEW a \in attempts, Truncate(lastSnapshot, r) - r <= a.at,
                      a.at < Truncate(lastSnapshot, r) - r + r,
                      NEW b \in attempts,
                      FirstFrom(b, Truncate(lastSnapshot, r) - r + r), b.kind = "fresh",
                      NEW q \in SnapshotQueries
               PROVE  LET s == Truncate(lastSnapshot, r) - r IN Answer(q, r, s).asOf >= s + r
    BY DEF LastClosedServed, FirstFrom
  <2> QED
    BY LastClosedHeld DEF Answer
<1> QED
  BY <1>1, GivenInvariance, PTL

=============================================================================
