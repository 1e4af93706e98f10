------------------------ MODULE ClusterSnapshotProofs ------------------------
(***************************************************************************)
(* Safety of the snapshots for any set of nodes and pods, any limiter,     *)
(* retries and intervals. The invariant has four parts, one per piece of   *)
(* state that has an owner of its own: the running collection, the         *)
(* background provider, the pods with their buffer, and the exporter's     *)
(* round. Each part is kept by its owner's steps and untouched by most     *)
(* others.                                                                 *)
(***************************************************************************)
EXTENDS ClusterSnapshot, FiniteSetTheorems, TLAPS

\* Only ready nodes are polled or have results, and none is ready outside a collection.
CollectInv ==
  /\ collecting \in BOOLEAN
  /\ ready \subseteq Node /\ polling \subseteq ready
  /\ Cardinality(polling) <= ConcurrentPollers
  /\ requests \in [Node -> Nat]
  /\ fetched \subseteq ready /\ failed \subseteq ready
  /\ ~collecting => ready = {}

\* What the provider recorded is complete, and empty only if no node was ready.
ProviderInv ==
  /\ background \in BOOLEAN
  /\ provider \in {"off", "initial", "waiting", "collecting"}
  /\ everRecorded \in BOOLEAN /\ recorded \in Result
  /\ Complete(recorded)
  /\ everRecorded /\ recorded.stats = {} => recorded.of = {}

\* Only pods the handler has seen are anywhere, and none is drained before the
\* Kubernetes task has run.
PodInv ==
  /\ now \in Nat
  /\ pod \in [Pod -> {"none", "stored", "deleted", "handled"}]
  /\ start \in [Pod -> Nat]
  /\ tombstone \subseteq {p \in Pod : pod[p] = "deleted"}
  /\ short \subseteq {p \in Pod : pod[p] = "handled"}
  /\ kubeDone \in BOOLEAN
  /\ ~kubeDone => drained = {}
  /\ ShortPodsAccounted

RoundInv ==
  /\ phase \in {"first", "wait", "snapshot", "init", "emit", "ended"}
  /\ due \in Nat /\ lastEmission \in Nat /\ failures \in 0..MaxFailures
  /\ nodeTask \in {"begin", "collect", "ok", "error"}
  /\ nodeStats \in Result
  /\ Complete(nodeStats) /\ StatsUnlessNoNodes

IInv == CollectInv /\ ProviderInv /\ PodInv /\ RoundInv

-----------------------------------------------------------------------------
(* The running collection.                                                 *)

LEMMA NodesFinite ==
  ASSUME CollectInv
  PROVE  IsFiniteSet(polling) /\ Cardinality(polling) \in Nat
<1>1. polling \in SUBSET Node
  BY DEF CollectInv
<1>2. IsFiniteSet(polling)
  BY <1>1, FS_Subset, NodeStatsAssumption
<1> QED
  BY <1>2, FS_CardinalityType

\* A collection begins with nobody polled and no results.
LEMMA BeginKeeps == CollectInv /\ BeginCollection => CollectInv'
<1> SUFFICES ASSUME CollectInv, BeginCollection PROVE CollectInv'
  OBVIOUS
<1>1. Cardinality({}) = 0
  BY FS_EmptySet
<1> QED
  BY <1>1, NodeStatsAssumption DEF CollectInv, BeginCollection

\* It ends when every ready node has stats or an error, with nobody polled.
LEMMA EndKeeps ==
  ASSUME CollectInv, Collected, EndCollection
  PROVE  /\ CollectInv'
         /\ Summaries \in Result /\ Complete(Summaries)
         /\ Summaries.of = {} \/ Summaries.stats # {} \/ failed # {}
<1>1. polling = {}
  BY DEF CollectInv, Collected
<1>2. CollectInv'
  BY <1>1 DEF CollectInv, EndCollection
<1>3. ready = fetched \cup failed
  BY DEF CollectInv, Collected, Ended
<1>4. Summaries \in Result
  BY DEF CollectInv, Summaries, Result
<1> QED
  BY <1>2, <1>3, <1>4 DEF Summaries, Complete

\* A place in the limiter that is given back makes room.
LEMMA ReleaseKeeps ==
  ASSUME CollectInv, NEW n \in Node, ReleasePlace(n)
  PROVE  polling' \subseteq ready /\ Cardinality(polling') <= ConcurrentPollers
<1>1. IsFiniteSet(polling) /\ Cardinality(polling) \in Nat
  BY NodesFinite
<1>2. Cardinality(polling \ {n}) <= Cardinality(polling)
  BY <1>1, FS_RemoveElement
<1>3. Cardinality(polling \ {n}) \in Nat
  BY <1>1, FS_RemoveElement, FS_CardinalityType
<1> QED
  BY <1>1, <1>2, <1>3, NodeStatsAssumption DEF CollectInv, ReleasePlace

\* Each goroutine keeps to its node and to its place.
LEMMA PollerKeeps == CollectInv /\ PollerStep => CollectInv'
<1> SUFFICES ASSUME CollectInv, NEW n \in Node,
                    StartPoller(n) \/ RequestAnswered(n) \/ RequestFails(n)
             PROVE  CollectInv'
  BY DEF PollerStep
<1>1. IsFiniteSet(polling) /\ Cardinality(polling) \in Nat
  BY NodesFinite
<1>2. CASE StartPoller(n)
  <2>1. n \notin polling /\ Cardinality(polling) < ConcurrentPollers
    BY <1>2 DEF StartPoller, LimiterHasRoom
  <2>2. Cardinality(polling \cup {n}) = Cardinality(polling) + 1
    BY <1>1, <2>1, FS_AddElement
  <2>3. Cardinality(polling \cup {n}) <= ConcurrentPollers
    BY <1>1, <2>1, <2>2, NodeStatsAssumption
  <2> QED
    BY <1>2, <2>3 DEF StartPoller, CollectInv
<1>3. CASE RequestAnswered(n)
  <2>1. ReleasePlace(n)
    BY <1>3 DEF RequestAnswered, EndsWithStats, EndsWithError
  <2>2. polling' \subseteq ready /\ Cardinality(polling') <= ConcurrentPollers
    BY <2>1, ReleaseKeeps
  <2> QED
    BY <1>3, <2>2 DEF RequestAnswered, EndsWithStats, EndsWithError, CollectInv
<1>4. CASE RequestFails(n)
  <2>1. requests' \in [Node -> Nat]
    BY <1>4 DEF RequestFails, CollectInv
  <2>2. CASE EndsWithError(n)
    <3>1. polling' \subseteq ready /\ Cardinality(polling') <= ConcurrentPollers
      BY <2>2, ReleaseKeeps DEF EndsWithError
    <3> QED
      BY <1>4, <2>1, <2>2, <3>1 DEF RequestFails, EndsWithError, CollectInv
  <2>3. CASE UNCHANGED <<polling, fetched, failed>>
    BY <1>4, <2>1, <2>3 DEF RequestFails, CollectInv
  <2> QED
    BY <1>4, <2>2, <2>3 DEF RequestFails
<1> QED
  BY <1>2, <1>3, <1>4

-----------------------------------------------------------------------------
(* The provider: what it records is a result of its own collection.        *)
LEMMA CollectStepKeeps == IInv /\ CollectStep => IInv'
<1> SUFFICES ASSUME IInv, CollectStep PROVE IInv'
  OBVIOUS
<1>1. PodInv' /\ RoundInv'
  BY DEF IInv, PodInv, RoundInv, CollectStep, podVars, taskVars, roundVars,
         ShortPodsAccounted, StatsUnlessNoNodes, Complete
<1>2. CASE PollerStep
  <2>1. CollectInv'
    BY <1>2, PollerKeeps DEF IInv
  <2>2. ProviderInv'
    BY <1>2 DEF IInv, ProviderInv, PollerStep, providerVars, Complete
  <2> QED
    BY <1>1, <2>1, <2>2 DEF IInv
<1>3. CASE ProviderBegins
  <2>1. CollectInv'
    BY <1>3, BeginKeeps DEF IInv, ProviderBegins
  <2>2. ProviderInv'
    BY <1>3 DEF IInv, ProviderInv, ProviderBegins, Complete
  <2> QED
    BY <1>1, <2>1, <2>2 DEF IInv
<1>4. CASE ProviderEnds
  <2>1. /\ CollectInv'
        /\ Summaries \in Result /\ Complete(Summaries)
        /\ Summaries.of = {} \/ Summaries.stats # {} \/ failed # {}
    BY <1>4, EndKeeps DEF IInv, ProviderEnds
  <2>2. CASE Keeps /\ UNCHANGED <<recorded, everRecorded>>
    <3>1. ProviderInv'
      BY <1>4, <2>2 DEF IInv, ProviderInv, ProviderEnds, Complete
    <3> QED
      BY <1>1, <2>1, <3>1 DEF IInv
  <2>3. CASE ~Keeps /\ recorded' = Summaries /\ everRecorded' = TRUE
    <3>1. Summaries.stats = {} => Summaries.of = {}
      BY <2>1, <2>3 DEF Keeps, Summaries
    <3>2. ProviderInv'
      BY <1>4, <2>1, <2>3, <3>1 DEF IInv, ProviderInv, ProviderEnds, Complete
    <3> QED
      BY <1>1, <2>1, <3>2 DEF IInv
  <2> QED
    BY <1>4, <2>2, <2>3 DEF ProviderEnds
<1>5. CASE ProviderTokenFails
  <2>1. CollectInv' /\ ProviderInv'
    BY <1>5 DEF IInv, CollectInv, ProviderInv, ProviderTokenFails, collectVars, Complete
  <2> QED
    BY <1>1, <2>1 DEF IInv
<1> QED
  BY <1>2, <1>3, <1>4, <1>5 DEF CollectStep, ProviderStep

-----------------------------------------------------------------------------
(* Pods.                                                                   *)

\* The handler puts a pod into the buffer exactly if its life was short.
LEMMA HandlerKeeps ==
  ASSUME PodInv, NEW p \in Pod, DeleteHandled(p),
         UNCHANGED <<now, kubeDone, drained, sent, unsent>>
  PROVE  PodInv'
<1>1. p \notin short
  BY DEF PodInv, DeleteHandled
<1>2. ShortLived(p) <=> (start[p] # 0 => now - start[p] < Interval)
  BY SnapshotAssumption DEF PodInv, ShortLived
<1>3. \/ buffer' = buffer /\ short' = short
      \/ buffer' = buffer \cup {p} /\ short' = short \cup {p}
  BY <1>2 DEF DeleteHandled
<1>4. ShortPodsAccounted'
  BY <1>1, <1>3 DEF PodInv, ShortPodsAccounted
<1>5. short' \subseteq {q \in Pod : pod'[q] = "handled"}
  BY <1>3 DEF PodInv, DeleteHandled
<1>6. /\ pod' \in [Pod -> {"none", "stored", "deleted", "handled"}]
      /\ start' \in [Pod -> Nat]
      /\ tombstone' \subseteq {q \in Pod : pod'[q] = "deleted"}
  BY DEF PodInv, DeleteHandled
<1> QED
  BY <1>4, <1>5, <1>6 DEF PodInv

LEMMA PodStepKeeps == IInv /\ PodStep => IInv'
<1> SUFFICES ASSUME IInv, PodStep PROVE IInv'
  OBVIOUS
<1>1. CollectInv' /\ ProviderInv'
  BY DEF IInv, CollectInv, ProviderInv, PodStep, nodeVars, collectVars, providerVars,
         Complete
<1>2. RoundInv'
  BY DEF IInv, RoundInv, PodStep, taskVars, roundVars, Complete, StatsUnlessNoNodes
<1>3. UNCHANGED <<now, kubeDone, drained, sent, unsent>>
  BY DEF PodStep, taskVars, roundVars
<1>4. PICK p \in Pod : PodCreated(p) \/ PodStarted(p) \/ PodDeleted(p) \/ DeleteHandled(p)
  BY DEF PodStep
<1>5. CASE PodCreated(p)
  <2>1. PodInv'
    BY <1>3, <1>5 DEF IInv, PodInv, PodCreated, ShortPodsAccounted
  <2> QED
    BY <1>1, <1>2, <2>1 DEF IInv
<1>6. CASE PodStarted(p)
  <2>1. PodInv'
    BY <1>3, <1>6 DEF IInv, PodInv, PodStarted, ShortPodsAccounted
  <2> QED
    BY <1>1, <1>2, <2>1 DEF IInv
<1>7. CASE PodDeleted(p)
  <2>1. PodInv'
    BY <1>3, <1>7 DEF IInv, PodInv, PodDeleted, ShortPodsAccounted
  <2> QED
    BY <1>1, <1>2, <2>1 DEF IInv
<1>8. CASE DeleteHandled(p)
  <2>1. PodInv'
    BY <1>3, <1>8, HandlerKeeps DEF IInv
  <2> QED
    BY <1>1, <1>2, <2>1 DEF IInv
<1> QED
  BY <1>4, <1>5, <1>6, <1>7, <1>8

-----------------------------------------------------------------------------
(* Snapshots.                                                              *)

\* A round that is over leaves no pods and no stats behind.
LEMMA RoundEndsKeeps ==
  ASSUME RoundEnds
  PROVE  /\ nodeStats' \in Result /\ Complete(nodeStats')
         /\ StatsUnlessNoNodes' /\ nodeTask' = "begin"
         /\ kubeDone' = FALSE /\ drained' = {}
  BY DEF RoundEnds, Nothing, Result, Complete, StatsUnlessNoNodes

\* What is drained joins the pods sent or unsent.
LEMMA DrainedGoes ==
  ASSUME PodInv, RoundEnds, UNCHANGED <<now, podVars, buffer>>,
         \/ sent' = sent \cup drained /\ unsent' = unsent
         \/ unsent' = unsent \cup drained /\ sent' = sent
  PROVE  PodInv'
<1>1. ShortPodsAccounted'
  BY DEF PodInv, ShortPodsAccounted, podVars, RoundEnds
<1> QED
  BY <1>1 DEF PodInv, podVars, RoundEnds

LEMMA SnapshotStepKeeps == IInv /\ SnapshotStep => IInv'
<1> SUFFICES ASSUME IInv, SnapshotStep PROVE IInv'
  OBVIOUS
<1>1. CASE SnapshotBegins
  <2>1. CollectInv' /\ ProviderInv'
    BY <1>1 DEF IInv, CollectInv, ProviderInv, SnapshotBegins, nodeVars, collectVars,
                providerVars, Complete
  <2>2. PodInv'
    BY <1>1 DEF IInv, PodInv, SnapshotBegins, podVars, taskVars, ShortPodsAccounted
  <2>3. RoundInv'
    BY <1>1 DEF IInv, RoundInv, SnapshotBegins, taskVars, Complete, StatsUnlessNoNodes
  <2> QED
    BY <2>1, <2>2, <2>3 DEF IInv
<1>2. CASE GetAllShortLivedPods
  <2>1. CollectInv' /\ ProviderInv'
    BY <1>2 DEF IInv, CollectInv, ProviderInv, GetAllShortLivedPods, nodeVars,
                collectVars, providerVars, Complete
  <2>2. drained = {}
    BY <1>2 DEF IInv, PodInv, GetAllShortLivedPods
  <2>3. PodInv'
    BY <1>2, <2>2 DEF IInv, PodInv, GetAllShortLivedPods, podVars, roundVars,
                      ShortPodsAccounted
  <2>4. RoundInv'
    BY <1>2 DEF IInv, RoundInv, GetAllShortLivedPods, roundVars, Complete,
                StatsUnlessNoNodes
  <2> QED
    BY <2>1, <2>3, <2>4 DEF IInv
<1>3. CASE NodeTaskBegins
  <2>1. ProviderInv' /\ PodInv'
    BY <1>3 DEF IInv, ProviderInv, PodInv, NodeTaskBegins, NodeTaskVars, providerVars,
                podVars, roundVars, Complete, ShortPodsAccounted
  <2>2. RoundInv'
    BY <1>3 DEF IInv, RoundInv, NodeTaskBegins, NodeTaskVars, roundVars, Complete,
                StatsUnlessNoNodes
  <2>3. CASE BeginCollection
    BY <2>1, <2>2, <2>3, BeginKeeps DEF IInv
  <2>4. CASE UNCHANGED collectVars
    BY <2>1, <2>2, <2>4 DEF IInv, CollectInv, collectVars
  <2> QED
    BY <1>3, <2>3, <2>4 DEF NodeTaskBegins
<1>4. CASE NodeTaskEnds
  <2>1. ProviderInv' /\ PodInv'
    BY <1>4 DEF IInv, ProviderInv, PodInv, NodeTaskEnds, NodeTaskVars, providerVars,
                podVars, roundVars, Complete, ShortPodsAccounted
  <2>2. /\ CollectInv'
        /\ Summaries \in Result /\ Complete(Summaries)
        /\ Summaries.of = {} \/ Summaries.stats # {} \/ failed # {}
    BY <1>4, EndKeeps DEF IInv, NodeTaskEnds
  <2>3. StatsUnlessNoNodes'
    BY <1>4, <2>2 DEF NodeTaskEnds, StatsUnlessNoNodes, Summaries
  <2>4. RoundInv'
    BY <1>4, <2>2, <2>3 DEF IInv, RoundInv, NodeTaskEnds, NodeTaskVars, roundVars,
                            Complete
  <2> QED
    BY <2>1, <2>2, <2>4 DEF IInv
<1>5. CASE NodeTaskReads
  <2>1. CollectInv' /\ ProviderInv' /\ PodInv'
    BY <1>5 DEF IInv, CollectInv, ProviderInv, PodInv, NodeTaskReads, NodeTaskVars,
                collectVars, providerVars, podVars, roundVars, Complete,
                ShortPodsAccounted
  <2>2. RoundInv'
    BY <1>5 DEF IInv, RoundInv, ProviderInv, NodeTaskReads, NodeTaskVars, roundVars,
                Complete, StatsUnlessNoNodes
  <2> QED
    BY <2>1, <2>2 DEF IInv
<1>6. CASE SnapshotDone
  <2>1. CollectInv' /\ ProviderInv' /\ PodInv'
    BY <1>6 DEF IInv, CollectInv, ProviderInv, PodInv, SnapshotDone, outsideVars,
                nodeVars, collectVars, providerVars, podVars, taskVars, Complete,
                ShortPodsAccounted
  <2>2. RoundInv'
    BY <1>6 DEF IInv, RoundInv, SnapshotDone, taskVars, Complete, StatsUnlessNoNodes
  <2> QED
    BY <2>1, <2>2 DEF IInv
<1>7. CASE SnapshotFails
  <2>1. CollectInv' /\ ProviderInv'
    BY <1>7 DEF IInv, CollectInv, ProviderInv, SnapshotFails, outsideVars, nodeVars,
                collectVars, providerVars, Complete
  <2>2. PodInv'
    BY <1>7, DrainedGoes DEF IInv, SnapshotFails, outsideVars
  <2>3. due' \in Nat /\ phase' \in {"ended", "wait"}
    BY <1>7, SnapshotAssumption DEF IInv, RoundInv, PodInv, SnapshotFails,
                                    WaitForInterval
  <2>4. failures' \in 0..MaxFailures /\ lastEmission' \in Nat
    BY <1>7, SnapshotAssumption DEF IInv, RoundInv, SnapshotFails
  <2>5. RoundInv'
    BY <1>7, <2>3, <2>4, RoundEndsKeeps DEF RoundInv, SnapshotFails, Complete
  <2> QED
    BY <2>1, <2>2, <2>5 DEF IInv
<1> QED
  BY <1>1, <1>2, <1>3, <1>4, <1>5, <1>6, <1>7 DEF SnapshotStep

LEMMA EmitStepKeeps == IInv /\ EmitStep => IInv'
<1> SUFFICES ASSUME IInv, EmitStep PROVE IInv'
  OBVIOUS
<1>1. /\ RoundEnds /\ WaitForInterval /\ UNCHANGED <<failures, outsideVars>>
      /\ \/ sent' = sent \cup drained /\ unsent' = unsent
         \/ unsent' = unsent \cup drained /\ sent' = sent
      /\ lastEmission' \in {lastEmission, lastEmission + EmissionInterval}
  BY DEF EmitStep, InitEmitter, EmitSample, EmitDownsampled
<1>2. CollectInv' /\ ProviderInv'
  BY <1>1 DEF IInv, CollectInv, ProviderInv, outsideVars, nodeVars, collectVars,
              providerVars, Complete
<1>3. PodInv'
  BY <1>1, DrainedGoes DEF IInv, outsideVars
<1>4. due' \in Nat /\ phase' = "wait" /\ lastEmission' \in Nat
  BY <1>1, SnapshotAssumption DEF IInv, RoundInv, PodInv, WaitForInterval
<1>5. RoundInv'
  BY <1>1, <1>4, RoundEndsKeeps DEF IInv, RoundInv, Complete
<1> QED
  BY <1>2, <1>3, <1>5 DEF IInv

-----------------------------------------------------------------------------
LEMMA InitIInv == Init => IInv
<1> SUFFICES ASSUME Init PROVE IInv
  OBVIOUS
<1>1. CollectInv
  <2>1. Cardinality({}) = 0
    BY FS_EmptySet
  <2>2. Cardinality(polling) <= ConcurrentPollers
    BY <2>1, NodeStatsAssumption DEF Init, NodeInit
  <2> QED
    BY <2>2 DEF Init, NodeInit, CollectInv
<1>2. ProviderInv
  BY DEF Init, NodeInit, ProviderInv, Nothing, Result, Complete
<1>3. PodInv
  BY DEF Init, PodInv, ShortPodsAccounted
<1>4. RoundInv
  BY SnapshotAssumption DEF Init, RoundInv, Nothing, Result, Complete,
                            StatsUnlessNoNodes
<1> QED
  BY <1>1, <1>2, <1>3, <1>4 DEF IInv

LEMMA NextIInv == IInv /\ [Next]_vars => IInv'
<1> SUFFICES ASSUME IInv, [Next]_vars PROVE IInv'
  OBVIOUS
<1>1. CASE Tick
  <2>1. CollectInv' /\ ProviderInv' /\ PodInv'
    BY <1>1 DEF IInv, CollectInv, ProviderInv, PodInv, Tick, nodeVars, collectVars,
                providerVars, podVars, taskVars, roundVars, Complete,
                ShortPodsAccounted
  <2>2. RoundInv'
    BY <1>1 DEF IInv, RoundInv, Tick, taskVars, roundVars, Complete, StatsUnlessNoNodes
  <2> QED
    BY <2>1, <2>2 DEF IInv
<1>2. CASE UNCHANGED vars
  <2>1. CollectInv' /\ ProviderInv' /\ PodInv'
    BY <1>2 DEF IInv, CollectInv, ProviderInv, PodInv, vars, nodeVars, collectVars,
                providerVars, podVars, taskVars, roundVars, Complete,
                ShortPodsAccounted
  <2>2. RoundInv'
    BY <1>2 DEF IInv, RoundInv, vars, taskVars, roundVars, Complete, StatsUnlessNoNodes
  <2> QED
    BY <2>1, <2>2 DEF IInv
<1> QED
  BY <1>1, <1>2, CollectStepKeeps, PodStepKeeps, SnapshotStepKeeps, EmitStepKeeps
  DEF Next

LEMMA AlwaysIInv == Spec => []IInv
  BY InitIInv, NextIInv, PTL DEF Spec

-----------------------------------------------------------------------------
\* The collection's, the pods' and the round's variables keep their types; at most
\* ConcurrentPollers goroutines hold a place in the limiter (collection.go:73).
THEOREM TypeCorrect == Spec => []TypeOK
<1>1. IInv => NodeTypeOK
  BY DEF IInv, CollectInv, ProviderInv, NodeTypeOK
<1>2. IInv => TypeOK
  BY <1>1 DEF IInv, PodInv, RoundInv, ShortPodsAccounted, TypeOK
<1> QED
  BY <1>2, AlwaysIInv, PTL

\* For any number of pods and snapshots, each short-lived pod the handler captured is in
\* the buffer, in the snapshot under way, or was drained exactly once (dynamic.go:342).
THEOREM PodsAccounted == Spec => []ShortPodsAccounted
<1>1. IInv => ShortPodsAccounted
  BY DEF IInv, PodInv
<1> QED
  BY <1>1, AlwaysIInv, PTL

\* Whatever was recorded or handed to a snapshot has stats or an error of every node
\* that was ready, for any limiter, connections and retries (collection.go:116).
THEOREM StatsAlwaysComplete == Spec => []StatsAccountForNodes
<1>1. IInv => StatsAccountForNodes
  BY DEF IInv, ProviderInv, RoundInv, StatsAccountForNodes
<1> QED
  BY <1>1, AlwaysIInv, PTL

\* A snapshot without stats succeeds only if no node was ready: a failed refresh never
\* takes the place of recorded stats (nodestats.go:72).
THEOREM NoEmptyStats == Spec => []StatsUnlessNoNodes
<1>1. IInv => StatsUnlessNoNodes
  BY DEF IInv, RoundInv
<1> QED
  BY <1>1, AlwaysIInv, PTL
=============================================================================
