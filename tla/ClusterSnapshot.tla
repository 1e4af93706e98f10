--------------------------- MODULE ClusterSnapshot ---------------------------
(***************************************************************************)
(* What one snapshot takes from the cluster (SnapshotOf of                 *)
(* src/pkg/emitter/snapshot.go): the pods in the informer's store, the     *)
(* buffer of short-lived pods its delete handler fills                     *)
(* (src/pkg/cluster/dynamic.go), and the nodes' stats (NodeStats). The     *)
(* exporter takes one snapshot per interval and hands it to the            *)
(* Cloudability emitter, which writes the pods of some of them only.       *)
(*                                                                         *)
(* Pods are created and deleted by the cluster at any time; the informer   *)
(* removes a deleted pod from its store and then calls the handler.        *)
(***************************************************************************)
EXTENDS NodeStats

CONSTANTS
  Pod,
  Interval,          \* the exporter's interval and, by NewAgentDataSource,
                     \* DynamicClusterCache.slpDuration
  EmissionInterval,  \* emissionInterval of the Cloudability emitter
  Horizon,           \* bound on the clock
  MaxFailures        \* bound on failing cluster info or metrics tasks

ASSUME SnapshotAssumption ==
  /\ Interval \in Nat \ {0} /\ EmissionInterval \in Nat \ {0}
  /\ Horizon \in Nat \ {0} /\ MaxFailures \in Nat

VARIABLES
  now,
  pod,        \* each pod's life, as the informer sees it
  start,      \* Status.StartTime, 0 if nil
  tombstone,  \* deleted pods whose deletion the watch missed
  buffer,     \* DynamicClusterCache.shortLivedPods
  phase,      \* where the exporter is
  due,        \* when its time.After fires
  kubeDone,   \* has its Kubernetes task taken the short-lived pods?
  drained,    \* KubernetesSnapshot.ShortLivedPods
  nodeTask,   \* its node stats task
  nodeStats,  \* NodeStatsSummary
  lastEmission,
  failures,
  short,      \* observation: pods whose handler ran, in time, for a short life
  sent,       \* observation: drained pods written with a sample
  unsent      \* observation: drained pods of snapshots that were not

podVars == <<pod, start, tombstone, short>>
taskVars == <<kubeDone, drained, nodeTask, nodeStats>>
roundVars == <<phase, due, lastEmission, sent, unsent, failures>>
nodeVars == <<collectVars, providerVars>>
vars == <<now, nodeVars, podVars, buffer, taskVars, roundVars>>

TypeOK ==
  /\ NodeTypeOK
  /\ pod \in [Pod -> {"none", "stored", "deleted", "handled"}]
  /\ start \in [Pod -> Nat]
  /\ tombstone \subseteq {p \in Pod : pod[p] = "deleted"}
  /\ buffer \subseteq Pod
  /\ phase \in {"first", "wait", "snapshot", "init", "emit", "ended"}
  /\ now \in Nat /\ due \in Nat
  /\ kubeDone \in BOOLEAN /\ drained \subseteq Pod
  /\ nodeTask \in {"begin", "collect", "ok", "error"}
  /\ nodeStats \in Result
  /\ lastEmission \in Nat /\ failures \in 0..MaxFailures
  /\ short \subseteq Pod
  /\ sent \subseteq Pod /\ unsent \subseteq Pod

Init ==
  /\ NodeInit
  /\ pod = [p \in Pod |-> "none"] /\ start = [p \in Pod |-> 0]
  /\ tombstone = {} /\ short = {} /\ buffer = {}
  /\ phase = "first" /\ now = 1 /\ due = 0
  /\ kubeDone = FALSE /\ drained = {}
  /\ nodeTask = "begin" /\ nodeStats = Nothing
  /\ lastEmission = 1 /\ failures = 0
  /\ sent = {} /\ unsent = {}

-----------------------------------------------------------------------------
(* Pods.                                                                   *)

PodCreated(p) ==
  /\ pod[p] = "none"
  /\ pod' = [pod EXCEPT ![p] = "stored"]
  /\ UNCHANGED <<start, tombstone, short, buffer>>

\* The kubelet accepts the pod.
PodStarted(p) ==
  /\ pod[p] = "stored" /\ start[p] = 0
  /\ start' = [start EXCEPT ![p] = now]
  /\ UNCHANGED <<pod, tombstone, short, buffer>>

\* The pod leaves the store. If the watch missed the deletion and a later list
\* shows it, the handler gets a tombstone instead of the pod.
PodDeleted(p) ==
  /\ pod[p] = "stored"
  /\ pod' = [pod EXCEPT ![p] = "deleted"]
  /\ tombstone' \in {tombstone, tombstone \cup {p}}
  /\ UNCHANGED <<start, short, buffer>>

\* Mutant of ShortLived: a pod that was never started is not captured.
ShortLivedIfStarted(p) == start[p] # 0 /\ start[p] + Interval > now

\* StartTime is nil or after time.Now().Add(-slpDuration).
ShortLived(p) == start[p] = 0 \/ start[p] + Interval > now

\* captureShortLivedPodFunc: a tombstone is not captured, nor a pod whose life up
\* to this call was not short.
DeleteHandled(p) ==
  /\ pod[p] = "deleted"
  /\ pod' = [pod EXCEPT ![p] = "handled"]
  /\ buffer' = IF p \notin tombstone /\ ShortLived(p) THEN buffer \cup {p} ELSE buffer
  /\ short' = IF p \notin tombstone /\ (start[p] # 0 => now - start[p] < Interval)
                THEN short \cup {p} ELSE short
  /\ start' = [start EXCEPT ![p] = 0] /\ tombstone' = tombstone \ {p}

PodStep ==
  /\ \E p \in Pod : PodCreated(p) \/ PodStarted(p) \/ PodDeleted(p) \/ DeleteHandled(p)
  /\ UNCHANGED <<now, nodeVars, taskVars, roundVars>>

-----------------------------------------------------------------------------
(* The tasks of a snapshot.                                                *)

\* The exporter's first snapshot follows the provider's first request, if there is
\* a provider; the next ones follow its timer.
SnapshotBegins ==
  /\ \/ phase = "first" /\ provider # "initial"
     \/ phase = "wait" /\ now >= due
  /\ phase' = "snapshot"
  /\ UNCHANGED <<now, nodeVars, podVars, buffer, taskVars, due, lastEmission, sent, unsent, failures>>

\* Mutant of GetAllShortLivedPods: the buffer is not reset.
GetAllShortLivedPodsKept ==
  /\ phase = "snapshot" /\ ~kubeDone
  /\ kubeDone' = TRUE
  /\ drained' = buffer
  /\ UNCHANGED <<now, nodeVars, podVars, buffer, nodeTask, nodeStats, roundVars>>

\* snapshotKubernetes, which cannot fail, takes the buffer and resets it.
GetAllShortLivedPods ==
  /\ phase = "snapshot" /\ ~kubeDone
  /\ kubeDone' = TRUE
  /\ drained' = buffer /\ buffer' = {}
  /\ UNCHANGED <<now, nodeVars, podVars, nodeTask, nodeStats, roundVars>>

NodeTaskVars == <<now, providerVars, podVars, buffer, kubeDone, drained, roundVars>>

\* snapshotNodeStats without background collection: the client is asked, which
\* fails at once if the token cannot be read.
NodeTaskBegins ==
  /\ phase = "snapshot" /\ nodeTask = "begin" /\ ~background
  /\ \/ BeginCollection /\ nodeTask' = "collect"
     \/ UNCHANGED collectVars /\ nodeTask' = "error"
  /\ UNCHANGED <<nodeStats, NodeTaskVars>>

\* Stats of some nodes are enough, and so are none if there was no error.
NodeTaskEnds ==
  /\ phase = "snapshot" /\ nodeTask = "collect" /\ Collected
  /\ EndCollection
  /\ nodeStats' = Summaries
  /\ nodeTask' = IF fetched = {} /\ failed # {} THEN "error" ELSE "ok"
  /\ UNCHANGED NodeTaskVars

\* With background collection: what was recorded last, an error if nothing was.
NodeTaskReads ==
  /\ phase = "snapshot" /\ nodeTask = "begin" /\ background
  /\ nodeStats' = recorded
  /\ nodeTask' = IF ~everRecorded THEN "error" ELSE "ok"
  /\ UNCHANGED <<collectVars, NodeTaskVars>>

TasksDone == kubeDone /\ nodeTask \in {"ok", "error"}

-----------------------------------------------------------------------------
(* The exporter.                                                           *)

outsideVars == <<now, nodeVars, podVars, buffer>>

\* The snapshot is dropped.
RoundEnds ==
  /\ kubeDone' = FALSE /\ drained' = {}
  /\ nodeTask' = "begin" /\ nodeStats' = Nothing

WaitForInterval == phase' = "wait" /\ due' = now + Interval

\* The snapshot is handed to the emitters: by Init the first time.
SnapshotDone ==
  /\ phase = "snapshot" /\ TasksDone /\ nodeTask = "ok"
  /\ phase' = IF due = 0 THEN "init" ELSE "emit"
  /\ UNCHANGED <<due, lastEmission, sent, unsent, failures, taskVars, outsideVars>>

\* A task failed. Without its first snapshot the exporter ends.
SnapshotFails ==
  /\ phase = "snapshot" /\ TasksDone
  /\ \/ nodeTask = "error" /\ UNCHANGED failures
     \/ nodeTask = "ok" /\ failures < MaxFailures /\ failures' = failures + 1
  /\ unsent' = unsent \cup drained
  /\ RoundEnds
  /\ IF due = 0 THEN phase' = "ended" /\ UNCHANGED due ELSE WaitForInterval
  /\ UNCHANGED <<lastEmission, sent, outsideVars>>

\* Emitter.Init writes the node stats only.
InitEmitter ==
  /\ phase = "init"
  /\ unsent' = unsent \cup drained
  /\ RoundEnds /\ WaitForInterval
  /\ UNCHANGED <<lastEmission, sent, failures, outsideVars>>

\* shouldDownsample: 90 % of the interval must have passed.
shouldDownsample == 10 * (now - lastEmission) <= 9 * EmissionInterval

\* Emitter.Emit with a sample that can be written: its pods are both lists.
EmitSample ==
  /\ phase = "emit" /\ ~shouldDownsample
  /\ lastEmission' = lastEmission + EmissionInterval
  /\ sent' = sent \cup drained
  /\ RoundEnds /\ WaitForInterval
  /\ UNCHANGED <<unsent, failures, outsideVars>>

EmitDownsampled ==
  /\ phase = "emit" /\ shouldDownsample
  /\ unsent' = unsent \cup drained
  /\ RoundEnds /\ WaitForInterval
  /\ UNCHANGED <<lastEmission, sent, failures, outsideVars>>

-----------------------------------------------------------------------------
Tick ==
  /\ now < Horizon
  /\ now' = now + 1
  /\ UNCHANGED <<nodeVars, podVars, buffer, taskVars, roundVars>>

CollectStep ==
  /\ PollerStep \/ ProviderStep
  /\ UNCHANGED <<now, podVars, buffer, taskVars, roundVars>>

SnapshotStep ==
  \/ SnapshotBegins \/ GetAllShortLivedPods
  \/ NodeTaskBegins \/ NodeTaskEnds \/ NodeTaskReads
  \/ SnapshotDone \/ SnapshotFails

EmitStep == InitEmitter \/ EmitSample \/ EmitDownsampled

Next == Tick \/ PodStep \/ CollectStep \/ SnapshotStep \/ EmitStep

Spec == Init /\ [][Next]_vars

\* Requests end (the HTTP client has a timeout), goroutines are scheduled.
FairSpec == Spec /\ WF_vars(CollectStep) /\ WF_vars(SnapshotStep) /\ WF_vars(EmitStep)

-----------------------------------------------------------------------------
\* Every short-lived pod the handler saw in time is in exactly one place: the
\* buffer, the snapshot being taken or emitted, or the observed end of one. None
\* is lost or reported twice by a handler running beside a snapshot, by a snapshot
\* that fails or by one that is downsampled (dynamic.go:342, snapshot.go:159).
ShortPodsAccounted ==
  /\ short = buffer \cup drained \cup sent \cup unsent
  /\ buffer \cap (drained \cup sent \cup unsent) = {}
  /\ drained \cap (sent \cup unsent) = {} /\ sent \cap unsent = {}

\* Whatever a snapshot reports, and the provider has recorded, has for every node that
\* was ready either stats or an error: a collection is awaited however its goroutines
\* are scheduled and however they end (collection.go:116).
Complete(result) == result.stats \cup result.errors = result.of

StatsAccountForNodes == Complete(recorded) /\ Complete(nodeStats)

\* A snapshot without any stats is a success only if no node was ready when they
\* were collected, in the background too: a collection that failed never replaces
\* the recorded stats (nodestats.go:72).
StatsUnlessNoNodes ==
  nodeTask = "ok" /\ nodeStats.stats = {} => nodeStats.of = {}

\* Every collection ends, and every snapshot: no failing node keeps a place in the
\* limiter (collection.go:85), so the next node gets its goroutine.
SnapshotsEnd ==
  /\ phase = "snapshot" ~> phase # "snapshot"
  /\ collecting ~> ~collecting
=============================================================================
