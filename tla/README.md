# TLA+ models of the IBM FinOps agent

The FinOps agent runs one container per Kubernetes cluster. Once a minute it
takes a *snapshot* of the cluster (objects, node statistics, metrics) and hands
it to its *emitters*; the Cloudability emitter writes the snapshot to disk as a
*sample*, packs samples into tars and uploads them, the Kubecost emitter keeps
the newest metrics in memory for its export pipelines. This directory holds TLA+
models of that code (`src/`), the TLC configurations that check them, and proofs
checked by TLAPS.

* [Inventory](#inventory): the parts of the system
* [Plan](#plan): the modules and how they build on each other, what is left
* [The modules](#the-modules): state, actions, properties, bounds, proofs
* [What is proved, what is only checked](#what-is-proved-what-is-only-checked)
* [Disagreements found](#disagreements-found)
* [What is not modelled](#what-is-not-modelled)

`PROJECT.json` lists the runs, a mutant of the model for every checked property
(an operator in the module that stands for a plausible bug; the property must
fail with it), the source lines behind every definition, the findings and the
hazards.

## Inventory

| Component | State | Operations | Interacts with | Hard parts |
|---|---|---|---|---|
| **Exporter** `pkg/emitter/exporter.go` | run state, cancellation token, one goroutine | Start, Stop, the snapshot/emit loop | snapshot provider, emitters (in parallel, panics recovered) | Stop and Start overlap with a goroutine that is still ending; the initial snapshot may fail |
| **CancelToken** `pkg/util/cancel.go` | one cancel function under a lock | NewContext, Cancel | exporter | one token serves successive processes |
| **Snapshot provider** `pkg/emitter/snapshot.go`, `snapshotconfig.go` | `lastSnapshot`, cached metrics summary and its query time (unlocked) | SnapshotOf: three tasks in parallel (Kubernetes, node stats, metrics per window) | data source, cluster cache, node stats | state moves on although the snapshot fails; windows change under a cache |
| **Cloudability emitter** `cldy/emitter.go` | current and next sample directory, `sampleCt`, `lastEmission`, health timestamps | Init, Emit, ClearOldScratchSamples, Healthy | uploader (`AddSample`, `RemoveSample`), health endpoint | partial failure of Emit, purge of the directory in use, downsampling arithmetic |
| **Cloudability uploader** `cldy/uploader.go`, `util.go` | `sampleSet`, `uploadSet`, files in scratch and upload directories, storage services | uploadLoop, ConstructPayload, DrainUploads, recovery at start, ClearOldUploadSamples | emitter, upload clients, disk | crash between any two file operations, disk full, failing deletions, retries, budget |
| **Upload clients** `cldy/clients.go` | cached token and its expiry, region table | Upload, login, probe, retry, S3/Blob put | uploader | token expiry races, 4xx/5xx classification, non-replayable bodies |
| **Health endpoint** `cmd/finops-agent/main.go` | published checkers (atomic pointer) | healthz handler | emitters | served before the emitters exist |
| **Node statistics** `pkg/nodes` | stats slice under a lock, poller pool | GetNodeData (bounded concurrency), background refresh | kubelets | fallback of connections, empty result without error |
| **Cluster cache** `pkg/cluster` | informer stores, short-lived pod buffer | watch handlers, GetAllShortLivedPods | snapshot provider | buffer emptied by a snapshot that may fail |
| **Kubecost emitter, adapters** `kubecost` | two newest windows per resolution, four adapters | Init, Emit, Update, queries | export pipelines | non-atomic update read concurrently, clock steps |
| **Configuration** `*/env`, `kubecost/config.go`, `snapshotconfig.go` | none | read, validate, merge resource flags | all | -- |

What makes each part correct, in one line:

* exporter: one goroutine at a time, Stop ends it and cancels its context,
  Start after Stop is answered, failures never end the loop;
* snapshot provider: no metrics window is left incomplete, cached data is at
  most one cache period old;
* uploader: a sample that was handed over is delivered or discarded by a stated
  rule, also across crashes; only whole tars are shipped; everything is
  eventually shipped;
* emitter: a sample is whole, starts where the one before it ended, and is not touched
  once handed over;
* upload clients: only whole objects are stored, success means stored, nothing is
  left open, every call returns, no request carries an expired token;
* node statistics: a result accounts for every ready node, a failed collection never
  replaces a good one, and a failing node never blocks the others;
* short-lived pods: each is handed to exactly one snapshot;
* Kubecost adapters: every query gets its own results, for its own window, out of a
  snapshot handed over; a reader sees two neighbouring snapshots at most;
* health: unhealthy exactly when collection or upload has stalled.

## Plan

| # | Module | About | Status |
|---|---|---|---|
| 1 | `CldyUploader`, abstract `SampleDelivery` | the upload path from `AddSample` to the destination | written, checked, safety and refinement proved |
| 2 | `Exporter` | process control of the emission loop | written, checked, safety proved |
| 3 | `SnapshotWindows` | metrics windows and cache | written, checked, safety proved |
| 4 | `CldyHealth` | the liveness probe over the two loops | written, checked, safety proved |
| 5 | `CldyEmitter` | current/next directory of a sample, baselines, purge of the directory in use, Init failure, downsampling | written, checked, safety proved |
| 6 | `MetricTables`, `KubecostMetrics` (extends `SnapshotWindows`) | which result goes to which field; two-window retention, queries, update of the four adapters | written, checked, safety proved |
| 7 | `NodeStats`, `ClusterSnapshot` (extends `NodeStats`) | limited pool of node requests, background collection; short-lived pods between the delete handler, snapshots and downsampling | written, checked, safety proved |
| 8 | `StorageUpload`, abstract `UploadCall` | the storage services: token, retries, descriptors, what is stored | written, checked, safety and refinement proved |
| 9 | publication of the health checkers | an action of `CldyHealth` | planned |

How the modules fit together: `ClusterSnapshot` and `SnapshotWindows` are two views
of one `SnapshotOf` (the cluster's tasks, the metrics task); `KubecostMetrics` puts the
Kubecost emitter behind the second, `CldyEmitter` is the Cloudability emitter at
the level of files, and `CldyUploader` takes what it hands over. `CldyUploader` sees
an upload as accepted, failed, or accepted with a lost answer, which is what
`UploadCall` promises and `StorageUpload` implements. `Exporter` is what lets all of
them assume that one goroutine takes snapshots and emits.

Every safety property that a passing run checks is proved. Theorems still worth proving:
that the Exporter implements an abstract "one process, started and stopped"
specification, and the refinement of `SampleDelivery` in the nested layout, with the wipe
of the recovery walk as a step of its own.

## The modules

### CldyUploader and SampleDelivery

`CldyUploader` models `src/cldy/uploader.go` with the helpers of `util.go`. Three
actors interleave: the upload goroutine, the emitter (as far as it creates, hands
over and purges sample directories), and the environment (crash, ageing files,
failing I/O, destination).

* On disk: `dir` (state of each sample directory), `tar`, `content`, `aged`,
  `expired`. In the process: `sampleSet`, `uploadSet`, `services`, `first` (no
  baseline yet), `purging` (between the removal of a directory and
  `RemoveSample`), and the locals of the loop. `pc` is the program point:
  `wait` (ticker), `collect` (ConstructPayload opens the directories), `space`,
  `pack`, `remove` (removeSamples), `return`, `drain`, `shipped` (between the
  upload and `os.Remove`), `walk` and `uploads` (the recovery in NewCldyUploader).
* Between two actions anything else may happen; in particular the purge may
  remove a directory whose file is already open (`PackMissing`), and the container
  may die (`Crash`) at every program point, leaving the disk as it is.
* A name is recycled once nothing refers to it (`Unused`), so behaviours are
  unbounded and the state space is finite.
* Free-space checks answer arbitrarily when `DiskPressure` holds. `MaxFaults` bounds the
  steps in which an I/O call fails, or an upload is accepted although its answers are lost
  (`UploadAnswerLost`: the tar stays queued and is shipped again). `MaxCrashes` deaths may
  happen, also during recovery.
* A read that fails in the recovery destroys what it was reading. Inside a sample, a
  complete one too, the walk ends with `hasShipped` false, line 284 takes the directory for
  an incomplete sample and removes it, and the error is overwritten (`WalkMisread`); a tar
  that `isCompleteGzip` cannot open or read is removed as if it were torn (`misread` in
  `RecoverUploads`). The ghost `unread` holds the samples that lost a copy in this way.
* `ClockMovesOn` is an assumption about the environment. A tar is named after a second and
  `os.Create` truncates what has the name, so `CreateTar` takes an own name (`OwnName`) or,
  unless `ClockMovesOn` holds, the one of a tar that exists (`TakenName`). The code leaves
  three ways to the latter: the clock is set back; a tick that a long drain kept waiting is
  taken less than a second before the next; the second in a recovered sample's agent
  measurement was also that of a tick. All runs assume that none of them happens; what
  follows if one does is under [Disagreements found](#disagreements-found).

Properties: `NoSilentLoss`/`Accounted` (each handed-over sample has a copy on disk,
was accepted, was discarded by a rule of the code, or is `unread`: a failing call in the
recovery costs what it was reading and nothing else, and elsewhere it costs nothing),
`QueueSound` (no torn tar is ever queued), `DeliveredOnce` (without faults and crashes), `NothingForgotten` (everything
undelivered is in one of the two sets whenever the loop waits),
`ImplementsDelivery` (refinement of `SampleDelivery`) and `Delivered` (liveness).

`SampleDelivery` is the promise without files: a sample is free, held, delivered
or discarded (by a rule, or by a failed read of the recovery); deliveries may repeat, held
samples may be discarded, nothing else happens. The refinement mapping is `status`.

Runs: `uploader_crash` (flat layout: a crash at any point, any one failing call, disk
pressure), `uploader_live` (the layout of production: samples below
`scratch/<clusterID>`, a crash at any point, no failing call), and the violation
`uploader_nested_loss`. Two samples
and two tars are enough: every race involves one sample in the tar being built and
one that is new, and one tar that is queued and one being built; the recovery
rebuilds a tar per sample, named after it, so a run has up to four tar paths.

Fairness (`FairSpec`): the ticker fires and the goroutine runs on (weak fairness of
the loop), a dead container is restarted and recovers, service construction and
uploads succeed again and again (strong fairness, because they are enabled only
while a drain is under way), and Go's random map order does not starve an entry of
`operateAndRemove`. `Delivered` also assumes that new samples keep arriving: a tick
without one drains nothing (see the findings), and that a tick finds an unused
name (`NamesLeft`, a bound of the model, not of the code).

### Exporter

A controller calls `Start` and `Stop` in any order. A *run* is a goroutine with
its context; several may exist because a goroutine that has called `Reset` still
has its deferred `Cancel` to run while the next `Start` already succeeded.
`runState` is opencost's AtomicRunState, known only by its use. `wanted` and `late`
observe the last answered call and the rounds after `Stop`.

`select` in Go chooses at random among ready cases; the timer is created in the same
iteration, so when the stop channel is already closed at that point only the
closed channel is ready. A Stop that arrives later in the wait wins unless the
interval has elapsed first, which is the order of `Interval` before `CallStop`.

Properties: `OneAtATime` (the snapshot provider's and the emitters' unlocked state
is used by one goroutine), `StopCancels`, `OneLateRound`; `StartReturns` and
`KeepsEmitting` under fairness (goroutines are scheduled, every `Emit` returns,
snapshots succeed again and again).

Runs: `exporter` has three runs (a Start needs one that has ended, and two may be
alive) and two emitters; it does not check for deadlock because a Start after a
failed initial snapshot and a Stop waits for ever (a finding). The liveness
properties assume that no initial snapshot fails (`InitialSucceeds`).

### SnapshotWindows

Time is discrete; a window of resolution `r` is `[k*r, (k+1)*r)`. A call of
`SnapshotOf` asks for the current window, and also for the previous one when the
last call fell into it; `delivered` observes the windows handed over and up to which
instant their data was seen, `attempts` the calls and their outcomes. `SnapshotOK`, `MetricsFail` and `OtherFail` are the outcomes
of the parallel tasks: in the last the cache has been filled although the call
fails; in all of them `lastSnapshot` moves on.

Properties: `ClosedWindowsComplete` (a window with a call inside it and a fresh
call first after its end is handed over whole, whatever else happens),
`UndisturbedComplete` (as long as every call is fresh, no window that ended and is at
least as long as two calls may be apart is incomplete), `BoundedStaleness` (data is at
most `CacheDuration` old).

The module is checked under `KubecostMetrics`, which extends it: the run `kubecost`
checks `ClosedWindowsComplete` and `BoundedStaleness`. `UndisturbedComplete` is proved.

### MetricTables and KubecostMetrics

`MetricTables` writes down, query by query, which result the snapshot puts into which
field (`FieldWritten`), which field the adapter answers from (`FieldRead`), and which
lists of objects are taken and served: some 150 names that are spelled out by hand in
three places of the code. `Source` composes the two directions.

`KubecostMetrics` puts the Kubecost emitter behind the snapshot provider. `Initialize`
builds the four adapters or fails, `Collect` hands a snapshot to `Emit`, and `Update`
refreshes one adapter at a time in the code's order, so a pipeline may read between any
two. `held` is the metrics adapter's map from window starts to summaries; `WithMetrics`
replaces and then drops the oldest until two remain. `Answer` is what a query gets.

Properties: `AnswersSound`, `HoldsNewest`, `LastClosedServed` (end to end: the window that
has closed is answered whole), `AdaptersInStep`, and `EveryQueryServed` (violated).
Resolutions 3 and 6 have the ratio of divisible windows the code uses (1h, 1d); `Horizon`
8 passes the boundary of the long and two of the short window, which is enough
for a third window to push out the first. The horizon ends the behaviour, so the run
does not check for deadlock.

### NodeStats and ClusterSnapshot

`NodeStats` is one `GetNodeData`: a goroutine per ready node, as many at a time as
`ConcurrentPollers` lets in (`LimiterHasRoom`, `ReleasePlace`), each with the requests its
connections and retries allow. `ClusterSnapshot` composes it with the tasks of a
snapshot: either the task collects itself (`NodeTaskBegins`, `NodeTaskEnds`) or, with
background collection, it reads what the provider recorded (`NodeTaskReads`) while the
provider goes on collecting on its own timer. Beside them the informer deletes pods and its
handler fills the buffer that `GetAllShortLivedPods` takes away; the exporter hands the
snapshot to Init first, later to an Emit that may downsample it, or drops it after a
failure. `short`, `sent` and `unsent` observe where each captured pod has gone, `of` which
nodes a result had to account for.

Properties: `ShortPodsAccounted` (every captured pod is in one place and is drained
once), `StatsAccountForNodes`, `StatsUnlessNoNodes`, `SnapshotsEnd` (liveness: every
collection and every snapshot ends).

What they do not say: a pod drained by the first snapshot, by a failing one or by a
downsampled one reaches no sample -- with the defaults (snapshots every minute, samples
every three) that is two snapshots of three, although clustercache.go:33 only promises
the snapshot. A pod that lives at least one interval but dies between two listings is
in neither list, since two listings are an interval plus the time of a round apart. A pod
deleted between the listing and the draining is in both lists of one sample.
Recorded stats may be of any age; their age is only logged.

Runs: `snapshot_pods` has two pods (one in the buffer while the other is handled), an
interval of 2 and an emission interval of 3, so rounds are downsampled and not, and one
failing task; five units of time are an Init and two rounds after it. `snapshot_nodes` has two nodes and one
place in the limiter, so that a place that is not given back blocks the other node, one
node with two connections, and both ways of collecting. The number of retries only
lengthens a goroutine. Neither checks for deadlock: the clock is bounded, and an
exporter whose first snapshot fails ends. Fairness: the tasks' and the collectors' steps
are taken (goroutines are scheduled, and the HTTP client's timeout ends every request).
Nothing is assumed of the clock or of pods.

### StorageUpload and UploadCall

`StorageUpload` models the three kinds of storage service: `frontdoor` (token, presigned
URL, put), `collector` (API key, presigned URL, put) and `custom` (S3 or Blob library).
`pc` is the request in progress, `attempt` that of `doWithRetry`, `progress` whether it has
been sent, acted upon or answered; an attempt that was acted upon may still fail
(`Retry`), which is a lost or late answer. `left` is the token's remaining life, `files`
and `bodies` are the open descriptors and answers. The tar may vanish at any time
(`TarVanishes`); `Rewind` then fails.

`UploadCall` is the promise without requests: an object is stored whole or not at all,
success means this call has stored it, an error means nothing. `ImplementsUploadCall`
is the refinement; the payload maps to `current` once the service is constructed.

A step may fail wherever a call can return an error without a request being answered:
`ProbeUnsent` and `RequestFails` are a failing `http.NewRequest` (a presigned URL that does
not parse), `StatFails` a failing `Stat`, `KeyFails` a name that yields no object key.
`RequestFails` closes the descriptor twice, at metrics_collector.go:244 and in the deferred
function; the second `Close` only returns an error, which is logged.

Properties: `NothingLeftOpen` (when a call returns, every descriptor and body is closed),
`TokenFresh` (no presign request is answered after its token has expired, although the
token was looked at only once), `CallsReturn` (liveness).

Bounds: three attempts, the code's number; `Timeout` and `Backoff` 1, `Buffer` 7, which is
the smallest that exceeds three attempts and their back-offs, `Life` 9. `UploadAssumption`
states the two inequalities as what a deployment must keep: 3 * (60 s + 4 s) is below ten
minutes with the default timeout, but `HTTPS_CLIENT_TIMEOUT` can be set so high that it is not, and then
`TokenFresh` does not hold. Two payloads, for an object stored by an earlier call. Fairness:
every request ends, since the client has a timeout; the custom libraries are called
without one, so for them `CallsReturn` rests on the library. A token that the server
revokes early is not forgotten until it would have expired.
A service whose test fails is not used again, so the run does not check for deadlock.

### CldyHealth

`Healthy` over `lastSuccessfulNodeCollection` and `lastUploadAttempt`, driven by a
model of the two loops in discrete time: one snapshot per unit, a ticker that keeps
one tick for a busy loop, emissions with the downsampling rule, passes of up to
`MaxPass` units. `nodeStall` and `loopStall` observe the real stalls. Ages saturate
just above the threshold.

Properties: `OnlyStallsAreUnhealthy` (no restart of an agent whose collection
works; `nodeGap` observes that a snapshot failed or came without node stats) and
`StallsReported` (a stall after the first success is reported, also when the
exporter is gone). A collection that never succeeded is not reported: `Healthy`
skips a timestamp that is zero.

`health` uses the real defaults in minutes (upload every 10, threshold 30, sample
every 3, snapshots every minute), three failing emissions, passes of up to 15
minutes, and lets node collection fail in every way. With a sample interval above the
threshold `OnlyStallsAreUnhealthy` does not hold, see the last section but one.

### CldyEmitter

The file-level protocol behind a sample. Emission 1 is `Init`, emission k > 1 an `Emit`
that was not downsampled; emission k creates directory k, so numbers name both
snapshots and directories, and `file[d][f]` is the snapshot a file holds (`Absent`,
or `Torn` when the write failed after `os.Create`). `cur`, `nxt`, `sampleCt`,
`lastEmission` are the fields of the emitter, `todo` and `half` the position inside
`writeStatsData` and `writeMetadata`, whose order over nodes and kinds of objects is
arbitrary. Every write can fail, before or after the file was created (`PutFails`,
`GiveUp`); a panic inside Emit, which the exporter recovers, ends in the same states.
Each stats or baseline write may find the disk full and run
`ClearOldScratchSamples` first (`Clearings`), with deletions that may fail. A
directory's modification time moves when an entry is added, not when a file is
overwritten. The uploader removes packed directories at any time (`Packed`);
`CldyUploader` models that side, with the sample as one unit.

Properties: `HandedWhole` (a sample is one snapshot, whatever earlier attempts left in
its directory; files of nodes that only an earlier attempt knew may remain, the
property does not exclude them), `Contiguous` (its baseline is the end of the sample
before it), `ChainUnbroken` (no directory made current is skipped), `HandedOnDisk` and
`HandedFrozen` (what is handed over exists, and is not written again), `CurrentSurvives`
(the purge spares the directory of a working agent), `OnPlan` (downsampling neither
runs ahead of the plan nor falls behind it by more than the missed rounds; it does
allow bursts after a pause, which the comment of `shouldDownsample` does not mention; a round
takes a whole interval here, so the time a round itself takes counts as missed rounds).
Together `CurrentSurvives` and `HandedOnDisk` also say what happens after an outage of
more than an hour with a full disk: the directory goes, no later Emit can succeed, and
since the node stats still arrive the health check does not notice.

Run: `emitter` has two nodes, one kind of objects besides the agent file, Init and three
emissions over seven rounds (two complete hand-overs after a failing one), an emission interval of two
exporter rounds, an "hour" of three, and one failing call. That is enough for a purge
of the current directory, a failing Init with a hand-over after it, and a retry into a
directory that already holds files. The exporter can always wait, so the deadlock check
looks for an emission that neither goes on nor fails.

## What is proved, what is only checked

| Theorem | Module | States |
|---|---|---|
| `TypeCorrect` | `CldyUploaderProofs`, `ExporterProofs`, `SnapshotWindowsProofs`, `CldyEmitterProofs`, `CldyHealthProofs`, `ClusterSnapshotProofs` | `TypeOK` |
| `KubecostTypeCorrect` | `KubecostMetricsProofs` | `KTypeOK` |
| `KubecostRefinesProvider` | `KubecostMetricsProofs` | every `KSpec` behaviour is one of `SnapshotWindows!Spec` |
| `KubecostTwoWindowRule`, `KubecostOmitsNothing` | `KubecostMetricsProofs` | `ClosedWindowsComplete`, `UndisturbedComplete` under `KSpec` |
| `AnswersAlwaysSound`, `AdaptersAlwaysInStep` | `KubecostMetricsProofs` | `AnswersSound`, `AdaptersInStep` |
| `AdapterHoldsNewest`, `LastClosedWindowServed` | `KubecostMetricsProofs` | `HoldsNewest`, `LastClosedServed` |
| `SummaryNeverStale`, `KubecostNeverStale` | `SnapshotWindowsProofs`, `KubecostMetricsProofs` | `BoundedStaleness` |
| `QueueAlwaysSound` | `CldyUploaderProofs` | `QueueSound` under `ClockMovesOn` |
| `EverySampleAccounted` | `CldyUploaderProofs` | `Accounted` under `ClockMovesOn` |
| `FlatLosesNothing` | `CldyUploaderProofs` | `NoSilentLoss` under `ClockMovesOn` when `Nested` is false |
| `SamplesDeliveredOnce`, `NothingEverForgotten` | `CldyUploaderProofs` | `DeliveredOnce`, `NothingForgotten`, under `ClockMovesOn` |
| `FlatImplementsDelivery` | `CldyUploaderProofs` | `ImplementsDelivery` under `ClockMovesOn` when `Nested` is false: every step of the uploader is one of `SampleDelivery` or none |
| `AlwaysOneAtATime`, `StopAlwaysCancels`, `AtMostOneLateRound` | `ExporterProofs` | `OneAtATime`, `StopCancels`, `OneLateRound` |
| `TwoWindowRule` | `SnapshotWindowsProofs` | `ClosedWindowsComplete` |
| `UndisturbedOmitsNothing` | `SnapshotWindowsProofs` | `UndisturbedComplete` |
| `SamplesWhole` | `CldyEmitterProofs` | `HandedWhole` |
| `SamplesContiguous` | `CldyEmitterProofs` | `Contiguous`, `ChainUnbroken` |
| `SamplesFrozen`, `SamplesOnDisk` | `CldyEmitterProofs` | `HandedFrozen`, `HandedOnDisk` |
| `EmissionsOnPlan`, `CurrentDirectorySurvives` | `CldyEmitterProofs` | `OnPlan`, `CurrentSurvives` |
| `NodeStallsReported` | `CldyHealthProofs` | `StallsReported` |
| `OnlyStalls` | `CldyHealthProofs` | `OnlyStallsAreUnhealthy` under `EmissionsKeepUp` |
| `PodsAccounted` | `ClusterSnapshotProofs` | `ShortPodsAccounted` |
| `StatsAlwaysComplete`, `NoEmptyStats` | `ClusterSnapshotProofs` | `StatsAccountForNodes`, `StatsUnlessNoNodes` |
| `UploadTypeCorrect` | `StorageUploadProofs` | `UTypeOK` |
| `CallsCloseEverything` | `StorageUploadProofs` | `NothingLeftOpen` |
| `TokensStayFresh` | `StorageUploadProofs` | `TokenFresh` |
| `UploadImplementsCall` | `StorageUploadProofs` | `ImplementsUploadCall`: every step of a service is one of `UploadCall` or none |

The theorems hold for all sets of samples, tars, runs, emitters and resolutions and
for all bounds, under the modules' named assumptions (`UploaderAssumption`,
`ExporterAssumption`, ...). The inductive invariants:

* *Uploader.* `QueueSound` alone is not inductive: `QueueTar` queues `path`, so
  `PhasesInv` says what is known at every `pc` -- the tar being packed is torn and
  not queued, once closed it is whole and holds `files`, `todo` is what is not in it
  yet. `Accounted` follows because a directory is removed only in `remove`, where
  the whole tar holds it, or by a rule or a failed read that marks the sample. That the
  tar being packed is not queued needs `ClockMovesOn`, which is therefore a conjunct of the
  invariant `IInv` and a hypothesis of every theorem but `TypeCorrect`; without it the
  statements are false.
  The properties of the whole path rest on `BooksInv`: what is in memory at each `pc`
  (`SlotInv`), that a file that is gone holds nothing and a pass works on queued tars
  (`FileInv`), and that only what was handed over is ever packed (`HandedInv`). On top of
  it `OnceInv` says that without faults and crashes the pending samples, the tar being
  packed and the queued tars are disjoint, and `KnownInv` that a quiet loop knows every
  sample still to be delivered; for the latter, `QuietWalkInv` follows the recovery,
  which leaves no sample directory behind.
* *Refinement of `SampleDelivery`.* `Copy` is what `status` counts as held. Every step
  only lets copies go (`CopiesOnlyGo`; a failed read of the recovery, too), which is a
  discard or a stutter of the abstract
  specification, or is one of five `Moves`: a sample is opened, handed over, found
  complete by the recovery, or its tar accepted, with or without the answer. That the
  tar becoming whole adds no copy is why `status` counts the tar being packed.
  `Nested` must be false: the wipe of the nested recovery walk is no step of the
  promise, as `uploader_nested_loss` shows.
* *Exporter.* Exactly one goroutine is in the loop when the run state is `started`
  or `stopping` and somebody is there to reset it, none when it is `idle`; a context
  that is live belongs to the token; `late` is bounded by what is left to emit.
* *Windows.* `LastInv`: a call is later than every call before it and `lastSnapshot` is
  the latest one; `FirstInv`: every time up to it has a first call after it. With them
  `ClosedWindowsComplete` is inductive: the first call after a window's end asks for the
  window of the call before it, which is the last one inside. `GapsInv` adds how far
  calls are apart, `CacheInv` that the cached summary has every resolution and the age
  its time says.

* *Emitter.* `Numbers` orders the directories: one handed over is older than the one
  that followed it, and an emission completes an older directory than the one it made,
  so no write reaches a handed directory or a baseline that was already given out.
  `StatsSoFar`, `ObjectsSoFar` and `BaselinesSoFar` say what is written at each `pc`;
  `Bare` ties `sampleCt = -1` to the directory of a failed Init; `Untouched` says a new
  directory is empty. The properties about time rest on `TimeInv`: `PlanInv` bounds how
  far the clock may be from the time planned for an emission, in tenths of an interval
  as `shouldDownsample` does; `AgeInv` and `NextInv` that a directory is no older than the
  emission that made it; `CountInv` that every emission since then has used up a failing
  call. The age of the directory being filled is therefore bounded by the missed rounds
  and the failing calls, which is `SurvivesInv`.

* *Health.* `StallsReported` follows from `StallInv`, the equality of the age `Healthy`
  computes and the stall that is observed. `OnlyStallsAreUnhealthy` is an argument about
  pace (`SteadyInv`): emissions are an interval apart (`PaceInv`), so as long as no sample
  waits the age of the last attempt is paid for by emissions that failed (`DebtInv`), and
  an attempt older than the last tick is at most that old at the tick (`AttemptInv`).
  It needs `EmissionsKeepUp`: (`MaxEmitFailures` + 1) * `EmissionInterval` +
  `UploadFrequency` <= `restartThreshold`. The code checks no such thing; with its
  defaults (3, 10 and 30 minutes) it allows five failing emissions in a row
  (18 + 10 <= 30), and with six TLC finds an agent that is restarted
  although nothing has stalled, so the hypothesis is no stronger than it has to be.

* *Kubecost.* `KSpec` refines the provider, so its theorems are inherited. `HeldInv` says that
  what is held or under way was handed over; `TurnInv` that the adapters the running Emit
  has not reached serve the snapshot of the metrics adapter, which comes last, and that
  no successful snapshot lies between it and the one being emitted. For `HoldsNewest`,
  `RecordInv` orders the records (a summary, cached or fresh, was seen at one time, not
  before any that was handed over) and `GivenInv` says that the adapter holds the two
  newest windows of all it was given, which is everything handed over but for the
  running Emit. That dropping early and dropping late leave the same windows is
  `MergedNewest`, a lemma about sets of numbers. `LastClosedServed` combines it with
  `ClosedWindowsComplete`: above the closed window only the current one can have been
  handed over, so it is among the two newest.

* *Snapshots.* One part per owner. `CollectInv`: only ready nodes are polled or have a result,
  and the polled ones fit the limiter; with `Collected` it makes a result complete.
  `ProviderInv`: what is recorded is complete, and empty only without ready nodes, because
  a failed collection is not recorded. `PodInv`: only pods the handler has seen are in the
  buffer or beyond, and none is drained before the Kubernetes task of the round has run.
* *Uploads.* `PlaceInv` says which places a call of each kind can be at; `OpenInv` gives
  the exact number of open descriptors and bodies for each of them; `StoreInv`, that every
  PUT carries a whole body, also a repeated one. `TokenFresh` is not inductive: `TokenInv`
  charges each attempt made so far a timeout and a back-off against the buffer, and
  `UploadAssumption` makes the sum of all attempts smaller than the buffer.

Left to TLC: everything under fairness (`Delivered`, `StartReturns`, `KeepsEmitting`,
`SnapshotsEnd`, `CallsReturn`), since liveness and ENABLED are beyond TLAPS, and the three
runs that are expected to fail. `OnlyStallsAreUnhealthy` beyond `EmissionsKeepUp` and
`ImplementsDelivery` in the nested layout do not hold, and without `ClockMovesOn` no property
of the uploader but `TypeOK` is claimed. `NoSilentLoss` is proved for the flat layout; the
nested one keeps `Accounted`.
`UndisturbedComplete`, `ChainUnbroken` and the type invariants `KTypeOK` and `TypeOK` of
`CldyEmitter` and `SnapshotWindows` are proved and have no run of their own.

## Disagreements found

Each is the counterexample of a run that is expected to fail.

| Run | Code | What the documentation or a test says |
|---|---|---|
| `uploader_nested_loss` | recovery removes `scratch/<clusterID>` with complete samples in it | tests: complete samples are recovered. In the trace the first sample has no baseline and would go by rule in either layout; the second is complete, and only the nested walk removes it |
| `exporter_restart` | the old goroutine's deferred Cancel cancels the new context | "It will run until Stop() is called" |
| `kubecost_unfilled` | `QueryServiceLabels` and `GetAllCronJobs` answer from a field and a list that no snapshot fills | the adapter works "with the snapshotted metrics data" |

Six more, read off the models and without a run of their own:

* uploader.go:284: the comment says "last sample was incomplete, need to remove", but a
  `ReadDir`, open or read that fails inside a complete sample also leads here; the sample is
  removed and the error overwritten by that of `RemoveAll`. Likewise line 352 logs
  "Discarding incomplete upload" for a whole tar that could not be read. `WalkMisread` and
  `RecoverUploads` do what the code does, and `NoSilentLoss` says that nothing beyond
  `unread` is lost.
* uploader.go:473: nothing keeps two tars from having one name, where
  metrics_collector.go:249 relies on "a tar is never rewritten in place". Setting
  `ClockMovesOn` to FALSE, `MaxFaults` and `MaxCrashes` to 0 in `CldyUploader_flat.cfg`, TLC
  violates `QueueSound` and `NoSilentLoss`, each with a trace of 16 states: a tar is queued, its drain is
  abandoned for want of services, and the next tick, within the same second, truncates it.
* uploader.go:443: a tick without a new sample skips the drain, so a recovered sample
  waits for the next one, where line 294 promises the "first upload loop". The order of
  `Tick` and `SkipTick` in `CldyUploader` shows it, and `Delivered` therefore assumes that
  new samples keep coming.
* exporter.go:73: a failing initial snapshot ends the process without `Reset` although
  `Start` returned true; hence the premise `InitialSucceeds` of `StartReturns`.
* snapshot.go:64: `lastSnapshot` moves on although the call failed, so the window that ended
  just before is never queried again, where line 266 wants no data omitted. The cache has
  the same effect. `UndisturbedComplete` excludes both, `ClosedWindowsComplete` says what
  is left.
* uploader.go:446: a skipped tick does not count as an attempt, so an agent whose samples
  come more than 30 minutes apart is restarted while it works. `CldyHealth.cfg` keeps the
  sample interval below the threshold.

## What is not modelled

* The publication of the health checkers (main.go:182): a pointer that is nil and then set.
* The tables of URLs per region, the proxy function, secrets and their files.
* Informers, and the sanitizing of objects field by field (`dynamic.go`); the OpenCost
  source and its pipelines, which are library code.
* Cluster info and cluster map beyond the version an adapter serves.
* Contents: Kubernetes objects, metric values, JSON and gzip formats. A tar is
  torn or whole, a sample full or missing a required file.
* Which objects `convertObj` leaves out of a sample by their age, and a scratch path
  whose `os.Stat` fails although it exists.
* The recovery walk entry by entry: it is modelled by what it does to each sample.
* Configuration reading, HTTP server wiring, version and diagnostics, the
  `bingen-to-json` tool, mocks and end-to-end tests: no state of their own.
* Data races with torn values: the snapshot provider's unlocked fields are shown
  to be used by one goroutine (`OneAtATime`).
