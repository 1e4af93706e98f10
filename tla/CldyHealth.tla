------------------------------ MODULE CldyHealth ------------------------------
(***************************************************************************)
(* The liveness endpoint of the agent: Emitter.Healthy (src/cldy/          *)
(* emitter.go) over the two timestamps it reads, with the two loops that   *)
(* write them -- the exporter's snapshots and the upload loop's ticks --   *)
(* and the restart the endpoint causes.                                    *)
(*                                                                         *)
(* Time is discrete (one unit is minutes). The exporter takes one          *)
(* snapshot per unit; time.Tick fires every UploadFrequency units and      *)
(* keeps at most one tick for a busy loop. Durations saturate at Cap, just *)
(* above the threshold, since nothing distinguishes longer ones.           *)
(***************************************************************************)
EXTENDS Integers

CONSTANTS
  UploadFrequency,      \* UploadFrequencyDuration
  MaxStaleUploadCycles,
  EmissionInterval,
  MaxPass,              \* longest payload construction and drain of a tick
  MaxEmitFailures,      \* bound on failing emissions
  NodesMayFail          \* may node-stats collection fail for every node?

ASSUME HealthAssumption ==
  /\ UploadFrequency \in Nat \ {0}
  /\ MaxStaleUploadCycles \in Nat \ {0}
  /\ EmissionInterval \in Nat \ {0}
  /\ MaxPass \in Nat
  /\ MaxEmitFailures \in Nat
  /\ NodesMayFail \in BOOLEAN

restartThreshold == MaxStaleUploadCycles * UploadFrequency
Cap == restartThreshold + 1

VARIABLES
  exporter,     \* "starting", "running", or "dead" (initial snapshot failed)
  snapped,      \* has the exporter taken this unit's snapshot?
  nodeSeen,     \* ~lastSuccessfulNodeCollection.IsZero()
  nodeAge,      \* time since lastSuccessfulNodeCollection
  sinceEmission,\* time since Emitter.lastEmission
  pending,      \* sampleSet is not empty
  timer,        \* time since the ticker fired
  ticked,       \* a tick waits in the ticker's channel
  busy,         \* remaining time of the tick being worked on
  uploadSeen,   \* lastUploadAttemptNano # 0
  uploadAge,    \* time since lastUploadAttempt
  emitFailures,
  nodeStall,    \* observation: time since node stats were last collected
  nodeGap,      \* observation: has a snapshot failed or come without node stats?
  loopStall     \* observation: time since the upload loop last took a tick

nodeVars == <<nodeSeen, nodeAge, nodeStall, nodeGap>>
exportVars == <<exporter, snapped, nodeVars>>
emitVars == <<sinceEmission, emitFailures>>
uploadVars == <<timer, ticked, busy, uploadSeen, uploadAge, loopStall>>
vars == <<exportVars, emitVars, pending, uploadVars>>

TypeOK ==
  /\ exporter \in {"starting", "running", "dead"}
  /\ snapped \in BOOLEAN /\ pending \in BOOLEAN /\ ticked \in BOOLEAN
  /\ nodeSeen \in BOOLEAN /\ uploadSeen \in BOOLEAN /\ nodeGap \in BOOLEAN
  /\ nodeAge \in 0..Cap /\ uploadAge \in 0..Cap
  /\ nodeStall \in 0..Cap /\ loopStall \in 0..Cap
  /\ sinceEmission \in (0 - EmissionInterval)..(2 * EmissionInterval)
  /\ timer \in 0..(UploadFrequency - 1)
  /\ busy \in 0..MaxPass
  /\ emitFailures \in 0..MaxEmitFailures

Init ==
  /\ exporter = "starting" /\ snapped = FALSE
  /\ nodeSeen = FALSE /\ nodeAge = 0 /\ nodeStall = 0 /\ nodeGap = FALSE
  /\ sinceEmission = 0 /\ emitFailures = 0 /\ pending = FALSE
  /\ timer = 0 /\ ticked = FALSE /\ busy = 0
  /\ uploadSeen = FALSE /\ uploadAge = 0 /\ loopStall = 0

-----------------------------------------------------------------------------
\* Both tests skip a timestamp that was never set.
Healthy ==
  /\ nodeSeen => nodeAge <= restartThreshold
  /\ uploadSeen => uploadAge <= restartThreshold

\* Mutant of recordNodeStats: any snapshot counts.
recordAnySnapshot(stats) == nodeSeen' = TRUE /\ nodeAge' = 0

\* Only a snapshot with stats of at least one node moves the timestamp.
recordNodeStats(stats) ==
  /\ nodeSeen' = (nodeSeen \/ stats)
  /\ nodeAge' = IF stats THEN 0 ELSE nodeAge

Collected(stats) ==
  /\ nodeStall' = IF stats THEN 0 ELSE nodeStall
  /\ nodeGap' = (nodeGap \/ ~stats)

\* Stats may be missing without an error, when no node is ready.
Stats == IF NodesMayFail THEN BOOLEAN ELSE {TRUE}

\* The initial snapshot and Emitter.Init. If that snapshot fails, the exporter's
\* goroutine is gone.
Initialize ==
  /\ exporter = "starting"
  /\ snapped' = TRUE
  /\ \/ /\ exporter' = "running"
        /\ \E stats \in Stats : recordNodeStats(stats) /\ Collected(stats)
     \/ /\ NodesMayFail
        /\ exporter' = "dead"
        /\ nodeGap' = TRUE
        /\ UNCHANGED <<nodeSeen, nodeAge, nodeStall>>
  /\ UNCHANGED <<emitVars, pending, uploadVars>>

\* Mutant of shouldDownsample: every snapshot is emitted.
neverDownsample == FALSE

\* shouldDownsample: 90% of the interval must have passed since lastEmission.
shouldDownsample == 10 * sinceEmission <= 9 * EmissionInterval

\* Emit: an emission moves lastEmission by one interval before it can fail.
Snapshot ==
  /\ exporter = "running" /\ ~snapped
  /\ snapped' = TRUE
  /\ \E stats \in Stats : recordNodeStats(stats) /\ Collected(stats)
  /\ IF shouldDownsample
       THEN UNCHANGED <<emitVars, pending>>
       ELSE /\ sinceEmission' = sinceEmission - EmissionInterval
            /\ \/ pending' = TRUE /\ UNCHANGED emitFailures
               \/ /\ emitFailures < MaxEmitFailures
                  /\ emitFailures' = emitFailures + 1
                  /\ UNCHANGED pending
  /\ UNCHANGED <<exporter, uploadVars>>

\* Node stats fail for every node: no snapshot, no Emit.
SnapshotFails ==
  /\ exporter = "running" /\ ~snapped
  /\ NodesMayFail
  /\ snapped' = TRUE
  /\ nodeGap' = TRUE
  /\ UNCHANGED <<exporter, nodeSeen, nodeAge, nodeStall, emitVars, pending,
                 uploadVars>>

\* Mutant of TakeTick: the timestamp is set after the pass has succeeded.
TakeTickLate ==
  /\ ticked /\ busy = 0
  /\ ticked' = FALSE /\ loopStall' = 0
  /\ IF pending
       THEN /\ busy' \in 0..MaxPass
            /\ pending' \in BOOLEAN
            /\ uploadSeen' = TRUE
            /\ uploadAge' = IF pending' THEN uploadAge ELSE 0
       ELSE UNCHANGED <<busy, pending, uploadSeen, uploadAge>>
  /\ UNCHANGED <<exportVars, emitVars, timer>>

\* uploadLoop takes a tick. Without a sample it continues at once; with one it
\* records the attempt, packs the samples (or fails to) and drains the queue.
TakeTick ==
  /\ ticked /\ busy = 0
  /\ ticked' = FALSE /\ loopStall' = 0
  /\ IF pending
       THEN /\ uploadSeen' = TRUE /\ uploadAge' = 0
            /\ busy' \in 0..MaxPass
            /\ pending' \in BOOLEAN
       ELSE UNCHANGED <<busy, pending, uploadSeen, uploadAge>>
  /\ UNCHANGED <<exportVars, emitVars, timer>>

Older(d) == IF d < Cap THEN d + 1 ELSE Cap

\* Time passes once nothing is left to do in this unit.
Clock ==
  /\ snapped \/ exporter = "dead"
  /\ ~(ticked /\ busy = 0)
  /\ snapped' = FALSE
  /\ nodeAge' = Older(nodeAge) /\ uploadAge' = Older(uploadAge)
  /\ nodeStall' = Older(nodeStall) /\ loopStall' = Older(loopStall)
  /\ sinceEmission' = IF sinceEmission < 2 * EmissionInterval
                        THEN sinceEmission + 1 ELSE sinceEmission
  /\ busy' = IF busy > 0 THEN busy - 1 ELSE 0
  /\ timer' = (timer + 1) % UploadFrequency
  /\ ticked' = (ticked \/ timer' = 0)
  /\ UNCHANGED <<exporter, nodeSeen, nodeGap, uploadSeen, emitFailures, pending>>

\* The kubelet restarts a container whose probe fails.
Restart ==
  /\ ~Healthy
  /\ exporter' = "starting" /\ snapped' = FALSE
  /\ nodeSeen' = FALSE /\ nodeAge' = 0 /\ nodeStall' = 0 /\ nodeGap' = FALSE
  /\ sinceEmission' = 0 /\ pending' = FALSE
  /\ timer' = 0 /\ ticked' = FALSE /\ busy' = 0
  /\ uploadSeen' = FALSE /\ uploadAge' = 0 /\ loopStall' = 0
  /\ UNCHANGED emitFailures

Next ==
  Initialize \/ Snapshot \/ SnapshotFails \/ TakeTick \/ Clock \/ Restart

Spec == Init /\ [][Next]_vars

-----------------------------------------------------------------------------
\* "Returns false when node-stats collection or the upload loop has stalled"
\* (emitter.go:211): an agent whose every snapshot has node stats is restarted
\* for no other reason. (Shorter gaps of the collection delay the samples, and
\* with them the upload attempts.)
OnlyStallsAreUnhealthy == ~Healthy /\ ~nodeGap => loopStall > restartThreshold

\* Once node stats have been collected, a stall longer than the threshold is
\* reported, whether snapshots fail, come without stats, or the exporter dies.
StallsReported ==
  nodeSeen /\ nodeStall > restartThreshold => ~Healthy
=============================================================================
