--------------------------- MODULE CldyHealthProofs ---------------------------
(***************************************************************************)
(* Proofs about the liveness endpoint: type correctness, that a stall of   *)
(* the node-stats collection is reported, and that an agent with node      *)
(* stats in every snapshot is unhealthy only when its upload loop stalls.  *)
(*                                                                         *)
(* The last one is an argument about time. lastUploadAttempt moves only on *)
(* a tick with a sample to upload, so a tick without one lets the age grow *)
(* while the loop runs. How long that can go on is bounded by the pace of  *)
(* the emissions (PaceInv): an interval of time passes for every emission, *)
(* and the emissions since the last attempt have all failed (DebtInv).     *)
(***************************************************************************)
EXTENDS CldyHealth, TLAPS

\* Longest time without a sample after an upload attempt.
DryTime == (MaxEmitFailures + 1) * EmissionInterval

\* The emissions that may fail in a row, and one interval between two ticks,
\* fit into the threshold: 12 + 10 of 30 minutes with the defaults.
EmissionsKeepUp == DryTime + UploadFrequency <= restartThreshold

-----------------------------------------------------------------------------
\* Both ages of the node stats run alike.
StallInv == nodeAge = nodeStall

\* After a tick was taken, none waits before the ticker fires again.
TimerInv == ~ticked => loopStall <= timer

\* An exporter with node stats in every snapshot runs, and its node stats are at
\* most a unit old.
NodesInv ==
  /\ exporter # "dead"
  /\ exporter = "starting" => /\ ~snapped /\ ~nodeSeen /\ ~uploadSeen
                              /\ ~pending /\ sinceEmission = 0
  /\ nodeAge \in {0, 1} /\ (snapped => nodeAge = 0)

\* shouldDownsample keeps the emissions an interval apart, within 10%.
PaceInv ==
  /\ 0 - EmissionInterval < 10 * sinceEmission
  /\ 10 * sinceEmission <= 9 * EmissionInterval + 10
  /\ snapped => shouldDownsample

\* While no sample waits, every interval since the last attempt has had an
\* emission that failed.
DebtInv ==
  uploadSeen /\ ~pending =>
    10 * uploadAge < 10 * sinceEmission + 10 * (EmissionInterval * emitFailures)
                       + EmissionInterval

\* An attempt older than the last tick: that tick found no sample, DryTime after
\* the attempt at the latest, and the next one comes in time.
AttemptInv ==
  uploadSeen =>
    /\ loopStall <= uploadAge
    /\ loopStall < uploadAge => /\ busy = 0
                                /\ uploadAge <= DryTime + loopStall
                                /\ ticked => loopStall <= UploadFrequency

Steady == NodesInv /\ PaceInv /\ DebtInv /\ AttemptInv

SteadyInv == ~nodeGap => Steady

IInv == TypeOK /\ StallInv /\ TimerInv /\ SteadyInv
-----------------------------------------------------------------------------
\* The ticker fires again after UploadFrequency - 1, and not before.
LEMMA NextTimer ==
  ASSUME NEW n \in Nat \ {0}, NEW t \in 0..(n - 1)
  PROVE  (t + 1) % n = IF t + 1 = n THEN 0 ELSE t + 1
<1>1. CASE t + 1 = n
  BY <1>1
<1>2. CASE t + 1 # n
  BY <1>2
<1> QED
  BY <1>1, <1>2

\* A failed emission adds an interval, and the failures are bounded.
LEMMA Intervals ==
  /\ restartThreshold \in Nat /\ Cap \in Nat /\ Cap = restartThreshold + 1
  /\ restartThreshold > 0
  /\ DryTime \in Nat
  /\ \A n \in 0..MaxEmitFailures :
       /\ EmissionInterval * n \in Nat
       /\ EmissionInterval * (n + 1) = EmissionInterval * n + EmissionInterval
       /\ EmissionInterval * n <= DryTime - EmissionInterval
<1> USE HealthAssumption DEF HealthAssumption
<1>1. restartThreshold \in Nat /\ restartThreshold > 0
  BY DEF restartThreshold
<1>2. ASSUME NEW n \in 0..MaxEmitFailures
      PROVE  /\ EmissionInterval * n \in Nat
             /\ EmissionInterval * (n + 1) = EmissionInterval * n + EmissionInterval
             /\ EmissionInterval * n <= EmissionInterval * MaxEmitFailures
  <2>1. EmissionInterval * (MaxEmitFailures - n) \in Nat
    OBVIOUS
  <2> QED
    BY <2>1
<1>3. DryTime = EmissionInterval * MaxEmitFailures + EmissionInterval
  BY DEF DryTime
<1> QED
  BY <1>1, <1>2, <1>3 DEF Cap

-----------------------------------------------------------------------------
\* TypeOK in two parts, the flags and the times.
Flags ==
  /\ exporter \in {"starting", "running", "dead"}
  /\ snapped \in BOOLEAN /\ pending \in BOOLEAN /\ ticked \in BOOLEAN
  /\ nodeSeen \in BOOLEAN /\ uploadSeen \in BOOLEAN /\ nodeGap \in BOOLEAN

Times ==
  /\ nodeAge \in 0..Cap /\ uploadAge \in 0..Cap
  /\ nodeStall \in 0..Cap /\ loopStall \in 0..Cap
  /\ sinceEmission \in (0 - EmissionInterval)..(2 * EmissionInterval)
  /\ timer \in 0..(UploadFrequency - 1)
  /\ busy \in 0..MaxPass
  /\ emitFailures \in 0..MaxEmitFailures

LEMMA TypeParts == TypeOK <=> Flags /\ Times
  BY DEF TypeOK, Flags, Times

LEMMA FlagsStep == Flags /\ [Next]_vars => Flags'
<1> SUFFICES ASSUME Flags, [Next]_vars PROVE Flags'
  OBVIOUS
<1> USE HealthAssumption DEF HealthAssumption, Flags, nodeVars, exportVars, emitVars,
           uploadVars
<1>1. CASE Initialize
  BY <1>1, Zenon DEF Initialize, recordNodeStats, Collected, Stats
<1>2. CASE Snapshot
  BY <1>2, Zenon DEF Snapshot, recordNodeStats, Collected, Stats
<1>3. CASE SnapshotFails \/ TakeTick \/ UNCHANGED vars
  BY <1>3, Zenon DEF SnapshotFails, TakeTick, vars
<1>4. CASE Clock \/ Restart
  BY <1>4, Zenon DEF Clock, Restart
<1> QED
  BY <1>1, <1>2, <1>3, <1>4 DEF Next

LEMMA TimesStep == Times /\ [Next]_vars => Times'
<1> SUFFICES ASSUME Times, [Next]_vars PROVE Times'
  OBVIOUS
<1> Cap \in Nat \ {0}
  BY Intervals
<1> USE HealthAssumption DEF HealthAssumption, Times, nodeVars, exportVars, emitVars,
           uploadVars
<1>1. CASE Initialize
  <2>1. /\ nodeAge' \in {0, nodeAge} /\ nodeStall' \in {0, nodeStall}
        /\ UNCHANGED <<emitVars, uploadVars>>
    BY <1>1, Zenon DEF Initialize, recordNodeStats, Collected
  <2> QED
    BY <2>1
<1>2. CASE Snapshot
  <2>1. /\ nodeAge' \in {0, nodeAge} /\ nodeStall' \in {0, nodeStall}
        /\ UNCHANGED uploadVars
        /\ \/ UNCHANGED emitVars
           \/ /\ ~shouldDownsample
              /\ sinceEmission' = sinceEmission - EmissionInterval
              /\ \/ UNCHANGED emitFailures
                 \/ /\ emitFailures < MaxEmitFailures
                    /\ emitFailures' = emitFailures + 1
    BY <1>2, Zenon DEF Snapshot, recordNodeStats, Collected
  <2> QED
    BY <2>1 DEF shouldDownsample
<1>3. CASE SnapshotFails \/ UNCHANGED vars
  BY <1>3 DEF SnapshotFails, vars
<1>4. CASE TakeTick
  <2>1. /\ busy' \in {busy} \cup 0..MaxPass /\ uploadAge' \in {0, uploadAge}
        /\ loopStall' = 0
        /\ UNCHANGED <<nodeAge, nodeStall, emitVars, timer>>
    BY <1>4, Zenon DEF TakeTick
  <2> QED
    BY <2>1
<1>5. CASE Clock
  <2>1. /\ nodeAge' = Older(nodeAge) /\ uploadAge' = Older(uploadAge)
        /\ nodeStall' = Older(nodeStall) /\ loopStall' = Older(loopStall)
        /\ sinceEmission' = IF sinceEmission < 2 * EmissionInterval
                              THEN sinceEmission + 1 ELSE sinceEmission
        /\ busy' = IF busy > 0 THEN busy - 1 ELSE 0
        /\ timer' = (timer + 1) % UploadFrequency
        /\ UNCHANGED emitFailures
    BY <1>5, Zenon DEF Clock
  <2> QED
    BY <2>1, NextTimer DEF Older
<1>6. CASE Restart
  <2>1. /\ nodeAge' = 0 /\ nodeStall' = 0 /\ sinceEmission' = 0 /\ timer' = 0
        /\ busy' = 0 /\ uploadAge' = 0 /\ loopStall' = 0
        /\ UNCHANGED emitFailures
    BY <1>6, Zenon DEF Restart
  <2> QED
    BY <2>1
<1> QED
  BY <1>1, <1>2, <1>3, <1>4, <1>5, <1>6 DEF Next

LEMMA StallStep == StallInv /\ [Next]_vars => StallInv'
<1> SUFFICES ASSUME StallInv, [Next]_vars PROVE StallInv'
  OBVIOUS
<1> USE DEF StallInv, nodeVars, exportVars
<1>1. CASE Initialize \/ Snapshot
  <2>1. \/ UNCHANGED <<nodeAge, nodeStall>>
        \/ \E stats \in Stats : recordNodeStats(stats) /\ Collected(stats)
    BY <1>1, Zenon DEF Initialize, Snapshot
  <2>2. ASSUME NEW stats \in Stats, recordNodeStats(stats), Collected(stats)
        PROVE  StallInv'
    <3>1. /\ nodeAge' = IF stats THEN 0 ELSE nodeAge
          /\ nodeStall' = IF stats THEN 0 ELSE nodeStall
      BY <2>2 DEF recordNodeStats, Collected
    <3> QED
      BY <3>1, Zenon
  <2> QED
    BY <2>1, <2>2
<1>2. CASE SnapshotFails \/ TakeTick \/ UNCHANGED vars
  BY <1>2, Zenon DEF SnapshotFails, TakeTick, vars
<1>3. CASE Clock \/ Restart
  BY <1>3, Zenon DEF Clock, Restart
<1> QED
  BY <1>1, <1>2, <1>3 DEF Next

LEMMA TimerStep == Times /\ TimerInv /\ [Next]_vars => TimerInv'
<1> SUFFICES ASSUME Times, TimerInv, [Next]_vars PROVE TimerInv'
  OBVIOUS
<1> Cap \in Nat \ {0}
  BY Intervals
<1> USE HealthAssumption DEF HealthAssumption, Times, TimerInv, uploadVars
<1>1. CASE Initialize \/ Snapshot \/ SnapshotFails \/ UNCHANGED vars
  BY <1>1, Zenon DEF Initialize, Snapshot, SnapshotFails, vars
<1>2. CASE TakeTick \/ Restart
  <2>1. loopStall' = 0 /\ (timer' = timer \/ timer' = 0)
    BY <1>2, Zenon DEF TakeTick, Restart
  <2> QED
    BY <2>1
<1>3. CASE Clock
  <2>1. SUFFICES ASSUME ~ticked' PROVE loopStall' <= timer'
    OBVIOUS
  <2>2. /\ ~ticked /\ timer' # 0
        /\ loopStall' = Older(loopStall) /\ timer' = (timer + 1) % UploadFrequency
    BY <1>3, <2>1, Zenon DEF Clock
  <2>3. loopStall <= timer
    BY <2>2
  <2> QED
    BY <2>2, <2>3, NextTimer DEF Older
<1> QED
  BY <1>1, <1>2, <1>3 DEF Next
-----------------------------------------------------------------------------
\* The initial snapshot, with node stats.
LEMMA InitializeSteady ==
  ASSUME Times, Steady, Initialize, ~nodeGap'
  PROVE  Steady'
<1>1. /\ exporter = "starting" /\ exporter' = "running"
      /\ nodeAge' = 0 /\ snapped'
      /\ UNCHANGED <<emitVars, pending, uploadVars>>
  BY Zenon DEF Initialize, recordNodeStats, Collected
<1>2. NodesInv'
  BY <1>1, Zenon DEF NodesInv
<1>3. sinceEmission' = 0 /\ ~uploadSeen'
  BY <1>1, Zenon DEF Steady, NodesInv, emitVars, uploadVars
<1>4. PaceInv'
  BY <1>1, <1>3, HealthAssumption DEF PaceInv, HealthAssumption, shouldDownsample
<1> QED
  BY <1>2, <1>3, <1>4, Zenon DEF Steady, DebtInv, AttemptInv

\* A snapshot with node stats, whether it is emitted, fails to be, or is not due.
LEMMA SnapshotSteady ==
  ASSUME Times, Steady, Snapshot, ~nodeGap'
  PROVE  Steady'
<1>1. /\ exporter' = "running" /\ nodeAge' = 0 /\ ~snapped /\ snapped'
      /\ UNCHANGED uploadVars
  BY Zenon DEF Snapshot, recordNodeStats, Collected
<1>2. NodesInv'
  BY <1>1, Zenon DEF NodesInv
<1>3. AttemptInv'
  BY <1>1, Zenon DEF Steady, AttemptInv, uploadVars
<1>4. CASE shouldDownsample
  <2>1. UNCHANGED <<emitVars, pending>>
    BY <1>4, Zenon DEF Snapshot
  <2>2. DebtInv'
    BY <1>1, <2>1, Zenon DEF Steady, DebtInv, emitVars, uploadVars
  <2>3. PaceInv'
    BY <1>4, <2>1, Zenon DEF Steady, PaceInv, emitVars, shouldDownsample
  <2> QED
    BY <1>2, <1>3, <2>2, <2>3, Zenon DEF Steady
<1>5. CASE ~shouldDownsample
  <2>1. /\ sinceEmission' = sinceEmission - EmissionInterval
        /\ \/ pending'
           \/ /\ emitFailures < MaxEmitFailures
              /\ emitFailures' = emitFailures + 1
              /\ pending' = pending
    BY <1>5, Zenon DEF Snapshot
  <2>2. PaceInv'
    BY <1>1, <1>5, <2>1, HealthAssumption
    DEF Steady, PaceInv, shouldDownsample, HealthAssumption, Times
  <2>3. DebtInv'
    <3>1. SUFFICES ASSUME uploadSeen', ~pending'
                   PROVE  10 * uploadAge' < 10 * sinceEmission'
                            + 10 * (EmissionInterval * emitFailures')
                            + EmissionInterval
      BY Zenon DEF DebtInv
    <3>2. /\ emitFailures' = emitFailures + 1 /\ ~pending
          /\ uploadSeen /\ uploadAge' = uploadAge
      BY <1>1, <2>1, <3>1 DEF uploadVars
    <3>3. 10 * uploadAge < 10 * sinceEmission + 10 * (EmissionInterval * emitFailures)
                             + EmissionInterval
      BY <3>2, Zenon DEF Steady, DebtInv
    <3>4. EmissionInterval * emitFailures'
            = EmissionInterval * emitFailures + EmissionInterval
      BY <3>2, Intervals DEF Times
    <3>5. EmissionInterval * emitFailures \in Nat
      BY Intervals DEF Times
    <3> QED
      BY <2>1, <3>2, <3>3, <3>4, <3>5, HealthAssumption DEF HealthAssumption, Times
  <2> QED
    BY <1>2, <1>3, <2>2, <2>3, Zenon DEF Steady
<1> QED
  BY <1>4, <1>5

\* A tick with a sample is an attempt. One without comes DryTime after the last
\* attempt at the latest.
LEMMA TakeTickSteady ==
  ASSUME Times, Flags, Steady, TakeTick, ~nodeGap
  PROVE  Steady'
<1>1. /\ busy = 0 /\ ~ticked' /\ loopStall' = 0
      /\ UNCHANGED <<exporter, snapped, nodeSeen, nodeAge, sinceEmission, emitFailures>>
  BY Zenon DEF TakeTick, exportVars, nodeVars, emitVars
<1>2. PaceInv'
  BY <1>1, Zenon DEF Steady, PaceInv, shouldDownsample
<1>3. CASE pending
  <2>1. uploadAge' = 0
    BY <1>3, Zenon DEF TakeTick
  <2>2. NodesInv'
    BY <1>1, <1>3, Zenon DEF Steady, NodesInv
  <2>3. DebtInv'
    <3>1. EmissionInterval * emitFailures \in Nat
      BY Intervals DEF Times
    <3>2. 0 < 10 * sinceEmission + 10 * (EmissionInterval * emitFailures)
                + EmissionInterval
      BY <3>1, HealthAssumption DEF Steady, PaceInv, HealthAssumption, Times
    <3> QED
      BY <1>1, <2>1, <3>2 DEF DebtInv
  <2>4. AttemptInv'
    BY <1>1, <2>1 DEF AttemptInv
  <2> QED
    BY <1>2, <2>2, <2>3, <2>4, Zenon DEF Steady
<1>4. CASE ~pending
  <2>1. UNCHANGED <<busy, pending, uploadSeen, uploadAge>>
    BY <1>4, Zenon DEF TakeTick
  <2>2. NodesInv'
    BY <1>1, <2>1, Zenon DEF Steady, NodesInv
  <2>3. DebtInv'
    BY <1>1, <2>1, Zenon DEF Steady, DebtInv
  <2>4. ASSUME uploadSeen PROVE uploadAge <= DryTime
    <3>1. 10 * uploadAge < 10 * sinceEmission + 10 * (EmissionInterval * emitFailures)
                             + EmissionInterval
      BY <1>4, <2>4, Zenon DEF Steady, DebtInv
    <3>2. /\ EmissionInterval * emitFailures \in Nat /\ DryTime \in Nat
          /\ EmissionInterval * emitFailures <= DryTime - EmissionInterval
      BY Intervals DEF Times
    <3>3. 10 * sinceEmission <= 9 * EmissionInterval + 10
      BY DEF Steady, PaceInv
    <3> QED
      BY <3>1, <3>2, <3>3, HealthAssumption DEF HealthAssumption, Times
  <2>5. AttemptInv'
    <3>1. SUFFICES ASSUME uploadSeen PROVE /\ 0 <= uploadAge
                                           /\ uploadAge <= DryTime + 0
      BY <1>1, <2>1, Zenon DEF AttemptInv
    <3> QED
      BY <2>4, <3>1, Intervals DEF Times
  <2> QED
    BY <1>2, <2>2, <2>3, <2>5, Zenon DEF Steady
<1> QED
  BY <1>3, <1>4

\* A unit of time.
LEMMA ClockSteady ==
  ASSUME Times, Flags, TimerInv, Steady, Clock, ~nodeGap
  PROVE  Steady'
<1> Cap \in Nat \ {0}
  BY Intervals
<1>1. /\ snapped /\ ~snapped' /\ nodeAge = 0 /\ exporter # "starting"
      /\ UNCHANGED <<exporter, nodeSeen, uploadSeen, emitFailures, pending>>
      /\ nodeAge' = Older(nodeAge) /\ uploadAge' = Older(uploadAge)
      /\ loopStall' = Older(loopStall)
      /\ ~(ticked /\ busy = 0)
      /\ sinceEmission' = IF sinceEmission < 2 * EmissionInterval
                            THEN sinceEmission + 1 ELSE sinceEmission
      /\ busy' = IF busy > 0 THEN busy - 1 ELSE 0
  BY Zenon DEF Clock, Steady, NodesInv
<1>2. nodeAge' = 1
  BY <1>1 DEF Older
<1>3. NodesInv'
  BY <1>1, <1>2, Zenon DEF Steady, NodesInv
<1>4. /\ 0 - EmissionInterval < 10 * sinceEmission
      /\ 10 * sinceEmission <= 9 * EmissionInterval
  BY <1>1, Zenon DEF Steady, PaceInv, shouldDownsample
<1>5. sinceEmission' = sinceEmission + 1
  BY <1>1, <1>4, HealthAssumption DEF HealthAssumption, Times
<1>6. PaceInv'
  <2>1. /\ 0 - EmissionInterval < 10 * sinceEmission'
        /\ 10 * sinceEmission' <= 9 * EmissionInterval + 10
    BY <1>4, <1>5, HealthAssumption DEF HealthAssumption, Times
  <2> QED
    BY <1>1, <2>1, Zenon DEF PaceInv
<1>7. DebtInv'
  <2>1. SUFFICES ASSUME uploadSeen', ~pending'
                 PROVE  10 * uploadAge' < 10 * sinceEmission'
                          + 10 * (EmissionInterval * emitFailures')
                          + EmissionInterval
    BY Zenon DEF DebtInv
  <2>2. uploadSeen /\ ~pending
    BY <1>1, <2>1
  <2>3. 10 * uploadAge < 10 * sinceEmission + 10 * (EmissionInterval * emitFailures)
                           + EmissionInterval
    BY <2>2, Zenon DEF Steady, DebtInv
  <2>4. /\ EmissionInterval * emitFailures \in Nat
        /\ EmissionInterval * emitFailures' = EmissionInterval * emitFailures
    BY <1>1, Intervals DEF Times
  <2>5. uploadAge' <= uploadAge + 1 /\ uploadAge' \in Int
    BY <1>1 DEF Older, Times
  <2> QED
    BY <1>5, <2>3, <2>4, <2>5, HealthAssumption DEF HealthAssumption, Times
<1>8. AttemptInv'
  <2>1. SUFFICES ASSUME uploadSeen'
                 PROVE  /\ loopStall' <= uploadAge'
                        /\ loopStall' < uploadAge' =>
                             /\ busy' = 0
                             /\ uploadAge' <= DryTime + loopStall'
                             /\ loopStall' <= UploadFrequency
    BY Zenon DEF AttemptInv
  <2>2. /\ loopStall <= uploadAge
        /\ loopStall < uploadAge => busy = 0 /\ uploadAge <= DryTime + loopStall
    BY <1>1, <2>1, Zenon DEF Steady, AttemptInv
  <2>3. loopStall' <= uploadAge'
    BY <1>1, <2>2 DEF Older, Times
  <2>4. ASSUME loopStall' < uploadAge'
        PROVE  /\ busy' = 0
               /\ uploadAge' <= DryTime + loopStall'
               /\ loopStall' <= UploadFrequency
    <3>1. loopStall < uploadAge
      BY <1>1, <2>2, <2>4 DEF Older, Times
    <3>2. busy = 0 /\ uploadAge <= DryTime + loopStall
      BY <2>2, <3>1
    <3>3. loopStall <= timer
      BY <1>1, <3>2, Zenon DEF TimerInv
    <3> QED
      BY <1>1, <3>1, <3>2, <3>3, HealthAssumption, Intervals
      DEF Older, Times, HealthAssumption
  <2> QED
    BY <2>3, <2>4
<1> QED
  BY <1>3, <1>6, <1>7, <1>8, Zenon DEF Steady

LEMMA SteadyStep ==
  ASSUME Times, Flags, TimerInv, SteadyInv, [Next]_vars
  PROVE  SteadyInv'
<1> SUFFICES ASSUME ~nodeGap' PROVE Steady'
  BY DEF SteadyInv
<1>1. CASE Restart
  <2>1. /\ exporter' = "starting" /\ ~snapped' /\ ~nodeSeen' /\ ~uploadSeen'
        /\ ~pending' /\ nodeAge' = 0 /\ sinceEmission' = 0
    BY <1>1, Zenon DEF Restart
  <2>2. NodesInv' /\ DebtInv' /\ AttemptInv'
    BY <2>1, Zenon DEF NodesInv, DebtInv, AttemptInv
  <2>3. PaceInv'
    BY <2>1, HealthAssumption DEF PaceInv, shouldDownsample, HealthAssumption
  <2> QED
    BY <2>2, <2>3 DEF Steady
<1>2. CASE ~Restart
  <2>1. ~nodeGap
    BY <1>2, Zenon DEF Next, Initialize, Snapshot, SnapshotFails, TakeTick, Clock, vars,
                       Collected, exportVars, nodeVars
  <2>2. Steady
    BY <2>1 DEF SteadyInv
  <2>3. CASE SnapshotFails
    BY <2>3, Zenon DEF SnapshotFails
  <2>4. CASE UNCHANGED vars
    BY <2>2, <2>4, Zenon
    DEF Steady, NodesInv, PaceInv, DebtInv, AttemptInv, shouldDownsample, vars,
        exportVars, nodeVars, emitVars, uploadVars
  <2> QED
    BY <1>2, <2>1, <2>2, <2>3, <2>4, InitializeSteady, SnapshotSteady, TakeTickSteady,
       ClockSteady DEF Next
<1> QED
  BY <1>1, <1>2

-----------------------------------------------------------------------------
LEMMA Initially == Init => IInv
<1> SUFFICES ASSUME Init PROVE IInv
  OBVIOUS
<1>1. Flags
  BY Zenon DEF Init, Flags
<1>2. Times
  BY HealthAssumption, Intervals DEF Init, Times, HealthAssumption
<1>3. StallInv /\ TimerInv
  BY DEF Init, StallInv, TimerInv
<1>4. SteadyInv
  <2>1. NodesInv /\ DebtInv /\ AttemptInv
    BY Zenon DEF Init, NodesInv, DebtInv, AttemptInv
  <2>2. PaceInv
    BY HealthAssumption DEF Init, PaceInv, shouldDownsample, HealthAssumption
  <2> QED
    BY <2>1, <2>2 DEF SteadyInv, Steady
<1> QED
  BY <1>1, <1>2, <1>3, <1>4, TypeParts DEF IInv

LEMMA Inductive == Spec => []IInv
<1>1. IInv /\ [Next]_vars => IInv'
  <2> SUFFICES ASSUME IInv, [Next]_vars PROVE IInv'
    OBVIOUS
  <2>1. Flags /\ Times /\ StallInv /\ TimerInv /\ SteadyInv
    BY TypeParts DEF IInv
  <2>2. (Flags /\ Times)' => TypeOK'
    BY DEF TypeOK, Flags, Times
  <2> QED
    BY <2>1, <2>2, FlagsStep, TimesStep, StallStep, TimerStep, SteadyStep DEF IInv
<1> QED
  BY Initially, <1>1, PTL DEF Spec

\* The types of CldyHealth: in particular, lastEmission never runs more than an
\* interval ahead of the clock (shouldDownsample, Emit).
THEOREM TypeCorrect == Spec => []TypeOK
<1>1. IInv => TypeOK
  BY DEF IInv
<1> QED
  BY <1>1, Inductive, PTL

\* Once node stats were collected, a stall beyond the threshold makes Healthy
\* fail, for whatever reason the collection stopped (recordNodeStats).
THEOREM NodeStallsReported == Spec => []StallsReported
<1>1. IInv => StallsReported
  <2> SUFFICES ASSUME IInv, nodeSeen, nodeStall > restartThreshold
               PROVE  ~Healthy
    BY DEF StallsReported
  <2> QED
    BY Intervals DEF IInv, TypeOK, StallInv, Healthy
<1> QED
  BY <1>1, Inductive, PTL

\* An agent whose every snapshot has node stats is unhealthy only if its upload
\* loop has not taken a tick for longer than the threshold -- as long as the
\* emissions that may fail fit into the threshold (Healthy, uploadLoop, Emit).
THEOREM OnlyStalls ==
  ASSUME EmissionsKeepUp
  PROVE  Spec => []OnlyStallsAreUnhealthy
<1>1. IInv => OnlyStallsAreUnhealthy
  <2>1. SUFFICES ASSUME IInv, ~Healthy, ~nodeGap
                 PROVE  loopStall > restartThreshold
    BY DEF OnlyStallsAreUnhealthy
  <2>2. Times /\ TimerInv /\ NodesInv /\ AttemptInv
    BY <2>1, TypeParts DEF IInv, SteadyInv, Steady
  <2>3. nodeAge <= restartThreshold
    BY <2>2, Intervals DEF NodesInv
  <2>4. uploadSeen /\ ~(uploadAge <= restartThreshold)
    BY <2>1, <2>3, Zenon DEF Healthy
  <2>5. /\ loopStall <= uploadAge
        /\ loopStall < uploadAge => /\ uploadAge <= DryTime + loopStall
                                    /\ ticked => loopStall <= UploadFrequency
    BY <2>2, <2>4, Zenon DEF AttemptInv
  <2>6. CASE loopStall = uploadAge
    BY <2>2, <2>4, <2>6, Intervals DEF Times
  <2>7. CASE loopStall # uploadAge
    <3>1. loopStall < uploadAge
      BY <2>2, <2>5, <2>7, Intervals DEF Times
    <3>2. loopStall <= timer \/ loopStall <= UploadFrequency
      BY <2>2, <2>5, <3>1, Zenon DEF TimerInv
    <3> QED
      BY <2>2, <2>4, <2>5, <3>1, <3>2, EmissionsKeepUp, HealthAssumption, Intervals
      DEF EmissionsKeepUp, Times, HealthAssumption
  <2> QED
    BY <2>6, <2>7
<1> QED
  BY <1>1, Inductive, PTL
=============================================================================
