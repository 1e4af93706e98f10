--------------------------- MODULE SnapshotWindows ---------------------------
(***************************************************************************)
(* The metrics side of the snapshot provider (src/pkg/emitter/snapshot.go):*)
(* each SnapshotOf queries the current window of every resolution and, when*)
(* the previous SnapshotOf ran in another window, that window once more, so*)
(* that its last minutes are not lost. With a Prometheus source the metrics*)
(* summary is cached for five minutes.                                     *)
(*                                                                         *)
(* Time is counted in ticks; 0 is Go's zero time and the clock starts at 1.*)
(* A query at time t sees the data of a window up to t. SnapshotOf reads   *)
(* the clock once, on entry, and is one step here: the exporter never runs *)
(* two at once (Exporter!OneAtATime).                                      *)
(***************************************************************************)
EXTENDS Naturals

CONSTANTS
  Resolution,       \* window lengths: 10m (if enabled), 1h and 24h
  UseMetricsCache,  \* SnapshotConfig.UseMetricsCache
  CacheDuration,    \* metricsSummaryCacheDuration
  MaxGap,           \* longest time between two calls of SnapshotOf
  MaxFailures,      \* bound on failing calls
  Horizon           \* bound on time

ASSUME WindowsAssumption ==
  /\ Resolution \subseteq Nat \ {0}
  /\ UseMetricsCache \in BOOLEAN
  /\ CacheDuration \in Nat
  /\ MaxGap \in Nat
  /\ MaxFailures \in Nat
  /\ Horizon \in Nat \ {0}

VARIABLES
  now,
  lastSnapshot,       \* ConcurrentSnapshotProvider.lastSnapshot
  lastMetricsSummary, \* ConcurrentSnapshotProvider.lastMetricsSummary
  metricsSummary,     \* ConcurrentSnapshotProvider.metricsSummary
  failures,
  delivered,          \* observation: metrics snapshots handed to the emitters
  attempts            \* observation: calls of SnapshotOf with their outcome

cacheVars == <<lastMetricsSummary, metricsSummary>>
vars == <<now, lastSnapshot, cacheVars, failures, delivered, attempts>>

\* A window of a resolution, with the time up to which its data was seen.
MetricsSnapshot == [res : Resolution, start : Nat, asOf : Nat]
Attempt == [at : Nat, kind : {"fresh", "cached", "failed"}]

TypeOK ==
  /\ now \in 1..Horizon
  /\ lastSnapshot \in 0..Horizon
  /\ lastMetricsSummary \in 0..Horizon
  /\ metricsSummary \subseteq MetricsSnapshot
  /\ failures \in 0..MaxFailures
  /\ delivered \subseteq MetricsSnapshot
  /\ attempts \subseteq Attempt

Init ==
  /\ now = 1
  /\ lastSnapshot = 0 /\ lastMetricsSummary = 0 /\ metricsSummary = {}
  /\ failures = 0
  /\ delivered = {} /\ attempts = {}

-----------------------------------------------------------------------------
\* time.Time.Truncate
Truncate(t, r) == t - (t % r)

\* Mutant of SnapshotWindowsFor: the current window only.
CurrentWindowOnly(t, last, r) == {Truncate(t, r)}

\* The start of the current window and of the one the last snapshot fell in.
SnapshotWindowsFor(t, last, r) ==
  {Truncate(t, r)} \cup {Truncate(l, r) : l \in {last} \ {0}}

\* snapshotMetricsSummary: one query per window of every resolution.
MetricsSummary(t, last) ==
  UNION {{[res |-> r, start |-> s, asOf |-> t] : s \in SnapshotWindowsFor(t, last, r)}
           : r \in Resolution}

\* Mutant of CacheHit: the cache is never refreshed.
CacheKept == UseMetricsCache /\ lastMetricsSummary # 0

CacheHit ==
  /\ UseMetricsCache
  /\ lastMetricsSummary # 0
  /\ now - lastMetricsSummary < CacheDuration

\* What cachedMetricsSummary returns when no query fails, and what it remembers.
Summary == IF CacheHit THEN metricsSummary ELSE MetricsSummary(now, lastSnapshot)
Remember ==
  IF UseMetricsCache /\ ~CacheHit
    THEN lastMetricsSummary' = now /\ metricsSummary' = Summary
    ELSE UNCHANGED cacheVars

\* Every SnapshotOf is later than the one before, and moves lastSnapshot to its
\* own time whether it succeeds or not.
Snapshot(kind) ==
  /\ now > lastSnapshot
  /\ lastSnapshot' = now
  /\ attempts' = attempts \cup {[at |-> now, kind |-> kind]}
  /\ UNCHANGED now

\* All four tasks succeed.
SnapshotOK ==
  /\ Snapshot(IF CacheHit THEN "cached" ELSE "fresh")
  /\ Remember
  /\ delivered' = delivered \cup Summary
  /\ UNCHANGED failures

Fail == failures < MaxFailures /\ failures' = failures + 1

\* A metrics query fails: nothing is returned and nothing is remembered.
MetricsFail ==
  /\ ~CacheHit
  /\ Fail
  /\ Snapshot("failed")
  /\ UNCHANGED <<cacheVars, delivered>>

\* Cluster info, Kubernetes or node stats fail beside a metrics task that
\* succeeds: the summary is cached, but the snapshot is not returned.
OtherFail ==
  /\ Fail
  /\ Snapshot("failed")
  /\ Remember
  /\ UNCHANGED delivered

Tick ==
  /\ now < Horizon
  /\ lastSnapshot # 0 => now < lastSnapshot + MaxGap
  /\ now' = now + 1
  /\ UNCHANGED <<lastSnapshot, cacheVars, failures, delivered, attempts>>

Next == SnapshotOK \/ MetricsFail \/ OtherFail \/ Tick

Spec == Init /\ [][Next]_vars

-----------------------------------------------------------------------------
WindowStart(r) == {s \in 0..Horizon : s % r = 0}

\* The window that starts at s has been handed over with all its data.
Complete(r, s) ==
  \E d \in delivered : d.res = r /\ d.start = s /\ d.asOf >= s + r

\* The first call of SnapshotOf at or after time t.
FirstFrom(a, t) ==
  a \in attempts /\ a.at >= t /\ \A b \in attempts : b.at >= t => b.at >= a.at

\* The rule behind the second window: if SnapshotOf ran inside a window and the
\* first call after the window's end queried the source and succeeded, the
\* emitters have the whole window, whatever failed or was cached elsewhere and
\* however far the calls are apart.
ClosedWindowsComplete ==
  \A r \in Resolution : \A s \in WindowStart(r) :
    (/\ \E a \in attempts : s <= a.at /\ a.at < s + r
     /\ \E b \in attempts : FirstFrom(b, s + r) /\ b.kind = "fresh")
      => Complete(r, s)

\* "to ensure we do not omit any data over the elapsed time period"
\* (snapshot.go:267): as long as no call failed or was served from the cache, none is
\* omitted of any resolution that is not shorter than the distance of two calls.
UndisturbedComplete ==
  (\A a \in attempts : a.kind = "fresh") =>
    \A r \in Resolution : \A s \in WindowStart(r) :
      (/\ MaxGap <= r
       /\ s + r <= lastSnapshot /\ \E b \in attempts : b.at < s + r)
        => Complete(r, s)

\* Metrics handed over are never older than the cache allows, also when the
\* calls in between failed after or before the cache was filled.
BoundedStaleness ==
  [][\A a \in attempts' \ attempts :
       a.kind # "failed" =>
         \A r \in Resolution :
           \E d \in delivered' : /\ d.res = r
                                 /\ d.asOf <= a.at
                                 /\ a.at < d.asOf + CacheDuration \/ d.asOf = a.at]_vars
=============================================================================
