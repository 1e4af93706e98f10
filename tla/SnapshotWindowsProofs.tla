------------------------ MODULE SnapshotWindowsProofs ------------------------
(***************************************************************************)
(* What the two-window rule guarantees, for any resolutions, cache,        *)
(* failures and distances between calls (ClosedWindowsComplete), and that  *)
(* nothing is omitted while every call is fresh (UndisturbedComplete).     *)
(***************************************************************************)
EXTENDS SnapshotWindows, TLAPS

\* lastSnapshot is the time of the latest call.
LastInv ==
  /\ lastSnapshot <= now
  /\ \A a \in attempts : a.at <= lastSnapshot
  /\ lastSnapshot # 0 => \E a \in attempts : a.at = lastSnapshot
  /\ attempts # {} => lastSnapshot # 0

\* Up to lastSnapshot, every time has a first call at or after it.
FirstInv == \A t \in Nat : t <= lastSnapshot /\ lastSnapshot # 0
              => \E b \in attempts : FirstFrom(b, t)

IInv == TypeOK /\ LastInv /\ FirstInv /\ ClosedWindowsComplete

\* A time inside a window is truncated to the window's start.
LEMMA TruncateStart ==
  ASSUME NEW r \in Nat \ {0}, NEW s \in Nat, NEW t \in Nat,
         s % r = 0, s <= t, t < s + r
  PROVE  Truncate(t, r) = s
<1> DEFINE p == s \div r
           q == t \div r
<1>1. p \in Nat /\ q \in Nat /\ t % r \in 0..(r - 1)
  OBVIOUS
<1>2. s = r * p
  OBVIOUS
<1>3. t = r * q + (t % r)
  OBVIOUS
<1> HIDE DEF p, q
<1>4. q >= p
  <2>1. SUFFICES ASSUME q <= p - 1 PROVE FALSE
    BY <1>1
  <2>2. r * q <= r * (p - 1)
    BY <1>1, <2>1
  <2>3. r * (p - 1) = r * p - r
    BY <1>1
  <2> QED
    BY <1>1, <1>2, <1>3, <2>2, <2>3
<1>5. q <= p
  <2>1. SUFFICES ASSUME q >= p + 1 PROVE FALSE
    BY <1>1
  <2>2. r * q >= r * (p + 1)
    BY <1>1, <2>1
  <2>3. r * (p + 1) = r * p + r
    BY <1>1
  <2> QED
    BY <1>1, <1>2, <1>3, <2>2, <2>3
<1>6. q = p
  BY <1>1, <1>4, <1>5
<1>7. \A m \in Nat : t = s + m => t - m = s
  OBVIOUS
<1>8. t = s + (t % r)
  BY <1>2, <1>3, <1>6
<1> QED
  BY <1>1, <1>7, <1>8 DEF Truncate

\* Types, and the two invariants about the times of the calls: a call is later
\* than every call before it.
LEMMA InitIInv == Init => IInv
<1> SUFFICES ASSUME Init PROVE IInv
  OBVIOUS
<1>1. TypeOK
  BY WindowsAssumption DEF Init, TypeOK
<1>2. LastInv /\ FirstInv
  BY DEF Init, LastInv, FirstInv
<1>3. ClosedWindowsComplete
  BY DEF Init, ClosedWindowsComplete
<1> QED
  BY <1>1, <1>2, <1>3 DEF IInv

\* What a SnapshotOf adds is well typed, whatever its outcome.
LEMMA MetricsSummaryType ==
  ASSUME NEW t \in Nat, NEW last \in Nat
  PROVE  MetricsSummary(t, last) \subseteq MetricsSnapshot
<1> SUFFICES ASSUME NEW r \in Resolution,
                    NEW s \in SnapshotWindowsFor(t, last, r)
             PROVE  [res |-> r, start |-> s, asOf |-> t] \in MetricsSnapshot
  BY DEF MetricsSummary
<1>1. r \in Nat \ {0}
  BY WindowsAssumption
<1>2. \A u \in Nat : Truncate(u, r) \in Nat
  <2> SUFFICES ASSUME NEW u \in Nat PROVE Truncate(u, r) \in Nat
    OBVIOUS
  <2>1. u % r \in 0..(r - 1) /\ u \div r \in Nat
    BY <1>1
  <2>2. u = r * (u \div r) + (u % r)
    BY <1>1
  <2>3. r * (u \div r) \in Nat
    BY <1>1, <2>1
  <2>4. \A k, m \in Nat : u = k + m => u - m \in Nat
    OBVIOUS
  <2> QED
    BY <2>1, <2>2, <2>3, <2>4 DEF Truncate
<1>3. s \in Nat
  BY <1>2 DEF SnapshotWindowsFor
<1> QED
  BY <1>3 DEF MetricsSnapshot

\* The clock alone disturbs nothing.
LEMMA TickIInv == IInv /\ Tick => IInv'
  BY WindowsAssumption
     DEF IInv, Tick, TypeOK, LastInv, FirstInv, ClosedWindowsComplete,
         FirstFrom, Complete, WindowStart, cacheVars

LEMMA StutterIInv == IInv /\ UNCHANGED vars => IInv'
  BY DEF IInv, vars, TypeOK, LastInv, FirstInv, ClosedWindowsComplete,
         FirstFrom, Complete, WindowStart, cacheVars

\* A call at time now, of any outcome.
Calls == SnapshotOK \/ MetricsFail \/ OtherFail

\* What the three outcomes share: one new attempt, and nothing is forgotten.
LEMMA CallStep ==
  ASSUME TypeOK, Calls
  PROVE  /\ now > lastSnapshot /\ now' = now /\ lastSnapshot' = now
         /\ delivered \subseteq delivered'
         /\ \E n \in Attempt :
              /\ n.at = now
              /\ attempts' = attempts \cup {n}
              /\ n.kind = "fresh" =>
                   delivered' = delivered \cup MetricsSummary(now, lastSnapshot)
<1> USE DEF TypeOK, Attempt
<1>1. CASE SnapshotOK
  <2> DEFINE n == [at |-> now, kind |-> IF CacheHit THEN "cached" ELSE "fresh"]
  <2>1. n \in Attempt /\ n.at = now /\ (n.kind = "fresh" => ~CacheHit)
    BY WindowsAssumption
  <2>2. attempts' = attempts \cup {n} /\ delivered' = delivered \cup Summary
    BY <1>1 DEF SnapshotOK, Snapshot
  <2>3. now > lastSnapshot /\ now' = now /\ lastSnapshot' = now
    BY <1>1 DEF SnapshotOK, Snapshot
  <2> QED
    BY <2>1, <2>2, <2>3 DEF Summary
<1>2. CASE MetricsFail \/ OtherFail
  <2> DEFINE n == [at |-> now, kind |-> "failed"]
  <2>1. n \in Attempt /\ n.at = now /\ n.kind # "fresh"
    BY WindowsAssumption
  <2>2. /\ attempts' = attempts \cup {n} /\ delivered' = delivered
        /\ now > lastSnapshot /\ now' = now /\ lastSnapshot' = now
    BY <1>2 DEF MetricsFail, OtherFail, Snapshot
  <2> QED
    BY <2>1, <2>2
<1> QED
  BY <1>1, <1>2 DEF Calls

LEMMA CallTypeOK == TypeOK /\ Calls => TypeOK'
<1> SUFFICES ASSUME TypeOK, Calls PROVE TypeOK'
  OBVIOUS
<1>1. PICK n \in Attempt : attempts' = attempts \cup {n}
  BY CallStep
<1>2. Summary \subseteq MetricsSnapshot
  BY MetricsSummaryType, WindowsAssumption DEF Summary, TypeOK
<1>3. lastMetricsSummary' \in 0..Horizon /\ metricsSummary' \subseteq MetricsSnapshot
  BY <1>2, WindowsAssumption
     DEF TypeOK, Calls, SnapshotOK, MetricsFail, OtherFail, Remember, cacheVars
<1>4. failures' \in 0..MaxFailures
  BY WindowsAssumption DEF TypeOK, Calls, SnapshotOK, MetricsFail, OtherFail, Fail
<1>5. delivered' \subseteq MetricsSnapshot
  BY <1>2 DEF TypeOK, Calls, SnapshotOK, MetricsFail, OtherFail
<1>6. now' \in 1..Horizon /\ lastSnapshot' \in 0..Horizon
  BY CallStep, WindowsAssumption DEF TypeOK
<1> QED
  BY <1>1, <1>3, <1>4, <1>5, <1>6 DEF TypeOK

LEMMA CallLastInv == TypeOK /\ LastInv /\ Calls => LastInv'
<1> SUFFICES ASSUME TypeOK, LastInv, Calls PROVE LastInv'
  OBVIOUS
<1>1. PICK n \in Attempt : n.at = now /\ attempts' = attempts \cup {n}
  BY CallStep
<1>2. now > lastSnapshot /\ now' = now /\ lastSnapshot' = now /\ now \in Nat \ {0}
  BY CallStep, WindowsAssumption DEF TypeOK
<1>3. \A a \in attempts : a.at \in Nat
  BY DEF TypeOK, Attempt
<1> QED
  BY <1>1, <1>2, <1>3, WindowsAssumption DEF LastInv, TypeOK

\* The first call from t on stays the first; for a t after the last call it is
\* the new one.
LEMMA CallFirstInv == TypeOK /\ LastInv /\ FirstInv /\ Calls => FirstInv'
<1> SUFFICES ASSUME TypeOK, LastInv, FirstInv, Calls PROVE FirstInv'
  OBVIOUS
<1>1. PICK n \in Attempt : n.at = now /\ attempts' = attempts \cup {n}
  BY CallStep
<1>2. now > lastSnapshot /\ lastSnapshot' = now /\ now \in Nat /\ lastSnapshot \in Nat
  BY CallStep, WindowsAssumption DEF TypeOK
<1>3. \A a \in attempts : a.at \in Nat /\ a.at <= lastSnapshot
  BY DEF TypeOK, Attempt, LastInv
<1> SUFFICES ASSUME NEW t \in Nat, t <= now
             PROVE  \E b \in attempts' : FirstFrom(b, t)'
  BY <1>2 DEF FirstInv
<1>4. CASE t <= lastSnapshot /\ lastSnapshot # 0
  <2>1. PICK b \in attempts : FirstFrom(b, t)
    BY <1>4 DEF FirstInv
  <2> QED
    BY <1>1, <1>2, <1>3, <2>1 DEF FirstFrom
<1>5. CASE ~(t <= lastSnapshot /\ lastSnapshot # 0)
  <2>1. \A a \in attempts : ~(a.at >= t)
    BY <1>2, <1>3, <1>5 DEF LastInv
  <2>2. FirstFrom(n, t)'
    BY <1>1, <1>2, <2>1 DEF FirstFrom
  <2> QED
    BY <1>1, <2>2
<1> QED
  BY <1>4, <1>5

\* A window whose closing call is an old one was complete already. If the new
\* call closes it, the last call before fell into the window, so a fresh call
\* queries the window once more, after its end.
LEMMA CallComplete ==
  TypeOK /\ LastInv /\ ClosedWindowsComplete /\ Calls => ClosedWindowsComplete'
<1> SUFFICES ASSUME TypeOK, LastInv, ClosedWindowsComplete, Calls,
                    NEW r \in Resolution, NEW s \in WindowStart(r),
                    NEW a \in attempts', s <= a.at, a.at < s + r,
                    NEW b \in attempts', FirstFrom(b, s + r)', b.kind = "fresh"
             PROVE  Complete(r, s)'
  BY DEF ClosedWindowsComplete, WindowStart
<1>1. PICK n \in Attempt :
         /\ n.at = now /\ attempts' = attempts \cup {n}
         /\ n.kind = "fresh" =>
              delivered' = delivered \cup MetricsSummary(now, lastSnapshot)
  BY CallStep
<1>2. now > lastSnapshot /\ now \in Nat /\ lastSnapshot \in Nat
  BY CallStep, WindowsAssumption DEF TypeOK
<1>3. \A x \in attempts : x.at \in Nat /\ x.at <= lastSnapshot
  BY DEF TypeOK, Attempt, LastInv
<1>4. delivered \subseteq delivered'
  BY CallStep
<1>5. r \in Nat \ {0} /\ s \in Nat /\ s % r = 0
  BY WindowsAssumption DEF WindowStart
<1>6. b.at >= s + r /\ \A x \in attempts' : x.at >= s + r => x.at >= b.at
  BY DEF FirstFrom
<1>7. CASE b \in attempts
  <2>1. a \in attempts
    BY <1>1, <1>2, <1>3, <1>5, <1>6, <1>7
  <2>2. FirstFrom(b, s + r)
    BY <1>1, <1>6, <1>7 DEF FirstFrom
  <2>3. Complete(r, s)
    BY <1>7, <2>1, <2>2 DEF ClosedWindowsComplete
  <2> QED
    BY <1>4, <2>3 DEF Complete
<1>8. CASE b \notin attempts
  <2>1. b = n /\ now >= s + r
    BY <1>1, <1>6, <1>8
  <2>2. a \in attempts
    BY <1>1, <1>2, <1>5, <2>1
  <2>3. lastSnapshot # 0 /\ s <= lastSnapshot
    BY <1>2, <1>3, <1>5, <2>2 DEF LastInv
  <2>4. lastSnapshot < s + r
    <3>1. PICK x \in attempts : x.at = lastSnapshot
      BY <2>3 DEF LastInv
    <3>2. x \in attempts'
      BY <1>1
    <3> QED
      BY <1>1, <1>2, <1>5, <1>6, <2>1, <3>1, <3>2
  <2>5. Truncate(lastSnapshot, r) = s
    BY <1>2, <1>5, <2>3, <2>4, TruncateStart
  <2>6. s \in SnapshotWindowsFor(now, lastSnapshot, r)
    BY <2>3, <2>5 DEF SnapshotWindowsFor
  <2>7. [res |-> r, start |-> s, asOf |-> now] \in MetricsSummary(now, lastSnapshot)
    BY <2>6 DEF MetricsSummary
  <2>8. [res |-> r, start |-> s, asOf |-> now] \in delivered'
    BY <1>1, <2>1, <2>7
  <2> QED
    BY <2>1, <2>8 DEF Complete
<1> QED
  BY <1>7, <1>8

\* The invariant is inductive.
LEMMA Invariance == Spec => []IInv
<1>1. IInv /\ Calls => IInv'
  BY CallTypeOK, CallLastInv, CallFirstInv, CallComplete DEF IInv
<1>2. IInv /\ [Next]_vars => IInv'
  BY <1>1, TickIInv, StutterIInv DEF Next, Calls
<1> QED
  BY InitIInv, <1>2, PTL DEF Spec

\* Type correctness of the snapshot provider.
THEOREM TypeCorrect == Spec => []TypeOK
<1>1. IInv => TypeOK
  BY DEF IInv
<1> QED
  BY Invariance, <1>1, PTL

\* A window with a call inside and a fresh call as the first one after its end is
\* handed over whole, for any resolutions, cache, failures and distances.
THEOREM TwoWindowRule == Spec => []ClosedWindowsComplete
<1>1. IInv => ClosedWindowsComplete
  BY DEF IInv
<1> QED
  BY Invariance, <1>1, PTL

-----------------------------------------------------------------------------
(* While every call is fresh.                                              *)

\* The clock is never more than MaxGap after the last call ...
ClockInv == lastSnapshot # 0 => now <= lastSnapshot + MaxGap

\* ... hence a call precedes every later time by at most MaxGap.
GapInv ==
  \A t \in Nat :
    (t <= lastSnapshot /\ \E b \in attempts : b.at < t) =>
      \E a \in attempts : a.at < t /\ t <= a.at + MaxGap

GapsInv == IInv /\ ClockInv /\ GapInv

LEMMA GapsCall == GapsInv /\ Calls => ClockInv' /\ GapInv'
<1> SUFFICES ASSUME GapsInv, Calls PROVE ClockInv' /\ GapInv'
  OBVIOUS
<1>1. TypeOK /\ LastInv
  BY DEF GapsInv, IInv
<1>2. PICK n \in Attempt : n.at = now /\ attempts' = attempts \cup {n}
  BY <1>1, CallStep
<1>3. now > lastSnapshot /\ now' = now /\ lastSnapshot' = now
  BY <1>1, CallStep
<1>4. now \in Nat /\ lastSnapshot \in Nat /\ MaxGap \in Nat
  BY <1>1, WindowsAssumption DEF TypeOK
<1>5. ClockInv'
  BY <1>3, <1>4 DEF ClockInv
<1>6. GapInv'
  <2> SUFFICES ASSUME NEW t \in Nat, t <= now,
                      NEW b \in attempts', b.at < t
               PROVE  \E a \in attempts' : a.at < t /\ t <= a.at + MaxGap
    BY <1>3 DEF GapInv
  <2>1. b \in attempts
    BY <1>2, <1>4
  <2>2. CASE t <= lastSnapshot
    <3>1. PICK a \in attempts : a.at < t /\ t <= a.at + MaxGap
      BY <2>1, <2>2 DEF GapsInv, GapInv
    <3> QED
      BY <1>2, <3>1
  <2>3. CASE t > lastSnapshot
    <3>1. lastSnapshot # 0
      BY <1>1, <2>1 DEF LastInv
    <3>2. PICK a \in attempts : a.at = lastSnapshot
      BY <1>1, <3>1 DEF LastInv
    <3>3. now <= lastSnapshot + MaxGap
      BY <3>1 DEF GapsInv, ClockInv
    <3> QED
      BY <1>2, <1>4, <2>3, <3>2, <3>3
  <2> QED
    BY <1>4, <2>2, <2>3
<1> QED
  BY <1>5, <1>6

\* A window that has ended by the last call has a call inside, since calls are no
\* further apart than it is long, and the first call after its end is fresh.
LEMMA GapsComplete == GapsInv => UndisturbedComplete
<1> SUFFICES ASSUME GapsInv, \A x \in attempts : x.kind = "fresh",
                    NEW r \in Resolution, NEW s \in WindowStart(r),
                    MaxGap <= r, s + r <= lastSnapshot,
                    NEW c \in attempts, c.at < s + r
             PROVE  Complete(r, s)
  BY DEF UndisturbedComplete
<1>1. r \in Nat \ {0} /\ s \in Nat /\ s + r \in Nat /\ MaxGap \in Nat
  BY WindowsAssumption DEF WindowStart
<1>2. lastSnapshot # 0
  BY DEF GapsInv, IInv, LastInv
<1>3. PICK x \in attempts : x.at < s + r /\ s + r <= x.at + MaxGap
  BY <1>1 DEF GapsInv, GapInv
<1>4. x.at \in Nat
  BY DEF GapsInv, IInv, TypeOK, Attempt
<1>5. s <= x.at
  BY <1>1, <1>3, <1>4
<1>6. PICK b \in attempts : FirstFrom(b, s + r)
  BY <1>1, <1>2 DEF GapsInv, IInv, FirstInv
<1>7. b.kind = "fresh"
  BY <1>6 DEF FirstFrom
<1> QED
  BY <1>3, <1>5, <1>6, <1>7 DEF GapsInv, IInv, ClosedWindowsComplete

\* Until a call fails or is served from the cache, no data is omitted of any window
\* that is at least as long as two calls may be apart.
THEOREM UndisturbedOmitsNothing == Spec => []UndisturbedComplete
<1>1. Init => GapsInv
  BY InitIInv DEF Init, GapsInv, ClockInv, GapInv
<1>2. GapsInv /\ Calls => GapsInv'
  BY GapsCall, CallTypeOK, CallLastInv, CallFirstInv, CallComplete
     DEF GapsInv, IInv
<1>3. GapsInv /\ Tick => GapsInv'
  <2> SUFFICES ASSUME GapsInv, Tick PROVE GapsInv'
    OBVIOUS
  <2>1. IInv'
    BY TickIInv DEF GapsInv
  <2>2. ClockInv'
    BY WindowsAssumption DEF GapsInv, IInv, TypeOK, Tick, ClockInv
  <2>3. GapInv'
    BY DEF GapsInv, Tick, GapInv
  <2> QED
    BY <2>1, <2>2, <2>3 DEF GapsInv
<1>4. GapsInv /\ UNCHANGED vars => GapsInv'
  BY StutterIInv DEF GapsInv, vars, ClockInv, GapInv
<1>5. GapsInv /\ [Next]_vars => GapsInv'
  BY <1>2, <1>3, <1>4 DEF Next, Calls
<1>6. GapsInv => UndisturbedComplete
  BY GapsComplete
<1> QED
  BY <1>1, <1>5, <1>6, PTL DEF Spec
-----------------------------------------------------------------------------
\* The cached summary is as old as its time says, and has every resolution.
CacheInv ==
  /\ lastMetricsSummary <= lastSnapshot
  /\ lastMetricsSummary # 0 =>
       \A r \in Resolution :
         \E d \in metricsSummary : d.res = r /\ d.asOf = lastMetricsSummary

\* A fresh summary has the current window of every resolution.
LEMMA EveryResolution ==
  ASSUME NEW t \in Nat, NEW last \in Nat
  PROVE  \A r \in Resolution :
           \E d \in MetricsSummary(t, last) : d.res = r /\ d.asOf = t
<1> SUFFICES ASSUME NEW r \in Resolution
             PROVE  \E d \in MetricsSummary(t, last) : d.res = r /\ d.asOf = t
  OBVIOUS
<1> DEFINE d == [res |-> r, start |-> Truncate(t, r), asOf |-> t]
<1>1. Truncate(t, r) \in SnapshotWindowsFor(t, last, r)
  BY DEF SnapshotWindowsFor
<1>2. d \in MetricsSummary(t, last)
  BY <1>1 DEF MetricsSummary
<1>3. d.res = r /\ d.asOf = t
  OBVIOUS
<1> QED
  BY <1>2, <1>3

\* Whether it comes from the cache or from the source, what a call gets has every
\* resolution, none older than the cache allows.
LEMMA SummaryAge ==
  ASSUME TypeOK, CacheInv, now > lastSnapshot, NEW r \in Resolution
  PROVE  \E d \in Summary : /\ d.res = r /\ d.asOf <= now
                            /\ now < d.asOf + CacheDuration \/ d.asOf = now
<1>1. /\ now \in Nat /\ lastSnapshot \in Nat /\ lastMetricsSummary \in Nat
      /\ CacheDuration \in Nat
  BY WindowsAssumption DEF TypeOK
<1>2. CASE CacheHit
  <2>1. PICK d \in metricsSummary : d.res = r /\ d.asOf = lastMetricsSummary
    BY <1>2 DEF CacheHit, CacheInv
  <2>2. now - lastMetricsSummary < CacheDuration /\ lastMetricsSummary <= lastSnapshot
    BY <1>2 DEF CacheHit, CacheInv
  <2>3. d.asOf <= now /\ now < d.asOf + CacheDuration
    BY <1>1, <2>1, <2>2
  <2>4. d \in Summary
    BY <1>2, <2>1 DEF Summary
  <2> QED
    BY <2>1, <2>3, <2>4
<1>3. CASE ~CacheHit
  <2>1. PICK d \in MetricsSummary(now, lastSnapshot) : d.res = r /\ d.asOf = now
    BY <1>1, EveryResolution
  <2>2. d \in Summary /\ d.asOf <= now
    BY <1>1, <1>3, <2>1 DEF Summary
  <2> QED
    BY <2>1, <2>2
<1> QED
  BY <1>2, <1>3

LEMMA CacheStep == TypeOK /\ CacheInv /\ [Next]_vars => CacheInv'
<1> SUFFICES ASSUME TypeOK, CacheInv, [Next]_vars PROVE CacheInv'
  OBVIOUS
<1>1. CASE Tick \/ UNCHANGED vars
  BY <1>1 DEF Tick, vars, cacheVars, CacheInv
<1>2. CASE Calls
  <2>1. now > lastSnapshot /\ lastSnapshot' = now /\ now \in Nat /\ lastSnapshot \in Nat
        /\ lastMetricsSummary \in Nat
    BY <1>2, CallStep, WindowsAssumption DEF TypeOK
  <2>2. \/ lastMetricsSummary' = now /\ metricsSummary' = MetricsSummary(now, lastSnapshot)
        \/ UNCHANGED cacheVars
    BY <1>2 DEF Calls, SnapshotOK, MetricsFail, OtherFail, Remember, Summary
  <2>3. CASE UNCHANGED cacheVars
    BY <2>1, <2>3 DEF CacheInv, cacheVars
  <2>4. CASE lastMetricsSummary' = now /\ metricsSummary' = MetricsSummary(now, lastSnapshot)
    BY <2>1, <2>4, EveryResolution DEF CacheInv
  <2> QED
    BY <2>2, <2>3, <2>4
<1> QED
  BY <1>1, <1>2 DEF Next, Calls

\* A call that returns a snapshot never hands over metrics older than the cache
\* allows, whichever calls failed before or after the cache was filled.
THEOREM SummaryNeverStale == Spec => BoundedStaleness
<1> DEFINE Fresh ==
      \A a \in attempts' \ attempts :
        a.kind # "failed" =>
          \A r \in Resolution :
            \E d \in delivered' : /\ d.res = r
                                  /\ d.asOf <= a.at
                                  /\ a.at < d.asOf + CacheDuration \/ d.asOf = a.at
<1>1. Init => CacheInv
  BY DEF Init, CacheInv
<1>2. TypeOK /\ CacheInv /\ [Next]_vars => [Fresh]_vars
  <2> SUFFICES ASSUME TypeOK, CacheInv, Next, NEW a \in attempts' \ attempts,
                      a.kind # "failed", NEW r \in Resolution
               PROVE  \E d \in delivered' : /\ d.res = r
                                            /\ d.asOf <= a.at
                                            /\ a.at < d.asOf + CacheDuration \/ d.asOf = a.at
    OBVIOUS
  <2>1. SnapshotOK
    BY DEF Next, MetricsFail, OtherFail, Tick, Snapshot
  <2>2. a.at = now /\ now > lastSnapshot /\ Summary \subseteq delivered'
    BY <2>1 DEF SnapshotOK, Snapshot
  <2> QED
    BY <2>2, SummaryAge
<1>3. Spec => []TypeOK
  BY TypeCorrect
<1>4. Spec => []CacheInv
  BY <1>1, <1>3, CacheStep, PTL DEF Spec
<1> QED
  BY <1>2, <1>3, <1>4, PTL DEF Spec, BoundedStaleness
=============================================================================
