--------------------------- MODULE ExporterProofs ---------------------------
(***************************************************************************)
(* Safety of the exporter for any set of runs and emitters, with an        *)
(* initial snapshot that may fail. The argument rests on one fact: a       *)
(* goroutine that has not reset the run state yet (Active) excludes every  *)
(* other one, because Start needs the idle state that only Reset restores. *)
(***************************************************************************)
EXTENDS Exporter, TLAPS

Active == Looping \cup {"stopped"}

\* The run state says whether a goroutine may be active ...
StateInv ==
  /\ caller = "started" => runState = "started"
  /\ \A r \in Run :
       /\ pc[r] \in Active => /\ runState # "idle"
                              /\ caller # "started"
                              /\ ~wanted => runState = "stopping"
       /\ pc[r] = "stopped" => runState = "stopping"

\* ... of which there is at most one ...
ActiveInv ==
  \A r, q \in Run : pc[r] \in Active /\ pc[q] \in Active => r = q

\* ... and only its emitters are emitting.
EmitInv == \A r \in Run : pc[r] # "emit" => emitting[r] = {}

\* The only context that can be live is the token's.
TokenInv ==
  /\ live \subseteq {token}
  /\ caller # "cancel" /\ ~wanted => live = {}

\* Once a late round has begun, no snapshot is left to start another.
LateInv ==
  /\ late <= 1
  /\ wanted => late = 0
  /\ late = 1 => \A r \in Run : pc[r] # "snapshot"

IInv == TypeOK /\ StateInv /\ ActiveInv /\ EmitInv /\ TokenInv /\ LateInv

\* Each clause of the invariant holds before the first Start.
LEMMA InitIInv == Init => IInv
<1> SUFFICES ASSUME Init PROVE IInv
  OBVIOUS
<1>1. TypeOK
  <2>1. emitting \in [Run -> SUBSET Emitter]
    BY DEF Init
  <2>2. pc \in [Run -> Phase]
    BY DEF Init, Phase
  <2>3. /\ late \in 0..2 /\ runState = "idle" /\ token = None /\ live = {}
        /\ caller = "idle" /\ wanted = FALSE
    BY DEF Init
  <2> QED
    BY <2>1, <2>2, <2>3 DEF TypeOK
<1>2. \A r \in Run : pc[r] = "none" /\ emitting[r] = {}
  BY DEF Init
<1>3. StateInv /\ ActiveInv /\ EmitInv
  BY <1>2 DEF Init, StateInv, ActiveInv, EmitInv, Active, Looping
<1>4. TokenInv /\ LateInv
  BY <1>2 DEF Init, TokenInv, LateInv
<1> QED
  BY <1>1, <1>3, <1>4 DEF IInv

\* The controller preserves the invariant: Started finds no active goroutine
\* because the run state was idle, and Spawn then makes the only one.
LEMMA ControllerIInv == IInv /\ ControllerNext => IInv'
<1> SUFFICES ASSUME IInv, ControllerNext PROVE IInv'
  OBVIOUS
<1> USE ExporterAssumption
        DEF IInv, TypeOK, StateInv, ActiveInv, EmitInv, TokenInv, LateInv,
            Active, Looping, Phase, callVars, tokenVars
<1>1. CASE CallStart
  BY <1>1 DEF CallStart
<1>2. CASE WaitOver
  BY <1>2 DEF WaitOver
<1>3. CASE Started
  BY <1>3 DEF Started
<1>4. CASE AlreadyStarted
  BY <1>4 DEF AlreadyStarted
<1>5. CASE CallStop
  BY <1>5 DEF CallStop
<1>6. CASE StopCancel
  BY <1>6 DEF StopCancel, Cancel
<1>7. ASSUME NEW r \in Run, Spawn(r) PROVE IInv'
  <2>1. /\ caller = "started" /\ pc[r] = "none" /\ caller' = "idle"
        /\ wanted' = TRUE /\ late' = 0 /\ runState' = runState
        /\ emitting' = emitting /\ token' = r
        /\ live' = (live \ {token}) \cup {r}
        /\ pc' = [pc EXCEPT ![r] = "initial"]
    BY <1>7 DEF Spawn, NewContext
  <2>2. \A q \in Run : pc[q] \notin Active
    BY <2>1
  <2>3. \A q \in Run : pc'[q] = IF q = r THEN "initial" ELSE pc[q]
    BY <2>1
  <2>4. runState # "idle"
    BY <2>1
  <2>5. TypeOK'
    BY <2>1
  <2>6. StateInv' /\ ActiveInv' /\ EmitInv'
    BY <2>1, <2>2, <2>3, <2>4
  <2>7. TokenInv' /\ LateInv'
    BY <2>1, <2>2, <2>3
  <2> QED
    BY <2>5, <2>6, <2>7
<1> QED
  BY <1>1, <1>2, <1>3, <1>4, <1>5, <1>6, <1>7 DEF ControllerNext

\* A goroutine preserves the invariant: Reset ends its activity in the step that
\* makes the run state idle, and a step into "snapshot" needs a run state that
\* is not stopping, hence no Stop since the Start that spawned it.
LEMMA RunIInv == ASSUME NEW r \in Run PROVE IInv /\ RunNext(r) => IInv'
<1> SUFFICES ASSUME IInv, RunNext(r) PROVE IInv'
  OBVIOUS
<1> USE ExporterAssumption
        DEF IInv, TypeOK, StateInv, ActiveInv, EmitInv, TokenInv, LateInv,
            Active, Looping, Phase, callVars, tokenVars, Goto
<1>1. CASE InitialSnapshot(r)
  BY <1>1 DEF InitialSnapshot
<1>2. CASE InitialFails(r)
  BY <1>2 DEF InitialFails
<1>3. CASE InitEmitters(r)
  BY <1>3 DEF InitEmitters
<1>4. CASE Interval(r)
  BY <1>4 DEF Interval
<1>5. CASE OnStop(r)
  BY <1>5 DEF OnStop
<1>6. CASE Reset(r)
  BY <1>6 DEF Reset
<1>7. CASE Exit(r)
  BY <1>7 DEF Exit, Cancel
<1>8. CASE SnapshotFails(r)
  BY <1>8 DEF SnapshotFails
<1>9. CASE Emit(r)
  BY <1>9 DEF Emit
<1>10. CASE RoundDone(r)
  BY <1>10 DEF RoundDone
<1>11. ASSUME NEW e \in Emitter, EmitReturns(r, e) PROVE IInv'
  BY <1>11 DEF EmitReturns
<1> QED
  BY <1>1, <1>2, <1>3, <1>4, <1>5, <1>6, <1>7, <1>8, <1>9, <1>10, <1>11
     DEF RunNext

\* The invariant is inductive.
LEMMA Invariance == Spec => []IInv
<1>1. IInv /\ UNCHANGED vars => IInv'
  BY DEF IInv, TypeOK, StateInv, ActiveInv, EmitInv, TokenInv, LateInv,
         Active, Looping, Phase, vars, callVars, tokenVars
<1>2. IInv /\ [Next]_vars => IInv'
  BY <1>1, ControllerIInv, RunIInv DEF Next
<1> QED
  BY InitIInv, <1>2, PTL DEF Spec

\* Type correctness of the exporter and its cancellation token.
THEOREM TypeCorrect == Spec => []TypeOK
<1>1. IInv => TypeOK
  BY DEF IInv
<1> QED
  BY Invariance, <1>1, PTL

\* SnapshotOf, Init and Emit are never run by two goroutines at once, and a
\* goroutine takes no snapshot while its own emitters are running, across any
\* number of restarts.
THEOREM AlwaysOneAtATime == Spec => []OneAtATime
<1>1. IInv => OneAtATime
  BY DEF IInv, ActiveInv, EmitInv, OneAtATime, Active
<1> QED
  BY Invariance, <1>1, PTL

\* When Stop has returned, every context is cancelled.
THEOREM StopAlwaysCancels == Spec => []StopCancels
<1>1. IInv => StopCancels
  BY DEF IInv, TokenInv, StopCancels
<1> QED
  BY Invariance, <1>1, PTL

\* At most one round of emissions begins after Stop was called.
THEOREM AtMostOneLateRound == Spec => []OneLateRound
<1>1. IInv => OneLateRound
  BY DEF IInv, LateInv, OneLateRound
<1> QED
  BY Invariance, <1>1, PTL
=============================================================================
