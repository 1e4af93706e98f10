------------------------------ MODULE Exporter ------------------------------
(***************************************************************************)
(* The exporter (src/pkg/emitter/exporter.go) with its cancellation token  *)
(* (src/pkg/util/cancel.go): Start spawns a goroutine that takes a         *)
(* snapshot, initialises the emitters and then, once per interval, takes a *)
(* snapshot and hands it to every emitter in parallel; Stop asks it to end.*)
(*                                                                         *)
(* One controller calls Start and Stop, in any order and any number of     *)
(* times. A run is one goroutine together with the context its Start made; *)
(* the name of a dead run is reused. The run state (opencost's             *)
(* AtomicRunState) is external: idle -> started by Start, started ->       *)
(* stopping by Stop, back to idle by Reset; WaitForReset waits while it is *)
(* stopping.                                                               *)
(***************************************************************************)
EXTENDS Naturals

CONSTANTS
  Run,             \* goroutines spawned by Start, with their contexts
  Emitter,         \* registered emitters
  None,            \* no context
  InitialMayFail   \* may the snapshot of the initialization phase fail?

ASSUME ExporterAssumption ==
  /\ None \notin Run
  /\ InitialMayFail \in BOOLEAN

VARIABLES
  runState,  \* defaultExporter.runState
  token,     \* the context behind CancelToken.cancelFunc, None if nil
  live,      \* contexts that have not been cancelled
  caller,    \* where the controller is
  pc,        \* where each run is
  emitting,  \* the emitters whose Emit a run has started and not seen return
  wanted,    \* observation: Start returned true and Stop was not called since
  late       \* observation: rounds begun since Stop was called, up to 2

callVars == <<runState, caller, wanted>>
tokenVars == <<token, live>>
vars == <<callVars, tokenVars, pc, emitting, late>>

Phase == {"none", "initial", "failed", "init", "select", "snapshot", "emit",
          "stopped", "exit"}
Looping == {"initial", "init", "select", "snapshot", "emit"}

TypeOK ==
  /\ runState \in {"idle", "started", "stopping"}
  /\ token \in Run \cup {None}
  /\ live \subseteq Run
  /\ caller \in {"idle", "waiting", "ready", "started", "cancel"}
  /\ pc \in [Run -> Phase]
  /\ emitting \in [Run -> SUBSET Emitter]
  /\ wanted \in BOOLEAN
  /\ late \in 0..2

Init ==
  /\ runState = "idle" /\ token = None /\ live = {}
  /\ caller = "idle"
  /\ pc = [r \in Run |-> "none"]
  /\ emitting = [r \in Run |-> {}]
  /\ wanted = FALSE /\ late = 0

-----------------------------------------------------------------------------
(* CancelToken: both operations hold the lock.                             *)

\* Mutant of NewContext: whatever the token holds, nil included, stays live.
NewContextKeepsOld(c) ==
  /\ live' = live \cup {token, c}
  /\ token' = c

NewContext(c) ==
  /\ live' = (live \ {token}) \cup {c}
  /\ token' = c

Cancel ==
  /\ live' = live \ {token}
  /\ token' = None

-----------------------------------------------------------------------------
(* The controller.                                                         *)

\* Start enters runState.WaitForReset() ...
CallStart ==
  /\ caller = "idle"
  /\ caller' = "waiting"
  /\ UNCHANGED <<runState, wanted, tokenVars, pc, emitting, late>>

\* ... which returns unless a Stop is still being worked off.
WaitOver ==
  /\ caller = "waiting"
  /\ runState # "stopping"
  /\ caller' = "ready"
  /\ UNCHANGED <<runState, wanted, tokenVars, pc, emitting, late>>

\* Mutant of Started: the answer of runState.Start() is ignored.
StartedUnchecked ==
  /\ caller = "ready"
  /\ runState' = "started"
  /\ caller' = "started"
  /\ UNCHANGED <<wanted, tokenVars, pc, emitting, late>>

\* runState.Start() succeeds ...
Started ==
  /\ caller = "ready"
  /\ runState = "idle"
  /\ runState' = "started"
  /\ caller' = "started"
  /\ UNCHANGED <<wanted, tokenVars, pc, emitting, late>>

\* ... or finds the process started: Start returns false.
AlreadyStarted ==
  /\ caller = "ready"
  /\ runState # "idle"
  /\ caller' = "idle"
  /\ UNCHANGED <<runState, wanted, tokenVars, pc, emitting, late>>

\* cancel.NewContext, then the goroutine is spawned and Start returns true.
Spawn(r) ==
  /\ caller = "started"
  /\ pc[r] = "none"
  /\ NewContext(r)
  /\ pc' = [pc EXCEPT ![r] = "initial"]
  /\ caller' = "idle"
  /\ wanted' = TRUE
  /\ late' = 0
  /\ UNCHANGED <<runState, emitting>>

\* Stop: runState.Stop(), which does nothing unless the state is started ...
CallStop ==
  /\ caller = "idle"
  /\ runState' = IF runState = "started" THEN "stopping" ELSE runState
  /\ wanted' = FALSE
  /\ caller' = "cancel"
  /\ UNCHANGED <<tokenVars, pc, emitting, late>>

\* Mutant of StopCancel: Stop leaves the context alone.
StopCancelSkipped ==
  /\ caller = "cancel"
  /\ caller' = "idle"
  /\ UNCHANGED <<runState, wanted, tokenVars, pc, emitting, late>>

\* ... and cancel.Cancel().
StopCancel ==
  /\ caller = "cancel"
  /\ Cancel
  /\ caller' = "idle"
  /\ UNCHANGED <<runState, wanted, pc, emitting, late>>

-----------------------------------------------------------------------------
(* The goroutine.                                                          *)

Goto(r, phase) == pc' = [pc EXCEPT ![r] = phase]

InitialSnapshot(r) ==
  /\ pc[r] = "initial"
  /\ Goto(r, "init")
  /\ UNCHANGED <<callVars, tokenVars, emitting, late>>

\* The goroutine returns without runState.Reset().
InitialFails(r) ==
  /\ InitialMayFail
  /\ pc[r] = "initial"
  /\ Goto(r, "failed")
  /\ UNCHANGED <<callVars, tokenVars, emitting, late>>

\* emitter.Init of every emitter; an error is only logged.
InitEmitters(r) ==
  /\ pc[r] = "init"
  /\ Goto(r, "select")
  /\ UNCHANGED <<callVars, tokenVars, emitting, late>>

\* Mutant of Interval: the loop does not look at OnStop().
IntervalOnly(r) ==
  /\ pc[r] = "select"
  /\ Goto(r, "snapshot")
  /\ UNCHANGED <<callVars, tokenVars, emitting, late>>

\* select: a closed stop channel is ready at once, the timer of this iteration
\* is not, so the interval wins only if it elapses before Stop.
Interval(r) ==
  /\ pc[r] = "select"
  /\ runState # "stopping"
  /\ Goto(r, "snapshot")
  /\ UNCHANGED <<callVars, tokenVars, emitting, late>>

\* Mutant of OnStop: the stop channel is drained without ending the goroutine.
OnStopIgnored(r) ==
  /\ pc[r] = "select"
  /\ runState = "stopping"
  /\ Goto(r, "snapshot")
  /\ UNCHANGED <<callVars, tokenVars, emitting, late>>

\* The closed stop channel is received.
OnStop(r) ==
  /\ pc[r] = "select"
  /\ runState = "stopping"
  /\ Goto(r, "stopped")
  /\ UNCHANGED <<callVars, tokenVars, emitting, late>>

\* runState.Reset(), before the deferred Cancel.
Reset(r) ==
  /\ pc[r] = "stopped"
  /\ runState' = "idle"
  /\ Goto(r, "exit")
  /\ UNCHANGED <<caller, wanted, tokenVars, emitting, late>>

\* The deferred cancel.Cancel(): it cancels whatever context is current.
Exit(r) ==
  /\ pc[r] \in {"failed", "exit"}
  /\ Cancel
  /\ Goto(r, "none")
  /\ UNCHANGED <<callVars, emitting, late>>

\* Mutant of SnapshotFails: the loop returns.
SnapshotEndsLoop(r) ==
  /\ pc[r] = "snapshot"
  /\ Goto(r, "exit")
  /\ UNCHANGED <<callVars, tokenVars, emitting, late>>

\* SnapshotOf returns an error: continue with the next iteration.
SnapshotFails(r) ==
  /\ pc[r] = "snapshot"
  /\ Goto(r, "select")
  /\ UNCHANGED <<callVars, tokenVars, emitting, late>>

\* SnapshotOf succeeds: every emitter gets the snapshot in its own goroutine.
Emit(r) ==
  /\ pc[r] = "snapshot"
  /\ emitting' = [emitting EXCEPT ![r] = Emitter]
  /\ late' = IF ~wanted /\ late < 2 THEN late + 1 ELSE late
  /\ Goto(r, "emit")
  /\ UNCHANGED <<callVars, tokenVars>>

\* One emitter returns, with an error, without one, or by a recovered panic.
EmitReturns(r, e) ==
  /\ e \in emitting[r]
  /\ emitting' = [emitting EXCEPT ![r] = @ \ {e}]
  /\ UNCHANGED <<callVars, tokenVars, pc, late>>

\* Mutant of RoundDone: emitTasks.Wait() is missing.
RoundNotAwaited(r) ==
  /\ pc[r] = "emit"
  /\ Goto(r, "select")
  /\ UNCHANGED <<callVars, tokenVars, emitting, late>>

\* emitTasks.Wait() returns.
RoundDone(r) ==
  /\ pc[r] = "emit"
  /\ emitting[r] = {}
  /\ Goto(r, "select")
  /\ UNCHANGED <<callVars, tokenVars, emitting, late>>

-----------------------------------------------------------------------------
ControllerNext ==
  \/ CallStart \/ WaitOver \/ Started \/ AlreadyStarted \/ CallStop \/ StopCancel
  \/ \E r \in Run : Spawn(r)

RunNext(r) ==
  \/ InitialSnapshot(r) \/ InitialFails(r) \/ InitEmitters(r)
  \/ Interval(r) \/ OnStop(r) \/ Reset(r) \/ Exit(r)
  \/ SnapshotFails(r) \/ Emit(r) \/ RoundDone(r)
  \/ \E e \in Emitter : EmitReturns(r, e)

Next == ControllerNext \/ \E r \in Run : RunNext(r)

Spec == Init /\ [][Next]_vars

\* Goroutines are scheduled, every Emit returns, a call that can go on does, and
\* snapshots succeed again and again.
Fairness ==
  /\ WF_vars(WaitOver \/ Started \/ AlreadyStarted \/ StopCancel)
  /\ \A r \in Run : WF_vars(Spawn(r)) /\ WF_vars(RunNext(r)) /\ SF_vars(Emit(r))

FairSpec == Spec /\ Fairness

-----------------------------------------------------------------------------
\* SnapshotOf and Init never run while an Emit is in progress or while another
\* goroutine is in the loop: the snapshot provider's cache and the emitters' own
\* state are unlocked ("assuming we're not calling the SnapshotOf() in multiple
\* goroutines", snapshot.go:131). Restarts included.
OneAtATime ==
  \A r \in Run :
    /\ pc[r] \in Looping => \A q \in Run \ {r} : pc[q] \notin Looping
    /\ pc[r] # "emit" => emitting[r] = {}

\* Once Stop has returned, no context is live until the next Start: every Emit
\* still in progress, and the last one still to come, sees a cancelled context.
StopCancels == caller = "idle" /\ ~wanted => live = {}

\* A snapshot in progress when Stop is called still leads to a round of
\* emissions, but no second round follows.
OneLateRound == late <= 1

\* "It will run until Stop() is called" (exporter.go:50), and its context with it:
\* only Stop cancels the context a goroutine in the loop runs with.
ContextLivesUntilStop ==
  wanted /\ caller = "idle" => \A r \in Run : pc[r] \in Looping => r \in live

\* No initial snapshot fails. (The goroutine of one that does ends without resetting
\* the run state: exporter.go:73.)
InitialSucceeds == \A r \in Run : pc[r] # "failed"

\* A Start that follows a Stop gets an answer: the stopping goroutine resets the
\* run state, whatever it was doing.
StartReturns == []InitialSucceeds => (caller = "waiting" ~> caller = "idle")

\* Failing snapshots, failing emitters and panics never end the process: until
\* Stop is called there is always a further round.
KeepsEmitting ==
  []InitialSucceeds =>
    (wanted ~> (~wanted \/ \E r \in Run : pc[r] = "emit"))
=============================================================================
