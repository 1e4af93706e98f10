------------------------------ MODULE CldyEmitter ------------------------------
(***************************************************************************)
(* The Cloudability emitter's sample directories (src/cldy/emitter.go).    *)
(*                                                                         *)
(* Each emission writes one snapshot twice: node stats and cluster objects *)
(* complete the current directory, and the same node stats become the      *)
(* baseline of the directory that the next emission will complete. Only an *)
(* emission without a failing call hands the current directory to the      *)
(* uploader. On a full disk, directories not modified for an hour go.      *)
(*                                                                         *)
(* Time is counted in exporter intervals. Emission 1 is Init and emission  *)
(* k > 1 an Emit that was not downsampled; emission k creates directory k, *)
(* so a number names a snapshot, and the directory made for the next one.  *)
(***************************************************************************)
EXTENDS Integers

CONSTANTS
  Node,          \* nodes that may answer a stats request
  Resource,      \* kinds of objects written by writeMetadata
  None,          \* no node; the suffix of the agent file
  Interval,      \* emissionInterval
  Hour,          \* the age from which ClearOldScratchSamples removes
  DiskPressure,  \* may the free-space check fail?
  MaxTime,       \* bound on the clock
  MaxEmissions,  \* bound on emissions, Init included
  MaxFaults      \* bound on failing I/O calls

ASSUME EmitterAssumption ==
  /\ None \notin Node \cup Resource
  /\ Resource # {} /\ Resource \cap Node = {}
  /\ Interval \in Nat \ {0} /\ Hour \in Nat \ {0}
  /\ DiskPressure \in BOOLEAN
  /\ MaxTime \in Nat /\ MaxEmissions \in Nat \ {0} /\ MaxFaults \in Nat

Dir == 1..MaxEmissions

Stats(n) == <<"stats", n>>
Baseline(n) == <<"baseline", n>>
Objects(r) == <<"objects", r>>
Agent == <<"agent", None>>
File == ({"stats", "baseline"} \X Node) \cup ({"objects"} \X Resource) \cup {Agent}

Absent == 0     \* the file was never created
Torn == -1      \* created, but the write of its data failed

VARIABLES
  now,           \* time since NewEmitter
  lastEmission,  \* Emitter.lastEmission
  sampleCt,      \* Emitter.sampleCt; 0 stands for every later value
  scratch,       \* does ScratchPath exist?
  cur,           \* Emitter.currentSamplePath
  nxt,           \* Emitter.nextSamplePath
  onDisk,        \* directories that exist
  mtime,         \* when an entry was last added to each directory
  file,          \* the emission whose data each file holds; kept as history
                 \* when the directory is removed
  pc,            \* where Init or Emit is
  emission,      \* number of emissions begun
  nodes,         \* nodes in the snapshot being emitted
  todo,          \* nodes, then resources, still to be written
  half,          \* node whose stats are written and whose baseline is due
  handed,        \* observation: for a directory given to AddSample, the
                 \* emission that did so (0 if none) and its nodes
  initFailed,    \* observation: did Init return an error?
  missed,        \* observation: intervals without a call of Emit
  faults

clockVars == <<now, lastEmission, missed>>
pathVars == <<sampleCt, scratch, cur, nxt>>
diskVars == <<onDisk, mtime, file>>
callVars == <<emission, nodes, todo, half>>
vars == <<clockVars, pathVars, diskVars, pc, callVars, handed, initFailed, faults>>

TypeOK ==
  /\ now \in 0..MaxTime /\ lastEmission \in Nat /\ missed \in 0..MaxTime
  /\ sampleCt \in {-1, 0} /\ scratch \in BOOLEAN
  /\ cur \in Dir \cup {0} /\ nxt \in Dir \cup {0}
  /\ onDisk \subseteq Dir
  /\ mtime \in [Dir -> 0..MaxTime]
  /\ file \in [Dir -> [File -> Dir \cup {Absent, Torn}]]
  /\ pc \in {"new", "stats", "objects", "agent", "handover", "idle"}
  /\ emission \in 0..MaxEmissions
  /\ nodes \subseteq Node
  /\ todo \subseteq Node \cup Resource
  /\ half \in Node \cup {None}
  /\ handed \in [Dir -> [by : Dir \cup {0}, nodes : SUBSET Node]]
  /\ initFailed \in BOOLEAN
  /\ faults \in 0..MaxFaults

Init ==
  /\ now = 0 /\ lastEmission = 0 /\ missed = 0
  /\ sampleCt = -1 /\ scratch = FALSE
  /\ cur = 0 /\ nxt = 0
  /\ onDisk = {}
  /\ mtime = [d \in Dir |-> 0]
  /\ file = [d \in Dir |-> [f \in File |-> Absent]]
  /\ pc = "new"
  /\ emission = 0 /\ nodes = {} /\ todo = {} /\ half = None
  /\ handed = [d \in Dir |-> [by |-> 0, nodes |-> {}]]
  /\ initFailed = FALSE
  /\ faults = 0

Handed == {d \in Dir : handed[d].by # 0}

Fault == faults < MaxFaults /\ faults' = faults + 1

-----------------------------------------------------------------------------
(* Writing a file, and making room for it.                                 *)

\* Mutant of Stale: the age of a directory is not looked at.
AnyAge(d) == d \in onDisk

\* time.Since(fileInfo.ModTime()) > time.Hour*1
Stale(d) == d \in onDisk /\ now - mtime[d] > Hour

\* What ClearOldScratchSamples may remove: nothing while there is room, else
\* the stale directories, except those whose Stat or RemoveAll fails, which
\* is only logged.
Clearings == IF DiskPressure THEN SUBSET {d \in Dir : Stale(d)} ELSE {{}}

\* os.Create truncates a file that exists; only a new entry touches the
\* modification time of the directory.
Put(d, f, data) ==
  /\ file' = [file EXCEPT ![d][f] = data]
  /\ mtime' = IF file[d][f] = Absent THEN [mtime EXCEPT ![d] = now] ELSE mtime

\* A call fails because the directory is not there, or for a reason of its
\* own, before or after the file was created.
PutFails(d, f, gone) ==
  \/ /\ d \notin onDisk \ gone
     /\ UNCHANGED <<file, mtime, faults>>
  \/ /\ Fault
     /\ UNCHANGED <<file, mtime>>
  \/ /\ d \in onDisk \ gone
     /\ Fault
     /\ Put(d, f, Torn)

-----------------------------------------------------------------------------
(* Init.                                                                   *)

\* The first directory is created and the stats of the first snapshot go there.
InitBegins(N) ==
  /\ pc = "new"
  /\ emission' = 1
  /\ scratch' = TRUE
  /\ cur' = 1
  /\ onDisk' = {1}
  /\ mtime' = [mtime EXCEPT ![1] = now]
  /\ nodes' = N /\ todo' = N
  /\ pc' = "stats"
  /\ UNCHANGED <<clockVars, sampleCt, nxt, file, half, handed, initFailed, faults>>

\* Neither MkdirAll of the scratch path nor Mkdir is tried again later.
InitFails ==
  /\ pc = "new"
  /\ Fault
  /\ emission' = 1
  /\ \/ scratch' = FALSE /\ cur' = 0
     \/ scratch' = TRUE /\ cur' = 1
  /\ initFailed' = TRUE
  /\ pc' = "idle"
  /\ UNCHANGED <<clockVars, sampleCt, nxt, diskVars, nodes, todo, half, handed>>

\* Init's writeStatsData returns nil.
InitEnds ==
  /\ pc = "stats" /\ emission = 1
  /\ todo = {}
  /\ sampleCt' = 0
  /\ nodes' = {}
  /\ pc' = "idle"
  /\ UNCHANGED <<clockVars, scratch, cur, nxt, diskVars, emission, todo, half,
                 handed, initFailed, faults>>

-----------------------------------------------------------------------------
(* The exporter's interval elapses.                                        *)

\* time.After has not fired.
Waiting == pc = "idle" /\ UNCHANGED vars

Elapse == pc = "idle" /\ now < MaxTime /\ now' = now + 1

\* The snapshot fails and Emit is not called.
NoSnapshot ==
  /\ Elapse
  /\ missed' = missed + 1
  /\ UNCHANGED <<lastEmission, pathVars, diskVars, pc, callVars, handed,
                 initFailed, faults>>

\* shouldDownsample: a tenth of the emission interval is forgiven.
Reached(t) == 10 * (t - lastEmission) > 9 * Interval

Downsampled ==
  /\ Elapse
  /\ ~Reached(now')
  /\ UNCHANGED <<lastEmission, missed, pathVars, diskVars, pc, callVars, handed,
                 initFailed, faults>>

\* Mutant of Advance: only the call is remembered, not the plan.
AdvanceByHalf == lastEmission' = lastEmission + Interval \div 2

\* The plan moves on by one interval, whatever becomes of the emission.
Advance == lastEmission' = lastEmission + Interval

Emit ==
  /\ Elapse
  /\ Reached(now')
  /\ emission < MaxEmissions
  /\ Advance
  /\ emission' = emission + 1
  /\ nxt' = emission + 1
  /\ UNCHANGED <<missed, sampleCt, scratch, cur, file, half, handed, initFailed>>

EmitBegins(N) ==
  /\ Emit
  /\ scratch
  /\ onDisk' = onDisk \cup {emission + 1}
  /\ mtime' = [mtime EXCEPT ![emission + 1] = now']
  /\ nodes' = N /\ todo' = N
  /\ pc' = "stats"
  /\ UNCHANGED faults

\* os.Mkdir(ce.nextSamplePath) fails.
EmitFails ==
  /\ Emit
  /\ \/ ~scratch /\ UNCHANGED faults
     \/ Fault
  /\ UNCHANGED <<onDisk, mtime, nodes, todo, pc>>

-----------------------------------------------------------------------------
(* writeStatsData: for each node the stats file, then the baseline file.   *)

\* Mutant of StatsDir: the stats go to the new directory.
StatsInNext == nxt

StatsDir == cur

WriteStats(n) ==
  /\ pc = "stats" /\ half = None
  /\ n \in todo
  /\ \E gone \in Clearings :
       /\ StatsDir \in onDisk \ gone
       /\ onDisk' = onDisk \ gone
  /\ Put(StatsDir, Stats(n), emission)
  /\ half' = n
  /\ UNCHANGED <<clockVars, pathVars, pc, emission, nodes, todo, handed,
                 initFailed, faults>>

\* Mutant of BaselineDir: the baseline lands beside the stats.
BaselineInCurrent == cur

BaselineDir == nxt

\* sampleCt is -1 until Init or a first Emit has succeeded.
BaselineDue == sampleCt # -1

WriteBaseline ==
  /\ pc = "stats" /\ half # None
  /\ \E gone \in Clearings :
       /\ BaselineDue => BaselineDir \in onDisk \ gone
       /\ onDisk' = onDisk \ gone
  /\ IF BaselineDue THEN Put(BaselineDir, Baseline(half), emission)
                    ELSE UNCHANGED <<file, mtime>>
  /\ todo' = todo \ {half}
  /\ half' = None
  /\ UNCHANGED <<clockVars, pathVars, pc, emission, nodes, handed, initFailed, faults>>

\* Mutant of StatsWritten: what becomes of the metadata is not looked at.
StatsSuffice ==
  /\ pc = "stats" /\ emission > 1
  /\ todo = {}
  /\ pc' = "handover"
  /\ UNCHANGED <<clockVars, pathVars, diskVars, callVars, handed, initFailed, faults>>

StatsWritten ==
  /\ pc = "stats" /\ emission > 1
  /\ todo = {}
  /\ todo' = Resource
  /\ pc' = "objects"
  /\ UNCHANGED <<clockVars, pathVars, diskVars, emission, nodes, half, handed,
                 initFailed, faults>>

-----------------------------------------------------------------------------
(* writeMetadata: one file per kind of object, in any order, then the      *)
(* agent file. None of these calls checks the free space.                  *)

WriteObjects(r) ==
  /\ pc = "objects"
  /\ r \in todo
  /\ cur \in onDisk
  /\ Put(cur, Objects(r), emission)
  /\ todo' = todo \ {r}
  /\ pc' = IF todo' = {} THEN "agent" ELSE pc
  /\ UNCHANGED <<clockVars, pathVars, onDisk, emission, nodes, half, handed,
                 initFailed, faults>>

WriteAgentFile ==
  /\ pc = "agent"
  /\ cur \in onDisk
  /\ Put(cur, Agent, emission)
  /\ pc' = "handover"
  /\ UNCHANGED <<clockVars, pathVars, onDisk, callVars, handed, initFailed, faults>>

\* Mutant of HandOver: the emitter keeps filling the directory it handed over.
HandOverKeepsCurrent ==
  /\ pc = "handover"
  /\ handed' = [handed EXCEPT ![cur] = [by |-> emission, nodes |-> nodes]]
  /\ sampleCt' = 0
  /\ nodes' = {}
  /\ pc' = "idle"
  /\ UNCHANGED <<clockVars, scratch, cur, nxt, diskVars, emission, todo, half,
                 initFailed, faults>>

\* AddSample(currentSamplePath); the next directory becomes the current one.
HandOver ==
  /\ pc = "handover"
  /\ handed' = [handed EXCEPT ![cur] = [by |-> emission, nodes |-> nodes]]
  /\ sampleCt' = 0
  /\ cur' = nxt
  /\ nodes' = {}
  /\ pc' = "idle"
  /\ UNCHANGED <<clockVars, scratch, nxt, diskVars, emission, todo, half,
                 initFailed, faults>>

-----------------------------------------------------------------------------
(* Init or Emit returns an error half-way: the directory made for the next *)
(* sample stays behind and the current one is filled again next time.      *)

\* The file that is written next.
NextFile ==
  CASE pc = "stats" /\ half = None -> {<<StatsDir, Stats(n)>> : n \in todo}
    [] pc = "stats" /\ half # None /\ BaselineDue -> {<<BaselineDir, Baseline(half)>>}
    [] pc = "objects" -> {<<cur, Objects(r)>> : r \in todo}
    [] pc = "agent" -> {<<cur, Agent>>}
    [] OTHER -> {}

GiveUp ==
  /\ \E w \in NextFile, gone \in Clearings :
       /\ gone = {} \/ pc = "stats"
       /\ onDisk' = onDisk \ gone
       /\ PutFails(w[1], w[2], gone)
  /\ nodes' = {} /\ todo' = {} /\ half' = None
  /\ initFailed' = (initFailed \/ emission = 1)
  /\ pc' = "idle"
  /\ UNCHANGED <<clockVars, pathVars, emission, handed>>

\* The uploader has packed a sample and removes its directory.
Packed(d) ==
  /\ d \in Handed \cap onDisk
  /\ onDisk' = onDisk \ {d}
  /\ UNCHANGED <<clockVars, pathVars, mtime, file, pc, callVars, handed,
                 initFailed, faults>>

-----------------------------------------------------------------------------
Next ==
  \/ \E N \in SUBSET Node : InitBegins(N) \/ EmitBegins(N)
  \/ InitFails \/ InitEnds
  \/ Waiting \/ NoSnapshot \/ Downsampled \/ EmitFails
  \/ \E n \in Node : WriteStats(n)
  \/ WriteBaseline \/ StatsWritten
  \/ \E r \in Resource : WriteObjects(r)
  \/ WriteAgentFile \/ HandOver
  \/ GiveUp
  \/ \E d \in Dir : Packed(d)

Spec == Init /\ [][Next]_vars

-----------------------------------------------------------------------------
(* A sample that reaches the uploader holds one snapshot, in full: every   *)
(* file Emit writes is from the emission that handed it over, although     *)
(* earlier attempts may have written some of them to the same directory.   *)
HandedWhole ==
  \A d \in Handed :
    LET h == handed[d] IN
    /\ \A n \in h.nodes : file[d][Stats(n)] = h.by
    /\ \A r \in Resource : file[d][Objects(r)] = h.by
    /\ file[d][Agent] = h.by

(* The sample that follows starts where this one ends: for every node, its *)
(* baseline is what this sample has as stats, from the same snapshot. Only *)
(* if Init failed does the second sample have no baseline.                 *)
Contiguous ==
  \A d \in Handed :
    LET h == handed[d] IN
    \A n \in Node :
      file[h.by][Baseline(n)] =
        IF n \in h.nodes /\ ~(initFailed /\ d = 1) THEN h.by ELSE Absent

(* The samples form one chain: the directory an emission made when it      *)
(* handed over the current one is handed over in its turn, or is still the *)
(* current one; a failing emission leaves its directory out of the chain.  *)
ChainUnbroken ==
  \A d \in Handed : handed[d].by = cur \/ handed[d].by \in Handed

(* ClearOldScratchSamples never takes the directory being filled from an   *)
(* agent that works: it is gone only if Init could not create it, or if    *)
(* the missed snapshots and the failing calls together kept it untouched   *)
(* for more than an hour. (Once it is gone no later emission can succeed,  *)
(* see HandedOnDisk.)                                                      *)
CurrentSurvives ==
  pc = "idle" /\ emission > 0 /\ cur \notin onDisk =>
    initFailed \/ missed + (faults + 1) * Interval > Hour

(* Emissions follow the plan of one per emission interval since the start: *)
(* never more than a tenth of an interval ahead of it, and behind it by no *)
(* more than the exporter rounds without a snapshot.                       *)
OnPlan ==
  pc = "idle" /\ emission \in 1..(MaxEmissions - 1) =>
    LET due == (emission - 1) * Interval IN
    /\ 10 * due <= 10 * now + Interval
    /\ 10 * (now - due) <= 9 * Interval + 10 * missed

(* A directory is on disk when it is given to the uploader: a purge        *)
(* between two writes of an emission cannot go unnoticed.                  *)
HandedOnDisk == [][\A d \in Handed' \ Handed : d \in onDisk]_vars

(* Nothing is written to a directory after it was handed over, so the      *)
(* uploader packs what the emission completed.                             *)
HandedFrozen ==
  [][\A d \in Handed : file'[d] = file[d] /\ handed'[d] = handed[d]]_vars
==============================================================================
