--------------------------- MODULE CldyEmitterProofs ---------------------------
(***************************************************************************)
(* Proofs about CldyEmitter for any set of nodes and resources, any        *)
(* interval and any bounds: a sample that reaches the uploader is whole,   *)
(* is never written again, and starts where the one before it ends.        *)
(***************************************************************************)
EXTENDS CldyEmitter, TLAPS

Writing == pc \in {"stats", "objects", "agent", "handover"}

\* An emission completes an older directory than the one it made, and never
\* one that was handed over.
Numbers ==
  /\ pc = "new" <=> emission = 0
  /\ missed <= now
  /\ cur <= emission /\ cur \notin Handed
  /\ \A d \in Handed : d < handed[d].by /\ handed[d].by <= emission
  /\ pc # "new" /\ scratch => cur \in Dir
  /\ Writing => scratch
  /\ Writing /\ emission > 1 =>
       /\ cur < emission /\ nxt = emission
       /\ \A d \in Handed : handed[d].by < emission
  /\ pc = "stats" /\ emission = 1 => cur = 1
  /\ pc \in {"objects", "agent", "handover"} => emission > 1

\* Nothing was ever written to a directory that is still to be made.
Untouched == \A d \in Dir : d > emission => \A f \in File : file[d][f] = Absent

\* sampleCt is -1 exactly until the directory of Init is handed over, once
\* Init has failed.
Bare ==
  IF pc = "new" \/ (pc = "stats" /\ emission = 1)
  THEN sampleCt = -1 /\ ~initFailed /\ Handed = {}
  ELSE sampleCt = -1 <=> initFailed /\ cur <= 1

\* What the emission has written so far to the directory it completes ...
StatsSoFar ==
  /\ pc # "stats" => half = None
  /\ pc = "stats" => todo \subseteq nodes /\ half \in todo \cup {None}
  /\ Writing => \A n \in nodes :
       (pc = "stats" => n \notin todo \/ n = half) => file[cur][Stats(n)] = emission

ObjectsSoFar ==
  /\ pc = "objects" => todo \subseteq Resource
  /\ pc \in {"objects", "agent", "handover"} => \A r \in Resource :
       (pc = "objects" => r \notin todo) => file[cur][Objects(r)] = emission
  /\ pc = "handover" => file[cur][Agent] = emission

\* ... and to the one it made.
BaselinesSoFar ==
  Writing /\ emission > 1 => \A n \in Node :
    file[emission][Baseline(n)] =
      IF sampleCt # -1 /\ n \in nodes /\ (pc = "stats" => n \notin todo)
      THEN emission ELSE Absent

IInv ==
  /\ TypeOK
  /\ Numbers /\ Untouched /\ Bare
  /\ StatsSoFar /\ ObjectsSoFar /\ BaselinesSoFar
  /\ HandedWhole /\ Contiguous /\ ChainUnbroken

-----------------------------------------------------------------------------
(* File names, and what one write changes.                                 *)

\* Stats, baselines, objects and the agent file never share a name.
LEMMA FileNames ==
  /\ \A n \in Node : Stats(n) \in File /\ Baseline(n) \in File
  /\ \A r \in Resource : Objects(r) \in File
  /\ Agent \in File
  /\ \A n \in Node, m \in Node : Stats(n) # Baseline(m)
  /\ \A n \in Node, m \in Node : Stats(n) = Stats(m) => n = m
  /\ \A n \in Node, m \in Node : Baseline(n) = Baseline(m) => n = m
  /\ \A n \in Node, r \in Resource : Objects(r) # Stats(n) /\ Objects(r) # Baseline(n)
  /\ \A r, q \in Resource : Objects(r) = Objects(q) => r = q
  /\ \A n \in Node : Agent # Stats(n) /\ Agent # Baseline(n)
  /\ \A r \in Resource : Agent # Objects(r)
  BY DEF Stats, Baseline, Objects, Agent, File

\* One write changes one file of one directory.
LEMMA OneFile ==
  ASSUME TypeOK, NEW d \in Dir, NEW f \in File,
         NEW data \in Dir \cup {Absent, Torn}, Put(d, f, data)
  PROVE  /\ file' \in [Dir -> [File -> Dir \cup {Absent, Torn}]]
         /\ mtime' \in [Dir -> 0..MaxTime]
         /\ \A x \in Dir, g \in File :
              file'[x][g] = IF x = d /\ g = f THEN data ELSE file[x][g]
  BY DEF TypeOK, Put

\* A failing write changes at most that file.
LEMMA OneTornFile ==
  ASSUME TypeOK, NEW d \in Dir, NEW f \in File, NEW gone, PutFails(d, f, gone)
  PROVE  /\ file' \in [Dir -> [File -> Dir \cup {Absent, Torn}]]
         /\ mtime' \in [Dir -> 0..MaxTime]
         /\ faults' \in 0..MaxFaults
         /\ \A x \in Dir, g \in File : (x # d \/ g # f) => file'[x][g] = file[x][g]
<1>1. Torn \in Dir \cup {Absent, Torn}
  OBVIOUS
<1>2. faults' \in 0..MaxFaults
  BY EmitterAssumption DEF PutFails, Fault, TypeOK
<1>3. CASE UNCHANGED <<file, mtime>>
  BY <1>2, <1>3 DEF TypeOK
<1>4. CASE Put(d, f, Torn)
  BY <1>1, <1>2, <1>4, OneFile
<1> QED
  BY <1>3, <1>4 DEF PutFails

\* The file written next belongs to the directory being completed, or is a
\* baseline in the one the emission made.
LEMMA NextFileOurs ==
  ASSUME TypeOK, Numbers, Bare, StatsSoFar, ObjectsSoFar, NEW w \in NextFile
  PROVE  /\ Writing
         /\ w[1] \in Dir /\ w[2] \in File
         /\ \/ w[1] = cur /\ \A n \in Node : w[2] # Baseline(n)
            \/ w[1] = nxt /\ emission > 1
<1> USE FileNames
<1>1. CASE pc = "stats" /\ half = None
  <2>1. PICK n \in todo : w = <<cur, Stats(n)>>
    BY <1>1 DEF NextFile, StatsDir
  <2>2. n \in Node /\ cur \in Dir
    BY <1>1 DEF StatsSoFar, TypeOK, Numbers, Writing
  <2>3. w[1] = cur /\ w[2] = Stats(n)
    BY <2>1
  <2>4. \A m \in Node : Stats(n) # Baseline(m)
    BY <2>2
  <2> QED
    BY <1>1, <2>2, <2>3, <2>4 DEF Writing
<1>2. CASE pc = "stats" /\ half # None
  <2>1. BaselineDue /\ w = <<nxt, Baseline(half)>>
    BY <1>2 DEF NextFile, BaselineDir
  <2>2. half \in Node
    BY <1>2 DEF TypeOK
  <2>3. emission > 1
    BY <1>2, <2>1 DEF BaselineDue, TypeOK, Numbers, Bare, Dir
  <2> QED
    BY <1>2, <2>1, <2>2, <2>3 DEF Writing, Numbers, TypeOK, Dir
<1>3. CASE pc = "objects"
  <2>1. PICK r \in todo : w = <<cur, Objects(r)>>
    BY <1>3 DEF NextFile
  <2>2. r \in Resource /\ cur \in Dir
    BY <1>3 DEF ObjectsSoFar, TypeOK, Numbers, Writing
  <2> QED
    BY <1>3, <2>1, <2>2 DEF Writing
<1>4. CASE pc = "agent"
  <2>1. w = <<cur, Agent>>
    BY <1>4 DEF NextFile
  <2>2. cur \in Dir
    BY <1>4 DEF Numbers, Writing
  <2> QED
    BY <1>4, <2>1, <2>2 DEF Writing
<1> QED
  BY <1>1, <1>2, <1>3, <1>4 DEF NextFile

-----------------------------------------------------------------------------
(* Every step keeps the types.                                             *)

LEMMA TypeStep == IInv /\ [Next]_vars => TypeOK'
<1> SUFFICES ASSUME IInv, [Next]_vars PROVE TypeOK'
  OBVIOUS
<1> USE EmitterAssumption
<1>0. TypeOK /\ Numbers /\ Bare /\ StatsSoFar /\ ObjectsSoFar
  BY DEF IInv
<1>1. ASSUME NEW N \in SUBSET Node, InitBegins(N) PROVE TypeOK'
  BY <1>0, <1>1 DEF InitBegins, TypeOK, clockVars, Dir
<1>2. CASE InitFails
  <2>0. 1 \in 0..MaxEmissions /\ 1 \in Dir
    BY DEF Dir
  <2>1. emission' \in 0..MaxEmissions /\ cur' \in Dir \cup {0} /\ scratch' \in BOOLEAN
    BY <1>2, <2>0, Zenon DEF InitFails
  <2>2. faults' \in 0..MaxFaults
    BY <1>0, <1>2 DEF InitFails, Fault, TypeOK
  <2> QED
    BY <1>0, <1>2, <2>1, <2>2 DEF InitFails, TypeOK, clockVars, diskVars
<1>3. CASE InitEnds
  BY <1>0, <1>3 DEF InitEnds, TypeOK, clockVars, diskVars, Dir
<1>4. CASE NoSnapshot
  <2>1. missed' \in 0..MaxTime
    BY <1>0, <1>4 DEF NoSnapshot, Elapse, TypeOK, Numbers
  <2> QED
    BY <1>0, <1>4, <2>1 DEF NoSnapshot, Elapse, TypeOK, pathVars, diskVars, callVars
<1>5. CASE Waiting \/ Downsampled
  BY <1>0, <1>5 DEF Waiting, vars, Downsampled, Elapse, TypeOK, clockVars, pathVars, diskVars, callVars
<1>6. ASSUME Emit PROVE now' \in 0..MaxTime /\ lastEmission' \in Nat /\ emission' \in Dir /\ nxt' = emission'
  BY <1>0, <1>6 DEF Emit, Elapse, Advance, TypeOK, Dir
<1>7. ASSUME NEW N \in SUBSET Node, EmitBegins(N) PROVE TypeOK'
  <2>1. mtime' \in [Dir -> 0..MaxTime]
    BY <1>0, <1>6, <1>7 DEF EmitBegins, Emit, TypeOK
  <2> QED
    BY <1>0, <1>6, <1>7, <2>1 DEF EmitBegins, Emit, TypeOK, Dir
<1>8. CASE EmitFails
  BY <1>0, <1>6, <1>8 DEF EmitFails, Emit, Fault, TypeOK, Dir
<1>9. ASSUME NEW n \in Node, WriteStats(n) PROVE TypeOK'
  <2>1. cur \in Dir /\ emission \in Dir /\ Put(cur, Stats(n), emission)
    BY <1>0, <1>9 DEF WriteStats, StatsDir, Numbers, Writing, TypeOK, Dir
  <2>2. /\ file' \in [Dir -> [File -> Dir \cup {Absent, Torn}]]
        /\ mtime' \in [Dir -> 0..MaxTime]
    BY <1>0, <2>1, OneFile, FileNames
  <2> QED
    BY <1>0, <1>9, <2>2 DEF WriteStats, TypeOK, clockVars, pathVars
<1>10. CASE WriteBaseline
  <2>1. file' \in [Dir -> [File -> Dir \cup {Absent, Torn}]] /\ mtime' \in [Dir -> 0..MaxTime]
    <3>1. CASE BaselineDue
      <4>1. half \in Node /\ emission > 1
        BY <1>0, <1>10, <3>1 DEF WriteBaseline, BaselineDue, TypeOK, Numbers, Bare, Dir
      <4>2. nxt \in Dir /\ emission \in Dir /\ Put(nxt, Baseline(half), emission)
        BY <1>0, <1>10, <3>1, <4>1 DEF WriteBaseline, BaselineDir, TypeOK, Numbers, Writing, Dir
      <4> QED
        BY <1>0, <4>1, <4>2, OneFile, FileNames
    <3>2. CASE ~BaselineDue
      BY <1>0, <1>10, <3>2 DEF WriteBaseline, TypeOK
    <3> QED
      BY <3>1, <3>2
  <2> QED
    BY <1>0, <1>10, <2>1 DEF WriteBaseline, TypeOK, clockVars, pathVars
<1>11. CASE StatsWritten
  BY <1>0, <1>11 DEF StatsWritten, TypeOK, clockVars, pathVars, diskVars
<1>12. ASSUME NEW r \in Resource, WriteObjects(r) PROVE TypeOK'
  <2>1. cur \in Dir /\ emission \in Dir /\ Put(cur, Objects(r), emission)
    BY <1>0, <1>12 DEF WriteObjects, Numbers, Writing, TypeOK, Dir
  <2>2. /\ file' \in [Dir -> [File -> Dir \cup {Absent, Torn}]]
        /\ mtime' \in [Dir -> 0..MaxTime]
    BY <1>0, <2>1, OneFile, FileNames
  <2> QED
    BY <1>0, <1>12, <2>2 DEF WriteObjects, TypeOK, clockVars, pathVars
<1>13. CASE WriteAgentFile
  <2>1. cur \in Dir /\ emission \in Dir /\ Put(cur, Agent, emission)
    BY <1>0, <1>13 DEF WriteAgentFile, Numbers, Writing, TypeOK, Dir
  <2>2. /\ file' \in [Dir -> [File -> Dir \cup {Absent, Torn}]]
        /\ mtime' \in [Dir -> 0..MaxTime]
    BY <1>0, <2>1, OneFile, FileNames
  <2> QED
    BY <1>0, <1>13, <2>2 DEF WriteAgentFile, TypeOK, clockVars, pathVars, callVars
<1>14. CASE HandOver
  <2>1. [by |-> emission, nodes |-> nodes] \in [by : Dir \cup {0}, nodes : SUBSET Node]
    BY <1>0 DEF TypeOK, Dir
  <2>2. handed' \in [Dir -> [by : Dir \cup {0}, nodes : SUBSET Node]]
    BY <1>0, <1>14, <2>1 DEF HandOver, TypeOK
  <2> QED
    BY <1>0, <1>14, <2>2 DEF HandOver, TypeOK, clockVars, diskVars
<1>15. CASE GiveUp
  <2>1. PICK w \in NextFile, gone \in Clearings :
          onDisk' = onDisk \ gone /\ PutFails(w[1], w[2], gone)
    BY <1>15 DEF GiveUp
  <2>2. w[1] \in Dir /\ w[2] \in File
    BY <1>0, <2>1, NextFileOurs
  <2>3. /\ file' \in [Dir -> [File -> Dir \cup {Absent, Torn}]]
        /\ mtime' \in [Dir -> 0..MaxTime] /\ faults' \in 0..MaxFaults
    BY <1>0, <2>1, <2>2, OneTornFile
  <2> QED
    BY <1>0, <1>15, <2>1, <2>3 DEF GiveUp, TypeOK, clockVars, pathVars
<1>16. ASSUME NEW d \in Dir, Packed(d) PROVE TypeOK'
  BY <1>0, <1>16 DEF Packed, TypeOK, clockVars, pathVars, callVars
<1>17. CASE UNCHANGED vars
  BY <1>0, <1>17 DEF TypeOK, vars, clockVars, pathVars, diskVars, callVars
<1> QED
  BY <1>1, <1>2, <1>3, <1>4, <1>5, <1>7, <1>8, <1>9, <1>10, <1>11, <1>12, <1>13,
     <1>14, <1>15, <1>16, <1>17 DEF Next

-----------------------------------------------------------------------------
(* What was handed over stays as it is.                                    *)

\* A write of the emission goes to no directory handed over, and to no baseline
\* of the directory that follows one.
LEMMA WriteFrame ==
  ASSUME IInv, Writing, NEW x \in Dir, NEW f \in File,
         (x = cur /\ \A n \in Node : f # Baseline(n)) \/ (x = nxt /\ emission > 1),
         \A d \in Dir, g \in File : (d # x \/ g # f) => file'[d][g] = file[d][g],
         file' \in [Dir -> [File -> Dir \cup {Absent, Torn}]],
         UNCHANGED <<handed, cur, emission>>,
         initFailed' = initFailed \/ Handed = {}
  PROVE  /\ HandedWhole' /\ Contiguous' /\ ChainUnbroken' /\ Untouched'
         /\ \A d \in Handed : file'[d] = file[d]
<1>0. TypeOK /\ Numbers /\ Untouched /\ HandedWhole /\ Contiguous /\ ChainUnbroken /\ Bare
  BY DEF IInv
<1>1. Handed' = Handed /\ Handed \subseteq Dir
  BY DEF Handed
<1>2. \A d \in Handed : handed[d].by \in Dir
  BY <1>0 DEF Handed, TypeOK
<1>3. emission \in Nat /\ \A d \in Dir : d \in Nat
  BY <1>0 DEF TypeOK, Dir
<1>4. x \notin Handed
  <2>1. CASE x = cur
    BY <1>0, <2>1 DEF Numbers
  <2>2. CASE x = nxt /\ emission > 1
    BY <1>0, <1>1, <1>2, <1>3, <2>2 DEF Numbers
  <2> QED
    BY <2>1, <2>2
<1>5. \A d \in Handed, g \in File : file'[d][g] = file[d][g]
  BY <1>1, <1>4
<1>6. \A d \in Handed : file'[d] = file[d]
  BY <1>0, <1>1, <1>5 DEF TypeOK
<1>7. HandedWhole'
  BY <1>0, <1>1, <1>6 DEF HandedWhole
<1>8. \A d \in Handed, n \in Node : file'[handed[d].by][Baseline(n)] = file[handed[d].by][Baseline(n)]
  <2> SUFFICES ASSUME NEW d \in Handed, NEW n \in Node
               PROVE  file'[handed[d].by][Baseline(n)] = file[handed[d].by][Baseline(n)]
    OBVIOUS
  <2>1. Baseline(n) \in File /\ handed[d].by \in Dir
    BY <1>2, FileNames
  <2>2. CASE x = cur /\ \A m \in Node : f # Baseline(m)
    BY <2>1, <2>2
  <2>3. CASE x = nxt /\ emission > 1
    <3>1. handed[d].by < emission /\ nxt = emission
      BY <1>0, <2>3 DEF Numbers
    <3>2. handed[d].by # x
      BY <1>2, <1>3, <2>3, <3>1
    <3> QED
      BY <2>1, <3>2
  <2> QED
    BY <2>2, <2>3
<1>9. Contiguous'
  BY <1>0, <1>1, <1>8 DEF Contiguous
<1>10. ChainUnbroken'
  BY <1>0, <1>1 DEF ChainUnbroken
<1>11. Untouched'
  <2>1. x <= emission
    BY <1>0, <1>3 DEF Numbers
  <2> QED
    BY <1>0, <1>3, <2>1 DEF Untouched
<1> QED
  BY <1>6, <1>7, <1>9, <1>10, <1>11

\* So does everything when no file and no hand-over is involved.
LEMMA IdleFrame ==
  ASSUME IInv, UNCHANGED <<handed, file>>,
         cur' = cur \/ Handed = {},
         initFailed' = initFailed \/ Handed = {},
         emission' >= emission, emission' \in Nat
  PROVE  /\ HandedWhole' /\ Contiguous' /\ ChainUnbroken' /\ Untouched'
         /\ \A d \in Handed : file'[d] = file[d]
<1>0. TypeOK /\ Untouched /\ HandedWhole /\ Contiguous /\ ChainUnbroken
  BY DEF IInv
<1>1. Handed' = Handed
  BY DEF Handed
<1>2. Untouched'
  BY <1>0 DEF Untouched, TypeOK, Dir
<1> QED
  BY <1>0, <1>1, <1>2 DEF HandedWhole, Contiguous, ChainUnbroken

-----------------------------------------------------------------------------
(* One lemma per action that moves an emission forward. Ours is what the   *)
(* emission itself must keep, Samples what holds of the samples.           *)

Samples == HandedWhole /\ Contiguous /\ ChainUnbroken /\ Untouched

Ours == Numbers /\ Bare /\ StatsSoFar /\ ObjectsSoFar /\ BaselinesSoFar

Frozen == \A d \in Handed : file'[d] = file[d] /\ handed'[d] = handed[d]

LEMMA InitBeginsStep ==
  ASSUME IInv, NEW N \in SUBSET Node, InitBegins(N)
  PROVE  Ours' /\ Samples' /\ Frozen
<1> USE EmitterAssumption
<1>0. TypeOK /\ Numbers /\ Untouched /\ Bare /\ StatsSoFar
  BY DEF IInv
<1>1. Handed = {} /\ Handed' = {}
  BY <1>0 DEF InitBegins, Bare, Handed
<1>2. Numbers'
  BY <1>0, <1>1 DEF InitBegins, Numbers, Writing, TypeOK, Dir, clockVars
<1>3. Bare'
  BY <1>0, <1>1 DEF InitBegins, Bare
<1>4. StatsSoFar'
  BY <1>0 DEF InitBegins, StatsSoFar, TypeOK
<1>5. ObjectsSoFar' /\ BaselinesSoFar'
  BY DEF InitBegins, ObjectsSoFar, BaselinesSoFar
<1>6. Samples'
  <2>1. emission' >= emission /\ emission' \in Nat
    BY <1>0 DEF InitBegins, Numbers
  <2> QED
    BY <1>1, <2>1, IdleFrame DEF Samples, InitBegins
<1> QED
  BY <1>1, <1>2, <1>3, <1>4, <1>5, <1>6 DEF Ours, Frozen

LEMMA InitFailsStep ==
  ASSUME IInv, InitFails
  PROVE  Ours' /\ Samples' /\ Frozen
<1> USE EmitterAssumption
<1>0. TypeOK /\ Numbers /\ Untouched /\ Bare /\ StatsSoFar
  BY DEF IInv
<1>1. Handed = {} /\ Handed' = {}
  BY <1>0 DEF InitFails, Bare, Handed
<1>2. Numbers'
  BY <1>0, <1>1 DEF InitFails, Numbers, Writing, TypeOK, Dir, clockVars
<1>3. Bare'
  BY <1>0, <1>1 DEF InitFails, Bare
<1>4. StatsSoFar' /\ ObjectsSoFar' /\ BaselinesSoFar'
  BY <1>0 DEF InitFails, StatsSoFar, ObjectsSoFar, BaselinesSoFar, Writing
<1>5. Samples'
  <2>1. emission' >= emission /\ emission' \in Nat
    BY <1>0 DEF InitFails, Numbers
  <2> QED
    BY <1>1, <2>1, IdleFrame DEF Samples, InitFails, diskVars
<1> QED
  BY <1>1, <1>2, <1>3, <1>4, <1>5 DEF Ours, Frozen

LEMMA InitEndsStep ==
  ASSUME IInv, InitEnds
  PROVE  Ours' /\ Samples' /\ Frozen
<1>0. TypeOK /\ Numbers /\ Bare /\ StatsSoFar
  BY DEF IInv
<1>1. Handed' = Handed /\ Handed = {}
  BY <1>0 DEF InitEnds, Handed, Bare
<1>2. Numbers'
  BY <1>0, <1>1 DEF InitEnds, Numbers, Writing, TypeOK, clockVars
<1>3. Bare'
  BY <1>0, <1>1 DEF InitEnds, Bare
<1>4. StatsSoFar' /\ ObjectsSoFar' /\ BaselinesSoFar'
  BY <1>0 DEF InitEnds, StatsSoFar, ObjectsSoFar, BaselinesSoFar, Writing
<1>5. Samples' /\ Frozen
  BY <1>0, IdleFrame DEF Samples, Frozen, InitEnds, diskVars, TypeOK
<1> QED
  BY <1>2, <1>3, <1>4, <1>5 DEF Ours

LEMMA EmitBeginsStep ==
  ASSUME IInv, NEW N \in SUBSET Node, EmitBegins(N)
  PROVE  Ours' /\ Samples' /\ Frozen
<1>0. TypeOK /\ Numbers /\ Untouched /\ Bare /\ StatsSoFar
  BY DEF IInv
<1>1. /\ pc = "idle" /\ pc' = "stats" /\ scratch
      /\ emission' = emission + 1 /\ nxt' = emission + 1 /\ emission < MaxEmissions
      /\ now' = now + 1
      /\ UNCHANGED <<missed, sampleCt, scratch, cur, file, half, handed, initFailed>>
      /\ nodes' = N /\ todo' = N
  BY DEF EmitBegins, Emit, Elapse
<1>2. emission \in Nat /\ emission > 0 /\ emission + 1 \in Dir
  <2>1. emission \in 0..MaxEmissions /\ emission # 0
    BY <1>0, <1>1 DEF Numbers, TypeOK
  <2> QED
    BY <1>1, <2>1, EmitterAssumption DEF Dir
<1>3. Handed' = Handed /\ \A d \in Handed : d \in Nat /\ handed[d].by \in Nat
  BY <1>0, <1>1 DEF Handed, TypeOK, Dir
<1>4. Numbers'
  BY <1>0, <1>1, <1>2, <1>3 DEF Numbers, Writing, TypeOK, Dir
<1>5. Bare'
  BY <1>0, <1>1, <1>2 DEF Bare
<1>6. StatsSoFar' /\ ObjectsSoFar'
  BY <1>0, <1>1, EmitterAssumption DEF StatsSoFar, ObjectsSoFar
<1>7. BaselinesSoFar'
  BY <1>0, <1>1, <1>2, FileNames DEF BaselinesSoFar, Untouched
<1>8. Samples' /\ Frozen
  BY <1>1, <1>2, IdleFrame DEF Samples, Frozen
<1> QED
  BY <1>4, <1>5, <1>6, <1>7, <1>8 DEF Ours

LEMMA EmitFailsStep ==
  ASSUME IInv, EmitFails
  PROVE  Ours' /\ Samples' /\ Frozen
<1>0. TypeOK /\ Numbers /\ Untouched /\ Bare /\ StatsSoFar
  BY DEF IInv
<1>1. /\ pc = "idle" /\ pc' = "idle"
      /\ emission' = emission + 1 /\ now' = now + 1
      /\ UNCHANGED <<missed, sampleCt, scratch, cur, file, half, handed, initFailed>>
  BY DEF EmitFails, Emit, Elapse
<1>2. emission \in Nat /\ emission > 0
  BY <1>0, <1>1 DEF Numbers, TypeOK
<1>3. Handed' = Handed /\ \A d \in Handed : d \in Nat /\ handed[d].by \in Nat
  BY <1>0, <1>1 DEF Handed, TypeOK, Dir
<1>4. Numbers'
  BY <1>0, <1>1, <1>2, <1>3 DEF Numbers, Writing, TypeOK, Dir
<1>5. Bare'
  BY <1>0, <1>1, <1>2 DEF Bare
<1>6. StatsSoFar' /\ ObjectsSoFar' /\ BaselinesSoFar'
  BY <1>0, <1>1 DEF StatsSoFar, ObjectsSoFar, BaselinesSoFar, Writing
<1>7. Samples' /\ Frozen
  BY <1>1, <1>2, IdleFrame DEF Samples, Frozen
<1> QED
  BY <1>4, <1>5, <1>6, <1>7 DEF Ours

LEMMA WriteStatsStep ==
  ASSUME IInv, NEW n \in Node, WriteStats(n)
  PROVE  Ours' /\ Samples' /\ Frozen
<1> USE EmitterAssumption
<1>0. TypeOK /\ Numbers /\ Untouched /\ Bare /\ StatsSoFar /\ BaselinesSoFar
  BY DEF IInv
<1>1. /\ pc = "stats" /\ half = None /\ n \in todo /\ half' = n
      /\ Put(cur, Stats(n), emission)
      /\ UNCHANGED <<now, missed, sampleCt, scratch, cur, nxt, pc, emission, nodes,
                     todo, handed, initFailed>>
  BY DEF WriteStats, StatsDir, clockVars, pathVars
<1>2. Writing /\ cur \in Dir /\ emission \in Dir /\ Stats(n) \in File
  BY <1>0, <1>1, FileNames DEF Numbers, Writing, TypeOK, Dir
<1>3. /\ file' \in [Dir -> [File -> Dir \cup {Absent, Torn}]]
      /\ \A x \in Dir, g \in File :
           file'[x][g] = IF x = cur /\ g = Stats(n) THEN emission ELSE file[x][g]
  BY <1>0, <1>1, <1>2, OneFile
<1>4. Samples' /\ Frozen
  <2>1. \A m \in Node : Stats(n) # Baseline(m)
    BY FileNames
  <2> QED
    BY <1>1, <1>2, <1>3, <2>1, WriteFrame DEF Samples, Frozen
<1>5. Handed' = Handed
  BY <1>1 DEF Handed
<1>6. Numbers' /\ Bare'
  BY <1>0, <1>1, <1>5 DEF Numbers, Bare, Writing
<1>7. StatsSoFar'
  <2>1. ASSUME NEW m \in nodes, m \notin todo \/ m = n PROVE file'[cur][Stats(m)] = emission
    <3>1. m \in Node /\ Stats(m) \in File
      BY <1>0, FileNames DEF TypeOK
    <3>2. m # n => file[cur][Stats(m)] = emission
      BY <1>0, <1>1, <1>2, <2>1, <3>1 DEF StatsSoFar
    <3> QED
      BY <1>2, <1>3, <3>1, <3>2
  <2> QED
    BY <1>0, <1>1, <2>1 DEF StatsSoFar
<1>8. ObjectsSoFar'
  BY <1>1 DEF ObjectsSoFar
<1>9. BaselinesSoFar'
  <2>1. \A m \in Node : file'[emission][Baseline(m)] = file[emission][Baseline(m)]
    BY <1>2, <1>3, FileNames
  <2> QED
    BY <1>0, <1>1, <2>1 DEF BaselinesSoFar, Writing
<1> QED
  BY <1>4, <1>6, <1>7, <1>8, <1>9 DEF Ours

LEMMA WriteBaselineStep ==
  ASSUME IInv, WriteBaseline
  PROVE  Ours' /\ Samples' /\ Frozen
<1> USE EmitterAssumption
<1>0. TypeOK /\ Numbers /\ Untouched /\ Bare /\ StatsSoFar /\ BaselinesSoFar
  BY DEF IInv
<1>1. /\ pc = "stats" /\ half # None /\ half' = None /\ todo' = todo \ {half}
      /\ UNCHANGED <<now, missed, sampleCt, scratch, cur, nxt, pc, emission, nodes,
                     handed, initFailed>>
  BY DEF WriteBaseline, clockVars, pathVars
<1>2. /\ Writing /\ cur \in Dir /\ emission \in Dir
      /\ half \in Node /\ half \in todo /\ half \in nodes /\ todo \subseteq nodes
      /\ nodes \subseteq Node
  BY <1>0, <1>1 DEF Numbers, Writing, TypeOK, Dir, StatsSoFar
<1>3. Handed' = Handed
  BY <1>1 DEF Handed
<1>4. Numbers' /\ Bare'
  BY <1>0, <1>1, <1>3 DEF Numbers, Bare, Writing
<1>5. ObjectsSoFar'
  BY <1>1 DEF ObjectsSoFar
<1>6. CASE sampleCt # -1
  <2>1. emission > 1 /\ nxt = emission /\ cur # emission /\ Baseline(half) \in File
    BY <1>0, <1>1, <1>2, <1>6, FileNames DEF Numbers, Bare, Writing, Dir, TypeOK
  <2>2. Put(nxt, Baseline(half), emission)
    BY <1>6 DEF WriteBaseline, BaselineDue, BaselineDir
  <2>3. /\ file' \in [Dir -> [File -> Dir \cup {Absent, Torn}]]
        /\ \A x \in Dir, g \in File :
             file'[x][g] = IF x = nxt /\ g = Baseline(half) THEN emission ELSE file[x][g]
    BY <1>0, <1>2, <2>1, <2>2, OneFile
  <2>4. Samples' /\ Frozen
    BY <1>1, <1>2, <2>1, <2>3, WriteFrame DEF Samples, Frozen
  <2>5. \A m \in Node : file'[cur][Stats(m)] = file[cur][Stats(m)]
    BY <1>2, <2>1, <2>3, FileNames
  <2>6. StatsSoFar'
    BY <1>0, <1>1, <1>2, <2>5 DEF StatsSoFar
  <2>7. BaselinesSoFar'
    <3>1. \A m \in Node : file'[emission][Baseline(m)] =
             IF m = half THEN emission ELSE file[emission][Baseline(m)]
      BY <1>2, <2>1, <2>3, FileNames
    <3> QED
      BY <1>0, <1>1, <1>2, <1>6, <3>1 DEF BaselinesSoFar, Writing
  <2> QED
    BY <1>4, <1>5, <2>4, <2>6, <2>7 DEF Ours
<1>7. CASE sampleCt = -1
  <2>1. file' = file
    BY <1>7 DEF WriteBaseline, BaselineDue
  <2>2. Samples' /\ Frozen
    BY <1>0, <1>1, <2>1, IdleFrame DEF Samples, Frozen, TypeOK
  <2>3. StatsSoFar' /\ BaselinesSoFar'
    BY <1>0, <1>1, <1>2, <1>7, <2>1 DEF StatsSoFar, BaselinesSoFar, Writing
  <2> QED
    BY <1>4, <1>5, <2>2, <2>3 DEF Ours
<1> QED
  BY <1>6, <1>7

LEMMA StatsWrittenStep ==
  ASSUME IInv, StatsWritten
  PROVE  Ours' /\ Samples' /\ Frozen
<1>0. TypeOK /\ Numbers /\ Bare /\ StatsSoFar /\ BaselinesSoFar
  BY DEF IInv
<1>1. /\ pc = "stats" /\ emission > 1 /\ todo = {} /\ todo' = Resource /\ pc' = "objects"
      /\ UNCHANGED <<now, missed, sampleCt, scratch, cur, nxt, file, emission, nodes, half,
                     handed, initFailed>>
  BY DEF StatsWritten, clockVars, pathVars, diskVars
<1>2. Handed' = Handed /\ half = None
  BY <1>0, <1>1 DEF Handed, StatsSoFar
<1>3. Numbers' /\ Bare'
  BY <1>0, <1>1, <1>2 DEF Numbers, Bare, Writing
<1>4. StatsSoFar' /\ ObjectsSoFar' /\ BaselinesSoFar'
  BY <1>0, <1>1, <1>2 DEF StatsSoFar, ObjectsSoFar, BaselinesSoFar, Writing
<1>5. Samples' /\ Frozen
  BY <1>0, <1>1, IdleFrame DEF Samples, Frozen, TypeOK
<1> QED
  BY <1>3, <1>4, <1>5 DEF Ours

\* WriteObjects and WriteAgentFile write one more file of the current directory.
LEMMA WriteObjectsStep ==
  ASSUME IInv, NEW r \in Resource, WriteObjects(r)
  PROVE  Ours' /\ Samples' /\ Frozen
<1> USE EmitterAssumption
<1>0. TypeOK /\ Numbers /\ Untouched /\ Bare /\ StatsSoFar /\ ObjectsSoFar /\ BaselinesSoFar
  BY DEF IInv
<1>1. /\ pc = "objects" /\ pc' \in {"objects", "agent"} /\ r \in todo /\ todo' = todo \ {r}
      /\ pc' = "agent" => todo' = {}
      /\ Put(cur, Objects(r), emission)
      /\ UNCHANGED <<now, missed, sampleCt, scratch, cur, nxt, emission, nodes, half,
                     handed, initFailed>>
  BY DEF WriteObjects, clockVars, pathVars
<1>2. Writing /\ cur \in Dir /\ emission \in Dir /\ Objects(r) \in File /\ cur # emission
      /\ emission > 1 /\ todo \subseteq Resource
  BY <1>0, <1>1, FileNames DEF Numbers, Writing, TypeOK, Dir, ObjectsSoFar
<1>3. /\ file' \in [Dir -> [File -> Dir \cup {Absent, Torn}]]
      /\ \A x \in Dir, g \in File :
           file'[x][g] = IF x = cur /\ g = Objects(r) THEN emission ELSE file[x][g]
  BY <1>0, <1>1, <1>2, OneFile
<1>4. Samples' /\ Frozen
  <2>1. \A m \in Node : Objects(r) # Baseline(m)
    BY FileNames
  <2> QED
    BY <1>1, <1>2, <1>3, <2>1, WriteFrame DEF Samples, Frozen
<1>5. Handed' = Handed
  BY <1>1 DEF Handed
<1>6. Numbers' /\ Bare'
  BY <1>0, <1>1, <1>2, <1>5 DEF Numbers, Bare, Writing
<1>7. StatsSoFar'
  <2>1. \A m \in Node : file'[cur][Stats(m)] = file[cur][Stats(m)]
    BY <1>2, <1>3, FileNames
  <2> QED
    BY <1>0, <1>1, <2>1 DEF StatsSoFar, Writing, TypeOK
<1>8. ObjectsSoFar'
  <2>1. \A q \in Resource : file'[cur][Objects(q)] =
           IF q = r THEN emission ELSE file[cur][Objects(q)]
    BY <1>2, <1>3, FileNames
  <2> QED
    BY <1>0, <1>1, <1>2, <2>1 DEF ObjectsSoFar
<1>9. BaselinesSoFar'
  <2>1. \A m \in Node : file'[emission][Baseline(m)] = file[emission][Baseline(m)]
    BY <1>2, <1>3, FileNames
  <2> QED
    BY <1>0, <1>1, <2>1 DEF BaselinesSoFar, Writing
<1> QED
  BY <1>4, <1>6, <1>7, <1>8, <1>9 DEF Ours

LEMMA WriteAgentFileStep ==
  ASSUME IInv, WriteAgentFile
  PROVE  Ours' /\ Samples' /\ Frozen
<1> USE EmitterAssumption
<1>0. TypeOK /\ Numbers /\ Untouched /\ Bare /\ StatsSoFar /\ ObjectsSoFar /\ BaselinesSoFar
  BY DEF IInv
<1>1. /\ pc = "agent" /\ pc' = "handover"
      /\ Put(cur, Agent, emission)
      /\ UNCHANGED <<now, missed, sampleCt, scratch, cur, nxt, emission, nodes, todo, half,
                     handed, initFailed>>
  BY DEF WriteAgentFile, clockVars, pathVars, callVars
<1>2. Writing /\ cur \in Dir /\ emission \in Dir /\ Agent \in File /\ cur # emission
      /\ emission > 1
  BY <1>0, <1>1, FileNames DEF Numbers, Writing, TypeOK, Dir
<1>3. /\ file' \in [Dir -> [File -> Dir \cup {Absent, Torn}]]
      /\ \A x \in Dir, g \in File :
           file'[x][g] = IF x = cur /\ g = Agent THEN emission ELSE file[x][g]
  BY <1>0, <1>1, <1>2, OneFile
<1>4. Samples' /\ Frozen
  <2>1. \A m \in Node : Agent # Baseline(m)
    BY FileNames
  <2> QED
    BY <1>1, <1>2, <1>3, <2>1, WriteFrame DEF Samples, Frozen
<1>5. Handed' = Handed
  BY <1>1 DEF Handed
<1>6. Numbers' /\ Bare'
  BY <1>0, <1>1, <1>2, <1>5 DEF Numbers, Bare, Writing
<1>7. StatsSoFar'
  <2>1. \A m \in Node : file'[cur][Stats(m)] = file[cur][Stats(m)]
    BY <1>2, <1>3, FileNames
  <2> QED
    BY <1>0, <1>1, <2>1 DEF StatsSoFar, Writing, TypeOK
<1>8. ObjectsSoFar'
  <2>1. \A q \in Resource : file'[cur][Objects(q)] = file[cur][Objects(q)]
    BY <1>2, <1>3, FileNames
  <2>2. file'[cur][Agent] = emission
    BY <1>2, <1>3
  <2> QED
    BY <1>0, <1>1, <2>1, <2>2 DEF ObjectsSoFar
<1>9. BaselinesSoFar'
  <2>1. \A m \in Node : file'[emission][Baseline(m)] = file[emission][Baseline(m)]
    BY <1>2, <1>3, FileNames
  <2> QED
    BY <1>0, <1>1, <2>1 DEF BaselinesSoFar, Writing
<1> QED
  BY <1>4, <1>6, <1>7, <1>8, <1>9 DEF Ours

LEMMA HandOverStep ==
  ASSUME IInv, HandOver
  PROVE  Ours' /\ Samples' /\ Frozen
<1>0. /\ TypeOK /\ Numbers /\ Untouched /\ Bare /\ StatsSoFar /\ ObjectsSoFar
      /\ BaselinesSoFar /\ HandedWhole /\ Contiguous /\ ChainUnbroken
  BY DEF IInv
<1>1. /\ pc = "handover" /\ pc' = "idle" /\ sampleCt' = 0 /\ cur' = nxt
      /\ handed' = [handed EXCEPT ![cur] = [by |-> emission, nodes |-> nodes]]
      /\ UNCHANGED <<now, missed, scratch, nxt, file, emission, half, initFailed>>
  BY DEF HandOver, clockVars, diskVars
<1>2. /\ Writing /\ emission > 1 /\ emission \in Dir /\ nxt = emission
      /\ cur \in Dir /\ cur < emission /\ cur \notin Handed
      /\ nodes \subseteq Node
  BY <1>0, <1>1 DEF Numbers, Writing, TypeOK, Dir
<1>3. /\ handed'[cur] = [by |-> emission, nodes |-> nodes]
      /\ \A d \in Dir : d # cur => handed'[d] = handed[d]
  BY <1>0, <1>1, <1>2 DEF TypeOK
<1>4. Handed' = Handed \cup {cur}
  <2>1. \A d \in Dir : handed'[d].by # 0 <=> d = cur \/ handed[d].by # 0
    BY <1>2, <1>3
  <2> QED
    BY <1>2, <2>1 DEF Handed
<1>5. \A d \in Handed : /\ d \in Dir /\ d # cur /\ handed'[d] = handed[d]
                       /\ handed[d].by \in Dir
                       /\ d < handed[d].by /\ handed[d].by < emission
  BY <1>0, <1>2, <1>3 DEF Handed, Numbers, TypeOK
<1>6. Numbers'
  <2>1. emission \notin Handed'
    BY <1>2, <1>4, <1>5 DEF Dir
  <2>2. \A d \in Handed' : d < handed'[d].by /\ handed'[d].by <= emission
    BY <1>2, <1>3, <1>4, <1>5 DEF Dir
  <2> QED
    BY <1>0, <1>1, <1>2, <2>1, <2>2 DEF Numbers, Writing, TypeOK, Dir
<1>7. Bare'
  BY <1>1, <1>2 DEF Bare, Dir
<1>8. StatsSoFar' /\ ObjectsSoFar' /\ BaselinesSoFar'
  BY <1>0, <1>1 DEF StatsSoFar, ObjectsSoFar, BaselinesSoFar, Writing
<1>9. HandedWhole'
  <2>1. \A n \in nodes : file[cur][Stats(n)] = emission
    BY <1>0, <1>1, <1>2 DEF StatsSoFar
  <2>2. /\ \A r \in Resource : file[cur][Objects(r)] = emission
        /\ file[cur][Agent] = emission
    BY <1>0, <1>1 DEF ObjectsSoFar
  <2> QED
    BY <1>0, <1>1, <1>3, <1>4, <1>5, <2>1, <2>2 DEF HandedWhole
<1>10. Contiguous'
  <2>1. sampleCt # -1 <=> ~(initFailed /\ cur = 1)
    BY <1>0, <1>1, <1>2 DEF Bare, Dir
  <2>2. \A n \in Node : file[emission][Baseline(n)] =
           IF n \in nodes /\ ~(initFailed /\ cur = 1) THEN emission ELSE Absent
    BY <1>0, <1>1, <1>2, <2>1 DEF BaselinesSoFar
  <2> QED
    BY <1>0, <1>1, <1>3, <1>4, <1>5, <2>2 DEF Contiguous
<1>11. ChainUnbroken'
  BY <1>0, <1>1, <1>2, <1>3, <1>4, <1>5 DEF ChainUnbroken
<1>12. Untouched' /\ Frozen
  BY <1>0, <1>1, <1>5 DEF Untouched, Frozen
<1> QED
  BY <1>6, <1>7, <1>8, <1>9, <1>10, <1>11, <1>12 DEF Ours, Samples

LEMMA GiveUpStep ==
  ASSUME IInv, GiveUp
  PROVE  Ours' /\ Samples' /\ Frozen
<1>0. TypeOK /\ Numbers /\ Bare /\ StatsSoFar /\ ObjectsSoFar
  BY DEF IInv
<1>1. /\ pc' = "idle" /\ half' = None /\ initFailed' = (initFailed \/ emission = 1)
      /\ UNCHANGED <<now, missed, sampleCt, scratch, cur, nxt, emission, handed>>
  BY DEF GiveUp, clockVars, pathVars
<1>2. PICK w \in NextFile, gone \in Clearings : PutFails(w[1], w[2], gone)
  BY DEF GiveUp
<1>3. /\ Writing /\ w[1] \in Dir /\ w[2] \in File
      /\ (w[1] = cur /\ \A n \in Node : w[2] # Baseline(n)) \/ (w[1] = nxt /\ emission > 1)
  BY <1>0, NextFileOurs
<1>4. /\ file' \in [Dir -> [File -> Dir \cup {Absent, Torn}]]
      /\ \A x \in Dir, g \in File : (x # w[1] \/ g # w[2]) => file'[x][g] = file[x][g]
  BY <1>0, <1>2, <1>3, OneTornFile
<1>5. Handed' = Handed /\ (emission = 1 => Handed = {} /\ sampleCt = -1 /\ cur = 1)
  BY <1>0, <1>1, <1>3 DEF Handed, Bare, Numbers, Writing
<1>6. Samples' /\ Frozen
  <2>1. initFailed' = initFailed \/ Handed = {}
    BY <1>0, <1>1, <1>5 DEF TypeOK
  <2> QED
    BY <1>1, <1>3, <1>4, <2>1, WriteFrame DEF Samples, Frozen
<1>7. Numbers'
  BY <1>0, <1>1, <1>3, <1>5 DEF Numbers, Writing
<1>8. Bare'
  <2>1. CASE emission = 1
    <3>1. initFailed' /\ sampleCt' = -1 /\ cur' = 1
      BY <1>1, <1>5, <2>1
    <3> QED
      BY <1>1, <3>1 DEF Bare
  <2>2. CASE emission # 1
    BY <1>0, <1>1, <1>3, <2>2 DEF Bare, Writing, TypeOK
  <2> QED
    BY <2>1, <2>2
<1>9. StatsSoFar' /\ ObjectsSoFar' /\ BaselinesSoFar'
  BY <1>1 DEF StatsSoFar, ObjectsSoFar, BaselinesSoFar, Writing
<1> QED
  BY <1>6, <1>7, <1>8, <1>9 DEF Ours

\* Waiting, the exporter's other rounds, the uploader's removal and stuttering.
LEMMA OtherStep ==
  ASSUME IInv,
         \/ Waiting \/ NoSnapshot \/ Downsampled \/ UNCHANGED vars
         \/ \E d \in Dir : Packed(d)
  PROVE  Ours' /\ Samples' /\ Frozen
<1>0. TypeOK /\ Numbers /\ Bare /\ StatsSoFar /\ ObjectsSoFar /\ BaselinesSoFar
  BY DEF IInv
<1>1. UNCHANGED <<sampleCt, scratch, cur, nxt, pc, file, emission, nodes, todo, half,
                  handed, initFailed>>
  BY DEF Waiting, NoSnapshot, Downsampled, Packed, vars, pathVars, diskVars, callVars
<1>2. missed' <= now'
  BY <1>0 DEF Waiting, NoSnapshot, Downsampled, Elapse, Packed, vars, clockVars, Numbers, TypeOK
<1>3. Handed' = Handed
  BY <1>1 DEF Handed
<1>4. Ours'
  BY <1>0, <1>1, <1>2, <1>3
     DEF Ours, Numbers, Bare, StatsSoFar, ObjectsSoFar, BaselinesSoFar, Writing
<1>5. Samples' /\ Frozen
  BY <1>0, <1>1, IdleFrame DEF Samples, Frozen, TypeOK
<1> QED
  BY <1>4, <1>5

LEMMA InvStep == IInv /\ [Next]_vars => IInv' /\ Frozen
<1> SUFFICES ASSUME IInv, [Next]_vars PROVE IInv' /\ Frozen
  OBVIOUS
<1>1. TypeOK'
  BY TypeStep
<1>2. Ours' /\ Samples' /\ Frozen
  BY InitBeginsStep, InitFailsStep, InitEndsStep, EmitBeginsStep, EmitFailsStep,
     WriteStatsStep, WriteBaselineStep, StatsWrittenStep, WriteObjectsStep,
     WriteAgentFileStep, HandOverStep, GiveUpStep, OtherStep DEF Next
<1> QED
  BY <1>1, <1>2 DEF IInv, Ours, Samples

LEMMA InvInit == Init => IInv
<1> SUFFICES ASSUME Init PROVE IInv
  OBVIOUS
<1> USE EmitterAssumption
<1>1. Handed = {}
  BY DEF Init, Handed
<1>2. TypeOK
  <2>1. file \in [Dir -> [File -> Dir \cup {Absent, Torn}]]
    BY DEF Init
  <2>2. handed \in [Dir -> [by : Dir \cup {0}, nodes : SUBSET Node]]
    BY DEF Init
  <2>3. mtime \in [Dir -> 0..MaxTime]
    BY DEF Init
  <2>4. /\ now \in 0..MaxTime /\ lastEmission \in Nat /\ missed \in 0..MaxTime
        /\ sampleCt \in {-1, 0} /\ cur \in Dir \cup {0} /\ nxt \in Dir \cup {0}
        /\ emission \in 0..MaxEmissions /\ faults \in 0..MaxFaults
    BY DEF Init
  <2>5. /\ scratch \in BOOLEAN /\ initFailed \in BOOLEAN
        /\ pc \in {"new", "stats", "objects", "agent", "handover", "idle"}
        /\ onDisk \subseteq Dir /\ nodes \subseteq Node
        /\ todo \subseteq Node \cup Resource /\ half \in Node \cup {None}
    BY DEF Init
  <2> QED
    BY <2>1, <2>2, <2>3, <2>4, <2>5 DEF TypeOK
<1>3. Numbers /\ Bare /\ StatsSoFar /\ ObjectsSoFar /\ BaselinesSoFar
  BY <1>1 DEF Init, Numbers, Bare, StatsSoFar, ObjectsSoFar, BaselinesSoFar, Writing
<1>4. Untouched /\ HandedWhole /\ Contiguous /\ ChainUnbroken
  BY <1>1 DEF Init, Untouched, HandedWhole, Contiguous, ChainUnbroken
<1> QED
  BY <1>2, <1>3, <1>4 DEF IInv

-----------------------------------------------------------------------------
(* The results.                                                            *)

\* The paths, files and counters of the emitter keep their types.
THEOREM TypeCorrect == Spec => []TypeOK
<1>1. IInv => TypeOK
  BY DEF IInv
<1> QED
  BY <1>1, InvInit, InvStep, PTL DEF Spec

\* Emit hands over whole snapshots only, however often it failed before.
THEOREM SamplesWhole == Spec => []HandedWhole
<1>1. IInv => HandedWhole
  BY DEF IInv
<1> QED
  BY <1>1, InvInit, InvStep, PTL DEF Spec

\* writeStatsData gives each sample the end of the one before as its baseline.
THEOREM SamplesContiguous == Spec => [](Contiguous /\ ChainUnbroken)
<1>1. IInv => Contiguous /\ ChainUnbroken
  BY DEF IInv
<1> QED
  BY <1>1, InvInit, InvStep, PTL DEF Spec

\* Emit writes to no directory after AddSample.
THEOREM SamplesFrozen == Spec => HandedFrozen
<1>1. IInv /\ [Next]_vars => [\A d \in Handed : file'[d] = file[d] /\ handed'[d] = handed[d]]_vars
  BY InvStep DEF Frozen
<1> QED
  BY <1>1, InvInit, InvStep, PTL DEF Spec, HandedFrozen

\* Once an object file was created the purge does not run any more.
DiskInv == pc \in {"agent", "handover"} => cur \in onDisk

LEMMA DiskStep == IInv /\ DiskInv /\ [Next]_vars => DiskInv'
<1> SUFFICES ASSUME IInv, DiskInv, [Next]_vars PROVE DiskInv'
  OBVIOUS
<1>1. ASSUME NEW d \in Dir, Packed(d) PROVE DiskInv'
  <2>1. d # cur
    BY <1>1 DEF IInv, Numbers, Packed
  <2> QED
    BY <1>1, <2>1 DEF Packed, DiskInv, pathVars
<1>2. ASSUME NEW r \in Resource, WriteObjects(r) PROVE DiskInv'
  BY <1>2 DEF WriteObjects, DiskInv, pathVars
<1>3. CASE WriteAgentFile
  BY <1>3 DEF WriteAgentFile, DiskInv, pathVars
<1>4. CASE Waiting \/ UNCHANGED vars
  BY <1>4 DEF Waiting, DiskInv, vars, pathVars, diskVars
<1>5. CASE InitFails \/ InitEnds \/ NoSnapshot \/ Downsampled \/ EmitFails
           \/ StatsWritten \/ HandOver \/ GiveUp
  BY <1>5 DEF InitFails, InitEnds, NoSnapshot, Downsampled, EmitFails, Emit, Elapse,
     StatsWritten, HandOver, GiveUp, DiskInv
<1>6. CASE (\E N \in SUBSET Node : InitBegins(N) \/ EmitBegins(N))
           \/ (\E n \in Node : WriteStats(n)) \/ WriteBaseline
  BY <1>6 DEF InitBegins, EmitBegins, WriteStats, WriteBaseline, DiskInv
<1> QED
  BY <1>1, <1>2, <1>3, <1>4, <1>5, <1>6 DEF Next

LEMMA HandedStep == IInv /\ DiskInv /\ [Next]_vars => \A d \in Handed' \ Handed : d \in onDisk
<1> SUFFICES ASSUME IInv, DiskInv, [Next]_vars PROVE \A d \in Handed' \ Handed : d \in onDisk
  OBVIOUS
<1>1. CASE HandOver
  <2>1. \A d \in Dir : d # cur => handed'[d] = handed[d]
    BY <1>1 DEF HandOver, IInv, TypeOK
  <2> QED
    BY <1>1, <2>1 DEF HandOver, DiskInv, Handed
<1>2. CASE ~HandOver
  <2>1. handed' = handed
    BY <1>2 DEF Next, vars, InitBegins, InitFails, InitEnds, Waiting, NoSnapshot, Downsampled,
       EmitBegins, EmitFails, Emit, WriteStats, WriteBaseline, StatsWritten, WriteObjects,
       WriteAgentFile, GiveUp, Packed
  <2> QED
    BY <2>1 DEF Handed
<1> QED
  BY <1>1, <1>2

\* AddSample never gets a directory that ClearOldScratchSamples has removed.
THEOREM SamplesOnDisk == Spec => HandedOnDisk
<1>1. Init => DiskInv
  BY DEF Init, DiskInv
<1>2. IInv /\ DiskInv /\ [Next]_vars => [\A d \in Handed' \ Handed : d \in onDisk]_vars
  BY HandedStep
<1> QED
  BY <1>1, <1>2, InvInit, InvStep, DiskStep, PTL DEF Spec, HandedOnDisk

-----------------------------------------------------------------------------
(* The plan of the emissions, and the directory being filled.              *)
(*                                                                         *)
(* An emission is begun within an interval of its time, except for missed  *)
(* snapshots. The directory being filled was last touched no earlier than  *)
(* the emission that made it, and every emission since has used up a       *)
(* failing call. So its age is bounded by the missed snapshots and the     *)
(* failing calls.                                                          *)

\* The time of emission k in the plan.
Due(k) == (k - 1) * Interval

PlanInv ==
  /\ pc # "idle" /\ emission <= 1 => now = 0
  /\ lastEmission = IF emission = 0 THEN 0 ELSE Due(emission)
  /\ 10 * lastEmission < 10 * now + Interval
  /\ emission < MaxEmissions => 10 * (now - lastEmission) <= 9 * Interval + 10 * missed
  /\ Writing /\ emission > 1 => 10 * (now - lastEmission) <= 10 - Interval + 10 * missed

\* A directory is not older than the emission that made it.
AgeInv == \A d \in onDisk : d <= emission /\ 10 * Due(d) < 10 * mtime[d] + Interval

\* The new directory is too young for ClearOldScratchSamples.
NextInv == Writing /\ emission > 1 => emission \in onDisk /\ mtime[emission] = now

\* Every emission that did not complete the current directory had a failing call.
Attempts == IF Writing /\ emission > 1 THEN 1 ELSE 0

CountInv ==
  /\ pc # "new" /\ ~scratch => initFailed
  /\ cur \in onDisk /\ ~initFailed => emission <= cur + faults + Attempts

SurvivesInv ==
  emission > 0 /\ cur \notin onDisk =>
    initFailed \/ missed + (faults + 1) * Interval > Hour

TimeInv == PlanInv /\ AgeInv /\ NextInv /\ CountInv /\ SurvivesInv

\* Multiples of the interval.
LEMMA DueSteps ==
  /\ Due(1) = 0
  /\ \A k \in Nat : Due(k) \in Int /\ Due(k + 1) = Due(k) + Interval
  /\ \A j, k \in Nat : j <= k => Due(j) <= Due(k)
  /\ \A f \in Nat : (f + 1) * Interval \in Nat
  /\ \A f, g \in Nat : f <= g => (f + 1) * Interval <= (g + 1) * Interval
  /\ \A e, c, f \in Nat : e <= c + f + 1 => Due(e) <= Due(c) + (f + 1) * Interval
<1> USE EmitterAssumption DEF Due
<1>1. \A a, b \in Int : a <= b => a * Interval <= b * Interval
  <2> SUFFICES ASSUME NEW a \in Int, NEW b \in Int, a <= b
               PROVE  a * Interval <= b * Interval
    OBVIOUS
  <2>1. (b - a) * Interval \in Nat
    OBVIOUS
  <2> QED
    BY <2>1
<1>2. \A e, c, f \in Nat :
        (c - 1) * Interval + (f + 1) * Interval = (c + f + 1 - 1) * Interval
  OBVIOUS
<1>3. \A e, c, f \in Nat : e <= c + f + 1 => Due(e) <= Due(c) + (f + 1) * Interval
  <2> SUFFICES ASSUME NEW e \in Nat, NEW c \in Nat, NEW f \in Nat, e <= c + f + 1
               PROVE  Due(e) <= Due(c) + (f + 1) * Interval
    OBVIOUS
  <2>1. (e - 1) * Interval <= (c + f + 1 - 1) * Interval
    <3>1. e - 1 <= c + f + 1 - 1 /\ e - 1 \in Int /\ c + f + 1 - 1 \in Int
      OBVIOUS
    <3> QED
      BY <1>1, <3>1
  <2> QED
    BY <1>2, <2>1
<1>4. \A j, k \in Nat : j <= k => Due(j) <= Due(k)
  BY <1>1
<1>5. \A f, g \in Nat : f <= g => (f + 1) * Interval <= (g + 1) * Interval
  BY <1>1
<1> QED
  BY <1>3, <1>4, <1>5

\* The steps that begin an emission, and the clock.
Begins == \E N \in SUBSET Node : InitBegins(N) \/ EmitBegins(N)
Ticks == NoSnapshot \/ Downsampled

\* A directory goes only when it is stale or was handed over.
Kept ==
  /\ onDisk' \subseteq onDisk
  /\ \A d \in Dir : mtime'[d] = mtime[d] \/ mtime'[d] = now
  /\ \A d \in onDisk \ onDisk' : (Stale(d) /\ pc = "stats") \/ d \in Handed

\* No other step moves the clock or makes a directory.
LEMMA OtherSteps ==
  ASSUME IInv, [Next]_vars, ~Begins, ~InitFails, ~EmitFails, ~Ticks
  PROVE  /\ UNCHANGED <<now, lastEmission, missed, emission, scratch>>
         /\ Writing' => Writing
         /\ pc = "idle" => pc' = "idle"
         /\ pc' = "new" => pc = "new"
         /\ Kept
<1> DEFINE Same == /\ UNCHANGED <<now, lastEmission, missed, emission, scratch>>
                   /\ Writing' => Writing
                   /\ pc = "idle" => pc' = "idle"
                   /\ pc' = "new" => pc = "new"
<1> USE DEF clockVars, pathVars, diskVars, callVars, Writing
<1>0. mtime \in [Dir -> 0..MaxTime]
  BY DEF IInv, TypeOK
<1>1. \A gone \in Clearings : \A d \in gone : Stale(d)
  BY DEF Clearings
<1>2. ASSUME NEW d, NEW f, NEW data, Put(d, f, data)
      PROVE  \A x \in Dir : mtime'[x] = mtime[x] \/ mtime'[x] = now
  BY <1>0, <1>2 DEF Put
<1>3. ASSUME NEW n \in Node, WriteStats(n) PROVE Same /\ Kept
  BY <1>1, <1>2, <1>3 DEF WriteStats, Kept
<1>4. CASE WriteBaseline
  BY <1>1, <1>2, <1>4 DEF WriteBaseline, Kept
<1>5. ASSUME NEW r \in Resource, WriteObjects(r) PROVE Same /\ Kept
  BY <1>2, <1>5 DEF WriteObjects, Kept
<1>6. CASE WriteAgentFile
  BY <1>2, <1>6 DEF WriteAgentFile, Kept
<1>7. CASE GiveUp
  <2>1. PICK w \in NextFile, gone \in Clearings :
          /\ gone = {} \/ pc = "stats"
          /\ onDisk' = onDisk \ gone
          /\ PutFails(w[1], w[2], gone)
    BY <1>7 DEF GiveUp
  <2>2. \A x \in Dir : mtime'[x] = mtime[x] \/ mtime'[x] = now
    BY <1>2, <2>1 DEF PutFails
  <2>3. Writing
    BY <2>1, NextFileOurs DEF IInv
  <2> QED
    BY <1>1, <1>7, <2>1, <2>2, <2>3 DEF GiveUp, Kept
<1>8. ASSUME NEW d \in Dir, Packed(d) PROVE Same /\ Kept
  BY <1>8 DEF Packed, Kept
<1>9. CASE InitEnds \/ Waiting \/ StatsWritten \/ HandOver \/ UNCHANGED vars
  BY <1>9 DEF InitEnds, Waiting, StatsWritten, HandOver, vars, Kept
<1> QED
  BY <1>3, <1>4, <1>5, <1>6, <1>7, <1>8, <1>9 DEF Next, Begins, Ticks

-----------------------------------------------------------------------------
\* An emission is begun when nine tenths of its interval have passed, and the one
\* before was begun in its time.
LEMMA PlanStep == IInv /\ PlanInv /\ [Next]_vars => PlanInv'
<1> SUFFICES ASSUME IInv, PlanInv, [Next]_vars PROVE PlanInv'
  OBVIOUS
<1> USE EmitterAssumption DEF PlanInv
<1>1. /\ now \in Nat /\ missed \in Nat /\ lastEmission \in Nat /\ emission \in Nat
      /\ pc = "new" <=> emission = 0
  BY DEF IInv, TypeOK, Numbers
<1>2. CASE InitFails \/ \E N \in SUBSET Node : InitBegins(N)
  <2>1. /\ emission = 0 /\ emission' = 1 /\ now = 0
        /\ UNCHANGED <<now, lastEmission, missed>>
    BY <1>1, <1>2 DEF InitFails, InitBegins, clockVars
  <2> QED
    BY <1>1, <2>1, DueSteps
<1>3. CASE Emit
  <2>1. /\ emission < MaxEmissions /\ emission' = emission + 1 /\ pc = "idle"
        /\ now' = now + 1 /\ missed' = missed
        /\ lastEmission' = lastEmission + Interval
        /\ 10 * (now' - lastEmission) > 9 * Interval
    BY <1>3 DEF Emit, Elapse, Advance, Reached
  <2>2. emission > 0 /\ lastEmission' = Due(emission')
    BY <1>1, <2>1, DueSteps
  <2>3. 10 * (now - lastEmission) <= 9 * Interval + 10 * missed
    BY <2>1
  <2>4. /\ 10 * lastEmission' < 10 * now' + Interval
        /\ 10 * (now' - lastEmission') <= 10 - Interval + 10 * missed'
        /\ 10 * (now' - lastEmission') <= 9 * Interval + 10 * missed'
    BY <1>1, <2>1, <2>3
  <2> QED
    BY <1>1, <2>1, <2>2, <2>4
<1>4. CASE Ticks
  <2>1. /\ pc = "idle" /\ pc' = "idle" /\ now' = now + 1
        /\ UNCHANGED <<lastEmission, emission>>
        /\ \/ missed' = missed + 1
           \/ missed' = missed /\ 10 * (now' - lastEmission) <= 9 * Interval
    BY <1>1, <1>4 DEF Ticks, NoSnapshot, Downsampled, Elapse, Reached, callVars
  <2> QED
    BY <1>1, <2>1 DEF Writing
<1>5. CASE ~(InitFails \/ Begins \/ EmitFails \/ Ticks)
  <2>1. /\ UNCHANGED <<now, lastEmission, missed, emission>>
        /\ Writing' => Writing
        /\ pc = "idle" => pc' = "idle"
    BY <1>5, OtherSteps
  <2> HIDE DEF Due
  <2> QED
    BY <1>1, <2>1
<1> QED
  BY <1>2, <1>3, <1>4, <1>5 DEF Begins, EmitBegins, EmitFails

\* A directory is made, and written, by an emission that is not ahead of its time.
LEMMA AgeStep == IInv /\ PlanInv /\ PlanInv' /\ AgeInv /\ [Next]_vars => AgeInv'
<1> SUFFICES ASSUME IInv, PlanInv, PlanInv', AgeInv, [Next]_vars, NEW d \in onDisk'
             PROVE  d <= emission' /\ 10 * Due(d) < 10 * mtime'[d] + Interval
  BY DEF AgeInv
<1> USE EmitterAssumption
<1>1. /\ now \in Nat /\ emission \in Nat /\ mtime \in [Dir -> 0..MaxTime]
      /\ onDisk \subseteq Dir /\ onDisk' \subseteq Dir
      /\ pc = "new" <=> emission = 0
  BY TypeStep DEF IInv, TypeOK, Numbers
<1>2. d \in Nat /\ d \in Dir
  BY <1>1 DEF Dir
<1>3. ASSUME NEW N \in SUBSET Node, InitBegins(N)
      PROVE  d <= emission' /\ 10 * Due(d) < 10 * mtime'[d] + Interval
  <2>1. d = 1 /\ emission' = 1 /\ mtime'[1] = now
    BY <1>1, <1>2, <1>3 DEF InitBegins
  <2> QED
    BY <1>1, <2>1, DueSteps
<1>4. ASSUME NEW N \in SUBSET Node, EmitBegins(N)
      PROVE  d <= emission' /\ 10 * Due(d) < 10 * mtime'[d] + Interval
  <2>1. /\ emission' = emission + 1
        /\ onDisk' = onDisk \cup {emission + 1}
        /\ mtime' = [mtime EXCEPT ![emission + 1] = now']
    BY <1>4 DEF EmitBegins, Emit
  <2>2. CASE d = emission + 1
    <3>1. mtime'[d] = now' /\ d = emission'
      BY <1>1, <1>2, <2>1, <2>2
    <3>2. lastEmission' = Due(d) /\ 10 * lastEmission' < 10 * now' + Interval
      BY <1>1, <2>1, <2>2 DEF PlanInv
    <3> QED
      BY <1>2, <3>1, <3>2
  <2>3. CASE d # emission + 1
    <3>1. d \in onDisk /\ mtime'[d] = mtime[d]
      BY <1>1, <2>1, <2>3
    <3> QED
      BY <1>1, <1>2, <2>1, <3>1 DEF AgeInv
  <2> QED
    BY <2>2, <2>3
<1>5. CASE InitFails \/ EmitFails \/ Ticks
  <2>1. onDisk' = onDisk /\ mtime' = mtime /\ emission' \in {emission, 1, emission + 1}
    BY <1>5 DEF InitFails, EmitFails, Emit, Ticks, NoSnapshot, Downsampled, diskVars, callVars
  <2>2. emission' >= emission
    BY <1>1, <1>5 DEF InitFails, EmitFails, Emit, Ticks, NoSnapshot, Downsampled, callVars
  <2> QED
    BY <1>1, <1>2, <2>1, <2>2 DEF AgeInv
<1>6. CASE ~(InitFails \/ Begins \/ EmitFails \/ Ticks)
  <2>1. /\ d \in onDisk /\ emission' = emission
        /\ mtime'[d] = mtime[d] \/ mtime'[d] = now
    BY <1>2, <1>6, OtherSteps DEF Kept
  <2>2. d <= emission /\ 10 * Due(d) < 10 * mtime[d] + Interval
    BY <2>1 DEF AgeInv
  <2>3. 10 * Due(d) < 10 * now + Interval
    <3>1. lastEmission = Due(emission) /\ 10 * lastEmission < 10 * now + Interval
      BY <1>1, <1>2, <2>2 DEF PlanInv, Dir
    <3>2. Due(d) <= Due(emission) /\ Due(d) \in Int /\ Due(emission) \in Int
      BY <1>1, <1>2, <2>2, DueSteps
    <3> HIDE DEF Due
    <3> QED
      BY <1>1, <3>1, <3>2
  <2> QED
    BY <2>1, <2>2, <2>3
<1> QED
  BY <1>3, <1>4, <1>5, <1>6 DEF Begins

\* Within an emission the clock stands still, so the new directory stays.
LEMMA NextStep == IInv /\ NextInv /\ [Next]_vars => NextInv'
<1> SUFFICES ASSUME IInv, NextInv, [Next]_vars, Writing', emission' > 1
             PROVE  emission' \in onDisk' /\ mtime'[emission'] = now'
  BY DEF NextInv
<1> USE EmitterAssumption
<1>1. /\ now \in Nat /\ emission \in Nat /\ mtime \in [Dir -> 0..MaxTime]
      /\ emission \in Dir \cup {0}
      /\ pc = "new" <=> emission = 0
  BY DEF IInv, TypeOK, Numbers, Dir
<1>2. CASE InitFails \/ EmitFails \/ Ticks \/ \E N \in SUBSET Node : InitBegins(N)
  BY <1>2 DEF InitFails, EmitFails, Emit, Elapse, Ticks, NoSnapshot, Downsampled,
              InitBegins, Writing
<1>3. ASSUME NEW N \in SUBSET Node, EmitBegins(N)
      PROVE  emission' \in onDisk' /\ mtime'[emission'] = now'
  BY <1>1, <1>3 DEF EmitBegins, Emit, Dir
<1>4. CASE ~(InitFails \/ Begins \/ EmitFails \/ Ticks)
  <2>1. Writing /\ emission' = emission /\ now' = now /\ Kept
    BY <1>4, OtherSteps
  <2>2. emission \in onDisk /\ mtime[emission] = now
    BY <2>1 DEF NextInv
  <2>3. emission \in Dir /\ mtime'[emission] = now
    BY <1>1, <2>1, <2>2 DEF Kept, Dir
  <2>4. ~Stale(emission)
    BY <1>1, <2>2 DEF Stale
  <2>5. emission \notin Handed
    <3>1. ASSUME emission \in Handed PROVE FALSE
      <4>1. emission < handed[emission].by /\ handed[emission].by <= emission
        BY <3>1 DEF IInv, Numbers
      <4>2. handed[emission].by \in Int
        BY <2>3 DEF IInv, TypeOK, Dir
      <4> QED
        BY <1>1, <4>1, <4>2
    <3> QED
      BY <3>1
  <2> QED
    BY <2>1, <2>2, <2>3, <2>4, <2>5 DEF Kept
<1> QED
  BY <1>2, <1>3, <1>4 DEF Begins

\* Only a failing call ends an emission early while its two directories exist.
LEMMA CountStep == IInv /\ NextInv /\ CountInv /\ [Next]_vars => CountInv'
<1> SUFFICES ASSUME IInv, NextInv, CountInv, [Next]_vars PROVE CountInv'
  OBVIOUS
<1> USE EmitterAssumption
<1>1. /\ emission \in Nat /\ faults \in Nat /\ cur \in Nat /\ onDisk \subseteq Dir
      /\ pc = "new" <=> emission = 0
  BY DEF IInv, TypeOK, Numbers, Dir
<1>2. CASE InitFails
  BY <1>2 DEF InitFails, CountInv
<1>3. ASSUME NEW N \in SUBSET Node, InitBegins(N) PROVE CountInv'
  <2>1. emission' = 1 /\ cur' = 1 /\ scratch' /\ faults' = faults
    BY <1>3 DEF InitBegins
  <2> QED
    BY <1>1, <2>1 DEF CountInv, Attempts
<1>4. CASE EmitFails \/ \E N \in SUBSET Node : EmitBegins(N)
  <2>1. /\ pc = "idle" /\ emission' = emission + 1 /\ emission > 0
        /\ UNCHANGED <<cur, scratch, initFailed>>
    BY <1>1, <1>4 DEF EmitFails, EmitBegins, Emit, Elapse
  <2>2. pc \notin {"new", "stats", "objects", "agent", "handover"}
    BY <2>1
  <2>3. Attempts = 0
    BY <2>2 DEF Attempts, Writing
  <2>4. CASE EmitFails
    <3>1. onDisk' = onDisk /\ pc' = pc /\ (~scratch \/ faults' = faults + 1)
      BY <2>4 DEF EmitFails, Fault
    <3>2. Attempts' = 0
      BY <2>2, <3>1 DEF Attempts, Writing
    <3> QED
      BY <1>1, <2>1, <2>2, <2>3, <3>1, <3>2 DEF CountInv
  <2>5. CASE \E N \in SUBSET Node : EmitBegins(N)
    <3>1. onDisk' = onDisk \cup {emission + 1} /\ pc' = "stats" /\ faults' = faults
          /\ scratch
      BY <2>5 DEF EmitBegins, Emit
    <3>2. Attempts' = 1
      BY <1>1, <2>1, <3>1 DEF Attempts, Writing
    <3>3. cur # emission + 1
      BY <1>1 DEF IInv, Numbers
    <3> QED
      BY <1>1, <2>1, <2>3, <3>1, <3>2, <3>3 DEF CountInv
  <2> QED
    BY <1>4, <2>4, <2>5
<1>5. CASE HandOver
  <2>1. /\ pc = "handover" /\ pc' = "idle" /\ cur' = nxt /\ onDisk' = onDisk
        /\ UNCHANGED <<emission, scratch, initFailed, faults>>
    BY <1>5 DEF HandOver, diskVars
  <2>2. Attempts' = 0 /\ nxt = emission
    BY <2>1 DEF Attempts, Writing, IInv, Numbers
  <2> QED
    BY <1>1, <2>1, <2>2 DEF CountInv
<1>6. CASE GiveUp
  <2>1. /\ pc' = "idle" /\ initFailed' = (initFailed \/ emission = 1)
        /\ UNCHANGED <<cur, scratch, emission>>
    BY <1>6 DEF GiveUp, pathVars
  <2>2. PICK w \in NextFile, gone \in Clearings :
          onDisk' = onDisk \ gone /\ PutFails(w[1], w[2], gone)
    BY <1>6 DEF GiveUp
  <2>3. Writing /\ (w[1] = cur \/ (w[1] = nxt /\ emission > 1))
    BY <2>2, NextFileOurs DEF IInv
  <2>4. Attempts' = 0
    BY <2>1 DEF Attempts, Writing
  <2>5. scratch' /\ (~initFailed' => ~initFailed /\ emission # 1)
    BY <2>1, <2>3, Zenon DEF IInv, Numbers
  <2>6. SUFFICES (cur \in onDisk' /\ ~initFailed') => emission <= cur + faults' + 0
    BY <2>1, <2>4, <2>5, Zenon DEF CountInv
  <2>7. SUFFICES ASSUME cur \in onDisk', ~initFailed, emission # 1
                 PROVE  emission <= cur + faults' + 0
    BY <2>5
  <2>8. emission > 1
    BY <1>1, <2>3, <2>7 DEF Writing
  <2>9. emission \in onDisk \ gone
    <3>1. emission \in onDisk /\ mtime[emission] = now
      BY <2>3, <2>8 DEF NextInv
    <3>2. ~Stale(emission)
      BY <3>1 DEF Stale, IInv, TypeOK
    <3> QED
      BY <3>1, <3>2 DEF Clearings
  <2>10. w[1] \in onDisk \ gone
    BY <2>2, <2>3, <2>7, <2>8, <2>9 DEF IInv, Numbers
  <2>11. faults' = faults + 1
    BY <2>2, <2>10 DEF PutFails, Fault
  <2>12. emission <= cur + faults + 1
    BY <2>2, <2>3, <2>7, <2>8 DEF CountInv, Attempts
  <2> QED
    BY <1>1, <2>11, <2>12
<1>7. CASE InitEnds \/ Ticks \/ UNCHANGED vars \/ Waiting
  <2>1. /\ UNCHANGED <<scratch, cur, onDisk, emission, initFailed, faults>>
        /\ (pc # "new" /\ pc' # "new") \/ pc' = pc
        /\ Attempts' = Attempts
    BY <1>1, <1>7 DEF InitEnds, Ticks, NoSnapshot, Downsampled, Elapse, Waiting, vars,
                      pathVars, diskVars, callVars, Attempts, Writing
  <2> QED
    BY <2>1 DEF CountInv
<1>8. CASE \/ WriteBaseline \/ StatsWritten \/ WriteAgentFile
           \/ (\E n \in Node : WriteStats(n)) \/ (\E r \in Resource : WriteObjects(r))
           \/ (\E d \in Dir : Packed(d))
  <2>1. /\ UNCHANGED <<scratch, cur, emission, initFailed, faults>>
        /\ onDisk' \subseteq onDisk
        /\ Writing' <=> Writing
        /\ pc' = "new" <=> pc = "new"
    BY <1>8 DEF WriteBaseline, StatsWritten, WriteAgentFile, WriteStats, WriteObjects, Packed,
                pathVars, diskVars, callVars, Writing
  <2>2. Attempts' = Attempts
    BY <2>1 DEF Attempts
  <2> QED
    BY <2>1, <2>2 DEF CountInv
<1> QED
  BY <1>2, <1>3, <1>4, <1>5, <1>6, <1>7, <1>8 DEF Next, Ticks

\* More misses and more failing calls excuse no less.
LEMMA SlackGrows ==
  ASSUME NEW m \in Nat, NEW n \in Nat, NEW f \in Nat, NEW g \in Nat, m <= n, f <= g,
         m + (f + 1) * Interval > Hour
  PROVE  n + (g + 1) * Interval > Hour
<1> DEFINE F == (f + 1) * Interval
           G == (g + 1) * Interval
<1>1. F \in Nat /\ G \in Nat /\ F <= G
  BY DueSteps
<1>2. m + F > Hour /\ Hour \in Nat
  BY EmitterAssumption
<1> HIDE DEF F, G
<1>3. n + G > Hour
  BY <1>1, <1>2
<1> QED
  BY <1>3 DEF G

\* The age at which the current directory is removed tells what went wrong.
LEMMA SurvivesStep == IInv /\ TimeInv /\ [Next]_vars => SurvivesInv'
<1> SUFFICES ASSUME IInv, TimeInv, [Next]_vars, emission' > 0, cur' \notin onDisk',
                    ~initFailed'
             PROVE  missed' + (faults' + 1) * Interval > Hour
  BY DEF SurvivesInv
<1> USE EmitterAssumption
<1> DEFINE Slack == missed + (faults + 1) * Interval
<1>1. /\ now \in Nat /\ emission \in Nat /\ faults \in Nat /\ missed \in Nat
      /\ cur \in Nat /\ cur \in Dir \cup {0} /\ mtime \in [Dir -> 0..MaxTime]
      /\ faults' \in Nat /\ missed' \in Nat
      /\ pc = "new" <=> emission = 0
  <2>1. TypeOK'
    BY TypeStep DEF IInv
  <2>2. faults' \in Nat /\ missed' \in Nat
    BY <2>1 DEF TypeOK, Numbers
  <2>3. /\ now \in Nat /\ emission \in Nat /\ faults \in Nat /\ missed \in Nat
        /\ cur \in Nat /\ cur \in Dir \cup {0} /\ mtime \in [Dir -> 0..MaxTime]
    BY DEF IInv, TypeOK, Numbers, Dir
  <2>4. pc = "new" <=> emission = 0
    BY Zenon DEF IInv, Numbers
  <2> QED
    BY <2>2, <2>3, <2>4
<1> USE DEF Next, vars, InitBegins, InitFails, InitEnds, Waiting, NoSnapshot, Downsampled,
           EmitBegins, EmitFails, Emit, WriteStats, WriteBaseline, StatsWritten,
           WriteObjects, WriteAgentFile, HandOver, GiveUp, Packed, clockVars, pathVars,
           callVars
<1>2. ~initFailed
  BY Zenon
<1>3. missed' = missed \/ missed' = missed + 1
  BY Zenon
<1>4. faults' = faults \/ faults' = faults + 1
  BY Zenon DEF PutFails, Fault
<1> HIDE DEF Next, vars, InitBegins, InitFails, InitEnds, Waiting, NoSnapshot, Downsampled,
           EmitBegins, EmitFails, Emit, WriteStats, WriteBaseline, StatsWritten,
           WriteObjects, WriteAgentFile, HandOver, GiveUp, Packed, clockVars, pathVars,
           callVars
<1>5. faults <= faults' /\ missed <= missed'
  BY <1>1, <1>3, <1>4
<1>6. SUFFICES Slack > Hour
  BY <1>1, <1>5, SlackGrows, Zenon
<1>7. CASE emission > 0 /\ cur \notin onDisk
  BY <1>2, <1>7 DEF TimeInv, SurvivesInv
<1>8. CASE cur \in onDisk /\ cur' = cur
  <2>1. Stale(cur) /\ pc = "stats"
    <3>1. ~Begins /\ ~InitFails /\ ~EmitFails /\ ~Ticks
      BY <1>1, <1>8 DEF Begins, InitBegins, EmitBegins, InitFails, EmitFails, Ticks, NoSnapshot,
                        Downsampled, diskVars
    <3>2. Kept
      BY <3>1, OtherSteps
    <3>3. cur \in Dir /\ cur \notin Handed
      BY <1>8 DEF IInv, TypeOK, Numbers
    <3> QED
      BY <1>8, <3>2, <3>3 DEF Kept
  <2>2. now - mtime[cur] > Hour /\ cur \in Dir /\ mtime[cur] \in Nat
    BY <1>1, <1>8, <2>1 DEF Stale, IInv, TypeOK
  <2>3. emission > 1
    BY <1>1, <2>1, <2>2 DEF TimeInv, PlanInv
  <2>4. emission <= cur + faults + 1
    BY <1>1, <1>2, <1>8, <2>1, <2>3 DEF TimeInv, CountInv, Attempts, Writing
  <2>5. 10 * (now - Due(emission)) <= 10 - Interval + 10 * missed
    BY <1>1, <2>1, <2>3 DEF TimeInv, PlanInv, Writing
  <2>6. 10 * Due(cur) < 10 * mtime[cur] + Interval
    BY <1>8 DEF TimeInv, AgeInv
  <2>7. /\ Due(emission) <= Due(cur) + (faults + 1) * Interval
        /\ Due(emission) \in Int /\ Due(cur) \in Int /\ (faults + 1) * Interval \in Nat
    BY <1>1, <2>4, DueSteps
  <2> HIDE DEF Due
  <2> QED
    BY <1>1, <2>2, <2>5, <2>6, <2>7
<1>9. CASE cur' # cur
  <2>1. CASE HandOver
    <3>1. cur' = nxt /\ onDisk' = onDisk /\ nxt = emission /\ emission > 1 /\ Writing
      BY <2>1 DEF HandOver, diskVars, Writing, IInv, Numbers
    <3> QED
      BY <3>1 DEF TimeInv, NextInv
  <2>2. CASE ~HandOver
    BY <1>1, <1>2, <1>9, <2>2 DEF Next, vars, InitBegins, InitFails, InitEnds, Waiting, NoSnapshot,
       Downsampled, EmitBegins, EmitFails, Emit, WriteStats, WriteBaseline, StatsWritten,
       WriteObjects, WriteAgentFile, GiveUp, Packed, pathVars
  <2> QED
    BY <2>1, <2>2
<1>10. CASE emission = 0 /\ cur' = cur
  BY <1>1, <1>10 DEF Next, vars, InitBegins, InitFails, InitEnds, Waiting, NoSnapshot,
     Downsampled, Elapse, EmitBegins, EmitFails, Emit, WriteStats, WriteBaseline, StatsWritten,
     WriteObjects, WriteAgentFile, HandOver, GiveUp, Packed, callVars
<1> QED
  BY <1>1, <1>7, <1>8, <1>9, <1>10

LEMMA TimeInvariant == Spec => [](IInv /\ TimeInv)
<1>1. Init => TimeInv
  <2> SUFFICES ASSUME Init PROVE TimeInv
    OBVIOUS
  <2> USE EmitterAssumption DEF Init
  <2>1. PlanInv /\ AgeInv /\ NextInv /\ CountInv /\ SurvivesInv
    BY DEF PlanInv, AgeInv, NextInv, CountInv, SurvivesInv, Writing, Dir
  <2> QED
    BY <2>1 DEF TimeInv
<1>2. IInv /\ TimeInv /\ [Next]_vars => TimeInv'
  BY PlanStep, AgeStep, NextStep, CountStep, SurvivesStep DEF TimeInv
<1> QED
  BY <1>1, <1>2, InvInit, InvStep, PTL DEF Spec

\* Emissions keep to the plan of one per interval, early by at most a tenth of it
\* and late by at most the missed snapshots (shouldDownsample, Emit).
THEOREM EmissionsOnPlan == Spec => []OnPlan
<1>1. IInv /\ TimeInv => OnPlan
  <2> SUFFICES ASSUME IInv, TimeInv, emission \in 1..(MaxEmissions - 1)
               PROVE  /\ 10 * Due(emission) <= 10 * now + Interval
                      /\ 10 * (now - Due(emission)) <= 9 * Interval + 10 * missed
    BY DEF OnPlan, Due
  <2>1. lastEmission = Due(emission) /\ lastEmission \in Nat /\ now \in Nat
    BY EmitterAssumption DEF TimeInv, PlanInv, IInv, TypeOK
  <2> QED
    BY <2>1, EmitterAssumption DEF TimeInv, PlanInv
<1> QED
  BY <1>1, TimeInvariant, PTL

\* ClearOldScratchSamples takes the directory being filled only after missed
\* snapshots and failing calls that together last longer than an hour.
THEOREM CurrentDirectorySurvives == Spec => []CurrentSurvives
<1>1. TimeInv => CurrentSurvives
  BY DEF TimeInv, SurvivesInv, CurrentSurvives
<1> QED
  BY <1>1, TimeInvariant, PTL
==============================================================================
