------------------------- MODULE CldyUploaderProofs -------------------------
(***************************************************************************)
(* Proofs about CldyUploader: type correctness, and the inductive          *)
(* invariant behind NoSilentLoss, Accounted and QueueSound.                *)
(***************************************************************************)
EXTENDS CldyUploader, TLAPS

-----------------------------------------------------------------------------
(* The inductive invariant, one part per phase of the upload goroutine.    *)

\* Who is running: recovery happens in its own phases and with an empty queue.
PhaseInv ==
  /\ pc \in {"walk", "uploads"} => recovering
  /\ pc \in {"down", "wait", "skip", "drain", "shipped"} => ~recovering
  /\ recovering => uploadSet = {}
  /\ pc = "down" => sampleSet = {} /\ uploadSet = {}

\* Recovery works on one sample at a time, and finds no directory being filled.
WalkInv ==
  /\ recovering \/ pc = "down" => \A s \in Sample : dir[s] # "open"
  /\ pc = "walk" => sampleSet = {}
  /\ recovering /\ pc = "collect" => \E s \in Sample : sampleSet = {s}
  /\ recovering /\ pc \in {"space", "pack"} => sampleSet \subseteq files
  /\ recovering /\ pc = "remove" => sampleSet \subseteq todo
  /\ recovering /\ pc = "return" => sampleSet = {}

\* A tar has a path while it is built and while it is shipped.
PathInv == pc \in {"space", "pack", "remove", "return", "shipped"} => path \in Path

\* The tar under construction is torn, fresh and unknown to the queue until
\* everything is packed; directories are removed only once it is whole.
PackInv ==
  /\ pc \in {"space", "pack", "remove", "return"} =>
       /\ todo \subseteq files
       /\ path \in Sample => files \subseteq {path}
  /\ pc \in {"space", "pack"} =>
       /\ tar[path] = "torn" /\ path \notin uploadSet \cup aged
       /\ files \ todo \subseteq content[path]
  /\ pc = "space" => todo = files
  /\ pc = "remove" =>
       tar[path] = "none" \/ (tar[path] = "whole" /\ files \subseteq content[path])
  /\ pc = "return" => tar[path] = "whole"

\* What has been shipped is accepted before its file goes.
ShipInv == pc = "shipped" => content[path] \subseteq accepted

\* A tar named after a sample holds nothing but that sample, so truncating it to
\* build it again cannot take another sample's copy with it.
NameInv == \A s \in Sample : content[s] \subseteq {s}

TypeInv == TypeOK /\ PathInv

PhasesInv == PhaseInv /\ WalkInv /\ PackInv /\ ShipInv /\ NameInv

\* All of it rests on the environment's promise that no tar is built in the second
\* of an existing one: os.Create would truncate that tar.
IInv == ClockMovesOn /\ TypeInv /\ PhasesInv /\ QueueSound /\ Accounted

-----------------------------------------------------------------------------
(* Every step keeps the types, and a path wherever one is needed.          *)

\* The path of a tar under construction is never missing when it is queued or removed.
LEMMA TypeStep == TypeInv /\ [Next]_vars => TypeInv'
<1> SUFFICES ASSUME TypeInv, [Next]_vars PROVE TypeInv'
  OBVIOUS
<1> USE UploaderAssumption DEF UploaderAssumption, Path, PC, tarVars, diskVars,
           setVars, modeVars, payloadVars, drainVars, ghostVars, boundVars, obsVars, 
           TypeInv, TypeOK, PathInv
<1>1. ASSUME Tick \/ SkipTick \/ SpaceOK \/ BuildServices PROVE TypeInv'
  BY <1>1 DEF Tick, SkipTick, SpaceOK, BuildServices
<1>2. ASSUME OpenFails \/ ConstructFault \/ PackDone \/ RemoveDone \/ QueueTar
      PROVE  TypeInv'
  BY <1>2 DEF OpenFails, ConstructFault, PackDone, RemoveDone, QueueTar, GiveUp,
         Omitted
<1>3. ASSUME Abandon \/ DrainEnds \/ RemoveTar \/ RemoveTarFault PROVE TypeInv'
  BY <1>3 DEF Abandon, DrainEnds, RemoveTar, RemoveTarFault, EndDrain
<1>4. ASSUME Restart PROVE TypeInv'
  BY <1>4 DEF Restart
<1>5. ASSUME WalkOn \/ WalkEnds \/ WalkNested PROVE TypeInv'
  BY <1>5 DEF WalkOn, WalkEnds, WalkNested, OnScratch
<1>6. ASSUME NEW s \in Sample, OpenSample(s) \/ HandOver(s) PROVE TypeInv'
  <2>1. CASE OpenSample(s)
    BY <2>1 DEF OpenSample, EmitterRuns, Unused
  <2>2. CASE HandOver(s)
    BY <2>2 DEF HandOver, EmitterRuns
  <2> QED
    BY <1>6, <2>1, <2>2
<1>7. ASSUME NEW s \in Sample, PackSample(s) \/ PackMissing(s) PROVE TypeInv'
  BY <1>7 DEF PackSample, PackMissing, GiveUp
<1>8. ASSUME NEW s \in Sample, RemoveSample(s) \/ RemoveFault(s) PROVE TypeInv'
  BY <1>8 DEF RemoveSample, RemoveFault, Omitted, GiveUp
<1>9. ASSUME NEW s \in Sample, WalkComplete(s) \/ WalkIncomplete(s) \/ WalkMisread(s)
      PROVE  TypeInv'
  BY <1>9 DEF WalkComplete, WalkIncomplete, WalkMisread, OnScratch
<1>10. ASSUME NEW p \in Path, TarGone(p) \/ UploadOK(p) \/ UploadFails(p) \/
            UploadAnswerLost(p)
      PROVE  TypeInv'
  BY <1>10 DEF TarGone, UploadOK, UploadFails, UploadAnswerLost, Trying
<1>11. ASSUME NEW p \in Path, AgeTar(p) \/ ExpireTar(p) \/ RemovedOutside(p)
      PROVE  TypeInv'
  BY <1>11 DEF AgeTar, ExpireTar, RemovedOutside, OnScratch
<1>12. ASSUME PurgeForget PROVE TypeInv'
  BY <1>12 DEF PurgeForget, EmitterRuns
<1>13. ASSUME ClearOldUploads PROVE TypeInv'
  BY <1>13 DEF ClearOldUploads, Reclaimable, WholeContent
<1>14. ASSUME NEW s \in Sample, PurgeDir(s) PROVE TypeInv'
  BY <1>14 DEF PurgeDir, EmitterRuns
<1>15. ASSUME NEW p \in Path, CreateTar(p) PROVE TypeInv'
  BY <1>15 DEF CreateTar, OwnName, TakenName
<1>16. ASSUME Crash PROVE TypeInv'
  <2>1. PICK last \in {"cut", "full"} :
          dir' = [s \in Sample |-> IF dir[s] = "open" THEN last ELSE dir[s]]
    BY <1>16 DEF Crash
  <2>2. dir' \in [Sample -> {"none", "open", "cut", "full"}]
    BY <2>1
  <2>3. crashes' \in 0..MaxCrashes
    BY <1>16 DEF Crash
  <2>4. /\ UNCHANGED <<tar, content, aged, expired, ghostVars, faults>>
        /\ pc' = "down" /\ recovering' = FALSE /\ services' = FALSE
        /\ first' = TRUE /\ purging' = None /\ path' = None
        /\ sampleSet' = {} /\ uploadSet' = {} /\ files' = {} /\ todo' = {}
        /\ keys' = {} /\ done' = {}
    BY <1>16 DEF Crash
  <2>. QED
    BY <2>2, <2>3, <2>4
<1>17. ASSUME RecoverUploads PROVE TypeInv'
  <2>1. PICK seen \in SUBSET Path, misread \in SUBSET Path :
          LET stale == {p \in seen : p \in expired \/ tar[p] = "torn"}
              gone  == stale \cup misread IN
          /\ uploadSet' = uploadSet \cup (seen \ gone)
          /\ dropped' = dropped \cup WholeContent(stale)
          /\ unread' = unread \cup WholeContent(misread)
          /\ tar' = [p \in Path |-> IF p \in gone THEN "none" ELSE tar[p]]
          /\ content' = [p \in Path |-> IF p \in gone THEN {} ELSE content[p]]
          /\ aged' = aged \ gone
    BY <1>17 DEF RecoverUploads
  <2>2. dropped' \subseteq Sample /\ unread' \subseteq Sample
    BY <2>1 DEF WholeContent
  <2>3. tar' \in [Path -> {"none", "torn", "whole"}]
    BY <2>1
  <2>4. content' \in [Path -> SUBSET Sample]
    BY <2>1
  <2>5. uploadSet' \subseteq Path /\ aged' \subseteq Path
    BY <2>1
  <2>6. faults' \in 0..MaxFaults
    BY <1>17 DEF RecoverUploads
  <2>7. /\ pc' = "wait" /\ recovering' = FALSE
        /\ UNCHANGED <<dir, expired, sampleSet, services, first, purging,
                       payloadVars, drainVars, handed, accepted, repeated,
                       wiped, crashes>>
    BY <1>17 DEF RecoverUploads
  <2>. QED
    BY <2>2, <2>3, <2>4, <2>5, <2>6, <2>7
<1>18. ASSUME UNCHANGED vars PROVE TypeInv'
  BY <1>18 DEF vars
<1>. QED
  BY <1>1, <1>2, <1>3, <1>4, <1>5, <1>6, <1>7, <1>8, <1>9, <1>10, <1>11, <1>12,
     <1>13, <1>14, <1>15, <1>16, <1>17, <1>18
     DEF Next, EmitterNext, ConstructNext, DrainNext, RecoverNext

-----------------------------------------------------------------------------
(* ... the phases of the upload goroutine, ...                             *)

\* Each phase hands the next what it relies on.
LEMMA PhasesStep == IInv /\ TypeInv' /\ [Next]_vars => PhasesInv'
<1> SUFFICES ASSUME IInv /\ TypeInv', [Next]_vars PROVE PhasesInv'
  OBVIOUS
<1> USE UploaderAssumption DEF UploaderAssumption, Path, PC, tarVars, diskVars,
           setVars, modeVars, payloadVars, drainVars, ghostVars, boundVars, obsVars, IInv,
           PhasesInv, TypeInv, TypeOK, PathInv, PhaseInv, WalkInv, PackInv,
           ShipInv, NameInv
<1>1. ASSUME Tick \/ SkipTick \/ SpaceOK \/ BuildServices PROVE PhasesInv'
  BY <1>1 DEF Tick, SkipTick, SpaceOK, BuildServices
<1>2. ASSUME OpenFails \/ ConstructFault \/ PackDone \/ RemoveDone \/ QueueTar
      PROVE  PhasesInv'
  BY <1>2 DEF OpenFails, ConstructFault, PackDone, RemoveDone, QueueTar, GiveUp,
         Omitted
<1>3. ASSUME Abandon \/ DrainEnds \/ RemoveTar \/ RemoveTarFault PROVE PhasesInv'
  BY <1>3 DEF Abandon, DrainEnds, RemoveTar, RemoveTarFault, EndDrain
<1>4. ASSUME Crash \/ Restart PROVE PhasesInv'
  BY <1>4 DEF Crash, Restart
<1>5. ASSUME WalkOn \/ WalkEnds \/ WalkNested PROVE PhasesInv'
  BY <1>5 DEF WalkOn, WalkEnds, WalkNested, OnScratch
<1>6. ASSUME NEW s \in Sample, OpenSample(s) \/ HandOver(s) \/ PurgeDir(s)
      PROVE  PhasesInv'
  BY <1>6 DEF OpenSample, HandOver, PurgeDir, EmitterRuns, Unused
<1>7. ASSUME NEW s \in Sample, PackSample(s) \/ PackMissing(s) PROVE PhasesInv'
  BY <1>7 DEF PackSample, PackMissing, GiveUp
<1>8. ASSUME NEW s \in Sample, RemoveSample(s) \/ RemoveFault(s) PROVE PhasesInv'
  BY <1>8 DEF RemoveSample, RemoveFault, Omitted, GiveUp
<1>9. ASSUME NEW s \in Sample, WalkComplete(s) \/ WalkIncomplete(s) \/ WalkMisread(s)
      PROVE  PhasesInv'
  BY <1>9 DEF WalkComplete, WalkIncomplete, WalkMisread, OnScratch
<1>10. ASSUME NEW p \in Path, TarGone(p) \/ UploadOK(p) \/ UploadFails(p) \/
            UploadAnswerLost(p)
      PROVE  PhasesInv'
  BY <1>10 DEF TarGone, UploadOK, UploadFails, UploadAnswerLost, Trying
<1>11. ASSUME NEW p \in Path, AgeTar(p) \/ ExpireTar(p) \/ RemovedOutside(p)
      PROVE  PhasesInv'
  BY <1>11 DEF AgeTar, ExpireTar, RemovedOutside, OnScratch
<1>12. ASSUME PurgeForget PROVE PhasesInv'
  BY <1>12 DEF PurgeForget, EmitterRuns
<1>13. ASSUME RecoverUploads PROVE PhasesInv'
  BY <1>13 DEF RecoverUploads, WholeContent
<1>14. ASSUME NEW p \in Path, CreateTar(p) PROVE PhasesInv'
  BY <1>14 DEF CreateTar, OwnName, TakenName
<1>15. ASSUME ClearOldUploads PROVE PhasesInv'
  <2>1. PICK omit \in BOOLEAN :
          LET gone == IF omit THEN Reclaimable \cup {path} ELSE Reclaimable IN
          /\ tar' = [p \in Path |-> IF p \in gone THEN "none" ELSE tar[p]]
          /\ content' = [p \in Path |-> IF p \in gone THEN {} ELSE content[p]]
          /\ aged' = aged \ gone
          /\ pc' = IF omit THEN "remove" ELSE "pack"
    BY <1>15 DEF ClearOldUploads
  <2>2. path \in Path /\ path \notin Reclaimable
    BY <1>15 DEF ClearOldUploads, Reclaimable
  <2>3. CASE omit
    <3>1. tar'[path] = "none" /\ pc' = "remove"
      BY <2>1, <2>2, <2>3
    <3>2. \A q \in Path : content'[q] \subseteq content[q]
      BY <2>1, <2>3
    <3>3. UNCHANGED <<dir, sampleSet, recovering, files, todo, path>>
      BY <1>15 DEF ClearOldUploads
    <3>4. pc = "space" /\ uploadSet' \subseteq uploadSet
      BY <1>15 DEF ClearOldUploads
    <3>5. PhaseInv' /\ WalkInv'
      BY <3>1, <3>3, <3>4
    <3>6. PackInv' /\ ShipInv' /\ NameInv'
      BY <3>1, <3>2, <3>3, <3>4
    <3>. QED
      BY <3>5, <3>6
  <2>4. CASE ~omit
    BY <1>15, <2>1, <2>2, <2>4 DEF ClearOldUploads
  <2>. QED
    BY <2>3, <2>4
<1>16. ASSUME UNCHANGED vars PROVE PhasesInv'
  BY <1>16 DEF vars
<1>. QED
  BY <1>1, <1>2, <1>3, <1>4, <1>5, <1>6, <1>7, <1>8, <1>9, <1>10, <1>11, <1>12,
     <1>13, <1>14, <1>15, <1>16
     DEF Next, EmitterNext, ConstructNext, DrainNext, RecoverNext

-----------------------------------------------------------------------------
(* ... the soundness of the queue, ...                                     *)

\* A torn tar never enters the queue and a queued tar never becomes torn.
LEMMA QueueStep == IInv /\ TypeInv' /\ [Next]_vars => QueueSound'
<1> SUFFICES ASSUME IInv /\ TypeInv', [Next]_vars PROVE QueueSound'
  OBVIOUS
<1> USE UploaderAssumption DEF UploaderAssumption, Path, PC, tarVars, diskVars,
           setVars, modeVars, payloadVars, drainVars, ghostVars, boundVars, obsVars, IInv,
           PhasesInv, TypeInv, TypeOK, PathInv, PhaseInv, PackInv, QueueSound
<1>1. ASSUME Tick \/ SkipTick \/ SpaceOK \/ BuildServices PROVE QueueSound'
  BY <1>1 DEF Tick, SkipTick, SpaceOK, BuildServices
<1>2. ASSUME OpenFails \/ ConstructFault \/ PackDone \/ RemoveDone \/ QueueTar
      PROVE  QueueSound'
  BY <1>2 DEF OpenFails, ConstructFault, PackDone, RemoveDone, QueueTar, GiveUp,
         Omitted
<1>3. ASSUME Abandon \/ DrainEnds \/ RemoveTar \/ RemoveTarFault PROVE QueueSound'
  BY <1>3 DEF Abandon, DrainEnds, RemoveTar, RemoveTarFault, EndDrain
<1>4. ASSUME Crash \/ Restart PROVE QueueSound'
  BY <1>4 DEF Crash, Restart
<1>5. ASSUME WalkOn \/ WalkEnds \/ WalkNested PROVE QueueSound'
  BY <1>5 DEF WalkOn, WalkEnds, WalkNested, OnScratch
<1>6. ASSUME NEW s \in Sample, OpenSample(s) \/ HandOver(s) \/ PurgeDir(s)
      PROVE  QueueSound'
  BY <1>6 DEF OpenSample, HandOver, PurgeDir, EmitterRuns, Unused
<1>7. ASSUME NEW s \in Sample, PackSample(s) \/ PackMissing(s) PROVE QueueSound'
  BY <1>7 DEF PackSample, PackMissing, GiveUp
<1>8. ASSUME NEW s \in Sample, RemoveSample(s) \/ RemoveFault(s) PROVE QueueSound'
  BY <1>8 DEF RemoveSample, RemoveFault, Omitted, GiveUp
<1>9. ASSUME NEW s \in Sample, WalkComplete(s) \/ WalkIncomplete(s) \/ WalkMisread(s)
      PROVE  QueueSound'
  BY <1>9 DEF WalkComplete, WalkIncomplete, WalkMisread, OnScratch
<1>10. ASSUME NEW p \in Path, TarGone(p) \/ UploadOK(p) \/ UploadFails(p) \/
            UploadAnswerLost(p)
      PROVE  QueueSound'
  BY <1>10 DEF TarGone, UploadOK, UploadFails, UploadAnswerLost, Trying
<1>11. ASSUME NEW p \in Path, AgeTar(p) \/ ExpireTar(p) \/ RemovedOutside(p)
      PROVE  QueueSound'
  BY <1>11 DEF AgeTar, ExpireTar, RemovedOutside, OnScratch
<1>12. ASSUME PurgeForget PROVE QueueSound'
  BY <1>12 DEF PurgeForget, EmitterRuns
<1>13. ASSUME ClearOldUploads PROVE QueueSound'
  BY <1>13 DEF ClearOldUploads, Reclaimable, WholeContent
<1>14. ASSUME RecoverUploads PROVE QueueSound'
  BY <1>14 DEF RecoverUploads, WholeContent
<1>15. ASSUME NEW p \in Path, CreateTar(p) PROVE QueueSound'
  BY <1>15 DEF CreateTar, OwnName, TakenName
<1>16. ASSUME UNCHANGED vars PROVE QueueSound'
  BY <1>16 DEF vars
<1>. QED
  BY <1>1, <1>2, <1>3, <1>4, <1>5, <1>6, <1>7, <1>8, <1>9, <1>10, <1>11, <1>12,
     <1>13, <1>14, <1>15, <1>16
     DEF Next, EmitterNext, ConstructNext, DrainNext, RecoverNext

-----------------------------------------------------------------------------
(* ... and the account of every sample.                                    *)

\* A copy of a sample disappears only when another is in place or it is accounted for.
LEMMA AccountedStep == IInv /\ TypeInv' /\ [Next]_vars => Accounted'
<1> SUFFICES ASSUME IInv /\ TypeInv', [Next]_vars PROVE Accounted'
  OBVIOUS
<1> USE UploaderAssumption DEF UploaderAssumption, Path, PC, tarVars, diskVars,
           setVars, modeVars, payloadVars, drainVars, ghostVars, boundVars, obsVars, IInv,
           PhasesInv, TypeInv, TypeOK, PathInv, PhaseInv, WalkInv, PackInv,
           ShipInv, NameInv, Accounted, Held, OnScratch
<1>1. ASSUME Tick \/ SkipTick \/ SpaceOK \/ BuildServices PROVE Accounted'
  BY <1>1 DEF Tick, SkipTick, SpaceOK, BuildServices
<1>2. ASSUME OpenFails \/ ConstructFault \/ PackDone \/ RemoveDone \/ QueueTar
      PROVE  Accounted'
  BY <1>2 DEF OpenFails, ConstructFault, PackDone, RemoveDone, QueueTar, GiveUp,
         Omitted
<1>3. ASSUME Abandon \/ DrainEnds \/ RemoveTar \/ RemoveTarFault PROVE Accounted'
  BY <1>3 DEF Abandon, DrainEnds, RemoveTar, RemoveTarFault, EndDrain
<1>4. ASSUME Crash \/ Restart PROVE Accounted'
  BY <1>4 DEF Crash, Restart
<1>5. ASSUME WalkOn \/ WalkEnds \/ WalkNested PROVE Accounted'
  BY <1>5 DEF WalkOn, WalkEnds, WalkNested, OnScratch
<1>6. ASSUME NEW s \in Sample, OpenSample(s) \/ HandOver(s) \/ PurgeDir(s)
      PROVE  Accounted'
  BY <1>6 DEF OpenSample, HandOver, PurgeDir, EmitterRuns, Unused
<1>7. ASSUME NEW s \in Sample, PackSample(s) \/ PackMissing(s) PROVE Accounted'
  BY <1>7 DEF PackSample, PackMissing, GiveUp
<1>8. ASSUME NEW s \in Sample, RemoveSample(s) \/ RemoveFault(s) PROVE Accounted'
  BY <1>8 DEF RemoveSample, RemoveFault, Omitted, GiveUp
<1>9. ASSUME NEW s \in Sample, WalkComplete(s) \/ WalkIncomplete(s) \/ WalkMisread(s)
      PROVE  Accounted'
  BY <1>9 DEF WalkComplete, WalkIncomplete, WalkMisread, OnScratch
<1>10. ASSUME NEW p \in Path, TarGone(p) \/ UploadOK(p) \/ UploadFails(p) \/
            UploadAnswerLost(p)
      PROVE  Accounted'
  BY <1>10 DEF TarGone, UploadOK, UploadFails, UploadAnswerLost, Trying
<1>11. ASSUME NEW p \in Path, AgeTar(p) \/ ExpireTar(p) \/ RemovedOutside(p)
      PROVE  Accounted'
  BY <1>11 DEF AgeTar, ExpireTar, RemovedOutside, OnScratch
<1>12. ASSUME PurgeForget PROVE Accounted'
  BY <1>12 DEF PurgeForget, EmitterRuns
<1>13. ASSUME RecoverUploads PROVE Accounted'
  BY <1>13 DEF RecoverUploads, WholeContent
<1>14. ASSUME NEW p \in Path, CreateTar(p) PROVE Accounted'
  BY <1>14 DEF CreateTar, OwnName, TakenName
<1>15. ASSUME ClearOldUploads PROVE Accounted'
  <2>. SUFFICES ASSUME NEW s \in handed', s \notin accepted' \cup dropped' \cup unread' \cup wiped'
                PROVE  Held(s)'
    BY DEF Accounted
  <2>1. PICK omit \in BOOLEAN :
          LET gone == IF omit THEN Reclaimable \cup {path} ELSE Reclaimable IN
          /\ tar' = [p \in Path |-> IF p \in gone THEN "none" ELSE tar[p]]
          /\ content' = [p \in Path |-> IF p \in gone THEN {} ELSE content[p]]
    BY <1>15 DEF ClearOldUploads
  <2>2. s \notin WholeContent(Reclaimable) /\ Held(s)
    BY <1>15 DEF ClearOldUploads
  <2>3. CASE OnScratch(s)
    BY <1>15, <2>3 DEF ClearOldUploads
  <2>4. CASE ~OnScratch(s)
    <3>1. PICK p \in Path : tar[p] = "whole" /\ s \in content[p]
      BY <2>2, <2>4
    <3>2. p \notin Reclaimable
      BY <2>2, <3>1 DEF WholeContent
    <3>3. p # path
      BY <1>15, <3>1 DEF ClearOldUploads
    <3>4. tar'[p] = tar[p] /\ content'[p] = content[p]
      BY <2>1, <3>2, <3>3
    <3>. QED
      BY <3>1, <3>4
  <2>. QED
    BY <2>3, <2>4
<1>16. ASSUME UNCHANGED vars PROVE Accounted'
  BY <1>16 DEF vars
<1>. QED
  BY <1>1, <1>2, <1>3, <1>4, <1>5, <1>6, <1>7, <1>8, <1>9, <1>10, <1>11, <1>12,
     <1>13, <1>14, <1>15, <1>16
     DEF Next, EmitterNext, ConstructNext, DrainNext, RecoverNext

-----------------------------------------------------------------------------
(* The theorems.                                                           *)

LEMMA InitTypeInv == Init => TypeInv
<1> SUFFICES ASSUME Init PROVE TypeInv
  OBVIOUS
<1> USE UploaderAssumption DEF UploaderAssumption, Path, PC, Init
<1>1. /\ dir \in [Sample -> {"none", "open", "cut", "full"}]
      /\ tar \in [Path -> {"none", "torn", "whole"}]
      /\ content \in [Path -> SUBSET Sample]
  OBVIOUS
<1>2. faults \in 0..MaxFaults /\ crashes \in 0..MaxCrashes
  OBVIOUS
<1>. QED
  BY <1>1, <1>2 DEF TypeInv, TypeOK, PathInv

LEMMA InitIInv == ClockMovesOn /\ Init => IInv
<1> SUFFICES ASSUME ClockMovesOn, Init PROVE IInv
  OBVIOUS
<1> USE UploaderAssumption DEF UploaderAssumption, Path, PC, Init
<1>1. TypeInv
  BY InitTypeInv
<1>2. PhasesInv
  BY DEF PhasesInv, PhaseInv, WalkInv, PackInv, ShipInv, NameInv
<1>3. QueueSound /\ Accounted
  BY DEF QueueSound, Accounted
<1>. QED
  BY <1>1, <1>2, <1>3 DEF IInv

LEMMA NextIInv == IInv /\ [Next]_vars => IInv'
<1> SUFFICES ASSUME IInv, [Next]_vars PROVE IInv'
  OBVIOUS
<1>1. ClockMovesOn /\ TypeInv'
  BY TypeStep DEF IInv
<1>. QED
  BY <1>1, PhasesStep, QueueStep, AccountedStep DEF IInv

LEMMA Invariance == ASSUME ClockMovesOn PROVE Spec => []IInv
  BY InitIInv, NextIInv, PTL DEF Spec

\* Every variable keeps its type, in both layouts and for every bound: in
\* particular the queue only ever holds paths (uploader.go, uploadLoop). Whatever the clock does.
THEOREM TypeCorrect == Spec => []TypeOK
<1>1. TypeInv => TypeOK
  BY DEF TypeInv
<1>. QED
  BY <1>1, InitTypeInv, TypeStep, PTL DEF Spec

\* No crash, failing call or purge ever leaves a truncated tar in uploadSet
\* (uploader.go, ConstructPayload, recoverUploadFiles).
THEOREM QueueAlwaysSound ==
  ASSUME ClockMovesOn
  PROVE  Spec => []QueueSound
<1>1. IInv => QueueSound
  BY DEF IInv
<1>. QED
  BY <1>1, Invariance, PTL

\* Every sample handed to AddSample has a copy on disk, was accepted, was
\* discarded by a stated rule, or was wiped by the walk over a nested scratch
\* directory (uploader.go, ConstructPayload, UploadData, recoverDataOnStartup).
THEOREM EverySampleAccounted ==
  ASSUME ClockMovesOn
  PROVE  Spec => []Accounted
<1>1. IInv => Accounted
  BY DEF IInv
<1>. QED
  BY <1>1, Invariance, PTL

\* In the flat layout the walk wipes nothing.
LEMMA FlatWipesNothing ==
  ASSUME ~Nested
  PROVE  Spec => [](wiped = {})
<1>1. Init => wiped = {}
  BY DEF Init
<1>2. wiped = {} /\ [Next]_vars => (wiped = {})'
  BY DEF Next, EmitterNext, ConstructNext, DrainNext, RecoverNext, vars,
         tarVars, diskVars, setVars, modeVars, payloadVars, drainVars,
         ghostVars, boundVars, obsVars,
         OpenSample, HandOver, PurgeDir, PurgeForget, Tick, SkipTick,
         CreateTar, OwnName, TakenName, OpenFails, SpaceOK, ClearOldUploads, PackSample,
         PackMissing, PackDone, RemoveSample, RemoveFault, RemoveDone,
         ConstructFault, QueueTar, BuildServices, Abandon, TarGone, UploadOK,
         UploadFails, UploadAnswerLost, RemoveTar, RemoveTarFault, DrainEnds, Crash, Restart,
         WalkComplete, WalkIncomplete, WalkMisread, WalkOn, WalkNested, WalkEnds,
         RecoverUploads, AgeTar, ExpireTar, RemovedOutside
<1>. QED
  BY <1>1, <1>2, PTL DEF Spec

\* With samples directly below scratch, no interleaving of uploader, emitter,
\* crashes and failing calls loses a sample silently (the claim the nested
\* layout of production refutes).
THEOREM FlatLosesNothing ==
  ASSUME ClockMovesOn, ~Nested
  PROVE  Spec => []NoSilentLoss
<1>1. Accounted /\ wiped = {} => NoSilentLoss
  BY DEF Accounted, NoSilentLoss
<1>. QED
  BY <1>1, EverySampleAccounted, FlatWipesNothing, PTL

-----------------------------------------------------------------------------
(* What DeliveredOnce, NothingForgotten and the refinement need beside it:  *)
(* what is in memory at each place, what a file holds, who knows a sample.  *)

Building == pc \in {"space", "pack", "remove", "return"}

\* Files, a path and queue entries are in memory only where they are worked on.
SlotInv ==
  /\ ~Building /\ pc # "shipped" => path = None
  /\ ~Building => files = {} /\ todo = {}
  /\ pc \notin {"drain", "shipped"} => keys = {} /\ done = {}
  /\ recovering \/ pc = "down" => purging = None

\* A file that is gone holds nothing; a pass works on queued tars, and what it has
\* done with is gone.
FileInv ==
  /\ \A p \in Path : tar[p] = "none" => content[p] = {}
  /\ pc = "space" => content[path] = {}
  /\ pc = "shipped" => tar[path] = "whole" /\ path \notin keys
  /\ keys \subseteq uploadSet
  /\ \A p \in done : tar[p] = "none"

\* Only samples that were handed over are packed, queued or accepted; the one being
\* filled is not among them, nor is it being purged.
HandedInv ==
  /\ sampleSet \cup files \cup accepted \subseteq handed
  /\ \A p \in Path : content[p] \subseteq handed
  /\ \A s \in Sample : dir[s] = "open" => s \notin handed /\ s # purging

BooksInv == SlotInv /\ FileInv /\ HandedInv

\* Memory is cleared where a call or a pass ends, and by a crash.
LEMMA SlotStep == IInv /\ SlotInv /\ [Next]_vars => SlotInv'
<1> SUFFICES ASSUME IInv /\ SlotInv, [Next]_vars PROVE SlotInv'
  OBVIOUS
<1> USE UploaderAssumption DEF UploaderAssumption, Path, PC, tarVars, diskVars,
           setVars, modeVars, payloadVars, drainVars, ghostVars, boundVars, obsVars,
           IInv, PhasesInv, TypeInv, TypeOK, PathInv, PhaseInv, WalkInv, PackInv,
           ShipInv, SlotInv, Building
<1>1. ASSUME Tick \/ SkipTick \/ SpaceOK \/ BuildServices PROVE SlotInv'
  BY <1>1 DEF Tick, SkipTick, SpaceOK, BuildServices
<1>2. ASSUME OpenFails \/ ConstructFault \/ PackDone \/ RemoveDone \/ QueueTar
      PROVE  SlotInv'
  BY <1>2 DEF OpenFails, ConstructFault, PackDone, RemoveDone, QueueTar, GiveUp,
         Omitted
<1>3. ASSUME Abandon \/ DrainEnds \/ RemoveTar \/ RemoveTarFault PROVE SlotInv'
  BY <1>3 DEF Abandon, DrainEnds, RemoveTar, RemoveTarFault, EndDrain
<1>4. ASSUME Crash \/ Restart PROVE SlotInv'
  BY <1>4 DEF Crash, Restart
<1>5. ASSUME WalkOn \/ WalkEnds \/ WalkNested PROVE SlotInv'
  BY <1>5 DEF WalkOn, WalkEnds, WalkNested, OnScratch
<1>6. ASSUME NEW s \in Sample, OpenSample(s) \/ HandOver(s) \/ PurgeDir(s)
      PROVE  SlotInv'
  BY <1>6 DEF OpenSample, HandOver, PurgeDir, EmitterRuns, Unused
<1>7. ASSUME NEW s \in Sample, PackSample(s) \/ PackMissing(s) PROVE SlotInv'
  BY <1>7 DEF PackSample, PackMissing, GiveUp
<1>8. ASSUME NEW s \in Sample, RemoveSample(s) \/ RemoveFault(s) PROVE SlotInv'
  BY <1>8 DEF RemoveSample, RemoveFault, Omitted, GiveUp
<1>9. ASSUME NEW s \in Sample, WalkComplete(s) \/ WalkIncomplete(s) \/ WalkMisread(s)
      PROVE  SlotInv'
  BY <1>9 DEF WalkComplete, WalkIncomplete, WalkMisread, OnScratch
<1>10. ASSUME NEW p \in Path, TarGone(p) \/ UploadOK(p) \/ UploadFails(p) \/
            UploadAnswerLost(p)
      PROVE  SlotInv'
  BY <1>10 DEF TarGone, UploadOK, UploadFails, UploadAnswerLost, Trying
<1>11. ASSUME NEW p \in Path, AgeTar(p) \/ ExpireTar(p) \/ RemovedOutside(p)
      PROVE  SlotInv'
  BY <1>11 DEF AgeTar, ExpireTar, RemovedOutside, OnScratch
<1>12. ASSUME PurgeForget PROVE SlotInv'
  BY <1>12 DEF PurgeForget, EmitterRuns
<1>13. ASSUME ClearOldUploads PROVE SlotInv'
  BY <1>13 DEF ClearOldUploads, Reclaimable, WholeContent
<1>14. ASSUME RecoverUploads PROVE SlotInv'
  BY <1>14 DEF RecoverUploads, WholeContent
<1>15. ASSUME NEW p \in Path, CreateTar(p) PROVE SlotInv'
  BY <1>15 DEF CreateTar, OwnName, TakenName
<1>16. ASSUME UNCHANGED vars PROVE SlotInv'
  BY <1>16 DEF vars
<1>. QED
  BY <1>1, <1>2, <1>3, <1>4, <1>5, <1>6, <1>7, <1>8, <1>9, <1>10, <1>11, <1>12,
     <1>13, <1>14, <1>15, <1>16
     DEF Next, EmitterNext, ConstructNext, DrainNext, RecoverNext

\* A file's content goes with the file.
LEMMA FileStep == IInv /\ SlotInv /\ FileInv /\ [Next]_vars => FileInv'
<1> SUFFICES ASSUME IInv /\ SlotInv /\ FileInv, [Next]_vars PROVE FileInv'
  OBVIOUS
<1> USE UploaderAssumption DEF UploaderAssumption, Path, PC, tarVars, diskVars,
           setVars, modeVars, payloadVars, drainVars, ghostVars, boundVars, obsVars,
           IInv, PhasesInv, TypeInv, TypeOK, PathInv, PhaseInv, WalkInv, PackInv,
           ShipInv, SlotInv, FileInv, Building, QueueSound
<1>1. ASSUME Tick \/ SkipTick \/ SpaceOK \/ BuildServices PROVE FileInv'
  BY <1>1 DEF Tick, SkipTick, SpaceOK, BuildServices
<1>2. ASSUME OpenFails \/ ConstructFault \/ PackDone \/ RemoveDone \/ QueueTar
      PROVE  FileInv'
  BY <1>2 DEF OpenFails, ConstructFault, PackDone, RemoveDone, QueueTar, GiveUp,
         Omitted
<1>3. ASSUME Abandon \/ DrainEnds \/ RemoveTar \/ RemoveTarFault PROVE FileInv'
  BY <1>3 DEF Abandon, DrainEnds, RemoveTar, RemoveTarFault, EndDrain
<1>4. ASSUME Crash \/ Restart PROVE FileInv'
  BY <1>4 DEF Crash, Restart
<1>5. ASSUME WalkOn \/ WalkEnds \/ WalkNested PROVE FileInv'
  BY <1>5 DEF WalkOn, WalkEnds, WalkNested, OnScratch
<1>6. ASSUME NEW s \in Sample, OpenSample(s) \/ HandOver(s) \/ PurgeDir(s)
      PROVE  FileInv'
  BY <1>6 DEF OpenSample, HandOver, PurgeDir, EmitterRuns, Unused
<1>7. ASSUME NEW s \in Sample, PackSample(s) \/ PackMissing(s) PROVE FileInv'
  BY <1>7 DEF PackSample, PackMissing, GiveUp
<1>8. ASSUME NEW s \in Sample, RemoveSample(s) \/ RemoveFault(s) PROVE FileInv'
  BY <1>8 DEF RemoveSample, RemoveFault, Omitted, GiveUp
<1>9. ASSUME NEW s \in Sample, WalkComplete(s) \/ WalkIncomplete(s) \/ WalkMisread(s)
      PROVE  FileInv'
  BY <1>9 DEF WalkComplete, WalkIncomplete, WalkMisread, OnScratch
<1>10. ASSUME NEW p \in Path, TarGone(p) \/ UploadOK(p) \/ UploadFails(p) \/
            UploadAnswerLost(p)
      PROVE  FileInv'
  BY <1>10 DEF TarGone, UploadOK, UploadFails, UploadAnswerLost, Trying
<1>11. ASSUME NEW p \in Path, AgeTar(p) \/ ExpireTar(p) \/ RemovedOutside(p)
      PROVE  FileInv'
  BY <1>11 DEF AgeTar, ExpireTar, RemovedOutside, OnScratch
<1>12. ASSUME PurgeForget PROVE FileInv'
  BY <1>12 DEF PurgeForget, EmitterRuns
<1>13. ASSUME ClearOldUploads PROVE FileInv'
  BY <1>13 DEF ClearOldUploads, Reclaimable, WholeContent
<1>14. ASSUME RecoverUploads PROVE FileInv'
  BY <1>14 DEF RecoverUploads, WholeContent
<1>15. ASSUME NEW p \in Path, CreateTar(p) PROVE FileInv'
  BY <1>15 DEF CreateTar, OwnName, TakenName
<1>16. ASSUME UNCHANGED vars PROVE FileInv'
  BY <1>16 DEF vars
<1>. QED
  BY <1>1, <1>2, <1>3, <1>4, <1>5, <1>6, <1>7, <1>8, <1>9, <1>10, <1>11, <1>12,
     <1>13, <1>14, <1>15, <1>16
     DEF Next, EmitterNext, ConstructNext, DrainNext, RecoverNext

\* A name is not used again while anything refers to it.
LEMMA HandedStep == IInv /\ SlotInv /\ HandedInv /\ [Next]_vars => HandedInv'
<1> SUFFICES ASSUME IInv /\ SlotInv /\ HandedInv, [Next]_vars PROVE HandedInv'
  OBVIOUS
<1> USE UploaderAssumption DEF UploaderAssumption, Path, PC, tarVars, diskVars,
           setVars, modeVars, payloadVars, drainVars, ghostVars, boundVars, obsVars,
           IInv, PhasesInv, TypeInv, TypeOK, PathInv, PhaseInv, WalkInv, PackInv,
           ShipInv, SlotInv, HandedInv, Building
<1>1. ASSUME Tick \/ SkipTick \/ SpaceOK \/ BuildServices PROVE HandedInv'
  BY <1>1 DEF Tick, SkipTick, SpaceOK, BuildServices
<1>2. ASSUME OpenFails \/ ConstructFault \/ PackDone \/ RemoveDone \/ QueueTar
      PROVE  HandedInv'
  BY <1>2 DEF OpenFails, ConstructFault, PackDone, RemoveDone, QueueTar, GiveUp,
         Omitted
<1>3. ASSUME Abandon \/ DrainEnds \/ RemoveTar \/ RemoveTarFault PROVE HandedInv'
  BY <1>3 DEF Abandon, DrainEnds, RemoveTar, RemoveTarFault, EndDrain
<1>4. ASSUME Crash \/ Restart PROVE HandedInv'
  BY <1>4 DEF Crash, Restart
<1>5. ASSUME WalkOn \/ WalkEnds \/ WalkNested PROVE HandedInv'
  BY <1>5 DEF WalkOn, WalkEnds, WalkNested, OnScratch
<1>6. ASSUME NEW s \in Sample, OpenSample(s) \/ HandOver(s) \/ PurgeDir(s)
      PROVE  HandedInv'
  BY <1>6 DEF OpenSample, HandOver, PurgeDir, EmitterRuns, Unused
<1>7. ASSUME NEW s \in Sample, PackSample(s) \/ PackMissing(s) PROVE HandedInv'
  BY <1>7 DEF PackSample, PackMissing, GiveUp
<1>8. ASSUME NEW s \in Sample, RemoveSample(s) \/ RemoveFault(s) PROVE HandedInv'
  BY <1>8 DEF RemoveSample, RemoveFault, Omitted, GiveUp
<1>9. ASSUME NEW s \in Sample, WalkComplete(s) \/ WalkIncomplete(s) \/ WalkMisread(s)
      PROVE  HandedInv'
  BY <1>9 DEF WalkComplete, WalkIncomplete, WalkMisread, OnScratch
<1>10. ASSUME NEW p \in Path, TarGone(p) \/ UploadOK(p) \/ UploadFails(p) \/
            UploadAnswerLost(p)
      PROVE  HandedInv'
  BY <1>10 DEF TarGone, UploadOK, UploadFails, UploadAnswerLost, Trying
<1>11. ASSUME NEW p \in Path, AgeTar(p) \/ ExpireTar(p) \/ RemovedOutside(p)
      PROVE  HandedInv'
  BY <1>11 DEF AgeTar, ExpireTar, RemovedOutside, OnScratch
<1>12. ASSUME PurgeForget PROVE HandedInv'
  BY <1>12 DEF PurgeForget, EmitterRuns
<1>13. ASSUME ClearOldUploads PROVE HandedInv'
  BY <1>13 DEF ClearOldUploads, Reclaimable, WholeContent
<1>14. ASSUME RecoverUploads PROVE HandedInv'
  BY <1>14 DEF RecoverUploads, WholeContent
<1>15. ASSUME NEW p \in Path, CreateTar(p) PROVE HandedInv'
  BY <1>15 DEF CreateTar, OwnName, TakenName
<1>16. ASSUME UNCHANGED vars PROVE HandedInv'
  BY <1>16 DEF vars
<1>. QED
  BY <1>1, <1>2, <1>3, <1>4, <1>5, <1>6, <1>7, <1>8, <1>9, <1>10, <1>11, <1>12,
     <1>13, <1>14, <1>15, <1>16
     DEF Next, EmitterNext, ConstructNext, DrainNext, RecoverNext

LEMMA BooksStep == IInv /\ BooksInv /\ [Next]_vars => BooksInv'
  BY SlotStep, FileStep, HandedStep DEF BooksInv

-----------------------------------------------------------------------------
(* Each sample is delivered once, and none is forgotten.                   *)

\* Without a crash or a fault no sample is in two places from which it could be
\* shipped: pending, being packed, or in one of the queued tars.
OnceInv == faults = 0 /\ crashes = 0 =>
  /\ ~recovering /\ pc # "down" /\ repeated = {}
  /\ accepted \cap (sampleSet \cup files) = {}
  /\ \A p \in uploadSet :
       /\ content[p] \cap (sampleSet \cup files) = {}
       /\ (pc = "shipped" /\ p = path) \/ content[p] \cap accepted = {}
       /\ \A q \in uploadSet : p = q \/ content[p] \cap content[q] = {}
  /\ Building => content[path] \subseteq files
  /\ pc = "remove" => sampleSet \cap files \subseteq todo
  /\ pc = "return" => sampleSet \cap files = {}

\* What NothingForgotten is promised for.
Quiet == faults = 0 /\ (crashes = 0 \/ ~DiskPressure)

\* Only a crash leads to a recovery; a purged sample that was handed over is dropped.
PurgeInv ==
  /\ recovering \/ pc = "down" => crashes > 0
  /\ faults = 0 /\ purging \in handed => purging \in dropped

\* A quiet walk finds every directory it needs and leaves none behind.
QuietWalkInv == Quiet /\ recovering =>
  /\ pc = "collect" => \A s \in sampleSet : dir[s] # "none"
  /\ pc \in {"space", "pack"} => \A s \in files : dir[s] # "none"
  /\ pc = "remove" => tar[path] # "none"
  /\ pc = "uploads" => \A s \in Sample : dir[s] = "none"

\* Pending, in a queued tar, or in the tar that is about to be queued.
Known(s) ==
  \/ s \in sampleSet
  \/ \E p \in uploadSet : s \in content[p]
  \/ pc \in {"remove", "return"} /\ tar[path] = "whole" /\ s \in content[path]

KnownInv == Quiet /\ ~recovering /\ pc # "down" =>
  \A s \in handed \ (accepted \cup dropped \cup unread \cup wiped) : Known(s)

\* A tar takes its samples out of the pending ones before it is queued.
LEMMA OnceStep == IInv /\ BooksInv /\ OnceInv /\ [Next]_vars => OnceInv'
<1> SUFFICES ASSUME IInv /\ BooksInv /\ OnceInv, [Next]_vars PROVE OnceInv'
  OBVIOUS
<1> USE UploaderAssumption DEF UploaderAssumption, Path, PC, tarVars, diskVars,
           setVars, modeVars, payloadVars, drainVars, ghostVars, boundVars, obsVars,
           IInv, PhasesInv, TypeInv, TypeOK, PathInv, PhaseInv, WalkInv, PackInv,
           ShipInv, BooksInv, SlotInv, FileInv, HandedInv, OnceInv,
           Building
<1>1. ASSUME Tick \/ SkipTick \/ SpaceOK \/ BuildServices \/ Restart PROVE OnceInv'
  BY <1>1 DEF Tick, SkipTick, SpaceOK, BuildServices, Restart
<1>2. ASSUME OpenFails \/ ConstructFault \/ RemoveTarFault PROVE OnceInv'
  BY <1>2 DEF OpenFails, ConstructFault, RemoveTarFault, GiveUp
<1>3. ASSUME Abandon \/ DrainEnds PROVE OnceInv'
  BY <1>3 DEF Abandon, DrainEnds, EndDrain
<1>4. ASSUME WalkOn \/ WalkEnds \/ WalkNested PROVE OnceInv'
  BY <1>4 DEF WalkOn, WalkEnds, WalkNested, OnScratch
<1>5. ASSUME NEW p \in Path, AgeTar(p) \/ ExpireTar(p) PROVE OnceInv'
  BY <1>5 DEF AgeTar, ExpireTar, OnScratch
<1>6. ASSUME NEW s \in Sample, RemoveSample(s) \/ RemoveFault(s) PROVE OnceInv'
  BY <1>6 DEF RemoveSample, RemoveFault, Omitted, GiveUp
<1>7. ASSUME PurgeForget PROVE OnceInv'
  BY <1>7 DEF PurgeForget, EmitterRuns
<1>8. ASSUME ClearOldUploads PROVE OnceInv'
  BY <1>8 DEF ClearOldUploads, Reclaimable, WholeContent
<1>9. ASSUME PackDone PROVE OnceInv'
  BY <1>9 DEF PackDone
<1>10. ASSUME RemoveDone PROVE OnceInv'
  BY <1>10 DEF RemoveDone, GiveUp, Omitted
<1>11. ASSUME QueueTar PROVE OnceInv'
  BY <1>11 DEF QueueTar
<1>12. ASSUME RemoveTar PROVE OnceInv'
  BY <1>12 DEF RemoveTar
<1>13. ASSUME Crash PROVE OnceInv'
  BY <1>13 DEF Crash
<1>14. ASSUME RecoverUploads PROVE OnceInv'
  BY <1>14 DEF RecoverUploads, WholeContent
<1>15. ASSUME NEW s \in Sample, OpenSample(s) PROVE OnceInv'
  BY <1>15 DEF OpenSample, EmitterRuns, Unused
<1>16. ASSUME NEW s \in Sample, HandOver(s) PROVE OnceInv'
  BY <1>16 DEF HandOver, EmitterRuns
<1>17. ASSUME NEW s \in Sample, PurgeDir(s) PROVE OnceInv'
  BY <1>17 DEF PurgeDir, EmitterRuns
<1>18. ASSUME NEW s \in Sample, PackSample(s) PROVE OnceInv'
  BY <1>18 DEF PackSample
<1>19. ASSUME NEW s \in Sample, PackMissing(s) PROVE OnceInv'
  BY <1>19 DEF PackMissing, GiveUp
<1>20. ASSUME NEW s \in Sample, WalkComplete(s) PROVE OnceInv'
  BY <1>20 DEF WalkComplete
<1>21. ASSUME NEW s \in Sample, WalkIncomplete(s) \/ WalkMisread(s) PROVE OnceInv'
  BY <1>21 DEF WalkIncomplete, WalkMisread
<1>22. ASSUME NEW p \in Path, CreateTar(p) PROVE OnceInv'
  BY <1>22 DEF CreateTar, OwnName, TakenName
<1>23. ASSUME NEW p \in Path, TarGone(p) PROVE OnceInv'
  BY <1>23 DEF TarGone, Trying
<1>24. ASSUME NEW p \in Path, UploadOK(p) PROVE OnceInv'
  BY <1>24 DEF UploadOK, Trying
<1>25. ASSUME NEW p \in Path, UploadFails(p) PROVE OnceInv'
  BY <1>25 DEF UploadFails, Trying
<1>26. ASSUME NEW p \in Path, UploadAnswerLost(p) PROVE OnceInv'
  BY <1>26 DEF UploadAnswerLost, Trying
<1>27. ASSUME NEW p \in Path, RemovedOutside(p) PROVE OnceInv'
  BY <1>27 DEF RemovedOutside
<1>28. ASSUME UNCHANGED vars PROVE OnceInv'
  BY <1>28 DEF vars
<1>. QED
  BY <1>1, <1>2, <1>3, <1>4, <1>5, <1>6, <1>7, <1>8, <1>9, <1>10, <1>11, <1>12,
     <1>13, <1>14, <1>15, <1>16, <1>17, <1>18, <1>19, <1>20, <1>21, <1>22, <1>23,
     <1>24, <1>25, <1>26, <1>27, <1>28
     DEF Next, EmitterNext, ConstructNext, DrainNext, RecoverNext

\* A purge drops what it removes, before the uploader forgets it.
LEMMA PurgeStep == IInv /\ BooksInv /\ PurgeInv /\ [Next]_vars => PurgeInv'
<1> SUFFICES ASSUME IInv /\ BooksInv /\ PurgeInv, [Next]_vars PROVE PurgeInv'
  OBVIOUS
<1> USE UploaderAssumption DEF UploaderAssumption, Path, PC, tarVars, diskVars,
           setVars, modeVars, payloadVars, drainVars, ghostVars, boundVars, obsVars,
           IInv, PhasesInv, TypeInv, TypeOK, PathInv, PhaseInv, WalkInv, PackInv,
           ShipInv, BooksInv, SlotInv, HandedInv, PurgeInv, Building
<1>1. ASSUME Tick \/ SkipTick \/ SpaceOK \/ BuildServices PROVE PurgeInv'
  BY <1>1 DEF Tick, SkipTick, SpaceOK, BuildServices
<1>2. ASSUME OpenFails \/ ConstructFault \/ PackDone \/ RemoveDone \/ QueueTar
      PROVE  PurgeInv'
  BY <1>2 DEF OpenFails, ConstructFault, PackDone, RemoveDone, QueueTar, GiveUp,
         Omitted
<1>3. ASSUME Abandon \/ DrainEnds \/ RemoveTar \/ RemoveTarFault PROVE PurgeInv'
  BY <1>3 DEF Abandon, DrainEnds, RemoveTar, RemoveTarFault, EndDrain
<1>4. ASSUME Crash \/ Restart PROVE PurgeInv'
  BY <1>4 DEF Crash, Restart
<1>5. ASSUME WalkOn \/ WalkEnds \/ WalkNested PROVE PurgeInv'
  BY <1>5 DEF WalkOn, WalkEnds, WalkNested, OnScratch
<1>6. ASSUME NEW s \in Sample, OpenSample(s) \/ HandOver(s) \/ PurgeDir(s)
      PROVE  PurgeInv'
  BY <1>6 DEF OpenSample, HandOver, PurgeDir, EmitterRuns, Unused
<1>7. ASSUME NEW s \in Sample, PackSample(s) \/ PackMissing(s) PROVE PurgeInv'
  BY <1>7 DEF PackSample, PackMissing, GiveUp
<1>8. ASSUME NEW s \in Sample, RemoveSample(s) \/ RemoveFault(s) PROVE PurgeInv'
  BY <1>8 DEF RemoveSample, RemoveFault, Omitted, GiveUp
<1>9. ASSUME NEW s \in Sample, WalkComplete(s) \/ WalkIncomplete(s) \/ WalkMisread(s)
      PROVE  PurgeInv'
  BY <1>9 DEF WalkComplete, WalkIncomplete, WalkMisread, OnScratch
<1>10. ASSUME NEW p \in Path, TarGone(p) \/ UploadOK(p) \/ UploadFails(p) \/
            UploadAnswerLost(p)
      PROVE  PurgeInv'
  BY <1>10 DEF TarGone, UploadOK, UploadFails, UploadAnswerLost, Trying
<1>11. ASSUME NEW p \in Path, AgeTar(p) \/ ExpireTar(p) \/ RemovedOutside(p)
      PROVE  PurgeInv'
  BY <1>11 DEF AgeTar, ExpireTar, RemovedOutside, OnScratch
<1>12. ASSUME PurgeForget PROVE PurgeInv'
  BY <1>12 DEF PurgeForget, EmitterRuns
<1>13. ASSUME ClearOldUploads PROVE PurgeInv'
  BY <1>13 DEF ClearOldUploads, Reclaimable, WholeContent
<1>14. ASSUME RecoverUploads PROVE PurgeInv'
  BY <1>14 DEF RecoverUploads, WholeContent
<1>15. ASSUME NEW p \in Path, CreateTar(p) PROVE PurgeInv'
  BY <1>15 DEF CreateTar, OwnName, TakenName
<1>16. ASSUME UNCHANGED vars PROVE PurgeInv'
  BY <1>16 DEF vars
<1>. QED
  BY <1>1, <1>2, <1>3, <1>4, <1>5, <1>6, <1>7, <1>8, <1>9, <1>10, <1>11, <1>12,
     <1>13, <1>14, <1>15, <1>16
     DEF Next, EmitterNext, ConstructNext, DrainNext, RecoverNext

\* Nothing but the walk touches the directories during recovery.
LEMMA QuietWalkStep == IInv /\ BooksInv /\ PurgeInv /\ QuietWalkInv /\ [Next]_vars => QuietWalkInv'
<1> SUFFICES ASSUME IInv /\ BooksInv /\ PurgeInv /\ QuietWalkInv, [Next]_vars PROVE QuietWalkInv'
  OBVIOUS
<1> USE UploaderAssumption DEF UploaderAssumption, Path, PC, tarVars, diskVars,
           setVars, modeVars, payloadVars, drainVars, ghostVars, boundVars, obsVars,
           IInv, PhasesInv, TypeInv, TypeOK, PathInv, PhaseInv, WalkInv, PackInv,
           ShipInv, BooksInv, SlotInv, FileInv, HandedInv, PurgeInv,
           QuietWalkInv, Quiet, Building
<1>1. ASSUME Tick \/ SkipTick \/ SpaceOK \/ BuildServices PROVE QuietWalkInv'
  BY <1>1 DEF Tick, SkipTick, SpaceOK, BuildServices
<1>2. ASSUME Abandon \/ DrainEnds \/ RemoveTar \/ RemoveTarFault PROVE QuietWalkInv'
  BY <1>2 DEF Abandon, DrainEnds, RemoveTar, RemoveTarFault, EndDrain
<1>3. ASSUME Crash \/ Restart PROVE QuietWalkInv'
  BY <1>3 DEF Crash, Restart
<1>4. ASSUME NEW s \in Sample, OpenSample(s) \/ HandOver(s) \/ PurgeDir(s)
      PROVE  QuietWalkInv'
  BY <1>4 DEF OpenSample, HandOver, PurgeDir, EmitterRuns, Unused
<1>5. ASSUME NEW s \in Sample, PackSample(s) \/ PackMissing(s) PROVE QuietWalkInv'
  BY <1>5 DEF PackSample, PackMissing, GiveUp
<1>6. ASSUME NEW s \in Sample, RemoveSample(s) PROVE QuietWalkInv'
  BY <1>6 DEF RemoveSample, Omitted
<1>7. ASSUME NEW s \in Sample, WalkComplete(s) \/ WalkIncomplete(s) PROVE QuietWalkInv'
  <2>1. CASE WalkComplete(s)
    BY <2>1 DEF WalkComplete
  <2>2. CASE WalkIncomplete(s)
    BY <2>2 DEF WalkIncomplete
  <2> QED
    BY <1>7, <2>1, <2>2
<1>8. ASSUME NEW p \in Path, TarGone(p) \/ UploadOK(p) \/ UploadFails(p) \/
            UploadAnswerLost(p)
      PROVE  QuietWalkInv'
  BY <1>8 DEF TarGone, UploadOK, UploadFails, UploadAnswerLost, Trying
<1>9. ASSUME NEW p \in Path, AgeTar(p) \/ ExpireTar(p) \/ RemovedOutside(p)
      PROVE  QuietWalkInv'
  BY <1>9 DEF AgeTar, ExpireTar, RemovedOutside, OnScratch
<1>10. ASSUME PurgeForget PROVE QuietWalkInv'
  BY <1>10 DEF PurgeForget, EmitterRuns
<1>11. ASSUME OpenFails PROVE QuietWalkInv'
  BY <1>11 DEF OpenFails, GiveUp
<1>12. ASSUME ClearOldUploads PROVE QuietWalkInv'
  BY <1>12 DEF ClearOldUploads, Reclaimable, WholeContent
<1>13. ASSUME PackDone PROVE QuietWalkInv'
  BY <1>13 DEF PackDone
<1>14. ASSUME RemoveDone PROVE QuietWalkInv'
  BY <1>14 DEF RemoveDone, GiveUp, Omitted
<1>15. ASSUME QueueTar PROVE QuietWalkInv'
  BY <1>15 DEF QueueTar
<1>16. ASSUME WalkOn PROVE QuietWalkInv'
  BY <1>16 DEF WalkOn
<1>17. ASSUME WalkNested PROVE QuietWalkInv'
  BY <1>17 DEF WalkNested, OnScratch
<1>18. ASSUME RecoverUploads PROVE QuietWalkInv'
  BY <1>18 DEF RecoverUploads, WholeContent
<1>19. ASSUME NEW p \in Path, CreateTar(p) PROVE QuietWalkInv'
  BY <1>19 DEF CreateTar, OwnName, TakenName
<1>20. ASSUME ConstructFault PROVE QuietWalkInv'
  <2>1. faults' # 0
    BY <1>20 DEF ConstructFault
  <2>. QED
    BY <2>1
<1>21. ASSUME NEW s \in Sample, RemoveFault(s) \/ WalkMisread(s) PROVE QuietWalkInv'
  <2>1. faults' # 0
    BY <1>21 DEF RemoveFault, WalkMisread
  <2>. QED
    BY <2>1
<1>22. ASSUME WalkEnds PROVE QuietWalkInv'
  <2>1. CASE \A s \in Sample : ~OnScratch(s)
    BY <1>22, <2>1 DEF WalkEnds, OnScratch
  <2>2. CASE faults' # 0
    BY <2>2
  <2>. QED
    BY <1>22, <2>1, <2>2 DEF WalkEnds
<1>23. ASSUME UNCHANGED vars PROVE QuietWalkInv'
  BY <1>23 DEF vars
<1>. QED
  BY <1>1, <1>2, <1>3, <1>4, <1>5, <1>6, <1>7, <1>8, <1>9, <1>10, <1>11, <1>12,
     <1>13, <1>14, <1>15, <1>16, <1>17, <1>18, <1>19, <1>20, <1>21, <1>22, <1>23
     DEF Next, EmitterNext, ConstructNext, DrainNext, RecoverNext

\* A copy that is no longer pending is queued, or about to be.
LEMMA KnownStep == IInv /\ BooksInv /\ PurgeInv /\ QuietWalkInv /\ KnownInv /\ [Next]_vars => KnownInv'
<1> SUFFICES ASSUME IInv /\ BooksInv /\ PurgeInv /\ QuietWalkInv /\ KnownInv, [Next]_vars PROVE KnownInv'
  OBVIOUS
<1> USE UploaderAssumption DEF UploaderAssumption, Path, PC, tarVars, diskVars,
           setVars, modeVars, payloadVars, drainVars, ghostVars, boundVars, obsVars,
           IInv, PhasesInv, TypeInv, TypeOK, PathInv, PhaseInv, WalkInv, PackInv,
           ShipInv, BooksInv, SlotInv, FileInv, HandedInv, PurgeInv,
           QuietWalkInv, KnownInv, Known, Quiet, Building, QueueSound, Accounted, Held, OnScratch
<1>1. ASSUME Tick \/ SkipTick \/ SpaceOK \/ BuildServices PROVE KnownInv'
  BY <1>1 DEF Tick, SkipTick, SpaceOK, BuildServices
<1>2. ASSUME OpenFails \/ ConstructFault \/ PackDone \/ RemoveDone \/ QueueTar
      PROVE  KnownInv'
  BY <1>2 DEF OpenFails, ConstructFault, PackDone, RemoveDone, QueueTar, GiveUp,
         Omitted
<1>3. ASSUME Abandon \/ DrainEnds \/ RemoveTar \/ RemoveTarFault PROVE KnownInv'
  BY <1>3 DEF Abandon, DrainEnds, RemoveTar, RemoveTarFault, EndDrain
<1>4. ASSUME Crash \/ Restart PROVE KnownInv'
  BY <1>4 DEF Crash, Restart
<1>5. ASSUME WalkOn \/ WalkEnds \/ WalkNested PROVE KnownInv'
  BY <1>5 DEF WalkOn, WalkEnds, WalkNested, OnScratch
<1>6. ASSUME NEW s \in Sample, OpenSample(s) \/ HandOver(s) \/ PurgeDir(s)
      PROVE  KnownInv'
  BY <1>6 DEF OpenSample, HandOver, PurgeDir, EmitterRuns, Unused
<1>7. ASSUME NEW s \in Sample, PackSample(s) \/ PackMissing(s) PROVE KnownInv'
  BY <1>7 DEF PackSample, PackMissing, GiveUp
<1>8. ASSUME NEW s \in Sample, RemoveSample(s) \/ RemoveFault(s) PROVE KnownInv'
  BY <1>8 DEF RemoveSample, RemoveFault, Omitted, GiveUp
<1>9. ASSUME NEW s \in Sample, WalkComplete(s) \/ WalkIncomplete(s) \/ WalkMisread(s)
      PROVE  KnownInv'
  BY <1>9 DEF WalkComplete, WalkIncomplete, WalkMisread, OnScratch
<1>10. ASSUME NEW p \in Path, TarGone(p) \/ UploadOK(p) \/ UploadFails(p) \/
            UploadAnswerLost(p)
      PROVE  KnownInv'
  BY <1>10 DEF TarGone, UploadOK, UploadFails, UploadAnswerLost, Trying
<1>11. ASSUME NEW p \in Path, AgeTar(p) \/ ExpireTar(p) \/ RemovedOutside(p)
      PROVE  KnownInv'
  BY <1>11 DEF AgeTar, ExpireTar, RemovedOutside, OnScratch
<1>12. ASSUME PurgeForget PROVE KnownInv'
  BY <1>12 DEF PurgeForget, EmitterRuns
<1>13. ASSUME RecoverUploads PROVE KnownInv'
  <2>. SUFFICES ASSUME Quiet',
                       NEW s \in handed \ (accepted \cup dropped' \cup unread' \cup wiped)
                PROVE  \E p \in uploadSet' : s \in content'[p]
    BY <1>13 DEF RecoverUploads
  <2>1. faults' = faults
    BY <1>13 DEF RecoverUploads
  <2>2. LET stale == {p \in Path : tar[p] # "none" /\ (p \in expired \/ tar[p] = "torn")} IN
        /\ uploadSet' = uploadSet \cup ({p \in Path : tar[p] # "none"} \ stale)
        /\ dropped' = dropped \cup WholeContent(stale)
        /\ \A p \in Path : content'[p] = IF p \in stale THEN {} ELSE content[p]
    BY <1>13, <2>1 DEF RecoverUploads
  <2>3. PICK p \in Path : tar[p] = "whole" /\ s \in content[p]
    BY <1>13, <2>1, <2>2 DEF RecoverUploads
  <2>4. p \notin expired
    BY <2>2, <2>3 DEF WholeContent
  <2>. QED
    BY <2>2, <2>3, <2>4
<1>14. ASSUME NEW p \in Path, CreateTar(p) PROVE KnownInv'
  BY <1>14 DEF CreateTar, OwnName, TakenName
<1>15. ASSUME ClearOldUploads PROVE KnownInv'
  <2>1. uploadSet' = uploadSet \ Reclaimable /\ dropped' = dropped \cup WholeContent(Reclaimable)
        /\ pc = "space" /\ pc' \in {"pack", "remove"}
        /\ UNCHANGED <<sampleSet, recovering, handed, accepted, wiped, unread,
                       faults, crashes, path>>
    BY <1>15 DEF ClearOldUploads
  <2>2. \A p \in uploadSet' : content'[p] = content[p]
    <3>1. path \notin uploadSet
      BY <2>1
    <3>. QED
      BY <1>15, <2>1, <3>1 DEF ClearOldUploads
  <2>3. \A p \in uploadSet \cap Reclaimable : content[p] \subseteq dropped'
    BY <2>1 DEF Reclaimable, WholeContent
  <2>. SUFFICES ASSUME Quiet, ~recovering,
                       NEW s \in handed \ (accepted \cup dropped' \cup unread \cup wiped)
                PROVE  s \in sampleSet \/ \E p \in uploadSet' : s \in content'[p]
    BY <2>1
  <2>4. s \in sampleSet \/ \E p \in uploadSet : s \in content[p]
    BY <2>1
  <2>. QED
    BY <2>1, <2>2, <2>3, <2>4
<1>16. ASSUME UNCHANGED vars PROVE KnownInv'
  BY <1>16 DEF vars
<1>. QED
  BY <1>1, <1>2, <1>3, <1>4, <1>5, <1>6, <1>7, <1>8, <1>9, <1>10, <1>11, <1>12,
     <1>13, <1>14, <1>15, <1>16
     DEF Next, EmitterNext, ConstructNext, DrainNext, RecoverNext

-----------------------------------------------------------------------------
(* The refinement: every step is one of SampleDelivery's, or none.         *)

\* What counts as a copy in the refinement mapping.
Copy(s) == Held(s) \/ (path # None /\ s \in content[path])

\* Nobody is handed over or accepted, and no sample gets a first copy.
CopiesOnlyGo ==
  /\ UNCHANGED <<handed, accepted>>
  /\ \A s \in handed \ accepted : Copy(s)' => Copy(s)

\* The state of a sample that is not lost.
LEMMA StatusIs ==
  ASSUME NoSilentLoss, NEW s \in Sample
  PROVE  status[s] = IF s \notin handed THEN "free"
                     ELSE IF s \in accepted THEN "delivered"
                     ELSE IF Copy(s) THEN "held" ELSE "discarded"
  BY DEF status, NoSilentLoss, Copy

LEMMA StatusWillBe ==
  ASSUME NoSilentLoss'
  PROVE  /\ status' = [s \in Sample |-> status'[s]]
         /\ \A s \in Sample :
              status'[s] = IF s \notin handed' THEN "free"
                           ELSE IF s \in accepted' THEN "delivered"
                           ELSE IF Copy(s)' THEN "held" ELSE "discarded"
  BY DEF status, NoSilentLoss, Copy

\* A step on which copies only go discards the samples whose last one went.
LEMMA DiscardStep ==
  ASSUME NoSilentLoss, NoSilentLoss', CopiesOnlyGo
  PROVE  Delivery!Next
<1> DEFINE S == {s \in Sample : s \in handed \ accepted /\ Copy(s) /\ ~Copy(s)'}
<1>1. ASSUME NEW s \in Sample
      PROVE  /\ s \in S => status[s] = "held"
             /\ status'[s] = IF s \in S THEN "discarded" ELSE status[s]
  BY StatusIs, StatusWillBe DEF CopiesOnlyGo
<1>2. Delivery!In(S, {"held"}) /\ Delivery!Move(S, "discarded")
  BY <1>1, StatusWillBe DEF Delivery!In, Delivery!Move
<1>. QED
  BY <1>2 DEF Delivery!Next, Delivery!Discard

\* The steps that do something else to a sample.
Moves ==
  \/ \E s \in Sample : OpenSample(s) \/ HandOver(s) \/ WalkComplete(s)
  \/ \E k \in Path : UploadOK(k) \/ UploadAnswerLost(k)

\* A tar that becomes whole held its samples for the mapping before.
LEMMA CopiesStep ==
  ASSUME IInv, BooksInv, [Next]_vars
  PROVE  CopiesOnlyGo \/ Moves
<1> USE UploaderAssumption DEF UploaderAssumption, Path, PC, tarVars, diskVars,
           setVars, modeVars, payloadVars, drainVars, ghostVars, boundVars, obsVars,
           IInv, PhasesInv, TypeInv, TypeOK, PathInv, PhaseInv, WalkInv, PackInv,
           ShipInv, BooksInv, SlotInv, FileInv, Building,
           CopiesOnlyGo, Copy, Held, OnScratch
<1>1. ASSUME Tick \/ SkipTick \/ SpaceOK \/ BuildServices PROVE CopiesOnlyGo \/ Moves
  BY <1>1 DEF Tick, SkipTick, SpaceOK, BuildServices
<1>2. ASSUME OpenFails \/ ConstructFault \/ PackDone \/ RemoveDone \/ QueueTar
      PROVE  CopiesOnlyGo \/ Moves
  BY <1>2 DEF OpenFails, ConstructFault, PackDone, RemoveDone, QueueTar, GiveUp,
         Omitted
<1>3. ASSUME Abandon \/ DrainEnds \/ RemoveTar \/ RemoveTarFault
      PROVE  CopiesOnlyGo \/ Moves
  BY <1>3 DEF Abandon, DrainEnds, RemoveTar, RemoveTarFault, EndDrain
<1>4. ASSUME Crash \/ Restart PROVE CopiesOnlyGo \/ Moves
  BY <1>4 DEF Crash, Restart
<1>5. ASSUME WalkOn \/ WalkEnds \/ WalkNested PROVE CopiesOnlyGo \/ Moves
  BY <1>5 DEF WalkOn, WalkEnds, WalkNested, OnScratch
<1>6. ASSUME NEW s \in Sample, PurgeDir(s) PROVE CopiesOnlyGo \/ Moves
  BY <1>6 DEF PurgeDir, EmitterRuns
<1>7. ASSUME NEW s \in Sample, PackSample(s) \/ PackMissing(s)
      PROVE  CopiesOnlyGo \/ Moves
  BY <1>7 DEF PackSample, PackMissing, GiveUp
<1>8. ASSUME NEW s \in Sample, RemoveSample(s) \/ RemoveFault(s)
      PROVE  CopiesOnlyGo \/ Moves
  BY <1>8 DEF RemoveSample, RemoveFault, Omitted, GiveUp
<1>9. ASSUME NEW s \in Sample, WalkIncomplete(s) \/ WalkMisread(s)
      PROVE  CopiesOnlyGo \/ Moves
  BY <1>9 DEF WalkIncomplete, WalkMisread
<1>10. ASSUME NEW p \in Path, TarGone(p) \/ UploadFails(p) PROVE CopiesOnlyGo \/ Moves
  BY <1>10 DEF TarGone, UploadFails, Trying
<1>11. ASSUME NEW p \in Path, AgeTar(p) \/ ExpireTar(p) \/ RemovedOutside(p)
      PROVE  CopiesOnlyGo \/ Moves
  BY <1>11 DEF AgeTar, ExpireTar, RemovedOutside, OnScratch
<1>12. ASSUME PurgeForget PROVE CopiesOnlyGo \/ Moves
  BY <1>12 DEF PurgeForget, EmitterRuns
<1>13. ASSUME ClearOldUploads PROVE CopiesOnlyGo \/ Moves
  <2> HIDE DEF IInv, PhasesInv, PhaseInv, WalkInv, PackInv, ShipInv, BooksInv, SlotInv,
               FileInv
  <2>1. /\ UNCHANGED <<dir, sampleSet, handed, accepted, path>>
        /\ \A p \in Path : /\ content'[p] \subseteq content[p]
                           /\ tar'[p] = "whole" => tar[p] = "whole"
    <3>1. content \in [Path -> SUBSET Sample]
      BY DEF IInv
    <3> QED
      BY <1>13, <3>1 DEF ClearOldUploads
  <2>2. path # None => path \in Path
    BY DEF IInv
  <2> QED
    BY <2>1, <2>2
<1>14. ASSUME NEW p \in Path, CreateTar(p) PROVE CopiesOnlyGo \/ Moves
  BY <1>14 DEF CreateTar, OwnName, TakenName
<1>15. ASSUME NEW s \in Sample, OpenSample(s) PROVE CopiesOnlyGo \/ Moves
  BY <1>15 DEF Moves
<1>16. ASSUME NEW s \in Sample, HandOver(s) PROVE CopiesOnlyGo \/ Moves
  BY <1>16 DEF Moves
<1>17. ASSUME NEW s \in Sample, WalkComplete(s) PROVE CopiesOnlyGo \/ Moves
  BY <1>17 DEF Moves
<1>18. ASSUME NEW p \in Path, UploadOK(p) PROVE CopiesOnlyGo \/ Moves
  BY <1>18 DEF Moves
<1>19. ASSUME NEW p \in Path, UploadAnswerLost(p) PROVE CopiesOnlyGo \/ Moves
  BY <1>19 DEF Moves
<1>20. ASSUME RecoverUploads PROVE CopiesOnlyGo \/ Moves
  <2>1. /\ UNCHANGED <<dir, path, handed, accepted>>
        /\ \A p \in Path : tar'[p] = "whole" => tar[p] = "whole" /\ content'[p] = content[p]
    BY <1>20 DEF RecoverUploads
  <2>2. path = None
    BY <1>20 DEF RecoverUploads
  <2>. QED
    BY <2>1, <2>2
<1>21. ASSUME UNCHANGED vars PROVE CopiesOnlyGo \/ Moves
  BY <1>21 DEF vars
<1>. QED
  BY <1>1, <1>2, <1>3, <1>4, <1>5, <1>6, <1>7, <1>8, <1>9, <1>10, <1>11, <1>12,
     <1>13, <1>14, <1>15, <1>16, <1>17, <1>18, <1>19, <1>20, <1>21
     DEF Next, EmitterNext, ConstructNext, DrainNext, RecoverNext

\* The directory of a new sample recycles a name whose story is over.
LEMMA OpenMoves ==
  ASSUME IInv, BooksInv, NoSilentLoss, NoSilentLoss', NEW s \in Sample, OpenSample(s)
  PROVE  Delivery!Next
<1> USE DEF IInv, TypeInv, TypeOK, OpenSample, Unused, ghostVars, diskVars, tarVars,
           payloadVars, setVars, modeVars
<1>1. /\ handed' = handed \ {s} /\ accepted' = accepted \ {s}
      /\ \A x \in Sample \ {s} : dir'[x] = dir[x]
      /\ UNCHANGED <<tar, content, path>>
  OBVIOUS
<1>2. \A x \in Sample \ {s} : Copy(x)' <=> Copy(x)
  BY <1>1 DEF Copy, Held, OnScratch
<1>3. ~Copy(s)
  <2>1. ~Held(s)
    BY DEF Held, OnScratch
  <2>2. path # None => path \in Path
    OBVIOUS
  <2>. QED
    BY <2>1, <2>2 DEF Copy
<1>4. CASE s \notin handed
  <2>1. CopiesOnlyGo
    BY <1>1, <1>2, <1>4 DEF CopiesOnlyGo, BooksInv, HandedInv
  <2>. QED
    BY <2>1, DiscardStep
<1>5. CASE s \in handed
  <2>1. status[s] \in {"delivered", "discarded"}
    BY <1>3, <1>5, StatusIs
  <2>2. \A x \in Sample : status'[x] = IF x \in {s} THEN "free" ELSE status[x]
    BY <1>1, <1>2, StatusIs, StatusWillBe
  <2>3. Delivery!In({s}, {"delivered", "discarded"}) /\ Delivery!Move({s}, "free")
    BY <2>1, <2>2, StatusWillBe DEF Delivery!In, Delivery!Move
  <2>. QED
    BY <2>3 DEF Delivery!Next, Delivery!Recycle
<1>. QED
  BY <1>4, <1>5

\* A sample that is handed over is accepted as held.
LEMMA HandOverMoves ==
  ASSUME IInv, BooksInv, NoSilentLoss, NoSilentLoss',
         NEW s \in Sample, HandOver(s) \/ WalkComplete(s)
  PROVE  Delivery!Next
<1> USE DEF IInv, TypeInv, TypeOK, diskVars, tarVars, payloadVars
<1>1. /\ handed' = handed \cup {s} /\ accepted' = accepted
      /\ \A x \in Sample : (dir'[x] = "none") <=> (dir[x] = "none")
      /\ dir[s] # "none"
      /\ UNCHANGED <<tar, content, path>>
  BY DEF HandOver, WalkComplete
<1>2. \A x \in Sample : Copy(x)' <=> Copy(x)
  BY <1>1 DEF Copy, Held, OnScratch
<1>3. CASE s \in handed
  <2>1. CopiesOnlyGo
    BY <1>1, <1>2, <1>3 DEF CopiesOnlyGo
  <2>. QED
    BY <2>1, DiscardStep
<1>4. CASE s \notin handed
  <2>1. status[s] = "free"
    BY <1>4, StatusIs
  <2>2. s \notin accepted /\ Copy(s)
    BY <1>1, <1>4 DEF BooksInv, HandedInv, Copy, Held, OnScratch
  <2>3. \A x \in Sample : status'[x] = IF x \in {s} THEN "held" ELSE status[x]
    BY <1>1, <1>2, <2>2, StatusIs, StatusWillBe
  <2>4. Delivery!In({s}, {"free"}) /\ Delivery!Move({s}, "held")
    BY <2>1, <2>3, StatusWillBe DEF Delivery!In, Delivery!Move
  <2>. QED
    BY <2>4 DEF Delivery!Next, Delivery!Accept
<1>. QED
  BY <1>3, <1>4

\* A tar that is accepted, with or without an answer, delivers all its samples.
LEMMA UploadMoves ==
  ASSUME IInv, BooksInv, NoSilentLoss, NoSilentLoss',
         NEW k \in Path, UploadOK(k) \/ UploadAnswerLost(k)
  PROVE  Delivery!Next
<1> USE DEF IInv, TypeInv, TypeOK, BooksInv, diskVars, tarVars, payloadVars
<1>1. /\ pc = "drain" /\ k \in keys /\ tar[k] # "none"
      /\ accepted' = accepted \cup content[k]
      /\ UNCHANGED <<handed, dir, tar, content>>
      /\ path' \in {path, k}
  BY DEF UploadOK, UploadAnswerLost, Trying
<1>2. tar[k] = "whole" /\ path = None
  BY <1>1 DEF FileInv, SlotInv, Building, QueueSound
<1>3. content[k] \subseteq handed /\ \A x \in content[k] : Copy(x)
  BY <1>2 DEF HandedInv, Copy, Held
<1>4. \A x \in Sample \ content[k] : Copy(x)' <=> Copy(x)
  BY <1>1, <1>2 DEF Copy, Held, OnScratch
<1>5. \A x \in content[k] : status[x] \in {"held", "delivered"}
  BY <1>3, StatusIs
<1>6. \A x \in Sample : status'[x] = IF x \in content[k] THEN "delivered" ELSE status[x]
  BY <1>1, <1>3, <1>4, StatusIs, StatusWillBe
<1>7. Delivery!In(content[k], {"held", "delivered"}) /\ Delivery!Move(content[k], "delivered")
  BY <1>5, <1>6, StatusWillBe DEF Delivery!In, Delivery!Move
<1>8. content[k] \in SUBSET Sample
  OBVIOUS
<1>. QED
  BY <1>7, <1>8 DEF Delivery!Next, Delivery!Deliver

LEMMA DeliveryStep ==
  ASSUME IInv, BooksInv, NoSilentLoss, NoSilentLoss', [Next]_vars
  PROVE  Delivery!Next
<1>1. CASE CopiesOnlyGo
  BY <1>1, DiscardStep
<1>2. CASE Moves
  BY <1>2, OpenMoves, HandOverMoves, UploadMoves DEF Moves
<1>. QED
  BY <1>1, <1>2, CopiesStep

-----------------------------------------------------------------------------
(* Their theorems.                                                         *)

DeliveryInv ==
  IInv /\ BooksInv /\ OnceInv /\ PurgeInv /\ QuietWalkInv /\ KnownInv

LEMMA InitDeliveryInv == ClockMovesOn /\ Init => DeliveryInv
<1> SUFFICES ASSUME ClockMovesOn, Init PROVE DeliveryInv
  OBVIOUS
<1> USE DEF Init
<1>1. IInv
  BY InitIInv
<1>2. BooksInv
  BY DEF BooksInv, SlotInv, FileInv, HandedInv, Building
<1>3. OnceInv /\ PurgeInv /\ QuietWalkInv /\ KnownInv
  BY UploaderAssumption DEF OnceInv, PurgeInv, QuietWalkInv, KnownInv, Building
<1>. QED
  BY <1>1, <1>2, <1>3 DEF DeliveryInv

LEMMA NextDeliveryInv == DeliveryInv /\ [Next]_vars => DeliveryInv'
  BY NextIInv, BooksStep, OnceStep, PurgeStep, QuietWalkStep, KnownStep DEF DeliveryInv

LEMMA DeliveryInvariance == ASSUME ClockMovesOn PROVE Spec => []DeliveryInv
  BY InitDeliveryInv, NextDeliveryInv, PTL DEF Spec

\* As long as no call fails and the process lives, no sample is accepted twice, whatever
\* purges and passes interleave (uploader.go, uploadLoop, removeSamples, UploadData).
THEOREM SamplesDeliveredOnce ==
  ASSUME ClockMovesOn
  PROVE  Spec => []DeliveredOnce
<1>1. DeliveryInv => DeliveredOnce
  BY DEF DeliveryInv, OnceInv, DeliveredOnce
<1>. QED
  BY <1>1, DeliveryInvariance, PTL

\* Without a fault every copy on disk is known to the loop, through crashes unless the
\* disk is full (uploader.go, uploadLoop, recoverUploadFiles).
THEOREM NothingEverForgotten ==
  ASSUME ClockMovesOn
  PROVE  Spec => []NothingForgotten
<1>1. DeliveryInv => NothingForgotten
  BY DEF DeliveryInv, IInv, PhasesInv, PhaseInv, KnownInv, Known, Quiet, NothingForgotten
<1>. QED
  BY <1>1, DeliveryInvariance, PTL

\* With samples directly below scratch the uploader, with its crashes, purges and lost
\* answers, implements the promise of SampleDelivery (uploader.go).
THEOREM FlatImplementsDelivery ==
  ASSUME ClockMovesOn, ~Nested
  PROVE  Spec => ImplementsDelivery
<1>1. Init => Delivery!Init
  BY DEF Init, Delivery!Init, status
<1>2. DeliveryInv /\ NoSilentLoss /\ NoSilentLoss' /\ [Next]_vars => [Delivery!Next]_status
  BY DeliveryStep DEF DeliveryInv
<1>. QED
  BY <1>1, <1>2, DeliveryInvariance, FlatLosesNothing, PTL
     DEF Spec, ImplementsDelivery, Delivery!Spec
=============================================================================
