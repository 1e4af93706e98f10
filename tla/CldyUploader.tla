---------------------------- MODULE CldyUploader ----------------------------
(***************************************************************************)
(* The Cloudability uploader (src/cldy/uploader.go, src/cldy/util.go):     *)
(* samples written by the emitter are packed into a tar, the tar is queued *)
(* and drained to the storage service, and both survive a restart of the   *)
(* container through a recovery pass over the disk.                        *)
(*                                                                         *)
(* Three actors interleave: the upload goroutine (one pc), the emitter     *)
(* (opens, hands over and, under disk pressure, purges sample directories) *)
(* and the environment (crashes, ageing files, failing I/O, a destination  *)
(* that comes and goes).                                                   *)
(*                                                                         *)
(* A name here is recycled once nothing on disk or in memory refers to it, *)
(* so the behaviours are unbounded while the state space is finite. In the *)
(* code a tar is named after a second; ClockMovesOn says whether a second  *)
(* can come twice.                                                         *)
(***************************************************************************)
EXTENDS Naturals

CONSTANTS
  Sample,       \* sample directories, scratch/<clusterID>/<millis>_<n>/
  Tar,          \* tars built by a tick, upload/<clusterID>_<seconds>.tgz
  None,         \* no path, no sample
  Nested,       \* TRUE when clusterID # "": samples lie below scratch/<clusterID>
  DiskPressure, \* may the free-space checks fail?
  ClockMovesOn, \* environment: no tar is built in the second of an existing one
  MaxFaults,    \* bound on steps in which an I/O call fails
  MaxCrashes    \* bound on process deaths

\* A tar that recovery rebuilds from sample s is named after the timestamp in
\* s's agent measurement, so s itself names that path.
Path == Tar \cup Sample

ASSUME UploaderAssumption ==
  /\ Tar \cap Sample = {}
  /\ None \notin Path
  /\ Nested \in BOOLEAN
  /\ DiskPressure \in BOOLEAN
  /\ ClockMovesOn \in BOOLEAN
  /\ MaxFaults \in Nat
  /\ MaxCrashes \in Nat

VARIABLES
  (* on disk *)
  dir,        \* sample directory: "none", "open" (being filled), "cut" (some
              \* required file is missing) or "full"
  tar,        \* tar file: "none", "torn" (no gzip trailer) or "whole"
  content,    \* samples written to the tar so far
  aged,       \* tars whose modification time is older than recoveryPeriod/2
  expired,    \* tars whose name is older than recoveryPeriod
  (* in the process *)
  sampleSet,  \* CldyUploader.sampleSet
  uploadSet,  \* CldyUploader.uploadSet
  services,   \* is CldyUploader.StorageServices non-empty?
  first,      \* Emitter.sampleCt = 0: the next sample handed over has no baseline
  purging,    \* sample whose directory ClearOldScratchSamples has just removed
  pc,         \* where the upload goroutine (or NewCldyUploader) is
  recovering, \* inside recoverDataOnStartup
  files,      \* ConstructPayload's open files
  todo,       \* the ones still to be packed, or to be removed
  path,       \* ConstructPayload's path, or the tar UploadData has just shipped
  keys,       \* operateAndRemove: entries not yet tried
  done,       \* operateAndRemove: toRemove
  (* observation *)
  handed,     \* samples given to AddSample
  accepted,   \* samples inside a tar the destination has accepted
  repeated,   \* samples accepted more than once
  dropped,    \* samples discarded by a rule of the code (disk, age, incomplete)
  wiped,      \* complete samples the recovery walk removed without a look at them
  unread,     \* samples of which the recovery removed a copy it failed to read
  faults, crashes

tarVars     == <<tar, content, aged, expired>>
diskVars    == <<dir, tarVars>>
setVars     == <<sampleSet, uploadSet>>
modeVars    == <<services, first, purging, recovering>>
payloadVars == <<files, todo, path>>
drainVars   == <<keys, done>>
ghostVars   == <<handed, accepted, repeated, dropped, wiped, unread>>
boundVars   == <<faults, crashes>>
obsVars     == <<ghostVars, boundVars>>
vars == <<diskVars, setVars, modeVars, pc, payloadVars, drainVars, obsVars>>

PC == {"down", "walk", "uploads", "wait", "skip", "collect", "space", "pack",
       "remove", "return", "drain", "shipped"}

TypeOK ==
  /\ dir \in [Sample -> {"none", "open", "cut", "full"}]
  /\ tar \in [Path -> {"none", "torn", "whole"}]
  /\ content \in [Path -> SUBSET Sample]
  /\ aged \subseteq Path /\ expired \subseteq Path
  /\ sampleSet \subseteq Sample /\ uploadSet \subseteq Path
  /\ services \in BOOLEAN /\ first \in BOOLEAN
  /\ purging \in Sample \cup {None}
  /\ pc \in PC /\ recovering \in BOOLEAN
  /\ files \subseteq Sample /\ todo \subseteq Sample
  /\ path \in Path \cup {None}
  /\ keys \subseteq Path /\ done \subseteq Path
  /\ handed \subseteq Sample /\ accepted \subseteq Sample
  /\ repeated \subseteq Sample /\ dropped \subseteq Sample
  /\ wiped \subseteq Sample /\ unread \subseteq Sample
  /\ faults \in 0..MaxFaults /\ crashes \in 0..MaxCrashes

Init ==
  /\ dir = [s \in Sample |-> "none"]
  /\ tar = [p \in Path |-> "none"]
  /\ content = [p \in Path |-> {}]
  /\ aged = {} /\ expired = {}
  /\ sampleSet = {} /\ uploadSet = {}
  /\ services \in BOOLEAN
  /\ first = TRUE /\ purging = None
  /\ pc = "wait" /\ recovering = FALSE
  /\ files = {} /\ todo = {} /\ path = None
  /\ keys = {} /\ done = {}
  /\ handed = {} /\ accepted = {} /\ repeated = {}
  /\ dropped = {} /\ wiped = {} /\ unread = {}
  /\ faults = 0 /\ crashes = 0

EmitterRuns == pc # "down" /\ ~recovering

\* Nothing refers to the sample name any more, in memory or on disk.
Unused(s) ==
  /\ dir[s] = "none" /\ tar[s] = "none"
  /\ s \notin sampleSet \cup files \cup uploadSet \cup keys \cup done
  /\ s # purging
  /\ \A p \in Path : s \notin content[p]

-----------------------------------------------------------------------------
(* The emitter, as far as the uploader sees it.                            *)

\* Init or Emit creates the directory of the sample to fill next.
OpenSample(s) ==
  /\ EmitterRuns
  /\ Unused(s)
  /\ \A x \in Sample : dir[x] # "open"
  /\ dir' = [dir EXCEPT ![s] = "open"]
  /\ expired' = expired \ {s}
  /\ handed' = handed \ {s}
  /\ accepted' = accepted \ {s}
  /\ repeated' = repeated \ {s}
  /\ dropped' = dropped \ {s}
  /\ wiped' = wiped \ {s}
  /\ unread' = unread \ {s}
  /\ UNCHANGED <<tar, content, aged, setVars, modeVars, pc, payloadVars,
                 drainVars, boundVars>>

\* Emit completes the sample and calls AddSample. Stats files are the only
\* ones written while sampleCt is -1, so the first sample has no baseline.
HandOver(s) ==
  /\ EmitterRuns
  /\ dir[s] = "open"
  /\ dir' = [dir EXCEPT ![s] = IF first THEN "cut" ELSE "full"]
  /\ first' = FALSE
  /\ sampleSet' = sampleSet \cup {s}
  /\ handed' = handed \cup {s}
  /\ UNCHANGED <<tarVars, uploadSet, services, purging, pc, recovering,
                 payloadVars, drainVars, accepted, repeated, dropped, wiped,
                 unread, boundVars>>

\* ClearOldScratchSamples removes a directory older than an hour (or fails to,
\* which is only logged) ...
PurgeDir(s) ==
  /\ DiskPressure /\ EmitterRuns
  /\ purging = None
  /\ dir[s] \in {"cut", "full"}
  /\ purging' = s
  /\ \/ /\ dir' = [dir EXCEPT ![s] = "none"]
        /\ dropped' = dropped \cup (handed \cap {s})
        /\ UNCHANGED faults
     \/ /\ faults < MaxFaults /\ faults' = faults + 1
        /\ UNCHANGED <<dir, dropped>>
  /\ UNCHANGED <<tarVars, setVars, services, first, pc, recovering,
                 payloadVars, drainVars, handed, accepted, repeated, wiped,
                 unread, crashes>>

\* ... and only then tells the uploader to forget it.
PurgeForget ==
  /\ EmitterRuns
  /\ purging # None
  /\ sampleSet' = sampleSet \ {purging}
  /\ purging' = None
  /\ UNCHANGED <<diskVars, uploadSet, services, first, pc, recovering,
                 payloadVars, drainVars, obsVars>>

-----------------------------------------------------------------------------
(* ConstructPayload, called by the upload loop and by recoverSample.       *)

\* Every error return: the loop waits for the next tick, the recovery walk
\* is abandoned and recoverUploadFiles follows. The files are closed.
GiveUp ==
  /\ pc' = IF recovering THEN "uploads" ELSE "wait"
  /\ files' = {} /\ todo' = {} /\ path' = None

\* uploadLoop: a tick that finds no pending sample continues ("skip") ...
Tick ==
  /\ pc = "wait"
  /\ pc' = IF sampleSet = {} THEN "skip" ELSE "collect"
  /\ UNCHANGED <<diskVars, setVars, modeVars, payloadVars, drainVars, obsVars>>

\* ... to the next one, without a look at uploadSet.
SkipTick ==
  /\ pc = "skip"
  /\ pc' = "wait"
  /\ UNCHANGED <<diskVars, setVars, modeVars, payloadVars, drainVars, obsVars>>

\* The name is the second of the tick or, in recovery, the one in the sample's
\* agent measurement. Nothing looks whether there is such a file already: a name
\* is taken when the clock was set back, when two ticks fall into one second (one
\* kept waiting by a long drain), or when a recovered sample's second was a tick's.
OwnName(p) == IF recovering THEN p \in sampleSet
                            ELSE p \in Tar /\ tar[p] = "none" /\ p \notin uploadSet
TakenName(p) == ~ClockMovesOn /\ tar[p] # "none"

\* sampleSet.contents(), every directory opened, and os.Create of the tar,
\* which truncates a file of the same name.
CreateTar(p) ==
  /\ pc = "collect"
  /\ \A s \in sampleSet : dir[s] # "none"
  /\ OwnName(p) \/ TakenName(p)
  /\ files' = sampleSet
  /\ todo' = sampleSet
  /\ path' = p
  /\ tar' = [tar EXCEPT ![p] = "torn"]
  /\ content' = [content EXCEPT ![p] = {}]
  /\ aged' = aged \ {p}
  /\ expired' = IF recovering THEN expired ELSE expired \ {p}
  /\ pc' = "space"
  /\ UNCHANGED <<dir, setVars, modeVars, drainVars, obsVars>>

\* os.Open of a directory that a purge has already removed.
OpenFails ==
  /\ pc = "collect"
  /\ \E s \in sampleSet : dir[s] = "none"
  /\ GiveUp
  /\ UNCHANGED <<diskVars, setVars, modeVars, drainVars, obsVars>>

\* createTGZ: enough room for twice the last payload.
SpaceOK ==
  /\ pc = "space"
  /\ pc' = "pack"
  /\ UNCHANGED <<diskVars, setVars, modeVars, payloadVars, drainVars, obsVars>>

Reclaimable == {p \in aged : tar[p] # "none"}
WholeContent(P) == UNION {content[p] : p \in {q \in P : tar[q] = "whole"}}

\* ClearOldUploadSamples deletes the aged tars with their queue entries. If
\* that does not make room, the new tar goes too and its samples are omitted.
ClearOldUploads ==
  /\ DiskPressure
  /\ pc = "space"
  /\ uploadSet' = uploadSet \ Reclaimable
  /\ dropped' = dropped \cup WholeContent(Reclaimable)
  /\ \E omit \in BOOLEAN :
       LET gone == IF omit THEN Reclaimable \cup {path} ELSE Reclaimable
       IN  /\ tar' = [p \in Path |-> IF p \in gone THEN "none" ELSE tar[p]]
           /\ content' = [p \in Path |-> IF p \in gone THEN {} ELSE content[p]]
           /\ aged' = aged \ gone
           /\ pc' = IF omit THEN "remove" ELSE "pack"
  /\ UNCHANGED <<dir, expired, sampleSet, modeVars, payloadVars, drainVars,
                 handed, accepted, repeated, wiped, unread,
                 boundVars>>

\* createTGZ walks one sample directory into the tar.
PackSample(s) ==
  /\ pc = "pack"
  /\ s \in todo
  /\ dir[s] # "none"
  /\ content' = [content EXCEPT ![path] = @ \cup {s}]
  /\ todo' = todo \ {s}
  /\ UNCHANGED <<dir, tar, aged, expired, setVars, modeVars, pc, files, path,
                 drainVars, obsVars>>

\* os.Stat fails on a purged directory: the deferred Close calls still write
\* both trailers, so a well-formed tar of part of the samples stays on disk.
PackMissing(s) ==
  /\ pc = "pack"
  /\ s \in todo
  /\ dir[s] = "none"
  /\ tar' = [tar EXCEPT ![path] = "whole"]
  /\ GiveUp
  /\ UNCHANGED <<dir, content, aged, expired, setVars, modeVars, drainVars,
                 obsVars>>

\* Mutant of PackDone: samples are removed before the trailers are written.
PackDoneUnclosed ==
  /\ pc = "pack" /\ todo = {}
  /\ todo' = files /\ pc' = "remove"
  /\ UNCHANGED <<diskVars, setVars, modeVars, files, path, drainVars, obsVars>>

\* Mutant of PackDone: removeSamples is not called.
PackDoneKeepsSamples ==
  /\ pc = "pack" /\ todo = {}
  /\ tar' = [tar EXCEPT ![path] = "whole"]
  /\ pc' = "return"
  /\ UNCHANGED <<dir, content, aged, expired, setVars, modeVars, payloadVars,
                 drainVars, obsVars>>

\* createTGZ returns: trailers written, removeSamples starts.
PackDone ==
  /\ pc = "pack"
  /\ todo = {}
  /\ tar' = [tar EXCEPT ![path] = "whole"]
  /\ todo' = files
  /\ pc' = "remove"
  /\ UNCHANGED <<dir, content, aged, expired, setVars, modeVars, files, path,
                 drainVars, obsVars>>

\* removeSamples, one file of the list, after a build or after an omission.
Omitted == tar[path] = "none"
RemoveSample(s) ==
  /\ pc = "remove"
  /\ s \in todo
  /\ sampleSet' = sampleSet \ {s}
  /\ dir' = [dir EXCEPT ![s] = "none"]
  /\ todo' = todo \ {s}
  /\ dropped' = IF Omitted THEN dropped \cup {s} ELSE dropped
  /\ UNCHANGED <<tarVars, uploadSet, modeVars, pc, files, path, drainVars,
                 handed, accepted, repeated, wiped, unread,
                 boundVars>>

\* RemoveAll of one sample fails: removeSamples stops after it has already
\* taken the sample out of the set, and the tar is not returned.
RemoveFault(s) ==
  /\ pc = "remove"
  /\ s \in todo
  /\ faults < MaxFaults /\ faults' = faults + 1
  /\ sampleSet' = sampleSet \ {s}
  /\ GiveUp
  /\ UNCHANGED <<diskVars, uploadSet, modeVars, drainVars, ghostVars, crashes>>

\* Mutant of RemoveDone: the loop goes on with the empty path of an error.
RemoveDoneUnchecked ==
  /\ pc = "remove" /\ todo = {}
  /\ pc' = "return"
  /\ path' = IF Omitted THEN None ELSE path
  /\ UNCHANGED <<diskVars, setVars, modeVars, files, todo, drainVars, obsVars>>

\* ConstructPayload leaves removeSamples: with its path, or with
\* ErrDiskSpaceExceeded.
RemoveDone ==
  /\ pc = "remove"
  /\ todo = {}
  /\ IF Omitted THEN GiveUp
                ELSE pc' = "return" /\ UNCHANGED payloadVars
  /\ UNCHANGED <<diskVars, setVars, modeVars, drainVars, obsVars>>

\* Any other failing call: os.Create, ReadDir, a write, or a deferred Close.
ConstructFault ==
  /\ pc \in {"collect", "space", "pack", "return"}
  /\ faults < MaxFaults /\ faults' = faults + 1
  /\ GiveUp
  /\ UNCHANGED <<diskVars, setVars, modeVars, drainVars, ghostVars, crashes>>

\* uploadLoop queues the tar and DrainUploads takes its snapshot of the queue.
QueueTar ==
  /\ pc = "return"
  /\ ~recovering
  /\ uploadSet' = uploadSet \cup {path}
  /\ keys' = uploadSet'
  /\ done' = {}
  /\ pc' = "drain"
  /\ files' = {} /\ todo' = {} /\ path' = None
  /\ UNCHANGED <<diskVars, sampleSet, modeVars, obsVars>>

-----------------------------------------------------------------------------
(* DrainUploads: operateAndRemove(UploadData, drainBudget, ...).           *)

Trying(k) == pc = "drain" /\ k \in keys

\* ensureStorageServices rebuilds the services once its cooldown has passed.
BuildServices ==
  /\ pc = "drain" /\ keys # {}
  /\ ~services
  /\ services' = TRUE
  /\ UNCHANGED <<diskVars, setVars, first, purging, pc, recovering,
                 payloadVars, drainVars, obsVars>>

\* Mutant of EndDrain: the whole queue is cleared, failed entries included.
EndDrainDropsAll == uploadSet' = {} /\ keys' = {} /\ done' = {} /\ pc' = "wait"

\* operateAndRemove leaves its loop and removes what succeeded.
EndDrain ==
  /\ uploadSet' = uploadSet \ done
  /\ keys' = {} /\ done' = {}
  /\ pc' = "wait"

\* ErrNoStorageServices: destinationUnavailable abandons the pass.
Abandon ==
  /\ pc = "drain" /\ keys # {}
  /\ ~services
  /\ EndDrain
  /\ UNCHANGED <<diskVars, sampleSet, modeVars, payloadVars, obsVars>>

\* UploadData of a tar that no longer exists counts as success.
TarGone(k) ==
  /\ Trying(k) /\ services
  /\ tar[k] = "none"
  /\ keys' = keys \ {k}
  /\ done' = done \cup {k}
  /\ UNCHANGED <<diskVars, setVars, modeVars, pc, payloadVars, obsVars>>

\* The service accepted the tar; os.Remove has not run yet.
UploadOK(k) ==
  /\ Trying(k) /\ services
  /\ tar[k] # "none"
  /\ accepted' = accepted \cup content[k]
  /\ repeated' = repeated \cup (accepted \cap content[k])
  /\ keys' = keys \ {k}
  /\ path' = k
  /\ pc' = "shipped"
  /\ UNCHANGED <<diskVars, setVars, modeVars, files, todo, done, handed,
                 dropped, wiped, unread, boundVars>>

\* Mutant of UploadFails: the tar is removed although its upload failed.
UploadFailsRemoves(k) ==
  /\ Trying(k) /\ services
  /\ tar[k] # "none"
  /\ keys' = keys \ {k}
  /\ path' = k /\ pc' = "shipped"
  /\ UNCHANGED <<diskVars, setVars, modeVars, files, todo, done, obsVars>>

\* A failing upload, or an unreadable file: the pass goes on with the next.
UploadFails(k) ==
  /\ Trying(k) /\ services
  /\ tar[k] # "none"
  /\ keys' = keys \ {k}
  /\ UNCHANGED <<diskVars, setVars, modeVars, pc, payloadVars, done, obsVars>>

\* The service accepted the tar and its answers were lost, to every retry: the same
\* error as any failing upload (UploadCall).
UploadAnswerLost(k) ==
  /\ Trying(k) /\ services
  /\ tar[k] # "none"
  /\ faults < MaxFaults /\ faults' = faults + 1
  /\ accepted' = accepted \cup content[k]
  /\ repeated' = repeated \cup (accepted \cap content[k])
  /\ keys' = keys \ {k}
  /\ UNCHANGED <<diskVars, setVars, modeVars, pc, payloadVars, done, handed,
                 dropped, wiped, unread, crashes>>

\* os.Remove of the shipped tar.
RemoveTar ==
  /\ pc = "shipped"
  /\ tar' = [tar EXCEPT ![path] = "none"]
  /\ content' = [content EXCEPT ![path] = {}]
  /\ aged' = aged \ {path}
  /\ done' = done \cup {path}
  /\ path' = None
  /\ pc' = "drain"
  /\ UNCHANGED <<dir, expired, setVars, modeVars, files, todo, keys, obsVars>>

\* os.Remove fails: an error for an entry that has been shipped.
RemoveTarFault ==
  /\ pc = "shipped"
  /\ faults < MaxFaults /\ faults' = faults + 1
  /\ path' = None
  /\ pc' = "drain"
  /\ UNCHANGED <<diskVars, setVars, modeVars, files, todo, drainVars,
                 ghostVars, crashes>>

\* The pass is over, or its budget is spent after at least one entry.
DrainEnds ==
  /\ pc = "drain"
  /\ keys # uploadSet \/ keys = {}
  /\ EndDrain
  /\ UNCHANGED <<diskVars, sampleSet, modeVars, payloadVars, obsVars>>

-----------------------------------------------------------------------------
(* Restart: NewCldyUploader and recoverDataOnStartup.                      *)

\* The container dies. A sample the emitter was filling is left cut, or full
\* when the process died between writeAgentFile and AddSample.
Crash ==
  /\ pc # "down"
  /\ crashes < MaxCrashes /\ crashes' = crashes + 1
  /\ \E last \in {"cut", "full"} :
       /\ first => last = "cut"
       /\ dir' = [s \in Sample |-> IF dir[s] = "open" THEN last ELSE dir[s]]
  /\ pc' = "down"
  /\ recovering' = FALSE
  /\ sampleSet' = {} /\ uploadSet' = {}
  /\ services' = FALSE
  /\ purging' = None
  /\ files' = {} /\ todo' = {} /\ path' = None
  /\ keys' = {} /\ done' = {}
  /\ first' = TRUE
  /\ UNCHANGED <<tarVars, ghostVars, faults>>

\* NewCldyUploader tries to build the services, then recovers.
Restart ==
  /\ pc = "down"
  /\ pc' = "walk"
  /\ recovering' = TRUE
  /\ services' \in BOOLEAN
  /\ UNCHANGED <<diskVars, setVars, first, purging, payloadVars, drainVars,
                 obsVars>>

OnScratch(s) == dir[s] # "none"

\* recoverCompleteSamples meets a complete directory: recoverSample.
WalkComplete(s) ==
  /\ pc = "walk" /\ ~Nested
  /\ dir[s] = "full"
  /\ sampleSet' = sampleSet \cup {s}
  /\ handed' = handed \cup {s}
  /\ pc' = "collect"
  /\ UNCHANGED <<diskVars, uploadSet, modeVars, payloadVars, drainVars,
                 accepted, repeated, dropped, wiped, unread, boundVars>>

\* ... an incomplete one, which is removed when the walk leaves it.
WalkIncomplete(s) ==
  /\ pc = "walk" /\ ~Nested
  /\ dir[s] = "cut"
  /\ dir' = [dir EXCEPT ![s] = "none"]
  /\ dropped' = dropped \cup (handed \cap {s})
  /\ UNCHANGED <<tarVars, setVars, modeVars, pc, payloadVars, drainVars,
                 handed, accepted, repeated, wiped, unread,
                 boundVars>>

\* recoverSample succeeded: the walk goes on.
WalkOn ==
  /\ pc = "return"
  /\ recovering
  /\ pc' = "walk"
  /\ files' = {} /\ todo' = {} /\ path' = None
  /\ UNCHANGED <<diskVars, setVars, modeVars, drainVars, obsVars>>

\* A ReadDir, open or read fails inside the directory the walk is in, before its
\* last required file is seen. The walk ends, and because nothing was shipped from
\* it the directory is taken for an incomplete sample and removed, which also
\* overwrites the error. The directories after it are left as they are.
WalkMisread(s) ==
  /\ pc = "walk" /\ ~Nested
  /\ OnScratch(s)
  /\ faults < MaxFaults /\ faults' = faults + 1
  /\ dir' = [dir EXCEPT ![s] = "none"]
  /\ unread' = unread \cup (handed \cap {s})
  /\ pc' = "uploads"
  /\ UNCHANGED <<tarVars, setVars, modeVars, payloadVars, drainVars, handed,
                 accepted, repeated, dropped, wiped, crashes>>

\* With a cluster directory above the samples, the first directory the walk
\* sees is scratch/<clusterID>; the first sample below it makes the walk remove
\* it with everything it holds. The ReadDir error of the vanished sample is
\* overwritten by the final os.RemoveAll. (An incomplete sample goes by rule.)
WalkNested ==
  /\ pc = "walk" /\ Nested
  /\ wiped' = wiped \cup {s \in handed : dir[s] = "full"}
  /\ dropped' = dropped \cup {s \in handed : dir[s] = "cut"}
  /\ dir' = [s \in Sample |-> "none"]
  /\ pc' = "uploads"
  /\ UNCHANGED <<tarVars, setVars, modeVars, payloadVars, drainVars, handed,
                 accepted, repeated, unread, boundVars>>

\* The walk has seen every directory, or scratch itself cannot be read, or the
\* RemoveAll of an incomplete sample fails where the walk leaves it and again
\* behind the walk: what is still there stays.
WalkEnds ==
  /\ pc = "walk"
  /\ \/ /\ ~Nested
        /\ \A s \in Sample : ~OnScratch(s)
        /\ UNCHANGED faults
     \/ /\ faults < MaxFaults
        /\ faults' = faults + 1
  /\ pc' = "uploads"
  /\ UNCHANGED <<diskVars, setVars, modeVars, payloadVars, drainVars,
                 ghostVars, crashes>>

\* recoverUploadFiles: expired and torn tars are removed, the others queued. An
\* os.Remove that fails ends the walk over the upload directory early, and a tar
\* that isCompleteGzip fails to open or read is removed as if it were torn.
RecoverUploads ==
  LET present == {p \in Path : tar[p] # "none"} IN
  \E seen \in SUBSET present : \E misread \in SUBSET (seen \ expired) :
    LET stale == {p \in seen : p \in expired \/ tar[p] = "torn"}
        gone  == stale \cup misread IN
    /\ pc = "uploads"
    /\ \/ seen = present /\ misread = {} /\ UNCHANGED faults
       \/ faults < MaxFaults /\ faults' = faults + 1
    /\ uploadSet' = uploadSet \cup (seen \ gone)
    /\ dropped' = dropped \cup WholeContent(stale)
    /\ unread' = unread \cup WholeContent(misread)
    /\ tar' = [p \in Path |-> IF p \in gone THEN "none" ELSE tar[p]]
    /\ content' = [p \in Path |-> IF p \in gone THEN {} ELSE content[p]]
    /\ aged' = aged \ gone
    /\ pc' = "wait"
    /\ recovering' = FALSE
    /\ UNCHANGED <<dir, expired, sampleSet, services, first, purging,
                   payloadVars, drainVars, handed, accepted, repeated, wiped,
                   crashes>>

-----------------------------------------------------------------------------
(* Time: tars age on disk, whether the process runs or not.                *)

AgeTar(p) ==
  /\ tar[p] # "none" /\ p # path
  /\ aged' = aged \cup {p}
  /\ UNCHANGED <<dir, tar, content, expired, setVars, modeVars, pc,
                 payloadVars, drainVars, obsVars>>

\* The name of a tick's tar is as old as the file, the name of a recovered one
\* as old as its sample.
ExpireTar(p) ==
  /\ pc = "down"
  /\ \/ p \in aged
     \/ p \in Sample /\ (OnScratch(p) \/ tar[p] # "none")
  /\ expired' = expired \cup {p}
  /\ UNCHANGED <<dir, tar, content, aged, setVars, modeVars, pc, payloadVars,
                 drainVars, obsVars>>

\* A queued tar is removed from outside the agent, as UploadData allows for.
RemovedOutside(p) ==
  /\ p \in uploadSet /\ p # path
  /\ tar[p] = "whole"
  /\ faults < MaxFaults
  /\ faults' = faults + 1
  /\ dropped' = dropped \cup content[p]
  /\ tar' = [tar EXCEPT ![p] = "none"]
  /\ content' = [content EXCEPT ![p] = {}]
  /\ aged' = aged \ {p}
  /\ UNCHANGED <<dir, expired, setVars, modeVars, pc, payloadVars, drainVars,
                 handed, accepted, repeated, wiped, unread, crashes>>

-----------------------------------------------------------------------------
EmitterNext ==
  \/ \E s \in Sample : OpenSample(s) \/ HandOver(s) \/ PurgeDir(s)
  \/ PurgeForget

ConstructNext ==
  \/ \E p \in Path : CreateTar(p)
  \/ OpenFails \/ SpaceOK \/ ClearOldUploads \/ PackDone \/ RemoveDone
  \/ ConstructFault
  \/ \E s \in Sample : \/ PackSample(s) \/ PackMissing(s)
                       \/ RemoveSample(s) \/ RemoveFault(s)

DrainNext ==
  \/ BuildServices \/ Abandon \/ RemoveTar \/ RemoveTarFault \/ DrainEnds
  \/ \E k \in Path :
       TarGone(k) \/ UploadOK(k) \/ UploadFails(k) \/ UploadAnswerLost(k)

RecoverNext ==
  \/ Restart \/ WalkOn \/ WalkNested \/ WalkEnds \/ RecoverUploads
  \/ \E s \in Sample : WalkComplete(s) \/ WalkIncomplete(s) \/ WalkMisread(s)

Next ==
  \/ EmitterNext
  \/ Tick \/ SkipTick \/ ConstructNext \/ QueueTar \/ DrainNext
  \/ Crash \/ RecoverNext
  \/ \E p \in Path : AgeTar(p) \/ ExpireTar(p) \/ RemovedOutside(p)

Spec == Init /\ [][Next]_vars

(* The loop keeps ticking and the runtime keeps running the upload          *)
(* goroutine; a dead container is restarted. Service construction and       *)
(* uploads succeed again and again, and the randomised map iteration of     *)
(* operateAndRemove never passes an entry over forever.                     *)
Fairness ==
  /\ WF_vars(Tick \/ SkipTick \/ ConstructNext \/ QueueTar)
  /\ WF_vars(RemoveTar \/ DrainEnds)
  /\ WF_vars(RecoverNext)
  /\ SF_vars(BuildServices)
  /\ \A k \in Path : WF_vars(TarGone(k)) /\ SF_vars(UploadOK(k))

FairSpec == Spec /\ Fairness

-----------------------------------------------------------------------------
\* A copy of the sample survives a crash: its directory, or a whole tar.
Held(s) == OnScratch(s) \/ \E p \in Path : tar[p] = "whole" /\ s \in content[p]

\* Every sample handed to AddSample can still be delivered, has been delivered,
\* was discarded by one of the rules the code states, or was in a directory or tar
\* that the recovery failed to read and removed. So ConstructPayload and UploadData
\* delete a copy only when the next one is safely in place, whatever fails there,
\* and a failing call in the recovery costs what it hit and nothing else.
NoSilentLoss ==
  \A s \in handed : Held(s) \/ s \in accepted \cup dropped \cup unread

\* The same with the samples the recovery walk wipes in the nested layout as the
\* only further way out.
Accounted ==
  \A s \in handed : Held(s) \/ s \in accepted \cup dropped \cup unread \cup wiped

\* DrainUploads can never ship a truncated tar: what uploadSet names is whole,
\* or has been removed, at every point of a build, a drain or a recovery.
QueueSound == \A p \in uploadSet : tar[p] # "torn"

\* While no call fails and the process lives, each sample reaches the
\* destination once: no sample is in two tars and no tar is shipped twice.
DeliveredOnce == faults = 0 /\ crashes = 0 => repeated = {}

\* When the loop waits for its tick, every sample that is still to be delivered
\* is in sampleSet or in a queued tar; a copy outside both would stay on disk
\* until the next restart. (A recovery that runs out of disk space, or an I/O
\* failure, does leave such copies.)
NothingForgotten ==
  (pc = "wait" /\ faults = 0 /\ (crashes = 0 \/ ~DiskPressure))
    => \A s \in handed \ (accepted \cup dropped \cup unread \cup wiped) :
         s \in sampleSet \/ \E p \in uploadSet : s \in content[p]

\* The refinement mapping to SampleDelivery. The copy in the tar being packed
\* counts as held: a purge may have taken the directory from under it. A sample
\* with no copy left that was neither delivered nor discarded is "lost", which no
\* state of SampleDelivery allows.
status ==
  [s \in Sample |-> IF s \notin handed THEN "free"
                    ELSE IF s \in accepted THEN "delivered"
                    ELSE IF Held(s) \/ (path # None /\ s \in content[path])
                         THEN "held"
                    ELSE IF s \in dropped \cup unread THEN "discarded"
                    ELSE "lost"]

Delivery == INSTANCE SampleDelivery WITH Sample <- Sample, status <- status

\* The uploader implements SampleDelivery (flat layout): a sample leaves "held"
\* only by delivery, by a stated rule or by a failed read of the recovery, and
\* never comes back.
ImplementsDelivery == Delivery!Spec

\* Bound: a tick always finds an unused tar name. (The code's never run out.)
NamesLeft == pc = "collect" /\ ~recovering =>
               \E t \in Tar : tar[t] = "none" /\ t \notin uploadSet

\* A sample that was handed over is eventually accepted or discarded (in the
\* nested layout also: wiped by the recovery walk), through upload failures,
\* missing services, exhausted budgets and crashes -- provided samples keep
\* arriving, because a tick without a new sample drains nothing.
Delivered ==
  ([]NamesLeft /\ []<>(sampleSet # {})) =>
    \A s \in Sample :
      s \in handed ~> s \in accepted \cup dropped \cup unread \cup wiped
=============================================================================
