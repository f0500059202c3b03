---------------------------- MODULE LegacyProofs ----------------------------
(***************************************************************************)
(* Proofs about the two parts of the legacy app that are modelled.         *)
(*                                                                         *)
(* Data synchronisation: what an upload writes is its own version with     *)
(* every change made before it, and the device never keeps a version the   *)
(* server has not had, for any number of calls, versions, days, files and  *)
(* local changes; while no other device writes, the snapshot a download    *)
(* takes is the newest; and no flag outlives the call that has set it.     *)
(*                                                                         *)
(* The pool of script workers: a call never gets another call's answer,    *)
(* nor the failure of a worker that was dead before it began, ends once,   *)
(* and while it waits has a task and a timer of its own or a worker that   *)
(* is heard of; and an isolate is only lost by replacements that overlap,  *)
(* for any number of calls and any size of the pool.                       *)
(***************************************************************************)
EXTENDS DataSync, JsPool, WellFoundedInduction, FiniteSetTheorems, SequenceTheorems, TLAPS

-----------------------------------------------------------------------------
(* Data synchronisation: the inductive invariant. *)

Data == [version : Nat, value : Nat]
Snapshot == [day : Nat, version : Nat, data : Data]
Jobs == [previous : Nat, data : Data \cup {None}, day : Nat, files : SUBSET Snapshot,
         file : Snapshot \cup {None}, base : Nat]

\* The version in memory is not the one to keep.
Window == {"bumped", "exporting", "restoring"}
Sending == {"listing", "removing", "pruning", "writing"}
Uploading == Window \cup Sending \cup {"confirming"}
Downloading == {"reading", "downloading", "importing", "cleaning"}
Waiting == {"waitUpload", "waitDownload"}
Phases == {"idle", "saving"} \cup Waiting \cup Uploading \cup Downloading

TypeOK ==
  /\ memory \in Data /\ disk \in Data
  /\ isDownloading \in BOOLEAN /\ isUploading \in BOOLEAN /\ haveWaitingTask \in BOOLEAN
  /\ pc \in [Calls -> Phases] /\ job \in [Calls -> Jobs]
  /\ server \in SUBSET Snapshot
  /\ today \in Nat /\ edits \in Nat /\ highest \in Nat
  /\ torn \in BOOLEAN /\ othersWrote \in BOOLEAN

\* The three flags keep the calls apart: one upload, or one download, and one that waits.
Exclusive ==
  /\ ~(isUploading /\ isDownloading)
  /\ \A c \in Calls : /\ pc[c] \in Uploading => isUploading
                      /\ pc[c] \in Downloading => isDownloading
                      /\ pc[c] \in Waiting => haveWaitingTask
                      /\ pc[c] = "waitUpload" => ~isDownloading
  /\ \A c, d \in Calls :
        \/ pc[c] \in Uploading /\ pc[d] \in Uploading
        \/ pc[c] \in Downloading /\ pc[d] \in Downloading
        \/ pc[c] \in Waiting /\ pc[d] \in Waiting
        => c = d

\* Nothing is from a local change that has not been made.
Bounded ==
  /\ memory.value <= edits /\ disk.value <= edits
  /\ \A f \in server : f.data.value <= edits
  /\ \A c \in Calls : /\ job[c].base <= edits
                      /\ job[c].data # None => job[c].data.value <= edits

\* The version and the changes of the settings an upload saves, exports and sends.
UploadOK(c) ==
  /\ pc[c] \in {"bumped", "exporting"} =>
        /\ memory.version = job[c].previous + 1 /\ memory.value >= job[c].base
        /\ job[c].data = None
  /\ pc[c] = "exporting" => disk.version = job[c].previous + 1 /\ disk.value >= job[c].base
  /\ pc[c] = "restoring" => memory.version = job[c].previous
  /\ pc[c] \in Sending \cup {"restoring"} /\ job[c].data # None =>
        job[c].data.version = job[c].previous + 1 /\ job[c].data.value >= job[c].base
  /\ pc[c] \in Sending \cup {"importing"} => job[c].data # None

\* No version is above those the server has had.
Versions ==
  /\ \A f \in server : f.version <= highest /\ f.data.version <= highest
  /\ \A c \in Calls : pc[c] = "importing" => job[c].data.version <= highest
  /\ ~torn =>
       /\ \A c \in Calls : pc[c] \in Uploading => job[c].previous <= highest
       /\ (\A c \in Calls : pc[c] \notin Window) =>
             memory.version <= highest /\ disk.version <= highest

IInv == TypeOK /\ Exclusive /\ Bounded /\ (\A c \in Calls : UploadOK(c)) /\ Versions

-----------------------------------------------------------------------------
LEMMA MaxOfTwo ==
  ASSUME NEW a \in Nat, NEW b \in Nat
  PROVE  Max({a, b}) \in Nat /\ Max({a, b}) >= a /\ Max({a, b}) >= b
<1>1. \E m \in {a, b} : \A y \in {a, b} : m >= y
  BY DEF Max
<1> QED BY <1>1 DEF Max

\* The phase sets are visible to every step below.
USE DEF Window, Sending, Uploading, Downloading, Waiting, flags, ghosts

LEMMA NoJobType == NoJob \in Jobs
  BY DEF NoJob, Jobs

\* What a call keeps in its variables has its type, and so have all the calls' variables.
LEMMA JobUpdates ==
  ASSUME NEW j \in Jobs
  PROVE  /\ \A x \in Data : [j EXCEPT !.data = x] \in Jobs
         /\ \A x \in Nat : [j EXCEPT !.day = x] \in Jobs
         /\ \A x \in SUBSET Snapshot : [j EXCEPT !.files = x] \in Jobs
         /\ \A x \in Snapshot : [j EXCEPT !.file = x] \in Jobs
         /\ \A x, y \in Nat : [j EXCEPT !.previous = x, !.base = y] \in Jobs
  BY DEF Jobs

\* A call that is turned away.
LEMMA TurnedAwayKeeps ==
  ASSUME IInv, NEW c \in Calls, pc[c] \in {"idle", "saving"},
         disk' \in {disk, memory}, UNCHANGED <<server, today, ghosts>>,
         TurnedAway(c)
  PROVE  IInv'
<1> USE DEF TurnedAway, End
<1>0. job[c] \in Jobs /\ memory \in Data /\ disk \in Data /\ UploadOK(c)
  BY DEF IInv, TypeOK
<1>1. TypeOK'
  <2>1. job' \in [Calls -> Jobs]
    BY NoJobType DEF IInv, TypeOK
  <2> QED BY <1>0, <2>1 DEF IInv, TypeOK, Phases
<1>2. Exclusive'
  BY DEF IInv, TypeOK, Exclusive
<1>3. Bounded'
  BY <1>0 DEF IInv, TypeOK, Bounded, Data, Jobs, NoJob
<1>4. ASSUME NEW d \in Calls PROVE UploadOK(d)'
  BY <1>0, <1>4 DEF IInv, TypeOK, Exclusive, Bounded, UploadOK, Data, Jobs, NoJob
<1>5. Versions'
  BY <1>0 DEF IInv, TypeOK, Exclusive, UploadOK, Versions, Data, Jobs, NoJob
<1> QED BY <1>1, <1>2, <1>3, <1>4, <1>5 DEF IInv

\* A call that waits.
LEMMA WaitKeeps ==
  ASSUME IInv, NEW c \in Calls, NEW where \in Waiting, pc[c] \in {"idle", "saving"},
         disk' \in {disk, memory}, UNCHANGED <<server, today, ghosts>>,
         ~haveWaitingTask, where = "waitUpload" => ~isDownloading, Wait(c, where)
  PROVE  IInv'
<1> USE DEF Wait
<1>0. job[c] \in Jobs /\ memory \in Data /\ disk \in Data /\ UploadOK(c)
  BY DEF IInv, TypeOK
<1>1. TypeOK'
  <2> QED BY <1>0 DEF IInv, TypeOK, Phases
<1>2. Exclusive'
  BY DEF IInv, TypeOK, Exclusive
<1>3. Bounded'
  BY <1>0 DEF IInv, TypeOK, Bounded, Data, Jobs
<1>4. ASSUME NEW d \in Calls PROVE UploadOK(d)'
  BY <1>0, <1>4 DEF IInv, TypeOK, Exclusive, Bounded, UploadOK, Data, Jobs
<1>5. Versions'
  BY <1>0 DEF IInv, TypeOK, Exclusive, UploadOK, Versions, Data, Jobs
<1> QED BY <1>1, <1>2, <1>3, <1>4, <1>5 DEF IInv

\* A call that begins, at once or after waiting.
LEMMA BeginUploadKeeps ==
  ASSUME IInv, NEW c \in Calls,
         pc[c] \in {"idle", "saving"} \cup Waiting, pc[c] \in Waiting \/ ~haveWaitingTask,
         disk' \in {disk, memory}, UNCHANGED <<server, today, ghosts>>,
         ~isUploading, ~isDownloading, BeginUpload(c)
  PROVE  IInv'
<1> USE DEF BeginUpload
<1>0. job[c] \in Jobs /\ memory \in Data /\ disk \in Data /\ UploadOK(c)
  BY DEF IInv, TypeOK
<1>1. TypeOK'
  <2>1. memory' \in Data
    BY DEF IInv, TypeOK, Data
  <2>2. [NoJob EXCEPT !.previous = memory.version, !.base = memory.value] \in Jobs
    BY <1>0, NoJobType, JobUpdates DEF Data
  <2>3. job' \in [Calls -> Jobs]
    BY <2>2 DEF IInv, TypeOK
  <2> QED BY <1>0, <2>1, <2>2, <2>3 DEF IInv, TypeOK, Phases
<1>2. Exclusive'
  BY DEF IInv, TypeOK, Exclusive
<1>3. Bounded'
  BY <1>0 DEF IInv, TypeOK, Bounded, Data, Jobs, NoJob
<1>4. ASSUME NEW d \in Calls PROVE UploadOK(d)'
  BY <1>0, <1>4 DEF IInv, TypeOK, Exclusive, Bounded, UploadOK, Data, Jobs, NoJob
<1>5. Versions'
  BY <1>0 DEF IInv, TypeOK, Exclusive, UploadOK, Versions, Data, Jobs, NoJob
<1> QED BY <1>1, <1>2, <1>3, <1>4, <1>5 DEF IInv

\* The same for a download.
LEMMA BeginDownloadKeeps ==
  ASSUME IInv, NEW c \in Calls,
         pc[c] \in {"idle", "saving"} \cup Waiting, pc[c] \in Waiting \/ ~haveWaitingTask,
         disk' \in {disk, memory}, UNCHANGED <<server, today, ghosts>>,
         ~isUploading, ~isDownloading, BeginDownload(c)
  PROVE  IInv'
<1> USE DEF BeginDownload
<1>0. job[c] \in Jobs /\ memory \in Data /\ disk \in Data /\ UploadOK(c)
  BY DEF IInv, TypeOK
<1>1. TypeOK'
  <2> QED BY <1>0 DEF IInv, TypeOK, Phases
<1>2. Exclusive'
  BY DEF IInv, TypeOK, Exclusive
<1>3. Bounded'
  BY <1>0 DEF IInv, TypeOK, Bounded, Data, Jobs
<1>4. ASSUME NEW d \in Calls PROVE UploadOK(d)'
  BY <1>0, <1>4 DEF IInv, TypeOK, Exclusive, Bounded, UploadOK, Data, Jobs
<1>5. Versions'
  BY <1>0 DEF IInv, TypeOK, Exclusive, UploadOK, Versions, Data, Jobs
<1> QED BY <1>1, <1>2, <1>3, <1>4, <1>5 DEF IInv

\* A local change.
LEMMA ChangeKeeps ==
  ASSUME IInv, NEW c \in Calls, Change(c)
  PROVE  IInv'
<1> USE DEF Change
<1>0. job[c] \in Jobs /\ memory \in Data /\ disk \in Data /\ UploadOK(c)
  BY DEF IInv, TypeOK
<1>1. TypeOK'
  <2>1. memory' \in Data
    BY DEF IInv, TypeOK, Data
  <2> QED BY <1>0, <2>1 DEF IInv, TypeOK, Phases
<1>2. Exclusive'
  BY DEF IInv, TypeOK, Exclusive
<1>3. Bounded'
  <2>1. memory'.value = edits + 1 /\ edits' = edits + 1 /\ edits \in Nat
    BY <1>0 DEF IInv, TypeOK, Data
  <2>2. \A f \in server : f.data.value \in Nat
    BY DEF IInv, TypeOK, Snapshot, Data
  <2>3. \A d \in Calls : job[d].base \in Nat /\ (job[d].data # None => job[d].data.value \in Nat)
    BY DEF IInv, TypeOK, Jobs, Data
  <2> QED BY <1>0, <2>1, <2>2, <2>3 DEF IInv, Bounded, Data
<1>4. ASSUME NEW d \in Calls PROVE UploadOK(d)'
  BY <1>0, <1>4 DEF IInv, TypeOK, Exclusive, Bounded, UploadOK, Data, Jobs
<1>5. Versions'
  BY <1>0 DEF IInv, TypeOK, Exclusive, UploadOK, Versions, Data, Jobs
<1> QED BY <1>1, <1>2, <1>3, <1>4, <1>5 DEF IInv

\* The steps of an upload.
LEMMA SaveBumpedKeeps ==
  ASSUME IInv, NEW c \in Calls, SaveBumped(c)
  PROVE  IInv'
<1> USE DEF SaveBumped, Goes
<1>0. job[c] \in Jobs /\ memory \in Data /\ disk \in Data /\ UploadOK(c)
  BY DEF IInv, TypeOK
<1>1. TypeOK'
  <2> QED BY <1>0 DEF IInv, TypeOK, Phases
<1>2. Exclusive'
  BY DEF IInv, TypeOK, Exclusive
<1>3. Bounded'
  BY <1>0 DEF IInv, TypeOK, Bounded, Data, Jobs
<1>4. ASSUME NEW d \in Calls PROVE UploadOK(d)'
  BY <1>0, <1>4 DEF IInv, TypeOK, Exclusive, Bounded, UploadOK, Data, Jobs
<1>5. Versions'
  BY <1>0 DEF IInv, TypeOK, Exclusive, UploadOK, Versions, Data, Jobs
<1> QED BY <1>1, <1>2, <1>3, <1>4, <1>5 DEF IInv

LEMMA SaveBumpedFailsKeeps ==
  ASSUME IInv, NEW c \in Calls, SaveBumpedFails(c)
  PROVE  IInv'
<1> USE DEF SaveBumpedFails, UploadEnds, End
<1>0. job[c] \in Jobs /\ memory \in Data /\ disk \in Data /\ UploadOK(c)
  BY DEF IInv, TypeOK
<1>1. TypeOK'
  <2>1. job' \in [Calls -> Jobs]
    BY NoJobType DEF IInv, TypeOK
  <2> QED BY <1>0, <2>1 DEF IInv, TypeOK, Phases
<1>2. Exclusive'
  BY DEF IInv, TypeOK, Exclusive
<1>3. Bounded'
  BY <1>0 DEF IInv, TypeOK, Bounded, Data, Jobs, NoJob
<1>4. ASSUME NEW d \in Calls PROVE UploadOK(d)'
  BY <1>0, <1>4 DEF IInv, TypeOK, Exclusive, Bounded, UploadOK, Data, Jobs, NoJob
<1>5. Versions'
  BY <1>0 DEF IInv, TypeOK, Exclusive, UploadOK, Versions, Data, Jobs, NoJob
<1> QED BY <1>1, <1>2, <1>3, <1>4, <1>5 DEF IInv

LEMMA ExportKeeps ==
  ASSUME IInv, NEW c \in Calls, Export(c)
  PROVE  IInv'
<1> USE DEF Export, Goes
<1>0. job[c] \in Jobs /\ memory \in Data /\ disk \in Data /\ UploadOK(c)
  BY DEF IInv, TypeOK
<1>1. TypeOK'
  <2>1. [job[c] EXCEPT !.data = disk] \in Jobs
    BY <1>0, JobUpdates DEF IInv, TypeOK
  <2>2. job' \in [Calls -> Jobs]
    BY <2>1, NoJobType DEF IInv, TypeOK
  <2>3. memory' \in Data
    BY <1>0 DEF Data, Jobs
  <2> QED BY <1>0, <2>1, <2>2, <2>3 DEF IInv, TypeOK, Phases
<1>2. Exclusive'
  BY DEF IInv, TypeOK, Exclusive
<1>3. Bounded'
  BY <1>0 DEF IInv, TypeOK, Bounded, Data, Jobs
<1>4. ASSUME NEW d \in Calls PROVE UploadOK(d)'
  BY <1>0, <1>4 DEF IInv, TypeOK, Exclusive, Bounded, UploadOK, Data, Jobs
<1>5. Versions'
  BY <1>0 DEF IInv, TypeOK, Exclusive, UploadOK, Versions, Data, Jobs
<1> QED BY <1>1, <1>2, <1>3, <1>4, <1>5 DEF IInv

LEMMA SaveRestoredKeeps ==
  ASSUME IInv, NEW c \in Calls, SaveRestored(c)
  PROVE  IInv'
<1> USE DEF SaveRestored, Goes, UploadEnds, End
<1>0. job[c] \in Jobs /\ memory \in Data /\ disk \in Data /\ UploadOK(c)
  BY DEF IInv, TypeOK
<1>1. TypeOK'
  <2>1. [job[c] EXCEPT !.day = today] \in Jobs
    BY <1>0, JobUpdates DEF IInv, TypeOK
  <2>2. job' \in [Calls -> Jobs]
    BY <2>1, NoJobType DEF IInv, TypeOK
  <2> QED BY <1>0, <2>1, <2>2 DEF IInv, TypeOK, Phases
<1>2. Exclusive'
  BY DEF IInv, TypeOK, Exclusive
<1>3. Bounded'
  BY <1>0 DEF IInv, TypeOK, Bounded, Data, Jobs, NoJob
<1>4. ASSUME NEW d \in Calls PROVE UploadOK(d)'
  BY <1>0, <1>4 DEF IInv, TypeOK, Exclusive, Bounded, UploadOK, Data, Jobs, NoJob
<1>5. Versions'
  BY <1>0, SMTT(30) DEF IInv, TypeOK, Exclusive, UploadOK, Versions, Data, Jobs, NoJob
<1> QED BY <1>1, <1>2, <1>3, <1>4, <1>5 DEF IInv

LEMMA SaveRestoredFailsKeeps ==
  ASSUME IInv, NEW c \in Calls, SaveRestoredFails(c)
  PROVE  IInv'
<1> USE DEF SaveRestoredFails, UploadEnds, End
<1>0. job[c] \in Jobs /\ memory \in Data /\ disk \in Data /\ UploadOK(c)
  BY DEF IInv, TypeOK
<1>1. TypeOK'
  <2>1. job' \in [Calls -> Jobs]
    BY NoJobType DEF IInv, TypeOK
  <2> QED BY <1>0, <2>1 DEF IInv, TypeOK, Phases
<1>2. Exclusive'
  BY DEF IInv, TypeOK, Exclusive
<1>3. Bounded'
  BY <1>0 DEF IInv, TypeOK, Bounded, Data, Jobs, NoJob
<1>4. ASSUME NEW d \in Calls PROVE UploadOK(d)'
  BY <1>0, <1>4 DEF IInv, TypeOK, Exclusive, Bounded, UploadOK, Data, Jobs, NoJob
<1>5. Versions'
  BY <1>0 DEF IInv, TypeOK, Exclusive, UploadOK, Versions, Data, Jobs, NoJob
<1> QED BY <1>1, <1>2, <1>3, <1>4, <1>5 DEF IInv

LEMMA ListKeeps ==
  ASSUME IInv, NEW c \in Calls, List(c)
  PROVE  IInv'
<1> USE DEF List, Goes, UploadEnds, End
<1>0. job[c] \in Jobs /\ memory \in Data /\ disk \in Data /\ UploadOK(c)
  BY DEF IInv, TypeOK
<1>1. TypeOK'
  <2>1. [job[c] EXCEPT !.files = server] \in Jobs
    BY <1>0, JobUpdates DEF IInv, TypeOK
  <2>2. job' \in [Calls -> Jobs]
    BY <2>1, NoJobType DEF IInv, TypeOK
  <2> QED BY <1>0, <2>1, <2>2 DEF IInv, TypeOK, Phases
<1>2. Exclusive'
  BY DEF IInv, TypeOK, Exclusive
<1>3. Bounded'
  BY <1>0 DEF IInv, TypeOK, Bounded, Data, Jobs, NoJob
<1>4. ASSUME NEW d \in Calls PROVE UploadOK(d)'
  BY <1>0, <1>4 DEF IInv, TypeOK, Exclusive, Bounded, UploadOK, Data, Jobs, NoJob
<1>5. Versions'
  BY <1>0, SMTT(30) DEF IInv, TypeOK, Exclusive, UploadOK, Versions, Data, Jobs, NoJob
<1> QED BY <1>1, <1>2, <1>3, <1>4, <1>5 DEF IInv

LEMMA RemoveOldKeeps ==
  ASSUME IInv, NEW c \in Calls, RemoveOld(c)
  PROVE  IInv'
<1> USE DEF RemoveOld, Goes, UploadEnds, End
<1>0. job[c] \in Jobs /\ memory \in Data /\ disk \in Data /\ UploadOK(c)
  BY DEF IInv, TypeOK
<1>1. TypeOK'
  <2>1. job' \in [Calls -> Jobs]
    BY NoJobType DEF IInv, TypeOK
  <2> QED BY <1>0, <2>1 DEF IInv, TypeOK, Phases
<1>2. Exclusive'
  BY DEF IInv, TypeOK, Exclusive
<1>3. Bounded'
  BY <1>0 DEF IInv, TypeOK, Bounded, Data, Jobs, NoJob
<1>4. ASSUME NEW d \in Calls PROVE UploadOK(d)'
  BY <1>0, <1>4 DEF IInv, TypeOK, Exclusive, Bounded, UploadOK, Data, Jobs, NoJob
<1>5. Versions'
  BY <1>0 DEF IInv, TypeOK, Exclusive, UploadOK, Versions, Data, Jobs, NoJob
<1> QED BY <1>1, <1>2, <1>3, <1>4, <1>5 DEF IInv

LEMMA PruneKeeps ==
  ASSUME IInv, NEW c \in Calls, Prune(c)
  PROVE  IInv'
<1> USE DEF Prune, Goes, UploadEnds, End
<1>0. job[c] \in Jobs /\ memory \in Data /\ disk \in Data /\ UploadOK(c)
  BY DEF IInv, TypeOK
<1>1. TypeOK'
  <2>1. job' \in [Calls -> Jobs]
    BY NoJobType DEF IInv, TypeOK
  <2> QED BY <1>0, <2>1 DEF IInv, TypeOK, Phases
<1>2. Exclusive'
  BY DEF IInv, TypeOK, Exclusive
<1>3. Bounded'
  BY <1>0 DEF IInv, TypeOK, Bounded, Data, Jobs, NoJob
<1>4. ASSUME NEW d \in Calls PROVE UploadOK(d)'
  BY <1>0, <1>4 DEF IInv, TypeOK, Exclusive, Bounded, UploadOK, Data, Jobs, NoJob
<1>5. Versions'
  BY <1>0 DEF IInv, TypeOK, Exclusive, UploadOK, Versions, Data, Jobs, NoJob
<1> QED BY <1>1, <1>2, <1>3, <1>4, <1>5 DEF IInv

LEMMA WriteKeeps ==
  ASSUME IInv, NEW c \in Calls, Write(c)
  PROVE  IInv'
<1> USE DEF Write, Goes, Stores, Stored, UploadEnds, End
<1>0. job[c] \in Jobs /\ memory \in Data /\ disk \in Data /\ UploadOK(c)
  BY DEF IInv, TypeOK
<1>6. /\ File(c) \in Snapshot
      /\ File(c).version = job[c].previous + 1 /\ File(c).data = job[c].data
      /\ job[c].data.version = job[c].previous + 1
  BY <1>0 DEF UploadOK, File, Jobs, Snapshot, Data
<1>7. Max({highest, File(c).version}) \in Nat /\ Max({highest, File(c).version}) >= highest
      /\ Max({highest, File(c).version}) >= File(c).version
  BY <1>6, MaxOfTwo DEF IInv, TypeOK, Snapshot
<1>1. TypeOK'
  <2>1. job' \in [Calls -> Jobs]
    BY NoJobType DEF IInv, TypeOK
  <2>2. memory' \in Data
    BY <1>0 DEF IInv, TypeOK, Data, Jobs
  <2>3. server' \in SUBSET Snapshot
    BY <1>6 DEF IInv, TypeOK
  <2>4. highest' \in Nat
    BY <1>7 DEF IInv, TypeOK
  <2> QED BY <1>0, <2>1, <2>2, <2>3, <2>4 DEF IInv, TypeOK, Phases
<1>2. Exclusive'
  BY DEF IInv, TypeOK, Exclusive
<1>3. Bounded'
  <2>1. File(c).data.value <= edits
    BY <1>0, <1>6 DEF IInv, Bounded, UploadOK
  <2>2. \A f \in server' : f.data.value <= edits
    BY <2>1 DEF IInv, Bounded
  <2>3. memory'.value <= edits
    BY <1>0 DEF IInv, Bounded, Data
  <2> QED BY <1>0, <2>2, <2>3 DEF IInv, TypeOK, Bounded, Jobs, NoJob
<1>4. ASSUME NEW d \in Calls PROVE UploadOK(d)'
  BY <1>6, <1>7, <1>0, <1>4 DEF IInv, TypeOK, Exclusive, Bounded, UploadOK, Data, Jobs, NoJob
<1>5. Versions'
  <2>1. highest' \in Nat /\ highest' >= highest
    BY <1>7 DEF IInv, TypeOK
  <2>2. \A f \in server' : f.version <= highest' /\ f.data.version <= highest'
    BY <1>6, <1>7, <2>1 DEF IInv, TypeOK, Versions, Snapshot, Data
  <2>3. \A d \in Calls : pc'[d] = "importing" => job'[d].data.version <= highest'
    BY <1>0, <2>1 DEF IInv, TypeOK, Exclusive
  <2>4. \A d \in Calls : pc'[d] \in Uploading => d = c
    BY <1>0 DEF IInv, TypeOK, Exclusive
  <2>5. pc'[c] \in Uploading =>
          pc'[c] = "confirming" /\ job' = job /\ highest' >= job[c].previous + 1
    BY <1>0, <1>6, <1>7 DEF IInv, TypeOK
  <2>6. ASSUME ~torn PROVE memory'.version <= highest' /\ disk'.version <= highest'
    BY <1>0, <1>6, <1>7, <2>1, <2>6 DEF IInv, TypeOK, Exclusive, Versions, Data, Jobs
  <2> QED BY <1>0, <2>1, <2>2, <2>3, <2>4, <2>5, <2>6 DEF Versions, Jobs
<1> QED BY <1>1, <1>2, <1>3, <1>4, <1>5 DEF IInv

LEMMA ConfirmKeeps ==
  ASSUME IInv, NEW c \in Calls, Confirm(c)
  PROVE  IInv'
<1> USE DEF Confirm, UploadEnds, End
<1>0. job[c] \in Jobs /\ memory \in Data /\ disk \in Data /\ UploadOK(c)
  BY DEF IInv, TypeOK
<1>1. TypeOK'
  <2>1. job' \in [Calls -> Jobs]
    BY NoJobType DEF IInv, TypeOK
  <2> QED BY <1>0, <2>1 DEF IInv, TypeOK, Phases
<1>2. Exclusive'
  BY DEF IInv, TypeOK, Exclusive
<1>3. Bounded'
  BY <1>0 DEF IInv, TypeOK, Bounded, Data, Jobs, NoJob
<1>4. ASSUME NEW d \in Calls PROVE UploadOK(d)'
  BY <1>0, <1>4 DEF IInv, TypeOK, Exclusive, Bounded, UploadOK, Data, Jobs, NoJob
<1>5. Versions'
  BY <1>0 DEF IInv, TypeOK, Exclusive, UploadOK, Versions, Data, Jobs, NoJob
<1> QED BY <1>1, <1>2, <1>3, <1>4, <1>5 DEF IInv

\* The steps of a download.
LEMMA ReadDirKeeps ==
  ASSUME IInv, NEW c \in Calls, ReadDir(c)
  PROVE  IInv'
<1> USE DEF ReadDir, Goes, DownloadEnds, End
<1>0. job[c] \in Jobs /\ memory \in Data /\ disk \in Data /\ UploadOK(c)
  BY DEF IInv, TypeOK
<1>1. TypeOK'
  <2>1. \A f \in server : [job[c] EXCEPT !.file = f] \in Jobs
    BY <1>0, JobUpdates DEF IInv, TypeOK
  <2>2. job' \in [Calls -> Jobs]
    BY <2>1, NoJobType DEF IInv, TypeOK
  <2> QED BY <1>0, <2>1, <2>2 DEF IInv, TypeOK, Phases
<1>2. Exclusive'
  BY DEF IInv, TypeOK, Exclusive
<1>3. Bounded'
  BY <1>0 DEF IInv, TypeOK, Bounded, Data, Jobs, NoJob
<1>4. ASSUME NEW d \in Calls PROVE UploadOK(d)'
  BY <1>0, <1>4 DEF IInv, TypeOK, Exclusive, Bounded, UploadOK, Data, Jobs, NoJob
<1>5. Versions'
  BY <1>0 DEF IInv, TypeOK, Exclusive, UploadOK, Versions, Data, Jobs, NoJob
<1> QED BY <1>1, <1>2, <1>3, <1>4, <1>5 DEF IInv

LEMMA FetchKeeps ==
  ASSUME IInv, NEW c \in Calls, Fetch(c)
  PROVE  IInv'
<1> USE DEF Fetch, Goes, DownloadEnds, End
<1>0. job[c] \in Jobs /\ memory \in Data /\ disk \in Data /\ UploadOK(c)
  BY DEF IInv, TypeOK
<1>1. TypeOK'
  <2>1. \A f \in server : [job[c] EXCEPT !.data = f.data] \in Jobs
    BY <1>0, JobUpdates DEF IInv, TypeOK, Snapshot
  <2>2. job' \in [Calls -> Jobs]
    BY <2>1, NoJobType DEF IInv, TypeOK
  <2> QED BY <1>0, <2>1, <2>2 DEF IInv, TypeOK, Phases
<1>2. Exclusive'
  BY DEF IInv, TypeOK, Exclusive
<1>3. Bounded'
  BY <1>0 DEF IInv, TypeOK, Bounded, Data, Jobs, NoJob
<1>4. ASSUME NEW d \in Calls PROVE UploadOK(d)'
  BY <1>0, <1>4, SyncAssumption
     DEF IInv, TypeOK, Exclusive, Bounded, UploadOK, Snapshot, Data, Jobs, NoJob
<1>5. Versions'
  BY <1>0 DEF IInv, TypeOK, Exclusive, UploadOK, Versions, Data, Jobs, NoJob
<1> QED BY <1>1, <1>2, <1>3, <1>4, <1>5 DEF IInv

LEMMA ImportKeeps ==
  ASSUME IInv, NEW c \in Calls, Import(c)
  PROVE  IInv'
<1> USE DEF Import, DownloadEnds, End
<1>0. job[c] \in Jobs /\ memory \in Data /\ disk \in Data /\ UploadOK(c)
  BY DEF IInv, TypeOK
<1>1. TypeOK'
  <2>1. job' \in [Calls -> Jobs]
    BY NoJobType DEF IInv, TypeOK
  <2>2. memory' \in Data
    BY <1>0 DEF UploadOK, Jobs
  <2> QED BY <1>0, <2>1, <2>2 DEF IInv, TypeOK, Phases
<1>2. Exclusive'
  BY DEF IInv, TypeOK, Exclusive
<1>3. Bounded'
  <2>1. memory'.value <= edits
    BY <1>0 DEF IInv, Bounded, UploadOK
  <2> QED BY <1>0, <2>1 DEF IInv, TypeOK, Bounded, Jobs, NoJob
<1>4. ASSUME NEW d \in Calls PROVE UploadOK(d)'
  BY <1>0, <1>4 DEF IInv, TypeOK, Exclusive, Bounded, UploadOK, Data, Jobs, NoJob
<1>5. Versions'
  BY <1>0 DEF IInv, TypeOK, Exclusive, UploadOK, Versions, Data, Jobs, NoJob
<1> QED BY <1>1, <1>2, <1>3, <1>4, <1>5 DEF IInv

LEMMA CleanKeeps ==
  ASSUME IInv, NEW c \in Calls, Clean(c)
  PROVE  IInv'
<1> USE DEF Clean, DownloadEnds, End
<1>0. job[c] \in Jobs /\ memory \in Data /\ disk \in Data /\ UploadOK(c)
  BY DEF IInv, TypeOK
<1>1. TypeOK'
  <2>1. job' \in [Calls -> Jobs]
    BY NoJobType DEF IInv, TypeOK
  <2> QED BY <1>0, <2>1 DEF IInv, TypeOK, Phases
<1>2. Exclusive'
  BY DEF IInv, TypeOK, Exclusive
<1>3. Bounded'
  BY <1>0 DEF IInv, TypeOK, Bounded, Data, Jobs, NoJob
<1>4. ASSUME NEW d \in Calls PROVE UploadOK(d)'
  BY <1>0, <1>4 DEF IInv, TypeOK, Exclusive, Bounded, UploadOK, Data, Jobs, NoJob
<1>5. Versions'
  BY <1>0 DEF IInv, TypeOK, Exclusive, UploadOK, Versions, Data, Jobs, NoJob
<1> QED BY <1>1, <1>2, <1>3, <1>4, <1>5 DEF IInv

-----------------------------------------------------------------------------
LEMMA InitHolds == Init => IInv
<1> SUFFICES ASSUME Init PROVE IInv
  OBVIOUS
<1> USE SyncAssumption DEF Init
<1>1. TypeOK
  <2>1. memory \in Data
    BY DEF Data
  <2>2. server \in SUBSET Snapshot
    BY <2>1 DEF Snapshot
  <2> QED BY <2>1, <2>2, NoJobType DEF TypeOK, Phases
<1>2. Exclusive
  BY DEF Exclusive
<1>3. Bounded
  BY DEF Bounded, NoJob
<1>4. ASSUME NEW c \in Calls PROVE UploadOK(c)
  BY <1>4 DEF UploadOK
<1>5. Versions
  BY DEF Versions
<1> QED BY <1>1, <1>2, <1>3, <1>4, <1>5 DEF IInv

\* What uploadData and downloadData do up to their first await.
LEMMA CallKeeps ==
  ASSUME IInv, NEW c \in Calls, pc[c] \in {"idle", "saving"},
         disk' \in {disk, memory}, UNCHANGED <<server, today, ghosts>>,
         UploadData(c) \/ DownloadData(c)
  PROVE  IInv'
<1>1. \A where \in Waiting :
         ~haveWaitingTask /\ (where = "waitUpload" => ~isDownloading) /\ Wait(c, where) => IInv'
  BY WaitKeeps
<1>2. CASE UploadData(c)
  BY <1>1, <1>2, TurnedAwayKeeps, BeginUploadKeeps DEF UploadData
<1>3. CASE DownloadData(c)
  BY <1>1, <1>3, TurnedAwayKeeps, BeginDownloadKeeps DEF DownloadData
<1> QED BY <1>2, <1>3

LEMMA AskKeeps ==
  ASSUME IInv, NEW c \in Calls, Ask(c)
  PROVE  IInv'
  BY CallKeeps DEF Ask

LEMMA SaveChangeKeeps ==
  ASSUME IInv, NEW c \in Calls, SaveChange(c)
  PROVE  IInv'
<1>1. CASE disk' = memory /\ UploadData(c)
  BY <1>1, CallKeeps DEF SaveChange
<1>2. CASE End(c) /\ UNCHANGED <<memory, disk, flags>>
  BY <1>2, TurnedAwayKeeps DEF SaveChange, TurnedAway
<1> QED BY <1>1, <1>2 DEF SaveChange

LEMMA PollKeeps ==
  ASSUME IInv, NEW c \in Calls, Poll(c)
  PROVE  IInv'
<1>1. CASE pc[c] = "waitUpload" /\ ~isUploading /\ BeginUpload(c)
  <2>1. ~isDownloading
    BY <1>1 DEF IInv, Exclusive
  <2> QED BY <1>1, <2>1, BeginUploadKeeps DEF Poll
<1>2. CASE pc[c] = "waitDownload" /\ ~isDownloading /\ ~isUploading /\ BeginDownload(c)
  BY <1>2, BeginDownloadKeeps DEF Poll
<1> QED BY <1>1, <1>2 DEF Poll

\* Another device's snapshot has a version of its own, and no change of this device
\* that has not been made.
LEMMA OtherUploadsKeeps ==
  ASSUME IInv, OtherUploads
  PROVE  IInv'
<1>1. PICK seen \in server :
        LET f == [day |-> today, version |-> seen.version + 1,
                  data |-> [seen.data EXCEPT !.version = seen.version + 1]]
        IN  \E gone \in {{}} \cup {{g} : g \in {h \in server : h.day = today}} :
               /\ server' = {g \in server \ gone : g.day # f.day \/ g.version # f.version} \cup {f}
               /\ highest' = Max({highest, f.version})
  BY DEF OtherUploads
<1> DEFINE f == [day |-> today, version |-> seen.version + 1,
                 data |-> [seen.data EXCEPT !.version = seen.version + 1]]
<1>2. /\ f \in Snapshot /\ f.version \in Nat /\ f.data.version = f.version
      /\ f.data.value = seen.data.value
  BY DEF IInv, TypeOK, Snapshot, Data
<1>3. /\ server' \subseteq server \cup {f}
      /\ highest' = Max({highest, f.version})
  BY <1>1
<1> HIDE DEF f
<1>4. highest' \in Nat /\ highest' >= highest /\ highest' >= f.version
  BY <1>2, <1>3, MaxOfTwo DEF IInv, TypeOK
<1> USE DEF OtherUploads
<1>5. TypeOK'
  BY <1>2, <1>3, <1>4 DEF IInv, TypeOK
<1>6. Exclusive'
  BY DEF IInv, Exclusive
<1>7. Bounded'
  BY <1>2, <1>3 DEF IInv, Bounded
<1>8. ASSUME NEW d \in Calls PROVE UploadOK(d)'
  BY <1>8 DEF IInv, UploadOK
<1>9. Versions'
  <2>1. \A g \in server' : g.version <= highest' /\ g.data.version <= highest'
    BY <1>2, <1>3, <1>4 DEF IInv, TypeOK, Versions, Snapshot, Data
  <2>2. \A d \in Calls : pc[d] = "importing" => job[d].data.version <= highest'
    BY <1>4, SyncAssumption DEF IInv, TypeOK, UploadOK, Versions, Jobs, Data
  <2>3. \A n \in Nat : n <= highest => n <= highest'
    BY <1>4 DEF IInv, TypeOK
  <2>4. memory.version \in Nat /\ disk.version \in Nat /\ \A d \in Calls : job[d].previous \in Nat
    BY DEF IInv, TypeOK, Data, Jobs
  <2>5. ASSUME ~torn
        PROVE  /\ \A d \in Calls : pc[d] \in Uploading => job[d].previous <= highest'
               /\ (\A d \in Calls : pc[d] \notin Window) =>
                     memory.version <= highest' /\ disk.version <= highest'
    BY <2>3, <2>4, <2>5 DEF IInv, Versions
  <2>6. UNCHANGED <<memory, disk, pc, job, torn>>
    OBVIOUS
  <2> HIDE DEF OtherUploads
  <2> QED BY <2>1, <2>2, <2>5, <2>6 DEF Versions
<1> QED BY <1>5, <1>6, <1>7, <1>8, <1>9 DEF IInv

\* A request that was on its way leaves on the server what an upload may leave there.
LEMMA LateEffectIsKnown ==
  ASSUME IInv, NEW c \in Calls, LateEffect(c)
  PROVE  /\ server' \in SUBSET Snapshot /\ highest' \in Nat /\ highest' >= highest
         /\ \A f \in server' : /\ f.version <= highest' /\ f.data.version <= highest'
                                /\ f.data.value <= edits
<1>0. job[c] \in Jobs /\ UploadOK(c) /\ highest \in Nat /\ server \in SUBSET Snapshot
  BY DEF IInv, TypeOK
<1>1. CASE server' \subseteq server /\ UNCHANGED highest
  BY <1>0, <1>1 DEF IInv, Bounded, Versions
<1>2. CASE pc[c] = "writing" /\ Stores(File(c))
  <2>1. /\ File(c) \in Snapshot
        /\ File(c).version = job[c].previous + 1 /\ File(c).data = job[c].data
        /\ job[c].data.version = job[c].previous + 1 /\ job[c].data.value <= edits
    BY <1>0, <1>2 DEF UploadOK, File, Jobs, Snapshot, Data, IInv, Bounded
  <2>2. highest' \in Nat /\ highest' >= highest /\ highest' >= File(c).version
    BY <1>0, <1>2, <2>1, MaxOfTwo DEF Stores, Snapshot
  <2>3. server' \subseteq server \cup {File(c)}
    BY <1>2 DEF Stores, Stored
  <2> QED BY <1>0, <2>1, <2>2, <2>3 DEF IInv, Bounded, Versions, Snapshot, Data
<1> QED BY <1>1, <1>2 DEF LateEffect

LEMMA RestartKeeps ==
  ASSUME IInv, Restart
  PROVE  IInv'
<1>0. /\ server' \in SUBSET Snapshot /\ highest' \in Nat /\ highest' >= highest
      /\ \A f \in server' : /\ f.version <= highest' /\ f.data.version <= highest'
                             /\ f.data.value <= edits
  <2>1. CASE UNCHANGED <<server, highest>>
    BY <2>1 DEF IInv, TypeOK, Bounded, Versions
  <2> QED BY <2>1, LateEffectIsKnown DEF Restart
<1> USE DEF Restart
<1>1. TypeOK'
  BY <1>0, NoJobType DEF IInv, TypeOK, Phases
<1>2. Exclusive'
  BY DEF Exclusive
<1>3. Bounded'
  BY <1>0 DEF IInv, TypeOK, Bounded, NoJob
<1>4. ASSUME NEW d \in Calls PROVE UploadOK(d)'
  BY <1>4 DEF UploadOK
<1>5. Versions'
  <2>1. disk.version \in Nat /\ highest \in Nat
    BY DEF IInv, TypeOK, Data
  <2>2. ASSUME ~torn' PROVE disk.version <= highest
    BY <2>2 DEF IInv, Versions
  <2> QED BY <1>0, <2>1, <2>2 DEF Versions
<1> QED BY <1>1, <1>2, <1>3, <1>4, <1>5 DEF IInv

LEMMA StepKeeps == IInv /\ [Next]_vars => IInv'
<1> SUFFICES ASSUME IInv, [Next]_vars PROVE IInv'
  OBVIOUS
<1>1. ASSUME NEW c \in Calls, Upload(c) PROVE IInv'
  BY <1>1, SaveBumpedKeeps, SaveBumpedFailsKeeps, ExportKeeps, SaveRestoredKeeps,
     SaveRestoredFailsKeeps, ListKeeps, RemoveOldKeeps, PruneKeeps, WriteKeeps, ConfirmKeeps
     DEF Upload
<1>2. ASSUME NEW c \in Calls, Download(c) PROVE IInv'
  BY <1>2, ReadDirKeeps, FetchKeeps, ImportKeeps, CleanKeeps DEF Download
<1>3. ASSUME NEW c \in Calls, Ask(c) \/ Change(c) \/ Poll(c) \/ SaveChange(c) PROVE IInv'
  BY <1>3, AskKeeps, ChangeKeeps, PollKeeps, SaveChangeKeeps
<1>4. CASE Midnight
  BY <1>4 DEF Midnight, IInv, TypeOK, Exclusive, Bounded, UploadOK, Versions
<1>5. CASE UNCHANGED vars
  BY <1>5 DEF vars, IInv, TypeOK, Exclusive, Bounded, UploadOK, Versions
<1> QED BY <1>1, <1>2, <1>3, <1>4, <1>5, OtherUploadsKeeps, RestartKeeps DEF Next, Proceed

-----------------------------------------------------------------------------
(* The names of the snapshots, while no other device writes. *)

\* An upload's version is not below any on the server, its day is not before any, and
\* once it has removed the snapshot of its day there is none.
Sender(c) ==
  /\ pc[c] \in Window \cup Sending => \A f \in server : f.version <= job[c].previous + 1
  /\ pc[c] \in Sending =>
        /\ memory.version >= job[c].previous /\ disk.version >= job[c].previous
        /\ job[c].day \in FirstDay .. today /\ \A f \in server : f.day <= job[c].day
  /\ pc[c] = "removing" => job[c].files = server
  /\ pc[c] \in {"pruning", "writing"} => \A f \in server : f.day # job[c].day

\* One snapshot a day, and a later one has no lower version.
Filed ==
  /\ \A f, g \in server : f.day = g.day => f = g
  /\ \A f, g \in server : f.day < g.day => f.version <= g.version
  /\ \A f \in server : f.day \in FirstDay .. today

\* The device is at most one version behind, in memory and on disk: the one whose upload
\* took effect but was not confirmed.
NotBehind == \A f \in server : f.version <= memory.version + 1 /\ f.version <= disk.version + 1

Newest ==
  /\ today \in FirstDay .. MaxDay
  /\ ~othersWrote => Filed /\ NotBehind /\ \A c \in Calls : Sender(c)

LEMMA VersionTypes ==
  ASSUME IInv, Newest
  PROVE  /\ memory.version \in Nat /\ disk.version \in Nat
         /\ today \in Nat /\ today \in FirstDay .. MaxDay /\ FirstDay \in Nat /\ MaxDay \in Nat
         /\ \A c \in Calls : job[c].previous \in Nat /\ job[c].day \in Nat
         /\ \A f \in server : f.version \in Nat /\ f.day \in Nat
         /\ pc \in [Calls -> Phases] /\ job \in [Calls -> Jobs]
<1>1. memory \in Data /\ disk \in Data /\ job \in [Calls -> Jobs] /\ server \in SUBSET Snapshot
      /\ pc \in [Calls -> Phases] /\ today \in Nat
  BY DEF IInv, TypeOK
<1>2. \A c \in Calls : job[c] \in Jobs
  BY <1>1
<1> QED BY <1>1, <1>2, SyncAssumption DEF Data, Jobs, Snapshot, Newest

\* A step that is not an upload's: the settings' version does not go down.
LEMMA NewestBesideUploads ==
  ASSUME IInv, Newest, UNCHANGED <<server, today, othersWrote>>, disk' \in {disk, memory},
         memory'.version \in Nat, memory'.version >= memory.version,
         \A d \in Calls : \/ pc'[d] = pc[d] /\ job'[d] = job[d]
                          \/ pc'[d] \notin Window \cup Sending
                          \/ pc'[d] = "bumped" /\ job'[d].previous = memory.version
  PROVE  Newest'
<1>1. CASE othersWrote
  BY <1>1 DEF Newest
<1>2. CASE ~othersWrote
  <2>1. Filed /\ NotBehind
    BY <1>2 DEF Newest
  <2>2. Filed'
    BY <2>1 DEF Filed
  <2>3. NotBehind'
    BY <2>1, VersionTypes DEF NotBehind
  <2>4. ASSUME NEW d \in Calls PROVE Sender(d)'
    <3>1. Sender(d)
      BY <1>2 DEF Newest
    <3>2. CASE pc'[d] = pc[d] /\ job'[d] = job[d]
      BY <3>1, <3>2, VersionTypes DEF Sender
    <3>3. CASE pc'[d] \notin Window \cup Sending
      BY <3>3 DEF Sender
    <3>4. CASE pc'[d] = "bumped" /\ job'[d].previous = memory.version
      BY <2>1, <3>4 DEF Sender, NotBehind
    <3> QED BY <3>2, <3>3, <3>4
  <2> QED BY <2>2, <2>3, <2>4 DEF Newest
<1> QED BY <1>1, <1>2

\* A step of an upload that stores nothing; no other upload is under way.
LEMMA NewestInUpload ==
  ASSUME IInv, Newest, NEW c \in Calls, pc[c] \in Uploading, server' \subseteq server,
         UNCHANGED <<today, othersWrote>>, \A d \in Calls \ {c} : pc'[d] = pc[d],
         ~othersWrote => Sender(c)' /\ NotBehind'
  PROVE  Newest'
<1>1. CASE othersWrote
  BY <1>1 DEF Newest
<1>2. CASE ~othersWrote
  <2>1. Filed'
    BY <1>2 DEF Newest, Filed
  <2>2. ASSUME NEW d \in Calls \ {c} PROVE Sender(d)'
    <3>1. pc[d] \notin Uploading
      BY DEF IInv, Exclusive
    <3> QED BY <3>1 DEF Sender
  <2> QED BY <1>2, <2>1, <2>2 DEF Newest
<1> QED BY <1>1, <1>2

\* The snapshot an upload stores is the only one of its day, which is the last.
LEMMA StoredLast ==
  ASSUME IInv, Newest, ~othersWrote, NEW c \in Calls, pc[c] = "writing", Stores(File(c))
  PROVE  /\ \A f, g \in server' : f.day = g.day => f = g
         /\ \A f, g \in server' : f.day < g.day => f.version <= g.version
         /\ \A f \in server' : f.day \in FirstDay .. today /\ f.version <= job[c].previous + 1
<1> DEFINE new == File(c)
<1>1. server' = {g \in server : g.day # new.day \/ g.version # new.version} \cup {new}
      /\ new.day = job[c].day /\ new.version = job[c].previous + 1
  BY DEF Stores, Stored, File
<1>2. Filed /\ Sender(c)
  BY DEF Newest
<1>3. \A f \in server : /\ f.day # new.day /\ f.day <= new.day /\ f.version <= new.version
                        /\ f.day \in Nat /\ f.version \in Nat
  BY <1>1, <1>2, VersionTypes DEF Sender
<1>4. new.day \in FirstDay .. today /\ new.day \in Nat /\ new.version \in Nat
  BY <1>1, <1>2, VersionTypes DEF Sender
<1>5. \A f \in server' : f \in server \/ f = new
  BY <1>1
<1> HIDE DEF new
<1>6. ASSUME NEW f \in server', NEW g \in server', f.day = g.day PROVE f = g
  BY <1>2, <1>3, <1>5, <1>6 DEF Filed
<1>7. ASSUME NEW f \in server', NEW g \in server', f.day < g.day PROVE f.version <= g.version
  BY <1>2, <1>3, <1>4, <1>5, <1>7 DEF Filed
<1>8. ASSUME NEW f \in server' PROVE f.day \in FirstDay .. today /\ f.version <= new.version
  BY <1>2, <1>3, <1>4, <1>5 DEF Filed
<1> QED BY <1>1, <1>6, <1>7, <1>8

\* The steps of calls that are not uploading.
LEMMA NewestAtCalls ==
  ASSUME IInv, Newest, NEW c \in Calls, Ask(c) \/ Change(c) \/ Poll(c) \/ SaveChange(c)
  PROVE  Newest'
<1> USE DEF TurnedAway, Wait, BeginDownload, BeginUpload, End
<1>1. pc[c] \in {"idle", "saving"} \cup Waiting /\ UNCHANGED <<server, today, othersWrote>>
      /\ disk' \in {disk, memory}
  BY DEF Ask, Change, Poll, SaveChange
<1>2. \/ /\ UNCHANGED <<memory, job>>
         /\ \E p \in Phases \ (Window \cup Sending) : pc' = [pc EXCEPT ![c] = p]
      \/ TurnedAway(c)
      \/ BeginUpload(c)
      \/ /\ memory' = [memory EXCEPT !.value = edits + 1] /\ UNCHANGED job
         /\ pc' = [pc EXCEPT ![c] = "saving"]
  BY DEF Ask, Change, Poll, SaveChange, UploadData, DownloadData, Phases
<1>3. memory \in Data /\ pc \in [Calls -> Phases] /\ job \in [Calls -> Jobs]
  BY DEF IInv, TypeOK
<1>4. memory'.version \in Nat /\ memory'.version >= memory.version
  BY <1>2, <1>3, VersionTypes DEF Data
<1>5. ASSUME NEW d \in Calls
      PROVE  \/ pc'[d] = pc[d] /\ job'[d] = job[d]
             \/ pc'[d] \notin Window \cup Sending
             \/ pc'[d] = "bumped" /\ job'[d].previous = memory.version
  BY <1>2, <1>3 DEF NoJob
<1> QED BY <1>1, <1>4, <1>5, NewestBesideUploads

LEMMA NewestInDownload ==
  ASSUME IInv, Newest, NEW c \in Calls, Download(c)
  PROVE  Newest'
<1>1. UNCHANGED <<server, today, othersWrote, disk>> /\ pc \in [Calls -> Phases]
      /\ job \in [Calls -> Jobs]
  BY DEF Download, ReadDir, Fetch, Import, Clean, IInv, TypeOK
<1>2. memory'.version \in Nat /\ memory'.version >= memory.version
  <2>1. CASE UNCHANGED memory
    BY <2>1, VersionTypes
  <2>2. CASE pc[c] = "importing" /\ job[c].data.version > memory.version /\ memory' = job[c].data
    <3>1. job[c].data \in Data
      BY <1>1, <2>2 DEF IInv, UploadOK, Jobs
    <3> QED BY <2>2, <3>1, VersionTypes DEF Data
  <2> QED BY <2>1, <2>2 DEF Download, ReadDir, Fetch, Import, Clean
<1>3. ASSUME NEW d \in Calls
      PROVE  \/ pc'[d] = pc[d] /\ job'[d] = job[d]
             \/ pc'[d] \notin Window \cup Sending
  BY <1>1 DEF Download, ReadDir, Fetch, Import, Clean, DownloadEnds, End, Goes
<1> QED BY <1>1, <1>2, <1>3, NewestBesideUploads

\* The steps of an upload up to the listing, and its last one.
LEMMA NewestWhileExporting ==
  ASSUME IInv, Newest, NEW c \in Calls,
         \/ SaveBumped(c) \/ SaveBumpedFails(c) \/ Export(c) \/ SaveRestored(c)
         \/ SaveRestoredFails(c) \/ List(c) \/ Confirm(c)
  PROVE  Newest'
<1> USE DEF SaveBumped, SaveBumpedFails, Export, SaveRestored, SaveRestoredFails, List, Confirm,
            UploadEnds, End, Goes
<1>1. pc[c] \in Uploading /\ UNCHANGED <<server, today, othersWrote>>
      /\ \A d \in Calls \ {c} : pc'[d] = pc[d]
  BY VersionTypes
<1>2. ASSUME ~othersWrote PROVE NotBehind'
  <2>1. NotBehind /\ Sender(c) /\ UploadOK(c)
    BY <1>2 DEF Newest, IInv
  <2>2. CASE UNCHANGED memory /\ disk' \in {disk, memory}
    BY <1>1, <2>1, <2>2 DEF NotBehind
  <2>3. CASE UNCHANGED disk /\ memory' = [memory EXCEPT !.version = job[c].previous]
             /\ pc[c] = "exporting"
    <3>1. memory'.version = job[c].previous
      BY <2>3 DEF IInv, TypeOK, Data
    <3> QED BY <1>1, <2>1, <2>3, <3>1 DEF NotBehind, Sender
  <2> QED BY <2>2, <2>3
<1>3. ASSUME ~othersWrote PROVE Sender(c)'
  <2>1. NotBehind /\ Filed /\ Sender(c) /\ UploadOK(c)
    BY <1>3 DEF Newest, IInv
  <2>2. pc'[c] \notin Window \cup Sending => Sender(c)'
    BY DEF Sender
  <2>3. CASE SaveBumped(c) \/ Export(c)
    <3>1. pc'[c] \in Window /\ job'[c].previous = job[c].previous /\ pc[c] \in Window
      BY <2>3, VersionTypes DEF Jobs
    <3> QED BY <1>1, <2>1, <3>1 DEF Sender
  <2>4. CASE SaveRestored(c) /\ pc'[c] = "listing"
    <3>1. job'[c].previous = job[c].previous /\ job'[c].day = today
          /\ memory' = memory /\ disk' = memory
      BY <2>4, VersionTypes DEF Jobs
    <3>2. memory.version = job[c].previous
      BY <2>1, <2>4 DEF UploadOK
    <3>3. \A f \in server : f.version <= job[c].previous + 1 /\ f.day \in FirstDay .. today
      BY <2>1, <2>4 DEF Sender, Filed
    <3> QED BY <1>1, <2>4, <3>1, <3>2, <3>3, VersionTypes DEF Sender
  <2>5. CASE List(c) /\ pc'[c] = "removing"
    <3>1. job'[c].previous = job[c].previous /\ job'[c].day = job[c].day /\ job'[c].files = server
          /\ UNCHANGED <<memory, disk>>
      BY <2>5, VersionTypes DEF Jobs
    <3> QED BY <1>1, <2>1, <2>5, <3>1 DEF Sender
  <2> QED BY <2>2, <2>3, <2>4, <2>5, VersionTypes
<1> QED BY <1>1, <1>2, <1>3, NewestInUpload

\* The steps of an upload that remove and store.
LEMMA NewestWhileSending ==
  ASSUME IInv, Newest, NEW c \in Calls, RemoveOld(c) \/ Prune(c)
  PROVE  Newest'
<1> USE DEF RemoveOld, Prune, UploadEnds, End, Goes
<1>1. pc[c] \in Uploading /\ UNCHANGED <<today, othersWrote, memory, disk>> /\ server' \subseteq server
      /\ \A d \in Calls \ {c} : pc'[d] = pc[d]
  BY VersionTypes
<1>2. ASSUME ~othersWrote PROVE NotBehind'
  BY <1>1, <1>2 DEF Newest, NotBehind
<1>3. ASSUME ~othersWrote PROVE Sender(c)'
  <2>1. Filed /\ Sender(c)
    BY <1>3 DEF Newest
  <2>2. pc'[c] = "idle" => Sender(c)'
    BY DEF Sender
  <2>3. CASE pc[c] = "removing" /\ pc'[c] = "pruning"
    <3>1. UNCHANGED job /\ job[c].files = server
      BY <2>1, <2>3, VersionTypes DEF Sender
    <3>2. \/ OfTheDay(c) = {} /\ server' = server
          \/ \E old \in OfTheDay(c) : server' = server \ {old}
      BY <2>3, VersionTypes
    <3>3. \A f \in server' : f.day # job[c].day
      BY <2>1, <3>1, <3>2 DEF OfTheDay, Filed
    <3> QED BY <1>1, <2>1, <2>3, <3>1, <3>3 DEF Sender
  <2>4. CASE pc[c] = "pruning" /\ pc'[c] = "writing"
    <3>1. UNCHANGED job
      BY <2>4, VersionTypes
    <3> QED BY <1>1, <2>1, <2>4, <3>1 DEF Sender
  <2> QED BY <2>2, <2>3, <2>4, VersionTypes
<1> QED BY <1>1, <1>2, <1>3, NewestInUpload

LEMMA NewestAtWrite ==
  ASSUME IInv, Newest, NEW c \in Calls, Write(c)
  PROVE  Newest'
<1> USE DEF Write, UploadEnds, End, Goes
<1>1. pc[c] = "writing" /\ UNCHANGED <<today, othersWrote, disk>>
      /\ \A d \in Calls \ {c} : pc'[d] = pc[d]
  BY VersionTypes
<1>2. CASE UNCHANGED server
  <2>1. (UNCHANGED memory /\ pc'[c] = "idle") \/ Stores(File(c))
    BY <1>2, VersionTypes
  <2>2. CASE UNCHANGED memory /\ pc'[c] = "idle"
    BY <1>1, <1>2, <2>2, NewestInUpload DEF Sender, NotBehind, Newest
  <2>3. CASE Stores(File(c)) /\ ~(UNCHANGED memory /\ pc'[c] = "idle")
    <3>1. memory'.version = job[c].previous + 1 /\ pc'[c] = "confirming"
      BY <2>3, VersionTypes DEF IInv, TypeOK, Data
    <3>2. ~othersWrote => NotBehind' /\ Sender(c)'
      BY <1>1, <1>2, <3>1, VersionTypes DEF Sender, NotBehind, Newest
    <3> QED BY <1>1, <1>2, <3>2, NewestInUpload
  <2> QED BY <2>1, <2>2, <2>3
<1>3. CASE Stores(File(c)) /\ ~othersWrote
  <2>1. /\ \A f, g \in server' : f.day = g.day => f = g
        /\ \A f, g \in server' : f.day < g.day => f.version <= g.version
        /\ \A f \in server' : f.day \in FirstDay .. today /\ f.version <= job[c].previous + 1
    BY <1>1, <1>3, StoredLast
  <2>2. memory.version >= job[c].previous /\ disk.version >= job[c].previous
    BY <1>1, <1>3 DEF Newest, Sender
  <2>3. memory'.version >= job[c].previous /\ memory'.version \in Nat
    BY <2>2, VersionTypes DEF IInv, TypeOK, Data
  <2>4. \A f \in server' : f.version \in Nat
    <3>1. \A f \in server' : f \in server \/ f = File(c)
      BY <1>3 DEF Stores, Stored
    <3> QED BY <3>1, VersionTypes DEF File
  <2>5. Filed' /\ NotBehind'
    BY <1>1, <2>1, <2>2, <2>3, <2>4, VersionTypes DEF Filed, NotBehind
  <2>6. ASSUME NEW d \in Calls PROVE Sender(d)'
    <3>1. pc'[d] \notin Window \cup Sending
      BY <1>1, VersionTypes DEF IInv, Exclusive
    <3> QED BY <3>1 DEF Sender
  <2> QED BY <1>1, <2>5, <2>6 DEF Newest
<1>4. CASE othersWrote
  BY <1>1, <1>4 DEF Newest
<1> QED BY <1>2, <1>3, <1>4

\* A kill; a request that was on its way may still take effect.
LEMMA NewestAtRestart ==
  ASSUME IInv, Newest, Restart
  PROVE  Newest'
<1>1. /\ memory' = disk /\ disk' = disk /\ UNCHANGED <<today, othersWrote>>
      /\ \A d \in Calls : pc'[d] \in {"reading", "idle"}
  BY DEF Restart
<1>2. \A d \in Calls : Sender(d)'
  BY <1>1 DEF Sender
<1>3. ASSUME ~othersWrote PROVE Filed' /\ NotBehind'
  <2>1. Filed /\ NotBehind
    BY <1>3 DEF Newest
  <2>2. CASE server' \subseteq server
    BY <1>1, <2>1, <2>2 DEF Filed, NotBehind
  <2>3. ASSUME NEW c \in Calls, pc[c] = "writing", Stores(File(c))
        PROVE  Filed' /\ NotBehind'
    <3>1. /\ \A f, g \in server' : f.day = g.day => f = g
          /\ \A f, g \in server' : f.day < g.day => f.version <= g.version
          /\ \A f \in server' : f.day \in FirstDay .. today /\ f.version <= job[c].previous + 1
      BY <1>3, <2>3, StoredLast
    <3>2. disk.version >= job[c].previous
      BY <1>3, <2>3 DEF Newest, Sender
    <3>3. \A f \in server' : f.version \in Nat
      <4>1. \A f \in server' : f \in server \/ f = File(c)
        BY <2>3 DEF Stores, Stored
      <4> QED BY <4>1, VersionTypes DEF File
    <3> QED BY <1>1, <3>1, <3>2, <3>3, VersionTypes DEF Filed, NotBehind
  <2> QED BY <2>2, <2>3 DEF Restart, LateEffect
<1> QED BY <1>1, <1>2, <1>3 DEF Newest

LEMMA NewestKept ==
  ASSUME IInv, Newest, [Next]_vars
  PROVE  Newest'
<1>1. ASSUME NEW c \in Calls, Ask(c) \/ Change(c) \/ Poll(c) \/ Proceed(c) PROVE Newest'
  BY <1>1, NewestAtCalls, NewestInDownload, NewestWhileExporting, NewestWhileSending,
     NewestAtWrite DEF Proceed, Upload
<1>2. CASE OtherUploads
  BY <1>2 DEF OtherUploads, Newest
<1>3. CASE Midnight
  <2>1. today' \in FirstDay .. MaxDay /\ today' = today + 1
        /\ UNCHANGED <<server, memory, disk, pc, job, othersWrote>>
    BY <1>3, VersionTypes DEF Midnight
  <2>2. CASE othersWrote
    BY <2>1, <2>2 DEF Newest
  <2>3. CASE ~othersWrote
    <3>1. Filed /\ NotBehind /\ \A c \in Calls : Sender(c)
      BY <2>3 DEF Newest
    <3>2. Filed' /\ NotBehind'
      BY <2>1, <3>1, VersionTypes DEF Filed, NotBehind
    <3>3. ASSUME NEW c \in Calls PROVE Sender(c)'
      BY <2>1, <3>1, VersionTypes DEF Sender
    <3> QED BY <2>1, <3>2, <3>3 DEF Newest
  <2> QED BY <2>2, <2>3
<1>4. CASE UNCHANGED vars
  BY <1>4 DEF vars, Newest, Filed, NotBehind, Sender
<1> QED BY <1>1, <1>2, <1>3, <1>4, NewestAtRestart DEF Next

LEMMA NewestInitially == Init => Newest
<1> SUFFICES ASSUME Init PROVE Newest
  OBVIOUS
<1>1. /\ memory.version = FirstVersion /\ disk.version = FirstVersion /\ today = FirstDay
      /\ server = {[day |-> FirstDay, version |-> FirstVersion, data |-> memory]}
      /\ \A c \in Calls : pc[c] = "idle"
      /\ FirstVersion \in Nat /\ FirstDay \in Nat /\ MaxDay \in Nat /\ FirstDay <= MaxDay
  BY SyncAssumption DEF Init
<1>2. \A f \in server : f.day = FirstDay /\ f.version = FirstVersion
  BY <1>1
<1>3. Filed
  BY <1>1, <1>2 DEF Filed
<1>4. NotBehind
  BY <1>1, <1>2 DEF NotBehind
<1>5. \A c \in Calls : Sender(c)
  BY <1>1 DEF Sender
<1> QED BY <1>1, <1>3, <1>4, <1>5 DEF Newest

LEMMA LeastExists ==
  ASSUME NEW T, T \subseteq Nat, T # {}
  PROVE  \E n \in T : \A m \in T : n <= m
<1>1. PICK n \in T : \A m \in T : ~ (<<m, n>> \in OpToRel(<, Nat))
  BY NatLessThanWellFounded, WFMin
<1>2. \A m \in T : ~ (m < n)
  BY <1>1 DEF OpToRel
<1> QED BY <1>2

\* Of some days there is a last one.
LEMMA LastDay ==
  ASSUME NEW n \in Nat, NEW D, D \subseteq 0 .. n, D # {}
  PROVE  \E d \in D : \A e \in D : e <= d
<1> DEFINE B == {n - d : d \in D}
<1>1. \A d \in D : d \in Nat /\ n - d \in Nat
  OBVIOUS
<1>2. B \subseteq Nat /\ B # {}
  BY <1>1
<1>3. PICK b \in B : \A k \in B : b <= k
  BY <1>2, LeastExists
<1>4. PICK d \in D : b = n - d
  BY <1>3
<1>5. ASSUME NEW e \in D PROVE e <= d
  <2>1. b <= n - e
    BY <1>3
  <2> QED BY <1>1, <1>4, <2>1
<1> QED BY <1>5

\* The last snapshot by name is the one of the last day.
LEMMA LastIsNewest ==
  ASSUME IInv, Newest
  PROVE  NewestIsTaken
<1> SUFFICES ASSUME ~othersWrote, server # {}, NEW f \in server
             PROVE  f.version <= LastByName(server).version
  BY DEF NewestIsTaken
<1>1. Filed /\ \A g \in server : g.day \in FirstDay .. MaxDay /\ g.day \in 0 .. MaxDay
  BY VersionTypes DEF Newest, Filed
<1>2. PICK d \in {g.day : g \in server} : \A e \in {g.day : g \in server} : e <= d
  <2>1. {g.day : g \in server} \subseteq 0 .. MaxDay /\ {g.day : g \in server} # {}
    BY <1>1
  <2> QED BY <2>1, VersionTypes, LastDay
<1>3. PICK m \in server : d = m.day
  BY <1>2
<1>4. \A g \in server : g.day <= m.day
  BY <1>2, <1>3
<1>5. ASSUME NEW g \in server, NEW h \in server
      PROVE  g # h => (NameBefore(g, h) <=> g.day < h.day)
  <2>1. g.day = h.day => g = h
    BY <1>1 DEF Filed
  <2> QED BY <1>1, <2>1, DaysAssumption DEF NameBefore
<1>6. \A g \in server \ {m} : NameBefore(g, m)
  <2>1. ASSUME NEW g \in server \ {m} PROVE NameBefore(g, m)
    <3>1. g.day # m.day
      BY <1>1 DEF Filed
    <3>2. g.day < m.day
      BY <1>4, <3>1, VersionTypes
    <3> QED BY <1>5, <3>2
  <2> QED BY <2>1
<1>7. \E g \in server : \A h \in server \ {g} : NameBefore(h, g)
  BY <1>6
<1>8. /\ LastByName(server) \in server
      /\ \A h \in server \ {LastByName(server)} : NameBefore(h, LastByName(server))
  BY <1>7 DEF LastByName
<1>9. LastByName(server) = m
  <2>1. SUFFICES ASSUME LastByName(server) # m PROVE FALSE
    OBVIOUS
  <2>2. NameBefore(m, LastByName(server))
    BY <1>8, <2>1
  <2>3. m.day < LastByName(server).day
    BY <1>5, <1>8, <2>1, <2>2
  <2>4. LastByName(server).day <= m.day
    BY <1>4, <1>8
  <2> QED BY <1>8, <2>3, <2>4, VersionTypes
<1>10. CASE f = m
  BY <1>9, <1>10, VersionTypes
<1>11. CASE f # m
  BY <1>1, <1>5, <1>6, <1>9, <1>11 DEF Filed
<1> QED BY <1>10, <1>11

-----------------------------------------------------------------------------
(* No flag outlives the call that has set it. *)

Held ==
  /\ isUploading => \E c \in Calls : pc[c] \in Uploading
  /\ isDownloading => \E c \in Calls : pc[c] \in Downloading
  /\ haveWaitingTask => \E c \in Calls : pc[c] \in Waiting

\* A flag is set exactly while one call is in what it stands for: an upload, a download,
\* the wait for one of them.
FlagsAreTrue ==
  /\ isUploading <=> \E c \in Calls : pc[c] \in Uploading
  /\ isDownloading <=> \E c \in Calls : pc[c] \in Downloading
  /\ haveWaitingTask <=> \E c \in Calls : pc[c] \in Waiting
  /\ \A c, d \in Calls :
        \/ pc[c] \in Uploading \cup Downloading /\ pc[d] \in Uploading \cup Downloading
        \/ pc[c] \in Waiting /\ pc[d] \in Waiting
        => c = d

\* Call c moves: it sets a flag, or those that stay set are not its own.
LEMMA HeldMove ==
  ASSUME Held, pc \in [Calls -> Phases], NEW c \in Calls, NEW p, pc' = [pc EXCEPT ![c] = p],
         isUploading' => p \in Uploading \/ (isUploading /\ pc[c] \notin Uploading),
         isDownloading' => p \in Downloading \/ (isDownloading /\ pc[c] \notin Downloading),
         haveWaitingTask' => p \in Waiting \/ (haveWaitingTask /\ pc[c] \notin Waiting)
  PROVE  Held'
<1>1. pc'[c] = p /\ \A d \in Calls : d # c => pc'[d] = pc[d]
  OBVIOUS
<1>2. ASSUME isUploading' PROVE \E d \in Calls : pc'[d] \in Uploading
  BY <1>1, <1>2 DEF Held
<1>3. ASSUME isDownloading' PROVE \E d \in Calls : pc'[d] \in Downloading
  BY <1>1, <1>3 DEF Held
<1>4. ASSUME haveWaitingTask' PROVE \E d \in Calls : pc'[d] \in Waiting
  BY <1>1, <1>4 DEF Held
<1> QED BY <1>2, <1>3, <1>4 DEF Held

LEMMA HeldAtCalls ==
  ASSUME IInv, Held, NEW c \in Calls, Ask(c) \/ Change(c) \/ SaveChange(c) \/ Poll(c)
  PROVE  Held'
<1> USE DEF IInv, TypeOK
<1>1. CASE \/ UploadData(c) /\ pc[c] \in {"idle", "saving"}
           \/ DownloadData(c) /\ pc[c] \in {"idle", "saving"}
  <2>1. CASE TurnedAway(c)
    <3>1. pc' = [pc EXCEPT ![c] = "idle"] /\ UNCHANGED flags
      BY <2>1 DEF TurnedAway, End
    <3> QED BY <1>1, <3>1, HeldMove
  <2>2. CASE \E where \in Waiting : Wait(c, where)
    <3>1. PICK where \in Waiting : Wait(c, where)
      BY <2>2
    <3>2. pc' = [pc EXCEPT ![c] = where] /\ UNCHANGED <<isDownloading, isUploading>>
      BY <3>1 DEF Wait
    <3>3. pc[c] \notin Uploading \cup Downloading /\ where \in Waiting
      BY <1>1
    <3> HIDE DEF Waiting, Uploading, Downloading
    <3> QED BY <3>2, <3>3, HeldMove
  <2>3. CASE BeginUpload(c)
    BY <1>1, <2>3, HeldMove DEF BeginUpload
  <2>4. CASE BeginDownload(c)
    BY <1>1, <2>4, HeldMove DEF BeginDownload
  <2> QED BY <1>1, <2>1, <2>2, <2>3, <2>4 DEF UploadData, DownloadData
<1>2. CASE Change(c) \/ (pc[c] = "saving" /\ End(c) /\ UNCHANGED flags)
  BY <1>2, HeldMove DEF Change, End
<1>3. CASE Poll(c)
  <2>1. pc[c] \in Waiting
    BY <1>3 DEF Poll
  <2>2. CASE BeginUpload(c)
    BY <2>1, <2>2, HeldMove DEF BeginUpload
  <2>3. CASE BeginDownload(c)
    BY <2>1, <2>3, HeldMove DEF BeginDownload
  <2> QED BY <1>3, <2>2, <2>3 DEF Poll
<1> QED BY <1>1, <1>2, <1>3 DEF Ask, SaveChange

LEMMA HeldInTransfer ==
  ASSUME IInv, Held, NEW c \in Calls, Upload(c) \/ Download(c)
  PROVE  Held'
<1> USE DEF IInv, TypeOK
<1>1. CASE pc[c] \in Uploading /\ UploadEnds(c)
  BY <1>1, HeldMove DEF UploadEnds, End
<1>2. CASE pc[c] \in Uploading /\ UNCHANGED flags /\ \E p \in Uploading : Goes(c, p)
  BY <1>2, HeldMove DEF Goes, Held
<1>3. CASE pc[c] \in Downloading /\ DownloadEnds(c)
  BY <1>3, HeldMove DEF DownloadEnds, End
<1>4. CASE pc[c] \in Downloading /\ UNCHANGED flags /\ \E p \in Downloading : Goes(c, p)
  BY <1>4, HeldMove DEF Goes, Held
<1>5. CASE /\ pc[c] = "importing" /\ UNCHANGED flags
           /\ \E d \in Calls : pc[d] = "idle" /\ pc' = [pc EXCEPT ![c] = "cleaning", ![d] = "saving"]
  <2>1. PICK d \in Calls : pc[d] = "idle" /\ pc' = [pc EXCEPT ![c] = "cleaning", ![d] = "saving"]
    BY <1>5
  <2>2. /\ pc'[c] = "cleaning" /\ pc'[d] = "saving" /\ d # c
        /\ \A e \in Calls : e # c /\ e # d => pc'[e] = pc[e]
    BY <1>5, <2>1
  <2> QED BY <1>5, <2>1, <2>2 DEF Held
<1>6. CASE Upload(c)
  <2>1. pc[c] \in Uploading
    BY <1>6 DEF Upload, SaveBumped, SaveBumpedFails, Export, SaveRestored,
       SaveRestoredFails, List, RemoveOld, Prune, Write, Confirm
  <2>2. CASE SaveBumped(c) \/ SaveBumpedFails(c) \/ Export(c) \/ Confirm(c)
    BY <1>1, <1>2, <2>1, <2>2 DEF SaveBumped, SaveBumpedFails, Export, Confirm
  <2>3. CASE SaveRestored(c) \/ SaveRestoredFails(c)
    BY <1>1, <1>2, <2>1, <2>3 DEF SaveRestored, SaveRestoredFails
  <2>4. CASE List(c) \/ RemoveOld(c)
    BY <1>1, <1>2, <2>1, <2>4 DEF List, RemoveOld
  <2>5. CASE Prune(c) \/ Write(c)
    BY <1>1, <1>2, <2>1, <2>5 DEF Prune, Write
  <2> QED BY <1>6, <2>2, <2>3, <2>4, <2>5 DEF Upload
<1>7. CASE Download(c)
  <2>1. CASE ReadDir(c) \/ Fetch(c)
    BY <1>3, <1>4, <2>1 DEF ReadDir, Fetch
  <2>2. CASE Import(c)
    BY <1>3, <1>5, <2>2 DEF Import
  <2>3. CASE Clean(c)
    BY <1>3, <2>3 DEF Clean
  <2> QED BY <1>7, <2>1, <2>2, <2>3 DEF Download
<1> QED BY <1>6, <1>7

LEMMA HeldKept ==
  ASSUME IInv, Held, [Next]_vars
  PROVE  Held'
<1>1. CASE OtherUploads \/ Midnight \/ UNCHANGED vars
  <2>1. UNCHANGED <<pc, flags>>
    BY <1>1 DEF OtherUploads, Midnight, vars
  <2> QED BY <2>1 DEF Held
<1>2. CASE Restart
  BY <1>2 DEF Restart, Held
<1> QED BY <1>1, <1>2, HeldAtCalls, HeldInTransfer DEF Next, Proceed

-----------------------------------------------------------------------------
(* The theorems. *)

\* The types, the exclusion of the calls by the flags, and where every version and every
\* change may be are invariants of the synchronisation.
THEOREM Invariance == Spec => []IInv
<1>1. Init => IInv
  BY InitHolds
<1>2. IInv /\ [Next]_vars => IInv'
  BY StepKeeps
<1> QED BY <1>1, <1>2, PTL DEF Spec

\* What an upload writes is its own version with every change made before it began.
THEOREM SnapshotsAreCurrent == Spec => []SnapshotIsCurrent
<1>1. IInv => SnapshotIsCurrent
  BY DEF IInv, UploadOK, SnapshotIsCurrent
<1> QED BY <1>1, Invariance, PTL

\* The device keeps no version that the server has not had, except around an export
\* that was killed or whose save failed.
THEOREM VersionsAreBacked == Spec => []VersionIsBacked
<1>1. IInv => VersionIsBacked
  BY DEF IInv, Versions, VersionIsBacked
<1> QED BY <1>1, Invariance, PTL

\* While this device is the only one that writes, the snapshot a download takes, the last
\* by name, has the highest version: whatever uploads failed, were killed or took effect
\* late.  Days have to sort as numbers (DaysAssumption); versions need not.
THEOREM NewestSnapshotIsTaken == Spec => []NewestIsTaken
<1>1. Init => Newest
  BY NewestInitially
<1>2. IInv /\ Newest /\ [Next]_vars => Newest'
  BY NewestKept
<1>3. IInv /\ Newest => NewestIsTaken
  BY LastIsNewest
<1> QED BY <1>1, <1>2, <1>3, Invariance, PTL DEF Spec

\* At most one transfer is under way and at most one call waits, and no flag is left set
\* by a call that is over, however it ended: synchronisation never locks itself out.
THEOREM FlagsAreFreed == Spec => []FlagsAreTrue
<1>1. Init => Held
  BY DEF Init, Held
<1>2. IInv /\ Held => FlagsAreTrue
  BY DEF IInv, Exclusive, Held, FlagsAreTrue
<1> QED BY <1>1, <1>2, HeldKept, Invariance, PTL DEF Spec

-----------------------------------------------------------------------------
(* The pool of script workers: the inductive invariant. *)

Built == 1 .. made

\* A worker's record: its pending tasks are calls under ids it has given.
IsWorker(r) ==
  /\ DOMAIN r = {"ready", "closed", "failed", "counter", "tasks"}
  /\ r.ready \in {"pending", "ok", "error"}
  /\ r.closed \in BOOLEAN /\ r.failed \in BOOLEAN
  /\ r.counter \in Nat
  /\ DOMAIN r.tasks \subseteq 0 .. r.counter - 1
  /\ \A id \in DOMAIN r.tasks : r.tasks[id] \in Callers

Ready(r) == r.ready = "error" => r.failed

\* What an update of a worker may do: an id is never given twice, and a failure is final.
Follows(r, q) ==
  /\ q.counter >= r.counter
  /\ r.failed => q.failed
  /\ \A id \in DOMAIN q.tasks :
        id < r.counter => id \in DOMAIN r.tasks /\ q.tasks[id] = r.tasks[id]

Tasks == [id : Nat, call : Callers]
Messages == [type : {"ready", "failure", "result"}, id : Nat \cup {Null},
             call : Callers \cup {Null}]
Steps == {"new", "init", "replacing", "waiting", "done"}
Alive == {"spawning", "booting", "loading", "serving"}

PoolTypeOK ==
  /\ made \in 0 .. MaxWorkers /\ init \in {"none", "running", "done"}
  /\ instances \in Seq(Built) /\ starting \in Seq(Built)
  /\ DOMAIN worker = Workers /\ \A w \in Workers : IsWorker(worker[w])
  /\ isolate \in [Workers -> Alive \cup {"none", "gone"}]
  /\ toWorker \in [Workers -> Seq(Tasks)] /\ toMain \in [Workers -> Seq(Messages)]
  /\ phase \in [Callers -> Steps] /\ at \in [Callers -> Nat]
  /\ DOMAIN on = Callers /\ DOMAIN outcome = Callers
  /\ overlaps \in Nat /\ stale \in [Callers -> SUBSET Workers]

\* What a task or its answer carries belongs together: the id is one the worker has given,
\* and if the call is still pending it is that call.
Matched(w, m) ==
  /\ m.id \in Nat /\ m.id < worker[w].counter
  /\ m.id \in DOMAIN worker[w].tasks => worker[w].tasks[m.id] = m.call

Queued(w) == \A i \in 1 .. Len(toWorker[w]) : Matched(w, toWorker[w][i])
Told(w) == \A i \in 1 .. Len(toMain[w]) :
              toMain[w][i].type = "result" => Matched(w, toMain[w][i])

\* A task is for a call that waits, or has ended meanwhile, on a worker that had not
\* failed when the call began.
Served(w) ==
  \A id \in DOMAIN worker[w].tasks :
     /\ phase[worker[w].tasks[id]] \in {"waiting", "done"}
     /\ w \notin stale[worker[w].tasks[id]]

\* A worker that is closed or has failed has no isolate, and one that has not been built
\* has nothing at all.
Dead(w) == worker[w].closed \/ worker[w].failed => isolate[w] = "gone"
Unbuilt(w) ==
  w > made => /\ ~worker[w].closed /\ ~worker[w].failed
              /\ isolate[w] = "none" /\ toMain[w] = <<>>

WorkerInv(w) ==
  Ready(worker[w]) /\ Queued(w) /\ Told(w) /\ Served(w) /\ Dead(w) /\ Unbuilt(w)

Answer(c) ==
  outcome[c] # Null =>
     /\ phase[c] # "new"
     /\ outcome[c].kind = "result" => outcome[c].of = c
     /\ outcome[c].kind = "workerError" => outcome[c].of \notin stale[c]

Replacement(c) ==
  phase[c] = "replacing" => init = "done" /\ at[c] = Size /\ on[c] \in Built /\ on[c] \notin stale[c]

CallInv(c) ==
  /\ Answer(c) /\ Replacement(c)
  /\ \A w \in stale[c] : worker[w].failed

\* init() has filled the pool, or it holds nothing yet.
PoolFilled ==
  /\ IF init = "done" THEN Len(instances) = Size ELSE instances = <<>>
  /\ IF init = "running" THEN Len(starting) \in 1 .. Size ELSE starting = <<>>

\* One isolate can be lost for every replacement under way, but for the last to end: it
\* finds the worker of the replacement before it, or the dead one they all began with.
Replacing == {c \in Callers : phase[c] = "replacing"}
LastRuns == IF instances # <<>> /\ isolate[instances[Size]] \in Alive THEN 1 ELSE 0
Counted ==
  IF Replacing = {} THEN Cardinality(Lost) <= overlaps
  ELSE Cardinality(Lost) + Cardinality(Replacing) + LastRuns <= overlaps + 1

PoolIInv ==
  /\ PoolTypeOK
  /\ \A w \in Workers : WorkerInv(w)
  /\ \A c \in Callers : CallInv(c)
  /\ PoolFilled
  /\ Counted
-----------------------------------------------------------------------------
(* The updates of a worker's record. *)

USE PoolAssumption DEF Workers, Built

Given(r, c) == [r EXCEPT !.tasks = Put(@, r.counter, c), !.counter = @ + 1]

LEMMA TaskStarted ==
  ASSUME NEW r, IsWorker(r), Ready(r), NEW c \in Callers, NEW q, q = Given(r, c)
  PROVE  /\ IsWorker(q) /\ Ready(q) /\ Follows(r, q)
         /\ q.closed = r.closed /\ q.failed = r.failed /\ q.ready = r.ready
         /\ q.counter = r.counter + 1
         /\ \A id \in DOMAIN q.tasks : IF id = r.counter THEN q.tasks[id] = c
                                       ELSE id \in DOMAIN r.tasks /\ q.tasks[id] = r.tasks[id]
<1>1. /\ DOMAIN q = DOMAIN r
      /\ q.closed = r.closed /\ q.failed = r.failed /\ q.ready = r.ready
      /\ q.counter = r.counter + 1 /\ q.tasks = Put(r.tasks, r.counter, c)
  BY DEF IsWorker, Given
<1>2. /\ DOMAIN q.tasks = DOMAIN r.tasks \cup {r.counter}
      /\ \A id \in DOMAIN q.tasks : q.tasks[id] = IF id = r.counter THEN c ELSE r.tasks[id]
  BY <1>1 DEF Put
<1>3. IsWorker(q) /\ Ready(q)
  BY <1>1, <1>2 DEF IsWorker, Ready
<1>4. Follows(r, q)
  BY <1>1, <1>2 DEF IsWorker, Follows
<1> QED BY <1>1, <1>2, <1>3, <1>4

LEMMA TaskSkipped ==
  ASSUME NEW r, IsWorker(r), Ready(r), NEW q, q = [r EXCEPT !.counter = @ + 1]
  PROVE  /\ IsWorker(q) /\ Ready(q) /\ Follows(r, q)
         /\ q.closed = r.closed /\ q.failed = r.failed /\ q.tasks = r.tasks
<1>1. /\ DOMAIN q = DOMAIN r
      /\ q.closed = r.closed /\ q.failed = r.failed /\ q.ready = r.ready
      /\ q.counter = r.counter + 1 /\ q.tasks = r.tasks
  BY DEF IsWorker
<1> QED BY <1>1 DEF IsWorker, Ready, Follows

Ended(r, id) == [r EXCEPT !.tasks = Restrict(@, DOMAIN @ \ {id})]

LEMMA TaskEnded ==
  ASSUME NEW r, IsWorker(r), Ready(r), NEW id, NEW q, q = Ended(r, id)
  PROVE  /\ IsWorker(q) /\ Ready(q) /\ Follows(r, q)
         /\ q.closed = r.closed /\ q.failed = r.failed
         /\ \A i \in DOMAIN q.tasks : i \in DOMAIN r.tasks /\ q.tasks[i] = r.tasks[i]
<1>1. /\ DOMAIN q = DOMAIN r
      /\ q.closed = r.closed /\ q.failed = r.failed /\ q.ready = r.ready
      /\ q.counter = r.counter /\ q.tasks = Restrict(r.tasks, DOMAIN r.tasks \ {id})
  BY DEF IsWorker, Ended
<1>2. /\ DOMAIN q.tasks = DOMAIN r.tasks \ {id}
      /\ \A i \in DOMAIN q.tasks : q.tasks[i] = r.tasks[i]
  BY <1>1 DEF Restrict
<1>3. IsWorker(q) /\ Ready(q)
  BY <1>1, <1>2 DEF IsWorker, Ready
<1>4. Follows(r, q)
  <2>1. q.counter >= r.counter /\ (r.failed => q.failed)
    BY <1>1 DEF IsWorker
  <2>2. \A i \in DOMAIN q.tasks : i \in DOMAIN r.tasks /\ q.tasks[i] = r.tasks[i]
    BY <1>2
  <2> QED BY <2>1, <2>2, Zenon DEF Follows
<1> QED BY <1>1, <1>2, <1>3, <1>4

LEMMA BecameReady ==
  ASSUME NEW r, IsWorker(r), Ready(r), NEW q, q = [r EXCEPT !.ready = "ok"]
  PROVE  /\ IsWorker(q) /\ Ready(q) /\ Follows(r, q)
         /\ q.closed = r.closed /\ q.failed = r.failed /\ q.tasks = r.tasks
<1>1. /\ DOMAIN q = DOMAIN r
      /\ q.closed = r.closed /\ q.failed = r.failed /\ q.ready = "ok"
      /\ q.counter = r.counter /\ q.tasks = r.tasks
  BY DEF IsWorker
<1> QED BY <1>1 DEF IsWorker, Ready, Follows

LEMMA WasClosed ==
  ASSUME NEW w \in Workers, IsWorker(worker[w]), Ready(worker[w]), NEW failed \in BOOLEAN,
         NEW q, q = Closed(w, failed)
  PROVE  /\ IsWorker(q) /\ Ready(q) /\ Follows(worker[w], q)
         /\ DOMAIN q.tasks = {}
<1> DEFINE r == worker[w]
<1>1. DOMAIN q = DOMAIN r
  BY DEF Closed
<1>2. q.closed = TRUE /\ q.counter = r.counter /\ q.tasks = <<>>
  BY DEF Closed, IsWorker
<1>3. q.failed = (r.failed \/ failed)
  BY DEF Closed, IsWorker
<1>4. q.ready = IF failed /\ r.ready = "pending" THEN "error" ELSE r.ready
  BY DEF Closed, IsWorker
<1>5. DOMAIN q.tasks = {}
  BY <1>2
<1>6. IsWorker(q)
  BY <1>1, <1>2, <1>3, <1>4, <1>5 DEF IsWorker
<1>7. Ready(q)
  BY <1>3, <1>4 DEF IsWorker, Ready
<1>8. Follows(r, q)
  BY <1>2, <1>3, <1>5 DEF IsWorker, Follows
<1> QED BY <1>5, <1>6, <1>7, <1>8
-----------------------------------------------------------------------------
(* What keeps the parts of the invariant. *)

LEMMA TailOf ==
  ASSUME NEW S, NEW s \in Seq(S), s # <<>>
  PROVE  /\ Head(s) = s[1] /\ 1 \in 1 .. Len(s) /\ Tail(s) \in Seq(S)
         /\ \A j \in 1 .. Len(Tail(s)) : j + 1 \in 1 .. Len(s) /\ Tail(s)[j] = s[j + 1]
BY HeadTailProperties, EmptySeq, LenProperties

LEMMA AppendOf ==
  ASSUME NEW S, NEW s \in Seq(S), NEW e \in S
  PROVE  /\ Append(s, e) \in Seq(S) /\ Len(Append(s, e)) = Len(s) + 1
         /\ \A j \in 1 .. Len(s) : Append(s, e)[j] = s[j]
         /\ Append(s, e)[Len(s) + 1] = e
BY LenProperties

LEMMA MatchedKept ==
  ASSUME NEW w \in Workers, IsWorker(worker[w]), IsWorker(worker'[w]),
         Follows(worker[w], worker'[w]), NEW m, Matched(w, m)
  PROVE  Matched(w, m)'
BY DEF Matched, Follows, IsWorker

\* A queue that only loses messages keeps what they say.
LEMMA QueuedKept ==
  ASSUME NEW w \in Workers, IsWorker(worker[w]), IsWorker(worker'[w]),
         Follows(worker[w], worker'[w]), Queued(w),
         \A j \in 1 .. Len(toWorker'[w]) :
            \E i \in 1 .. Len(toWorker[w]) : toWorker'[w][j] = toWorker[w][i]
  PROVE  Queued(w)'
<1>1. SUFFICES ASSUME NEW j \in 1 .. Len(toWorker'[w]) PROVE Matched(w, toWorker[w][j])'
  BY DEF Queued
<1>2. PICK i \in 1 .. Len(toWorker[w]) : toWorker'[w][j] = toWorker[w][i]
  OBVIOUS
<1>3. Matched(w, toWorker[w][i])
  BY DEF Queued
<1> QED BY <1>2, <1>3, SMTT(30) DEF Matched, Follows, IsWorker

LEMMA ToldKept ==
  ASSUME NEW w \in Workers, IsWorker(worker[w]), IsWorker(worker'[w]),
         Follows(worker[w], worker'[w]), Told(w),
         \A j \in 1 .. Len(toMain'[w]) :
            \E i \in 1 .. Len(toMain[w]) : toMain'[w][j] = toMain[w][i]
  PROVE  Told(w)'
<1>1. SUFFICES ASSUME NEW j \in 1 .. Len(toMain'[w]), toMain'[w][j].type = "result"
               PROVE  Matched(w, toMain[w][j])'
  BY DEF Told
<1>2. PICK i \in 1 .. Len(toMain[w]) : toMain'[w][j] = toMain[w][i]
  OBVIOUS
<1>3. Matched(w, toMain[w][i])
  BY <1>1, <1>2 DEF Told
<1> QED BY <1>2, <1>3, SMTT(30) DEF Matched, Follows, IsWorker

LEMMA LostIsFinite ==
  /\ IsFiniteSet(Lost) /\ Cardinality(Lost) \in Nat
  /\ IsFiniteSet(Replacing) /\ Cardinality(Replacing) \in Nat
<1>1. IsFiniteSet(Workers) /\ Lost \in SUBSET Workers /\ Replacing \in SUBSET Callers
  BY FS_Interval DEF Lost, Replacing
<1> QED BY <1>1, FS_Subset, FS_CardinalityType

LEMMA CountedKept ==
  ASSUME Counted, Lost' \subseteq Lost, Replacing' = Replacing, overlaps' = overlaps,
         overlaps \in Nat, Replacing = {} \/ LastRuns' <= LastRuns
  PROVE  Counted'
<1>1. Lost \in SUBSET Lost /\ Lost' \in SUBSET Lost
  OBVIOUS
<1>2. Cardinality(Lost') <= Cardinality(Lost) /\ Cardinality(Lost') \in Nat
  BY <1>1, LostIsFinite, FS_Subset, FS_CardinalityType
<1>3. LastRuns \in 0 .. 1 /\ LastRuns' \in 0 .. 1
  BY DEF LastRuns
<1>4. Cardinality(Lost)' = Cardinality(Lost') /\ Cardinality(Replacing)' = Cardinality(Replacing')
  OBVIOUS
<1> QED BY <1>2, <1>3, <1>4, LostIsFinite DEF Counted

\* A step that ends calls, takes messages or kills isolates, but neither starts a worker
\* nor gives one a task.
Ends(c) ==
  \/ phase'[c] = phase[c] /\ outcome'[c] = outcome[c]
  \/ /\ phase[c] \in {"waiting", "done"} /\ phase'[c] = "done"
     /\ outcome'[c].kind = "result" => outcome'[c].of = c
     /\ outcome'[c].kind = "workerError" => outcome'[c].of \notin stale[c]

LosesTasks(w) ==
  /\ IsWorker(worker'[w]) /\ Ready(worker'[w]) /\ Follows(worker[w], worker'[w])
  /\ \A id \in DOMAIN worker'[w].tasks :
        id \in DOMAIN worker[w].tasks /\ worker'[w].tasks[id] = worker[w].tasks[id]

LEMMA EndingKeeps ==
  ASSUME PoolIInv, UNCHANGED <<instances, init, starting, made, on, at, overlaps, stale>>,
         DOMAIN worker' = Workers, isolate' \in [Workers -> Alive \cup {"none", "gone"}],
         toWorker' \in [Workers -> Seq(Tasks)], toMain' \in [Workers -> Seq(Messages)],
         DOMAIN outcome' = Callers, phase' \in [Callers -> Steps],
         \A c \in Callers : Ends(c),
         \A w \in Workers : LosesTasks(w) /\ Queued(w)' /\ Told(w)' /\ Dead(w)' /\ Unbuilt(w)',
         \A w \in Workers : isolate'[w] \in Alive => isolate[w] \in Alive
  PROVE  PoolIInv'
<1>1. PoolTypeOK'
  BY DEF PoolIInv, PoolTypeOK, LosesTasks
<1>2. ASSUME NEW w \in Workers PROVE WorkerInv(w)'
  <2>1. Served(w)'
    <3>1. SUFFICES ASSUME NEW id \in DOMAIN worker'[w].tasks
                   PROVE  /\ phase'[worker'[w].tasks[id]] \in {"waiting", "done"}
                          /\ w \notin stale[worker'[w].tasks[id]]
      BY DEF Served
    <3>2. id \in DOMAIN worker[w].tasks /\ worker'[w].tasks[id] = worker[w].tasks[id]
      BY DEF LosesTasks
    <3>3. worker[w].tasks[id] \in Callers /\ Served(w)
      BY <3>2 DEF PoolIInv, PoolTypeOK, IsWorker, WorkerInv
    <3> QED BY <3>2, <3>3 DEF Served, Ends
  <2> QED BY <2>1 DEF WorkerInv, LosesTasks
<1>3. ASSUME NEW c \in Callers PROVE CallInv(c)'
  <2>1. CallInv(c) /\ Ends(c) /\ stale[c] \in SUBSET Workers
    BY DEF PoolIInv, PoolTypeOK
  <2>2. Answer(c)'
    BY <2>1 DEF CallInv, Answer, Ends
  <2>3. Replacement(c)'
    BY <2>1 DEF CallInv, Replacement, Ends
  <2>4. \A w \in stale[c] : worker'[w].failed
    BY <2>1 DEF CallInv, LosesTasks, Follows
  <2> QED BY <2>2, <2>3, <2>4 DEF CallInv
<1>4. PoolFilled'
  BY DEF PoolIInv, PoolFilled
<1>5. Replacing' = Replacing
  BY DEF Replacing, Ends
<1>6. Lost' \subseteq Lost
  BY <1>5 DEF Lost, Replacing, Alive
<1>7. LastRuns' <= LastRuns
  <2>1. instances # <<>> => instances[Size] \in Workers
    <3> SUFFICES ASSUME instances # <<>> PROVE instances[Size] \in Workers
      OBVIOUS
    <3>1. Size \in 1 .. Len(instances) /\ instances \in Seq(Built) /\ made \in 0 .. MaxWorkers
      BY DEF PoolIInv, PoolFilled, PoolTypeOK
    <3>2. instances[Size] \in Built
      BY <3>1, ElementOfSeq
    <3> QED BY <3>1, <3>2
  <2> QED BY <2>1 DEF LastRuns
<1>8. Counted'
  BY <1>5, <1>6, <1>7, CountedKept DEF PoolIInv, PoolTypeOK
<1> QED BY <1>1, <1>2, <1>3, <1>4, <1>8 DEF PoolIInv
-----------------------------------------------------------------------------
(* The actions of a worker. *)

Keeps(w) == LosesTasks(w) /\ Queued(w)' /\ Told(w)' /\ Dead(w)' /\ Unbuilt(w)'

LEMMA OneWorker ==
  ASSUME PoolIInv, NEW w \in Workers
  PROVE  /\ IsWorker(worker[w]) /\ Ready(worker[w]) /\ Queued(w) /\ Told(w) /\ Served(w)
         /\ Dead(w) /\ Unbuilt(w) /\ made \in 0 .. MaxWorkers
         /\ toWorker[w] \in Seq(Tasks) /\ toMain[w] \in Seq(Messages)
BY DEF PoolIInv, PoolTypeOK, WorkerInv

LEMMA SameWorker ==
  ASSUME PoolIInv, NEW w \in Workers, worker'[w] = worker[w]
  PROVE  LosesTasks(w)
BY OneWorker DEF LosesTasks, Follows, IsWorker

LEMMA Untouched ==
  ASSUME PoolIInv, NEW w \in Workers, made' = made, worker'[w] = worker[w],
         isolate'[w] = isolate[w], toWorker'[w] = toWorker[w], toMain'[w] = toMain[w]
  PROVE  Keeps(w)
BY OneWorker, SameWorker, SMTT(30) DEF Keeps, Queued, Told, Matched, Dead, Unbuilt

Frame == <<instances, init, starting, made, on, at, overlaps, stale>>

LEMMA NothingQueued ==
  ASSUME NEW w \in Workers, toWorker'[w] = <<>>, toMain'[w] = <<>>
  PROVE  Queued(w)' /\ Told(w)'
BY DEF Queued, Told

LEMMA MarkFailedKeeps ==
  ASSUME PoolIInv, NEW w \in Workers, w <= made, MarkFailed(w), UNCHANGED Frame
  PROVE  PoolIInv'
<1> DEFINE pending == {worker[w].tasks[i] : i \in DOMAIN worker[w].tasks}
<1>1. /\ worker' = [worker EXCEPT ![w] = Closed(w, TRUE)]
      /\ isolate' = [v \in Workers |-> IF v \in {w} THEN "gone" ELSE isolate[v]]
      /\ toWorker' = [v \in Workers |-> IF v \in {w} THEN <<>> ELSE toWorker[v]]
      /\ toMain' = [v \in Workers |-> IF v \in {w} THEN <<>> ELSE toMain[v]]
      /\ phase' = [c \in Callers |-> IF c \in pending THEN "done" ELSE phase[c]]
      /\ outcome' = [c \in Callers |-> IF c \in pending THEN Outcome("workerError", w)
                                       ELSE outcome[c]]
  BY DEF MarkFailed, Kill, CompleteAllPending
<1>2. /\ DOMAIN worker = Workers /\ isolate \in [Workers -> Alive \cup {"none", "gone"}]
      /\ toWorker \in [Workers -> Seq(Tasks)] /\ toMain \in [Workers -> Seq(Messages)]
      /\ phase \in [Callers -> Steps]
  BY DEF PoolIInv, PoolTypeOK
<1>3. /\ DOMAIN worker' = Workers /\ isolate' \in [Workers -> Alive \cup {"none", "gone"}]
      /\ DOMAIN outcome' = Callers
  BY <1>1, <1>2
<1>4. toWorker' \in [Workers -> Seq(Tasks)] /\ toMain' \in [Workers -> Seq(Messages)]
  BY <1>1, <1>2, EmptySeq
<1>5. phase' \in [Callers -> Steps]
  BY <1>1, <1>2 DEF Steps
<1>6. ASSUME NEW c \in Callers PROVE Ends(c)
  <2>1. CASE c \notin pending
    BY <1>1, <2>1 DEF Ends
  <2>2. CASE c \in pending
    <3>1. phase[c] \in {"waiting", "done"} /\ w \notin stale[c]
      BY <2>2, OneWorker DEF Served
    <3>2. phase'[c] = "done" /\ outcome'[c] = Outcome("workerError", w)
      BY <1>1, <2>2
    <3> QED BY <3>1, <3>2 DEF Ends, Outcome
  <2> QED BY <2>1, <2>2
<1>7. ASSUME NEW v \in Workers PROVE Keeps(v)
  <2>1. CASE v # w
    BY <1>1, <1>2, <2>1, Untouched DEF Frame
  <2>2. CASE v = w
    <3>1. worker'[w] = Closed(w, TRUE) /\ isolate'[w] = "gone"
          /\ toWorker'[w] = <<>> /\ toMain'[w] = <<>>
      BY <1>1, <1>2
    <3>2. LosesTasks(w)
      BY <3>1, WasClosed, OneWorker DEF LosesTasks
    <3>3. Dead(w)' /\ Unbuilt(w)'
      BY <3>1, OneWorker DEF Dead, Unbuilt, Frame
    <3> QED BY <2>2, <3>1, <3>2, <3>3, NothingQueued DEF Keeps
  <2> QED BY <2>1, <2>2
<1>8. \A v \in Workers : isolate'[v] \in Alive => isolate[v] \in Alive
  BY <1>1 DEF Alive
<1> QED BY <1>3, <1>4, <1>5, <1>6, <1>7, <1>8, EndingKeeps DEF Frame, Keeps

LEMMA SpawnedKeeps ==
  ASSUME PoolIInv, NEW w \in Workers, Spawned(w)
  PROVE  PoolIInv'
<1>1. UNCHANGED Frame /\ isolate[w] = "spawning" /\ w <= made
  BY OneWorker DEF Spawned, Frame, Unbuilt
<1>2. CASE MarkFailed(w)
  BY <1>1, <1>2, MarkFailedKeeps
<1>3. CASE isolate' = [isolate EXCEPT ![w] = "booting"]
           /\ UNCHANGED <<worker, toWorker, toMain, phase, outcome>>
  <2>1. /\ DOMAIN worker' = Workers /\ isolate' \in [Workers -> Alive \cup {"none", "gone"}]
        /\ toWorker' \in [Workers -> Seq(Tasks)] /\ toMain' \in [Workers -> Seq(Messages)]
        /\ DOMAIN outcome' = Callers /\ phase' \in [Callers -> Steps]
    BY <1>3 DEF PoolIInv, PoolTypeOK, Alive
  <2>2. ASSUME NEW v \in Workers PROVE Keeps(v)
    <3>1. CASE v # w
      BY <1>1, <1>3, <3>1, Untouched DEF Frame, PoolIInv, PoolTypeOK
    <3>2. CASE v = w
      <4>1. isolate'[w] = "booting"
        BY <1>3 DEF PoolIInv, PoolTypeOK
      <4>2. LosesTasks(w) /\ Queued(w)' /\ Told(w)'
        BY <1>3, SameWorker, OneWorker DEF Queued, Told, Matched
      <4>3. Dead(w)' /\ Unbuilt(w)'
        BY <1>1, <1>3, <4>1, OneWorker DEF Dead, Unbuilt, Frame
      <4> QED BY <3>2, <4>2, <4>3 DEF Keeps
    <3> QED BY <3>1, <3>2
  <2>3. \A v \in Workers : isolate'[v] \in Alive => isolate[v] \in Alive
    BY <1>1, <1>3 DEF Alive, PoolIInv, PoolTypeOK
  <2>4. \A c \in Callers : Ends(c)
    BY <1>3 DEF Ends
  <2> QED BY <1>1, <2>1, <2>2, <2>3, <2>4, EndingKeeps DEF Frame, Keeps
<1> QED BY <1>2, <1>3 DEF Spawned

LEMMA ReadyTimeoutKeeps ==
  ASSUME PoolIInv, NEW w \in Workers, ReadyTimeout(w)
  PROVE  PoolIInv'
BY MarkFailedKeeps, OneWorker DEF ReadyTimeout, Frame, Unbuilt
LEMMA OnMessageKeeps ==
  ASSUME PoolIInv, NEW w \in Workers, OnMessage(w)
  PROVE  PoolIInv'
<1> DEFINE m == Head(toMain[w])
<1>1. UNCHANGED Frame /\ toMain[w] # <<>> /\ w <= made
  BY OneWorker DEF OnMessage, Frame, Unbuilt
<1>2. /\ m = toMain[w][1] /\ 1 \in 1 .. Len(toMain[w]) /\ Tail(toMain[w]) \in Seq(Messages)
      /\ \A j \in 1 .. Len(Tail(toMain[w])) :
            j + 1 \in 1 .. Len(toMain[w]) /\ Tail(toMain[w])[j] = toMain[w][j + 1]
  BY <1>1, OneWorker, TailOf
<1>3. CASE MarkFailed(w)
  BY <1>1, <1>3, MarkFailedKeeps
<1>4. ASSUME OnReady(w) \/ (m.type = "result" /\ OnResult(w, m.id, m.call))
      PROVE  PoolIInv'
  <2>1. toMain' = [toMain EXCEPT ![w] = Tail(@)] /\ UNCHANGED <<isolate, toWorker>>
    BY <1>4 DEF OnReady, OnResult
  <2>2. /\ toMain'[w] = Tail(toMain[w])
        /\ \A v \in Workers \ {w} : toMain'[v] = toMain[v]
        /\ toMain' \in [Workers -> Seq(Messages)]
    BY <1>2, <2>1 DEF PoolIInv, PoolTypeOK
  <2>3. /\ DOMAIN worker' = Workers
        /\ \A v \in Workers \ {w} : worker'[v] = worker[v]
        /\ LosesTasks(w) /\ worker'[w].closed = worker[w].closed
        /\ worker'[w].failed = worker[w].failed
    <3>1. CASE OnReady(w)
      <4>1. DOMAIN worker' = Workers /\ worker'[w] = [worker[w] EXCEPT !.ready = "ok"]
            /\ \A v \in Workers \ {w} : worker'[v] = worker[v]
        BY <3>1 DEF OnReady, PoolIInv, PoolTypeOK
      <4> QED BY <4>1, BecameReady, OneWorker DEF LosesTasks
    <3>2. CASE OnResult(w, m.id, m.call) /\ m.id \in DOMAIN worker[w].tasks
      <4>1. DOMAIN worker' = Workers
            /\ worker'[w] = [worker[w] EXCEPT !.tasks = Restrict(@, DOMAIN @ \ {m.id})]
            /\ \A v \in Workers \ {w} : worker'[v] = worker[v]
        BY <3>2 DEF OnResult, PoolIInv, PoolTypeOK
      <4>2. PICK id : id = m.id
        OBVIOUS
      <4>3. IsWorker(worker[w]) /\ Ready(worker[w])
        BY OneWorker
      <4>4. worker'[w] = Ended(worker[w], id)
        BY <4>1, <4>2 DEF Ended
      <4>5. /\ IsWorker(worker'[w]) /\ Ready(worker'[w]) /\ Follows(worker[w], worker'[w])
            /\ worker'[w].closed = worker[w].closed /\ worker'[w].failed = worker[w].failed
            /\ \A i \in DOMAIN worker'[w].tasks :
                  i \in DOMAIN worker[w].tasks /\ worker'[w].tasks[i] = worker[w].tasks[i]
        BY <4>3, <4>4, TaskEnded
      <4> QED BY <4>1, <4>5 DEF LosesTasks
    <3>3. CASE OnResult(w, m.id, m.call) /\ m.id \notin DOMAIN worker[w].tasks
      BY <3>3, SameWorker DEF OnResult, PoolIInv, PoolTypeOK
    <3> QED BY <1>4, <3>1, <3>2, <3>3
  <2>4. ASSUME NEW v \in Workers PROVE Keeps(v)
    <3>1. CASE v # w
      BY <1>1, <2>1, <2>2, <2>3, <3>1, Untouched DEF Frame
    <3>2. CASE v = w
      <4>1. Told(w)'
        <5>1. \A j \in 1 .. Len(toMain'[w]) :
                 \E i \in 1 .. Len(toMain[w]) : toMain'[w][j] = toMain[w][i]
          BY <1>2, <2>2
        <5> QED BY <2>3, <5>1, OneWorker, ToldKept DEF LosesTasks
      <4>2. Queued(w)'
        BY <2>1, <2>3, OneWorker, QueuedKept DEF LosesTasks
      <4>3. Dead(w)' /\ Unbuilt(w)'
        BY <1>1, <2>1, <2>3, OneWorker DEF Dead, Unbuilt, Frame
      <4> QED BY <2>3, <3>2, <4>1, <4>2, <4>3 DEF Keeps
    <3> QED BY <3>1, <3>2
  <2>5. /\ DOMAIN outcome' = Callers /\ phase' \in [Callers -> Steps]
        /\ \A c \in Callers : Ends(c)
    <3>1. CASE UNCHANGED <<phase, outcome>>
      BY <3>1 DEF Ends, PoolIInv, PoolTypeOK
    <3>2. CASE m.type = "result" /\ OnResult(w, m.id, m.call) /\ m.id \in DOMAIN worker[w].tasks
      <4>1. EndCall(worker[w].tasks[m.id], Outcome("result", m.call))
        BY <3>2 DEF OnResult
      <4>2. worker[w].tasks[m.id] = m.call
        BY <1>2, <3>2, OneWorker DEF Told, Matched
      <4>3. m.call \in Callers /\ phase[m.call] \in {"waiting", "done"}
        BY <3>2, <4>2, OneWorker DEF IsWorker, Served
      <4>4. /\ phase' = [phase EXCEPT ![m.call] = "done"]
            /\ outcome' = [outcome EXCEPT ![m.call] = Outcome("result", m.call)]
        BY <4>1, <4>2 DEF EndCall
      <4> HIDE DEF m
      <4>5. DOMAIN outcome' = Callers /\ phase' \in [Callers -> Steps]
        BY <4>3, <4>4 DEF PoolIInv, PoolTypeOK, Steps
      <4>6. ASSUME NEW c \in Callers PROVE Ends(c)
        <5>1. CASE c # m.call
          BY <4>4, <5>1 DEF Ends, PoolIInv, PoolTypeOK
        <5>2. CASE c = m.call
          <6>1. phase'[c] = "done" /\ outcome'[c] = Outcome("result", c)
            BY <4>3, <4>4, <5>2 DEF PoolIInv, PoolTypeOK
          <6> QED BY <4>3, <5>2, <6>1 DEF Ends, Outcome
        <5> QED BY <5>1, <5>2
      <4> QED BY <4>5, <4>6
    <3> QED BY <1>4, <3>1, <3>2 DEF OnReady, OnResult
  <2>6. isolate' \in [Workers -> Alive \cup {"none", "gone"}] /\ toWorker' \in [Workers -> Seq(Tasks)]
    BY <2>1 DEF PoolIInv, PoolTypeOK
  <2> QED BY <1>1, <2>1, <2>2, <2>3, <2>4, <2>5, <2>6, EndingKeeps DEF Frame, Keeps
<1> QED BY <1>3, <1>4 DEF OnMessage

LEMMA TaskTimeoutKeeps ==
  ASSUME PoolIInv, NEW c \in Callers, TaskTimeout(c)
  PROVE  PoolIInv'
<1>1. PICK id \in DOMAIN worker[on[c]].tasks :
         /\ worker[on[c]].tasks[id] = c
         /\ worker' = [worker EXCEPT ![on[c]].tasks = Restrict(@, DOMAIN @ \ {id})]
  BY DEF TaskTimeout
<1>2. /\ UNCHANGED Frame /\ UNCHANGED <<isolate, toWorker, toMain>> /\ phase[c] = "waiting"
      /\ phase' = [phase EXCEPT ![c] = "done"]
      /\ outcome' = [outcome EXCEPT ![c] = Outcome("timeout", c)]
  BY DEF TaskTimeout, Frame, EndCall
<1>3. DOMAIN worker = Workers
  BY DEF PoolIInv, PoolTypeOK
<1>4. /\ DOMAIN worker' = Workers
      /\ \A v \in Workers : \/ worker'[v] = worker[v]
                            \/ worker'[v] = Ended(worker[v], id)
  BY <1>1, <1>3 DEF Ended
<1>5. ASSUME NEW v \in Workers PROVE Keeps(v)
  <2>1. CASE worker'[v] = worker[v]
    BY <1>2, <2>1, Untouched DEF Frame
  <2>2. CASE worker'[v] = Ended(worker[v], id)
    <3>1. LosesTasks(v) /\ worker'[v].closed = worker[v].closed
          /\ worker'[v].failed = worker[v].failed
      <4>1. IsWorker(worker[v]) /\ Ready(worker[v])
        BY OneWorker
      <4>2. /\ IsWorker(worker'[v]) /\ Ready(worker'[v]) /\ Follows(worker[v], worker'[v])
            /\ worker'[v].closed = worker[v].closed /\ worker'[v].failed = worker[v].failed
            /\ \A i \in DOMAIN worker'[v].tasks :
                  i \in DOMAIN worker[v].tasks /\ worker'[v].tasks[i] = worker[v].tasks[i]
        BY <2>2, <4>1, TaskEnded
      <4> QED BY <4>2 DEF LosesTasks
    <3>2. Queued(v)' /\ Told(v)'
      BY <1>2, <3>1, OneWorker, QueuedKept, ToldKept DEF LosesTasks
    <3>3. Dead(v)' /\ Unbuilt(v)'
      BY <1>2, <3>1, OneWorker DEF Dead, Unbuilt, Frame
    <3> QED BY <3>1, <3>2, <3>3 DEF Keeps
  <2> QED BY <1>4, <2>1, <2>2
<1>6. DOMAIN outcome' = Callers /\ phase' \in [Callers -> Steps]
  BY <1>2 DEF PoolIInv, PoolTypeOK, Steps
<1>7. ASSUME NEW d \in Callers PROVE Ends(d)
  <2>1. CASE d # c
    BY <1>2, <2>1 DEF Ends, PoolIInv, PoolTypeOK
  <2>2. CASE d = c
    <3>1. phase'[d] = "done" /\ outcome'[d] = Outcome("timeout", c)
      BY <1>2, <2>2 DEF PoolIInv, PoolTypeOK
    <3> QED BY <1>2, <2>2, <3>1 DEF Ends, Outcome
  <2> QED BY <2>1, <2>2
<1>8. /\ isolate' \in [Workers -> Alive \cup {"none", "gone"}]
      /\ toWorker' \in [Workers -> Seq(Tasks)] /\ toMain' \in [Workers -> Seq(Messages)]
  BY <1>2 DEF PoolIInv, PoolTypeOK
<1> QED BY <1>2, <1>4, <1>5, <1>6, <1>7, <1>8, EndingKeeps DEF Frame, Keeps

\* What an isolate says is about nothing, or about a task it was sent.
LEMMA RunKeeps ==
  ASSUME PoolIInv, NEW w \in Workers, Run(w)
  PROVE  PoolIInv'
<1> USE DEF Frame
<1>1. UNCHANGED Frame /\ UNCHANGED <<worker, phase, outcome>>
  BY DEF Run
<1>2. /\ DOMAIN worker' = Workers /\ DOMAIN outcome' = Callers /\ phase' \in [Callers -> Steps]
      /\ \A c \in Callers : Ends(c)
  BY <1>1 DEF PoolIInv, PoolTypeOK, Ends
<1>3. isolate[w] \in Alive /\ w <= made /\ ~worker[w].closed /\ ~worker[w].failed
  BY OneWorker DEF Run, Boot, Load, Compute, Alive, Unbuilt, Dead
<1>4. /\ isolate' \in [Workers -> Alive \cup {"none", "gone"}]
      /\ \A v \in Workers \ {w} : isolate'[v] = isolate[v]
  BY DEF Run, Boot, Load, Compute, PoolIInv, PoolTypeOK, Alive
<1>5. /\ toWorker' \in [Workers -> Seq(Tasks)]
      /\ \A v \in Workers \ {w} : toWorker'[v] = toWorker[v]
      /\ \A j \in 1 .. Len(toWorker'[w]) :
            \E i \in 1 .. Len(toWorker[w]) : toWorker'[w][j] = toWorker[w][i]
  <2>1. CASE toWorker' = toWorker
    BY <2>1 DEF PoolIInv, PoolTypeOK
  <2>2. CASE toWorker' = [toWorker EXCEPT ![w] = <<>>]
    BY <2>2, EmptySeq DEF PoolIInv, PoolTypeOK
  <2>3. CASE toWorker[w] # <<>> /\ toWorker' = [toWorker EXCEPT ![w] = Tail(@)]
    <3>1. toWorker'[w] = Tail(toWorker[w])
      BY <2>3 DEF PoolIInv, PoolTypeOK
    <3>2. Tail(toWorker[w]) \in Seq(Tasks)
      BY <2>3, OneWorker, TailOf
    <3>3. \A j \in 1 .. Len(toWorker'[w]) :
             j + 1 \in 1 .. Len(toWorker[w]) /\ toWorker'[w][j] = toWorker[w][j + 1]
      BY <2>3, <3>1, OneWorker, TailOf
    <3>4. toWorker' \in [Workers -> Seq(Tasks)]
          /\ \A v \in Workers \ {w} : toWorker'[v] = toWorker[v]
      BY <2>3, <3>2 DEF PoolIInv, PoolTypeOK
    <3> QED BY <3>3, <3>4
  <2> QED BY <2>1, <2>2, <2>3 DEF Run, Boot, Load, Compute
<1>6. \/ toMain' = toMain
      \/ \E m \in Messages : /\ m.type = "result" => Matched(w, m)
                             /\ Send(w, m)
  <2>1. CASE Boot(w) \/ Load(w)
    <3>1. ASSUME NEW m, m = [type |-> "ready", id |-> Null, call |-> Null]
                        \/ m = [type |-> "failure", id |-> Null, call |-> Null]
          PROVE  m \in Messages /\ m.type # "result"
      BY <3>1 DEF Messages
    <3> QED BY <2>1, <3>1 DEF Boot, Load
  <2>2. CASE Compute(w)
    <3> DEFINE t == Head(toWorker[w])
               m == [type |-> "result", id |-> t.id, call |-> t.call]
    <3>1. t \in Tasks /\ t = toWorker[w][1] /\ 1 \in 1 .. Len(toWorker[w])
      BY <2>2, OneWorker, TailOf, HeadTailProperties DEF Compute
    <3>2. Matched(w, t)
      BY <3>1, OneWorker DEF Queued
    <3>3. m \in Messages /\ m.id = t.id /\ m.call = t.call
      BY <3>1 DEF Tasks, Messages
    <3>4. Matched(w, m)
      BY <3>2, <3>3 DEF Matched
    <3>5. Send(w, m)
      BY <2>2 DEF Compute
    <3> QED BY <3>3, <3>4, <3>5
  <2> QED BY <2>1, <2>2 DEF Run
<1>7. /\ toMain' \in [Workers -> Seq(Messages)]
      /\ \A v \in Workers \ {w} : toMain'[v] = toMain[v]
      /\ Told(w)'
  <2>1. CASE toMain' = toMain
    BY <1>1, <2>1, OneWorker DEF PoolIInv, PoolTypeOK, Told, Matched
  <2>2. ASSUME NEW m \in Messages, m.type = "result" => Matched(w, m), Send(w, m)
        PROVE  /\ toMain' \in [Workers -> Seq(Messages)]
               /\ \A v \in Workers \ {w} : toMain'[v] = toMain[v]
               /\ Told(w)'
    <3>1. /\ Append(toMain[w], m) \in Seq(Messages)
          /\ Len(Append(toMain[w], m)) = Len(toMain[w]) + 1
          /\ \A j \in 1 .. Len(toMain[w]) : Append(toMain[w], m)[j] = toMain[w][j]
          /\ Append(toMain[w], m)[Len(toMain[w]) + 1] = m
      BY OneWorker, AppendOf
    <3>2. /\ toMain' \in [Workers -> Seq(Messages)] /\ toMain'[w] = Append(toMain[w], m)
          /\ \A v \in Workers \ {w} : toMain'[v] = toMain[v]
      BY <2>2, <3>1 DEF Send, PoolIInv, PoolTypeOK
    <3>3. ASSUME NEW j \in 1 .. Len(toMain'[w]), toMain'[w][j].type = "result"
          PROVE  Matched(w, toMain[w][j])'
      <4>1. Len(toMain[w]) \in Nat
        BY OneWorker, LenProperties
      <4>2. CASE j = Len(toMain[w]) + 1
        <5>1. toMain'[w][j] = m
          BY <3>1, <3>2, <4>2
        <5> QED BY <1>1, <2>2, <3>3, <5>1 DEF Matched
      <4>3. CASE j \in 1 .. Len(toMain[w])
        <5>1. toMain'[w][j] = toMain[w][j]
          BY <3>1, <3>2, <4>3
        <5>2. Matched(w, toMain[w][j])
          BY <3>3, <4>3, <5>1, OneWorker DEF Told
        <5> QED BY <1>1, <5>1, <5>2 DEF Matched
      <4> QED BY <3>1, <3>2, <4>1, <4>2, <4>3
    <3> QED BY <3>2, <3>3 DEF Told
  <2> QED BY <1>6, <2>1, <2>2
<1>8. ASSUME NEW v \in Workers PROVE Keeps(v)
  <2>1. CASE v # w
    BY <1>1, <1>4, <1>5, <1>7, <2>1, Untouched
  <2>2. CASE v = w
    <3>1. LosesTasks(w)
      BY <1>1, SameWorker
    <3>2. Queued(w)'
      BY <1>5, <3>1, OneWorker, QueuedKept DEF LosesTasks
    <3>3. Dead(w)' /\ Unbuilt(w)'
      BY <1>1, <1>3, OneWorker DEF Dead, Unbuilt
    <3> QED BY <1>7, <2>2, <3>1, <3>2, <3>3 DEF Keeps
  <2> QED BY <2>1, <2>2
<1>9. \A v \in Workers : isolate'[v] \in Alive => isolate[v] \in Alive
  BY <1>3, <1>4
<1> QED BY <1>1, <1>2, <1>4, <1>5, <1>7, <1>8, <1>9, EndingKeeps DEF Keeps
-----------------------------------------------------------------------------
(* The actions of the pool. *)

LEMMA PendingIsNat ==
  ASSUME PoolIInv, NEW w \in Workers
  PROVE  Pending(w) \in Nat
<1>1. worker[w].counter \in Nat /\ DOMAIN worker[w].tasks \in SUBSET (0 .. worker[w].counter - 1)
  BY OneWorker DEF IsWorker
<1>2. \A n \in Nat : IsFiniteSet(0 .. n - 1)
  <2> SUFFICES ASSUME NEW n \in Nat PROVE IsFiniteSet(0 .. n - 1)
    OBVIOUS
  <2>1. n - 1 \in Int
    OBVIOUS
  <2> QED BY <2>1, FS_Interval
<1> QED BY <1>1, <1>2, FS_Subset, FS_CardinalityType DEF Pending

LEMMA PoolIsFull ==
  ASSUME PoolIInv, init = "done"
  PROVE  /\ instances \in Seq(Built) /\ Len(instances) = Size /\ DOMAIN instances = 1 .. Size
         /\ \A n \in 1 .. Size : instances[n] \in Built /\ instances[n] \in Workers
<1>1. instances \in Seq(Built) /\ Len(instances) = Size /\ made \in 0 .. MaxWorkers
  BY DEF PoolIInv, PoolTypeOK, PoolFilled
<1>2. DOMAIN instances = 1 .. Size /\ \A n \in 1 .. Size : instances[n] \in Built
  BY <1>1, LenProperties, ElementOfSeq
<1> QED BY <1>1, <1>2

\* _selectWorker picks a worker of the pool, and one that cannot be used only when none can.
LEMMA SelectPicks ==
  ASSUME PoolIInv, init = "done"
  PROVE  /\ Select \in 1 .. Size
         /\ ~Usable(instances[Select]) =>
              Select = Size /\ \A n \in 1 .. Size : ~Usable(instances[n])
<1> DEFINE usable == {n \in DOMAIN instances : Usable(instances[n])}
           best == {n \in usable : \A m \in usable : Pending(instances[n]) <= Pending(instances[m])}
<1>1. usable \subseteq 1 .. Size /\ \A n \in usable : Usable(instances[n])
  BY PoolIsFull
<1>2. CASE usable = {}
  <2>1. Select = Size
    BY <1>2, PoolIsFull DEF Select
  <2> QED BY <1>2, <2>1, PoolIsFull, SMTT(30)
<1>3. CASE usable # {}
  <2> DEFINE T == {Pending(instances[n]) : n \in usable}
  <2>1. T \subseteq Nat /\ T # {}
    BY <1>1, <1>3, PoolIsFull, PendingIsNat
  <2>2. PICK p \in T : \A q \in T : p <= q
    BY <2>1, LeastExists
  <2>3. PICK n \in usable : p = Pending(instances[n])
    BY <2>2
  <2>4. n \in best
    BY <2>2, <2>3
  <2>5. best \subseteq Nat /\ best \subseteq usable /\ best # {}
    BY <1>1, <2>4
  <2>6. \E k \in best : \A m \in best : k <= m
    BY <2>5, LeastExists
  <2>7. Select = CHOOSE k \in best : \A m \in best : k <= m
    BY <1>3 DEF Select
  <2>8. Select \in best
    BY <2>6, <2>7
  <2> QED BY <1>1, <2>5, <2>8
<1> QED BY <1>2, <1>3

\* What a call's step does to stale: only the call that begins records the workers that
\* have failed.
Notes(c) ==
  /\ stale' \in [Callers -> SUBSET Workers]
  /\ \A d \in Callers \ {c} : stale'[d] = stale[d]
  /\ \A v \in stale'[c] : worker[v].failed
  /\ phase[c] # "new" => stale'[c] = stale[c]

LEMMA NothingToNote ==
  ASSUME PoolIInv, NEW c \in Callers, stale' = stale
  PROVE  Notes(c)
BY DEF Notes, PoolIInv, PoolTypeOK, CallInv

LEMMA ServedKept ==
  ASSUME PoolIInv, NEW c \in Callers, Notes(c), phase[c] \notin {"waiting", "done"},
         \A d \in Callers \ {c} : phase[d] \in {"waiting", "done"} => phase'[d] = phase[d],
         NEW w \in Workers, NEW id \in DOMAIN worker[w].tasks
  PROVE  /\ phase'[worker[w].tasks[id]] \in {"waiting", "done"}
         /\ w \notin stale'[worker[w].tasks[id]]
<1>1. /\ phase[worker[w].tasks[id]] \in {"waiting", "done"}
      /\ w \notin stale[worker[w].tasks[id]] /\ worker[w].tasks[id] \in Callers
  BY OneWorker DEF Served, IsWorker
<1> QED BY <1>1 DEF Notes

LEMMA ConstructKeeps ==
  ASSUME PoolIInv, Construct, UNCHANGED <<worker, toWorker, toMain>>
  PROVE  /\ made' \in 0 .. MaxWorkers /\ made' = made + 1 /\ made' \in Workers
         /\ isolate' \in [Workers -> Alive \cup {"none", "gone"}]
         /\ \A w \in Workers : w # made' => isolate'[w] = isolate[w]
         /\ ~worker[made'].failed
         /\ \A w \in Workers : Ready(worker[w])' /\ Queued(w)' /\ Told(w)' /\ Dead(w)' /\ Unbuilt(w)'
         /\ \A s \in Seq(Built) : s \in Seq(1 .. made')
<1>1. made' \in 0 .. MaxWorkers /\ made' = made + 1 /\ made' \in Workers
  BY DEF PoolIInv, PoolTypeOK, Construct
<1>2. /\ isolate' \in [Workers -> Alive \cup {"none", "gone"}]
      /\ \A w \in Workers : w # made' => isolate'[w] = isolate[w]
  BY <1>1 DEF Construct, PoolIInv, PoolTypeOK, Alive
<1>3. ~worker[made'].failed /\ ~worker[made'].closed
  BY <1>1, OneWorker DEF Unbuilt
<1>4. ASSUME NEW w \in Workers
      PROVE  Ready(worker[w])' /\ Queued(w)' /\ Told(w)' /\ Dead(w)' /\ Unbuilt(w)'
  <2>1. Ready(worker[w])' /\ Queued(w)' /\ Told(w)'
    BY OneWorker DEF Ready, Queued, Told, Matched
  <2>2. Dead(w)'
    BY <1>2, <1>3, OneWorker DEF Dead
  <2>3. Unbuilt(w)'
    BY <1>1, <1>2, OneWorker, SMTT(30) DEF Unbuilt
  <2> QED BY <2>1, <2>2, <2>3
<1>5. Built \subseteq 1 .. made'
  BY <1>1 DEF PoolIInv, PoolTypeOK
<1>6. \A s \in Seq(Built) : s \in Seq(1 .. made')
  BY <1>5, SeqMonotonic
<1> QED BY <1>1, <1>2, <1>3, <1>4, <1>6

\* execute() on a ready worker leaves a task with it, or ends the call.
LEMMA ExecuteOnKeeps ==
  ASSUME PoolIInv, NEW c \in Callers, NEW w \in Workers, w <= made, ExecuteOn(c, w),
         UNCHANGED <<init, made, isolate, toMain, at>>, Notes(c),
         phase[c] \notin {"waiting", "done"}, w \notin stale'[c]
  PROVE  /\ DOMAIN worker' = Workers /\ \A v \in Workers : IsWorker(worker'[v]) /\ WorkerInv(v)'
         /\ toWorker' \in [Workers -> Seq(Tasks)] /\ phase' \in [Callers -> Steps]
         /\ DOMAIN on' = Callers /\ DOMAIN outcome' = Callers
         /\ \A d \in Callers : CallInv(d)'
         /\ Replacing' = Replacing \ {c}
         /\ \A d \in Callers \ {c} : on'[d] = on[d]
<1>1. /\ DOMAIN worker = Workers /\ toWorker \in [Workers -> Seq(Tasks)]
      /\ phase \in [Callers -> Steps] /\ DOMAIN on = Callers /\ DOMAIN outcome = Callers
  BY DEF PoolIInv, PoolTypeOK
<1>2. /\ phase' \in [Callers -> Steps] /\ phase'[c] \in {"waiting", "done"}
      /\ \A d \in Callers \ {c} : phase'[d] = phase[d]
  BY <1>1 DEF ExecuteOn, EndCall, Steps
<1>3. DOMAIN on' = Callers /\ \A d \in Callers \ {c} : on'[d] = on[d]
  BY <1>1 DEF ExecuteOn
<1>4. /\ DOMAIN outcome' = Callers /\ \A d \in Callers \ {c} : outcome'[d] = outcome[d]
      /\ \/ outcome'[c] = outcome[c]
         \/ outcome'[c] = Outcome("workerError", w)
         \/ outcome'[c] = Outcome("unsendable", c)
  BY <1>1 DEF ExecuteOn, EndCall
<1>5. DOMAIN worker' = Workers /\ \A v \in Workers \ {w} : worker'[v] = worker[v]
  BY <1>1 DEF ExecuteOn
<1>6. \A v \in Workers \ {w} : toWorker'[v] = toWorker[v]
  BY <1>1 DEF ExecuteOn
<1>7. IsWorker(worker[w]) /\ Ready(worker[w])
  BY OneWorker
<1> DEFINE t == [id |-> worker[w].counter, call |-> c]
<1>8. \/ worker'[w] = worker[w] /\ toWorker'[w] = toWorker[w]
      \/ /\ worker'[w] = [worker[w] EXCEPT !.counter = @ + 1] /\ toWorker'[w] = toWorker[w]
      \/ /\ worker'[w] = Given(worker[w], c)
         /\ toWorker'[w] = Append(toWorker[w], t) /\ phase'[c] = "waiting"
  BY <1>1 DEF ExecuteOn, TaskId, Given
<1>9. /\ IsWorker(worker'[w]) /\ Ready(worker'[w]) /\ Follows(worker[w], worker'[w])
      /\ worker'[w].closed = worker[w].closed /\ worker'[w].failed = worker[w].failed
  <2>1. CASE worker'[w] = worker[w]
    BY <1>7, <2>1 DEF Follows, IsWorker
  <2>2. CASE worker'[w] = [worker[w] EXCEPT !.counter = @ + 1]
    BY <1>7, <2>2, TaskSkipped
  <2>3. CASE worker'[w] = Given(worker[w], c)
    BY <1>7, <2>3, TaskStarted
  <2> QED BY <1>8, <2>1, <2>2, <2>3
<1>10. \A id \in DOMAIN worker'[w].tasks :
          \/ id \in DOMAIN worker[w].tasks /\ worker'[w].tasks[id] = worker[w].tasks[id]
          \/ worker'[w].tasks[id] = c
  <2>1. CASE worker'[w] = worker[w]
    BY <2>1
  <2>2. CASE worker'[w] = [worker[w] EXCEPT !.counter = @ + 1]
    BY <1>7, <2>2, TaskSkipped
  <2>3. CASE worker'[w] = Given(worker[w], c)
    BY <1>7, <2>3, TaskStarted
  <2> QED BY <1>8, <2>1, <2>2, <2>3
<1>11. ASSUME NEW v \in Workers PROVE Served(v)'
  <2>1. SUFFICES ASSUME NEW id \in DOMAIN worker'[v].tasks
                 PROVE  /\ phase'[worker'[v].tasks[id]] \in {"waiting", "done"}
                        /\ v \notin stale'[worker'[v].tasks[id]]
    BY DEF Served
  <2>2. \/ id \in DOMAIN worker[v].tasks /\ worker'[v].tasks[id] = worker[v].tasks[id]
        \/ v = w /\ worker'[v].tasks[id] = c
    BY <1>5, <1>10
  <2>3. CASE id \in DOMAIN worker[v].tasks /\ worker'[v].tasks[id] = worker[v].tasks[id]
    BY <1>2, <2>3, ServedKept
  <2>4. CASE v = w /\ worker'[v].tasks[id] = c
    BY <1>2, <2>4
  <2> QED BY <2>2, <2>3, <2>4
<1>12. toWorker' \in [Workers -> Seq(Tasks)] /\ Queued(w)'
  <2>1. CASE toWorker'[w] = toWorker[w]
    <3>1. toWorker' = toWorker
      BY <1>1, <1>6, <2>1 DEF ExecuteOn
    <3> QED BY <1>1, <1>9, <2>1, <3>1, OneWorker, QueuedKept
  <2>2. CASE /\ worker'[w] = Given(worker[w], c)
             /\ toWorker'[w] = Append(toWorker[w], t)
    <3>1. t \in Tasks
      BY <1>7 DEF IsWorker, Tasks
    <3>2. /\ Append(toWorker[w], t) \in Seq(Tasks)
          /\ Len(Append(toWorker[w], t)) = Len(toWorker[w]) + 1
          /\ \A j \in 1 .. Len(toWorker[w]) : Append(toWorker[w], t)[j] = toWorker[w][j]
          /\ Append(toWorker[w], t)[Len(toWorker[w]) + 1] = t
      BY <3>1, OneWorker, AppendOf
    <3>3. toWorker' \in [Workers -> Seq(Tasks)]
      <4>1. toWorker' = toWorker \/ toWorker' = [toWorker EXCEPT ![w] = Append(@, t)]
        BY DEF ExecuteOn, TaskId
      <4> QED BY <1>1, <3>2, <4>1
    <3>4. ASSUME NEW j \in 1 .. Len(toWorker'[w]) PROVE Matched(w, toWorker[w][j])'
      <4>1. Len(toWorker[w]) \in Nat
        BY OneWorker, LenProperties
      <4>2. CASE j = Len(toWorker[w]) + 1
        <5>1. toWorker'[w][j] = t
          BY <2>2, <3>2, <4>2
        <5>2. /\ worker'[w].counter = worker[w].counter + 1 /\ worker[w].counter \in Nat
              /\ worker[w].counter \in DOMAIN worker'[w].tasks =>
                   worker'[w].tasks[worker[w].counter] = c
          <6>1. worker[w].counter \in Nat
            BY <1>7 DEF IsWorker
          <6>2. /\ worker'[w].counter = worker[w].counter + 1
                /\ \A id \in DOMAIN worker'[w].tasks :
                      IF id = worker[w].counter THEN worker'[w].tasks[id] = c
                      ELSE id \in DOMAIN worker[w].tasks /\ worker'[w].tasks[id] = worker[w].tasks[id]
            BY <1>7, <2>2, TaskStarted
          <6> QED BY <6>1, <6>2
        <5> QED BY <5>1, <5>2 DEF Matched
      <4>3. CASE j \in 1 .. Len(toWorker[w])
        <5>1. toWorker'[w][j] = toWorker[w][j] /\ Matched(w, toWorker[w][j])
          BY <2>2, <3>2, <4>3, OneWorker DEF Queued
        <5> QED BY <1>7, <1>9, <5>1 DEF Matched, Follows, IsWorker
      <4> QED BY <2>2, <3>2, <4>1, <4>2, <4>3
    <3> QED BY <3>3, <3>4 DEF Queued
  <2> QED BY <1>8, <2>1, <2>2
<1>13. ASSUME NEW v \in Workers PROVE IsWorker(worker'[v]) /\ WorkerInv(v)'
  <2>1. CASE v # w
    BY <1>5, <1>6, <1>11, <2>1, Untouched DEF WorkerInv, Keeps, LosesTasks, Ready
  <2>2. CASE v = w
    <3>1. Told(w)'
      BY <1>7, <1>9, OneWorker, ToldKept
    <3>2. Dead(w)' /\ Unbuilt(w)'
      BY <1>9, OneWorker DEF Dead, Unbuilt
    <3> QED BY <1>9, <1>11, <1>12, <2>2, <3>1, <3>2 DEF WorkerInv, Ready
  <2> QED BY <2>1, <2>2
<1>14. ASSUME NEW d \in Callers PROVE CallInv(d)'
  <2>1. CallInv(d) /\ stale[d] \in SUBSET Workers /\ stale'[d] \in SUBSET Workers
    BY DEF PoolIInv, PoolTypeOK, Notes
  <2>2. \A v \in stale'[d] : worker'[v].failed
    <3>1. \A v \in stale'[d] : worker[v].failed
      BY <2>1 DEF Notes, CallInv
    <3> QED BY <1>5, <1>9, <2>1, <3>1
  <2>3. CASE d # c
    BY <1>2, <1>3, <1>4, <2>1, <2>2, <2>3 DEF CallInv, Answer, Replacement, Notes
  <2>4. CASE d = c
    <3>1. Replacement(d)'
      BY <1>2, <2>4 DEF Replacement
    <3>2. Answer(d)'
      <4>1. CASE outcome'[c] = outcome[c]
        BY <1>2, <2>1, <2>4, <4>1 DEF CallInv, Answer, Notes
      <4>2. CASE outcome'[c] = Outcome("workerError", w)
        BY <1>2, <2>4, <4>2 DEF Answer, Outcome
      <4>3. CASE outcome'[c] = Outcome("unsendable", c)
        BY <1>2, <2>4, <4>3 DEF Answer, Outcome
      <4> QED BY <1>4, <4>1, <4>2, <4>3
    <3> QED BY <2>2, <3>1, <3>2 DEF CallInv
  <2> QED BY <2>3, <2>4
<1>15. Replacing' = Replacing \ {c}
  BY <1>2 DEF Replacing
<1> QED BY <1>2, <1>3, <1>4, <1>5, <1>12, <1>13, <1>14, <1>15

LEMMA ToSetIs ==
  ASSUME NEW S, NEW s \in Seq(S)
  PROVE  /\ ToSet(s) = {s[i] : i \in 1 .. Len(s)} /\ ToSet(s) \subseteq S
         /\ Len(s) \in Nat
BY LenProperties, ElementOfSeq DEF ToSet

LEMMA FrontOf ==
  ASSUME NEW S, NEW s \in Seq(S), Len(s) \in Nat \ {0}
  PROVE  /\ Front(s) \in Seq(S) /\ Len(Front(s)) = Len(s) - 1
         /\ \A i \in 1 .. Len(s) - 1 : Front(s)[i] = s[i]
<1>1. PICK n \in Nat \ {0} : n = Len(s)
  OBVIOUS
<1>2. Front(s) = SubSeq(s, 1, n - 1) /\ n - 1 \in Int /\ \A i \in 1 .. n - 1 : s[i] \in S
  BY <1>1, ElementOfSeq DEF Front
<1>3. /\ Front(s) \in Seq(S)
      /\ Len(Front(s)) = IF 1 <= n - 1 THEN n - 1 - 1 + 1 ELSE 0
      /\ \A i \in 1 .. n - 1 - 1 + 1 : Front(s)[i] = s[1 + i - 1]
  BY <1>2, SubSeqProperties
<1>4. (IF 1 <= n - 1 THEN n - 1 - 1 + 1 ELSE 0) = n - 1
  BY <1>1
<1>5. ASSUME NEW i \in 1 .. n - 1 PROVE Front(s)[i] = s[i]
  <2>1. i \in 1 .. n - 1 - 1 + 1 /\ 1 + i - 1 = i
    OBVIOUS
  <2> QED BY <1>3, <2>1
<1> QED BY <1>1, <1>3, <1>4, <1>5

\* A pool in which no worker can be used has no isolate left.
LEMMA NoneUsable ==
  ASSUME PoolIInv, init = "done", ~Usable(instances[Select])
  PROVE  Select = Size /\ \A n \in 1 .. Size : isolate[instances[n]] = "gone"
BY SelectPicks, PoolIsFull, OneWorker DEF Usable, Dead

\* The call is given a worker of the pool: by execute() at once, or after init().
LEMMA ChosenKeeps ==
  ASSUME PoolIInv, NEW c \in Callers, init = "done", phase[c] \in {"new", "init"}, Notes(c),
         Chosen(c), UNCHANGED <<instances, init, starting, toMain>>
  PROVE  PoolIInv'
<1>1. /\ instances \in Seq(Built) /\ starting \in Seq(Built) /\ overlaps \in Nat
      /\ made \in 0 .. MaxWorkers /\ at \in [Callers -> Nat] /\ DOMAIN worker = Workers
      /\ DOMAIN on = Callers /\ DOMAIN outcome = Callers /\ phase \in [Callers -> Steps]
      /\ isolate \in [Workers -> Alive \cup {"none", "gone"}]
      /\ toWorker \in [Workers -> Seq(Tasks)] /\ toMain \in [Workers -> Seq(Messages)]
  BY DEF PoolIInv, PoolTypeOK
<1>2. c \notin Replacing
  BY DEF Replacing
<1>3. ASSUME Usable(instances[Select]), ExecuteOn(c, instances[Select]),
             UNCHANGED <<made, isolate, at, overlaps>>
      PROVE  PoolIInv'
  <2> DEFINE w == instances[Select]
  <2>1. w \in Workers /\ w <= made
    BY <1>1, SelectPicks, PoolIsFull
  <2>2. w \notin stale'[c]
    BY <1>3 DEF Usable, Notes
  <2> HIDE DEF w
  <2>3. ExecuteOn(c, w)
    BY <1>3 DEF w
  <2>4. /\ DOMAIN worker' = Workers /\ \A v \in Workers : IsWorker(worker'[v]) /\ WorkerInv(v)'
        /\ toWorker' \in [Workers -> Seq(Tasks)] /\ phase' \in [Callers -> Steps]
        /\ DOMAIN on' = Callers /\ DOMAIN outcome' = Callers
        /\ \A d \in Callers : CallInv(d)'
        /\ Replacing' = Replacing \ {c}
        /\ \A d \in Callers \ {c} : on'[d] = on[d]
    BY <1>3, <2>1, <2>2, <2>3, ExecuteOnKeeps
  <2>5. PoolTypeOK'
    BY <1>1, <1>3, <2>4 DEF PoolTypeOK, Notes, PoolIInv
  <2>6. PoolFilled'
    BY DEF PoolFilled, PoolIInv
  <2>7. Replacing' = Replacing
    BY <1>2, <2>4
  <2>8. Lost' \subseteq Lost
    <3>1. \A d \in Replacing : d \in Replacing' /\ on'[d] = on[d]
      BY <1>2, <2>4 DEF Replacing
    <3> QED BY <1>3, <3>1 DEF Lost, Replacing
  <2>9. LastRuns' <= LastRuns
    BY <1>3 DEF LastRuns
  <2>10. Counted'
    BY <1>1, <1>3, <2>7, <2>8, <2>9, CountedKept DEF PoolIInv
  <2> QED BY <2>4, <2>5, <2>6, <2>10 DEF PoolIInv
<1>4. ASSUME ~Usable(instances[Select]), Replace(c)
      PROVE  PoolIInv'
  <2>1. /\ Construct /\ UNCHANGED <<worker, toWorker, toMain, outcome, instances, init, starting>>
        /\ phase' = [phase EXCEPT ![c] = "replacing"]
        /\ on' = [on EXCEPT ![c] = made'] /\ at' = [at EXCEPT ![c] = Size]
        /\ overlaps' = overlaps + (IF Replacing # {} THEN 1 ELSE 0)
    BY <1>4, NoneUsable DEF Replace, Replacing, Construct
  <2>2. /\ made' \in 0 .. MaxWorkers /\ made' = made + 1 /\ made' \in Workers
        /\ isolate' \in [Workers -> Alive \cup {"none", "gone"}]
        /\ \A w \in Workers : w # made' => isolate'[w] = isolate[w]
        /\ ~worker[made'].failed
        /\ \A w \in Workers : Ready(worker[w])' /\ Queued(w)' /\ Told(w)' /\ Dead(w)' /\ Unbuilt(w)'
        /\ \A s \in Seq(Built) : s \in Seq(1 .. made')
    BY <2>1, ConstructKeeps
  <2>3. phase' \in [Callers -> Steps] /\ DOMAIN on' = Callers /\ at' \in [Callers -> Nat]
        /\ overlaps' \in Nat
    BY <1>1, <2>1 DEF Steps
  <2>4. PoolTypeOK'
    BY <1>1, <2>1, <2>2, <2>3 DEF PoolTypeOK, Notes, PoolIInv
  <2>5. ASSUME NEW w \in Workers PROVE WorkerInv(w)'
    <3>1. \A d \in Callers \ {c} : phase'[d] = phase[d]
      BY <1>1, <2>1
    <3>2. Served(w)'
      BY <2>1, <3>1, ServedKept DEF Served
    <3> QED BY <2>2, <3>2 DEF WorkerInv
  <2>6. ASSUME NEW d \in Callers PROVE CallInv(d)'
    <3>1. CallInv(d)
      BY DEF PoolIInv
    <3>2. CASE d # c
      <4>1. phase'[d] = phase[d] /\ on'[d] = on[d] /\ at'[d] = at[d] /\ stale'[d] = stale[d]
        BY <1>1, <2>1, <3>2 DEF Notes
      <4> QED BY <1>1, <2>1, <2>2, <3>1, <4>1, SMTT(30) DEF CallInv, Answer, Replacement
    <3>3. CASE d = c
      <4>1. phase'[c] = "replacing" /\ on'[c] = made' /\ at'[c] = Size
        BY <1>1, <2>1
      <4>2. made' \notin stale'[c] /\ \A v \in stale'[c] : worker'[v].failed
        BY <2>1, <2>2 DEF Notes
      <4>3. Answer(c)'
        BY <2>1, <3>1, <3>3, <4>1 DEF CallInv, Answer, Notes
      <4>4. Replacement(c)'
        BY <2>1, <2>2, <4>1, <4>2 DEF Replacement
      <4> QED BY <3>3, <4>2, <4>3, <4>4 DEF CallInv
    <3> QED BY <3>2, <3>3
  <2>7. PoolFilled'
    BY <2>1 DEF PoolFilled, PoolIInv
  <2>8. Replacing' = Replacing \cup {c}
    BY <1>1, <2>1 DEF Replacing
  <2>9. Lost' \subseteq Lost
    <3> SUFFICES ASSUME NEW w \in Lost' PROVE w \in Lost
      OBVIOUS
    <3>1. w \in Workers /\ isolate'[w] \in Alive /\ w \notin ToSet(instances) \cup ToSet(starting)
      BY <2>1 DEF Lost, Alive
    <3>2. \A d \in Replacing' : on'[d] # w
      BY DEF Lost, Replacing
    <3>3. w # made' /\ isolate[w] \in Alive
      BY <1>1, <2>1, <2>2, <2>8, <3>1, <3>2, SMTT(30)
    <3>4. \A d \in Replacing : on[d] # w
      BY <1>1, <1>2, <2>1, <2>8, <3>2, SMTT(30) DEF Replacing
    <3> QED BY <3>1, <3>3, <3>4 DEF Lost, Alive, Replacing
  <2>10. LastRuns = 0 /\ LastRuns' = 0
    <3>1. isolate[instances[Size]] = "gone" /\ instances[Size] \in Built /\ instances[Size] \in Workers
      BY <1>4, NoneUsable, PoolIsFull
    <3>2. isolate'[instances[Size]] = "gone"
      BY <1>1, <2>2, <3>1
    <3> QED BY <2>1, <3>1, <3>2 DEF LastRuns, Alive
  <2>11. Counted'
    <3>1. Cardinality(Lost') <= Cardinality(Lost) /\ Cardinality(Lost') \in Nat
      BY <2>9, LostIsFinite, FS_Subset, FS_CardinalityType
    <3>2. Cardinality(Replacing') = Cardinality(Replacing) + 1
      BY <1>2, <2>8, LostIsFinite, FS_AddElement
    <3>3. Replacing = {} => Cardinality(Replacing) = 0
      BY FS_EmptySet
    <3>4. Counted
      BY DEF PoolIInv
    <3> QED BY <1>1, <2>1, <2>8, <2>10, <3>1, <3>2, <3>3, <3>4, LostIsFinite, SMTT(30)
           DEF Counted
  <2> QED BY <2>4, <2>5, <2>6, <2>7, <2>11 DEF PoolIInv
<1> QED BY <1>3, <1>4 DEF Chosen

\* A worker is started for init(): it is one of those init() has started.
LEMMA StartKeeps ==
  ASSUME PoolIInv, init # "done", Construct, UNCHANGED <<worker, toWorker, toMain, on, at, outcome>>,
         UNCHANGED <<instances, overlaps>>, init' = "running",
         starting' \in Seq(1 .. made'), Len(starting') \in 1 .. Size,
         ToSet(starting') = ToSet(starting) \cup {made'},
         phase' \in [Callers -> Steps], stale' \in [Callers -> SUBSET Workers],
         \A c \in Callers :
            \/ phase'[c] = phase[c] /\ stale'[c] = stale[c]
            \/ /\ phase[c] = "new" /\ phase'[c] = "init"
               /\ \A v \in stale'[c] : worker[v].failed
  PROVE  PoolIInv'
<1>1. /\ made' \in 0 .. MaxWorkers /\ made' = made + 1 /\ made' \in Workers
      /\ isolate' \in [Workers -> Alive \cup {"none", "gone"}]
      /\ \A w \in Workers : w # made' => isolate'[w] = isolate[w]
      /\ ~worker[made'].failed
      /\ \A w \in Workers : Ready(worker[w])' /\ Queued(w)' /\ Told(w)' /\ Dead(w)' /\ Unbuilt(w)'
      /\ \A s \in Seq(Built) : s \in Seq(1 .. made')
  BY ConstructKeeps
<1>2. PoolTypeOK'
  BY <1>1 DEF PoolIInv, PoolTypeOK
<1>3. ASSUME NEW w \in Workers PROVE WorkerInv(w)'
  <2>1. Served(w)'
    <3>1. SUFFICES ASSUME NEW id \in DOMAIN worker[w].tasks
                   PROVE  /\ phase'[worker[w].tasks[id]] \in {"waiting", "done"}
                          /\ w \notin stale'[worker[w].tasks[id]]
      BY DEF Served
    <3>2. /\ phase[worker[w].tasks[id]] \in {"waiting", "done"}
          /\ w \notin stale[worker[w].tasks[id]] /\ worker[w].tasks[id] \in Callers
      BY OneWorker DEF Served, IsWorker
    <3> QED BY <3>2
  <2> QED BY <1>1, <2>1 DEF WorkerInv
<1>4. ASSUME NEW c \in Callers PROVE CallInv(c)'
  <2>1. CallInv(c) /\ stale[c] \in SUBSET Workers
    BY DEF PoolIInv, PoolTypeOK
  <2>2. phase[c] # "replacing"
    BY <2>1 DEF CallInv, Replacement
  <2> QED BY <2>1, <2>2 DEF CallInv, Answer, Replacement
<1>5. PoolFilled'
  BY DEF PoolFilled, PoolIInv
<1>6. Replacing = {} /\ Replacing' = {}
  BY DEF Replacing, PoolIInv, CallInv, Replacement
<1>7. Lost' \subseteq Lost
  BY <1>1, <1>6 DEF Lost, Replacing
<1>8. Counted'
  BY <1>6, <1>7, CountedKept DEF PoolIInv, PoolTypeOK
<1> QED BY <1>2, <1>3, <1>4, <1>5, <1>8 DEF PoolIInv

LEMMA ExecuteKeeps ==
  ASSUME PoolIInv, NEW c \in Callers, Execute(c)
  PROVE  PoolIInv'
<1>1. /\ phase[c] = "new" /\ UNCHANGED <<instances, toMain>>
      /\ stale' = [stale EXCEPT ![c] = {w \in Workers : worker[w].failed}]
  BY DEF Execute
<1>2. /\ stale \in [Callers -> SUBSET Workers] /\ phase \in [Callers -> Steps]
      /\ made \in 0 .. MaxWorkers /\ starting \in Seq(Built)
  BY DEF PoolIInv, PoolTypeOK
<1>3. Notes(c)
  BY <1>1, <1>2 DEF Notes
<1>4. CASE init = "done" /\ Chosen(c) /\ UNCHANGED <<init, starting>>
  BY <1>1, <1>3, <1>4, ChosenKeeps
<1>5. ASSUME phase' = [phase EXCEPT ![c] = "init"]
      PROVE  /\ phase' \in [Callers -> Steps] /\ stale' \in [Callers -> SUBSET Workers]
             /\ \A d \in Callers :
                   \/ phase'[d] = phase[d] /\ stale'[d] = stale[d]
                   \/ /\ d = c /\ phase[d] = "new" /\ phase'[d] = "init"
                      /\ \A v \in stale'[d] : worker[v].failed
  BY <1>1, <1>2, <1>3, <1>5 DEF Steps, Notes
<1>6. CASE /\ init = "none" /\ Construct /\ init' = "running" /\ starting' = <<made + 1>>
           /\ phase' = [phase EXCEPT ![c] = "init"]
           /\ UNCHANGED <<worker, toWorker, on, at, outcome, overlaps>>
  <2>1. made' = made + 1
    BY <1>6 DEF Construct
  <2>2. starting' \in Seq(1 .. made') /\ Len(starting') = 1
    BY <1>2, <1>6, <2>1
  <2>3. ToSet(starting') = {made'}
    <3>1. ToSet(starting') = {starting'[i] : i \in 1 .. Len(starting')}
      BY <2>2, ToSetIs
    <3>2. Len(starting') = 1 /\ starting'[1] = made'
      BY <1>6, <2>1
    <3> QED BY <3>1, <3>2
  <2>4. ToSet(starting) = {}
    <3>1. starting = <<>>
      BY <1>6 DEF PoolIInv, PoolFilled
    <3>2. ToSet(starting) = {starting[i] : i \in 1 .. Len(starting)}
      BY <1>2, ToSetIs
    <3>3. Len(starting) = 0
      BY <3>1
    <3> QED BY <3>2, <3>3
  <2> QED BY <1>1, <1>5, <1>6, <2>2, <2>3, <2>4, StartKeeps
<1>7. CASE /\ init = "running" /\ phase' = [phase EXCEPT ![c] = "init"]
           /\ UNCHANGED <<init, starting, made, worker, isolate, toWorker, on, at, outcome, overlaps>>
  <2>1. PoolTypeOK'
    BY <1>1, <1>5, <1>7 DEF PoolIInv, PoolTypeOK
  <2>2. ASSUME NEW w \in Workers PROVE WorkerInv(w)'
    <3>1. \A d \in Callers \ {c} : phase'[d] = phase[d]
      BY <1>2, <1>7
    <3>2. Served(w)'
      BY <1>1, <1>3, <1>7, <3>1, ServedKept DEF Served
    <3> QED BY <1>1, <1>7, <3>2, OneWorker
            DEF WorkerInv, Ready, Queued, Told, Matched, Dead, Unbuilt
  <2>3. ASSUME NEW d \in Callers PROVE CallInv(d)'
    <3>1. CallInv(d) /\ phase[d] # "replacing"
      BY <1>7 DEF PoolIInv, CallInv, Replacement
    <3> QED BY <1>1, <1>5, <1>7, <3>1 DEF CallInv, Answer, Replacement
  <2>4. PoolFilled'
    BY <1>1, <1>7 DEF PoolFilled, PoolIInv
  <2>5. Replacing = {} /\ Replacing' = {}
    <3>1. \A d \in Callers : phase[d] # "replacing"
      BY <1>7 DEF PoolIInv, CallInv, Replacement
    <3> QED BY <1>5, <1>7, <3>1 DEF Replacing
  <2>6. Lost' \subseteq Lost
    BY <1>1, <1>7, <2>5 DEF Lost, Replacing
  <2>7. Counted'
    BY <1>7, <2>5, <2>6, CountedKept DEF PoolIInv, PoolTypeOK
  <2> QED BY <2>1, <2>2, <2>3, <2>4, <2>7 DEF PoolIInv
<1> QED BY <1>4, <1>6, <1>7 DEF Execute

LEMMA ResumeKeeps ==
  ASSUME PoolIInv, NEW c \in Callers, Resume(c)
  PROVE  PoolIInv'
BY NothingToNote, ChosenKeeps DEF Resume

LEMMA OneLess ==
  ASSUME NEW S, IsFiniteSet(S), NEW x \in S, NEW T, T = S \ {x}
  PROVE  /\ Cardinality(T) = Cardinality(S) - 1 /\ Cardinality(T) \in Nat
         /\ T # {} => Cardinality(T) >= 1
<1>1. IsFiniteSet(T) /\ Cardinality(T) = Cardinality(S) - 1
  BY FS_RemoveElement, Zenon
<1>2. Cardinality(T) \in Nat /\ (Cardinality(T) = 0 => T = {})
  BY <1>1, FS_CardinalityType, FS_EmptySet, Zenon
<1>3. T # {} => Cardinality(T) >= 1
  <2> SUFFICES ASSUME Cardinality(T) # 0 PROVE Cardinality(T) >= 1
    BY <1>2
  <2> QED BY <1>2
<1> QED BY <1>1, <1>2, <1>3, Zenon

\* A replacement ends: if its worker is ready it takes the last place of the pool, and
\* what was there is lost if it runs.
LEMMA ReplacedKeeps ==
  ASSUME PoolIInv, NEW c \in Callers, Replaced(c)
  PROVE  PoolIInv'
<1>1. /\ phase[c] = "replacing" /\ init = "done" /\ at[c] = Size /\ on[c] \in Built
      /\ on[c] \notin stale[c] /\ on[c] \in Workers
  BY DEF Replaced, PoolIInv, PoolTypeOK, CallInv, Replacement
<1>2. UNCHANGED <<init, starting, made, isolate, toMain, at, overlaps, stale>>
  BY DEF Replaced
<1>3. c \in Replacing /\ Counted /\ overlaps \in Nat
  BY <1>1 DEF Replacing, PoolIInv, PoolTypeOK
<1>4. Notes(c)
  BY <1>2, NothingToNote
<1>5. ASSUME Replacing' = Replacing \ {c}
      PROVE  /\ Cardinality(Replacing') = Cardinality(Replacing) - 1
             /\ Cardinality(Replacing') \in Nat
             /\ Replacing' # {} => Cardinality(Replacing') >= 1
  BY <1>3, <1>5, LostIsFinite, OneLess, Zenon
<1>6. LastRuns \in 0 .. 1 /\ LastRuns' \in 0 .. 1
  BY DEF LastRuns
<1>7. CASE /\ worker[on[c]].ready = "error" /\ EndCall(c, Outcome("workerError", on[c]))
           /\ UNCHANGED <<instances, worker, toWorker, on>>
  <2>1. isolate[on[c]] = "gone"
    BY <1>1, <1>7, OneWorker DEF Ready, Dead
  <2>2. /\ phase' = [phase EXCEPT ![c] = "done"] /\ phase' \in [Callers -> Steps]
        /\ outcome' = [outcome EXCEPT ![c] = Outcome("workerError", on[c])]
        /\ phase'[c] = "done" /\ outcome'[c] = Outcome("workerError", on[c])
        /\ \A d \in Callers \ {c} : phase'[d] = phase[d] /\ outcome'[d] = outcome[d]
    BY <1>7 DEF EndCall, PoolIInv, PoolTypeOK, Steps
  <2>3. PoolTypeOK'
    BY <1>2, <1>7, <2>2 DEF PoolIInv, PoolTypeOK
  <2>4. ASSUME NEW w \in Workers PROVE WorkerInv(w)'
    <3>1. Served(w)'
      BY <1>1, <1>4, <1>7, <2>2, ServedKept DEF Served
    <3>2. /\ worker' = worker /\ isolate' = isolate /\ toWorker' = toWorker
          /\ toMain' = toMain /\ made' = made
      BY <1>2, <1>7
    <3>3. Ready(worker[w]) /\ Queued(w) /\ Told(w) /\ Dead(w) /\ Unbuilt(w)
      BY OneWorker
    <3>4. Queued(w)' /\ Told(w)'
      BY <3>2, <3>3 DEF Queued, Told, Matched
    <3>5. Ready(worker'[w]) /\ Dead(w)' /\ Unbuilt(w)'
      BY <3>2, <3>3 DEF Dead, Unbuilt
    <3> QED BY <3>1, <3>2, <3>4, <3>5 DEF WorkerInv
  <2>5. ASSUME NEW d \in Callers PROVE CallInv(d)'
    <3>1. CallInv(d)
      BY DEF PoolIInv
    <3>2. CASE d # c
      BY <1>2, <1>7, <2>2, <3>1, <3>2 DEF CallInv, Answer, Replacement
    <3>3. CASE d = c
      <4>1. Answer(c)'
        BY <1>1, <1>2, <2>2 DEF Answer, Outcome
      <4>2. Replacement(c)'
        BY <2>2 DEF Replacement
      <4> QED BY <1>2, <1>7, <3>1, <3>3, <4>1, <4>2 DEF CallInv
    <3> QED BY <3>2, <3>3
  <2>6. PoolFilled'
    BY <1>2, <1>7 DEF PoolFilled, PoolIInv
  <2>7. Replacing' = Replacing \ {c}
    BY <2>2 DEF Replacing
  <2>8. Lost' \subseteq Lost
    <3> SUFFICES ASSUME NEW w \in Lost' PROVE w \in Lost
      OBVIOUS
    <3>1. w \in Workers /\ isolate[w] \in Alive /\ w \notin ToSet(instances) \cup ToSet(starting)
      BY <1>2, <1>7 DEF Lost, Alive
    <3>2. w # on[c]
      BY <2>1, <3>1 DEF Alive
    <3>3. \A d \in Callers : phase[d] = "replacing" => on[d] # w
      BY <1>7, <2>2, <3>2 DEF Lost
    <3> QED BY <3>1, <3>3 DEF Lost, Alive
  <2>9. Cardinality(Lost') <= Cardinality(Lost) /\ Cardinality(Lost') \in Nat
    BY <2>8, LostIsFinite, FS_Subset, FS_CardinalityType
  <2>10. LastRuns' = LastRuns
    BY <1>2, <1>7 DEF LastRuns
  <2>11. Counted'
    BY <1>2, <1>3, <1>5, <1>6, <2>7, <2>9, <2>10, LostIsFinite DEF Counted
  <2> QED BY <2>3, <2>4, <2>5, <2>6, <2>11 DEF PoolIInv
<1>8. CASE instances' = [instances EXCEPT ![at[c]] = on[c]] /\ ExecuteOn(c, on[c])
  <2> DEFINE w == on[c]
             old == instances[Size]
  <2>1. w \in Workers /\ w <= made /\ w \notin stale'[c]
    BY <1>1, <1>2 DEF PoolIInv, PoolTypeOK
  <2>2. /\ instances \in Seq(Built) /\ Len(instances) = Size /\ DOMAIN instances = 1 .. Size
        /\ old \in Workers
    BY <1>1, PoolIsFull
  <2>3. /\ instances' \in Seq(Built) /\ Len(instances') = Size
        /\ \A j \in 1 .. Size : instances'[j] = IF j = Size THEN w ELSE instances[j]
    BY <1>1, <1>8, <2>2, ExceptSeq
  <2> HIDE DEF w
  <2>4. ExecuteOn(c, w)
    BY <1>8 DEF w
  <2>5. /\ DOMAIN worker' = Workers /\ \A v \in Workers : IsWorker(worker'[v]) /\ WorkerInv(v)'
        /\ toWorker' \in [Workers -> Seq(Tasks)] /\ phase' \in [Callers -> Steps]
        /\ DOMAIN on' = Callers /\ DOMAIN outcome' = Callers
        /\ \A d \in Callers : CallInv(d)'
        /\ Replacing' = Replacing \ {c}
        /\ \A d \in Callers \ {c} : on'[d] = on[d]
    BY <1>1, <1>2, <1>4, <2>1, <2>4, ExecuteOnKeeps
  <2>6. PoolTypeOK'
    BY <1>2, <2>3, <2>5 DEF PoolIInv, PoolTypeOK
  <2>7. PoolFilled'
    BY <1>1, <1>2, <2>3 DEF PoolFilled, PoolIInv
  <2>8. /\ ToSet(instances) = {instances[i] : i \in 1 .. Size}
        /\ ToSet(instances') = {instances'[i] : i \in 1 .. Size}
    BY <2>2, <2>3, ToSetIs
  <2>9. Lost' \subseteq Lost \cup (IF isolate[old] \in Alive THEN {old} ELSE {})
    <3> SUFFICES ASSUME NEW v \in Lost', v # old \/ isolate[old] \notin Alive
                 PROVE  v \in Lost
      OBVIOUS
    <3>1. v \in Workers /\ isolate[v] \in Alive /\ v \notin ToSet(instances') \cup ToSet(starting)
      BY <1>2 DEF Lost, Alive
    <3>2. v # w
      BY <2>3, <2>8, <3>1
    <3>3. v \notin ToSet(instances)
      BY <2>3, <2>8, <3>1
    <3>4. \A d \in Replacing' : on'[d] # v
      BY DEF Lost, Replacing
    <3>5. \A d \in Replacing : on[d] # v
      BY <2>5, <3>2, <3>4 DEF w, Replacing
    <3> QED BY <3>1, <3>3, <3>5 DEF Lost, Alive, Replacing
  <2>10. LastRuns = IF isolate[old] \in Alive THEN 1 ELSE 0
    <3>1. instances # <<>>
      BY <2>2
    <3> QED BY <3>1 DEF LastRuns
  <2>11. /\ Cardinality(Lost') <= Cardinality(Lost) + LastRuns
         /\ Cardinality(Lost') \in Nat
    <3> DEFINE More == Lost \cup (IF isolate[old] \in Alive THEN {old} ELSE {})
    <3>1. IsFiniteSet(More) /\ Cardinality(More) <= Cardinality(Lost) + LastRuns
      <4>1. CASE isolate[old] \in Alive
        <5>1. More = Lost \cup {old} /\ LastRuns = 1
          BY <2>10, <4>1
        <5>2. /\ IsFiniteSet(Lost \cup {old})
              /\ Cardinality(Lost \cup {old}) <= Cardinality(Lost) + 1
          <6>1. /\ IsFiniteSet(Lost \cup {old})
                /\ Cardinality(Lost \cup {old}) =
                     IF old \in Lost THEN Cardinality(Lost) ELSE Cardinality(Lost) + 1
            BY LostIsFinite, FS_AddElement, Zenon
          <6> QED BY <6>1, LostIsFinite
        <5> HIDE DEF More
        <5> QED BY <5>1, <5>2, Zenon
      <4>2. CASE isolate[old] \notin Alive
        <5>1. More = Lost /\ LastRuns = 0
          BY <2>10, <4>2
        <5> QED BY <5>1, LostIsFinite
      <4> QED BY <4>1, <4>2
    <3>2. Lost' \in SUBSET More
      BY <2>9
    <3> HIDE DEF More
    <3>3. Cardinality(Lost') <= Cardinality(More) /\ Cardinality(Lost') \in Nat
          /\ Cardinality(More) \in Nat
      BY <3>1, <3>2, FS_Subset, FS_CardinalityType
    <3> QED BY <1>6, <3>1, <3>3, LostIsFinite
  <2>12. Counted'
    BY <1>2, <1>3, <1>5, <1>6, <2>5, <2>11, LostIsFinite, SMTT(30) DEF Counted
  <2> QED BY <2>5, <2>6, <2>7, <2>12 DEF PoolIInv
<1> QED BY <1>7, <1>8 DEF Replaced

LEMMA SameWorkers ==
  ASSUME PoolIInv, UNCHANGED <<worker, isolate, toWorker, toMain, made, phase, stale>>,
         NEW w \in Workers
  PROVE  WorkerInv(w)'
<1>1. Keeps(w)
  BY Untouched
<1>2. Served(w)'
  BY OneWorker DEF Served
<1> QED BY <1>1, <1>2 DEF Keeps, LosesTasks, WorkerInv, Ready

LEMMA InitContinuesKeeps ==
  ASSUME PoolIInv, InitContinues
  PROVE  PoolIInv'
<1>1. /\ init = "running" /\ Len(starting) \in 1 .. Size /\ instances = <<>>
      /\ UNCHANGED <<worker, toWorker, toMain, phase, on, at, outcome, overlaps, stale>>
  BY DEF InitContinues, PoolIInv, PoolFilled
<1>2. /\ starting \in Seq(Built) /\ made \in 0 .. MaxWorkers
      /\ phase \in [Callers -> Steps] /\ stale \in [Callers -> SUBSET Workers]
  BY DEF PoolIInv, PoolTypeOK
<1>3. CASE /\ Len(starting) < Size /\ Construct /\ starting' = Append(starting, made + 1)
           /\ UNCHANGED <<init, instances>>
  <2>1. /\ made' = made + 1 /\ made' \in 1 .. made'
        /\ starting \in Seq(1 .. made')
    BY <1>1, <1>2, <1>3, ConstructKeeps
  <2>2. /\ starting' \in Seq(1 .. made') /\ Len(starting') = Len(starting) + 1
        /\ \A j \in 1 .. Len(starting) : starting'[j] = starting[j]
        /\ starting'[Len(starting) + 1] = made'
    BY <1>3, <2>1, AppendOf
  <2>3. ToSet(starting') = ToSet(starting) \cup {made'}
    <3>1. /\ ToSet(starting) = {starting[i] : i \in 1 .. Len(starting)}
          /\ ToSet(starting') = {starting'[i] : i \in 1 .. Len(starting')}
      BY <2>1, <2>2, ToSetIs
    <3>2. \A i \in 1 .. Len(starting') : i \in 1 .. Len(starting) \/ i = Len(starting) + 1
      BY <1>1, <2>2
    <3>3. \A i \in 1 .. Len(starting) : i \in 1 .. Len(starting')
      BY <1>1, <2>2
    <3>4. Len(starting) + 1 \in 1 .. Len(starting')
      BY <1>1, <2>2
    <3> QED BY <2>2, <3>1, <3>2, <3>3, <3>4
  <2> QED BY <1>1, <1>2, <1>3, <2>2, <2>3, StartKeeps
<1>4. CASE /\ Len(starting) >= Size /\ init' = "done" /\ instances' = starting /\ starting' = <<>>
           /\ UNCHANGED <<made, isolate>>
  <2>1. starting' \in Seq(Built)
    BY <1>4, EmptySeq
  <2>2. PoolTypeOK'
    BY <1>1, <1>4, <2>1 DEF PoolIInv, PoolTypeOK
  <2>3. ASSUME NEW w \in Workers PROVE WorkerInv(w)'
    BY <1>1, <1>4, SameWorkers
  <2>4. ASSUME NEW c \in Callers PROVE CallInv(c)'
    BY <1>1, <1>4 DEF PoolIInv, CallInv, Answer, Replacement
  <2>5. PoolFilled'
    BY <1>1, <1>4 DEF PoolFilled
  <2>6. Replacing = {} /\ Replacing' = {}
    BY <1>1 DEF Replacing, PoolIInv, CallInv, Replacement
  <2>7. Lost' \subseteq Lost
    <3>1. ToSet(instances) = {}
      <4>1. ToSet(instances) = {instances[i] : i \in 1 .. Len(instances)}
        BY ToSetIs DEF PoolIInv, PoolTypeOK
      <4>2. Len(instances) = 0
        BY <1>1
      <4> QED BY <4>1, <4>2
    <3> QED BY <1>4, <2>6, <3>1 DEF Lost, Replacing
  <2>8. Counted'
    BY <1>1, <2>6, <2>7, CountedKept DEF PoolIInv, PoolTypeOK
  <2> QED BY <2>2, <2>3, <2>4, <2>5, <2>8 DEF PoolIInv
<1> QED BY <1>1, <1>3, <1>4 DEF InitContinues

LEMMA InitFailsKeeps ==
  ASSUME PoolIInv, InitFails
  PROVE  PoolIInv'
<1> DEFINE started == ToSet(Front(starting))
<1>1. /\ init = "running" /\ worker[Last(starting)].ready = "error" /\ init' = "none"
      /\ starting' = <<>> /\ UNCHANGED <<instances, made, on, at, overlaps, stale>>
      /\ worker' = [w \in Workers |-> IF w \in started THEN Closed(w, FALSE) ELSE worker[w]]
      /\ isolate' = [w \in Workers |-> IF w \in started THEN "gone" ELSE isolate[w]]
      /\ toWorker' = [w \in Workers |-> IF w \in started THEN <<>> ELSE toWorker[w]]
      /\ toMain' = [w \in Workers |-> IF w \in started THEN <<>> ELSE toMain[w]]
      /\ phase' = [c \in Callers |-> IF phase[c] = "init" THEN "done" ELSE phase[c]]
      /\ outcome' = [c \in Callers |-> IF phase[c] = "init" THEN Outcome("initError", Null)
                                       ELSE outcome[c]]
  BY DEF InitFails, Kill, InitError
<1>2. /\ starting \in Seq(Built) /\ Len(starting) \in 1 .. Size /\ instances = <<>>
      /\ made \in 0 .. MaxWorkers
  BY <1>1 DEF PoolIInv, PoolTypeOK, PoolFilled
<1>3. /\ started \subseteq Built
      /\ ToSet(starting) \subseteq started \cup {Last(starting)}
      /\ Last(starting) \in Workers
  <2>1. \A i \in 1 .. Len(starting) : starting[i] \in Built
    BY <1>2, ElementOfSeq
  <2>2. /\ Front(starting) \in Seq(Built) /\ Len(Front(starting)) = Len(starting) - 1
        /\ \A i \in 1 .. Len(starting) - 1 : Front(starting)[i] = starting[i]
    BY <1>2, FrontOf
  <2>3. /\ started = {Front(starting)[i] : i \in 1 .. Len(starting) - 1} /\ started \subseteq Built
        /\ ToSet(starting) = {starting[i] : i \in 1 .. Len(starting)}
    BY <1>2, <2>2, ToSetIs, SMTT(30)
  <2>4. Last(starting) = starting[Len(starting)]
    BY DEF Last
  <2>5. \A i \in 1 .. Len(starting) : i \in 1 .. Len(starting) - 1 \/ i = Len(starting)
    BY <1>2
  <2>6. Len(starting) \in 1 .. Len(starting)
    BY <1>2
  <2>7. ASSUME NEW i \in 1 .. Len(starting) PROVE starting[i] \in started \cup {Last(starting)}
    BY <2>2, <2>3, <2>4, <2>5
  <2>8. ToSet(starting) \subseteq started \cup {Last(starting)}
    BY <2>3, <2>7
  <2>9. Last(starting) \in Workers
    BY <1>2, <2>1, <2>4, <2>6
  <2> QED BY <2>3, <2>8, <2>9
<1> HIDE DEF started
<1>4. isolate[Last(starting)] = "gone"
  BY <1>1, <1>3, OneWorker DEF Ready, Dead
<1>5. ASSUME NEW w \in Workers, w \in started
      PROVE  /\ IsWorker(worker'[w]) /\ Ready(worker'[w]) /\ Follows(worker[w], worker'[w])
             /\ DOMAIN worker'[w].tasks = {} /\ isolate'[w] = "gone" /\ w <= made
             /\ toWorker'[w] = <<>> /\ toMain'[w] = <<>>
  <2>1. worker'[w] = Closed(w, FALSE)
    BY <1>1, <1>5
  <2>2. isolate'[w] = "gone" /\ toWorker'[w] = <<>> /\ toMain'[w] = <<>> /\ w <= made
    BY <1>1, <1>2, <1>3, <1>5
  <2> QED BY <2>1, <2>2, WasClosed, OneWorker
<1>6. ASSUME NEW w \in Workers, w \notin started
      PROVE  /\ worker'[w] = worker[w] /\ isolate'[w] = isolate[w]
             /\ toWorker'[w] = toWorker[w] /\ toMain'[w] = toMain[w]
  BY <1>1, <1>6
<1>7. ASSUME NEW w \in Workers PROVE IsWorker(worker'[w]) /\ Follows(worker[w], worker'[w])
  BY <1>5, <1>6, OneWorker, SameWorker DEF LosesTasks
<1>8. phase' \in [Callers -> Steps] /\ DOMAIN outcome' = Callers
  <2>1. phase \in [Callers -> Steps]
    BY DEF PoolIInv, PoolTypeOK
  <2> QED BY <1>1, <2>1 DEF Steps
<1>9. /\ toWorker' \in [Workers -> Seq(Tasks)] /\ toMain' \in [Workers -> Seq(Messages)]
      /\ isolate' \in [Workers -> Alive \cup {"none", "gone"}] /\ DOMAIN worker' = Workers
      /\ starting' \in Seq(Built)
  BY <1>1, EmptySeq DEF PoolIInv, PoolTypeOK
<1>10. PoolTypeOK'
  BY <1>1, <1>7, <1>8, <1>9 DEF PoolIInv, PoolTypeOK
<1>11. ASSUME NEW w \in Workers PROVE WorkerInv(w)'
  <2>1. CASE w \in started
    <3>1. Queued(w)' /\ Told(w)'
      BY <1>5, <2>1, NothingQueued
    <3>2. Served(w)' /\ Dead(w)' /\ Unbuilt(w)'
      <4>1. DOMAIN worker'[w].tasks = {} /\ isolate'[w] = "gone" /\ w <= made /\ made' = made
        BY <1>1, <1>5, <2>1
      <4> QED BY <1>2, <4>1 DEF Served, Dead, Unbuilt
    <3> QED BY <1>5, <2>1, <3>1, <3>2 DEF WorkerInv, Ready
  <2>2. CASE w \notin started
    <3>1. Keeps(w)
      BY <1>1, <1>6, <2>2, Untouched
    <3>2. Served(w)'
      <4>1. SUFFICES ASSUME NEW id \in DOMAIN worker[w].tasks
                     PROVE  /\ phase'[worker[w].tasks[id]] \in {"waiting", "done"}
                            /\ w \notin stale[worker[w].tasks[id]]
        BY <1>1, <1>6, <2>2 DEF Served
      <4>2. /\ phase[worker[w].tasks[id]] \in {"waiting", "done"}
            /\ w \notin stale[worker[w].tasks[id]] /\ worker[w].tasks[id] \in Callers
        BY OneWorker DEF Served, IsWorker
      <4> QED BY <1>1, <4>2
    <3> QED BY <3>1, <3>2 DEF Keeps, LosesTasks, WorkerInv, Ready
  <2> QED BY <2>1, <2>2
<1>12. ASSUME NEW c \in Callers PROVE CallInv(c)' /\ phase[c] # "replacing" /\ phase'[c] # "replacing"
  <2>1. CallInv(c) /\ phase[c] # "replacing" /\ stale[c] \in SUBSET Workers
    BY <1>1 DEF PoolIInv, PoolTypeOK, CallInv, Replacement
  <2>2. phase'[c] # "replacing"
    BY <1>1, <2>1
  <2>3. Answer(c)'
    BY <1>1, <2>1 DEF CallInv, Answer, Outcome
  <2>4. \A v \in stale[c] : worker'[v].failed
    BY <1>7, <2>1 DEF CallInv, Follows
  <2> QED BY <1>1, <2>1, <2>2, <2>3, <2>4 DEF CallInv, Replacement
<1>13. PoolFilled'
  BY <1>1, <1>2 DEF PoolFilled
<1>14. Replacing = {} /\ Replacing' = {}
  BY <1>12 DEF Replacing
<1>15. Lost' \subseteq Lost
  <2> SUFFICES ASSUME NEW w \in Lost' PROVE w \in Lost
    OBVIOUS
  <2>1. w \in Workers /\ isolate'[w] \in Alive /\ w \notin ToSet(instances)
    BY <1>1 DEF Lost, Alive
  <2>2. w \notin started /\ isolate[w] \in Alive
    BY <1>5, <1>6, <2>1 DEF Alive
  <2>3. w # Last(starting)
    BY <1>4, <2>2 DEF Alive
  <2>4. w \notin ToSet(starting)
    BY <1>3, <2>2, <2>3
  <2> QED BY <1>14, <2>1, <2>2, <2>4 DEF Lost, Alive, Replacing
<1>16. Counted'
  BY <1>1, <1>14, <1>15, CountedKept DEF PoolIInv, PoolTypeOK
<1> QED BY <1>10, <1>11, <1>12, <1>13, <1>16 DEF PoolIInv

LEMMA PoolInitHolds == PoolInit => PoolIInv
<1> SUFFICES ASSUME PoolInit PROVE PoolIInv
  OBVIOUS
<1> USE DEF PoolInit
<1>1. IsWorker(Fresh) /\ Ready(Fresh) /\ DOMAIN Fresh.tasks = {} /\ ~Fresh.closed /\ ~Fresh.failed
  BY DEF IsWorker, Ready, Fresh
<1>2. PoolTypeOK
  <2>1. instances \in Seq(Built) /\ starting \in Seq(Built) /\ <<>> \in Seq(Tasks)
        /\ <<>> \in Seq(Messages)
    BY EmptySeq
  <2>2. Cardinality(Callers) \in Nat /\ made \in 0 .. MaxWorkers
    BY FS_CardinalityType
  <2> QED BY <1>1, <2>1, <2>2 DEF PoolTypeOK, Steps
<1>3. ASSUME NEW w \in Workers PROVE WorkerInv(w)
  <2>1. worker[w] = Fresh /\ toWorker[w] = <<>> /\ toMain[w] = <<>> /\ isolate[w] = "none"
    OBVIOUS
  <2>2. Queued(w) /\ Told(w)
    BY <2>1 DEF Queued, Told
  <2>3. Ready(worker[w]) /\ Served(w) /\ Dead(w) /\ Unbuilt(w)
    BY <1>1, <2>1 DEF Served, Dead, Unbuilt
  <2> QED BY <2>2, <2>3 DEF WorkerInv
<1>4. ASSUME NEW c \in Callers PROVE CallInv(c)
  BY DEF CallInv, Answer, Replacement
<1>5. PoolFilled
  BY DEF PoolFilled
<1>6. Counted
  <2>1. Lost = {} /\ Replacing = {}
    BY DEF Lost, Replacing
  <2>2. Cardinality(Lost) = 0
    BY <2>1, FS_EmptySet, Zenon
  <2> QED BY <2>1, <2>2 DEF Counted
<1> QED BY <1>2, <1>3, <1>4, <1>5, <1>6 DEF PoolIInv

LEMMA PoolStepKeeps == PoolIInv /\ [PoolNext]_poolVars => PoolIInv'
<1>1. ASSUME PoolIInv, PoolNext PROVE PoolIInv'
  <2>1. ASSUME NEW c \in Callers, Execute(c) \/ Continue(c) PROVE PoolIInv'
    BY <1>1, <2>1, ExecuteKeeps, ResumeKeeps, ReplacedKeeps, TaskTimeoutKeeps DEF Continue
  <2>2. CASE Initialise
    BY <1>1, <2>2, InitContinuesKeeps, InitFailsKeeps DEF Initialise
  <2>3. ASSUME NEW w \in Workers, Watch(w) \/ Run(w) PROVE PoolIInv'
    BY <1>1, <2>3, SpawnedKeeps, ReadyTimeoutKeeps, OnMessageKeeps, RunKeeps DEF Watch
  <2> QED BY <1>1, <2>1, <2>2, <2>3 DEF PoolNext
<1>2. ASSUME PoolIInv, UNCHANGED poolVars PROVE PoolIInv'
  <2> USE <1>2 DEF poolVars
  <2>1. PoolTypeOK'
    BY DEF PoolIInv, PoolTypeOK
  <2>2. \A w \in Workers : WorkerInv(w)'
    BY SameWorkers
  <2>3. \A c \in Callers : CallInv(c)'
    BY DEF PoolIInv, CallInv, Answer, Replacement
  <2>4. PoolFilled'
    BY DEF PoolIInv, PoolFilled
  <2>5. Replacing' = Replacing /\ Lost' \subseteq Lost /\ LastRuns' <= LastRuns
    BY DEF Replacing, Lost, LastRuns
  <2>6. Counted'
    BY <2>5, CountedKept DEF PoolIInv, PoolTypeOK
  <2> QED BY <2>1, <2>2, <2>3, <2>4, <2>6 DEF PoolIInv
<1> QED BY <1>1, <1>2

-----------------------------------------------------------------------------
(* The calls that wait, and what they wait for. *)

\* A pending task is that of a call that waits on this worker, which has no other task.
TaskIsOwn(w, id) ==
  /\ phase[worker[w].tasks[id]] = "waiting" /\ on[worker[w].tasks[id]] = w
  /\ \A j \in DOMAIN worker[w].tasks : worker[w].tasks[j] = worker[w].tasks[id] => j = id

\* A call that waits has its task, and with it the timer, on the worker it was given.
HasTask(c) ==
  /\ init = "done" /\ on[c] \in Workers
  /\ \E id \in DOMAIN worker[on[c]].tasks : worker[on[c]].tasks[id] = c

Paired ==
  /\ \A w \in Workers : \A id \in DOMAIN worker[w].tasks : TaskIsOwn(w, id)
  /\ \A c \in Callers : phase[c] = "waiting" => HasTask(c)

\* What a step may do to the calls that have ended: nothing.
EndedStay ==
  \A c \in Callers : phase[c] = "done" => phase'[c] = "done" /\ outcome'[c] = outcome[c]

\* Tasks only go, each with its call.
LEMMA PairedLess ==
  ASSUME PoolIInv, Paired, init = "done" => init' = "done",
         \A c \in Callers : phase'[c] = "waiting" => phase[c] = "waiting" /\ on'[c] = on[c],
         \A w \in Workers : \A id \in DOMAIN worker'[w].tasks :
            /\ id \in DOMAIN worker[w].tasks /\ worker'[w].tasks[id] = worker[w].tasks[id]
            /\ phase'[worker[w].tasks[id]] = "waiting",
         \A w \in Workers : \A id \in DOMAIN worker[w].tasks :
            phase'[worker[w].tasks[id]] = "waiting" =>
               id \in DOMAIN worker'[w].tasks /\ worker'[w].tasks[id] = worker[w].tasks[id]
  PROVE  Paired'
<1>1. ASSUME NEW w \in Workers, NEW id \in DOMAIN worker'[w].tasks PROVE TaskIsOwn(w, id)'
  <2>1. /\ id \in DOMAIN worker[w].tasks /\ worker'[w].tasks[id] = worker[w].tasks[id]
        /\ phase'[worker[w].tasks[id]] = "waiting"
    OBVIOUS
  <2>2. TaskIsOwn(w, id) /\ worker[w].tasks[id] \in Callers
    BY <2>1, OneWorker DEF Paired, IsWorker
  <2>3. on'[worker[w].tasks[id]] = w
    BY <2>1, <2>2 DEF TaskIsOwn
  <2>4. \A j \in DOMAIN worker'[w].tasks : worker'[w].tasks[j] = worker'[w].tasks[id] => j = id
    BY <2>1, <2>2 DEF TaskIsOwn
  <2> QED BY <2>1, <2>3, <2>4 DEF TaskIsOwn
<1>2. ASSUME NEW c \in Callers, phase'[c] = "waiting" PROVE HasTask(c)'
  <2>1. phase[c] = "waiting" /\ on'[c] = on[c] /\ HasTask(c)
    BY <1>2 DEF Paired
  <2>2. PICK id \in DOMAIN worker[on[c]].tasks : worker[on[c]].tasks[id] = c
    BY <2>1 DEF HasTask
  <2>3. id \in DOMAIN worker'[on[c]].tasks /\ worker'[on[c]].tasks[id] = c
    BY <1>2, <2>1, <2>2 DEF HasTask
  <2> QED BY <2>1, <2>3 DEF HasTask
<1> QED BY <1>1, <1>2 DEF Paired

\* Nothing happens to the tasks, nor to the calls that wait.
LEMMA PairedSame ==
  ASSUME PoolIInv, Paired, init = "done" => init' = "done",
         \A c \in Callers : phase'[c] = "waiting" => phase[c] = "waiting",
         \A c \in Callers : phase[c] = "waiting" => phase'[c] = "waiting" /\ on'[c] = on[c],
         \A w \in Workers : worker'[w].tasks = worker[w].tasks
  PROVE  Paired'
<1>1. \A w \in Workers : \A id \in DOMAIN worker[w].tasks : phase'[worker[w].tasks[id]] = "waiting"
  BY OneWorker DEF Paired, TaskIsOwn, IsWorker
<1> QED BY <1>1, PairedLess

\* A call gets its task.
LEMMA PairedMore ==
  ASSUME PoolIInv, Paired, init = "done", init' = init, NEW c \in Callers, NEW w \in Workers,
         phase[c] # "waiting", on'[c] = w,
         worker'[w] = Given(worker[w], c), \A v \in Workers \ {w} : worker'[v] = worker[v],
         \A d \in Callers \ {c} : phase'[d] = phase[d] /\ on'[d] = on[d],
         phase'[c] = "waiting"
  PROVE  Paired'
<1> DEFINE n == worker[w].counter
<1>1. /\ IsWorker(worker[w]) /\ Ready(worker[w])
      /\ \A v \in Workers : \A id \in DOMAIN worker[v].tasks : worker[v].tasks[id] \in Callers \ {c}
  <2>1. IsWorker(worker[w]) /\ Ready(worker[w])
    BY OneWorker
  <2>2. ASSUME NEW v \in Workers, NEW id \in DOMAIN worker[v].tasks
        PROVE  worker[v].tasks[id] \in Callers /\ worker[v].tasks[id] # c
    <3>1. IsWorker(worker[v]) /\ TaskIsOwn(v, id)
      BY OneWorker DEF Paired
    <3> QED BY <3>1 DEF IsWorker, TaskIsOwn
  <2> QED BY <2>1, <2>2
<1>2. /\ DOMAIN worker'[w].tasks = DOMAIN worker[w].tasks \cup {n} /\ n \notin DOMAIN worker[w].tasks
      /\ worker'[w].tasks[n] = c
      /\ \A id \in DOMAIN worker[w].tasks : worker'[w].tasks[id] = worker[w].tasks[id]
  <2>1. worker'[w].tasks = Put(worker[w].tasks, n, c)
    BY <1>1 DEF Given, IsWorker
  <2>2. n \notin DOMAIN worker[w].tasks
    BY <1>1 DEF IsWorker
  <2> DEFINE f == worker[w].tasks
             g == worker'[w].tasks
  <2>3. g = [i \in DOMAIN f \cup {n} |-> IF i = n THEN c ELSE f[i]]
    BY <2>1 DEF Put
  <2> HIDE DEF n, f, g
  <2>4. DOMAIN g = DOMAIN f \cup {n} /\ \A i \in DOMAIN f \cup {n} : g[i] = IF i = n THEN c ELSE f[i]
    BY <2>3
  <2>5. g[n] = c /\ (n \notin DOMAIN f => \A id \in DOMAIN f : g[id] = f[id])
    BY <2>4
  <2> QED BY <2>2, <2>4, <2>5 DEF f, g
<1> HIDE DEF n
<1>3. ASSUME NEW v \in Workers, NEW id \in DOMAIN worker'[v].tasks PROVE TaskIsOwn(v, id)'
  <2>1. CASE v = w /\ id = n
    BY <1>1, <1>2, <2>1 DEF TaskIsOwn
  <2>2. CASE ~(v = w /\ id = n)
    <3>1. id \in DOMAIN worker[v].tasks /\ worker'[v].tasks[id] = worker[v].tasks[id]
      BY <1>2, <2>2
    <3>2. TaskIsOwn(v, id) /\ worker[v].tasks[id] \in Callers \ {c}
      BY <1>1, <3>1 DEF Paired
    <3>3. \A j \in DOMAIN worker'[v].tasks : worker'[v].tasks[j] = worker'[v].tasks[id] => j = id
      <4> SUFFICES ASSUME NEW j \in DOMAIN worker'[v].tasks,
                          worker'[v].tasks[j] = worker'[v].tasks[id]
                   PROVE  j = id
        OBVIOUS
      <4>1. j \in DOMAIN worker[v].tasks /\ worker'[v].tasks[j] = worker[v].tasks[j]
        BY <1>2, <3>1, <3>2
      <4> QED BY <3>1, <3>2, <4>1 DEF TaskIsOwn
    <3> QED BY <3>1, <3>2, <3>3 DEF TaskIsOwn
  <2> QED BY <2>1, <2>2
<1>4. ASSUME NEW d \in Callers, phase'[d] = "waiting" PROVE HasTask(d)'
  <2>1. CASE d = c
    BY <1>2, <2>1 DEF HasTask
  <2>2. CASE d # c
    <3>1. phase[d] = "waiting" /\ on'[d] = on[d] /\ HasTask(d)
      BY <1>4, <2>2 DEF Paired
    <3>2. PICK id \in DOMAIN worker[on[d]].tasks : worker[on[d]].tasks[id] = d
      BY <3>1 DEF HasTask
    <3>3. on[d] \in Workers
      BY <3>1 DEF HasTask
    <3>4. id \in DOMAIN worker'[on[d]].tasks /\ worker'[on[d]].tasks[id] = d
      BY <1>2, <3>2, <3>3
    <3> QED BY <3>1, <3>3, <3>4 DEF HasTask
  <2> QED BY <2>1, <2>2
<1> QED BY <1>3, <1>4 DEF Paired

LEMMA PairedAtExecuteOn ==
  ASSUME PoolIInv, Paired, init = "done", init' = init, NEW c \in Callers, NEW w \in Workers,
         ExecuteOn(c, w), phase[c] \notin {"waiting", "done"}
  PROVE  Paired' /\ EndedStay
<1>1. /\ DOMAIN worker = Workers /\ phase \in [Callers -> Steps]
      /\ DOMAIN on = Callers /\ DOMAIN outcome = Callers
  BY DEF PoolIInv, PoolTypeOK
<1>2. /\ \A d \in Callers \ {c} : phase'[d] = phase[d] /\ outcome'[d] = outcome[d] /\ on'[d] = on[d]
      /\ \A v \in Workers \ {w} : worker'[v] = worker[v]
      /\ on'[c] = w
  BY <1>1 DEF ExecuteOn, EndCall
<1>3. EndedStay
  BY <1>2 DEF EndedStay
<1>4. \/ worker'[w] = worker[w] /\ phase'[c] = "done"
      \/ worker'[w] = [worker[w] EXCEPT !.counter = @ + 1] /\ phase'[c] = "done"
      \/ worker'[w] = Given(worker[w], c) /\ phase'[c] = "waiting"
  BY <1>1 DEF ExecuteOn, EndCall, TaskId, Given
<1>5. CASE worker'[w] = Given(worker[w], c) /\ phase'[c] = "waiting"
  BY <1>2, <1>3, <1>5, PairedMore
<1>6. ASSUME worker'[w].tasks = worker[w].tasks, phase'[c] = "done" PROVE Paired'
  BY <1>2, <1>6, PairedSame
<1>7. CASE worker'[w] = [worker[w] EXCEPT !.counter = @ + 1] /\ phase'[c] = "done"
  <2>1. worker'[w].tasks = worker[w].tasks
    BY <1>7, OneWorker, TaskSkipped
  <2> QED BY <1>3, <1>6, <1>7, <2>1
<1> QED BY <1>3, <1>4, <1>5, <1>6, <1>7

LEMMA PairedAtChosen ==
  ASSUME PoolIInv, Paired, init = "done", init' = init, NEW c \in Callers, Chosen(c),
         phase[c] \in {"new", "init"}
  PROVE  Paired' /\ EndedStay
<1>1. /\ phase \in [Callers -> Steps] /\ DOMAIN on = Callers
      /\ instances[Select] \in Workers
  BY SelectPicks, PoolIsFull DEF PoolIInv, PoolTypeOK
<1>2. CASE ExecuteOn(c, instances[Select])
  BY <1>1, <1>2, PairedAtExecuteOn
<1>3. CASE Replace(c)
  <2>1. /\ worker' = worker /\ outcome' = outcome /\ phase'[c] = "replacing"
        /\ \A d \in Callers \ {c} : phase'[d] = phase[d] /\ on'[d] = on[d]
    BY <1>1, <1>3 DEF Replace
  <2>2. Paired'
    BY <2>1, PairedSame
  <2> QED BY <2>1, <2>2 DEF EndedStay
<1> QED BY <1>2, <1>3 DEF Chosen

LEMMA PairedAtExecute ==
  ASSUME PoolIInv, Paired, NEW c \in Callers, Execute(c)
  PROVE  Paired' /\ EndedStay
<1>1. phase[c] = "new" /\ phase \in [Callers -> Steps]
  BY DEF Execute, PoolIInv, PoolTypeOK
<1>2. CASE init = "done" /\ Chosen(c) /\ UNCHANGED <<init, starting>>
  BY <1>1, <1>2, PairedAtChosen
<1>3. CASE /\ init # "done" /\ phase' = [phase EXCEPT ![c] = "init"]
           /\ UNCHANGED <<worker, on, outcome>>
  <2>1. phase'[c] = "init" /\ \A d \in Callers \ {c} : phase'[d] = phase[d]
    BY <1>1, <1>3
  <2>2. Paired'
    BY <1>1, <1>3, <2>1, PairedSame
  <2> QED BY <1>1, <1>3, <2>1, <2>2 DEF EndedStay
<1> QED BY <1>2, <1>3 DEF Execute

LEMMA PairedAtInit ==
  ASSUME PoolIInv, Paired, Initialise
  PROVE  Paired' /\ EndedStay
<1>1. CASE InitContinues
  <2>1. UNCHANGED <<worker, phase, on, outcome>> /\ init # "done"
    BY <1>1 DEF InitContinues
  <2> QED BY <2>1, PairedSame DEF EndedStay
<1>2. CASE InitFails
  <2>1. /\ init # "done" /\ on' = on
        /\ phase' = [c \in Callers |-> IF phase[c] = "init" THEN "done" ELSE phase[c]]
        /\ outcome' = [c \in Callers |-> IF phase[c] = "init" THEN Outcome("initError", Null)
                                         ELSE outcome[c]]
        /\ \A w \in Workers : worker'[w] = Closed(w, FALSE) \/ worker'[w] = worker[w]
    BY <1>2 DEF InitFails, InitError
  <2>2. \A c \in Callers : phase[c] # "waiting"
    BY <2>1 DEF Paired, HasTask
  <2>3. ASSUME NEW w \in Workers PROVE DOMAIN worker[w].tasks = {} /\ DOMAIN worker'[w].tasks = {}
    <3>1. IsWorker(worker[w]) /\ Ready(worker[w])
      BY OneWorker
    <3>2. DOMAIN worker[w].tasks = {}
      <4> SUFFICES ASSUME NEW id \in DOMAIN worker[w].tasks PROVE FALSE
        OBVIOUS
      <4>1. TaskIsOwn(w, id) /\ worker[w].tasks[id] \in Callers
        BY <3>1 DEF Paired, IsWorker
      <4> QED BY <2>2, <4>1 DEF TaskIsOwn
    <3>3. CASE worker'[w] = Closed(w, FALSE)
      BY <3>1, <3>2, <3>3, WasClosed
    <3> QED BY <2>1, <3>2, <3>3
  <2>4. \A c \in Callers : phase'[c] # "waiting"
    BY <2>1, <2>2
  <2>5. Paired'
    BY <2>3, <2>4 DEF Paired
  <2> QED BY <2>1, <2>5 DEF EndedStay
<1> QED BY <1>1, <1>2 DEF Initialise

LEMMA PairedAtReplaced ==
  ASSUME PoolIInv, Paired, NEW c \in Callers, Replaced(c)
  PROVE  Paired' /\ EndedStay
<1>1. /\ phase[c] = "replacing" /\ init = "done" /\ init' = init /\ on[c] \in Workers
  BY DEF Replaced, PoolIInv, PoolTypeOK, CallInv, Replacement
<1>2. CASE ExecuteOn(c, on[c])
  <2>1. PICK w \in Workers : w = on[c]
    BY <1>1
  <2> QED BY <1>1, <1>2, <2>1, PairedAtExecuteOn
<1>3. CASE EndCall(c, Outcome("workerError", on[c])) /\ UNCHANGED <<worker, on>>
  <2>1. /\ phase'[c] = "done"
        /\ \A d \in Callers \ {c} : phase'[d] = phase[d] /\ outcome'[d] = outcome[d]
    BY <1>3 DEF EndCall, PoolIInv, PoolTypeOK
  <2>2. Paired'
    BY <1>1, <1>3, <2>1, PairedSame
  <2> QED BY <1>1, <2>1, <2>2 DEF EndedStay
<1> QED BY <1>2, <1>3 DEF Replaced

LEMMA PairedAtMarkFailed ==
  ASSUME PoolIInv, Paired, NEW w \in Workers, MarkFailed(w), UNCHANGED Frame
  PROVE  Paired' /\ EndedStay
<1> DEFINE pending == {worker[w].tasks[i] : i \in DOMAIN worker[w].tasks}
<1>1. /\ init' = init /\ on' = on
      /\ phase' = [c \in Callers |-> IF c \in pending THEN "done" ELSE phase[c]]
      /\ outcome' = [c \in Callers |-> IF c \in pending THEN Outcome("workerError", w)
                                       ELSE outcome[c]]
  BY DEF MarkFailed, CompleteAllPending, Frame
<1>2. worker'[w] = Closed(w, TRUE) /\ \A v \in Workers \ {w} : worker'[v] = worker[v]
  BY DEF MarkFailed, PoolIInv, PoolTypeOK
<1>3. DOMAIN worker'[w].tasks = {}
  BY <1>2, OneWorker, WasClosed
<1>4. \A c \in pending : c \in Callers /\ phase[c] = "waiting" /\ on[c] = w
  BY OneWorker DEF IsWorker, Paired, TaskIsOwn
<1> HIDE DEF pending
<1>5. /\ \A c \in Callers : phase'[c] = IF c \in pending THEN "done" ELSE phase[c]
      /\ \A c \in Callers \ pending : outcome'[c] = outcome[c]
  BY <1>1
<1>6. EndedStay
  BY <1>4, <1>5 DEF EndedStay
<1>7. ASSUME NEW v \in Workers, NEW id \in DOMAIN worker[v].tasks
      PROVE  /\ worker[v].tasks[id] \in Callers
             /\ IF v = w THEN phase'[worker[v].tasks[id]] = "done"
                ELSE phase'[worker[v].tasks[id]] = "waiting"
  <2>1. IsWorker(worker[v]) /\ TaskIsOwn(v, id)
    BY OneWorker DEF Paired
  <2>2. worker[v].tasks[id] \in Callers /\ (v = w <=> worker[v].tasks[id] \in pending)
    BY <1>4, <2>1 DEF IsWorker, TaskIsOwn, pending
  <2> QED BY <1>5, <2>1, <2>2 DEF TaskIsOwn
<1>8. Paired'
  <2>1. \A c \in Callers : phase'[c] = "waiting" => phase[c] = "waiting" /\ on'[c] = on[c]
    BY <1>1, <1>5
  <2>2. \A v \in Workers : \A id \in DOMAIN worker'[v].tasks :
            /\ id \in DOMAIN worker[v].tasks /\ worker'[v].tasks[id] = worker[v].tasks[id]
            /\ phase'[worker[v].tasks[id]] = "waiting"
    BY <1>2, <1>3, <1>7
  <2>3. \A v \in Workers : \A id \in DOMAIN worker[v].tasks :
            phase'[worker[v].tasks[id]] = "waiting" =>
               id \in DOMAIN worker'[v].tasks /\ worker'[v].tasks[id] = worker[v].tasks[id]
    BY <1>2, <1>7
  <2> QED BY <1>1, <2>1, <2>2, <2>3, PairedLess
<1> QED BY <1>6, <1>8

\* A task ends with its call: its result has come, or its time is over.
LEMMA PairedAtEnd ==
  ASSUME PoolIInv, Paired, init' = init, on' = on, NEW w \in Workers,
         NEW id \in DOMAIN worker[w].tasks, NEW c \in Callers, c = worker[w].tasks[id],
         worker' = [worker EXCEPT ![w].tasks = Restrict(@, DOMAIN @ \ {id})],
         phase' = [phase EXCEPT ![c] = "done"],
         \A d \in Callers \ {c} : outcome'[d] = outcome[d]
  PROVE  Paired' /\ EndedStay
<1>1. /\ phase'[c] = "done" /\ \A d \in Callers \ {c} : phase'[d] = phase[d]
      /\ TaskIsOwn(w, id) /\ phase[c] = "waiting" /\ on[c] = w
  BY DEF PoolIInv, PoolTypeOK, Paired, TaskIsOwn
<1>2. /\ \A v \in Workers \ {w} : worker'[v] = worker[v]
      /\ worker'[w].tasks = Restrict(worker[w].tasks, DOMAIN worker[w].tasks \ {id})
  <2>1. DOMAIN worker = Workers /\ IsWorker(worker[w])
    BY OneWorker DEF PoolIInv, PoolTypeOK
  <2> QED BY <2>1 DEF IsWorker
<1>3. /\ DOMAIN worker'[w].tasks = DOMAIN worker[w].tasks \ {id}
      /\ \A i \in DOMAIN worker'[w].tasks : worker'[w].tasks[i] = worker[w].tasks[i]
  BY <1>2 DEF Restrict
<1>4. ASSUME NEW v \in Workers, NEW i \in DOMAIN worker[v].tasks, v # w \/ i # id
      PROVE  worker[v].tasks[i] \in Callers \ {c} /\ phase'[worker[v].tasks[i]] = "waiting"
  <2>1. worker[v].tasks[i] \in Callers /\ TaskIsOwn(v, i)
    BY OneWorker DEF IsWorker, Paired
  <2>2. worker[v].tasks[i] # c
    BY <1>1, <1>4, <2>1 DEF TaskIsOwn
  <2> QED BY <1>1, <2>1, <2>2 DEF TaskIsOwn
<1>5. Paired'
  <2>1. \A v \in Workers : \A i \in DOMAIN worker'[v].tasks :
           i \in DOMAIN worker[v].tasks /\ worker'[v].tasks[i] = worker[v].tasks[i] /\ (v # w \/ i # id)
    BY <1>2, <1>3
  <2>2. ASSUME NEW v \in Workers, NEW i \in DOMAIN worker'[v].tasks
        PROVE  /\ i \in DOMAIN worker[v].tasks /\ worker'[v].tasks[i] = worker[v].tasks[i]
               /\ phase'[worker[v].tasks[i]] = "waiting"
    <3>1. /\ i \in DOMAIN worker[v].tasks /\ worker'[v].tasks[i] = worker[v].tasks[i]
          /\ v # w \/ i # id
      BY <2>1
    <3> QED BY <1>4, <3>1
  <2>3. \A v \in Workers : \A i \in DOMAIN worker[v].tasks :
            phase'[worker[v].tasks[i]] = "waiting" =>
               i \in DOMAIN worker'[v].tasks /\ worker'[v].tasks[i] = worker[v].tasks[i]
    BY <1>1, <1>2, <1>3
  <2>4. \A d \in Callers : phase'[d] = "waiting" => phase[d] = "waiting" /\ on'[d] = on[d]
    BY <1>1
  <2> QED BY <2>2, <2>3, <2>4, PairedLess
<1> QED BY <1>1, <1>5 DEF EndedStay

LEMMA PairedAtTimeout ==
  ASSUME PoolIInv, Paired, NEW c \in Callers, TaskTimeout(c)
  PROVE  Paired' /\ EndedStay
<1>1. PICK w \in Workers : w = on[c]
  BY DEF TaskTimeout, Paired, HasTask
<1>2. PICK id \in DOMAIN worker[w].tasks :
         /\ worker[w].tasks[id] = c
         /\ worker' = [worker EXCEPT ![w].tasks = Restrict(@, DOMAIN @ \ {id})]
  BY <1>1 DEF TaskTimeout
<1>3. /\ UNCHANGED <<init, on>> /\ phase' = [phase EXCEPT ![c] = "done"]
      /\ \A d \in Callers \ {c} : outcome'[d] = outcome[d]
  BY DEF TaskTimeout, EndCall, PoolIInv, PoolTypeOK
<1> QED BY <1>2, <1>3, PairedAtEnd

LEMMA PairedAtWatch ==
  ASSUME PoolIInv, Paired, NEW w \in Workers, Watch(w)
  PROVE  Paired' /\ EndedStay
<1> DEFINE m == Head(toMain[w])
<1>1. UNCHANGED Frame /\ UNCHANGED <<init, on>>
  BY DEF Watch, Spawned, ReadyTimeout, OnMessage, Frame
<1>2. CASE MarkFailed(w)
  BY <1>1, <1>2, PairedAtMarkFailed
<1>3. ASSUME UNCHANGED <<phase, outcome>>, \A v \in Workers : worker'[v].tasks = worker[v].tasks
      PROVE  Paired' /\ EndedStay
  BY <1>1, <1>3, PairedSame DEF EndedStay
<1>4. CASE OnReady(w)
  <2>1. ASSUME NEW v \in Workers PROVE worker'[v].tasks = worker[v].tasks
    <3>1. worker'[v] = [worker[v] EXCEPT !.ready = "ok"] \/ worker'[v] = worker[v]
      BY <1>4 DEF OnReady, PoolIInv, PoolTypeOK
    <3> QED BY <3>1, OneWorker, BecameReady
  <2> QED BY <1>3, <1>4, <2>1 DEF OnReady
<1>5. CASE toMain[w] # <<>> /\ m.type = "result" /\ OnResult(w, m.id, m.call)
  <2>1. CASE m.id \notin DOMAIN worker[w].tasks
    BY <1>3, <1>5, <2>1 DEF OnResult
  <2>2. CASE m.id \in DOMAIN worker[w].tasks
    <3>1. PICK id \in DOMAIN worker[w].tasks : id = m.id
      BY <2>2
    <3>2. PICK c \in Callers : c = worker[w].tasks[id]
      BY OneWorker DEF IsWorker
    <3>3. /\ worker' = [worker EXCEPT ![w].tasks = Restrict(@, DOMAIN @ \ {id})]
          /\ EndCall(c, Outcome("result", m.call))
      BY <1>5, <2>2, <3>1, <3>2 DEF OnResult
    <3>4. /\ phase' = [phase EXCEPT ![c] = "done"]
          /\ \A d \in Callers \ {c} : outcome'[d] = outcome[d]
      BY <3>3 DEF EndCall, PoolIInv, PoolTypeOK
    <3> QED BY <1>1, <3>2, <3>3, <3>4, PairedAtEnd
  <2> QED BY <2>1, <2>2
<1>6. CASE UNCHANGED <<worker, phase, outcome>>
  BY <1>3, <1>6
<1> QED BY <1>2, <1>4, <1>5, <1>6 DEF Watch, Spawned, ReadyTimeout, OnMessage

LEMMA PairedKept == PoolIInv /\ Paired /\ [PoolNext]_poolVars => Paired' /\ EndedStay
<1>1. ASSUME PoolIInv, Paired, PoolNext PROVE Paired' /\ EndedStay
  <2>1. ASSUME NEW c \in Callers, Resume(c) PROVE Paired' /\ EndedStay
    BY <1>1, <2>1, PairedAtChosen DEF Resume
  <2>2. ASSUME NEW c \in Callers, Execute(c) \/ Continue(c) PROVE Paired' /\ EndedStay
    BY <1>1, <2>1, <2>2, PairedAtExecute, PairedAtReplaced, PairedAtTimeout DEF Continue
  <2>3. ASSUME NEW w \in Workers, Run(w) PROVE Paired' /\ EndedStay
    <3>1. UNCHANGED <<worker, phase, outcome, on, init>>
      BY <2>3 DEF Run
    <3> QED BY <1>1, <3>1, PairedSame DEF EndedStay
  <2> QED BY <1>1, <2>2, <2>3, PairedAtInit, PairedAtWatch DEF PoolNext
<1>2. ASSUME PoolIInv, Paired, UNCHANGED poolVars PROVE Paired' /\ EndedStay
  <2>1. UNCHANGED <<worker, phase, outcome, on, init>>
    BY <1>2 DEF poolVars
  <2> QED BY <1>2, <2>1, PairedSame DEF EndedStay
<1> QED BY <1>1, <1>2

LEMMA PairedInitially == PoolInit => Paired
<1> SUFFICES ASSUME PoolInit PROVE Paired
  OBVIOUS
<1>1. \A w \in Workers : DOMAIN worker[w].tasks = {}
  BY DEF PoolInit, Fresh
<1>2. \A c \in Callers : phase[c] # "waiting"
  BY DEF PoolInit
<1> QED BY <1>1, <1>2 DEF Paired

-----------------------------------------------------------------------------
(* A worker that somebody waits for. *)

\* An isolate that runs, or has said how its start went, is heard of, or its time runs out.
Stirs(w) ==
  \/ isolate[w] \in Alive
  \/ \E i \in 1 .. Len(toMain[w]) : toMain[w][i].type \in {"ready", "failure"}

Coming(w) == worker[w].ready = "pending" => Stirs(w)

\* init() starts a worker when the one before it is ready, and no call waits for an
\* init() that is over.
Awaited ==
  /\ \A w \in Workers : w <= made => Coming(w)
  /\ \A i \in 1 .. Len(starting) - 1 : worker[starting[i]].ready # "pending"
  /\ \A c \in Callers : phase[c] = "init" => init # "none"

\* A step of one worker, or none, which does not touch init().
LEMMA AwaitedKept ==
  ASSUME PoolIInv, Awaited, made' = made, starting' = starting, init' = init,
         \A c \in Callers : phase'[c] = "init" => phase[c] = "init",
         \A w \in Workers : worker'[w].ready = "pending" => worker[w].ready = "pending",
         \A w \in Workers : w <= made => Coming(w)'
  PROVE  Awaited'
<1>1. ASSUME NEW i \in 1 .. Len(starting) - 1 PROVE worker'[starting[i]].ready # "pending"
  <2>1. starting[i] \in Workers
    <3>1. starting \in Seq(Built) /\ made \in 0 .. MaxWorkers
      BY DEF PoolIInv, PoolTypeOK
    <3>2. i \in 1 .. Len(starting)
      BY <3>1, LenProperties
    <3>3. starting[i] \in Built
      BY <3>1, <3>2, ElementOfSeq
    <3> QED BY <3>1, <3>3
  <2> QED BY <2>1 DEF Awaited
<1> QED BY <1>1 DEF Awaited

LEMMA AwaitedSame ==
  ASSUME PoolIInv, Awaited, UNCHANGED <<made, starting, init, isolate, toMain>>,
         \A c \in Callers : phase'[c] = "init" => phase[c] = "init",
         \A w \in Workers : worker'[w].ready = worker[w].ready
  PROVE  Awaited'
<1>1. \A w \in Workers : w <= made => Coming(w)'
  BY DEF Awaited, Coming, Stirs
<1> QED BY <1>1, AwaitedKept

LEMMA AwaitedAtMarkFailed ==
  ASSUME PoolIInv, Awaited, NEW w \in Workers, MarkFailed(w), UNCHANGED Frame
  PROVE  Awaited'
<1>1. /\ \A v \in Workers \ {w} : /\ worker'[v] = worker[v] /\ isolate'[v] = isolate[v]
                                  /\ toMain'[v] = toMain[v]
      /\ worker'[w] = Closed(w, TRUE)
      /\ \A c \in Callers : phase'[c] = "init" => phase[c] = "init"
  BY DEF MarkFailed, Kill, CompleteAllPending, PoolIInv, PoolTypeOK
<1>2. worker'[w].ready # "pending"
  BY <1>1, OneWorker DEF Closed, IsWorker
<1>3. \A v \in Workers : v <= made => Coming(v)'
  BY <1>1, <1>2 DEF Awaited, Coming, Stirs
<1> QED BY <1>1, <1>2, <1>3, AwaitedKept DEF Frame

LEMMA AwaitedAtMessage ==
  ASSUME PoolIInv, Awaited, NEW w \in Workers, OnMessage(w)
  PROVE  Awaited'
<1> DEFINE m == Head(toMain[w])
<1>1. UNCHANGED Frame /\ toMain[w] # <<>>
  BY DEF OnMessage, Frame
<1>2. CASE MarkFailed(w)
  BY <1>1, <1>2, AwaitedAtMarkFailed
<1>3. CASE OnReady(w)
  <2>1. /\ \A v \in Workers \ {w} : worker'[v] = worker[v] /\ toMain'[v] = toMain[v]
        /\ worker'[w] = [worker[w] EXCEPT !.ready = "ok"] /\ UNCHANGED <<isolate, phase>>
    BY <1>3 DEF OnReady, PoolIInv, PoolTypeOK
  <2>2. worker'[w].ready = "ok"
    BY <2>1, OneWorker DEF IsWorker
  <2>3. \A v \in Workers : v <= made => Coming(v)'
    BY <2>1, <2>2 DEF Awaited, Coming, Stirs
  <2> QED BY <1>1, <2>1, <2>2, <2>3, AwaitedKept DEF Frame
<1>4. CASE m.type = "result" /\ OnResult(w, m.id, m.call)
  <2>1. /\ \A v \in Workers \ {w} : worker'[v] = worker[v] /\ toMain'[v] = toMain[v]
        /\ toMain'[w] = Tail(toMain[w]) /\ isolate' = isolate
    BY <1>4 DEF OnResult, PoolIInv, PoolTypeOK
  <2>2. worker'[w].ready = worker[w].ready
    <3>1. CASE worker' = worker
      BY <3>1
    <3>2. CASE worker' = [worker EXCEPT ![w].tasks = Restrict(@, DOMAIN @ \ {m.id})]
      <4>1. DOMAIN worker = Workers /\ DOMAIN worker[w] = {"ready", "closed", "failed", "counter", "tasks"}
        BY OneWorker DEF PoolIInv, PoolTypeOK, IsWorker
      <4> QED BY <3>2, <4>1
    <3> QED BY <1>4, <3>1, <3>2 DEF OnResult
  <2>3. \A c \in Callers : phase'[c] = "init" => phase[c] = "init"
    BY <1>4 DEF OnResult, EndCall, PoolIInv, PoolTypeOK
  <2>4. ASSUME w <= made, worker[w].ready = "pending" PROVE Stirs(w)'
    <3>1. CASE isolate[w] \in Alive
      BY <2>1, <3>1 DEF Stirs
    <3>2. CASE isolate[w] \notin Alive
      <4>1. PICK i \in 1 .. Len(toMain[w]) : toMain[w][i].type \in {"ready", "failure"}
        BY <2>4, <3>2 DEF Awaited, Coming, Stirs
      <4>2. /\ toMain[w] \in Seq(Messages) /\ Len(toMain[w]) \in Nat
            /\ Len(Tail(toMain[w])) = Len(toMain[w]) - 1 /\ m = toMain[w][1]
            /\ \A j \in 1 .. Len(Tail(toMain[w])) : Tail(toMain[w])[j] = toMain[w][j + 1]
        BY <1>1, OneWorker, HeadTailProperties, LenProperties
      <4>3. i # 1
        BY <1>4, <4>1, <4>2
      <4>4. i - 1 \in 1 .. Len(Tail(toMain[w])) /\ (i - 1) + 1 = i
        BY <4>2, <4>3
      <4> QED BY <2>1, <4>1, <4>2, <4>4 DEF Stirs
    <3> QED BY <3>1, <3>2
  <2>5. \A v \in Workers : v <= made => Coming(v)'
    BY <2>1, <2>2, <2>4 DEF Awaited, Coming, Stirs
  <2> QED BY <1>1, <2>1, <2>2, <2>3, <2>5, AwaitedKept DEF Frame
<1> QED BY <1>2, <1>3, <1>4 DEF OnMessage

LEMMA AwaitedAtWatch ==
  ASSUME PoolIInv, Awaited, NEW w \in Workers, Watch(w)
  PROVE  Awaited'
<1>1. CASE OnMessage(w)
  BY <1>1, AwaitedAtMessage
<1>2. CASE MarkFailed(w) /\ UNCHANGED Frame
  BY <1>2, AwaitedAtMarkFailed
<1>3. CASE /\ isolate' = [isolate EXCEPT ![w] = "booting"]
           /\ UNCHANGED <<worker, toWorker, toMain, phase, outcome>> /\ UNCHANGED Frame
  <2>1. isolate'[w] = "booting" /\ \A v \in Workers \ {w} : isolate'[v] = isolate[v]
    BY <1>3 DEF PoolIInv, PoolTypeOK
  <2>2. \A v \in Workers : v <= made => Coming(v)'
    BY <1>3, <2>1 DEF Awaited, Coming, Stirs, Alive
  <2> QED BY <1>3, <2>2, AwaitedKept DEF Frame
<1> QED BY <1>1, <1>2, <1>3 DEF Watch, Spawned, ReadyTimeout, Frame

\* An isolate that stops has said so.
LEMMA AwaitedAtRun ==
  ASSUME PoolIInv, Awaited, NEW w \in Workers, Run(w)
  PROVE  Awaited'
<1>1. UNCHANGED <<made, starting, init, worker, phase>>
  BY DEF Run
<1>2. \A v \in Workers \ {w} : isolate'[v] = isolate[v] /\ toMain'[v] = toMain[v]
  BY DEF Run, Boot, Load, Compute, Send, PoolIInv, PoolTypeOK
<1>3. CASE isolate'[w] \in Alive
  BY <1>1, <1>2, <1>3, AwaitedKept DEF Awaited, Coming, Stirs
<1>4. CASE isolate'[w] \notin Alive
  <2> DEFINE m == [type |-> "failure", id |-> Null, call |-> Null]
  <2>1. Send(w, m)
    BY <1>4 DEF Run, Boot, Load, Compute, Alive, PoolIInv, PoolTypeOK
  <2>2. m \in Messages /\ m.type = "failure"
    BY DEF Messages
  <2>3. toMain'[w] = Append(toMain[w], m)
    BY <2>1 DEF Send, PoolIInv, PoolTypeOK
  <2> HIDE DEF m
  <2>4. /\ Len(toMain'[w]) = Len(toMain[w]) + 1 /\ Len(toMain[w]) \in Nat
        /\ toMain'[w][Len(toMain[w]) + 1] = m
    BY <2>2, <2>3, OneWorker, AppendOf, LenProperties
  <2>5. Len(toMain[w]) + 1 \in 1 .. Len(toMain'[w])
    BY <2>4
  <2>6. Stirs(w)'
    BY <2>2, <2>4, <2>5 DEF Stirs
  <2> QED BY <1>1, <1>2, <2>6, AwaitedKept DEF Awaited, Coming, Stirs
<1> QED BY <1>3, <1>4

LEMMA AwaitedAtExecuteOn ==
  ASSUME PoolIInv, Awaited, UNCHANGED <<made, starting, init, isolate, toMain>>,
         NEW c \in Callers, NEW w \in Workers, ExecuteOn(c, w)
  PROVE  Awaited'
<1>1. \A d \in Callers : phase'[d] = "init" => phase[d] = "init"
  BY DEF ExecuteOn, EndCall, PoolIInv, PoolTypeOK
<1>2. ASSUME NEW v \in Workers PROVE worker'[v].ready = worker[v].ready
  <2>1. DOMAIN worker = Workers /\ DOMAIN worker[v] = {"ready", "closed", "failed", "counter", "tasks"}
    BY OneWorker DEF PoolIInv, PoolTypeOK, IsWorker
  <2>2. CASE worker' = worker
    BY <2>2
  <2>3. CASE worker' = [worker EXCEPT ![w].tasks = Put(@, TaskId(w), c), ![w].counter = @ + 1]
    BY <2>1, <2>3
  <2>4. CASE worker' = [worker EXCEPT ![w].counter = @ + 1]
    BY <2>1, <2>4
  <2> QED BY <2>2, <2>3, <2>4 DEF ExecuteOn
<1> QED BY <1>1, <1>2, AwaitedSame

\* The worker that is started runs.
LEMMA NewIsComing ==
  ASSUME PoolIInv, Awaited, Construct, UNCHANGED <<worker, toMain>>
  PROVE  \A w \in Workers : w <= made' => Coming(w)'
<1>1. /\ made \in Nat /\ made' = made + 1 /\ made' \in Workers /\ isolate'[made'] = "spawning"
      /\ \A w \in Workers \ {made'} : isolate'[w] = isolate[w]
  BY DEF Construct, PoolIInv, PoolTypeOK
<1>2. \A w \in Workers : w <= made' => w <= made \/ w = made'
  BY <1>1
<1> QED BY <1>1, <1>2 DEF Awaited, Coming, Stirs, Alive

LEMMA AwaitedAtChosen ==
  ASSUME PoolIInv, Awaited, init = "done", UNCHANGED <<init, starting, toMain>>,
         NEW c \in Callers, Chosen(c)
  PROVE  Awaited'
<1>1. instances[Select] \in Workers
  BY SelectPicks, PoolIsFull
<1>2. CASE ExecuteOn(c, instances[Select]) /\ UNCHANGED <<made, isolate>>
  BY <1>1, <1>2, AwaitedAtExecuteOn
<1>3. CASE Replace(c)
  <2>1. \A w \in Workers : w <= made' => Coming(w)'
    BY <1>3, NewIsComing DEF Replace
  <2>2. \A i \in 1 .. Len(starting) - 1 : worker'[starting[i]].ready # "pending"
    BY <1>3 DEF Replace, Awaited
  <2> QED BY <2>1, <2>2 DEF Awaited
<1> QED BY <1>2, <1>3 DEF Chosen

LEMMA AwaitedAtExecute ==
  ASSUME PoolIInv, Awaited, NEW c \in Callers, Execute(c)
  PROVE  Awaited'
<1>1. CASE init = "done" /\ Chosen(c) /\ UNCHANGED <<init, starting>>
  BY <1>1, AwaitedAtChosen DEF Execute
<1>2. CASE /\ init = "none" /\ Construct /\ init' = "running" /\ starting' = <<made + 1>>
           /\ UNCHANGED worker
  <2>1. \A w \in Workers : w <= made' => Coming(w)'
    BY <1>2, NewIsComing DEF Execute
  <2>2. Len(starting') = 1
    BY <1>2
  <2> QED BY <1>2, <2>1, <2>2 DEF Awaited
<1>3. CASE init = "running" /\ UNCHANGED <<init, starting, made, worker, isolate>>
  BY <1>3 DEF Execute, Awaited, Coming, Stirs
<1> QED BY <1>1, <1>2, <1>3 DEF Execute

LEMMA AwaitedAtInit ==
  ASSUME PoolIInv, Awaited, Initialise
  PROVE  Awaited'
<1>1. /\ init = "running" /\ starting \in Seq(Built) /\ Len(starting) \in 1 .. Size
      /\ made \in 0 .. MaxWorkers
  BY DEF Initialise, InitContinues, InitFails, PoolIInv, PoolTypeOK, PoolFilled
<1>2. CASE /\ worker[Last(starting)].ready = "ok" /\ Construct
           /\ starting' = Append(starting, made + 1) /\ UNCHANGED <<worker, toMain, phase, init>>
  <2>1. \A w \in Workers : w <= made' => Coming(w)'
    BY <1>2, NewIsComing
  <2>2. /\ Len(starting') = Len(starting) + 1
        /\ \A i \in 1 .. Len(starting) : starting'[i] = starting[i]
    <3>1. starting \in Seq(Nat)
      BY <1>1, SeqMonotonic
    <3> QED BY <1>1, <1>2, <3>1, AppendOf
  <2>3. ASSUME NEW i \in 1 .. Len(starting') - 1 PROVE worker'[starting'[i]].ready # "pending"
    <3>1. i \in 1 .. Len(starting) /\ starting'[i] = starting[i]
      BY <1>1, <2>2
    <3>2. i \in 1 .. Len(starting) - 1 \/ starting[i] = Last(starting)
      BY <1>1, <3>1 DEF Last
    <3> QED BY <1>2, <3>1, <3>2 DEF Awaited
  <2> QED BY <1>1, <1>2, <2>1, <2>3 DEF Awaited
<1>3. CASE /\ init' = "done" /\ starting' = <<>>
           /\ UNCHANGED <<worker, toMain, phase, made, isolate>>
  <2>1. Len(starting') = 0
    BY <1>3
  <2> QED BY <1>3, <2>1 DEF Awaited, Coming, Stirs
<1>4. CASE InitFails
  <2> DEFINE started == ToSet(Front(starting))
  <2>1. /\ starting' = <<>> /\ made' = made
        /\ \A w \in Workers \ started : /\ worker'[w] = worker[w] /\ isolate'[w] = isolate[w]
                                        /\ toMain'[w] = toMain[w]
        /\ \A w \in Workers \cap started : worker'[w] = Closed(w, FALSE)
        /\ \A c \in Callers : phase'[c] # "init"
    BY <1>4 DEF InitFails, Kill, InitError
  <2>2. \A w \in started : worker[w].ready # "pending"
    <3>1. /\ Front(starting) \in Seq(Built) /\ Len(Front(starting)) = Len(starting) - 1
          /\ \A i \in 1 .. Len(starting) - 1 : Front(starting)[i] = starting[i]
      BY <1>1, FrontOf
    <3>2. started = {Front(starting)[i] : i \in 1 .. Len(Front(starting))}
      BY <3>1, ToSetIs
    <3> HIDE DEF started
    <3> QED BY <3>1, <3>2 DEF Awaited
  <2> HIDE DEF started
  <2>3. ASSUME NEW w \in Workers, w \in started PROVE worker'[w].ready # "pending"
    <3>1. worker'[w] = Closed(w, FALSE) /\ worker[w].ready # "pending"
      BY <2>1, <2>2, <2>3
    <3>2. IsWorker(worker[w])
      BY OneWorker
    <3>3. Closed(w, FALSE).ready # "pending"
      BY <3>1, <3>2 DEF Closed, IsWorker
    <3> QED BY <3>1, <3>3
  <2>4. \A w \in Workers : w <= made => Coming(w)'
    BY <2>1, <2>3 DEF Awaited, Coming, Stirs
  <2>5. Len(starting') = 0
    BY <2>1
  <2> QED BY <2>1, <2>4, <2>5 DEF Awaited
<1> QED BY <1>2, <1>3, <1>4 DEF Initialise, InitContinues

LEMMA AwaitedAtReplaced ==
  ASSUME PoolIInv, Awaited, NEW c \in Callers, Replaced(c)
  PROVE  Awaited'
<1>1. on[c] \in Workers /\ UNCHANGED <<made, starting, init, isolate, toMain>>
  BY DEF Replaced, PoolIInv, PoolTypeOK, CallInv, Replacement
<1>2. CASE ExecuteOn(c, on[c])
  <2>1. PICK w \in Workers : w = on[c]
    BY <1>1
  <2> QED BY <1>1, <1>2, <2>1, AwaitedAtExecuteOn
<1>3. CASE EndCall(c, Outcome("workerError", on[c])) /\ UNCHANGED worker
  <2>1. \A d \in Callers : phase'[d] = "init" => phase[d] = "init"
    BY <1>3 DEF EndCall, PoolIInv, PoolTypeOK
  <2> QED BY <1>1, <1>3, <2>1, AwaitedSame
<1> QED BY <1>2, <1>3 DEF Replaced

LEMMA AwaitedAtTimeout ==
  ASSUME PoolIInv, Awaited, NEW c \in Callers, TaskTimeout(c)
  PROVE  Awaited'
<1>1. PICK w, id : worker' = [worker EXCEPT ![w].tasks = Restrict(@, DOMAIN @ \ {id})]
  BY DEF TaskTimeout
<1>2. ASSUME NEW v \in Workers PROVE worker'[v].ready = worker[v].ready
  <2>1. DOMAIN worker = Workers /\ DOMAIN worker[v] = {"ready", "closed", "failed", "counter", "tasks"}
    BY OneWorker DEF PoolIInv, PoolTypeOK, IsWorker
  <2> QED BY <1>1, <2>1
<1>3. \A d \in Callers : phase'[d] = "init" => phase[d] = "init"
  BY DEF TaskTimeout, EndCall, PoolIInv, PoolTypeOK
<1> QED BY <1>2, <1>3, AwaitedSame DEF TaskTimeout

LEMMA AwaitedStepKeeps == PoolIInv /\ Awaited /\ [PoolNext]_poolVars => Awaited'
<1>1. ASSUME PoolIInv, Awaited, PoolNext PROVE Awaited'
  <2>1. ASSUME NEW c \in Callers, Resume(c) PROVE Awaited'
    BY <1>1, <2>1, AwaitedAtChosen DEF Resume
  <2>2. ASSUME NEW c \in Callers, Execute(c) \/ Continue(c) PROVE Awaited'
    BY <1>1, <2>1, <2>2, AwaitedAtExecute, AwaitedAtReplaced, AwaitedAtTimeout DEF Continue
  <2> QED BY <1>1, <2>2, AwaitedAtInit, AwaitedAtWatch, AwaitedAtRun DEF PoolNext
<1>2. ASSUME PoolIInv, Awaited, UNCHANGED poolVars PROVE Awaited'
  BY <1>2, AwaitedSame DEF poolVars
<1> QED BY <1>1, <1>2

LEMMA AwaitedInitially == PoolInit => Awaited
<1> SUFFICES ASSUME PoolInit PROVE Awaited
  OBVIOUS
<1>1. made = 0 /\ Len(starting) = 0 /\ \A c \in Callers : phase[c] = "new"
  BY DEF PoolInit
<1> QED BY <1>1 DEF Awaited

\* Whoever waits is served: init() and a replacement by a worker that is heard of or whose
\* time runs out, a call of execute() by the one task, and timer, that is its own.
Attended ==
  /\ init = "running" => Coming(Last(starting))
  /\ \A c \in Callers : /\ phase[c] = "init" => init # "none"
                        /\ phase[c] = "replacing" => Coming(on[c])
  /\ Paired

LEMMA WaitersAreAttended == PoolIInv /\ Paired /\ Awaited => Attended
<1> SUFFICES ASSUME PoolIInv, Paired, Awaited PROVE Attended
  OBVIOUS
<1>1. ASSUME init = "running" PROVE Coming(Last(starting))
  <2>1. starting \in Seq(Built) /\ Len(starting) \in 1 .. Len(starting) /\ made \in 0 .. MaxWorkers
    BY <1>1 DEF PoolIInv, PoolTypeOK, PoolFilled
  <2>2. Last(starting) \in Built
    BY <2>1, ElementOfSeq DEF Last
  <2> QED BY <2>1, <2>2 DEF Awaited
<1>2. ASSUME NEW c \in Callers, phase[c] = "replacing" PROVE Coming(on[c])
  <2>1. on[c] \in Built /\ made \in 0 .. MaxWorkers
    BY <1>2 DEF PoolIInv, PoolTypeOK, CallInv, Replacement
  <2> QED BY <2>1 DEF Awaited
<1> QED BY <1>1, <1>2 DEF Attended, Awaited

-----------------------------------------------------------------------------
(* The theorems about the pool. *)

\* The inductive invariant of the pool holds in every reachable state.
THEOREM PoolInvariance == PoolSpec => []PoolIInv
  BY PoolInitHolds, PoolStepKeeps, PTL DEF PoolSpec

\* execute() never ends a call with another call's result, or with the failure of a
\* worker that had failed before the call began, however late a worker answers.
THEOREM AnswersAreOwn == PoolSpec => []OwnAnswer
<1>1. PoolIInv => OwnAnswer
  BY DEF PoolIInv, CallInv, Answer, OwnAnswer
<1> QED BY <1>1, PoolInvariance, PTL

\* Only replacements that overlap leave an isolate running that nobody reaches, and no
\* more of them than overlapped.
THEOREM LossesAreOverlaps == PoolSpec => []LostByOverlap
<1>1. PoolIInv => LostByOverlap
  <2> SUFFICES ASSUME PoolIInv PROVE Cardinality(Lost) <= overlaps
    BY DEF LostByOverlap
  <2>1. CASE Replacing = {}
    BY <2>1 DEF PoolIInv, Counted
  <2>2. CASE Replacing # {}
    <3>1. Cardinality(Replacing) # 0
      BY <2>2, LostIsFinite, FS_EmptySet, Zenon
    <3>2. Cardinality(Lost) + Cardinality(Replacing) + LastRuns <= overlaps + 1
      BY <2>2 DEF PoolIInv, Counted
    <3>3. LastRuns \in 0 .. 1 /\ overlaps \in Nat
      BY DEF LastRuns, PoolIInv, PoolTypeOK
    <3> QED BY <3>1, <3>2, <3>3, LostIsFinite
  <2> QED BY <2>1, <2>2
<1> QED BY <1>1, PoolInvariance, PTL

\* Nobody waits for what cannot come: neither for a worker that has died without a word
\* nor for a task without its timer, and no task is another call's.
THEOREM CallsAreAttended == PoolSpec => []Attended
<1>1. PoolSpec => [](PoolIInv /\ Paired /\ Awaited)
  BY PoolInitHolds, PoolStepKeeps, PairedInitially, PairedKept, AwaitedInitially,
     AwaitedStepKeeps, PTL DEF PoolSpec
<1> QED BY <1>1, WaitersAreAttended, PTL

\* execute() ends a call once: no result, timeout or failure that comes later changes
\* what the call has been told.
THEOREM EndedCallsStay == PoolSpec => [][EndedStay]_poolVars
<1>1. PoolSpec => [](PoolIInv /\ Paired)
  BY PoolInitHolds, PoolStepKeeps, PairedInitially, PairedKept, PTL DEF PoolSpec
<1>2. PoolIInv /\ Paired /\ [PoolNext]_poolVars => [EndedStay]_poolVars
  BY PairedKept
<1> QED BY <1>1, <1>2, PTL DEF PoolSpec
=============================================================================
