------------------------------- MODULE DataSync -------------------------------
(***************************************************************************)
(* Synchronisation of the legacy app's data with a WebDAV server           *)
(* (lib/legacy/utils/data_sync.dart, with saveData and syncData of         *)
(* foundation/appdata.dart and exportAppData and importAppData of          *)
(* utils/data.dart): one device, its settings in memory and on disk, the   *)
(* calls of uploadData() and downloadData() it has under way, and the      *)
(* snapshots on the server, which other devices write as well.             *)
(*                                                                         *)
(* One action is one stretch of code between two awaits.  Every await may  *)
(* fail; a request to the server may fail after it took effect; the app    *)
(* may be killed at any moment.  saveData is one step: its own lock keeps  *)
(* two of them apart.  The WebDAV settings are valid.  An archive the user *)
(* imports by hand (the settings page calls importAppData, which then      *)
(* checks no version and minds no flag) is outside the model.              *)
(***************************************************************************)
EXTENDS Naturals, FiniteSets, Sequences, FiniteSetsExt

CONSTANTS
  Calls,       \* the calls under way at the same time
  FirstVersion,\* the version both sides start with
  MaxVersion,  \* bound on the versions
  FirstDay,    \* the day it begins, counted from 1970
  MaxDay,      \* bound on the days
  MaxFiles,    \* 10: so many snapshots on the server make an upload remove one
  MaxEdits,    \* bound on the local changes
  None

ASSUME SyncAssumption ==
  /\ FirstVersion \in Nat /\ MaxVersion \in Nat /\ FirstVersion <= MaxVersion
  /\ FirstDay \in Nat /\ MaxDay \in Nat /\ FirstDay <= MaxDay
  /\ MaxFiles \in Nat /\ MaxEdits \in Nat
  /\ None \notin [version : Nat, value : Nat]

VARIABLES
  memory,         \* appdata.settings: dataVersion, and the last local change the rest has
  disk,           \* appdata.json, and what saveData puts beside it into syncdata.json
  isDownloading, isUploading, haveWaitingTask,
  pc,             \* pc[c]: where call c is suspended
  job,            \* job[c]: its local variables
  server,         \* the snapshots, <day>-<version>.venera, and what they contain
  today,
  \* for the properties
  edits,          \* how many local changes there have been
  highest,        \* the highest version the server has ever had
  torn,           \* the app was killed, or saveData failed, around an export
  othersWrote     \* another device has written a snapshot

flags == <<isDownloading, isUploading, haveWaitingTask>>
ghosts == <<edits, highest, torn, othersWrote>>
vars == <<memory, disk, flags, pc, job, server, today, ghosts>>

\* Of an upload: the version before it, what was exported, the day of its name, the
\* listing, and the last local change before it; of a download: its snapshot.
NoJob == [previous |-> 0, data |-> None, day |-> 0, files |-> {}, file |-> None, base |-> 0]

Init ==
  /\ memory = [version |-> FirstVersion, value |-> 0]
  /\ disk = memory
  /\ isDownloading = FALSE /\ isUploading = FALSE /\ haveWaitingTask = FALSE
  /\ pc = [c \in Calls |-> "idle"]
  /\ job = [c \in Calls |-> NoJob]
  /\ server = {[day |-> FirstDay, version |-> FirstVersion, data |-> memory]}
  /\ today = FirstDay
  /\ edits = 0 /\ highest = FirstVersion /\ torn = FALSE /\ othersWrote = FALSE

-----------------------------------------------------------------------------
(* The order of the file names as text. *)

Digits[n \in Nat] == IF n < 10 THEN <<n>> ELSE Append(Digits[n \div 10], n % 10)

\* Whether s comes before t: the character after a version, ".", is before any digit.
TextBefore(s, t) ==
  \E n \in 1 .. Len(t) :
     /\ \A m \in 1 .. n - 1 : m <= Len(s) /\ s[m] = t[m]
     /\ n > Len(s) \/ s[n] < t[n]

\* Days have five digits from 1997 to 2243, so that their texts are in their order; the
\* versions of two snapshots need not be.
ASSUME DaysAssumption ==
  \A d, e \in FirstDay .. MaxDay : TextBefore(Digits[d], Digits[e]) <=> d < e

NameBefore(f, g) ==
  \/ TextBefore(Digits[f.day], Digits[g.day])
  \/ f.day = g.day /\ TextBefore(Digits[f.version], Digits[g.version])

FirstByName(files) == CHOOSE f \in files : \A g \in files \ {f} : NameBefore(f, g)
LastByName(files) == CHOOSE f \in files : \A g \in files \ {f} : NameBefore(g, f)

-----------------------------------------------------------------------------
(* Calls: who begins, who waits, who is turned away. *)

\* A call that has ended; a call that is turned away has not begun.
End(c) ==
  /\ pc' = [pc EXCEPT ![c] = "idle"]
  /\ job' = [job EXCEPT ![c] = NoJob]

\* Bound: no more uploads than versions.
BeginUpload(c) ==
  /\ memory.version < MaxVersion
  /\ haveWaitingTask' = FALSE /\ isUploading' = TRUE
  /\ memory' = [memory EXCEPT !.version = @ + 1]
  /\ pc' = [pc EXCEPT ![c] = "bumped"]
  /\ job' = [job EXCEPT ![c] = [NoJob EXCEPT !.previous = memory.version, !.base = memory.value]]
  /\ UNCHANGED isDownloading

BeginDownload(c) ==
  /\ haveWaitingTask' = FALSE /\ isDownloading' = TRUE
  /\ pc' = [pc EXCEPT ![c] = "reading"]
  /\ UNCHANGED <<memory, isUploading, job>>

Wait(c, where) ==
  /\ haveWaitingTask' = TRUE
  /\ pc' = [pc EXCEPT ![c] = where]
  /\ UNCHANGED <<memory, isDownloading, isUploading, job>>

TurnedAway(c) == End(c) /\ UNCHANGED <<memory, flags>>

\* uploadData, up to its first await.
UploadData(c) ==
  \/ /\ isDownloading \/ haveWaitingTask
     /\ TurnedAway(c)
  \/ /\ ~isDownloading /\ ~haveWaitingTask
     /\ IF isUploading THEN Wait(c, "waitUpload") ELSE BeginUpload(c)

\* downloadData, up to its first await.
\* Mutant: a download waits for downloads only.
DownloadData_BesideUploads(c) ==
  \/ haveWaitingTask /\ TurnedAway(c)
  \/ ~haveWaitingTask /\ IF isDownloading THEN Wait(c, "waitDownload") ELSE BeginDownload(c)

DownloadData(c) ==
  \/ haveWaitingTask /\ TurnedAway(c)
  \/ /\ ~haveWaitingTask
     /\ IF isDownloading \/ isUploading THEN Wait(c, "waitDownload") ELSE BeginDownload(c)

\* The user, or a timer, asks for a transfer.
Ask(c) ==
  /\ pc[c] = "idle"
  /\ UploadData(c) \/ DownloadData(c)
  /\ UNCHANGED <<disk, server, today, ghosts>>

\* A setting is changed in memory; it is saved, and then uploaded.
Change(c) ==
  /\ pc[c] = "idle" /\ edits < MaxEdits
  /\ edits' = edits + 1
  /\ memory' = [memory EXCEPT !.value = edits + 1]
  /\ pc' = [pc EXCEPT ![c] = "saving"]
  /\ UNCHANGED <<disk, flags, job, server, today, highest, torn, othersWrote>>

SaveChange(c) ==
  /\ pc[c] = "saving"
  /\ \/ disk' = memory /\ UploadData(c)
     \/ End(c) /\ UNCHANGED <<memory, disk, flags>>
  /\ UNCHANGED <<server, today, ghosts>>

\* Both polls look every 100 ms.
Poll(c) ==
  /\ \/ pc[c] = "waitUpload" /\ ~isUploading /\ BeginUpload(c)
     \/ pc[c] = "waitDownload" /\ ~isDownloading /\ ~isUploading /\ BeginDownload(c)
  /\ UNCHANGED <<disk, server, today, ghosts>>

-----------------------------------------------------------------------------
(* An upload. *)

UploadEnds(c) == End(c) /\ isUploading' = FALSE /\ UNCHANGED <<isDownloading, haveWaitingTask>>

Goes(c, where) == pc' = [pc EXCEPT ![c] = where]

\* The settings are saved with the new version.
\* Mutant: nobody waits for the save.
SaveBumped_NotAwaited(c) ==
  /\ pc[c] = "bumped"
  /\ Goes(c, "exporting")
  /\ UNCHANGED <<memory, disk, flags, job, server, today, ghosts>>

SaveBumped(c) ==
  /\ pc[c] = "bumped"
  /\ disk' = memory
  /\ Goes(c, "exporting")
  /\ UNCHANGED <<memory, flags, job, server, today, ghosts>>

\* The save fails: the version stays as it is in memory.
SaveBumpedFails(c) ==
  /\ pc[c] = "bumped"
  /\ UploadEnds(c)
  /\ torn' = TRUE
  /\ UNCHANGED <<memory, disk, server, today, edits, highest, othersWrote>>

\* exportAppData reads the file, or fails; either way the version is set back.
\* Mutant: the version is not set back.
Export_KeepsVersion(c) ==
  /\ pc[c] = "exporting"
  /\ \/ job' = [job EXCEPT ![c].data = disk]
     \/ UNCHANGED job
  /\ Goes(c, "restoring")
  /\ UNCHANGED <<memory, disk, flags, server, today, ghosts>>

Export(c) ==
  /\ pc[c] = "exporting"
  /\ \/ job' = [job EXCEPT ![c].data = disk]
     \/ UNCHANGED job
  /\ memory' = [memory EXCEPT !.version = job[c].previous]
  /\ Goes(c, "restoring")
  /\ UNCHANGED <<disk, flags, server, today, ghosts>>

SaveRestored(c) ==
  /\ pc[c] = "restoring"
  /\ disk' = memory
  /\ IF job[c].data = None THEN UploadEnds(c)
     ELSE Goes(c, "listing") /\ job' = [job EXCEPT ![c].day = today] /\ UNCHANGED flags
  /\ UNCHANGED <<memory, server, today, ghosts>>

SaveRestoredFails(c) ==
  /\ pc[c] = "restoring"
  /\ UploadEnds(c)
  /\ torn' = TRUE
  /\ UNCHANGED <<memory, disk, server, today, edits, highest, othersWrote>>

\* The snapshot to be, and those of its day on the server.
File(c) == [day |-> job[c].day, version |-> job[c].previous + 1, data |-> job[c].data]
OfTheDay(c) == {f \in job[c].files : f.day = job[c].day}

List(c) ==
  /\ pc[c] = "listing"
  /\ \/ /\ job' = [job EXCEPT ![c].files = server]
        /\ Goes(c, "removing")
        /\ UNCHANGED flags
     \/ UploadEnds(c)
  /\ UNCHANGED <<memory, disk, server, today, ghosts>>

\* The snapshot of the day is removed first: the first one the listing has.
\* Mutant: it stays.
RemoveOld_Keeps(c) ==
  /\ pc[c] = "removing"
  /\ Goes(c, "pruning")
  /\ UNCHANGED <<memory, disk, flags, job, server, today, ghosts>>

RemoveOld(c) ==
  /\ pc[c] = "removing"
  /\ \/ OfTheDay(c) = {} /\ Goes(c, "pruning") /\ UNCHANGED <<flags, job, server>>
     \/ \E old \in OfTheDay(c) :
           \/ server' = server \ {old} /\ Goes(c, "pruning") /\ UNCHANGED <<flags, job>>
           \/ server' \in {server, server \ {old}} /\ UploadEnds(c)
  /\ UNCHANGED <<memory, disk, today, ghosts>>

\* With too many of them the first one by name goes.
Prune(c) ==
  /\ pc[c] = "pruning"
  /\ \/ Cardinality(job[c].files) < MaxFiles /\ Goes(c, "writing") /\ UNCHANGED <<flags, job, server>>
     \/ /\ Cardinality(job[c].files) >= MaxFiles
        /\ LET rest == server \ {FirstByName(job[c].files)}
           IN  \/ server' = rest /\ Goes(c, "writing") /\ UNCHANGED <<flags, job>>
               \/ server' \in {server, rest} /\ UploadEnds(c)
  /\ UNCHANGED <<memory, disk, today, ghosts>>

\* A file of the same name is replaced.
Stored(f) == {g \in server : g.day # f.day \/ g.version # f.version} \cup {f}
Stores(f) == server' = Stored(f) /\ highest' = Max({highest, f.version})

Write(c) ==
  /\ pc[c] = "writing"
  /\ \/ /\ Stores(File(c))
        /\ memory' = [memory EXCEPT !.version = job[c].previous + 1]
        /\ Goes(c, "confirming")
        /\ UNCHANGED <<flags, job>>
     \/ /\ Stores(File(c)) \/ UNCHANGED <<server, highest>>
        /\ UploadEnds(c)
        /\ UNCHANGED memory
  /\ UNCHANGED <<disk, today, edits, torn, othersWrote>>

Confirm(c) ==
  /\ pc[c] = "confirming"
  /\ disk' \in {disk, memory}
  /\ UploadEnds(c)
  /\ UNCHANGED <<memory, server, today, ghosts>>

Upload(c) ==
  \/ SaveBumped(c) \/ SaveBumpedFails(c) \/ Export(c) \/ SaveRestored(c) \/ SaveRestoredFails(c)
  \/ List(c) \/ RemoveOld(c) \/ Prune(c) \/ Write(c) \/ Confirm(c)

-----------------------------------------------------------------------------
(* A download. *)

DownloadEnds(c) == End(c) /\ isDownloading' = FALSE /\ UNCHANGED <<isUploading, haveWaitingTask>>

\* The last snapshot by name, unless its version is not newer.
ReadDir(c) ==
  /\ pc[c] = "reading"
  /\ \/ DownloadEnds(c)
     \/ \E last \in server :
           /\ last = LastByName(server)
           /\ last.version > memory.version
           /\ job' = [job EXCEPT ![c].file = last]
           /\ Goes(c, "downloading")
           /\ UNCHANGED flags
  /\ UNCHANGED <<memory, disk, server, today, ghosts>>

\* The file is fetched, if it is still there as it was.
Fetch(c) ==
  /\ pc[c] = "downloading"
  /\ \/ DownloadEnds(c)
     \/ \E f \in server :
           /\ f.day = job[c].file.day /\ f.version = job[c].file.version
           /\ job' = [job EXCEPT ![c].data = f.data]
           /\ Goes(c, "importing")
           /\ UNCHANGED flags
  /\ UNCHANGED <<memory, disk, server, today, ghosts>>

\* importAppData: the settings are replaced in memory, and saveData, which uploads them,
\* is called and not awaited.  Bound: there is a free call for it.
Import(c) ==
  /\ pc[c] = "importing"
  /\ \/ DownloadEnds(c) /\ UNCHANGED memory
     \/ /\ job[c].data.version > memory.version
        /\ memory' = job[c].data
        /\ \E d \in Calls : pc[d] = "idle" /\ pc' = [pc EXCEPT ![c] = "cleaning", ![d] = "saving"]
        /\ UNCHANGED <<flags, job>>
  /\ UNCHANGED <<disk, server, today, ghosts>>

\* Cookies and sources are put in place, and the download is over.
Clean(c) ==
  /\ pc[c] = "cleaning"
  /\ DownloadEnds(c)
  /\ UNCHANGED <<memory, disk, server, today, ghosts>>

Download(c) == ReadDir(c) \/ Fetch(c) \/ Import(c) \/ Clean(c)

-----------------------------------------------------------------------------
(* The world around it. *)

\* Another device uploads: it has downloaded some snapshot, and removes the one of
\* the day it has seen.
OtherUploads ==
  \E seen \in server :
     /\ seen.version < MaxVersion
     /\ LET f == [day |-> today, version |-> seen.version + 1,
                  data |-> [seen.data EXCEPT !.version = seen.version + 1]]
        IN  \E gone \in {{}} \cup {{g} : g \in {h \in server : h.day = today}} :
               /\ server' = {g \in server \ gone : g.day # f.day \/ g.version # f.version} \cup {f}
               /\ highest' = Max({highest, f.version})
     /\ othersWrote' = TRUE
     /\ UNCHANGED <<memory, disk, flags, pc, job, today, edits, torn>>

Midnight ==
  /\ today < MaxDay
  /\ today' = today + 1
  /\ UNCHANGED <<memory, disk, flags, pc, job, server, ghosts>>

\* What a request that was on its way may still do.
LateEffect(c) ==
  \/ pc[c] = "removing" /\ server' \in {server \ {old} : old \in OfTheDay(c)} /\ UNCHANGED highest
  \/ /\ pc[c] = "pruning" /\ Cardinality(job[c].files) >= MaxFiles
     /\ server' = server \ {FirstByName(job[c].files)} /\ UNCHANGED highest
  \/ pc[c] = "writing" /\ Stores(File(c))

\* The app is killed and started again.  Starting, it downloads.
Restart ==
  /\ memory' = disk
  /\ isDownloading' = TRUE /\ isUploading' = FALSE /\ haveWaitingTask' = FALSE
  /\ \E c \in Calls : pc' = [d \in Calls |-> IF d = c THEN "reading" ELSE "idle"]
  /\ job' = [c \in Calls |-> NoJob]
  /\ torn' = (torn \/ \E c \in Calls : pc[c] \in {"bumped", "exporting", "restoring"})
  /\ \/ UNCHANGED <<server, highest>>
     \/ \E c \in Calls : LateEffect(c)
  /\ UNCHANGED <<disk, today, edits, othersWrote>>

-----------------------------------------------------------------------------
Proceed(c) == SaveChange(c) \/ Upload(c) \/ Download(c)

Next ==
  \/ \E c \in Calls : Ask(c) \/ Change(c) \/ Poll(c) \/ Proceed(c)
  \/ OtherUploads \/ Midnight \/ Restart

Spec == Init /\ [][Next]_vars

-----------------------------------------------------------------------------
(* Properties. *)

\* What an upload is about to write has its own version and every local change made
\* before it began, those included whose own call was turned away by the waiting flag:
\* no download replaces the settings while they are exported.
SnapshotIsCurrent ==
  \A c \in Calls : pc[c] \in {"listing", "removing", "pruning", "writing"} =>
     /\ job[c].data.version = job[c].previous + 1
     /\ job[c].data.value >= job[c].base

\* The device never holds a version the server has not had, so that no snapshot is
\* passed over as an old one: the version is raised for good only when the snapshot is
\* there.  While an export is under way it is not so, and a kill or a failing save in
\* that stretch makes it last.
VersionIsBacked ==
  torn \/ (\E c \in Calls : pc[c] \in {"bumped", "exporting", "restoring"}) \/
    (memory.version <= highest /\ disk.version <= highest)

\* The snapshot a download takes, the last one by name, has the highest version on the
\* server, as long as this device is the only one that writes: names are compared as
\* text, where 9 comes after 10, and only because no two snapshots are of one day this
\* does no harm (DaysAssumption).
NewestIsTaken ==
  othersWrote \/ server = {} \/ \A f \in server : f.version <= LastByName(server).version
=============================================================================
