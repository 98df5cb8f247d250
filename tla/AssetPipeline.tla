--------------------------- MODULE AssetPipeline ----------------------------
(***************************************************************************)
(* One uploaded asset, from the request that stores it to the row the      *)
(* viewer may play: the upload and delete requests, the form that saves a  *)
(* whole row (src/src/anthias_server/app/views.py, helpers.py), the        *)
(* normalisation task (processing.py), and the beat tasks that recover     *)
(* stuck rows and sweep orphaned files (celery_tasks.py).  File names are  *)
(* per-row uuids, so assets share no file.                                 *)
(*                                                                         *)
(* An uploaded file is there before its row; a download fills in the file  *)
(* its row already names, and then dispatches the task every video passes. *)
(*                                                                         *)
(* A tick of the clock is the hour of both ages, longer than any request   *)
(* or task may run, so one falls between them; a queued message may wait   *)
(* for any number of ticks, the workers being busy with other assets.      *)
(***************************************************************************)
EXTENDS Integers, FiniteSets

CONSTANTS
    Worker,         \* the worker processes
    Kinds,          \* a subset of {"convert", "downscale", "probe", "download"}
    Threshold,      \* RECONCILE_STUCK_THRESHOLD_S, in ticks
    SweepAge,       \* the hour cleanup() leaves a file alone, in ticks
    MaxQueue,       \* bound: messages waiting
    MaxFaults       \* bound: kills, lost enqueues and failed runs, all of
                    \* which come before any overlap

ASSUME PipelineAssumption ==
    /\ Kinds \subseteq {"convert", "downscale", "probe", "download"}
    /\ Threshold \in Nat \ {0} /\ SweepAge \in Nat \ {0}
    /\ MaxQueue \in Nat \ {0}
    /\ MaxFaults \in Nat

VARIABLES
    kind,       \* how the asset comes in and what it needs
    row,        \* NoRow, or the Asset row
    disk, age,  \* what each file holds, and how old its mtime is
    queued,     \* how many normalisation messages wait for a worker
    fetching,   \* whether the download message waits
    job,        \* each worker's progress
    web,        \* the upload request
    removing,   \* the file a delete request has yet to remove
    form,       \* the row a form read, <<>> before there is one
    recon,      \* reconcile_stuck_processing()
    sweep,      \* the names cleanup() found referenced
    faults,
    \* History.
    stale,      \* a form saved a row that had changed since it read it
    overlap     \* two workers have run the task at once

requests == <<web, removing, form>>
beat == <<recon, sweep>>
files == <<disk, age>>
tasks == <<queued, fetching>>
vars == <<kind, row, files, tasks, job, requests, beat, faults, stale, overlap>>

File == {"original", "webp", "staging"}
Unstamped == -1
NoRow == [uri |-> "none"]
Row == [uri: {"original", "webp"}, processing: BOOLEAN, failed: BOOLEAN,
        stamp: {Unstamped} \cup 0..Threshold]
Saved == <<NoRow>>
Idle == [pc |-> "idle"]
Job == {Idle} \cup [pc: {"open", "encoding", "replace", "unlink",
                         "update", "raise", "retry"},
                    seen: Row]
             \cup [pc: {"fetch", "fetching", "land", "chain", "restamp", "send",
                         "refetch"},
                   seen: Row]

(* The name the task leaves the file under: final_uri.                     *)
FinalOf(src) == IF kind = "convert" THEN "webp" ELSE src

Exists == row # NoRow
Ready == Exists /\ ~row.processing /\ ~row.failed
Busy(w) == job[w] # Idle

TypeOK ==
    /\ kind \in Kinds
    /\ row \in {NoRow} \cup Row
    /\ disk \in [File -> {"absent", "partial", "whole"}]
    /\ age \in [File -> 0..SweepAge]
    /\ queued \in 0..MaxQueue /\ fetching \in BOOLEAN
    /\ job \in [Worker -> Job]
    /\ web \in {"filing", "filed", "created", "stamped", "done"}
    /\ removing \in {"nothing"} \cup File
    /\ form \in {<<>>, Saved} \cup {<<r>> : r \in Row}
    /\ recon \in {"idle", "mark", "stamp", "send"}
    /\ sweep \in {<<>>} \cup {<<s>> : s \in SUBSET File}
    /\ faults \in 0..MaxFaults
    /\ stale \in BOOLEAN /\ overlap \in BOOLEAN

Init ==
    /\ kind \in Kinds
    /\ row = NoRow
    /\ disk = [f \in File |-> "absent"] /\ age = [f \in File |-> 0]
    /\ queued = 0 /\ fetching = FALSE
    /\ job = [w \in Worker |-> Idle]
    /\ web = "filing" /\ removing = "nothing" /\ form \in {<<>>, Saved}
    /\ recon = "idle" /\ sweep = <<>>
    /\ faults = 0
    /\ stale = FALSE /\ overlap = FALSE

Clean == ~stale /\ ~overlap
Fault == faults < MaxFaults /\ ~overlap /\ faults' = faults + 1

(* A write gives a file its content and a fresh mtime; a removal of a file *)
(* that is not there changes nothing.                                      *)
Write(f, content) ==
    /\ disk' = [disk EXCEPT ![f] = content]
    /\ age' = [age EXCEPT ![f] = 0]
Remove(fs) ==
    /\ disk' = [f \in File |-> IF f \in fs THEN "absent" ELSE disk[f]]
    /\ age' = [f \in File |-> IF f \in fs THEN 0 ELSE age[f]]

(* filter(asset_id=...).update(...): no row, no change.                    *)
UpdateRow(new) == row' = IF Exists THEN new ELSE NoRow

(* stamp_processing_start(): one transaction, whoever calls it.            *)
StampRow == UpdateRow([row EXCEPT !.stamp = 0])

(* .delay(), or the redelivery a retry asks for.                           *)
Enqueue == queued < MaxQueue /\ queued' = queued + 1 /\ UNCHANGED fetching

-----------------------------------------------------------------------------
(* The upload request: the file, the row, then dispatch_normalize_*().     *)
StoreFile ==
    /\ kind # "download" /\ web = "filing" /\ web' = "filed"
    /\ Write("original", "whole")
    /\ UNCHANGED <<kind, row, tasks, job, removing, form, beat, faults, stale,
                   overlap>>

CreateRow ==
    /\ web = IF kind = "download" THEN "filing" ELSE "filed"
    /\ web' = "created"
    /\ row' = [uri |-> "original", processing |-> TRUE, failed |-> FALSE,
               stamp |-> Unstamped]
    /\ UNCHANGED <<kind, files, tasks, job, removing, form, beat, faults, stale,
                   overlap>>

StampUpload ==
    /\ web = "created" /\ web' = "stamped"
    /\ StampRow
    /\ UNCHANGED <<kind, files, tasks, job, removing, form, beat, faults, stale,
                   overlap>>

SendUpload ==
    /\ web = "stamped" /\ web' = "done"
    /\ IF kind = "download"
       THEN fetching' = TRUE /\ UNCHANGED queued
       ELSE Enqueue
    /\ UNCHANGED <<kind, row, files, job, removing, form, beat, faults, stale,
                   overlap>>

(* The server restarts, or Redis eats the enqueue.                         *)
UploadDies ==
    /\ web \in {"filed", "created", "stamped"} /\ web' = "done"
    /\ Fault
    /\ UNCHANGED <<kind, row, files, tasks, job, removing, form, beat,
                   stale, overlap>>

-----------------------------------------------------------------------------
(* delete_asset_with_file(): the row first, then the file it named.        *)
DeleteRow ==
    /\ Exists /\ removing = "nothing"
    /\ removing' = row.uri
    /\ row' = NoRow
    /\ UNCHANGED <<kind, files, tasks, job, web, form, beat, faults, stale,
                   overlap>>

DeleteFile ==
    /\ removing # "nothing" /\ removing' = "nothing"
    /\ Remove({removing})
    /\ UNCHANGED <<kind, row, tasks, job, web, form, beat, faults, stale,
                   overlap>>

DeleteDies ==
    /\ removing # "nothing" /\ removing' = "nothing"
    /\ Fault
    /\ UNCHANGED <<kind, row, files, tasks, job, web, form, beat, stale,
                   overlap>>

(* assets_update() and assets_toggle() read the row and, a few statements  *)
(* later, save() all of its columns; save() inserts a row that has gone.   *)
(* The columns they edit are not modelled.  (Bound: one form, which may    *)
(* come at any time.)                                                      *)
FormRead ==
    /\ form = <<>> /\ Exists
    /\ form' = <<row>>
    /\ UNCHANGED <<kind, row, files, tasks, job, web, removing, beat, faults,
                   stale, overlap>>

FormSave ==
    /\ form \notin {<<>>, Saved} /\ form' = Saved
    /\ row' = form[1]
    /\ stale' = (row # form[1])
    /\ UNCHANGED <<kind, files, tasks, job, web, removing, beat, faults,
                   overlap>>

-----------------------------------------------------------------------------
(* normalize_image_asset() and normalize_video_asset().                    *)
Goto(w, pc) == job' = [job EXCEPT ![w].pc = pc]

(* Mutant: the guard looks only for the row.                               *)
TakeWheneverThereIsARow(w) ==
    /\ ~Busy(w) /\ queued > 0
    /\ queued' = queued - 1 /\ UNCHANGED fetching
    /\ job' = IF Exists THEN [job EXCEPT ![w] = [pc |-> "open", seen |-> row]]
              ELSE job
    /\ overlap' = (overlap \/ Cardinality({v \in Worker : job'[v] # Idle}) > 1)
    /\ UNCHANGED <<kind, row, files, requests, beat, faults, stale>>

(* The message is acknowledged as it is taken.  _row_or_none() drops it    *)
(* when the row has gone or is not being processed.                        *)
Take(w) ==
    /\ ~Busy(w) /\ queued > 0
    /\ queued' = queued - 1 /\ UNCHANGED fetching
    /\ job' = IF Exists /\ row.processing
              THEN [job EXCEPT ![w] = [pc |-> "open", seen |-> row]]
              ELSE job
    /\ overlap' = (overlap \/ Cardinality({v \in Worker : job'[v] # Idle}) > 1)
    /\ UNCHANGED <<kind, row, files, requests, beat, faults, stale>>

(* Mutant: the image is written over without a staging file.               *)
OpenWithoutStaging(w) ==
    /\ job[w].pc = "open"
    /\ IF disk[job[w].seen.uri] = "absent"
       THEN Goto(w, "raise") /\ UNCHANGED files
       ELSE IF kind \in {"probe", "download"}
       THEN Goto(w, "update") /\ UNCHANGED files
       ELSE Goto(w, "encoding") /\ Write(FinalOf(job[w].seen.uri), "partial")
    /\ UNCHANGED <<kind, row, tasks, requests, beat, faults, stale, overlap>>

(* The isfile() check: a missing source is permanent.  The probe reads the *)
(* file where it is.  The encoder's staging name is the asset's, so a      *)
(* second encoder truncates the first one's file.                          *)
Open(w) ==
    /\ job[w].pc = "open"
    /\ IF disk[job[w].seen.uri] = "absent"
       THEN Goto(w, "raise") /\ UNCHANGED files
       ELSE IF kind \in {"probe", "download"}
       THEN Goto(w, "update") /\ UNCHANGED files
       ELSE Goto(w, "encoding") /\ Write("staging", "partial")
    /\ UNCHANGED <<kind, row, tasks, requests, beat, faults, stale, overlap>>

EncodeEnds(w) ==
    /\ job[w].pc = "encoding" /\ Goto(w, "replace")
    /\ Write(IF disk["staging"] = "absent" THEN FinalOf(job[w].seen.uri)
             ELSE "staging", "whole")
    /\ UNCHANGED <<kind, row, tasks, requests, beat, faults, stale, overlap>>

(* os.replace(), and with nothing staged a FileNotFoundError.              *)
Replace(w) ==
    /\ job[w].pc = "replace"
    /\ IF disk["staging"] = "absent"
       THEN Goto(w, "raise") /\ UNCHANGED files
       ELSE LET final == FinalOf(job[w].seen.uri)
            IN /\ Goto(w, IF final = job[w].seen.uri THEN "update" ELSE "unlink")
               /\ disk' = [disk EXCEPT ![final] = disk["staging"],
                                       !["staging"] = "absent"]
               /\ age' = [age EXCEPT ![final] = age["staging"],
                                     !["staging"] = 0]
    /\ UNCHANGED <<kind, row, tasks, requests, beat, faults, stale, overlap>>

Unlink(w) ==
    /\ job[w].pc = "unlink" /\ Goto(w, "update")
    /\ Remove({job[w].seen.uri})
    /\ UNCHANGED <<kind, row, tasks, requests, beat, faults, stale, overlap>>

(* Mutant: the row keeps its uri.                                          *)
UpdateForgetsUri(w) ==
    /\ job[w].pc = "update" /\ job' = [job EXCEPT ![w] = Idle]
    /\ UpdateRow([row EXCEPT !.processing = FALSE, !.failed = FALSE,
                             !.stamp = job[w].seen.stamp])
    /\ UNCHANGED <<kind, files, tasks, requests, beat, faults, stale, overlap>>

(* The success UPDATE writes back the metadata read at the start.          *)
Update(w) ==
    /\ job[w].pc = "update" /\ job' = [job EXCEPT ![w] = Idle]
    /\ UpdateRow([row EXCEPT !.uri = FinalOf(job[w].seen.uri),
                             !.processing = FALSE, !.failed = FALSE,
                             !.stamp = job[w].seen.stamp])
    /\ UNCHANGED <<kind, files, tasks, requests, beat, faults, stale, overlap>>

(* download_youtube_asset() and download_remote_video_asset(), which have  *)
(* the same guard.                                                         *)
TakeFetch(w) ==
    /\ ~Busy(w) /\ fetching
    /\ fetching' = FALSE /\ UNCHANGED queued
    /\ job' = IF Exists /\ row.processing
              THEN [job EXCEPT ![w] = [pc |-> "fetch", seen |-> row]]
              ELSE job
    /\ overlap' = (overlap \/ Cardinality({v \in Worker : job'[v] # Idle}) > 1)
    /\ UNCHANGED <<kind, row, files, requests, beat, faults, stale>>

FetchBegins(w) ==
    /\ job[w].pc = "fetch" /\ Goto(w, "fetching")
    /\ Write("staging", "partial")
    /\ UNCHANGED <<kind, row, tasks, requests, beat, faults, stale, overlap>>

FetchEnds(w) ==
    /\ job[w].pc = "fetching" /\ Goto(w, "land")
    /\ Write("staging", "whole")
    /\ UNCHANGED <<kind, row, tasks, requests, beat, faults, stale, overlap>>

Land(w) ==
    /\ job[w].pc = "land" /\ Goto(w, "chain")
    /\ disk' = [disk EXCEPT !["original"] = "whole", !["staging"] = "absent"]
    /\ age' = [age EXCEPT !["original"] = 0, !["staging"] = 0]
    /\ UNCHANGED <<kind, row, tasks, requests, beat, faults, stale, overlap>>

(* The UPDATE leaves the row processing; then dispatch_normalize_video().  *)
Chain(w) ==
    /\ job[w].pc = "chain" /\ Goto(w, "restamp")
    /\ UpdateRow([row EXCEPT !.failed = FALSE, !.stamp = job[w].seen.stamp])
    /\ UNCHANGED <<kind, files, tasks, requests, beat, faults, stale, overlap>>

Restamp(w) ==
    /\ job[w].pc = "restamp" /\ Goto(w, "send")
    /\ StampRow
    /\ UNCHANGED <<kind, files, tasks, requests, beat, faults, stale, overlap>>

SendChained(w) ==
    /\ job[w].pc = "send" /\ job' = [job EXCEPT ![w] = Idle]
    /\ Enqueue
    /\ UNCHANGED <<kind, row, files, requests, beat, faults, stale, overlap>>

(* A run goes wrong: an undecodable or rejected file and the soft time     *)
(* limit are permanent, any other OSError is retried while it has retries  *)
(* left.  An encoder drops its staging file, as does a download that is    *)
(* not yt-dlp's.                                                           *)
Fails(w) ==
    /\ \/ job[w].pc \in {"encoding", "replace", "fetching", "land"}
       \/ job[w].pc = "update" /\ kind \in {"probe", "download"}
    /\ \E pc \in {"raise", IF job[w].pc \in {"fetching", "land"}
                            THEN "refetch" ELSE "retry"} : Goto(w, pc)
    /\ \/ job[w].pc # "update" /\ Remove({"staging"})
       \/ job[w].pc \in {"update", "fetching"} /\ UNCHANGED files
    /\ Fault
    /\ UNCHANGED <<kind, row, tasks, requests, beat, stale, overlap>>

(* _run_unless_deleted(): nothing to report without a row.  Otherwise the  *)
(* message is queued again, or on_failure() marks the row failed, which   *)
(* also disables it.                                                       *)
Raises(w) ==
    /\ job[w].pc \in {"raise", "retry"} /\ job' = [job EXCEPT ![w] = Idle]
    /\ IF Exists /\ job[w].pc = "retry"
       THEN Enqueue /\ UNCHANGED row
       ELSE /\ UpdateRow([row EXCEPT !.processing = FALSE, !.failed = TRUE])
            /\ UNCHANGED tasks
    /\ UNCHANGED <<kind, files, requests, beat, faults, stale, overlap>>

Refetches(w) ==
    /\ job[w].pc = "refetch" /\ job' = [job EXCEPT ![w] = Idle]
    /\ fetching' = TRUE /\ UNCHANGED queued
    /\ UNCHANGED <<kind, row, files, requests, beat, faults, stale, overlap>>

(* Out of memory, the hard time limit, a container restart.                *)
Killed(w) ==
    /\ Busy(w) /\ job' = [job EXCEPT ![w] = Idle]
    /\ Fault
    /\ UNCHANGED <<kind, row, files, tasks, requests, beat, stale,
                   overlap>>

-----------------------------------------------------------------------------
(* Mutant: a row without a stamp is left alone.                            *)
ReconcileReadsStamped ==
    /\ recon = "idle"
    /\ Exists /\ row.processing
    /\ row.stamp = Threshold /\ recon' = "stamp"
    /\ UNCHANGED <<kind, row, files, tasks, job, requests, sweep, faults, stale,
                   overlap>>

(* reconcile_stuck_processing(): a row without a stamp is stamped, one     *)
(* older than the threshold is dispatched again.  Its lock keeps sweeps    *)
(* apart, and the row may change between its steps.                        *)
ReconcileReads ==
    /\ recon = "idle"
    /\ Exists /\ row.processing
    /\ \/ row.stamp = Unstamped /\ recon' = "mark"
       \/ row.stamp = Threshold /\ recon' = "stamp"
    /\ UNCHANGED <<kind, row, files, tasks, job, requests, sweep, faults, stale,
                   overlap>>

ReconcileStamps ==
    /\ recon \in {"mark", "stamp"}
    /\ recon' = IF recon = "mark" THEN "idle" ELSE "send"
    /\ StampRow
    /\ UNCHANGED <<kind, files, tasks, job, requests, sweep, faults, stale,
                   overlap>>

ReconcileSends ==
    /\ recon = "send" /\ recon' = "idle"
    /\ Enqueue
    /\ UNCHANGED <<kind, row, files, job, requests, sweep, faults, stale, overlap>>

ReconcileDies ==
    /\ recon # "idle" /\ recon' = "idle"
    /\ Fault
    /\ UNCHANGED <<kind, row, files, tasks, job, requests, sweep, stale,
                   overlap>>

(* Mutant: no file is too young.                                           *)
OldOrNot(fs) == fs

(* cleanup(): old staging files go at once; then it reads which files rows *)
(* refer to, and removes every other file that is old enough.              *)
Old(fs) == {f \in fs : age[f] >= SweepAge}

SweepReads ==
    /\ sweep = <<>>
    /\ sweep' = <<IF Exists THEN {row.uri} ELSE {}>>
    /\ Remove(Old({"staging"}))
    /\ UNCHANGED <<kind, row, tasks, job, requests, recon, faults, stale, overlap>>

SweepRemoves ==
    /\ sweep # <<>> /\ sweep' = <<>>
    /\ Remove(Old(File \ sweep[1]))
    /\ UNCHANGED <<kind, row, tasks, job, requests, recon, faults, stale, overlap>>

-----------------------------------------------------------------------------
Quiet ==
    /\ \A w \in Worker : ~Busy(w)
    /\ web \in {"filing", "done"} /\ removing = "nothing" /\ form \in {<<>>, Saved}
    /\ recon = "idle" /\ sweep = <<>>

Tick ==
    /\ Quiet
    /\ age' = [f \in File |-> IF disk[f] = "absent" \/ age[f] = SweepAge
                              THEN age[f] ELSE age[f] + 1]
    /\ row' = IF Exists /\ row.stamp \in 0..(Threshold - 1)
              THEN [row EXCEPT !.stamp = @ + 1] ELSE row
    /\ UNCHANGED <<kind, disk, tasks, job, requests, beat, faults, stale, overlap>>

Upload == StoreFile \/ CreateRow \/ StampUpload \/ SendUpload
WorkerStep(w) ==
    \/ Take(w) \/ Open(w) \/ EncodeEnds(w) \/ Replace(w)
    \/ Unlink(w) \/ Update(w)
    \/ TakeFetch(w) \/ FetchBegins(w) \/ FetchEnds(w) \/ Land(w)
    \/ Chain(w) \/ Restamp(w) \/ SendChained(w)
    \/ Raises(w) \/ Refetches(w)
Reconcile == ReconcileReads \/ ReconcileStamps \/ ReconcileSends
Sweep == SweepReads \/ SweepRemoves

Next ==
    \/ Upload \/ DeleteRow \/ DeleteFile \/ FormRead \/ FormSave
    \/ UploadDies \/ DeleteDies \/ ReconcileDies
    \/ \E w \in Worker : WorkerStep(w) \/ Fails(w) \/ Killed(w)
    \/ Reconcile \/ Sweep
    \/ Tick

Spec == Init /\ [][Next]_vars

FairSpec ==
    /\ Spec
    /\ WF_vars(Upload) /\ WF_vars(DeleteFile) /\ WF_vars(FormSave)
    /\ \A w \in Worker : WF_vars(WorkerStep(w))
    /\ WF_vars(Reconcile) /\ WF_vars(Sweep) /\ SF_vars(Tick)

-----------------------------------------------------------------------------
(* The row a viewer may play names a whole file: no crash, retry, sweep,   *)
(* delete or second dispatch leaves it naming a missing or a half-written  *)
(* one, as long as no form saves a row that changed under it and no two    *)
(* workers run the task at once.                                           *)
ReadyRowHasItsFile ==
    Clean /\ Ready => disk[row.uri] = "whole"

(* "A crash mid-encode can never destroy the only copy of the upload": an  *)
(* image downscaled in place, or a video only probed, stays whole for as   *)
(* long as its row exists.  (A stale form may bring a deleted row back     *)
(* without its file, and two encoders may swap in each other's half file.) *)
UploadOutlivesCrashes ==
    kind \in {"downscale", "probe"} /\ Exists /\ Clean => disk["original"] = "whole"

(* cleanup() reads the referenced names before it removes files; what a    *)
(* row refers to by then is spared, though it may be another file.         *)
SweepSparesReferenced ==
    [][sweep # <<>> /\ sweep' = <<>> /\ Exists /\ ~stale
       => disk'[row.uri] = disk[row.uri]]_vars

(* A row that finished is not failed afterwards by a duplicate or retried  *)
(* message of the task that finished it.                                   *)
FinishedStaysFinished ==
    [][Clean /\ Ready /\ row' # NoRow => ~row'.failed]_vars

(* The promise of the reconciler and of the sweep.  Whatever is killed or  *)
(* lost on the way, a row does not stay on "Processing" for ever, and what *)
(* is left on the disk without a row does not stay there for ever.         *)
Settled ==
    IF Exists THEN ~row.processing ELSE \A f \in File : disk[f] = "absent"
UploadSettles == []<>Settled

-----------------------------------------------------------------------------
(* Not kept by the code.  "A still-in-flight task never gets yanked out    *)
(* from under itself", but a message that waited an hour has a duplicate,  *)
(* and two workers may take the two together ...                           *)
NoTwoRunsAtOnce == ~overlap

(* ... a converted image's task may die after it removed the original and  *)
(* before it updates the row: the row fails an hour later, and the sweep   *)
(* takes the converted file, the only copy ...                             *)
RowKeepsACopy ==
    kind # "download" /\ Clean /\ Exists => \E f \in File : disk[f] = "whole"

(* ... and a form that saves a deleted row brings it back.                 *)
DeletedStaysDeleted == [][web = "done" /\ ~Exists => row' = NoRow]_vars
=============================================================================
