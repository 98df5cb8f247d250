------------------------------- MODULE Backup -------------------------------
(***************************************************************************)
(* Backup and restore of the database                                      *)
(* (src/src/anthias_server/lib/backup_helper.py and the views around it).  *)
(*                                                                         *)
(* The database is a file and, beside it, the log SQLite writes commits to *)
(* before it copies them back.  Server threads and other processes open it *)
(* and close it; who closes it last copies the log back and removes it.    *)
(* A restore writes over the file and then removes the log by its name: a  *)
(* process that still has it open keeps a log without a name.  What the    *)
(* archive holds besides the database, and how it is packed, is left out.  *)
(***************************************************************************)
EXTENDS BackupPromise

CONSTANTS
    MaxCommits,     \* bound
    MaxFaults       \* bound: kills and failures

BackupAssumption == MaxCommits \in Nat /\ MaxFaults \in Nat

\* The connection of the snapshot, of the request that restores, and of any
\* other thread or process.
Client == {"snapshot", "recover", "other"}
NoLog == [named |-> FALSE, of |-> Ours, frames |-> {}, pending |-> {}]

VARIABLES
    orphan,     \* the log whose name a restore removed
    conn,       \* which log each client has open
    produce,    \* the thread that packs the archive
    error,      \* produce_error
    recover,    \* the request that restores
    carried,    \* its archive has a database
    replaced,   \* restored_dbs
    ok,         \* no member failed
    faults

file == <<main, log, orphan, conn, count>>
download == <<produce, error, reader, archive, floor>>
restore == <<recover, carried, replaced, ok, disturbed>>
vars == <<file, download, restore, faults>>

Log == [named : BOOLEAN, of : {Ours, Theirs}, frames : SUBSET (0..MaxCommits),
        pending : SUBSET (0..MaxCommits)]

TypeOK ==
    /\ main \in [of : SUBSET {Ours, Theirs}, rows : SUBSET (0..MaxCommits)]
    /\ log \in Log /\ orphan \in Log
    /\ conn \in [Client -> {"none", "named", "orphan"}]
    /\ count \in 0..MaxCommits
    /\ produce \in {"idle", "snapshot", "live", "tar", "failing", "closed", "ended"}
    /\ error \in BOOLEAN
    /\ reader \in {"none", "reading", "gone", "drained", "aborted", "complete",
                   "late"}
    /\ archive \in [rows : SUBSET (0..MaxCommits), whole : BOOLEAN]
    /\ floor \subseteq 0..MaxCommits
    /\ recover \in {"idle", "upload", "extracted", "clear", "migrate",
                    "migrating", "done"}
    /\ carried \in BOOLEAN /\ replaced \in BOOLEAN
    /\ ok \in BOOLEAN /\ disturbed \in BOOLEAN
    /\ faults \in 0..MaxFaults

Init ==
    /\ main = [of |-> {Ours}, rows |-> {}]
    /\ log = NoLog /\ orphan = NoLog
    /\ conn = [c \in Client |-> "none"]
    /\ count = 0
    /\ produce = "idle" /\ error = FALSE /\ reader = "none"
    /\ archive = [rows |-> {}, whole |-> FALSE]
    /\ recover = "idle" /\ carried = FALSE /\ replaced = FALSE /\ ok = TRUE
    /\ floor = {} /\ disturbed = FALSE
    /\ faults = MaxFaults

Fault == faults > 0 /\ faults' = faults - 1

-----------------------------------------------------------------------------
(* SQLite *)

Connected == {c \in Client : conn[c] # "none"}
LogOf(c) == IF conn[c] = "orphan" THEN orphan ELSE log

WriteBack(file_, from) ==
    [of |-> file_.of \cup (IF from.pending = {} THEN {} ELSE {from.of}),
     rows |-> file_.rows \cup from.pending]

\* Whoever comes first replays a log that was left behind.
Connect(c) ==
    /\ conn[c] = "none"
    /\ conn' = [conn EXCEPT ![c] = "named"]
    /\ log' = IF ~log.named
              THEN [NoLog EXCEPT !.named = TRUE,
                                 !.of = IF main.of = {Ours} THEN Ours ELSE Theirs]
              ELSE IF \E d \in Client : conn[d] = "named" THEN log
              ELSE [log EXCEPT !.pending = log.frames]
    /\ disturbed' = (disturbed \/ replaced)
    /\ UNCHANGED <<main, orphan, count>>

\* Whoever leaves last copies its log back and removes the name.
Disconnect(c) ==
    /\ conn' = [conn EXCEPT ![c] = "none"]
    /\ IF Connected = {c}
       THEN /\ main' = WriteBack(main, LogOf(c))
            /\ log' = NoLog /\ orphan' = NoLog
       ELSE /\ orphan' = IF \E d \in Client \ {c} : conn[d] = "orphan"
                         THEN orphan ELSE NoLog
            /\ UNCHANGED <<main, log>>
    /\ UNCHANGED count

Opens(c) ==
    /\ CASE c = "snapshot" -> produce = "snapshot"
         [] c = "recover" -> recover \in {"upload", "migrating"}
         [] OTHER -> TRUE
    /\ Connect(c)
    /\ UNCHANGED <<download, recover, carried, replaced, ok, faults>>

Closes(c) ==
    /\ conn[c] # "none"
    /\ CASE c = "snapshot" -> produce # "snapshot"
         [] c = "recover" -> recover \in {"idle", "done"}
         [] OTHER -> TRUE
    /\ Disconnect(c)
    /\ UNCHANGED <<download, restore, faults>>

Commits(c) ==
    /\ conn[c] # "none" /\ count < MaxCommits
    /\ c = "other" \/ (c = "recover" /\ recover = "migrating")
    /\ count' = count + 1
    /\ LET With(l) == [l EXCEPT !.frames = @ \cup {count + 1},
                                !.pending = @ \cup {count + 1}]
       IN IF conn[c] = "orphan" THEN orphan' = With(orphan) /\ UNCHANGED log
          ELSE log' = With(log) /\ UNCHANGED orphan
    /\ UNCHANGED <<main, conn, download, restore, faults>>

Checkpoints(c) ==
    /\ conn[c] # "none" /\ LogOf(c).pending # {}
    /\ main' = WriteBack(main, LogOf(c))
    /\ IF conn[c] = "orphan"
       THEN orphan' = [orphan EXCEPT !.pending = {}] /\ UNCHANGED log
       ELSE log' = [log EXCEPT !.pending = {}] /\ UNCHANGED orphan
    /\ UNCHANGED <<conn, count, download, restore, faults>>

\* The log stays behind.
OtherKilled ==
    /\ Fault /\ conn["other"] # "none"
    /\ conn' = [conn EXCEPT !["other"] = "none"]
    /\ orphan' = IF conn["recover"] = "orphan" THEN orphan ELSE NoLog
    /\ UNCHANGED <<main, log, count, download, restore>>

ServerKilled ==
    /\ Fault
    /\ conn' = [conn EXCEPT !["snapshot"] = "none", !["recover"] = "none"]
    /\ orphan' = IF conn["other"] = "orphan" THEN orphan ELSE NoLog
    /\ produce' = "ended" /\ error' = FALSE
    /\ reader' = IF reader \in {"none", "complete", "late"} THEN reader ELSE "aborted"
    /\ recover' = IF recover = "idle" THEN "idle" ELSE "done"
    /\ replaced' = FALSE /\ disturbed' = (disturbed \/ replaced)
    /\ UNCHANGED <<main, log, count, archive, floor, carried, ok>>

-----------------------------------------------------------------------------
(* stream_backup(): a thread packs, the response reads. *)

Asked ==
    /\ produce = "idle"
    /\ produce' = "snapshot" /\ reader' = "reading"
    /\ floor' = IF replaced \/ disturbed THEN {} ELSE Current
    /\ UNCHANGED <<file, error, archive, restore, faults>>

Snapshot ==
    /\ produce = "snapshot" /\ conn["snapshot"] # "none"
    /\ archive' = [archive EXCEPT !.rows = main.rows \cup LogOf("snapshot").frames]
    /\ produce' = "tar"
    /\ UNCHANGED <<file, error, reader, floor, restore, faults>>

\* Mutant: the file on disk will do, whatever the log holds.
NoTailMatters == FALSE

HasWalTail == log.named /\ log.frames # {}

SnapshotFails ==
    /\ Fault /\ produce = "snapshot"
    /\ produce' = IF HasWalTail THEN "failing" ELSE "live"
    /\ UNCHANGED <<file, error, reader, archive, floor, restore>>

\* Best effort: the file as it is on disk.
TarLive ==
    /\ produce = "live"
    /\ archive' = [archive EXCEPT !.rows = main.rows]
    /\ produce' = "tar"
    /\ UNCHANGED <<file, error, reader, floor, restore, faults>>

TarEnds ==
    /\ produce = "tar"
    /\ archive' = [archive EXCEPT !.whole = TRUE]
    /\ produce' = "ended"
    /\ UNCHANGED <<file, error, reader, floor, restore, faults>>

TarFails ==
    /\ Fault /\ produce = "tar"
    /\ produce' = "failing"
    /\ UNCHANGED <<file, error, reader, archive, floor, restore>>

\* The pipe is closed on the way out, before the error is kept.
PipeCloses ==
    /\ produce = "failing"
    /\ produce' = "closed"
    /\ UNCHANGED <<file, error, reader, archive, floor, restore, faults>>

ErrorKept ==
    /\ produce = "closed"
    /\ produce' = "ended" /\ error' = TRUE
    /\ UNCHANGED <<file, reader, archive, floor, restore, faults>>

BrokenPipe ==
    /\ reader = "gone" /\ produce \in {"live", "tar"}
    /\ produce' = "ended"
    /\ UNCHANGED <<file, error, reader, archive, floor, restore, faults>>

ClientLeaves ==
    /\ reader = "reading"
    /\ reader' = "gone"
    /\ UNCHANGED <<file, produce, error, archive, floor, restore, faults>>

EndOfPipe ==
    /\ reader = "reading" /\ produce \in {"closed", "ended"}
    /\ reader' = "drained"
    /\ UNCHANGED <<file, produce, error, archive, floor, restore, faults>>

\* producer.join(timeout=5) came back in time, and what the thread left.
Drained ==
    /\ reader = "drained" /\ produce = "ended"
    /\ reader' = IF error THEN "aborted" ELSE "complete"
    /\ UNCHANGED <<file, produce, error, archive, floor, restore, faults>>

\* The five seconds are over: the response completes like one that has nothing
\* to raise, for the thread has kept no error yet.
JoinTimesOut ==
    /\ reader = "drained" /\ produce # "ended"
    /\ reader' = IF error THEN "aborted" ELSE "late"
    /\ UNCHANGED <<file, produce, error, archive, floor, restore, faults>>

Download ==
    \/ Asked \/ Snapshot \/ SnapshotFails \/ TarLive \/ TarEnds \/ TarFails
    \/ PipeCloses \/ ErrorKept \/ BrokenPipe \/ ClientLeaves \/ EndOfPipe
    \/ Drained \/ JoinTimesOut

-----------------------------------------------------------------------------
(* recover() *)

Recover(from, to) == recover = from /\ recover' = to

Uploaded ==
    /\ Recover("idle", "upload")
    /\ carried' \in BOOLEAN
    /\ UNCHANGED <<file, download, replaced, ok, disturbed, faults>>

\* Another archive, or one of a newer schema: nothing has been written.
Rejected ==
    /\ Recover("upload", "done")
    /\ UNCHANGED <<file, download, carried, replaced, ok, disturbed, faults>>

\* The members up to the database, over whatever is there.
ExtractDb ==
    /\ Recover("upload", "extracted")
    /\ replaced' = carried
    /\ IF carried
       THEN /\ main' = [of |-> {Theirs}, rows |-> {0}]
            /\ floor' = {}
            /\ disturbed' = (disturbed \/ Connected # {})
       ELSE UNCHANGED <<main, floor, disturbed>>
    /\ UNCHANGED <<log, orphan, conn, count, produce, error, reader, archive,
                   carried, ok, faults>>

MembersEnd ==
    /\ Recover("extracted", "clear")
    /\ UNCHANGED <<file, download, carried, replaced, ok, disturbed, faults>>

MemberFails ==
    /\ Fault
    /\ Recover("extracted", "clear")
    /\ ok' = FALSE
    /\ UNCHANGED <<file, download, carried, replaced, disturbed>>

\* Mutants: only when every member was extracted; whatever was extracted.
SidecarsClearedOnSuccess == replaced /\ ok
SidecarsClearedAlways == TRUE

SidecarsCleared == replaced

\* _clear_db_sidecars(): who has the log open keeps it.
Clear ==
    /\ Recover("clear", IF ok THEN "migrate" ELSE "done")
    /\ IF SidecarsCleared
       THEN /\ log' = NoLog
            /\ orphan' = IF \E c \in Client : conn[c] = "named" THEN log ELSE NoLog
            /\ conn' = [c \in Client |->
                          IF conn[c] = "named" THEN "orphan" ELSE conn[c]]
       ELSE UNCHANGED <<log, orphan, conn>>
    /\ replaced' = FALSE
    /\ UNCHANGED <<main, count, download, carried, ok, disturbed, faults>>

\* A sidecar that stays fails the restore.
ClearFails ==
    /\ Fault
    /\ Recover("clear", "done")
    /\ replaced' = FALSE /\ disturbed' = (disturbed \/ replaced)
    /\ UNCHANGED <<file, download, carried, ok>>

\* _upgrade_restored_database(): connections.close_all(), then migrate.
CloseAll ==
    /\ Recover("migrate", "migrating")
    /\ IF conn["recover"] = "none" THEN UNCHANGED file ELSE Disconnect("recover")
    /\ UNCHANGED <<download, carried, replaced, ok, disturbed, faults>>

Finish ==
    /\ Recover("migrating", "done")
    /\ UNCHANGED <<file, download, carried, replaced, ok, disturbed, faults>>

Restore ==
    \/ Uploaded \/ Rejected \/ ExtractDb \/ MembersEnd \/ MemberFails \/ Clear
    \/ ClearFails \/ CloseAll \/ Finish

Next ==
    \/ \E c \in Client : Opens(c) \/ Closes(c) \/ Commits(c) \/ Checkpoints(c)
    \/ OtherKilled \/ ServerKilled
    \/ Download \/ Restore

Spec == Init /\ [][Next]_vars

-----------------------------------------------------------------------------
(* What comments say and the code does not do. *)

\* "A producer failure is re-raised here once the stream drains, so the response
\* aborts mid-transfer instead of completing 200 with a silently truncated
\* archive": also when the thread takes its time to fail.
FailureAbortsDownload == reader \in {"complete", "late"} => archive.whole

\* "Removing them is what makes the restored file the whole truth".
RestoredFileIsWholeTruth == main.of \in {{Ours}, {Theirs}}
=============================================================================
