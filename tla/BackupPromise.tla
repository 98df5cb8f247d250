---------------------------- MODULE BackupPromise ----------------------------
(***************************************************************************)
(* What a backup and a restore promise of the database, in terms of its    *)
(* file, the log beside it and the archive                                 *)
(* (src/src/anthias_server/lib/backup_helper.py).  Backup says how these   *)
(* change.                                                                 *)
(***************************************************************************)
EXTENDS Integers

VARIABLES
    main,       \* the file: whose pages, and which commits
    log,        \* the log beside it
    count,      \* commits so far
    reader,     \* the download: "complete" when the thread that packs ended in
                \* time, "late" when it completed without waiting any longer
    archive,    \* the database in it, and whether it is complete
    floor,      \* history: what was committed when the download was asked for,
                \* unless a restore meddled
    disturbed   \* history: somebody was connected, or the server was killed,
                \* while the file was new and the log old

Ours == "ours"
Theirs == "theirs"
Current == main.rows \cup log.frames

\* "instead of completing 200 with a silently truncated archive", nor "passing
\* for a good one" without the commits of the log: what was committed when the
\* download was asked for is in it when it completes.  One that completes five
\* seconds after the pipe was closed, while the thread that closed it has still
\* to say why, promises neither (FailureAbortsDownload of Backup).
DownloadHoldsCommits ==
    reader = "complete" => archive.whole /\ floor \subseteq archive.rows

\* "its only copy of committed rows": nothing that was committed is lost until
\* a database is restored over it, whoever is killed and whichever restore
\* brought none.
CommitsSurvive == main.of = {Ours} => 1..count \subseteq Current

\* No frame of the old database gets into the restored one, also when a later
\* member fails, as long as nobody had the database open meanwhile.
OldLogIsNotReplayed == ~disturbed => main.of \in {{Ours}, {Theirs}}
=============================================================================
