--------------------------- MODULE StoragePromise ---------------------------
(***************************************************************************)
(* What a page says of the card, and when it may say that the card fails   *)
(* (src/src/anthias_common/storage_health.py), in terms of the card, the   *)
(* boot and the latch in Redis.  StorageHealth says how these change.      *)
(***************************************************************************)
EXTENDS Integers

VARIABLES
    health,     \* what becomes of a write: "good", "full", "bad" (an I/O error
                \* or other data read back), "ro", "missing" directory
    mounted,    \* find_mount() finds the filesystem
    errors,     \* errors_count of the superblock
    recent,     \* startup_gap: the last of them is dated into the start of this
                \* boot, whose time is worked out from the clock of the moment
    boot, known,
    redis,      \* it answers
    latch,      \* under REDIS_KEY
    hurt        \* history: a write failed or an error rose in this boot

Unset == -1
Blank == [baseline |-> Unset, write |-> "none", failed |-> FALSE]

\* _load_latch(): a latch of another boot, of an unknown boot or behind a
\* Redis that does not answer is blank.
Loaded == IF known /\ redis /\ latch.boot = boot THEN latch.of ELSE Blank

ErrorsNew(h) == h.baseline # Unset /\ errors > h.baseline

IsReadOnly == health = "ro"

\* _classify_status(), its first answers: a disk that is full hides an error,
\* and not a filesystem that stopped taking writes.
Failing(h) ==
    mounted /\ \/ IsReadOnly
               \/ h.write = "failed"
               \/ h.write # "full" /\ (ErrorsNew(h) \/ recent \/ h.failed)

\* "send an operator out to buy hardware they don't need": the verdict is
\* "failing" only when the card did fail in this boot, or while an error of an
\* earlier one is dated into its start; and once it no longer is, nothing of
\* that has been latched.
FailingOnlyIfHurt == Failing(Loaded) => hurt \/ recent
=============================================================================
