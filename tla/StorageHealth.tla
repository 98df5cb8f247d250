---------------------------- MODULE StorageHealth ----------------------------
(***************************************************************************)
(* Storage health (src/src/anthias_common/storage_health.py, smart.py and  *)
(* src/src/anthias_server/lib/storage_watcher.py).                         *)
(*                                                                         *)
(* A watcher thread samples the filesystem behind the data directory and   *)
(* now and then writes to it; a latch in Redis remembers the failures of   *)
(* this boot.  A page reduces the live facts and the latch to one verdict. *)
(* The wear of an SSD is a fact of its own, published by the viewer with a *)
(* lifetime.  What a card is called and when things happened is left out.  *)
(***************************************************************************)
EXTENDS StoragePromise

CONSTANTS
    MaxErrors,  \* bound: errors ext4 records
    MaxFaults   \* bound: changes of the card, of Redis and of the processes

StorageAssumption == MaxErrors \in Nat /\ MaxFaults \in Nat

VARIABLES
    worn, ssd,  \* the medium is at its end; only SMART can tell
    fact,       \* host:smart: "none", "blank", "healthy", "worn"
    viewerUp,
    pc,         \* of the watcher: "start", "sample", "load", "save", "gone"
    due,        \* WRITE_CHECK_INTERVAL_S has passed
    facts, copy,\* its probe() and its latch
    faults

card == <<health, mounted, errors, recent, worn, ssd>>
process == <<pc, due, facts, copy>>
vars == <<card, boot, known, redis, fact, viewerUp, latch, process, hurt,
          faults>>

History == [baseline : Unset..MaxErrors,
            write : {"none", "ok", "full", "failed"}, failed : BOOLEAN]
NoFacts == [supported |-> FALSE, errors |-> 0]

TypeOK ==
    /\ health \in {"good", "full", "bad", "ro", "missing"}
    /\ {mounted, recent, worn, ssd, known, redis, viewerUp, due, hurt}
         \subseteq BOOLEAN
    /\ errors \in 0..MaxErrors
    /\ fact \in {"none", "blank", "healthy", "worn"}
    /\ latch \in [boot : 0..MaxFaults, of : History]
    /\ pc \in {"start", "sample", "load", "save", "gone"}
    /\ copy \in History
    /\ faults \in 0..MaxFaults

Init ==
    /\ health \in {"good", "missing"} /\ mounted \in BOOLEAN
    /\ errors = 0 /\ recent = FALSE
    /\ worn = FALSE /\ ssd \in BOOLEAN
    /\ boot = 0 /\ known = TRUE
    /\ redis = TRUE /\ fact = "none" /\ viewerUp = TRUE
    /\ latch = [boot |-> 0, of |-> Blank]
    /\ pc = "start" /\ due = TRUE /\ facts = NoFacts /\ copy = Blank
    /\ hurt = FALSE
    /\ faults = MaxFaults

-----------------------------------------------------------------------------
(* The card, Redis and restarts. *)

Fault == faults > 0 /\ faults' = faults - 1

\* The directory is made, the disk fills up or is freed, the card fails, the
\* filesystem stops taking writes: ENOSPC passes, a failed card may recover.
HealthChanges(h) ==
    /\ Fault /\ h # health /\ h # "missing"
    /\ health' = h
    /\ hurt' = (hurt \/ h \in {"bad", "ro"})
    /\ UNCHANGED <<mounted, errors, recent, worn, ssd, boot, known, redis,
                   fact, viewerUp, latch, process>>

CardErrs ==
    /\ errors < MaxErrors
    /\ errors' = errors + 1
    /\ recent' \in BOOLEAN
    /\ hurt' = TRUE
    /\ UNCHANGED <<health, mounted, worn, ssd, boot, known, redis, fact,
                   viewerUp, latch, process, faults>>

WearsOut ==
    /\ Fault /\ ~worn
    /\ worn' = TRUE
    /\ UNCHANGED <<health, mounted, errors, recent, ssd, boot, known, redis,
                   fact, viewerUp, latch, process, hurt>>

MountChanges ==
    /\ Fault
    /\ mounted' = ~mounted
    /\ UNCHANGED <<health, errors, recent, worn, ssd, boot, known, redis,
                   fact, viewerUp, latch, process, hurt>>

RedisGoesDown ==
    /\ Fault /\ redis
    /\ redis' = FALSE
    /\ UNCHANGED <<card, boot, known, fact, viewerUp, latch, process, hurt>>

RedisComesUp ==
    /\ ~redis
    /\ redis' = TRUE
    /\ UNCHANGED <<card, boot, known, fact, viewerUp, latch, process, hurt,
                   faults>>

WorkerRestarts ==
    /\ Fault
    /\ pc' = "start" /\ due' = TRUE /\ facts' = NoFacts /\ copy' = Blank
    /\ UNCHANGED <<card, boot, known, redis, fact, viewerUp, latch, hurt>>

\* A clock that lags behind dates an old error into the new boot; so does any
\* clock with an error of the last minute before it.
Reboot ==
    /\ Fault
    /\ boot' = boot + 1 /\ known' \in BOOLEAN
    /\ recent' \in {FALSE, errors > 0}
    /\ hurt' = (health = "bad" \/ IsReadOnly)
    /\ pc' = "start" /\ due' = TRUE /\ facts' = NoFacts /\ copy' = Blank
    /\ UNCHANGED <<health, mounted, errors, worn, ssd, redis, fact, viewerUp,
                   latch>>

\* The clock is put right, and get_boot_time() with it: an error of an earlier
\* boot is one again, and so is one of this boot that the wrong clock stamped.
ClockIsSet ==
    /\ recent
    /\ recent' = FALSE
    /\ UNCHANGED <<health, mounted, errors, worn, ssd, boot, known, redis,
                   fact, viewerUp, latch, process, hurt, faults>>

-----------------------------------------------------------------------------
(* SMART: the viewer samples it, the key dies with the viewer. *)

\* run_smartctl() and parse(): a drive that does not answer publishes a blank.
Sample == {"blank", IF worn THEN "worn" ELSE "healthy"}

SmartPublishes ==
    /\ viewerUp /\ redis /\ mounted /\ ssd
    /\ fact' \in Sample
    /\ UNCHANGED <<card, boot, known, redis, viewerUp, latch, process, hurt,
                   faults>>

ViewerStops ==
    /\ Fault /\ viewerUp
    /\ viewerUp' = FALSE
    /\ UNCHANGED <<card, boot, known, redis, fact, latch, process, hurt>>

SmartExpires ==
    /\ ~viewerUp /\ fact # "none"
    /\ fact' = "none"
    /\ UNCHANGED <<card, boot, known, redis, viewerUp, latch, process, hurt,
                   faults>>

-----------------------------------------------------------------------------
(* record_check(), by the watcher. *)

\* start(): no thread when the filesystem cannot be resolved.
Start ==
    /\ pc = "start"
    /\ pc' = IF mounted THEN "sample" ELSE "gone"
    /\ UNCHANGED <<card, boot, known, redis, fact, viewerUp, latch, due,
                   facts, copy, hurt, faults>>

ReadExt4Errors == IF mounted THEN errors ELSE 0

Probe ==
    /\ pc = "sample"
    /\ facts' = [supported |-> mounted, errors |-> ReadExt4Errors]
    /\ pc' = "load"
    /\ UNCHANGED <<card, boot, known, redis, fact, viewerUp, latch, due, copy,
                   hurt, faults>>

\* run_write_check() and _classify()
WriteCheck ==
    CASE health = "good" -> "ok" [] health = "full" -> "full"
      [] health = "missing" -> "none" [] OTHER -> "failed"

\* Mutant: a full disk is latched like a failure of the card.
FoldLatchesFull(h) ==
    [h EXCEPT !.write = WriteCheck,
              !.failed = h.failed \/ WriteCheck \in {"failed", "full"}]

\* _fold_write_check()
Fold(h) ==
    [h EXCEPT !.write = WriteCheck,
              !.failed = h.failed \/ WriteCheck = "failed"]

WithBaseline(h) ==
    IF facts.supported /\ h.baseline = Unset
    THEN [h EXCEPT !.baseline = facts.errors] ELSE h

\* Only a check that was made stamps the interval.
LoadAndCheck ==
    /\ pc = "load"
    /\ copy' = IF due /\ facts.supported THEN Fold(WithBaseline(Loaded))
               ELSE WithBaseline(Loaded)
    /\ due' = (due /\ ~facts.supported)
    /\ pc' = "save"
    /\ UNCHANGED <<card, boot, known, redis, fact, viewerUp, latch, facts,
                   hurt, faults>>

\* _save_latch(), and the sleep of a minute.
Save ==
    /\ pc = "save"
    /\ latch' = IF known /\ redis THEN [boot |-> boot, of |-> copy] ELSE latch
    /\ pc' = "sample" /\ facts' = NoFacts /\ copy' = Blank
    /\ UNCHANGED <<card, boot, known, redis, fact, viewerUp, due, hurt, faults>>

Elapses ==
    /\ pc = "sample" /\ ~due
    /\ due' = TRUE
    /\ UNCHANGED <<card, boot, known, redis, fact, viewerUp, latch, pc, facts,
                   copy, hurt, faults>>

Watch == Start \/ Probe \/ LoadAndCheck \/ Save

Next ==
    \/ \E h \in {"good", "full", "bad", "ro"} : HealthChanges(h)
    \/ CardErrs \/ WearsOut \/ MountChanges
    \/ RedisGoesDown \/ RedisComesUp \/ WorkerRestarts \/ Reboot \/ ClockIsSet
    \/ SmartPublishes \/ ViewerStops \/ SmartExpires
    \/ Watch \/ Elapses

Spec == Init /\ [][Next]_vars

\* Redis is restarted; the thread is scheduled, and its clock runs on.
Fairness ==
    WF_vars(RedisComesUp) /\ WF_vars(Watch) /\ SF_vars(Elapses)

-----------------------------------------------------------------------------
(* get_state(), _assemble() and _classify_status(): what a page shows. *)

\* _merge_smart(): wear of an SSD is what was published last.
WearSeen == IF ssd THEN redis /\ fact = "worn" ELSE worn

Verdict(h) ==
    CASE ~mounted -> "unknown"
      [] Failing(h) -> "failing"
      [] mounted /\ ~Failing(h) /\ h.write = "full" -> "full"
      [] OTHER -> IF errors > 0 THEN "errors"
                  ELSE IF WearSeen THEN "wear" ELSE "ok"

Status == Verdict(Loaded)

-----------------------------------------------------------------------------
(* Properties *)

Watched == pc # "gone" /\ known /\ redis /\ mounted

\* The verdict comes to be that of the card: a write that keeps failing shows,
\* and a disk that was full is fine once it has been freed.  An old error that
\* a wrong clock dates into this boot stands in the way as long as it does.
VerdictAgrees ==
    /\ Watched /\ health = "bad" => Status = "failing"
    /\ Watched /\ health = "good" /\ ~hurt /\ ~recent
         => Status \in {"ok", "wear", "errors"}

VerdictFollowsCard == []<>VerdictAgrees

-----------------------------------------------------------------------------
(* What a comment says and the code does not do. *)

\* STARTUP_GRACE_S "is the bound that keeps a skewed clock from dragging old
\* errors into the current boot": a card is called failing for what it did in
\* this boot only.
OldErrorsStayOut == Failing(Loaded) => hurt

\* "a write that failed and later succeeded is not a card that is fine": what
\* was latched in this boot stays latched.
FailureIsRemembered ==
    [][ latch.boot = boot /\ latch.of.failed /\ boot' = boot
            => latch'.of.failed ]_vars
=============================================================================
