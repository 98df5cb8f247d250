---------------------------- MODULE Undervoltage ----------------------------
(***************************************************************************)
(* Under-voltage detection (src/src/anthias_common/undervoltage.py and     *)
(* src/src/anthias_server/lib/undervoltage_watcher.py).                    *)
(*                                                                         *)
(* The kernel shows an alarm, a watcher thread is woken by its changes,    *)
(* and a latch in Redis remembers for the rest of the boot that there was  *)
(* one.  A page render that sees the alarm and the latch disagree writes   *)
(* the latch too.  Neither reads and writes in one step, Redis may be away *)
(* for either half, and the driver may be unbound and come back elsewhere. *)
(***************************************************************************)
EXTENDS SupplyPromise

CONSTANTS
    MaxDips,    \* bound: changes of the alarm
    MaxFaults   \* bound: outages of Redis, rebinds, worker restarts, reboots

UndervoltageAssumption == MaxDips \in Nat /\ MaxFaults \in Nat

Writer == {"watcher", "page"}
NoCopy == [state |-> Empty, readable |-> TRUE]

VARIABLES
    alarm,      \* the attribute in0_lcrit_alarm
    path,       \* where it is, or 0
    changed,    \* POLLPRI is pending on the watcher's descriptor
    pc,         \* of both writers
    live,       \* the reading each of them took
    copy,       \* _load_latch(): the state and whether it was readable
    watched,    \* alarm_path of _watch_loop()
    cached,     \* _cached_alarm_path of the server process, or -1
    dips, faults

kernel == <<alarm, path, bootKnown, bootNo, dips, dipped>>
process == <<pc, live, copy, watched, cached>>
vars == <<kernel, changed, broker, record, process, faults>>

Latch == [boot : 0..MaxFaults, active : BOOLEAN, seen : BOOLEAN, count : Nat]

\* Besides the types: what is active has been seen.
TypeOK ==
    /\ {alarm, changed, bootKnown, broker} \subseteq BOOLEAN
    /\ path \in 0..2 /\ watched \in 0..2 /\ cached \in -1..2
    /\ record \in Latch /\ record.active => record.seen
    /\ pc \in [Writer -> {"start", "seed", "open", "poll", "failed", "gone",
                          "idle", "compare", "load", "save"}]
    /\ live \in [Writer -> BOOLEAN]
    /\ dips \in 0..MaxDips /\ faults \in 0..MaxFaults
    /\ dipped \in BOOLEAN

Init ==
    /\ alarm \in BOOLEAN /\ path \in {0, 1}
    /\ changed = FALSE
    /\ bootKnown \in BOOLEAN /\ bootNo = 0 /\ broker = TRUE
    /\ record = [boot |-> 0, active |-> FALSE, seen |-> FALSE, count |-> 0]
    /\ pc = [watcher |-> "start", page |-> "idle"]
    /\ live = [w \in Writer |-> FALSE]
    /\ copy = [w \in Writer |-> NoCopy]
    /\ watched = 0 /\ cached = -1
    /\ dips = MaxDips /\ faults = MaxFaults
    /\ dipped = alarm

-----------------------------------------------------------------------------
(* The kernel, Redis and restarts. *)

AlarmChanges ==
    /\ dips > 0 /\ path # 0
    /\ dips' = dips - 1
    /\ alarm' = ~alarm
    /\ dipped' = (dipped \/ alarm')
    /\ changed' = TRUE
    /\ UNCHANGED <<path, bootKnown, bootNo, broker, record, process, faults>>

Fault == faults > 0 /\ faults' = faults - 1

\* The driver is unbound, or bound again, perhaps elsewhere.
Rebind ==
    /\ Fault
    /\ path' \in (0..2) \ {path}
    /\ alarm' \in BOOLEAN
    /\ dipped' = (dipped \/ alarm')
    /\ UNCHANGED <<bootKnown, bootNo, dips, changed, broker, record, process>>

RedisGoesDown ==
    /\ Fault /\ broker
    /\ broker' = FALSE
    /\ UNCHANGED <<kernel, changed, record, process>>

RedisComesUp ==
    /\ ~broker
    /\ broker' = TRUE
    /\ UNCHANGED <<kernel, changed, record, process, faults>>

WorkerRestarts ==
    /\ Fault
    /\ pc' = [pc EXCEPT !["watcher"] = "start"]
    /\ live' = [live EXCEPT !["watcher"] = FALSE]
    /\ copy' = [copy EXCEPT !["watcher"] = NoCopy]
    /\ UNCHANGED <<kernel, changed, broker, record, watched, cached>>

\* The latch survives on Redis's volume, the alarm is what it is.
Reboot ==
    /\ Fault
    /\ bootNo' = bootNo + 1
    /\ alarm' \in BOOLEAN /\ dipped' = alarm'
    /\ pc' = [watcher |-> "start", page |-> "idle"]
    /\ live' = [w \in Writer |-> FALSE]
    /\ copy' = [w \in Writer |-> NoCopy]
    /\ cached' = -1
    /\ UNCHANGED <<path, bootKnown, dips, changed, broker, record, watched>>

-----------------------------------------------------------------------------
(* _load_latch() and record_observation(), by either writer. *)

Loaded == [readable |-> broker \/ ~bootKnown, state |-> Remembered]

Folded(state, active) ==
    [active |-> active,
     seen |-> state.seen \/ active,
     count |-> IF active /\ ~state.active THEN state.count + 1
               ELSE state.count]

Load(w) ==
    /\ pc[w] = "load"
    /\ copy' = [copy EXCEPT ![w] = Loaded]
    /\ pc' = [pc EXCEPT ![w] = "save"]
    /\ UNCHANGED <<kernel, changed, broker, record, live, watched, cached,
                   faults>>

\* Mutant: a record is written whether or not the reading changed it.
SavesAlways(w, state) == bootKnown /\ copy[w].readable /\ broker

Saves(w, state) ==
    bootKnown /\ copy[w].readable /\ broker /\ state # copy[w].state

Save(w) ==
    LET state == Folded(copy[w].state, live[w]) IN
    /\ pc[w] = "save"
    /\ record' = IF Saves(w, state)
                 THEN [boot |-> bootNo, active |-> state.active,
                       seen |-> state.seen, count |-> state.count]
                 ELSE record
    /\ pc' = [pc EXCEPT ![w] = IF w = "page" THEN "idle"
                               ELSE IF watched = 0 THEN "open" ELSE "poll"]
    /\ live' = [live EXCEPT ![w] = FALSE]
    /\ copy' = [copy EXCEPT ![w] = NoCopy]
    /\ UNCHANGED <<kernel, changed, broker, watched, cached, faults>>

-----------------------------------------------------------------------------
(* The watcher thread. *)

\* read_alarm(): a file that is gone says nothing.
Readable(file) == file = path

Watcher(from, to) == pc["watcher"] = from /\ pc' = [pc EXCEPT !["watcher"] = to]

\* start(): seed the latch; without a sensor there is nothing to watch.
Start ==
    /\ pc["watcher"] = "start"
    /\ watched' = 0
    /\ IF path = 0 THEN Watcher("start", "gone") /\ UNCHANGED live
       ELSE Watcher("start", "load") /\ live' = [live EXCEPT !["watcher"] = alarm]
    /\ UNCHANGED <<kernel, changed, broker, record, copy, cached, faults>>

\* The first read clears what was pending and is thrown away.
Open ==
    /\ pc["watcher"] = "open"
    /\ IF path = 0
       THEN Watcher("open", "failed") /\ UNCHANGED <<watched, changed>>
       ELSE Watcher("open", "poll") /\ watched' = path /\ changed' = FALSE
    /\ UNCHANGED <<kernel, broker, record, live, copy, cached, faults>>

Reads ==
    /\ Watcher("poll", "load")
    /\ Readable(watched)
    /\ live' = [live EXCEPT !["watcher"] = alarm]
    /\ changed' = FALSE
    /\ UNCHANGED <<kernel, broker, record, copy, watched, cached, faults>>

Woken == changed /\ Reads

\* The timeout of the poll, an hour later.
Resamples == Reads

\* POLLERR without POLLPRI, or an empty read.
PollFails ==
    /\ Watcher("poll", "failed")
    /\ ~Readable(watched)
    /\ UNCHANGED <<kernel, changed, broker, record, live, copy, watched,
                   cached, faults>>

\* After the back-off: open again, where the sensor is now.
Recover ==
    /\ pc["watcher"] = "failed"
    /\ Watcher("failed", IF path = 0 THEN "gone" ELSE "open")
    /\ UNCHANGED <<kernel, changed, broker, record, live, copy, watched,
                   cached, faults>>

Watch ==
    \/ Start \/ Open \/ Woken \/ Resamples \/ PollFails \/ Recover
    \/ Load("watcher") \/ Save("watcher")

-----------------------------------------------------------------------------
(* get_state(), by a page. *)

\* The path is looked for once per process.
FindAlarmPath == IF cached = -1 THEN path ELSE cached

PageLoads ==
    /\ pc["page"] = "idle"
    /\ cached' = FindAlarmPath
    /\ cached' # 0
    /\ copy' = [copy EXCEPT !["page"] = Loaded]
    /\ pc' = [pc EXCEPT !["page"] = "compare"]
    /\ UNCHANGED <<kernel, changed, broker, record, live, watched, faults>>

Disagree(state) == alarm # state.active \/ (alarm /\ ~state.seen)

WritesBack ==
    /\ Readable(cached)
    /\ copy["page"].readable
    /\ Disagree(copy["page"].state)

PageCompares ==
    /\ pc["page"] = "compare"
    /\ live' = [live EXCEPT !["page"] = WritesBack /\ alarm]
    /\ copy' = [copy EXCEPT !["page"] = NoCopy]
    /\ pc' = [pc EXCEPT !["page"] = IF WritesBack THEN "load" ELSE "idle"]
    /\ UNCHANGED <<kernel, changed, broker, record, watched, cached, faults>>

RenderGoesOn == PageCompares \/ Load("page") \/ Save("page")

Next ==
    \/ AlarmChanges \/ Rebind \/ RedisGoesDown \/ RedisComesUp
    \/ WorkerRestarts \/ Reboot
    \/ Watch \/ PageLoads \/ RenderGoesOn

Spec == Init /\ [][Next]_vars

\* Redis is restarted, the thread is scheduled, a poll ends, a render that
\* was begun is finished; nobody has to load a page.
Fairness ==
    WF_vars(RedisComesUp) /\ WF_vars(Watch) /\ WF_vars(RenderGoesOn)

-----------------------------------------------------------------------------
(* Properties *)

\* Whatever the two writers overwrite and whichever event is dropped, the
\* record comes to agree with the alarm while the watcher lives.
LatchAgrees ==
    \/ pc["watcher"] = "gone" \/ ~bootKnown \/ ~broker
    \/ Remembered.active = alarm /\ (alarm => Remembered.seen)

LatchFollowsAlarm == []<>LatchAgrees

-----------------------------------------------------------------------------
(* What a comment says and the code does not do. *)

\* "it counts brown-out events, not observations of one": no more than there
\* were since the process started.
CountsEvents == record.count <= MaxDips - dips + bootNo + 1
=============================================================================
