---------------------------- MODULE DisplayPower ----------------------------
(***************************************************************************)
(* Scheduled display power: the Celery tick, its state key in Redis and    *)
(* the viewer it commands (src/src/anthias_server/celery_tasks.py,         *)
(* lib/display_power.py, lib/cec_client.py).                               *)
(*                                                                         *)
(* Commands are published: a viewer that is down misses them.  The CEC     *)
(* command is also a question, answered by the viewer or timed out.  Time  *)
(* advances a beat interval at a time, and the key's TTL with it.          *)
(***************************************************************************)
EXTENDS Integers, Sequences

CONSTANTS
    TTL,            \* DISPLAY_POWER_STATE_TTL_S in beat intervals
    MaxChanges,     \* bound: boundaries crossed and operator actions
    MaxFaults       \* bound: viewer restarts, refused and late CEC commands

PowerAssumption ==
    TTL \in Nat \ {0} /\ MaxChanges \in Nat /\ MaxFaults \in Nat

VARIABLES
    enabled,    \* settings['display_power_schedule_enabled']
    wish,       \* should_be_on(): "on", "off", or "none" for no opinion
    key, left,  \* DISPLAY_POWER_STATE_KEY and what is left of its TTL
    due,        \* the beat has queued a run of the task
    pc, wanted, restoring, \* the task; restoring: it found the schedule disabled
    up, blanked,\* the viewer
    box,        \* commands on their way to it
    reply,      \* its answer to the CEC command: "none", "done" or "busy"
    changes, faults \* bounds

settings == <<enabled, wish>>
record == <<key, left>>
task == <<pc, wanted, restoring>>
viewer == <<up, blanked>>
bounds == <<changes, faults>>
vars == <<settings, record, due, task, viewer, box, reply, bounds>>

PowerCommand(state) == IF state = "on" THEN "unblank" ELSE "blank"

TypeOK ==
    /\ enabled \in BOOLEAN /\ wish \in {"on", "off", "none"}
    /\ key \in {"on", "off", "none"} /\ left \in 0..TTL
    /\ due \in BOOLEAN
    /\ pc \in {"idle", "publish", "ask", "wait", "record", "forget"}
    /\ wanted \in {"on", "off"} /\ restoring \in BOOLEAN
    /\ up \in BOOLEAN /\ blanked \in BOOLEAN
    /\ box \in Seq({"blank", "unblank", "cec", "late"})
    /\ reply \in {"none", "done", "busy"}
    /\ changes \in 0..MaxChanges /\ faults \in 0..MaxFaults
    /\ key = "none" <=> left = 0
    /\ blanked => up

Init ==
    /\ enabled \in BOOLEAN /\ wish \in {"on", "off", "none"}
    /\ key = "none" /\ left = 0
    /\ due = FALSE
    /\ pc = "idle" /\ wanted = "on" /\ restoring = FALSE
    /\ up = TRUE /\ blanked = FALSE
    /\ box = <<>> /\ reply = "none"
    /\ changes = MaxChanges /\ faults = MaxFaults

-----------------------------------------------------------------------------
(* Time and the operator. *)

OneLess(n) == IF n = 0 THEN 0 ELSE n - 1

\* A run is over within a beat interval: every wait in it is bounded.
Beat ==
    /\ pc = "idle" /\ ~due
    /\ due' = TRUE
    /\ left' = OneLess(left)
    /\ key' = IF left' = 0 THEN "none" ELSE key
    /\ UNCHANGED <<settings, task, viewer, box, reply, bounds>>

\* The clock crosses a boundary, or the operator edits times or days.
ChangeWish(w) ==
    /\ changes > 0 /\ w # wish
    /\ wish' = w
    /\ changes' = changes - 1
    /\ UNCHANGED <<enabled, record, due, task, viewer, box, reply, faults>>

Toggle ==
    /\ changes > 0
    /\ enabled' = ~enabled
    /\ changes' = changes - 1
    /\ UNCHANGED <<wish, record, due, task, viewer, box, reply, faults>>

Publish(command) == box' = IF up THEN Append(box, command) ELSE box

\* The operator switches the screen on by hand.
OperatorUnblanks ==
    /\ changes > 0
    /\ Publish("unblank")
    /\ changes' = changes - 1
    /\ UNCHANGED <<settings, record, due, task, viewer, reply, faults>>

-----------------------------------------------------------------------------
(* The viewer. *)

Handle ==
    /\ up /\ box # <<>>
    /\ box' = Tail(box)
    /\ blanked' = CASE Head(box) = "blank" -> TRUE
                    [] Head(box) = "unblank" -> FALSE
                    [] OTHER -> blanked
    /\ IF Head(box) = "cec"
       THEN \/ reply' = "done" /\ faults' = faults
            \/ reply' = "busy" /\ faults > 0 /\ faults' = faults - 1
       ELSE UNCHANGED <<reply, faults>>
    /\ UNCHANGED <<settings, record, due, task, up, changes>>

\* The blanked flag and the unread commands die with the process.
ViewerDies ==
    /\ up /\ faults > 0
    /\ up' = FALSE /\ blanked' = FALSE /\ box' = <<>>
    /\ faults' = faults - 1
    /\ UNCHANGED <<settings, record, due, task, reply, changes>>

ViewerStarts ==
    /\ ~up
    /\ up' = TRUE
    /\ UNCHANGED <<settings, record, due, task, blanked, box, reply, bounds>>

-----------------------------------------------------------------------------
(* apply_display_power_schedule() *)

RunDisabled ==
    /\ pc = "idle" /\ due /\ ~enabled
    /\ due' = FALSE
    /\ wanted' = "on" /\ restoring' = TRUE
    /\ pc' = IF key = "off" THEN "publish" ELSE "forget"
    /\ UNCHANGED <<settings, record, viewer, box, reply, bounds>>

AlreadyApplied == key = wish

RunEnabled ==
    /\ pc = "idle" /\ due /\ enabled
    /\ due' = FALSE
    /\ IF wish = "none" \/ AlreadyApplied THEN UNCHANGED task
       ELSE pc' = "publish" /\ wanted' = wish /\ restoring' = FALSE
    /\ UNCHANGED <<settings, record, viewer, box, reply, bounds>>

\* apply_power(): the local command first, then CEC.
PublishLocal ==
    /\ pc = "publish"
    /\ Publish(PowerCommand(wanted))
    /\ pc' = "ask"
    /\ UNCHANGED <<settings, record, due, wanted, restoring, viewer, reply, bounds>>

AskCec ==
    /\ pc = "ask"
    /\ Publish("cec")
    /\ reply' = "none"
    /\ pc' = "wait"
    /\ UNCHANGED <<settings, record, due, wanted, restoring, viewer, bounds>>

\* A run that came from the disabled branch goes on to delete the key.
Answered ==
    /\ pc = "wait" /\ reply = "done"
    /\ pc' = IF restoring THEN "forget" ELSE "record"
    /\ UNCHANGED <<settings, record, due, wanted, restoring, viewer, box, reply,
                   bounds>>

\* ViewerUnavailableError: the bus was busy or nobody is there to answer.
Unanswered ==
    /\ pc = "wait"
    /\ reply = "busy" \/ (reply = "none" /\ box = <<>>)
    /\ pc' = "idle"
    /\ UNCHANGED <<settings, record, due, wanted, restoring, viewer, box, reply,
                   bounds>>

\* The viewer has been too slow: its answer will carry a key nobody reads.
TimesOut ==
    /\ pc = "wait" /\ reply = "none" /\ box # <<>>
    /\ faults > 0
    /\ faults' = faults - 1
    /\ box' = [i \in DOMAIN box |-> IF box[i] = "cec" THEN "late" ELSE box[i]]
    /\ pc' = "idle"
    /\ UNCHANGED <<settings, record, due, wanted, restoring, viewer, reply,
                   changes>>

Record ==
    /\ pc = "record"
    /\ key' = wanted /\ left' = TTL
    /\ pc' = "idle"
    /\ UNCHANGED <<settings, due, wanted, restoring, viewer, box, reply, bounds>>

Forget ==
    /\ pc = "forget"
    /\ key' = "none" /\ left' = 0
    /\ pc' = "idle"
    /\ UNCHANGED <<settings, due, wanted, restoring, viewer, box, reply, bounds>>

Task ==
    \/ RunDisabled \/ RunEnabled \/ PublishLocal \/ AskCec \/ Answered
    \/ Unanswered \/ TimesOut \/ Record \/ Forget

Next ==
    \/ Beat \/ Toggle \/ OperatorUnblanks
    \/ \E w \in {"on", "off", "none"} : ChangeWish(w)
    \/ Handle \/ ViewerDies \/ ViewerStarts
    \/ Task

Spec == Init /\ [][Next]_vars
FairSpec ==
    /\ Spec
    /\ WF_vars(Beat) /\ WF_vars(Task)
    /\ WF_vars(Handle) /\ WF_vars(ViewerStarts)

-----------------------------------------------------------------------------
(* Properties *)

ScreenAgrees ==
    /\ (enabled /\ wish = "off") => blanked
    /\ (enabled /\ wish = "on") => (up /\ ~blanked)

\* The screen does go dark in off-hours and does come back in the morning,
\* although a published command of apply_power_state() may be lost, the CEC bus
\* busy, the viewer restarted afterwards.
ScreenFollowsSchedule == []<>ScreenAgrees

-----------------------------------------------------------------------------
(* What a comment says and the code does not do. *)

\* "Turning the schedule off must not strand a screen the schedule had already
\* switched off."  (Nothing else in this model blanks the viewer.)
DisablingRestoresTheScreen ==
    (blanked /\ ~enabled) ~> (~blanked \/ enabled)
=============================================================================
