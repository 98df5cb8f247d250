--------------------------- MODULE WaylandWatchdog ---------------------------
(***************************************************************************)
(* The recovery of a display that was off when the compositor started      *)
(* (src/src/anthias_viewer/__init__.py): cage looks for displays once, and *)
(* only a restart of the container makes it look again.                    *)
(*                                                                         *)
(* The watchdog runs on every tick of the loop and reads the kernel first, *)
(* the compositor second.  Restarts are counted in a file that belongs to  *)
(* one boot of the device.                                                 *)
(***************************************************************************)
EXTENDS Integers

CONSTANTS
    Cap,            \* WAYLAND_MAX_RECOVERY_RESTARTS
    MaxChanges,     \* bound: displays plugged and unplugged
    MaxFaults       \* bound: failing probes, unwritable directory, reboots

WatchdogAssumption ==
    Cap \in Nat \ {0} /\ MaxChanges \in Nat /\ MaxFaults \in Nat

VARIABLES
    display,    \* what the cable leads to
    modes,      \* the kernel has read its EDID
    bound,      \* cage has an output
    up,         \* the container runs
    pc,         \* of a tick: "idle", "probe", "act"
    wedged,     \* _headless_wedge_since: "no", "grace" or "past" it
    restarts, thisBoot, \* .wayland_recovery, and whether it is of this boot
    writable,   \* the configuration directory can be written
    spent,      \* history: restarts since a display was bound or none there
    doubted,    \* history: a probe has failed since
    dud,        \* history: a display that cannot be bound was plugged in
    changes, faults \* bounds

cable == <<display, modes>>
file == <<restarts, thisBoot>>
history == <<spent, doubted, dud>>
vars == <<cable, bound, up, pc, wedged, file, writable, history, changes,
          faults>>

\* "bridge": a display behind a bridge that reports the status "unknown";
\* "dud": one that asserts hotplug and never delivers an EDID.
Display == {"none", "screen", "bridge", "dud"}
Bindable(d) == d \in {"screen", "bridge"}

Init ==
    /\ display \in Display /\ modes = Bindable(display) /\ bound = modes
    /\ up = TRUE /\ pc = "idle" /\ wedged = "no"
    /\ restarts = 0 /\ thisBoot = FALSE /\ writable = TRUE
    /\ spent = 0 /\ doubted = FALSE /\ dud = (display = "dud")
    /\ changes = MaxChanges /\ faults = MaxFaults

Fault == faults > 0 /\ faults' = faults - 1

-----------------------------------------------------------------------------
(* The watchdog. *)

\* Mutant: the restarts are counted by the process that is restarted.
RestartsOfProcess == 0

\* A file of an earlier boot counts for nothing.
RestartsThisBoot == IF thisBoot THEN restarts ELSE 0

Write(n) ==
    IF writable THEN restarts' = n /\ thisBoot' = TRUE ELSE UNCHANGED file

\* The episode is over: the timer and the budget are cleared.
ResetRecovery ==
    /\ wedged' = "no" /\ pc' = "idle"
    /\ IF RestartsThisBoot = 0 THEN UNCHANGED file ELSE Write(0)

\* Modes that can be read, or a connector that says "connected".
DisplayPresent == modes \/ display \in {"screen", "dud"}

Look ==
    /\ up /\ pc = "idle"
    /\ IF DisplayPresent THEN pc' = "probe" /\ UNCHANGED <<wedged, file, history>>
       ELSE ResetRecovery /\ spent' = 0 /\ doubted' = FALSE /\ UNCHANGED dud
    /\ UNCHANGED <<cable, bound, up, writable, changes, faults>>

\* wlr-randr is missing, exits non-zero or takes too long: "can't tell".
ProbeFails ==
    /\ up /\ pc = "probe" /\ Fault
    /\ ResetRecovery
    /\ doubted' = TRUE
    /\ UNCHANGED <<cable, bound, up, writable, spent, dud, changes>>

Probe ==
    /\ up /\ pc = "probe"
    /\ IF bound THEN ResetRecovery /\ spent' = 0 /\ doubted' = FALSE
       ELSE pc' = "act" /\ UNCHANGED <<wedged, file, spent, doubted>>
    /\ UNCHANGED <<cable, bound, up, writable, dud, changes, faults>>

WithinGrace ==
    /\ up /\ pc = "act" /\ wedged # "past"
    /\ wedged' = "grace" /\ pc' = "idle"
    /\ UNCHANGED <<cable, bound, up, file, writable, history, changes, faults>>

\* Past the cap, or where the count cannot be kept, it stays quiet.
Quiet == RestartsThisBoot >= Cap \/ ~writable

StaysQuiet ==
    /\ up /\ pc = "act" /\ wedged = "past" /\ Quiet
    /\ pc' = "idle"
    /\ UNCHANGED <<cable, bound, up, wedged, file, writable, history, changes,
                   faults>>

\* sys.exit(1), with the restart on record.
RestartsContainer ==
    /\ up /\ pc = "act" /\ wedged = "past" /\ ~Quiet
    /\ Write(RestartsThisBoot + 1)
    /\ up' = FALSE /\ spent' = spent + 1
    /\ UNCHANGED <<cable, bound, pc, wedged, writable, doubted, dud, changes,
                   faults>>

-----------------------------------------------------------------------------
(* The device. *)

GracePasses ==
    /\ up /\ wedged = "grace"
    /\ wedged' = "past"
    /\ UNCHANGED <<cable, bound, up, pc, file, writable, history, changes,
                   faults>>

Enumerates ==
    /\ modes' = Bindable(display) /\ bound' = Bindable(display)
    /\ up' = TRUE /\ pc' = "idle" /\ wedged' = "no"

\* Docker recreates the container; cage enumerates and reads the EDIDs.
ContainerStarts ==
    /\ ~up /\ Enumerates
    /\ UNCHANGED <<display, file, writable, history, changes, faults>>

\* No uevent reaches cage.  The kernel need not have read the EDID of a
\* display that appears while cage holds the output disabled.
Plug(d) ==
    /\ changes > 0 /\ changes' = changes - 1
    /\ d # display /\ display' = d
    /\ modes' \in IF Bindable(d) THEN BOOLEAN ELSE {FALSE}
    /\ dud' = (dud \/ d = "dud")
    /\ UNCHANGED <<bound, up, pc, wedged, file, writable, spent, doubted, faults>>

Reboot ==
    /\ Fault /\ Enumerates
    /\ thisBoot' = FALSE
    /\ spent' = 0 /\ doubted' = FALSE /\ dud' = (display = "dud")
    /\ UNCHANGED <<display, restarts, writable, changes>>

DirectoryFails ==
    /\ writable /\ Fault /\ writable' = FALSE
    /\ UNCHANGED <<cable, bound, up, pc, wedged, file, history, changes>>

DirectoryRecovers ==
    /\ ~writable /\ writable' = TRUE
    /\ UNCHANGED <<cable, bound, up, pc, wedged, file, history, changes, faults>>

Tick ==
    \/ Look \/ Probe \/ WithinGrace \/ StaysQuiet \/ RestartsContainer

Next ==
    \/ Tick \/ ProbeFails \/ GracePasses \/ ContainerStarts
    \/ \E d \in Display : Plug(d)
    \/ Reboot \/ DirectoryFails \/ DirectoryRecovers

\* The loop ticks, time passes, Docker restarts what has exited.
Fairness ==
    WF_vars(Tick) /\ WF_vars(GracePasses) /\ WF_vars(ContainerStarts)
    /\ WF_vars(DirectoryRecovers)

Spec == Init /\ [][Next]_vars /\ Fairness

-----------------------------------------------------------------------------
(* Properties. *)

\* A display nobody can bind costs at most Cap restarts until one is bound,
\* none is there or the device reboots, provided the probes answer.
RestartsAreCapped == ~doubted => spent <= Cap

\* What the comment at the cap says, without the proviso.
CappedWithinBoot == spent <= Cap

\* A screen that stays connected comes up, whenever it was switched on and
\* whatever was connected in earlier boots, unless a dud has used up the
\* restarts of this one.
ScreenIsUp == bound \/ display # "screen" \/ dud
ScreenComesUp == []<>ScreenIsUp
=============================================================================
