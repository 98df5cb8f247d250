---------------------------- MODULE WebviewSpawn ----------------------------
(***************************************************************************)
(* load_browser(): spawning AnthiasViewer until one of the attempts gets   *)
(* it onto the D-Bus (src/src/anthias_viewer/__init__.py).                 *)
(*                                                                         *)
(* An attempt waits for the compositor, clears the bus name of a process   *)
(* that outlived an earlier attempt, spawns, and waits for the handshake   *)
(* line, all within one deadline.  A pid is only a number: the kernel      *)
(* gives it to another process once its own has been reaped.               *)
(***************************************************************************)
EXTENDS Integers

CONSTANTS
    Pid,
    None,
    MaxAttempts,    \* max_attempts of load_browser()
    MaxFaults       \* bound: crashes, stuck processes, failing probes

SpawnAssumption ==
    None \notin Pid /\ MaxAttempts \in Nat \ {0} /\ MaxFaults \in Nat

VARIABLES
    cage,       \* the compositor accepts connections
    screen,     \* the display device is in the container's /dev
    pidfd,      \* the kernel has pidfd_open()
    proc, gen,  \* what has each pid, and how many had it before
    owner,      \* the pid the bus takes for the owner of anthias.viewer
    pc, attempt, late, \* load_browser(); late: the deadline has passed
    target, pin,\* the owner it found, and its hold on that process
    candidate,  \* the process it spawned: <<pid, gen>>
    browser,    \* the handle of the caller
    hit,        \* history: a signal of the reclaim reached a stranger
    faults      \* bound

world == <<cage, screen, pidfd>>
kernel == <<proc, gen>>
loader == <<pc, attempt, late, target, pin, candidate>>
vars == <<world, kernel, owner, loader, browser, hit, faults>>

Viewer == {"starting", "serving", "stuck", "dying"}

Init ==
    /\ cage \in BOOLEAN /\ screen \in BOOLEAN /\ pidfd \in BOOLEAN
    /\ proc = [p \in Pid |-> "free"] /\ gen = [p \in Pid |-> 0]
    /\ owner = None
    /\ pc = "idle" /\ attempt = 0 /\ late = FALSE
    /\ target = None /\ pin = None /\ candidate = None
    /\ browser = None
    /\ hit = FALSE
    /\ faults = MaxFaults

Fault == faults > 0 /\ faults' = faults - 1

Alive(handle) ==
    handle # None /\ gen[handle[1]] = handle[2] /\ proc[handle[1]] # "free"

Becomes(p, what) == proc' = [proc EXCEPT ![p] = what]

-----------------------------------------------------------------------------
(* One attempt. *)

\* The handle is dropped before anything else.
LoadBrowser ==
    /\ pc = "idle" /\ ~Alive(browser)
    /\ pc' = "wait" /\ attempt' = 1 /\ late' = FALSE
    /\ browser' = None
    /\ UNCHANGED <<world, kernel, owner, target, pin, candidate, hit, faults>>

\* At the deadline it launches anyway.
WaitForWaylandSocket ==
    /\ pc = "wait" /\ (cage \/ late)
    /\ pc' = "probe"
    /\ UNCHANGED <<world, kernel, owner, attempt, late, target, pin, candidate,
                   browser, hit, faults>>

DeadlinePasses ==
    /\ pc \in {"wait", "handshake"} /\ ~late
    /\ late' = TRUE
    /\ UNCHANGED <<world, kernel, owner, pc, attempt, target, pin, candidate,
                   browser, hit, faults>>

\* The next attempt, or out of load_browser() and of the process.
Fails ==
    IF attempt < MaxAttempts
    THEN pc' = "wait" /\ attempt' = attempt + 1 /\ late' = FALSE
    ELSE pc' = "raised" /\ UNCHANGED <<attempt, late>>

\* A bus that cannot be read counts as a free name.
ProbeOwner ==
    /\ pc = "probe"
    /\ \/ /\ IF owner = None THEN pc' = "spawn" /\ UNCHANGED target
             ELSE pc' = "pin" /\ target' = owner
          /\ UNCHANGED faults
       \/ owner # None /\ Fault /\ pc' = "spawn" /\ UNCHANGED target
    /\ UNCHANGED <<world, kernel, owner, attempt, late, pin, candidate, browser,
                   hit>>

\* _signal_target(): a pidfd, the bare number, or nothing at all.
Pin ==
    /\ pc = "pin" /\ pc' = "confirm"
    /\ \/ /\ pin' = CASE ~pidfd -> <<target, 0>>
                      [] proc[target] = "free" -> None
                      [] OTHER -> <<target, gen[target]>>
          /\ UNCHANGED faults
       \/ pidfd /\ Fault /\ pin' = None     \* out of descriptors
    /\ UNCHANGED <<world, kernel, owner, attempt, late, target, candidate,
                   browser, hit>>

\* Mutant: the owner is not looked up again once the process is pinned.
ConfirmSkipped ==
    /\ pc = "confirm" /\ pc' = "SIGTERM"
    /\ UNCHANGED <<world, kernel, owner, attempt, late, target, pin, candidate,
                   browser, hit, faults>>

\* The pid may have changed hands before it was pinned.
Confirm ==
    /\ pc = "confirm"
    /\ CASE owner = target -> pc' = "SIGTERM" /\ UNCHANGED <<attempt, late>>
         [] owner = None -> pc' = "spawn" /\ UNCHANGED <<attempt, late>>
         [] OTHER -> Fails
    /\ UNCHANGED <<world, kernel, owner, target, pin, candidate, browser, hit,
                   faults>>

\* A bare number reaches whatever has it; a pidfd only its own process.
Reached ==
    /\ pin # None
    /\ proc[pin[1]] # "free"
    /\ pidfd => gen[pin[1]] = pin[2]

SendSignal ==
    /\ pc \in {"SIGTERM", "SIGKILL"}
    /\ pc' = IF pc = "SIGTERM" THEN "termed" ELSE "killed"
    /\ IF Reached
       THEN /\ hit' = (hit \/ proc[pin[1]] = "stranger")
            /\ IF proc[pin[1]] = "stuck" /\ pc = "SIGTERM"
               THEN UNCHANGED proc ELSE Becomes(pin[1], "dying")
       ELSE UNCHANGED <<proc, hit>>
    /\ UNCHANGED <<world, gen, owner, attempt, late, target, pin, candidate,
                   browser, faults>>

\* The phase ends with the name free, or with its time: on to SIGKILL, and
\* then to the next attempt.
NameIsFree ==
    /\ pc \in {"termed", "killed"} /\ owner = None
    /\ pc' = "spawn"
    /\ UNCHANGED <<world, kernel, owner, attempt, late, target, pin, candidate,
                   browser, hit, faults>>

NameStaysTaken ==
    /\ pc \in {"termed", "killed"} /\ owner # None
    /\ IF pc = "termed" THEN pc' = "SIGKILL" /\ UNCHANGED <<attempt, late>>
       ELSE Fails
    /\ UNCHANGED <<world, kernel, owner, target, pin, candidate, browser, hit,
                   faults>>

SpawnWebview(p) ==
    /\ pc = "spawn" /\ proc[p] = "free"
    /\ Becomes(p, "starting")
    /\ gen' = [gen EXCEPT ![p] = @ + 1]
    /\ candidate' = <<p, gen[p] + 1>>
    /\ pc' = "handshake"
    /\ UNCHANGED <<world, owner, attempt, late, target, pin, browser, hit,
                   faults>>

\* "Anthias service start" is printed once the name is registered, and stays
\* in the output whatever became of the process since.
Handshake ==
    /\ pc = "handshake"
    /\ gen[candidate[1]] = candidate[2] /\ proc[candidate[1]] = "serving"
    /\ browser' = candidate /\ pc' = "idle" /\ attempt' = 0
    /\ UNCHANGED <<world, kernel, owner, late, target, pin, candidate, hit,
                   faults>>

\* No retry can bring back a display device that has vanished.
ExitsBeforeHandshake ==
    /\ pc = "handshake" /\ ~Alive(candidate)
    /\ IF screen THEN Fails ELSE pc' = "raised" /\ UNCHANGED <<attempt, late>>
    /\ UNCHANGED <<world, kernel, owner, target, pin, candidate, browser, hit,
                   faults>>

\* _terminate_webview(): a process that is stuck may outlast it.
HandshakeTimesOut ==
    /\ pc = "handshake" /\ late /\ Alive(candidate)
    /\ proc[candidate[1]] \in Viewer \ {"serving"}
    /\ Fails
    /\ \/ Becomes(candidate[1], "free")
       \/ proc[candidate[1]] = "stuck" /\ Becomes(candidate[1], "dying")
    /\ UNCHANGED <<world, gen, owner, target, pin, candidate, browser, hit,
                   faults>>

Load ==
    \/ LoadBrowser \/ WaitForWaylandSocket \/ DeadlinePasses
    \/ ProbeOwner \/ Pin \/ Confirm \/ SendSignal
    \/ NameIsFree \/ NameStaysTaken
    \/ \E p \in Pid : SpawnWebview(p)
    \/ Handshake \/ ExitsBeforeHandshake \/ HandshakeTimesOut

-----------------------------------------------------------------------------
(* The processes, the bus and the compositor. *)

\* Mutant: a process whose registration is refused announces itself as well.
RegistersAnyway(p) ==
    /\ proc[p] = "starting"
    /\ IF cage /\ screen
       THEN Becomes(p, "serving") /\ owner' = IF owner = None THEN p ELSE owner
       ELSE Becomes(p, "free") /\ UNCHANGED owner
    /\ UNCHANGED <<world, gen, loader, browser, hit, faults>>

\* Registration is refused while the bus knows another owner, and a process
\* without compositor or display never gets that far.
Registers(p) ==
    /\ proc[p] = "starting"
    /\ IF cage /\ screen /\ owner = None
       THEN Becomes(p, "serving") /\ owner' = p
       ELSE Becomes(p, "free") /\ UNCHANGED owner
    /\ UNCHANGED <<world, gen, loader, browser, hit, faults>>

\* Gone and reaped; the bus hears of it later.
Exits(p) ==
    /\ \/ proc[p] = "dying" /\ UNCHANGED faults
       \/ proc[p] \in {"starting", "serving"} /\ Fault
    /\ Becomes(p, "free")
    /\ UNCHANGED <<world, gen, owner, loader, browser, hit>>

\* Uninterruptible for a moment; then it registers late, or exits.
GetsStuck(p) ==
    /\ proc[p] \in {"starting", "serving"} /\ Fault
    /\ Becomes(p, "stuck")
    /\ UNCHANGED <<world, gen, owner, loader, browser, hit>>

GetsUnstuck(p) ==
    /\ proc[p] = "stuck"
    /\ Becomes(p, IF owner = p THEN "serving" ELSE "starting")
    /\ UNCHANGED <<world, gen, owner, loader, browser, hit, faults>>

BusNotices ==
    /\ owner # None /\ proc[owner] \notin Viewer
    /\ owner' = None
    /\ UNCHANGED <<world, kernel, loader, browser, hit, faults>>

\* Another process of the container gets a number that is free, but not
\* before the bus has seen its last owner go.
StrangerStarts(p) ==
    /\ proc[p] = "free" /\ gen[p] > 0 /\ owner # p /\ Fault
    /\ Becomes(p, "stranger") /\ gen' = [gen EXCEPT ![p] = @ + 1]
    /\ UNCHANGED <<world, owner, loader, browser, hit>>

CageChanges ==
    /\ Fault /\ cage' = ~cage
    /\ UNCHANGED <<screen, pidfd, kernel, owner, loader, browser, hit>>

Environment ==
    \/ \E p \in Pid :
          \/ Registers(p) \/ Exits(p) \/ GetsStuck(p) \/ GetsUnstuck(p)
          \/ StrangerStarts(p)
    \/ BusNotices \/ CageChanges

Next == Load \/ Environment

Spec == Init /\ [][Next]_vars

-----------------------------------------------------------------------------
(* Properties. *)

\* With a pidfd no signal of the reclaim ever reaches a process that is not
\* an AnthiasViewer, however long ago its pid was read.
OnlyViewersAreSignalled == pidfd => ~hit

\* The process load_browser() has returned is the one the bus delivers its
\* calls to, as long as it lives, whatever an earlier attempt left behind.
HandleOwnsName == Alive(browser) => owner = browser[1]
=============================================================================
