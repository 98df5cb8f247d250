----------------------------- MODULE WifiSetup -----------------------------
(***************************************************************************)
(* The Wi-Fi setup screen: the portal of wifi-connect, the server that     *)
(* says whether one is up, the reporter thread of the viewer that asks it, *)
(* and the loop that shows the setup page and, once, the splash after it   *)
(* (src/src/anthias_viewer/__init__.py, anthias_server/lib/                *)
(* wifi_connect.py, anthias_server/api/views/v2.py).                       *)
(*                                                                         *)
(* A portal that is killed leaves its state file and its access point.     *)
(* The addresses the server knows lag behind those of the host; HostAgent  *)
(* models why, here the cache is refreshed at some later time.             *)
(***************************************************************************)
EXTENDS Integers

CONSTANTS
    MaxChanges,     \* bound: networks lost and found, commands of the operator
    MaxFaults       \* bound: kills, clock jumps, polls without an answer

SetupAssumption == MaxChanges \in Nat /\ MaxFaults \in Nat

VARIABLES
    have, cached, \* addresses of the host, and what the server knows of them
    portal,     \* "none", "starting", "up", or "killed" with everything left
    stale,      \* its last heartbeat is too old
    splashOn,   \* settings['show_splash']
    reporter, verdict, \* the poll, and the answer it has
    active,     \* _wifi_setup_active
    gateway,    \* _wifi_setup_portal_gateway is known
    pending, showing, \* _wifi_setup_splash_pending and _showing
    loop,       \* the main thread
    stopped, skip, \* loop_is_stopped and the skip event
    screen,     \* what the loop has put up last
    owed,       \* history: a portal run has ended, no splash since
    changes, faults \* bounds

host == <<have, cached>>
portalVars == <<portal, stale>>
poll == <<reporter, verdict>>
flags == <<active, gateway, pending, showing>>
commands == <<stopped, skip>>
vars == <<host, portalVars, splashOn, poll, flags, loop, commands, screen, owed,
          changes, faults>>

\* "ap" is the address of the portal itself.
Own == "lan"
Portal == "ap"

Init ==
    /\ have \in {{}, {Own}} /\ cached \in {{}, {Own}}
    /\ portal = "none" /\ stale = FALSE
    /\ splashOn \in BOOLEAN
    /\ reporter = "idle" /\ verdict = "inactive"
    /\ active = FALSE /\ gateway = FALSE
    /\ pending = FALSE /\ showing = FALSE
    /\ loop = "tick" /\ stopped = FALSE /\ skip = FALSE
    /\ screen = "playlist" /\ owed = FALSE
    /\ changes = MaxChanges /\ faults = MaxFaults

Fault == faults > 0 /\ faults' = faults - 1
Change == changes > 0 /\ changes' = changes - 1

-----------------------------------------------------------------------------
(* The portal and the network. *)

LosesNetwork ==
    /\ Own \in have /\ Change
    /\ have' = have \ {Own}
    /\ UNCHANGED <<cached, portalVars, splashOn, poll, flags, loop, commands,
                   screen, owed, faults>>

\* The state file comes before the access point; a killed run starts anew.
PortalCommits ==
    /\ portal \in {"none", "killed"} /\ Own \notin have
    /\ portal' = "starting" /\ stale' = FALSE
    /\ UNCHANGED <<host, splashOn, poll, flags, loop, commands, screen, owed,
                   changes, faults>>

PortalRaises ==
    /\ portal = "starting"
    /\ portal' = "up" /\ have' = have \cup {Portal}
    /\ UNCHANGED <<cached, stale, splashOn, poll, flags, loop, commands, screen,
                   owed, changes, faults>>

\* Somebody picked a network: file and access point go.
PortalEnds ==
    /\ portal = "up" /\ Change
    /\ portal' = "none" /\ have' = have \ {Portal}
    /\ UNCHANGED <<cached, stale, splashOn, poll, flags, loop, commands, screen,
                   owed, faults>>

PortalKilled ==
    /\ portal = "up" /\ Fault
    /\ portal' = "killed"
    /\ UNCHANGED <<host, stale, splashOn, poll, flags, loop, commands, screen,
                   owed, changes>>

JoinsNetwork ==
    /\ portal = "none" /\ Own \notin have
    /\ have' = have \cup {Own}
    /\ UNCHANGED <<cached, portalVars, splashOn, poll, flags, loop, commands,
                   screen, owed, changes, faults>>

HeartbeatLapses ==
    /\ portal = "killed" /\ ~stale
    /\ stale' = TRUE
    /\ UNCHANGED <<host, portal, splashOn, poll, flags, loop, commands, screen,
                   owed, changes, faults>>

\* The time is set while a portal runs: its last beat looks ancient.
ClockJumps ==
    /\ portal = "up" /\ ~stale /\ Fault
    /\ stale' = TRUE
    /\ UNCHANGED <<host, portal, splashOn, poll, flags, loop, commands, screen,
                   owed, changes>>

BeatLands ==
    /\ portal = "up" /\ stale
    /\ stale' = FALSE
    /\ UNCHANGED <<host, portal, splashOn, poll, flags, loop, commands, screen,
                   owed, changes, faults>>

CacheRefreshes ==
    /\ cached # have /\ cached' = have
    /\ UNCHANGED <<have, portalVars, splashOn, poll, flags, loop, commands,
                   screen, owed, changes, faults>>

-----------------------------------------------------------------------------
(* The server. *)

\* Mutant: the heartbeat is not looked at.
PortalHasFile == portal # "none"

\* read_portal_state(): the file is there and its heartbeat is recent.
PortalLive == portal # "none" /\ ~stale

\* wifi_setup_state(): a live run whose address the host has.
SetupActive == PortalLive /\ Portal \in cached

\* The addresses of the splash page, without that of a live portal.
SafeAddresses == IF PortalLive THEN cached \ {Portal} ELSE cached

-----------------------------------------------------------------------------
(* The reporter thread. *)

\* An unanswered poll says "no portal", but not that one has ended.
Polls ==
    /\ reporter = "idle"
    /\ \/ /\ verdict' = IF SetupActive THEN "active" ELSE "inactive"
          /\ UNCHANGED faults
       \/ Fault /\ verdict' = "unanswered"
    /\ gateway' = (gateway \/ verdict' = "active")
    /\ reporter' = "lock"
    /\ UNCHANGED <<host, portalVars, splashOn, active, pending, showing, loop,
                   commands, screen, owed, changes>>

\* Under the lock; a portal that ends while the splash shows is part of it.
QueuesSplash ==
    /\ reporter = "lock" /\ reporter' = "store"
    /\ IF active /\ verdict = "inactive"
       THEN pending' = (pending \/ ~showing) /\ owed' = TRUE
       ELSE UNCHANGED <<pending, owed>>
    /\ UNCHANGED <<host, portalVars, splashOn, verdict, active, gateway, showing,
                   loop, commands, screen, changes, faults>>

StoresActive ==
    /\ reporter = "store" /\ reporter' = "idle"
    /\ active' = (verdict = "active")
    /\ UNCHANGED <<host, portalVars, splashOn, verdict, gateway, pending,
                   showing, loop, commands, screen, owed, changes, faults>>

Report == Polls \/ QueuesSplash \/ StoresActive

-----------------------------------------------------------------------------
(* The main thread. *)

\* asset_loop(): the setup page, else the splash that is pending, else content.
Ticks ==
    /\ loop = "tick" /\ ~stopped
    /\ IF active
       THEN screen' = "setup" /\ UNCHANGED <<loop, pending, showing>>
       ELSE IF pending
       THEN /\ loop' = "enter" /\ pending' = FALSE /\ showing' = TRUE
            /\ UNCHANGED screen
       ELSE screen' = "playlist" /\ UNCHANGED <<loop, pending, showing>>
    /\ UNCHANGED <<host, portalVars, splashOn, poll, active, gateway, commands,
                   owed, changes, faults>>

EntersSplash ==
    /\ loop = "enter"
    /\ skip' = FALSE
    /\ IF stopped \/ active \/ ~splashOn
       THEN loop' = "leave" /\ owed' = FALSE /\ UNCHANGED screen
       ELSE loop' = "hold" /\ screen' = "splash" /\ owed' = FALSE
    /\ UNCHANGED <<host, portalVars, splashOn, poll, flags, stopped, changes,
                   faults>>

\* Mutant: it takes whatever the endpoint lists.
ReachableOrNot == SafeAddresses

\* _post_wifi_setup_addresses(): the gateway it remembers is no answer.
Reachable == SafeAddresses \ (IF gateway THEN {Portal} ELSE {})

\* The wait for an address: the splash stays until there is one, until a
\* command or a portal interrupts it, or until it has waited long enough.
HoldsSplash ==
    /\ loop = "hold"
    /\ loop' = IF Reachable # {} THEN "shown" ELSE "leave"
    /\ UNCHANGED <<host, portalVars, splashOn, poll, flags, commands, screen,
                   owed, changes, faults>>

\* The full delay, or until a command or a portal ends it.
SplashShown ==
    /\ loop = "shown"
    /\ loop' = "leave"
    /\ UNCHANGED <<host, portalVars, splashOn, poll, flags, commands, screen,
                   owed, changes, faults>>

LeavesSplash ==
    /\ loop = "leave"
    /\ loop' = "tick" /\ showing' = FALSE
    /\ UNCHANGED <<host, portalVars, splashOn, poll, active, gateway, pending,
                   commands, screen, owed, changes, faults>>

Loop == Ticks \/ EntersSplash \/ HoldsSplash \/ SplashShown \/ LeavesSplash

\* blank or stop, play, next: the wake-up goes with each of them.
Operator ==
    /\ Change
    /\ stopped' \in BOOLEAN /\ skip' = TRUE
    /\ UNCHANGED <<host, portalVars, splashOn, poll, flags, loop, screen, owed,
                   faults>>

Environment ==
    \/ LosesNetwork \/ PortalCommits \/ PortalRaises \/ PortalEnds
    \/ PortalKilled \/ JoinsNetwork \/ HeartbeatLapses \/ ClockJumps
    \/ BeatLands \/ CacheRefreshes \/ Operator

Next == Environment \/ Report \/ Loop

\* Both threads go on, addresses reach the server, time passes.
Fairness ==
    /\ WF_vars(Report) /\ WF_vars(Loop) /\ WF_vars(CacheRefreshes)
    /\ WF_vars(PortalRaises) /\ WF_vars(HeartbeatLapses \/ BeatLands)

Spec == Init /\ [][Next]_vars /\ Fairness

-----------------------------------------------------------------------------
(* Properties. *)

\* A portal that stays up gets the setup page onto the screen, and one that
\* is gone, even killed with its file and its access point left behind,
\* gives the screen back.
PortalIsFollowed == stopped \/ (screen = "setup" <=> portal = "up")
SetupFollowsPortal == []<>PortalIsFollowed

\* The splash ends its wait for an address on one that is the device's own
\* and never on that of the portal, however long the cache still lists it.
SplashShowsOwnAddress ==
    [][loop = "hold" /\ loop' = "shown" => Own \in cached]_vars

\* The end of a run that the server has answered brings the splash.
SplashIsNotLost ==
    owed /\ reporter = "idle" /\ ~active => pending \/ showing
=============================================================================
