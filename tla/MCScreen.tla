------------------------------ MODULE MCScreen ------------------------------
(***************************************************************************)
(* What puts content on the screen: the View widget, its video surface,    *)
(* the framebuffer player of the boards that have no such surface, the     *)
(* watchdog of the compositor they draw on, and the Wi-Fi setup page.      *)
(* They share no variable here, so "part" names the one that moves while   *)
(* the others stay in an initial state, where no step is owed to fairness. *)
(***************************************************************************)
EXTENDS ViewLoads

CONSTANTS
    Clip, MaxPlays, MaxQueued, MaxErrors,   \* of the video surface
    MaxShows, MaxResets, MaxMishaps,    \* of the framebuffer player
    Cap, MaxPlugs, MaxUpsets,           \* of the watchdog
    MaxMoves, MaxOutages                \* of the setup page

VARIABLES
    part,
    mode, playing, surface, incoming, ready, parked, rendering, latest,
    stashed, flag, drains, draining, phase, armed, segment, overlay, audio,
    stops, plays, errors,
    instance, made, handle, pc, on, target, todo, spawned, clip, helper,
    sound, killed, resets, mishaps,
    display, modes, bound, up, tick, wedged, restarts, thisBoot, writable,
    spent, doubted, dud, plugs, upsets,
    have, cached, portal, stale, splashOn, reporter, verdict, active, gateway,
    queued, showing, loop, stopped, skip, screen, owed, moves, outages

Surface == INSTANCE VideoSurface WITH Modes <- {"scene", "gst"}

Fbdev == INSTANCE FbdevPlayer WITH
    phase <- helper, audio <- sound, errors <- mishaps,
    MaxPlays <- MaxShows, MaxErrors <- MaxMishaps

Dog == INSTANCE WaylandWatchdog WITH
    pc <- tick, changes <- plugs, faults <- upsets,
    MaxChanges <- MaxPlugs, MaxFaults <- MaxUpsets

Setup == INSTANCE WifiSetup WITH
    pending <- queued, changes <- moves, faults <- outages,
    MaxChanges <- MaxMoves, MaxFaults <- MaxOutages

ASSUME ScreenAssumption ==
    /\ ViewAssumption
    /\ Surface!SurfaceAssumption /\ Fbdev!FbdevAssumption
    /\ Dog!WatchdogAssumption /\ Setup!SetupAssumption

surfaceVars == <<mode, playing, surface, incoming, ready, parked, rendering,
                 latest, stashed, flag, drains, draining, phase, armed,
                 segment, overlay, audio, stops, plays, errors>>
fbdevVars == <<instance, made, handle, pc, on, target, todo, spawned, clip,
               helper, sound, killed, resets, mishaps>>
dogVars == <<display, modes, bound, up, tick, wedged, restarts, thisBoot,
             writable, spent, doubted, dud, plugs, upsets>>
setupVars == <<have, cached, portal, stale, splashOn, reporter, verdict, active,
               gateway, queued, showing, loop, stopped, skip, screen, owed,
               moves, outages>>
allVars == <<part, vars, surfaceVars, fbdevVars, dogVars, setupVars>>

MCInit ==
    /\ part \in {"view", "surface", "fbdev", "watchdog", "setup"}
    /\ Init /\ Surface!Init /\ Fbdev!Init
    /\ Dog!Init /\ Setup!Init
    /\ part # "surface" => mode = "gst"
    /\ part # "watchdog" => display = "screen"
    /\ part # "setup" => splashOn /\ have = cached /\ have = {}

Rest(p) ==
    /\ UNCHANGED part
    /\ p # "view" => UNCHANGED vars
    /\ p # "surface" => UNCHANGED surfaceVars
    /\ p # "fbdev" => UNCHANGED fbdevVars
    /\ p # "watchdog" => UNCHANGED dogVars
    /\ p # "setup" => UNCHANGED setupVars

Only(p, Act) == part = p /\ Act /\ Rest(p)

MCNext ==
    \/ Only("view", Next) \/ Only("surface", Surface!Next)
    \/ Only("fbdev", Fbdev!Next) \/ Only("watchdog", Dog!Next)
    \/ Only("setup", Setup!Next)

\* The fairness of the modules, side by side.
MCFairness ==
    /\ WF_allVars(\/ Only("view", PageLoads)
                  \/ Only("surface", Surface!Delivered)
                  \/ Only("watchdog", Dog!Tick) \/ Only("setup", Setup!Report))
    /\ WF_allVars(\/ Only("view", LateAbort)
                  \/ Only("surface", Surface!SceneRendered)
                  \/ Only("watchdog", Dog!GracePasses)
                  \/ Only("setup", Setup!Loop))
    /\ WF_allVars(\/ Only("view", \E r \in fetches : Fetched(r))
                  \/ Only("surface", Surface!Decode \/ Surface!Post)
                  \/ Only("watchdog", Dog!ContainerStarts)
                  \/ Only("setup", Setup!CacheRefreshes))
    /\ WF_allVars(\/ Only("surface", Surface!Drained)
                  \/ Only("watchdog", Dog!DirectoryRecovers)
                  \/ Only("setup", Setup!PortalRaises))
    /\ WF_allVars(\/ Only("surface", Surface!Plays)
                  \/ Only("setup", Setup!HeartbeatLapses \/ Setup!BeatLands))
    /\ WF_allVars(Only("surface", Surface!QueuedStop))
    /\ SF_allVars(\/ Only("view", Undisturbed /\ PageLoads)
                  \/ Only("surface", Surface!Stash \/ Surface!OverlayBuffer))
    /\ SF_allVars(\/ Only("view", engine = None /\ WatchdogFires)
                  \/ Only("surface", Surface!Drain))

MCSpec == MCInit /\ [][MCNext]_allVars /\ MCFairness

RestartsAreCapped == Dog!RestartsAreCapped
SplashShowsOwnAddress == Setup!SplashShowsOwnAddress

\* PageComesUp, ClipStaysInMotion, ScreenComesUp and SetupFollowsPortal, each
\* of the part that moves.
ScreenFollows ==
    []<>(/\ part = "view" => PageIsUp
         /\ part = "surface" => Surface!InMotion
         /\ part = "watchdog" => Dog!ScreenIsUp
         /\ part = "setup" => Setup!PortalIsFollowed)

\* Both players keep the promise; the framebuffer player, which has no frame
\* of its own on its way, does so until the first reset.
Promised == INSTANCE Player WITH
    asked <- CASE part = "surface" -> playing
               [] part = "fbdev" /\ resets = MaxResets -> Fbdev!Asked
               [] OTHER -> None,
    frames <- CASE part = "surface" -> Surface!Frames
                [] part = "fbdev" /\ resets = MaxResets -> Fbdev!Frames
                [] OTHER -> {},
    late <- IF part = "surface" THEN Surface!Late ELSE {}

PlayersKeepPromise == Promised!Spec
=============================================================================
