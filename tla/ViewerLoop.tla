----------------------------- MODULE ViewerLoop -----------------------------
(***************************************************************************)
(* The viewer's playback loop and the commands that steer it               *)
(* (src/src/anthias_viewer/__init__.py, playback.py).                      *)
(*                                                                         *)
(* The main thread runs start_loop()/asset_loop(): it picks an asset,      *)
(* shows it, clears the skip event and then waits on that event for the    *)
(* asset's duration.  The subscriber thread runs one command handler at a  *)
(* time; it steers the main thread through three module globals and the    *)
(* event.  Handlers are written as scripts of their assignments, so that   *)
(* the main thread may run between any two of them.                        *)
(***************************************************************************)
EXTENDS Integers, Sequences

CONSTANTS
    Asset,
    Video,          \* the assets that are videos or streams
    Broken,         \* the assets _asset_is_displayable() turns down
    Loops,          \* plays of an asset before the rotation moves on
    MaxCommands     \* bound: commands an operator sends
LoopAssumption ==
    /\ Video \subseteq Asset /\ Broken \subseteq Asset
    /\ Loops \in Nat \ {0}
    /\ MaxCommands \in Nat
    /\ \A a \in Asset : a \notin {"standby", "black", "null", "none"}

VARIABLES
    active,     \* assets some occurrence of which evaluate_playlist() returns
    owedReload, \* the server has changed rows and will publish "reload"
    commands,   \* bound: commands left
    \* The main thread.
    pc,
    asset,      \* what this tick shows: an asset, or "none"
    replay,     \* loop_index
    screen,     \* what the webview or the video player paints
    \* Shared between the threads.
    stopped,    \* loop_is_stopped
    blanked,    \* display_blanked
    skip,       \* skip_event
    currentId,  \* scheduler.current_asset_id
    \* The subscriber thread and the output.
    script,     \* assignments the running handler has still to make
    checked,    \* current_id as _skip_if_current_asset_inactive() read it
    powered,    \* the compositor's output is on
    refused,    \* history: the last wlr-randr call for its power failed
    wayland     \* the board has a compositor that can power the output

main == <<pc, asset, replay, screen, currentId>>
flags == <<stopped, blanked, skip>>
subscriber == <<script, checked, powered, refused, wayland>>
vars == <<active, owedReload, commands, main, flags, subscriber>>

Paint == Asset \cup {"standby", "black", "null"}
Op == {"skip", "stop", "run", "dark", "light", "off", "on", "read", "check"}

\* Besides the types: only a compositor switches the output off.
TypeOK ==
    /\ active \subseteq Asset
    /\ owedReload \in BOOLEAN
    /\ commands \in 0..MaxCommands
    /\ pc \in {"top", "next", "show", "clear", "wait"}
    /\ asset \in Asset \cup {"none"}
    /\ replay \in 0..(Loops - 1)
    /\ screen \in Paint
    /\ currentId \in Asset \cup {"none"}
    /\ stopped \in BOOLEAN /\ blanked \in BOOLEAN /\ skip \in BOOLEAN
    /\ script \in Seq(Op)
    /\ checked \in Asset \cup {"none"}
    /\ powered \in BOOLEAN /\ refused \in BOOLEAN /\ wayland \in BOOLEAN
    /\ ~powered \/ refused => wayland

\* main() has shown the standby screen and enters start_loop().
Init ==
    /\ active = Asset
    /\ owedReload = FALSE /\ commands = MaxCommands
    /\ pc = "top" /\ asset = "none" /\ replay = 0 /\ screen = "standby"
    /\ stopped = FALSE /\ blanked = FALSE /\ skip = FALSE
    /\ currentId = "none"
    /\ script = <<>> /\ checked = "none"
    /\ powered = TRUE /\ refused = FALSE
    /\ wayland \in BOOLEAN

-----------------------------------------------------------------------------
(* The operator: row edits, each followed by a "reload". *)

Deactivate(a) ==
    /\ commands > 0 /\ a \in active
    /\ active' = active \ {a}
    /\ owedReload' = TRUE
    /\ commands' = commands - 1
    /\ UNCHANGED <<main, flags, subscriber>>

Activate(a) ==
    /\ commands > 0 /\ a \notin active
    /\ active' = active \cup {a}
    /\ owedReload' = TRUE
    /\ commands' = commands - 1
    /\ UNCHANGED <<main, flags, subscriber>>

-----------------------------------------------------------------------------
(* The subscriber thread. *)

Power(op) == IF wayland THEN <<op>> ELSE <<>>

BlankDisplay == <<"dark", "stop">> \o Power("off") \o <<"skip">>
UnblankDisplay == Power("on") \o <<"light", "run", "skip">>
SkipAsset == <<"skip">>
StopPlayback == <<"skip", "stop">>

\* Mutant: "play" resumes the loop only.
PlayResumesOnly == <<"run">>

PlayPlayback == IF blanked THEN UnblankDisplay ELSE <<"run">>

HandleReload == <<"read", "check">>

\* A command of the operator or of the display schedule.
Receive(handler) ==
    /\ script = <<>>
    /\ commands > 0
    /\ script' = handler
    /\ commands' = commands - 1
    /\ UNCHANGED <<active, owedReload, main, flags, checked, powered,
                   refused, wayland>>

ReceiveReload ==
    /\ script = <<>>
    /\ owedReload
    /\ owedReload' = FALSE
    /\ script' = HandleReload
    /\ UNCHANGED <<active, commands, main, flags, checked, powered, refused,
                   wayland>>

\* _apply_wlr_power(), whose result no handler looks at: an output that is not
\* listed or turns the call down stays as it is; one that times out may have
\* been switched.
ApplyWlrPower(on) ==
    \/ powered' = on /\ refused' = FALSE
    \/ powered' \in {powered, on} /\ refused' = TRUE

\* The next assignment of the running handler.  "check" evaluates the playlist
\* and sets the event if the asset read before is not in it.
HandlerStep ==
    LET op == Head(script) IN
    /\ script # <<>>
    /\ script' = Tail(script)
    /\ stopped' = CASE op = "stop" -> TRUE [] op = "run" -> FALSE
                    [] OTHER -> stopped
    /\ blanked' = CASE op = "dark" -> TRUE [] op = "light" -> FALSE
                    [] OTHER -> blanked
    /\ IF op \in {"on", "off"} THEN ApplyWlrPower(op = "on")
       ELSE UNCHANGED <<powered, refused>>
    /\ skip' = \/ skip
               \/ op = "skip"
               \/ op = "check" /\ checked # "none" /\ checked \notin active
    /\ checked' = CASE op = "read" -> currentId [] op = "check" -> "none"
                    [] OTHER -> checked
    /\ UNCHANGED <<active, owedReload, commands, main, wayland>>

-----------------------------------------------------------------------------
(* The main thread. *)

\* Mutant: the black repaint waits for the wake-up.
PausedTickIfWoken ==
    /\ pc = "top" /\ stopped
    /\ blanked /\ screen # "black" /\ skip
    /\ screen' = "black"
    /\ UNCHANGED <<active, owedReload, commands, pc, asset, replay, currentId,
                   flags, subscriber>>

\* start_loop() while stopped: paint black once, sleep, look again.
PausedTick ==
    /\ pc = "top" /\ stopped
    /\ blanked /\ screen # "black"
    /\ screen' = "black"
    /\ UNCHANGED <<active, owedReload, commands, pc, asset, replay, currentId,
                   flags, subscriber>>

EnterAssetLoop ==
    /\ pc = "top" /\ ~stopped
    /\ pc' = "next"
    /\ UNCHANGED <<active, owedReload, commands, asset, replay, screen,
                   currentId, flags, subscriber>>

\* get_next_asset(): some active asset, see Scheduler for which.
NextAsset ==
    /\ pc = "next"
    /\ IF active = {} THEN asset' = "none"
       ELSE \E a \in active : asset' = a
    /\ currentId' = asset'
    /\ replay' = 0
    /\ pc' = "show"
    /\ UNCHANGED <<active, owedReload, commands, screen, flags, subscriber>>

\* view_image(STANDBY_SCREEN); view_image / view_webpage / the start of
\* view_video; or nothing but a recheck request for a broken asset.
Show ==
    /\ pc = "show"
    /\ screen' = CASE asset = "none" -> "standby"
                   [] asset \in Broken -> screen
                   [] OTHER -> asset
    /\ pc' = "clear"
    /\ UNCHANGED <<active, owedReload, commands, asset, replay, currentId,
                   flags, subscriber>>

ClearSkip ==
    /\ pc = "clear"
    /\ skip' = FALSE
    /\ pc' = "wait"
    /\ UNCHANGED <<active, owedReload, commands, asset, replay, screen,
                   currentId, stopped, blanked, subscriber>>

Playing == asset \in Video \ Broken
Looping == asset \in Asset \ Broken /\ replay < Loops - 1

\* A set event ends the whole slot, not only the current replay.
WaitIsSkipped ==
    /\ pc = "wait" /\ skip
    /\ pc' = "top"
    /\ screen' = IF Playing THEN "null" ELSE screen
    /\ UNCHANGED <<active, owedReload, commands, asset, replay, currentId,
                   flags, subscriber>>

\* A video is stopped and played anew, the wait on a still is just repeated.
AfterTimeout ==
    CASE Looping /\ Playing -> "show"
      [] Looping /\ ~Playing -> "wait"
      [] OTHER -> "top"

WaitTimesOut ==
    /\ pc = "wait" /\ ~skip
    /\ pc' = AfterTimeout
    /\ replay' = IF Looping THEN replay + 1 ELSE replay
    /\ screen' = IF Playing THEN "null" ELSE screen
    /\ UNCHANGED <<active, owedReload, commands, asset, currentId, flags,
                   subscriber>>

Main ==
    \/ PausedTick \/ EnterAssetLoop \/ NextAsset \/ Show \/ ClearSkip
    \/ WaitIsSkipped \/ WaitTimesOut

Operator ==
    \/ \E a \in Asset : Deactivate(a)
    \/ \E a \in Asset : Activate(a)
    \/ \E h \in {SkipAsset, StopPlayback, PlayPlayback, BlankDisplay,
                 UnblankDisplay} : Receive(h)

Next == Main \/ Operator \/ ReceiveReload \/ HandlerStep

Spec == Init /\ [][Next]_vars

\* Every wait of the main thread has a finite timeout, both threads are
\* scheduled, a published reload is delivered, and the rotation starves no
\* active asset (NoOccurrenceStarves of Scheduler).
FairSpec ==
    /\ Spec
    /\ WF_vars(Main) /\ WF_vars(ReceiveReload) /\ WF_vars(HandlerStep)
    /\ \A a \in Asset : SF_vars(NextAsset /\ asset' = a)

-----------------------------------------------------------------------------
(* Properties *)

\* Between two handlers the flags and the output agree, whatever commands came
\* in whatever order: a blanked display has a paused loop, so that nothing but
\* black is painted, also when its output could not be switched off; and unless
\* the last call for it failed, the output is off exactly while the display is
\* blanked.  After a failed call they may disagree until the next "blank" or
\* "unblank": nothing tries again.
FlagsAgree ==
    script = <<>> =>
        /\ blanked => stopped
        /\ wayland /\ ~refused => (powered <=> ~blanked)

\* A blanked display does go dark, even if the wake-up was lost and the output
\* could not be switched off: by the power of the output or by the black
\* screen.
BlankedGoesDark ==
    (blanked /\ script = <<>>)
        ~> (~powered \/ screen = "black" \/ ~blanked)

\* A deleted or disabled asset does leave the screen, unless playback is
\* stopped on it or nothing that could replace it is displayable.  (Broken
\* assets never get there.)
RemovedAssetLeavesScreen ==
    \A a \in Asset \ Broken :
        (screen = a /\ a \notin active)
            ~> \/ screen # a \/ a \in active \/ stopped
               \/ active # {} /\ active \subseteq Broken

-----------------------------------------------------------------------------
(* What comments and docs say and the code does not do. *)

Asleep == pc = "wait" /\ ~skip

\* "Wake the main thread out of any in-progress asset sleep so it reaches the
\* blanked branch (and the black repaint) promptly."
BlankWakesLoop == (blanked /\ script = <<>>) => ~Asleep

\* "deleting or deactivating an asset that's currently on screen would only
\* take effect after its full duration elapsed" is what the reload handler is
\* there to prevent.
RemovedAssetIsCutShort ==
    (script = <<>> /\ ~owedReload /\ screen = asset /\ asset \notin active)
        => ~Asleep

\* "would only take effect after its full duration elapsed" promises at least
\* that a removal takes effect while the loop runs.
RemovalTakesEffect ==
    \A a \in Asset :
        (screen = a /\ a \notin active)
            ~> (screen # a \/ a \in active \/ stopped)

\* "pause the asset loop on the current frame": once the handler of "stop" is
\* done no other asset comes on.
StopPausesOnCurrentFrame ==
    [][ (stopped /\ stopped' /\ script = <<>>)
            => screen' \in {screen, "black", "null", "standby"} ]_vars

=============================================================================
