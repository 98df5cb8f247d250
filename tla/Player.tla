------------------------------- MODULE Player -------------------------------
(***************************************************************************)
(* What a MediaPlayer (src/src/anthias_viewer/media_player.py) promises    *)
(* its caller, whichever player the board has: frames on the screen are    *)
(* frames of the clip asked for last, and once stopped there are none -    *)
(* but for those that were on their way by then, which no call takes back. *)
(* A player without such frames has an empty "late" at all times and shows *)
(* the clip asked for last only.                                           *)
(***************************************************************************)

CONSTANTS Clip, None

VARIABLES
    asked,      \* the clip of the last play(), or None
    frames,     \* the clips whose frames are being put on the screen
    late        \* earlier clips that have frames on their way there

Init == asked = None /\ frames = {} /\ late = {}

\* The clips whose frames may come.
Due == late \cup ({asked} \ {None})

\* What the previous clip left behind may stay until there is something new.
Play(c) ==
    /\ asked' = c
    /\ frames' \in {frames, {}}
    /\ late' \subseteq Due \ {c}

Show ==
    /\ \E c \in Due : frames' = {c}
    /\ late' \subseteq late
    /\ UNCHANGED asked

\* Frames are dropped, on the screen or on their way.
Clear ==
    /\ frames' \in {frames, {}}
    /\ late' \subseteq late
    /\ UNCHANGED asked

\* stop(), and the player giving up.
Stop ==
    /\ asked' = None /\ frames' = {}
    /\ late' \subseteq Due

Next == (\E c \in Clip : Play(c)) \/ Show \/ Clear \/ Stop

Spec == Init /\ [][Next]_<<asked, frames, late>>
=============================================================================
