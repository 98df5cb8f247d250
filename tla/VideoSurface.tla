---------------------------- MODULE VideoSurface ----------------------------
(***************************************************************************)
(* The video widget of AnthiasViewer                                       *)
(* (src/src/anthias_webview/src/videoview.cpp), with both of its paths.    *)
(*                                                                         *)
(* "scene": QMediaPlayer's decoder queues its frames to the GUI thread,    *)
(* where a gate with a mailbox of one frame forwards the next one when the *)
(* scene graph has composited the last.  "gst": a GStreamer pipeline,      *)
(* whose streaming thread hands frames over through a mutex and a queued   *)
(* drain, and whose bus messages make it loop.                             *)
(*                                                                         *)
(* A frame is the clip it belongs to.  QMediaPlayer decodes its own source *)
(* only and while it plays, but what it has queued by then is delivered    *)
(* later; it delivers an empty frame when the source ends or changes.  The *)
(* surface is the widget and the overlay plane behind it; statistics and   *)
(* geometry are left out.                                                  *)
(***************************************************************************)
EXTENDS Naturals, Sequences

CONSTANTS
    Clip, None,
    Modes,      \* the paths to consider
    MaxPlays,   \* bound: calls of play()
    MaxQueued,  \* bound: frames in the GUI thread's queue
    MaxErrors   \* bound: pipelines that fail and seeks that are refused

SurfaceAssumption ==
    /\ Modes \subseteq {"scene", "gst"} /\ Modes # {}
    /\ {MaxPlays, MaxQueued} \subseteq Nat \ {0} /\ MaxErrors \in Nat /\ None \notin Clip

VARIABLES
    mode,
    playing,    \* the source QMediaPlayer or the pipeline plays, or None
    surface,    \* the frame the widget was handed last, or None
    \* The gate.
    incoming,   \* frames queued for onVideoFrameDelivered()
    ready,      \* sceneReadyForFrame
    parked,     \* pendingFrame
    rendering,  \* a composition has yet to finish
    \* The streaming thread and the drain.
    latest,     \* gstLatestFrame
    stashed,    \* it has stashed a frame and not yet tested the flag
    flag,       \* gstDrainPending
    drains,     \* the calls of onGstFrame() in the GUI thread's queue
    draining,   \* one of them has painted and not yet cleared the flag
    \* The loop.
    phase,      \* of the pipeline: "start", "run", or what ended: "segment",
                \* "stream"; "still" when nothing started it again
    armed,      \* gstSegmentArmed
    segment,    \* what runs was started by a segment seek
    overlay,    \* gstOverlayActive: frames go to a plane, past the widget
    audio,      \* the second pipeline: "off", "on", "ended", or
                \* "silent" when it could not be started again
    stops,      \* queued calls of stop() after an error
    plays, errors

gate == <<incoming, ready, parked, rendering>>
handover == <<latest, stashed, flag, drains, draining>>
loop == <<phase, armed, segment, overlay, audio, stops>>
vars == <<mode, playing, surface, gate, handover, loop, plays, errors>>

\* Besides the types: the path that is not taken is at rest.
TypeOK ==
    /\ mode \in Modes
    /\ {playing, surface, parked, latest} \subseteq Clip \cup {None}
    /\ {ready, rendering, stashed, flag, draining} \subseteq BOOLEAN
    /\ {armed, segment, overlay} \subseteq BOOLEAN
    /\ incoming \in Seq(Clip) /\ Len(incoming) <= MaxQueued
    /\ audio \in {"off", "on", "ended", "silent"}
    /\ drains \in Nat /\ stops \in 0..MaxErrors
    /\ phase \in {"start", "run", "segment", "stream", "still"}
    /\ plays \in 0..MaxPlays /\ errors \in 0..MaxErrors
    /\ mode = "scene" => ~stashed /\ drains = 0 /\ ~draining /\ stops = 0
    /\ mode = "gst" => parked = None /\ ~rendering /\ incoming = <<>>

Init ==
    /\ mode \in Modes
    /\ playing = None /\ surface = None
    /\ incoming = <<>> /\ ready = TRUE /\ parked = None /\ rendering = FALSE
    /\ latest = None /\ stashed = FALSE /\ flag = FALSE
    /\ drains = 0 /\ draining = FALSE
    /\ phase = "start" /\ armed = FALSE /\ segment = FALSE
    /\ overlay = FALSE /\ audio = "off" /\ stops = 0
    /\ plays = 0 /\ errors = MaxErrors

Faults(n) == errors >= n /\ errors' = errors - n
Fault == Faults(1)

\* The GUI thread is between two events.
Gui == ~draining

-----------------------------------------------------------------------------
(* play() and stop(). *)

\* What is queued for the gate is not recalled.
ResetGate == ready' = TRUE /\ parked' = None /\ UNCHANGED incoming

\* gstStartAudio(): a clip without audio, or without a device for it, plays
\* silently.
StartAudio == audio' \in {"off", "on"}

\* Mutant: the stashed frame is kept.
GstStopKeepsFrame ==
    /\ ~stashed
    /\ flag' = FALSE
    /\ armed' = FALSE /\ segment' = FALSE
    /\ UNCHANGED <<latest, stashed, drains, draining>>

\* gstStop(): NULL joins the streaming thread, the bus watches are removed,
\* the stashed frame is dropped; a drain that is queued stays queued.
GstStop ==
    /\ ~stashed
    /\ latest' = None /\ flag' = FALSE
    /\ armed' = FALSE /\ segment' = FALSE
    /\ UNCHANGED <<stashed, drains, draining>>

\* gstPlay(): the widget is cleared; the overlay is tried first, when there
\* is a plane for it, then the pipeline that feeds the widget.
GstPlay(c) ==
    /\ GstStop
    /\ surface' = None
    /\ phase' = "start"
    /\ \/ playing' = c /\ overlay' \in BOOLEAN /\ StartAudio /\ UNCHANGED errors
       \/ playing' = None /\ overlay' = FALSE /\ audio' = "off" /\ Fault
    /\ UNCHANGED rendering

\* setSource(): the change of source may empty the surface at once.
ScenePlay(c) ==
    /\ surface' \in {surface, None}
    /\ playing' = c
    /\ UNCHANGED <<rendering, handover, phase, armed, segment, overlay, audio,
                   errors>>

Play(c) ==
    /\ Gui /\ plays < MaxPlays
    /\ plays' = plays + 1
    /\ ResetGate
    /\ IF mode = "gst" THEN GstPlay(c) ELSE ScenePlay(c)
    /\ UNCHANGED <<mode, stops>>

StopNow ==
    /\ playing' = None /\ surface' = None
    /\ IF mode = "gst"
       THEN /\ GstStop
            /\ overlay' = FALSE /\ audio' = "off"
            /\ UNCHANGED gate
       ELSE /\ ResetGate
            /\ rendering' = TRUE
            /\ UNCHANGED <<handover, armed, segment, overlay, audio>>

Stop ==
    /\ Gui
    /\ StopNow
    /\ UNCHANGED <<mode, phase, stops, plays, errors>>

-----------------------------------------------------------------------------
(* The gate. *)

\* The decoder's thread: videoFrameChanged is queued to the GUI thread.
Decode ==
    /\ mode = "scene" /\ playing # None
    /\ Len(incoming) < MaxQueued
    /\ incoming' = Append(incoming, playing)
    /\ UNCHANGED <<mode, playing, surface, ready, parked, rendering, handover,
                   loop, plays, errors>>

\* onVideoFrameDelivered() with a frame, of whichever clip it is.
Delivered ==
    /\ mode = "scene" /\ incoming # <<>>
    /\ incoming' = Tail(incoming)
    /\ IF ready
       THEN /\ ready' = FALSE
            /\ surface' = Head(incoming) /\ rendering' = TRUE
            /\ UNCHANGED parked
       ELSE parked' = Head(incoming) /\ UNCHANGED <<ready, surface, rendering>>
    /\ UNCHANGED <<mode, playing, handover, loop, plays, errors>>

\* onVideoFrameDelivered() with the empty frame.
Emptied ==
    /\ mode = "scene"
    /\ parked' = None
    /\ surface' = None /\ rendering' = TRUE
    /\ UNCHANGED <<mode, playing, incoming, ready, handover, loop, plays,
                   errors>>

\* onSceneRendered(), and onRasterPainted() for the widget without a scene.
SceneRendered ==
    /\ rendering
    /\ UNCHANGED incoming
    /\ IF parked # None
       THEN surface' = parked /\ parked' = None /\ UNCHANGED <<ready, rendering>>
       ELSE ready' = TRUE /\ rendering' = FALSE /\ UNCHANGED <<surface, parked>>
    /\ UNCHANGED <<mode, playing, handover, loop, plays, errors>>

\* The source ends or cannot be decoded: onMediaStatusChanged() and
\* onErrorOccurred() only report it.
MediaEnds ==
    /\ mode = "scene" /\ playing # None
    /\ playing' = None
    /\ parked' = None
    /\ surface' = None /\ rendering' = TRUE
    /\ UNCHANGED <<mode, incoming, ready, handover, loop, plays, errors>>

-----------------------------------------------------------------------------
(* The streaming thread and the GUI thread. *)

Flows == mode = "gst" /\ playing # None /\ phase = "run"

\* pushGstFrame(), first half: under the mutex.
Stash ==
    /\ Flows /\ ~overlay /\ ~stashed
    /\ latest' = playing /\ stashed' = TRUE
    /\ UNCHANGED <<mode, playing, surface, gate, flag, drains, draining, loop,
                   plays, errors>>

\* onOverlayBuffer(): the plane shows the frame.
OverlayBuffer ==
    /\ Flows /\ overlay
    /\ surface' = playing
    /\ UNCHANGED <<mode, playing, gate, handover, loop, plays, errors>>

\* Second half: post a drain unless one is pending.
Post ==
    /\ stashed
    /\ stashed' = FALSE
    /\ flag' = TRUE
    /\ drains' = IF flag THEN drains ELSE drains + 1
    /\ UNCHANGED <<mode, playing, surface, gate, latest, draining, loop, plays,
                   errors>>

\* onGstFrame() takes the latest frame; nothing is painted when a stop has
\* dropped it ...
Drain ==
    /\ Gui /\ drains > 0
    /\ drains' = drains - 1
    /\ draining' = TRUE
    /\ surface' = IF latest = None THEN surface ELSE latest
    /\ UNCHANGED <<mode, playing, gate, latest, stashed, flag, loop, plays,
                   errors>>

\* ... and clears the flag at its end.
Drained ==
    /\ draining
    /\ draining' = FALSE /\ flag' = FALSE
    /\ UNCHANGED <<mode, playing, surface, gate, latest, stashed, drains, loop,
                   plays, errors>>

-----------------------------------------------------------------------------
(* The bus of the pipeline. *)

OnBus == mode = "gst" /\ playing # None /\ Gui

\* ASYNC_DONE of the first preroll or of a flushing seek:
\* gstArmVideoSegment() asks for a segment once.
Prerolled ==
    /\ OnBus /\ phase = "start"
    /\ IF armed THEN phase' = "run" /\ UNCHANGED <<armed, segment, errors>>
       ELSE \/ armed' = TRUE /\ segment' = TRUE /\ UNCHANGED <<phase, errors>>
            \/ Fault /\ phase' = "run" /\ UNCHANGED <<armed, segment>>
    /\ UNCHANGED <<mode, playing, surface, gate, handover, overlay, audio,
                   stops, plays>>

\* The clip is over: a segment posts SEGMENT_DONE, anything else EOS.
Ends ==
    /\ Flows /\ ~stashed
    /\ phase' = IF segment THEN "segment" ELSE "stream"
    /\ UNCHANGED <<mode, playing, surface, gate, handover, armed, segment,
                   overlay, audio, stops, plays, errors>>

\* gstLoopAudio(), and the segment seek of the audio pipeline.  Whether the
\* seek is refused is not looked at.
LoopAudio ==
    audio' \in IF audio \in {"ended", "silent"} THEN {"on", "silent"}
               ELSE {audio}

\* gstRestartLoop() after so many refusals: a flushing seek, which leaves the
\* segment mode.  When it is refused too no message ever comes again.
RestartLoop(refused) ==
    /\ \/ phase' = "start" /\ segment' = FALSE /\ Faults(refused)
       \/ phase' = "still" /\ UNCHANGED segment /\ Faults(refused + 1)
    /\ LoopAudio

\* gstVideoSegmentDone(): the next segment without a flush, or a restart when
\* the seek is refused.
SegmentDone ==
    /\ OnBus /\ phase = "segment"
    /\ \/ phase' = "run" /\ LoopAudio /\ UNCHANGED <<segment, errors>>
       \/ RestartLoop(1)
    /\ UNCHANGED <<mode, playing, surface, gate, handover, armed, overlay,
                   stops, plays>>

EndOfStream ==
    /\ OnBus /\ phase = "stream"
    /\ RestartLoop(0)
    /\ UNCHANGED <<mode, playing, surface, gate, handover, armed, overlay,
                   stops, plays>>

\* The watch of the audio pipeline: it ends by itself, is started again, and
\* is given up after an error.
AudioBus ==
    /\ OnBus
    /\ \/ audio = "on" /\ audio' = "ended" /\ UNCHANGED errors
       \/ audio = "ended" /\ LoopAudio /\ UNCHANGED errors
       \/ audio # "off" /\ Fault /\ audio' = "off"
    /\ UNCHANGED <<mode, playing, surface, gate, handover, phase, armed,
                   segment, overlay, stops, plays>>

\* An error posts a stop(), to be called when the GUI thread gets to it,
\* whatever plays by then.
BusError ==
    /\ OnBus /\ Fault
    /\ stops' = stops + 1
    /\ UNCHANGED <<mode, playing, surface, gate, handover, phase, armed,
                   segment, overlay, audio, plays>>

QueuedStop ==
    /\ Gui /\ stops > 0
    /\ stops' = stops - 1
    /\ StopNow
    /\ UNCHANGED <<mode, phase, plays, errors>>

Next ==
    \/ \E c \in Clip : Play(c)
    \/ Stop \/ Decode \/ Delivered \/ Emptied \/ SceneRendered \/ MediaEnds
    \/ Stash \/ Post \/ Drain \/ Drained \/ OverlayBuffer
    \/ Prerolled \/ Ends \/ SegmentDone \/ EndOfStream \/ AudioBus
    \/ BusError \/ QueuedStop

Plays == Prerolled \/ SegmentDone \/ EndOfStream

\* Decoder, compositor, streaming thread and GUI thread run on; a frame that
\* is pushed is not for ever overtaken by the end of a very short clip.
Fairness ==
    /\ WF_vars(Decode) /\ WF_vars(Delivered) /\ WF_vars(SceneRendered)
    /\ SF_vars(Stash \/ OverlayBuffer)
    /\ WF_vars(Post) /\ SF_vars(Drain) /\ WF_vars(Drained)
    /\ WF_vars(Plays)
    /\ WF_vars(QueuedStop)

Spec == Init /\ [][Next]_vars /\ Fairness

-----------------------------------------------------------------------------
(* Properties *)

Frames == {surface} \ {None}

\* The clips that play no more and have frames on their way to the surface.
Late == ({incoming[i] : i \in DOMAIN incoming} \cup {parked}) \ {playing, None}

\* A clip that plays moves on: again and again it is on the surface with the
\* mailbox and the drain flag clear for the next frame, and its pipeline does
\* not stand still at the end, also when a segment is refused.  The flushing
\* restart is the last resort: refused as well, it ends the motion.
InMotion ==
    (playing # None /\ phase # "still") =>
        /\ surface = playing /\ parked = None /\ ~flag
        /\ phase \in {"start", "run"}
ClipStaysInMotion == []<>InMotion

-----------------------------------------------------------------------------
(* What comments say and the code does not do. *)

\* "Fall back to the flushing restart (small seam, but the clip keeps
\* looping)": also when that seek is refused, whose result nobody reads.
ClipKeepsLooping == phase # "still"

\* "Black beats a stale frame when the widget is next shown": nothing is left
\* on the surface of a stopped player.  A frame that was queued before stop()
\* finds the gate open after it.
StoppedIsBlack == playing = None => surface = None
=============================================================================
