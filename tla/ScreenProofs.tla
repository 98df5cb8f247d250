---------------------------- MODULE ScreenProofs ----------------------------
(***************************************************************************)
(* Proofs about what puts content on the screen, for any clips and bounds. *)
(*                                                                         *)
(* The video surface implements the promise of a MediaPlayer.  A frame may *)
(* be on its way while clips change, queued for the gate, parked by it or  *)
(* handed over by the streaming thread.  The first two are the late frames *)
(* of the promise; the refinement rests on the third holding a frame of    *)
(* the clip that plays only, and on each path leaving the other's places   *)
(* empty.                                                                  *)
(*                                                                         *)
(* The framebuffer player implements it until its proxy is reset, as until *)
(* then no helper lives that the main thread has no handle of.             *)
(*                                                                         *)
(* The watchdog restarts the container at most as often as its cap allows. *)
(* The argument: every restart since the last good look is on record, and  *)
(* the record of this boot is within the cap.                              *)
(*                                                                         *)
(* The splash after the Wi-Fi setup shows an address of the device.  The   *)
(* argument: an answer has named the portal before any splash is pending.  *)
(*                                                                         *)
(* The View widget drops what answers late.  The argument: whatever is     *)
(* still on its way to it without being tagged with an older generation -  *)
(* the load of the engine, the page of the watchdog, the page the refresh  *)
(* timer goes back to - is what was asked for last.                        *)
(***************************************************************************)
EXTENDS MCScreen, Sequences, TLAPS

\* One part moves, by a step of its own, and the others stay as they are.
LEMMA PartsMove ==
  ASSUME [MCNext]_allVars
  PROVE  /\ part' = part
         /\ [Next]_vars
         /\ [Surface!Next]_Surface!vars
         /\ part # "surface" => UNCHANGED Surface!vars
         /\ [Fbdev!Next]_Fbdev!vars
         /\ part # "fbdev" => UNCHANGED Fbdev!vars
         /\ [Dog!Next]_Dog!vars
         /\ [Setup!Next]_Setup!vars
  <1>1. UNCHANGED surfaceVars => UNCHANGED Surface!vars
    BY DEF surfaceVars, Surface!vars, Surface!gate, Surface!handover,
           Surface!loop
  <1>2. UNCHANGED fbdevVars => UNCHANGED Fbdev!vars
    BY DEF fbdevVars, Fbdev!vars, Fbdev!viewer, Fbdev!helpers
  <1>3. UNCHANGED dogVars => UNCHANGED Dog!vars
    BY DEF dogVars, Dog!vars, Dog!cable, Dog!file, Dog!history
  <1>4. UNCHANGED setupVars => UNCHANGED Setup!vars
    BY DEF setupVars, Setup!vars, Setup!host, Setup!portalVars, Setup!poll,
           Setup!flags, Setup!commands
  <1>5. CASE UNCHANGED allVars
    BY <1>1, <1>2, <1>3, <1>4, <1>5 DEF allVars
  <1>6. CASE MCNext
    BY <1>1, <1>2, <1>3, <1>4, <1>6 DEF MCNext, Only, Rest
  <1>7. QED
    BY <1>5, <1>6

-----------------------------------------------------------------------------
(* The video surface. *)

OnSurface == INSTANCE Player WITH
    asked <- playing, frames <- Surface!Frames, late <- Surface!Late

promise == <<playing, Surface!Frames, Surface!Late>>

\* A frame that the streaming thread hands over is one of the clip that plays;
\* one that is queued or parked may be of any clip, but not on that path.
FramesAreTraced ==
    /\ playing \in Clip \cup {None} /\ parked \in Clip \cup {None}
    /\ incoming \in Seq(Clip)
    /\ latest \in {None, playing}
    /\ IF mode = "gst" THEN parked = None /\ incoming = <<>> ELSE latest = None

Members(q) == {q[i] : i \in DOMAIN q}

LEMMA NoneIsNoClip == None \notin Clip
  BY ScreenAssumption DEF Surface!SurfaceAssumption

\* What is queued last is a new member, and what is taken first was one.
LEMMA QueueMembers ==
  ASSUME NEW q \in Seq(Clip)
  PROVE  /\ \A c \in Clip : /\ Append(q, c) \in Seq(Clip)
                          /\ Members(Append(q, c)) \subseteq Members(q) \cup {c}
         /\ q # <<>> => /\ Head(q) \in Members(q) /\ Head(q) \in Clip
                        /\ Tail(q) \in Seq(Clip)
                        /\ Members(Tail(q)) \subseteq Members(q)
  <1>1. \A c \in Clip : /\ Append(q, c) \in Seq(Clip)
                       /\ Members(Append(q, c)) \subseteq Members(q) \cup {c}
    BY DEF Members
  <1>2. ASSUME q # <<>>
        PROVE  /\ Head(q) \in Members(q) /\ Head(q) \in Clip
               /\ Tail(q) \in Seq(Clip)
               /\ Members(Tail(q)) \subseteq Members(q)
    BY <1>2 DEF Members
  <1>3. QED
    BY <1>1, <1>2

LEMMA LateMembers ==
  /\ Surface!Late = (Members(incoming) \cup {parked}) \ {playing, None}
  /\ Surface!Late' = (Members(incoming') \cup {parked'}) \ {playing', None}
BY DEF Surface!Late, Members

\* play(): what the streaming thread handed over is dropped, and what is parked.
LEMMA PlayRefines ==
  ASSUME FramesAreTraced, NEW c \in Clip, Surface!Play(c)
  PROVE  FramesAreTraced' /\ OnSurface!Next
  <1>1. incoming' = incoming /\ parked' = None /\ mode' = mode
    BY DEF Surface!Play, Surface!ResetGate
  <1>2. Members(incoming') = Members(incoming)
    BY <1>1 DEF Members
  <1>3. CASE mode = "gst"
    <2>1. surface' = None /\ playing' \in {c, None} /\ latest' = None
      BY <1>3 DEF Surface!Play, Surface!GstPlay, Surface!GstStop
    <2>2. FramesAreTraced'
      BY <1>1, <1>3, <2>1 DEF FramesAreTraced
    <2>3. Members(incoming) = {}
      BY <1>3 DEF FramesAreTraced, Members
    <2>4. Surface!Frames' = {} /\ Surface!Late' = {}
      BY <1>1, <1>2, <2>1, <2>3, LateMembers DEF Surface!Frames
    <2>5. QED
      BY <2>1, <2>2, <2>4 DEF OnSurface!Next, OnSurface!Play, OnSurface!Stop
  <1>4. CASE mode # "gst"
    <2>1. surface' \in {surface, None} /\ playing' = c /\ latest' = latest
      BY <1>4 DEF Surface!Play, Surface!ScenePlay, Surface!handover
    <2>2. FramesAreTraced'
      BY <1>1, <1>4, <2>1 DEF FramesAreTraced
    <2>3. Surface!Late' \subseteq OnSurface!Due \ {c}
      BY <1>1, <1>2, <2>1, LateMembers DEF OnSurface!Due
    <2>4. Surface!Frames' \in {Surface!Frames, {}}
      BY <2>1 DEF Surface!Frames
    <2>5. QED
      BY <2>1, <2>2, <2>3, <2>4 DEF OnSurface!Next, OnSurface!Play
  <1>5. QED
    BY <1>3, <1>4

LEMMA StopRefines ==
  ASSUME FramesAreTraced, Surface!StopNow, mode' = mode
  PROVE  FramesAreTraced' /\ OnSurface!Next
  <1>1. /\ playing' = None /\ surface' = None /\ incoming' = incoming
        /\ parked' \in {parked, None} /\ latest' \in {latest, None}
        /\ mode = "gst" => latest' = None
    BY DEF Surface!StopNow, Surface!GstStop, Surface!ResetGate, Surface!gate,
           Surface!handover
  <1>2. FramesAreTraced'
    BY <1>1 DEF FramesAreTraced
  <1>3. Members(incoming') = Members(incoming)
    BY <1>1 DEF Members
  <1>4. Surface!Late' \subseteq OnSurface!Due
    BY <1>1, <1>3, LateMembers DEF OnSurface!Due
  <1>5. playing' = None /\ Surface!Frames' = {}
    BY <1>1 DEF Surface!Frames
  <1>6. QED
    BY <1>2, <1>4, <1>5 DEF OnSurface!Next, OnSurface!Stop

\* The gate: a frame is queued, shown, parked, or shown when its turn comes.
LEMMA GateRefines ==
  ASSUME FramesAreTraced,
         \/ Surface!Decode \/ Surface!Delivered \/ Surface!Emptied
         \/ Surface!SceneRendered \/ Surface!MediaEnds
  PROVE  FramesAreTraced' /\ [OnSurface!Next]_promise
  <1>1. CASE Surface!Decode
    <2>1. /\ playing \in Clip /\ incoming' = Append(incoming, playing)
          /\ mode = "scene"
          /\ UNCHANGED <<mode, playing, surface, parked, latest>>
      BY <1>1 DEF Surface!Decode, Surface!handover, FramesAreTraced
    <2>2. /\ incoming' \in Seq(Clip)
          /\ Members(incoming') \subseteq Members(incoming) \cup {playing}
      BY <2>1, QueueMembers DEF FramesAreTraced
    <2>3. FramesAreTraced'
      BY <2>1, <2>2 DEF FramesAreTraced
    <2>4. Surface!Late' \subseteq Surface!Late /\ Surface!Frames' = Surface!Frames
      BY <2>1, <2>2, LateMembers DEF Surface!Frames
    <2>5. QED
      BY <2>1, <2>3, <2>4 DEF OnSurface!Next, OnSurface!Clear
  <1>2. CASE Surface!Delivered
    <2>1. /\ incoming # <<>> /\ incoming' = Tail(incoming) /\ mode = "scene"
          /\ \/ surface' = Head(incoming) /\ parked' = parked
             \/ surface' = surface /\ parked' = Head(incoming)
          /\ UNCHANGED <<mode, playing, latest>>
      BY <1>2 DEF Surface!Delivered, Surface!handover
    <2>2. /\ Head(incoming) \in Members(incoming) /\ Head(incoming) \in Clip
          /\ incoming' \in Seq(Clip)
          /\ Members(incoming') \subseteq Members(incoming)
      BY <2>1, QueueMembers DEF FramesAreTraced
    <2>3. FramesAreTraced'
      BY <2>1, <2>2 DEF FramesAreTraced
    <2>4. Surface!Late' \subseteq Surface!Late
      BY <2>1, <2>2, LateMembers
    <2>5. Head(incoming) \in OnSurface!Due
      BY <2>2, LateMembers, NoneIsNoClip DEF OnSurface!Due
    <2>6. \/ Surface!Frames' = Surface!Frames
          \/ Surface!Frames' = {Head(incoming)}
      BY <2>1, <2>2, NoneIsNoClip DEF Surface!Frames
    <2>7. QED
      BY <2>1, <2>3, <2>4, <2>5, <2>6
      DEF OnSurface!Next, OnSurface!Show, OnSurface!Clear
  <1>3. CASE Surface!Emptied \/ Surface!MediaEnds
    <2>1. /\ incoming' = incoming /\ parked' = None /\ surface' = None
          /\ playing' \in {playing, None} /\ mode = "scene"
          /\ UNCHANGED <<mode, latest>>
      BY <1>3 DEF Surface!Emptied, Surface!MediaEnds, Surface!handover
    <2>2. FramesAreTraced'
      BY <2>1 DEF FramesAreTraced
    <2>3. Members(incoming') = Members(incoming)
      BY <2>1 DEF Members
    <2>4. /\ Surface!Frames' = {} /\ Surface!Late' \subseteq OnSurface!Due
          /\ playing' = playing => Surface!Late' \subseteq Surface!Late
      BY <2>1, <2>3, LateMembers DEF OnSurface!Due, Surface!Frames
    <2>5. QED
      BY <2>1, <2>2, <2>4 DEF OnSurface!Next, OnSurface!Stop, OnSurface!Clear
  <1>4. CASE Surface!SceneRendered
    <2>1. /\ incoming' = incoming /\ parked' = None
          /\ IF parked # None THEN surface' = parked ELSE surface' = surface
          /\ UNCHANGED <<mode, playing, latest>>
      BY <1>4 DEF Surface!SceneRendered, Surface!handover
    <2>2. FramesAreTraced'
      BY <2>1 DEF FramesAreTraced
    <2>3. Members(incoming') = Members(incoming)
      BY <2>1 DEF Members
    <2>4. Surface!Late' \subseteq Surface!Late
      BY <2>1, <2>3, LateMembers
    <2>5. \/ Surface!Frames' = Surface!Frames
          \/ parked \in OnSurface!Due /\ Surface!Frames' = {parked}
      BY <2>1, LateMembers DEF OnSurface!Due, Surface!Frames
    <2>6. QED
      BY <2>1, <2>2, <2>4, <2>5
      DEF OnSurface!Next, OnSurface!Show, OnSurface!Clear
  <1>5. QED
    BY <1>1, <1>2, <1>3, <1>4

\* The streaming thread and the drain, which may come long after its frame.
LEMMA HandoverRefines ==
  ASSUME FramesAreTraced,
         \/ Surface!Stash \/ Surface!Post \/ Surface!Drain \/ Surface!Drained
         \/ Surface!OverlayBuffer
  PROVE  FramesAreTraced' /\ [OnSurface!Next]_promise
  <1>1. /\ UNCHANGED <<mode, playing, incoming, parked>>
        /\ latest' \in {latest, playing} /\ (latest' = latest \/ mode = "gst")
        /\ \/ surface' = surface
           \/ playing # None /\ surface' = playing
    BY DEF Surface!Stash, Surface!Post, Surface!Drain, Surface!Drained,
           Surface!OverlayBuffer, Surface!gate, Surface!handover,
           Surface!Flows, FramesAreTraced
  <1>2. FramesAreTraced'
    BY <1>1 DEF FramesAreTraced
  <1>3. Surface!Late' = Surface!Late
    BY <1>1 DEF Surface!Late
  <1>4. \/ Surface!Frames' = Surface!Frames
        \/ playing \in OnSurface!Due /\ Surface!Frames' = {playing}
    BY <1>1 DEF Surface!Frames, OnSurface!Due
  <1>5. QED
    BY <1>1, <1>2, <1>3, <1>4 DEF OnSurface!Next, OnSurface!Show, promise

\* The bus of the pipeline changes no frame.
LEMMA BusRefines ==
  ASSUME FramesAreTraced,
         \/ Surface!Prerolled \/ Surface!Ends \/ Surface!SegmentDone
         \/ Surface!EndOfStream \/ Surface!AudioBus \/ Surface!BusError
  PROVE  FramesAreTraced' /\ UNCHANGED promise
  <1>1. UNCHANGED <<mode, playing, surface, incoming, parked, latest>>
    BY DEF Surface!Prerolled, Surface!Ends, Surface!SegmentDone,
           Surface!EndOfStream, Surface!AudioBus, Surface!BusError,
           Surface!RestartLoop, Surface!gate, Surface!handover
  <1>2. QED
    BY <1>1 DEF FramesAreTraced, Surface!Frames, Surface!Late, promise

LEMMA StepRefines ==
  FramesAreTraced /\ [Surface!Next]_Surface!vars
    => FramesAreTraced' /\ [OnSurface!Next]_promise
  <1> SUFFICES ASSUME FramesAreTraced, [Surface!Next]_Surface!vars
               PROVE  FramesAreTraced' /\ [OnSurface!Next]_promise
    OBVIOUS
  <1>1. CASE UNCHANGED Surface!vars
    BY <1>1 DEF Surface!vars, Surface!gate, Surface!handover, Surface!Frames,
                Surface!Late, FramesAreTraced, promise
  <1>2. CASE Surface!Stop \/ Surface!QueuedStop
    BY <1>2, StopRefines DEF Surface!Stop, Surface!QueuedStop
  <1>3. CASE Surface!Next
    BY <1>2, <1>3, PlayRefines, GateRefines, HandoverRefines, BusRefines
    DEF Surface!Next
  <1>4. QED
    BY <1>1, <1>3

LEMMA SurfaceInit == Surface!Init => FramesAreTraced /\ OnSurface!Init
  BY DEF Surface!Init, Surface!Frames, Surface!Late, FramesAreTraced,
         OnSurface!Init

\* The video surface keeps the promise of a MediaPlayer, through either path,
\* with any clips and errors: what comes on the surface is a frame of the clip
\* asked for last, or one of an earlier clip that was queued or parked at the
\* gate when the caller turned to another or stopped.  The pipeline that joins
\* its streaming thread leaves none of those.
THEOREM SurfaceKeepsPromise == Surface!Spec => OnSurface!Spec
  BY SurfaceInit, StepRefines, PTL DEF Surface!Spec, OnSurface!Spec, promise

-----------------------------------------------------------------------------
(* The player of the boards without a video surface. *)

\* Until the first reset of the proxy.
Unreset == resets = MaxResets

OnFbdev == INSTANCE Player WITH
    asked <- IF Unreset THEN Fbdev!Asked ELSE None,
    frames <- IF Unreset THEN Fbdev!Frames ELSE {}, late <- {}

undisturbed == <<IF Unreset THEN Fbdev!Asked ELSE None,
                 IF Unreset THEN Fbdev!Frames ELSE {}, {}>>

\* The process the main thread has a handle of, or 0.
Held == IF on["main"] = 0 THEN 0 ELSE handle[on["main"]]

Lives(k) == helper[k] \in {"boot", "build", "loop", "quit"} /\ ~killed[k]

PlayerTypes ==
    /\ on \in [Fbdev!Thread -> Fbdev!Inst \cup {0}]
    /\ handle \in [Fbdev!Inst -> Fbdev!Child \cup {0}]
    /\ DOMAIN pc = Fbdev!Thread /\ DOMAIN target = Fbdev!Thread
    /\ todo \in Clip \cup {None} /\ spawned \in 0..MaxShows
    /\ DOMAIN clip = Fbdev!Child /\ DOMAIN helper = Fbdev!Child
    /\ DOMAIN killed = Fbdev!Child

\* There is one instance, and only the main thread is at it.
OneInstance ==
    /\ pc["sub"] = "idle"
    /\ instance = on["main"]
    /\ \A i \in Fbdev!Inst : i # on["main"] => handle[i] = 0

\* How far the main thread is with the process it holds.
StopFollowsProcess ==
    /\ pc["main"] \in {"idle", "signal", "wait", "kill", "clear", "spawn",
                         "playing"}
    /\ pc["main"] # "idle" => on["main"] # 0
    /\ pc["main"] \in {"idle", "spawn"} => Held = 0
    /\ pc["main"] \in {"signal", "wait", "kill", "clear"} => Held # 0
    /\ pc["main"] \in {"wait", "kill", "clear"} => target["main"] = Held
    /\ pc["main"] \in {"kill", "clear"} => ~Lives(Held)
    /\ pc["main"] = "spawn" => spawned < MaxShows
    /\ pc["main"] = "spawn" <=> todo # None

\* No process lives that the main thread does not hold.
HeldProcesses ==
    /\ Held <= spawned
    /\ \A k \in 1..spawned : clip[k] \in Clip
    /\ \A k \in Fbdev!Child : Lives(k) => k = Held

PlayerInv ==
    /\ resets \in 0..MaxResets
    /\ Unreset => /\ PlayerTypes /\ OneInstance /\ StopFollowsProcess
                  /\ HeldProcesses

LEMMA FbdevBounds == Fbdev!FbdevAssumption
  BY ScreenAssumption

LEMMA AskedOfHeld ==
  /\ Fbdev!Asked = IF Held = 0 THEN None ELSE clip[Held]
  /\ Fbdev!Asked' = IF Held' = 0 THEN None ELSE clip'[Held']
  BY DEF Fbdev!Asked, Held

LEMMA FramesOfPainters ==
  /\ (\A k \in Fbdev!Child : ~Fbdev!Paints(k)) => Fbdev!Frames = {}
  /\ (\A k \in Fbdev!Child : ~Fbdev!Paints(k)') => Fbdev!Frames' = {}
  /\ (\A k \in Fbdev!Child : Fbdev!Paints(k)' <=> Fbdev!Paints(k))
       /\ UNCHANGED clip => Fbdev!Frames' = Fbdev!Frames
  <1>1. (\A k \in Fbdev!Child : ~Fbdev!Paints(k)) => Fbdev!Frames = {}
    BY Zenon DEF Fbdev!Frames
  <1>2. (\A k \in Fbdev!Child : ~Fbdev!Paints(k)') => Fbdev!Frames' = {}
    BY Zenon DEF Fbdev!Frames
  <1>3. ASSUME \A k \in Fbdev!Child : Fbdev!Paints(k)' <=> Fbdev!Paints(k),
               UNCHANGED clip
        PROVE  Fbdev!Frames' = Fbdev!Frames
    BY <1>3 DEF Fbdev!Frames
  <1>4. QED
    BY <1>1, <1>2, <1>3

\* What the refinement comes down to as long as there was no reset.
LEMMA UndisturbedSteps ==
  ASSUME Unreset, UNCHANGED resets,
         \/ UNCHANGED <<Fbdev!Asked, Fbdev!Frames>>
         \/ Fbdev!Asked' \in Clip /\ Fbdev!Frames' = {}
         \/ Fbdev!Asked # None /\ Fbdev!Frames' = {Fbdev!Asked}
              /\ UNCHANGED Fbdev!Asked
         \/ Fbdev!Frames' = {} /\ UNCHANGED Fbdev!Asked
         \/ Fbdev!Asked' = None /\ Fbdev!Frames' = {}
  PROVE  [OnFbdev!Next]_undisturbed
  <1>1. Unreset'
    BY DEF Unreset
  <1> DEFINE a == IF Unreset THEN Fbdev!Asked ELSE None
             f == IF Unreset THEN Fbdev!Frames ELSE {}
  <1>2. a = Fbdev!Asked /\ f = Fbdev!Frames
    OBVIOUS
  <1>3. a' = Fbdev!Asked' /\ f' = Fbdev!Frames'
    BY <1>1
  <1>4. \/ UNCHANGED <<a, f>>
        \/ \E c \in Clip : a' = c /\ f' = {}
        \/ a # None /\ f' = {a} /\ a' = a
        \/ f' = {} /\ a' = a
        \/ a' = None /\ f' = {}
    BY <1>2, <1>3
  <1>5. QED
    BY <1>4 DEF OnFbdev!Next, OnFbdev!Play, OnFbdev!Show,
       OnFbdev!Clear, OnFbdev!Stop, OnFbdev!Due, undisturbed

LEMMA FbdevPlayRefines ==
  ASSUME Fbdev!FbdevAssumption, PlayerInv, Unreset,
         NEW c \in Clip, Fbdev!Play(c)
  PROVE  PlayerInv' /\ [OnFbdev!Next]_undisturbed
  <1> USE DEF Fbdev!Thread, Fbdev!Inst, Fbdev!Child
  <1>1. PlayerTypes /\ OneInstance /\ StopFollowsProcess /\ HeldProcesses
    BY DEF PlayerInv
  <1>2. /\ pc["main"] = "idle" /\ spawned < MaxShows /\ todo' = c
        /\ UNCHANGED <<handle, target, spawned, clip, helper, sound, killed,
                       resets, mishaps>>
    BY DEF Fbdev!Play, Fbdev!helpers
  <1>3. PICK i \in Fbdev!Inst : Fbdev!GetInstance(i) /\ Fbdev!EnterStop("main", i)
    BY DEF Fbdev!Play
  <1>4. handle[i] = 0 /\ instance' = i /\ i # 0
    BY <1>1, <1>2, <1>3
    DEF Fbdev!GetInstance, OneInstance, StopFollowsProcess, Held
  <1>5. c # None
    BY DEF Fbdev!FbdevAssumption
  <1>6. on' = [on EXCEPT !["main"] = i] /\ pc' = [pc EXCEPT !["main"] = "spawn"]
    BY <1>2, <1>3, <1>4, <1>5 DEF Fbdev!EnterStop, Fbdev!Leaves
  <1>7. Held = 0 /\ Held' = 0
    BY <1>1, <1>2, <1>4, <1>6 DEF Held, StopFollowsProcess, PlayerTypes
  <1>8. \A k \in Fbdev!Child : Lives(k)' <=> Lives(k)
    BY <1>2 DEF Lives
  <1>9. PlayerTypes'
    BY <1>1, <1>2, <1>6 DEF PlayerTypes
  <1>10. OneInstance'
    BY <1>1, <1>2, <1>4, <1>6, <1>7 DEF OneInstance, PlayerTypes, Held
  <1>11. StopFollowsProcess'
    BY <1>1, <1>2, <1>4, <1>5, <1>6, <1>7 DEF StopFollowsProcess, PlayerTypes
  <1>12. HeldProcesses'
    BY <1>1, <1>2, <1>7, <1>8 DEF HeldProcesses
  <1>13. UNCHANGED <<Fbdev!Asked, Fbdev!Frames>>
    BY <1>2, <1>7, AskedOfHeld, FramesOfPainters DEF Fbdev!Paints
  <1>14. QED
    BY <1>2, <1>9, <1>10, <1>11, <1>12, <1>13, UndisturbedSteps DEF PlayerInv

LEMMA SpawnRefines ==
  ASSUME Fbdev!FbdevAssumption, PlayerInv, Unreset,
         Fbdev!Spawn \/ Fbdev!SpawnFails
  PROVE  PlayerInv' /\ [OnFbdev!Next]_undisturbed
  <1> USE DEF Fbdev!Thread, Fbdev!Inst, Fbdev!Child
  <1>1. PlayerTypes /\ OneInstance /\ StopFollowsProcess /\ HeldProcesses
    BY DEF PlayerInv
  <1>2. /\ pc["main"] = "spawn" /\ todo' = None
        /\ pc' = [pc EXCEPT !["main"] = "playing"]
        /\ UNCHANGED <<instance, on, target, killed, resets>>
    BY DEF Fbdev!Spawn, Fbdev!SpawnFails, Fbdev!helpers
  <1>3. Held = 0 /\ spawned < MaxShows /\ todo \in Clip /\ on["main"] \in Fbdev!Inst
    BY <1>1, <1>2 DEF StopFollowsProcess, PlayerTypes
  <1>4. \A k \in Fbdev!Child : ~Lives(k)
    BY <1>1, <1>3 DEF HeldProcesses
  <1>5. CASE Fbdev!Spawn
    <2>1. /\ spawned' = spawned + 1
          /\ handle' = [handle EXCEPT ![on["main"]] = spawned + 1]
          /\ clip' = [clip EXCEPT ![spawned + 1] = todo]
          /\ helper' = [helper EXCEPT ![spawned + 1] = "boot"]
      BY <1>5 DEF Fbdev!Spawn
    <2>2. spawned + 1 \in Fbdev!Child /\ spawned + 1 # 0
      BY <1>1, <1>3 DEF PlayerTypes, Fbdev!FbdevAssumption
    <2>3. Held' = spawned + 1
      BY <1>1, <1>2, <1>3, <2>1 DEF Held, PlayerTypes
    <2>4. clip'[spawned + 1] = todo
      BY <1>1, <2>1, <2>2 DEF PlayerTypes
    <2>5. \A k \in Fbdev!Child : Lives(k)' => k = spawned + 1
      BY <1>1, <1>2, <1>4, <2>1 DEF Lives, PlayerTypes
    <2>6. \A k \in Fbdev!Child : ~Fbdev!Paints(k)'
      BY <1>1, <1>2, <1>4, <2>1 DEF Lives, Fbdev!Paints, PlayerTypes
    <2>7. PlayerTypes'
      BY <1>1, <1>2, <1>3, <2>1, <2>2 DEF PlayerTypes
    <2>8. OneInstance'
      BY <1>1, <1>2, <1>3, <2>1 DEF OneInstance, PlayerTypes
    <2>9. StopFollowsProcess'
      BY <1>1, <1>2, <2>2, <2>3 DEF StopFollowsProcess, PlayerTypes
    <2>10. HeldProcesses'
      <3>1. ASSUME NEW k \in 1..spawned' PROVE clip'[k] \in Clip
        <4>1. CASE k = spawned + 1
          BY <1>3, <2>4, <4>1
        <4>2. CASE k # spawned + 1
          <5>1. k \in 1..spawned
            BY <1>1, <2>1, <4>2 DEF PlayerTypes
          <5>2. clip'[k] = clip[k]
            BY <1>1, <2>1, <2>2, <4>2, <5>1 DEF PlayerTypes
          <5>3. QED
            BY <1>1, <5>1, <5>2 DEF HeldProcesses
        <4>3. QED
          BY <4>1, <4>2
      <3>2. QED
        BY <1>1, <2>1, <2>3, <2>5, <3>1 DEF HeldProcesses, PlayerTypes
    <2>11. Fbdev!Asked' \in Clip /\ Fbdev!Frames' = {}
      <3>1. Fbdev!Asked' = clip'[spawned + 1]
        BY <2>2, <2>3, AskedOfHeld
      <3>2. Fbdev!Frames' = {}
        BY <2>6, FramesOfPainters
      <3>3. QED
        BY <1>3, <2>4, <3>1, <3>2
    <2>12. QED
      BY <1>2, <2>7, <2>8, <2>9, <2>10, <2>11, UndisturbedSteps DEF PlayerInv
  <1>6. CASE Fbdev!SpawnFails
    <2>1. handle' = [handle EXCEPT ![on["main"]] = 0]
          /\ UNCHANGED <<spawned, clip, helper>>
      BY <1>6 DEF Fbdev!SpawnFails, Fbdev!helpers
    <2>2. Held' = 0
      BY <1>1, <1>2, <1>3, <2>1 DEF Held, PlayerTypes
    <2>3. \A k \in Fbdev!Child : ~Lives(k)'
      BY <1>2, <1>4, <2>1 DEF Lives
    <2>4. PlayerTypes'
      BY <1>1, <1>2, <1>3, <2>1 DEF PlayerTypes
    <2>5. OneInstance'
      BY <1>1, <1>2, <1>3, <2>1 DEF OneInstance, PlayerTypes
    <2>6. StopFollowsProcess'
      BY <1>1, <1>2, <2>2 DEF StopFollowsProcess, PlayerTypes
    <2>7. HeldProcesses'
      BY <1>1, <2>1, <2>2, <2>3 DEF HeldProcesses, PlayerTypes
    <2>8. UNCHANGED <<Fbdev!Asked, Fbdev!Frames>>
      BY <1>2, <1>3, <2>1, <2>2, AskedOfHeld, FramesOfPainters DEF Fbdev!Paints
    <2>9. QED
      BY <1>2, <2>4, <2>5, <2>6, <2>7, <2>8, UndisturbedSteps DEF PlayerInv
  <1>7. QED
    BY <1>5, <1>6

\* stop() by the main thread, from its head to the handle that is dropped.
LEMMA StopsRefine ==
  ASSUME Fbdev!FbdevAssumption, PlayerInv, Unreset,
         \/ Fbdev!Stop \/ Fbdev!Signal("main") \/ Fbdev!Reaped("main")
         \/ Fbdev!WaitTimesOut("main") \/ Fbdev!ClearHandle("main")
  PROVE  PlayerInv' /\ [OnFbdev!Next]_undisturbed
  <1> USE DEF Fbdev!Thread, Fbdev!Inst, Fbdev!Child
  <1>1. PlayerTypes /\ OneInstance /\ StopFollowsProcess /\ HeldProcesses
    BY DEF PlayerInv
  <1>2. on["main"] # 0 => Held = handle[on["main"]] /\ on["main"] \in Fbdev!Inst
    BY <1>1 DEF Held, PlayerTypes
  <1>3. CASE Fbdev!Stop
    <2>1. /\ pc["main"] = "playing" /\ todo' = None
          /\ on' = [on EXCEPT !["main"] = on["main"]]
          /\ pc' = [pc EXCEPT !["main"] = IF handle[on["main"]] # 0
                                              THEN "signal" ELSE "idle"]
          /\ UNCHANGED <<instance, handle, target, spawned, clip, helper, killed,
                         resets>>
      BY <1>3 DEF Fbdev!Stop, Fbdev!EnterStop, Fbdev!Leaves, Fbdev!helpers
    <2>2. on' = on /\ Held' = Held
      BY <1>1, <2>1 DEF PlayerTypes, Held
    <2>3. PlayerTypes'
      BY <1>1, <2>1, <2>2 DEF PlayerTypes
    <2>4. OneInstance'
      BY <1>1, <2>1, <2>2 DEF OneInstance, PlayerTypes
    <2>5. StopFollowsProcess'
      BY <1>1, <1>2, <2>1, <2>2 DEF StopFollowsProcess, PlayerTypes
    <2>6. HeldProcesses'
      BY <1>1, <2>1, <2>2 DEF HeldProcesses, Lives
    <2>7. UNCHANGED <<Fbdev!Asked, Fbdev!Frames>>
      BY <2>1, <2>2, AskedOfHeld, FramesOfPainters DEF Fbdev!Paints
    <2>8. QED
      BY <2>1, <2>3, <2>4, <2>5, <2>6, <2>7, UndisturbedSteps DEF PlayerInv
  <1>4. CASE Fbdev!Signal("main")
    <2>1. pc["main"] = "signal"
      BY <1>4 DEF Fbdev!Signal
    <2>2. Held \in Fbdev!Child /\ Held = handle[on["main"]] /\ on["main"] # 0
      BY <1>1, <1>2, <2>1 DEF StopFollowsProcess, PlayerTypes
    <2>3. PICK p : /\ p = CASE helper[Held] = "boot" -> "dead"
                            [] helper[Held] = "loop" -> "quit"
                            [] OTHER -> helper[Held]
      OBVIOUS
    <2>4. /\ target' = [target EXCEPT !["main"] = Held]
          /\ pc' = [pc EXCEPT !["main"] = IF helper[Held] = "dead"
                                              THEN "clear" ELSE "wait"]
          /\ helper' = [helper EXCEPT ![Held] = p]
          /\ UNCHANGED <<instance, handle, on, todo, spawned, clip, killed,
                         resets>>
      BY <1>4, <2>2, <2>3 DEF Fbdev!Signal
    <2>5. Held' = Held
      BY <2>4 DEF Held
    <2>6. /\ \A k \in Fbdev!Child : Lives(k)' => Lives(k)
          /\ \A k \in Fbdev!Child : Fbdev!Paints(k)' <=> Fbdev!Paints(k) /\ k # Held
      BY <1>1, <2>2, <2>3, <2>4 DEF Lives, Fbdev!Paints, PlayerTypes
    <2>7. PlayerTypes'
      BY <1>1, <2>2, <2>4 DEF PlayerTypes
    <2>8. OneInstance'
      BY <1>1, <2>4 DEF OneInstance, PlayerTypes
    <2>9. StopFollowsProcess'
      <3>1. helper[Held] = "dead" => ~Lives(Held)
        BY DEF Lives
      <3>2. helper[Held] = "dead" => ~Lives(Held)'
        BY <2>2, <2>6, <3>1, <2>5
      <3>3. QED
        BY <1>1, <2>1, <2>2, <2>4, <2>5, <3>2
        DEF StopFollowsProcess, PlayerTypes
    <2>10. HeldProcesses'
      BY <1>1, <2>4, <2>5, <2>6 DEF HeldProcesses
    <2>11. Fbdev!Frames' = {}
      BY <1>1, <2>6, FramesOfPainters DEF HeldProcesses, Lives, Fbdev!Paints
    <2>12. UNCHANGED Fbdev!Asked
      BY <2>4, <2>5, AskedOfHeld
    <2>13. QED
      BY <2>4, <2>7, <2>8, <2>9, <2>10, <2>11, <2>12, UndisturbedSteps
      DEF PlayerInv
  <1>5. CASE Fbdev!Reaped("main")
    <2>1. /\ pc["main"] \in {"wait", "kill"} /\ helper[target["main"]] = "dead"
          /\ pc' = [pc EXCEPT !["main"] = "clear"]
          /\ UNCHANGED <<instance, handle, on, target, todo, spawned, clip,
                         helper, killed, resets>>
      BY <1>5 DEF Fbdev!Reaped, Fbdev!helpers
    <2>2. Held' = Held /\ target["main"] = Held /\ ~Lives(Held)
      BY <1>1, <2>1 DEF StopFollowsProcess, Lives, Held
    <2>3. \A k : Lives(k)' <=> Lives(k)
      BY <2>1 DEF Lives
    <2>4. PlayerTypes' /\ OneInstance'
      BY <1>1, <2>1 DEF PlayerTypes, OneInstance
    <2>5. StopFollowsProcess'
      BY <1>1, <2>1, <2>2, <2>3 DEF StopFollowsProcess, PlayerTypes
    <2>6. HeldProcesses'
      BY <1>1, <2>1, <2>2, <2>3 DEF HeldProcesses
    <2>7. UNCHANGED <<Fbdev!Asked, Fbdev!Frames>>
      BY <2>1, <2>2, AskedOfHeld, FramesOfPainters DEF Fbdev!Paints
    <2>8. QED
      BY <2>1, <2>4, <2>5, <2>6, <2>7, UndisturbedSteps DEF PlayerInv
  <1>6. CASE Fbdev!WaitTimesOut("main")
    <2>1. /\ pc["main"] \in {"wait", "kill"}
          /\ UNCHANGED <<instance, handle, on, target, todo, spawned, clip,
                         helper, resets>>
      BY <1>6 DEF Fbdev!WaitTimesOut
    <2>2. /\ Held' = Held /\ target["main"] = Held /\ Held \in Fbdev!Child
      BY <1>1, <1>2, <2>1 DEF StopFollowsProcess, Held, PlayerTypes
    <2>3. CASE pc["main"] = "wait"
      <3>1. /\ killed' = [killed EXCEPT ![Held] = TRUE]
            /\ pc' = [pc EXCEPT !["main"] = "kill"]
        BY <1>6, <2>2, <2>3 DEF Fbdev!WaitTimesOut
      <3>2. \A k \in Fbdev!Child : Lives(k)' <=> Lives(k) /\ k # Held
        BY <1>1, <2>1, <2>2, <3>1 DEF Lives, PlayerTypes
      <3>3. \A k \in Fbdev!Child : ~Lives(k)'
        BY <1>1, <3>2 DEF HeldProcesses
      <3>4. PlayerTypes' /\ OneInstance'
        BY <1>1, <2>1, <3>1 DEF PlayerTypes, OneInstance
      <3>5. StopFollowsProcess'
        BY <1>1, <2>1, <2>2, <3>1, <3>3 DEF StopFollowsProcess, PlayerTypes
      <3>6. HeldProcesses'
        BY <1>1, <2>1, <2>2, <3>3 DEF HeldProcesses
      <3>7. Fbdev!Frames' = {}
        BY <3>3, FramesOfPainters DEF Lives, Fbdev!Paints
      <3>8. UNCHANGED Fbdev!Asked
        BY <2>1, <2>2, AskedOfHeld
      <3>9. QED
        BY <2>1, <3>4, <3>5, <3>6, <3>7, <3>8, UndisturbedSteps DEF PlayerInv
    <2>4. CASE pc["main"] = "kill"
      <3>1. UNCHANGED killed /\ pc' = [pc EXCEPT !["main"] = "clear"]
        BY <1>6, <2>4 DEF Fbdev!WaitTimesOut
      <3>2. \A k : Lives(k)' <=> Lives(k)
        BY <2>1, <3>1 DEF Lives
      <3>3. PlayerTypes' /\ OneInstance'
        BY <1>1, <2>1, <3>1 DEF PlayerTypes, OneInstance
      <3>4. StopFollowsProcess'
        BY <1>1, <2>1, <2>2, <2>4, <3>1, <3>2 DEF StopFollowsProcess, PlayerTypes
      <3>5. HeldProcesses'
        BY <1>1, <2>1, <2>2, <3>2 DEF HeldProcesses
      <3>6. UNCHANGED <<Fbdev!Asked, Fbdev!Frames>>
        BY <2>1, <2>2, <3>1, AskedOfHeld, FramesOfPainters DEF Fbdev!Paints
      <3>7. QED
        BY <2>1, <3>3, <3>4, <3>5, <3>6, UndisturbedSteps DEF PlayerInv
    <2>5. QED
      BY <2>1, <2>3, <2>4
  <1>7. CASE Fbdev!ClearHandle("main")
    <2>1. /\ pc["main"] = "clear"
          /\ handle' = [handle EXCEPT ![on["main"]] = 0]
          /\ pc' = [pc EXCEPT !["main"] = IF todo # None THEN "spawn"
                                              ELSE "idle"]
          /\ UNCHANGED <<instance, on, target, todo, spawned, clip, helper,
                         killed, resets>>
      BY <1>7 DEF Fbdev!ClearHandle, Fbdev!Leaves, Fbdev!helpers
    <2>2. on["main"] \in Fbdev!Inst /\ on["main"] # 0 /\ ~Lives(Held)
      BY <1>1, <1>2, <2>1 DEF StopFollowsProcess
    <2>3. Held' = 0
      BY <1>1, <2>1, <2>2 DEF Held, PlayerTypes
    <2>4. \A k \in Fbdev!Child : ~Lives(k)'
      BY <1>1, <2>1, <2>2 DEF HeldProcesses, Lives
    <2>5. PlayerTypes'
      BY <1>1, <2>1, <2>2 DEF PlayerTypes
    <2>6. OneInstance'
      BY <1>1, <2>1, <2>2 DEF OneInstance, PlayerTypes
    <2>7. StopFollowsProcess'
      BY <1>1, <2>1, <2>2, <2>3 DEF StopFollowsProcess, PlayerTypes
    <2>8. HeldProcesses'
      BY <1>1, <2>1, <2>3, <2>4 DEF HeldProcesses, PlayerTypes
    <2>9. Fbdev!Asked' = None /\ Fbdev!Frames' = {}
      BY <2>3, <2>4, AskedOfHeld, FramesOfPainters DEF Lives, Fbdev!Paints
    <2>10. QED
      BY <2>1, <2>5, <2>6, <2>7, <2>8, <2>9, UndisturbedSteps DEF PlayerInv
  <1>8. QED
    BY <1>3, <1>4, <1>5, <1>6, <1>7

\* A helper boots, paints, gives up and ends beside the viewer.
LEMMA HelpersRefine ==
  ASSUME Fbdev!FbdevAssumption, PlayerInv, Unreset, NEW j \in Fbdev!Child,
         \/ \E usable \in BOOLEAN : Fbdev!Boots(j, usable)
         \/ Fbdev!Starts(j) \/ Fbdev!PipelineFails(j) \/ Fbdev!Exits(j)
  PROVE  PlayerInv' /\ [OnFbdev!Next]_undisturbed
  <1> USE DEF Fbdev!Thread, Fbdev!Inst, Fbdev!Child
  <1>1. PlayerTypes /\ OneInstance /\ StopFollowsProcess /\ HeldProcesses
    BY DEF PlayerInv
  <1>2. PICK p \in {"build", "loop", "dead"} : Fbdev!HelperStep(j, p)
    BY DEF Fbdev!Boots, Fbdev!Starts, Fbdev!PipelineFails, Fbdev!Exits
  <1>3. UNCHANGED killed
    BY DEF Fbdev!Boots, Fbdev!Starts, Fbdev!PipelineFails, Fbdev!Exits
  <1>4. /\ helper' = [helper EXCEPT ![j] = p]
        /\ UNCHANGED <<instance, made, handle, pc, on, target, todo, spawned,
                       clip, resets>>
    BY <1>2 DEF Fbdev!HelperStep, Fbdev!viewer
  <1>5. Lives(j) \/ p = "dead"
    BY <1>1, <1>4
    DEF Fbdev!Boots, Fbdev!Starts, Fbdev!PipelineFails, Fbdev!Exits, Lives,
        Fbdev!HelperStep, PlayerTypes
  <1>6. Held' = Held
    BY <1>4 DEF Held
  <1>7. \A k \in Fbdev!Child : Lives(k)' => Lives(k)
    BY <1>1, <1>3, <1>4, <1>5 DEF Lives, PlayerTypes
  <1>8. PlayerTypes' /\ OneInstance'
    BY <1>1, <1>3, <1>4 DEF PlayerTypes, OneInstance
  <1>9. Held # 0 => Held \in Fbdev!Child
    BY <1>1 DEF Held, PlayerTypes
  <1>10. StopFollowsProcess'
    BY <1>1, <1>4, <1>6, <1>7, <1>9 DEF StopFollowsProcess
  <1>11. HeldProcesses'
    BY <1>1, <1>4, <1>6, <1>7 DEF HeldProcesses
  <1>12. UNCHANGED Fbdev!Asked
    BY <1>4, <1>6, AskedOfHeld
  <1>13. CASE p = "loop"
    <2>1. Lives(j) /\ j = Held /\ Held # 0
      BY <1>1, <1>5, <1>13 DEF HeldProcesses
    <2>2. \A k \in Fbdev!Child : Fbdev!Paints(k)' <=> k = Held
      BY <1>1, <1>3, <1>4, <1>7, <1>13, <2>1
      DEF HeldProcesses, PlayerTypes, Lives, Fbdev!Paints
    <2>3. Fbdev!Frames' = {clip[Held]}
      BY <1>4, <2>1, <2>2 DEF Fbdev!Frames
    <2>4. clip[Held] \in Clip
      BY <1>1, <2>1 DEF HeldProcesses, PlayerTypes
    <2>5. Fbdev!Asked # None /\ Fbdev!Asked = clip[Held]
      BY <2>1, <2>4, AskedOfHeld DEF Fbdev!FbdevAssumption
    <2>6. QED
      BY <1>4, <1>8, <1>10, <1>11, <1>12, <2>3, <2>5, UndisturbedSteps
      DEF PlayerInv
  <1>14. CASE p # "loop"
    <2>1. \A k \in Fbdev!Child : Fbdev!Paints(k)' <=> Fbdev!Paints(k) /\ k # j
      BY <1>1, <1>3, <1>4, <1>14 DEF PlayerTypes, Fbdev!Paints
    <2>2. CASE Fbdev!Paints(j)
      <3>1. j = Held
        BY <1>1, <2>2 DEF HeldProcesses, Lives, Fbdev!Paints
      <3>2. Fbdev!Frames' = {}
        BY <1>1, <2>1, <3>1, FramesOfPainters
        DEF HeldProcesses, Lives, Fbdev!Paints
      <3>3. QED
        BY <1>4, <1>8, <1>10, <1>11, <1>12, <3>2, UndisturbedSteps
        DEF PlayerInv
    <2>3. CASE ~Fbdev!Paints(j)
      <3>1. \A k \in Fbdev!Child : Fbdev!Paints(k)' <=> Fbdev!Paints(k)
        BY <2>1, <2>3
      <3>2. Fbdev!Frames' = Fbdev!Frames
        BY <1>4, <3>1, FramesOfPainters
      <3>3. QED
        BY <1>4, <1>8, <1>10, <1>11, <1>12, <3>2, UndisturbedSteps
        DEF PlayerInv
    <2>4. QED
      BY <2>2, <2>3
  <1>15. QED
    BY <1>13, <1>14

LEMMA PlayerRefines ==
  ASSUME Fbdev!FbdevAssumption, PlayerInv, [Fbdev!Next]_Fbdev!vars
  PROVE  PlayerInv' /\ [OnFbdev!Next]_undisturbed
  <1>1. CASE UNCHANGED Fbdev!vars
    BY <1>1 DEF Fbdev!vars, Fbdev!viewer, Fbdev!helpers, PlayerInv, Unreset,
       PlayerTypes, OneInstance, StopFollowsProcess, HeldProcesses, Held, Lives,
       undisturbed, Fbdev!Asked, Fbdev!Frames, Fbdev!Paints
  <1>2. ASSUME Fbdev!Next, ~Unreset
        PROVE  PlayerInv' /\ [OnFbdev!Next]_undisturbed
    <2>1. resets' \in {resets, resets - 1} /\ (resets' = resets \/ resets > 0)
      BY <1>2 DEF Fbdev!Next, Fbdev!Play, Fbdev!Stop, Fbdev!Reset, Fbdev!Spawn,
         Fbdev!SpawnFails, Fbdev!Signal, Fbdev!SignalFindsNone, Fbdev!Reaped,
         Fbdev!WaitTimesOut, Fbdev!ClearHandle, Fbdev!Boots, Fbdev!Starts,
         Fbdev!PipelineFails, Fbdev!Exits, Fbdev!HelperStep
    <2>2. resets' \in 0..MaxResets /\ ~Unreset'
      BY <1>2, <2>1 DEF PlayerInv, Unreset, Fbdev!FbdevAssumption
    <2>3. QED
      BY <1>2, <2>2 DEF PlayerInv, undisturbed
  <1>3. CASE Fbdev!Reset /\ Unreset
    <2>1. resets' \in 0..MaxResets /\ ~Unreset'
      BY <1>3 DEF Fbdev!Reset, PlayerInv, Unreset
    <2>2. QED
      BY <2>1, <1>3 DEF PlayerInv, undisturbed, OnFbdev!Next,
         OnFbdev!Stop
  <1>4. ASSUME Unreset, NEW t \in Fbdev!Thread,
               \/ Fbdev!Signal(t) \/ Fbdev!SignalFindsNone(t)
               \/ Fbdev!Reaped(t) \/ Fbdev!WaitTimesOut(t)
               \/ Fbdev!ClearHandle(t)
        PROVE  PlayerInv' /\ [OnFbdev!Next]_undisturbed
    <2>1. pc["sub"] = "idle" /\ (pc["main"] = "signal" => Held # 0)
             /\ (pc["main"] # "idle" => on["main"] # 0)
      BY <1>4 DEF PlayerInv, OneInstance, StopFollowsProcess
    <2>2. t = "main"
      BY <1>4, <2>1 DEF Fbdev!Thread, Fbdev!Signal, Fbdev!SignalFindsNone,
         Fbdev!Reaped, Fbdev!WaitTimesOut, Fbdev!ClearHandle
    <2>3. ~Fbdev!SignalFindsNone("main")
      BY <2>1 DEF Fbdev!SignalFindsNone, Held
    <2>4. QED
      BY <1>4, <2>2, <2>3, StopsRefine
  <1>5. QED
    BY <1>1, <1>2, <1>3, <1>4, FbdevPlayRefines, SpawnRefines, StopsRefine,
       HelpersRefine
    DEF Fbdev!Next

LEMMA PlayerInit ==
  ASSUME Fbdev!Init PROVE PlayerInv /\ OnFbdev!Init
  <1>1. Unreset /\ Held = 0
    BY DEF Fbdev!Init, Unreset, Held, Fbdev!Thread
  <1>2. \A k \in Fbdev!Child : ~Lives(k) /\ ~Fbdev!Paints(k)
    BY DEF Fbdev!Init, Lives, Fbdev!Paints
  <1>3. PlayerTypes
    BY FbdevBounds
    DEF Fbdev!FbdevAssumption, Fbdev!Init, PlayerTypes, Fbdev!Thread
  <1>4. OneInstance /\ StopFollowsProcess
    BY <1>1 DEF Fbdev!Init, OneInstance, StopFollowsProcess, Fbdev!Thread
  <1>5. HeldProcesses
    BY <1>1, <1>2 DEF Fbdev!Init, HeldProcesses
  <1>6. Fbdev!Asked = None /\ Fbdev!Frames = {}
    BY <1>1, <1>2, AskedOfHeld, FramesOfPainters
  <1>7. QED
    BY <1>1, <1>3, <1>4, <1>5, <1>6, FbdevBounds
    DEF PlayerInv, OnFbdev!Init, Fbdev!Init, Fbdev!FbdevAssumption

\* The framebuffer player keeps the promise too, until the proxy is first reset:
\* any number of clips, pipelines that fail at any moment, helpers that do not
\* answer a signal and have to be killed.  What holds it up: no process lives
\* that the main thread has no handle of.
THEOREM FbdevKeepsPromise == Fbdev!Spec => OnFbdev!Spec
  <1>1. PlayerInv /\ [Fbdev!Next]_Fbdev!vars
          => PlayerInv' /\ [OnFbdev!Next]_undisturbed
    BY PlayerRefines, FbdevBounds
  <1>2. QED
    BY <1>1, PlayerInit, PTL DEF Fbdev!Spec, OnFbdev!Spec, undisturbed

-----------------------------------------------------------------------------
(* Either player. *)

\* What is promised, of the part that moves.
Promise ==
  <<CASE part = "surface" -> playing
      [] part = "fbdev" /\ resets = MaxResets -> Fbdev!Asked
      [] OTHER -> None,
    CASE part = "surface" -> Surface!Frames
      [] part = "fbdev" /\ resets = MaxResets -> Fbdev!Frames
      [] OTHER -> {},
    IF part = "surface" THEN Surface!Late ELSE {}>>

\* A caller need not know which player the board has: the promise is kept at all
\* times by the one, and until the rotation first changes by the other.
THEOREM CallersMayRely == MCSpec => PlayersKeepPromise
  <1>1. MCInit => FramesAreTraced /\ PlayerInv /\ Promised!Init
    BY SurfaceInit, PlayerInit
    DEF MCInit, OnSurface!Init, OnFbdev!Init, Promised!Init, Unreset
  <1>2. FramesAreTraced /\ PlayerInv /\ [MCNext]_allVars
          => FramesAreTraced' /\ PlayerInv' /\ [Promised!Next]_Promise
    <2> SUFFICES ASSUME FramesAreTraced, PlayerInv, [MCNext]_allVars
                 PROVE  /\ FramesAreTraced' /\ PlayerInv'
                        /\ [Promised!Next]_Promise
      OBVIOUS
    <2>1. /\ FramesAreTraced' /\ [OnSurface!Next]_promise
          /\ PlayerInv' /\ [OnFbdev!Next]_undisturbed
          /\ part' = part
      BY PartsMove, StepRefines, PlayerRefines, FbdevBounds
    <2>2. CASE part = "surface"
      BY <2>1, <2>2
      DEF OnSurface!Next, OnSurface!Play, OnSurface!Show, OnSurface!Clear,
          OnSurface!Stop, OnSurface!Due, Promised!Due, Promised!Next, Promised!Play, Promised!Show,
          Promised!Clear, Promised!Stop, promise, Promise
    <2>3. CASE part = "fbdev"
      BY <2>1, <2>3
      DEF OnFbdev!Next, OnFbdev!Play, OnFbdev!Show, OnFbdev!Clear,
          OnFbdev!Stop, OnFbdev!Due, Promised!Due, Promised!Next, Promised!Play, Promised!Show,
          Promised!Clear, Promised!Stop, undisturbed, Promise, Unreset
    <2>4. CASE part \notin {"surface", "fbdev"}
      BY <2>1, <2>4 DEF Promise
    <2>5. QED
      BY <2>1, <2>2, <2>3, <2>4
  <1>3. QED
    BY <1>1, <1>2, PTL DEF MCSpec, PlayersKeepPromise, Promised!Spec, Promise

-----------------------------------------------------------------------------
(* The recovery of a display that was off when the compositor started. *)

\* What is on record for this boot is within the cap, and it holds every restart
\* since the last good look at the display, unless a probe failed and cleared it.
RestartsAreOnRecord ==
    /\ restarts \in Nat /\ spent \in Nat
    /\ Dog!RestartsThisBoot <= Cap
    /\ ~doubted => spent <= Dog!RestartsThisBoot

LEMMA DogBounds == Dog!WatchdogAssumption
  BY ScreenAssumption

\* A good look, or a failed one, clears the record or leaves it as it is.
LEMMA ResetKeepsRecord ==
  ASSUME Dog!WatchdogAssumption, RestartsAreOnRecord, Dog!ResetRecovery
  PROVE  restarts' \in Nat /\ Dog!RestartsThisBoot' <= Cap
                /\ Dog!RestartsThisBoot' \in Nat
  BY DEF Dog!WatchdogAssumption, RestartsAreOnRecord, Dog!ResetRecovery,
     Dog!Write, Dog!file, Dog!RestartsThisBoot

LEMMA TickKeepsRecord ==
  ASSUME Dog!WatchdogAssumption, RestartsAreOnRecord, Dog!Tick
  PROVE  RestartsAreOnRecord'
  <1>1. CASE Dog!Look
    <2>1. CASE Dog!DisplayPresent
      BY <1>1, <2>1 DEF Dog!Look, Dog!file, Dog!history, RestartsAreOnRecord,
         Dog!RestartsThisBoot
    <2>2. CASE ~Dog!DisplayPresent
      <3>1. Dog!ResetRecovery /\ spent' = 0
        BY <1>1, <2>2 DEF Dog!Look
      <3>2. QED
        BY <3>1, ResetKeepsRecord DEF RestartsAreOnRecord
    <2>3. QED
      BY <2>1, <2>2
  <1>2. CASE Dog!Probe
    <2>1. CASE bound
      <3>1. Dog!ResetRecovery /\ spent' = 0
        BY <1>2, <2>1 DEF Dog!Probe
      <3>2. QED
        BY <3>1, ResetKeepsRecord DEF RestartsAreOnRecord
    <2>2. CASE ~bound
      BY <1>2, <2>2 DEF Dog!Probe, Dog!file, RestartsAreOnRecord,
         Dog!RestartsThisBoot
    <2>3. QED
      BY <2>1, <2>2
  <1>3. CASE Dog!WithinGrace \/ Dog!StaysQuiet
    BY <1>3 DEF Dog!WithinGrace, Dog!StaysQuiet, Dog!file, Dog!history,
       RestartsAreOnRecord, Dog!RestartsThisBoot
  <1>4. CASE Dog!RestartsContainer
    <2>1. /\ restarts' = Dog!RestartsThisBoot + 1 /\ thisBoot' = TRUE
          /\ spent' = spent + 1 /\ UNCHANGED doubted
          /\ ~(Dog!RestartsThisBoot >= Cap)
      BY <1>4 DEF Dog!RestartsContainer, Dog!Write, Dog!Quiet
    <2>2. Dog!RestartsThisBoot \in Nat
      BY DEF Dog!RestartsThisBoot, RestartsAreOnRecord
    <2>3. Dog!RestartsThisBoot' = Dog!RestartsThisBoot + 1
      BY <2>1 DEF Dog!RestartsThisBoot
    <2>4. QED
      BY <2>1, <2>2, <2>3 DEF RestartsAreOnRecord, Dog!WatchdogAssumption
  <1>5. QED
    BY <1>1, <1>2, <1>3, <1>4 DEF Dog!Tick

LEMMA WatchdogKeepsRecord ==
  ASSUME Dog!WatchdogAssumption, RestartsAreOnRecord, [Dog!Next]_Dog!vars
  PROVE  RestartsAreOnRecord'
  <1>1. CASE Dog!ProbeFails
    <2>1. Dog!ResetRecovery /\ doubted' = TRUE /\ UNCHANGED spent
      BY <1>1 DEF Dog!ProbeFails
    <2>2. QED
      BY <2>1, ResetKeepsRecord DEF RestartsAreOnRecord
  <1>2. CASE Dog!Reboot
    BY <1>2 DEF Dog!Reboot, RestartsAreOnRecord, Dog!RestartsThisBoot,
       Dog!WatchdogAssumption
  <1>3. ASSUME NEW d \in Dog!Display, Dog!Plug(d)
        PROVE  UNCHANGED <<restarts, thisBoot, spent, doubted>>
    BY <1>3 DEF Dog!Plug, Dog!file
  <1>4. ASSUME \/ Dog!GracePasses \/ Dog!ContainerStarts \/ Dog!DirectoryFails
               \/ Dog!DirectoryRecovers \/ UNCHANGED Dog!vars
        PROVE  UNCHANGED <<restarts, thisBoot, spent, doubted>>
    BY <1>4 DEF Dog!GracePasses, Dog!ContainerStarts, Dog!DirectoryFails,
       Dog!DirectoryRecovers, Dog!vars, Dog!file, Dog!history
  <1>5. CASE UNCHANGED <<restarts, thisBoot, spent, doubted>>
    BY <1>5 DEF RestartsAreOnRecord, Dog!RestartsThisBoot
  <1>6. QED
    BY <1>1, <1>2, <1>3, <1>4, <1>5, TickKeepsRecord DEF Dog!Next

\* A display nobody can bind costs at most WAYLAND_MAX_RECOVERY_RESTARTS restarts
\* of the container until it is bound or gone or the device reboots, if no probe
\* fails: whatever the cap is, whatever is plugged in and however often, and
\* although the directory that holds the count may become unwritable.
THEOREM RecoveryIsCapped == MCSpec => []RestartsAreCapped
  <1>1. MCInit => RestartsAreOnRecord
    BY DogBounds
    DEF MCInit, Dog!Init, RestartsAreOnRecord, Dog!RestartsThisBoot,
        Dog!WatchdogAssumption
  <1>2. RestartsAreOnRecord /\ [MCNext]_allVars => RestartsAreOnRecord'
    BY PartsMove, WatchdogKeepsRecord, DogBounds
  <1>3. RestartsAreOnRecord => RestartsAreCapped
    <2> SUFFICES ASSUME RestartsAreOnRecord PROVE RestartsAreCapped
      OBVIOUS
    <2>1. Dog!RestartsThisBoot \in Nat /\ Cap \in Nat
      BY DogBounds
      DEF RestartsAreOnRecord, Dog!RestartsThisBoot, Dog!WatchdogAssumption
    <2>2. QED
      BY <2>1 DEF RestartsAreOnRecord, RestartsAreCapped, Dog!RestartsAreCapped
  <1>4. QED
    BY <1>1, <1>2, <1>3, PTL DEF MCSpec

-----------------------------------------------------------------------------
(* The Wi-Fi setup screen. *)

\* Whatever the splash follows from, an answer that named the portal has been
\* there before, and with it the address the splash must not show.
SplashKnowsPortal ==
    /\ have \subseteq {Setup!Own, Setup!Portal}
    /\ cached \subseteq {Setup!Own, Setup!Portal}
    /\ (verdict = "active" \/ active \/ queued \/ loop \in {"enter", "hold"})
         => gateway

LEMMA EnvironmentKeepsGateway ==
  ASSUME SplashKnowsPortal, Setup!Environment
  PROVE  SplashKnowsPortal'
  <1>1. UNCHANGED <<verdict, active, queued, loop, gateway>>
    BY DEF Setup!Environment, Setup!LosesNetwork, Setup!PortalCommits,
       Setup!PortalRaises, Setup!PortalEnds, Setup!PortalKilled,
       Setup!JoinsNetwork, Setup!HeartbeatLapses, Setup!ClockJumps,
       Setup!BeatLands, Setup!CacheRefreshes, Setup!Operator, Setup!poll,
       Setup!flags
  <1>2. /\ have' \subseteq have \cup {Setup!Own, Setup!Portal}
        /\ cached' \in {cached, have}
    BY DEF Setup!Environment, Setup!LosesNetwork, Setup!PortalCommits,
       Setup!PortalRaises, Setup!PortalEnds, Setup!PortalKilled,
       Setup!JoinsNetwork, Setup!HeartbeatLapses, Setup!ClockJumps,
       Setup!BeatLands, Setup!CacheRefreshes, Setup!Operator, Setup!host
  <1>3. QED
    BY <1>1, <1>2 DEF SplashKnowsPortal

LEMMA ThreadsKeepGateway ==
  ASSUME SplashKnowsPortal, Setup!Report \/ Setup!Loop
  PROVE  SplashKnowsPortal'
  <1>1. UNCHANGED <<have, cached>>
    BY DEF Setup!Report, Setup!Polls, Setup!QueuesSplash, Setup!StoresActive,
       Setup!Loop, Setup!Ticks, Setup!EntersSplash, Setup!HoldsSplash,
       Setup!SplashShown, Setup!LeavesSplash, Setup!host
  <1>2. CASE Setup!Polls
    <2>1. verdict' = "active" => gateway'
      BY <1>2 DEF Setup!Polls
    <2>2. gateway => gateway'
      BY <1>2 DEF Setup!Polls
    <2>3. UNCHANGED <<active, queued, loop>>
      BY <1>2 DEF Setup!Polls
    <2>4. QED
      BY <1>1, <2>1, <2>2, <2>3 DEF SplashKnowsPortal
  <1>3. CASE Setup!QueuesSplash
    <2>1. UNCHANGED <<verdict, active, loop, gateway>>
      BY <1>3 DEF Setup!QueuesSplash
    <2>2. queued' => queued \/ active
      BY <1>3 DEF Setup!QueuesSplash
    <2>3. QED
      BY <1>1, <2>1, <2>2 DEF SplashKnowsPortal
  <1>4. CASE Setup!StoresActive
    <2>1. active' => verdict = "active"
      BY <1>4 DEF Setup!StoresActive
    <2>2. UNCHANGED <<verdict, queued, loop, gateway>>
      BY <1>4 DEF Setup!StoresActive
    <2>3. QED
      BY <1>1, <2>1, <2>2 DEF SplashKnowsPortal
  <1>5. CASE Setup!Ticks
    <2>1. /\ UNCHANGED <<verdict, active, gateway>>
          /\ \/ UNCHANGED <<loop, queued>>
             \/ queued /\ loop' = "enter" /\ queued' = FALSE
      BY <1>5 DEF Setup!Ticks, Setup!poll
    <2>2. QED
      BY <1>1, <2>1 DEF SplashKnowsPortal
  <1>6. CASE Setup!EntersSplash
    <2>1. /\ UNCHANGED <<verdict, active, gateway, queued>>
          /\ loop = "enter" /\ loop' \in {"leave", "hold"}
      BY <1>6 DEF Setup!EntersSplash, Setup!poll, Setup!flags
    <2>2. QED
      BY <1>1, <2>1 DEF SplashKnowsPortal
  <1>7. CASE Setup!HoldsSplash \/ Setup!SplashShown \/ Setup!LeavesSplash
    <2>1. /\ UNCHANGED <<verdict, active, gateway, queued>>
          /\ loop' \in {"shown", "leave", "tick"}
      BY <1>7 DEF Setup!HoldsSplash, Setup!SplashShown, Setup!LeavesSplash,
         Setup!poll, Setup!flags
    <2>2. QED
      BY <1>1, <2>1 DEF SplashKnowsPortal
  <1>8. QED
    BY <1>2, <1>3, <1>4, <1>5, <1>6, <1>7 DEF Setup!Report, Setup!Loop

\* The splash ends its wait for an address on one of the device, never on that
\* of the portal: for any number of networks, kills, clock jumps and polls
\* without an answer, and however long the server still lists what is gone.
THEOREM SplashNeverShowsPortal == MCSpec => SplashShowsOwnAddress
  <1> DEFINE Shows == loop = "hold" /\ loop' = "shown"
  <1>1. MCInit => SplashKnowsPortal
    BY DEF MCInit, Setup!Init, SplashKnowsPortal
  <1>2. SplashKnowsPortal /\ [Setup!Next]_Setup!vars => SplashKnowsPortal'
    <2>1. ASSUME SplashKnowsPortal, UNCHANGED Setup!vars PROVE SplashKnowsPortal'
      BY <2>1 DEF SplashKnowsPortal, Setup!vars, Setup!host, Setup!poll,
         Setup!flags
    <2>2. QED
      BY <2>1, EnvironmentKeepsGateway, ThreadsKeepGateway DEF Setup!Next
  <1>3. SplashKnowsPortal /\ [Setup!Next]_Setup!vars
          => [Shows => Setup!Own \in cached]_Setup!vars
    <2> SUFFICES ASSUME SplashKnowsPortal, Setup!Next, Shows
                 PROVE  Setup!Own \in cached
      OBVIOUS
    <2>1. Setup!HoldsSplash
      BY DEF Setup!Next, Setup!Environment, Setup!LosesNetwork,
         Setup!PortalCommits, Setup!PortalRaises, Setup!PortalEnds,
         Setup!PortalKilled, Setup!JoinsNetwork, Setup!HeartbeatLapses,
         Setup!ClockJumps, Setup!BeatLands, Setup!CacheRefreshes,
         Setup!Operator, Setup!Report, Setup!Polls, Setup!QueuesSplash,
         Setup!StoresActive, Setup!Loop, Setup!Ticks, Setup!EntersSplash,
         Setup!SplashShown, Setup!LeavesSplash
    <2>2. gateway
      BY DEF SplashKnowsPortal
    <2>3. PICK a \in Setup!SafeAddresses : a # Setup!Portal
      BY <2>1, <2>2 DEF Setup!HoldsSplash, Setup!Reachable
    <2>4. a \in cached
      BY <2>3 DEF Setup!SafeAddresses
    <2>5. QED
      BY <2>3, <2>4 DEF SplashKnowsPortal
  <1>4. [MCNext]_allVars => [Setup!Next]_Setup!vars
    BY PartsMove
  <1>5. QED
    BY <1>1, <1>2, <1>3, <1>4, PTL
    DEF MCSpec, SplashShowsOwnAddress, Setup!SplashShowsOwnAddress

-----------------------------------------------------------------------------
(* The View widget. *)

AsksForPage ==
    /\ url = request /\ video = "hidden" /\ image = None /\ ~fallback

\* What the engine loads, the watchdog retries and the timer reloads is the
\* page asked for last, and a reply of this generation brings the image asked
\* for last.
NothingOlderPending ==
    /\ engine \in {None, request} /\ pending \in {None, request}
    /\ \A r \in fetches : r.of = gen => r.image = request
    /\ request \in Page => AsksForPage
    /\ request \notin Page =>
         engine = None /\ pending = None /\ ~webUp /\ ~timer
    /\ request \in Image => video = "hidden"

ViewInv ==
    /\ gen \in Nat
    /\ request \in Page \cup Image \cup {Blank, Video}
    /\ fetches \subseteq [of : 1..gen, image : Image]
    /\ request = Video => video # "hidden"
    /\ NothingOlderPending

LEMMA ContentsDiffer ==
  /\ \A p \in Page : p \notin Image
  /\ \A c \in Page \cup Image : c # Blank /\ c # Video /\ c # None
  BY ScreenAssumption DEF ViewAssumption

\* A request replaces all that is pending but the replies, which belong to an
\* older generation from now on.
LEMMA RequestsReplace ==
  ASSUME ViewInv, Request
  PROVE  ViewInv'
  <1> USE ContentsDiffer
  <1>1. CASE \E p \in Page : LoadPage(p)
    <2>1. PICK p \in Page : LoadPage(p)
      BY <1>1
    <2>2. gen' = gen + 1 /\ fetches' = fetches /\ request' = p
      BY <2>1 DEF LoadPage, Ask
    <2>3. fetches' \subseteq [of : 1..gen', image : Image] /\ gen' \in Nat
          /\ \A r \in fetches' : r.of # gen'
      BY <2>2 DEF ViewInv
    <2>4. /\ engine' = p /\ pending' = p /\ url' = p /\ video' = "hidden"
          /\ image' = None /\ ~fallback'
      BY <2>1 DEF LoadPage, StartPageLoad
    <2>5. QED
      BY <2>2, <2>3, <2>4 DEF ViewInv, NothingOlderPending, AsksForPage
  <1>2. CASE \E i \in Image : LoadImage(i)
    <2>1. PICK i \in Image : LoadImage(i)
      BY <1>2
    <2>2. /\ gen' = gen + 1 /\ request' = i
          /\ fetches' = fetches \cup {[of |-> gen + 1, image |-> i]}
      BY <2>1 DEF LoadImage, Ask
    <2>3. fetches' \subseteq [of : 1..gen', image : Image] /\ gen' \in Nat
          /\ \A r \in fetches' : r.of = gen' => r.image = i
      BY <2>2 DEF ViewInv
    <2>4. /\ engine' = None /\ pending' = None /\ ~webUp' /\ ~timer'
          /\ video' = "hidden"
      BY <2>1 DEF LoadImage, LeavePage
    <2>5. QED
      BY <2>2, <2>3, <2>4 DEF ViewInv, NothingOlderPending
  <1>3. CASE LoadBlank \/ PlayVideo
    <2>1. /\ gen' = gen + 1 /\ fetches' = fetches
          /\ \/ request' = Blank
             \/ request' = Video /\ video' = "playing"
      BY <1>3 DEF LoadBlank, PlayVideo, Ask
    <2>2. fetches' \subseteq [of : 1..gen', image : Image] /\ gen' \in Nat
          /\ \A r \in fetches' : r.of # gen'
      BY <2>1 DEF ViewInv
    <2>3. engine' = None /\ pending' = None /\ ~webUp' /\ ~timer'
      BY <1>3 DEF LoadBlank, PlayVideo, LeavePage
    <2>4. Blank # Video
      BY ScreenAssumption DEF ViewAssumption
    <2>5. QED
      BY <2>1, <2>2, <2>3, <2>4 DEF ViewInv, NothingOlderPending
  <1>4. CASE StopVideo
    <2>1. /\ UNCHANGED <<gen, request, page, canvas, fetches, reload>>
          /\ video = "playing" /\ video' = "idle"
      BY <1>4 DEF StopVideo
    <2>2. QED
      BY <2>1 DEF ViewInv, NothingOlderPending, AsksForPage, page, canvas,
                  reload
  <1>5. CASE \E wanted \in BOOLEAN : SetReloadInterval(wanted)
    <2>1. /\ UNCHANGED <<gen, request, page, canvas, fetches, video>>
          /\ request \in Page
      BY <1>5 DEF SetReloadInterval
    <2>2. QED
      BY <2>1 DEF ViewInv, NothingOlderPending, AsksForPage, page, canvas
  <1>6. QED
    BY <1>1, <1>2, <1>3, <1>4, <1>5 DEF Request

\* A completion of a load reveals the page asked for, or nothing.
LEMMA LoadsBringLatest ==
  ASSUME ViewInv, PageLoads \/ PageFails \/ LateAbort
  PROVE  /\ ViewInv'
         /\ UNCHANGED <<video, canvas, request>>
         /\ web' \in {web, request}
         /\ web' # web => request \in Page
         /\ webUp' = webUp \/ (webUp' /\ web' = request /\ request \in Page)
  <1> USE ContentsDiffer
  <1>1. /\ UNCHANGED <<gen, request, url, canvas, fetches, video, interval>>
        /\ engine' \in {None, engine}
    BY DEF PageLoads, PageFails, LateAbort
  <1>2. pending' \in {None, pending}
    BY DEF PageLoads, PageFails, LateAbort, Finished
  <1>3. CASE PageLoads
    <2>1. engine # None /\ web' = engine /\ webUp' \in {webUp, TRUE}
      BY <1>3 DEF PageLoads, Finished, Reveal
    <2>2. request \in Page /\ web' = request
      BY <2>1 DEF ViewInv, NothingOlderPending
    <2>3. ViewInv'
      BY <1>1, <1>2, <2>2 DEF ViewInv, NothingOlderPending, AsksForPage, canvas
    <2>4. QED
      BY <1>1, <2>1, <2>2, <2>3
  <1>4. CASE PageFails \/ LateAbort
    <2>1. UNCHANGED <<web, webUp, timer>>
      BY <1>4 DEF PageFails, LateAbort, Finished
    <2>2. ViewInv'
      BY <1>1, <1>2, <2>1 DEF ViewInv, NothingOlderPending, AsksForPage, canvas
    <2>3. QED
      BY <1>1, <2>1, <2>2
  <1>5. QED
    BY <1>3, <1>4

\* The timers load what was asked for, and change nothing on the screen.
LEMMA TimersLoadLatest ==
  ASSUME ViewInv, WatchdogFires \/ TimerFires
  PROVE  ViewInv' /\ UNCHANGED <<web, webUp, video, canvas, request>>
  <1> USE ContentsDiffer
  <1>1. UNCHANGED <<gen, request, web, webUp, canvas, fetches, video, reload>>
    BY DEF WatchdogFires, TimerFires
  <1>2. /\ engine' = engine \/ (engine' = request /\ request \in Page)
        /\ pending' = pending
        /\ url' = url \/ (url' = request /\ request \in Page)
    BY DEF WatchdogFires, TimerFires, StartPageLoad, ViewInv,
           NothingOlderPending, AsksForPage
  <1>3. QED
    BY <1>1, <1>2 DEF ViewInv, NothingOlderPending, AsksForPage, canvas, reload

\* A reply paints the image asked for, leaves the canvas black, or is dropped.
LEMMA FetchBringsLatest ==
  ASSUME ViewInv, NEW r \in fetches, Fetched(r) \/ FetchFails(r)
  PROVE  /\ ViewInv'
         /\ UNCHANGED <<video, request, web>>
         /\ \/ UNCHANGED <<canvas, webUp>>
            \/ /\ request \in Image /\ ~webUp' /\ video = "hidden"
               /\ image' = request \/ (image' = image /\ ~webUp /\ ~fallback')
  <1> USE ContentsDiffer
  <1>1. /\ fetches' = fetches \ {r}
        /\ UNCHANGED <<gen, request, handler, pending, engine, url, web, video,
                       reload>>
    BY DEF Fetched, FetchFails, FetchEnds
  <1>2. r.image \in Image /\ (r.of = gen => r.image = request)
    BY DEF ViewInv, NothingOlderPending
  <1>3. \/ UNCHANGED <<canvas, webUp>>
        \/ /\ r.of = gen /\ ~fallback'
           /\ \/ image' = r.image /\ ~webUp'
              \/ image' = image /\ webUp' = webUp
    BY DEF Fetched, FetchFails, FetchEnds, ShowImage
  <1>4. r.of = gen => request \in Image /\ ~webUp /\ video = "hidden"
    BY <1>2 DEF ViewInv, NothingOlderPending
  <1>5. ViewInv'
    BY <1>1, <1>3, <1>4
    DEF ViewInv, NothingOlderPending, AsksForPage, canvas, reload
  <1>6. QED
    BY <1>1, <1>2, <1>3, <1>4, <1>5

LEMMA ViewStep ==
  ASSUME ViewInv, [Next]_vars
  PROVE  ViewInv'
  <1>1. CASE UNCHANGED vars
    BY <1>1 DEF vars, page, canvas, reload, ViewInv, NothingOlderPending,
                AsksForPage
  <1>2. CASE Arrival
    BY <1>2, LoadsBringLatest, TimersLoadLatest, FetchBringsLatest DEF Arrival
  <1>3. QED
    BY <1>1, <1>2, RequestsReplace DEF Next

\* Between two requests only what was asked for last comes up, or black where
\* an image was: for any pages and images, any number of requests and failures,
\* and however late loads, aborted loads, replies and timers report.
THEOREM LateAnswersNeverShow == MCSpec => LateAnswersAreDropped
  <1> DEFINE Changes == gen' = gen /\ OnScreen' # OnScreen
             Latest == \/ OnScreen' = request
                       \/ request \in Image /\ OnScreen' = None
  <1>1. MCInit => ViewInv
    <2>1. Init => ViewInv
      <3> SUFFICES ASSUME Init PROVE ViewInv
        OBVIOUS
      <3>1. request = Blank /\ gen = 0 /\ fetches = {}
        BY DEF Init
      <3>2. Blank \notin Page \cup Image /\ Blank # Video
        BY ScreenAssumption DEF ViewAssumption
      <3>3. NothingOlderPending
        BY <3>1, <3>2 DEF Init, NothingOlderPending
      <3>4. QED
        BY <3>1, <3>2, <3>3 DEF ViewInv
    <2>2. QED
      BY <2>1 DEF MCInit
  <1>2. ViewInv /\ [Next]_vars => ViewInv'
    BY ViewStep
  <1>3. ViewInv /\ [Next]_vars => [Changes => Latest]_vars
    <2> SUFFICES ASSUME ViewInv, Next, Changes PROVE Latest
      OBVIOUS
    <2> USE ContentsDiffer
    <2>1. CASE Request
      <3>1. \/ video # "hidden" /\ video' # "hidden"
            \/ UNCHANGED <<video, web, webUp, canvas>>
        BY <2>1 DEF Request, LoadPage, LoadImage, LoadBlank, PlayVideo, Ask,
                    StopVideo, SetReloadInterval, page, ViewInv
      <3>2. QED
        BY <3>1 DEF OnScreen, Painted, canvas
    <2>2. CASE PageLoads \/ PageFails \/ LateAbort
      <3>1. PICK u : u = webUp'
        OBVIOUS
      <3>2. /\ UNCHANGED <<video, canvas, request>>
            /\ web' \in {web, request} /\ (web' # web => request \in Page)
            /\ u = webUp \/ (u /\ web' = request /\ request \in Page)
        BY <2>2, <3>1, LoadsBringLatest
      <3>3. QED
        BY <3>1, <3>2 DEF OnScreen, Painted, canvas
    <2>3. CASE WatchdogFires \/ TimerFires
      BY <2>3, TimersLoadLatest DEF OnScreen, Painted, canvas
    <2>4. CASE \E r \in fetches : Fetched(r) \/ FetchFails(r)
      BY <2>4, FetchBringsLatest DEF OnScreen, Painted, canvas
    <2>5. QED
      BY <2>1, <2>2, <2>3, <2>4 DEF Next, Arrival
  <1>4. [MCNext]_allVars => [Next]_vars
    BY PartsMove
  <1>5. QED
    BY <1>1, <1>2, <1>3, <1>4, PTL DEF MCSpec, LateAnswersAreDropped
=============================================================================
