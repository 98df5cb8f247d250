---------------------------- MODULE FbdevPlayer -----------------------------
(***************************************************************************)
(* Video on the linuxfb boards: GstFbdevMediaPlayer in the viewer          *)
(* (src/src/anthias_viewer/media_player.py) and the helper process it      *)
(* spawns for every clip, which paints to the framebuffer until it is told *)
(* to stop (src/src/anthias_viewer/gst_fbdev_player.py).                   *)
(*                                                                         *)
(* play() and stop() run on the main thread, MediaPlayerProxy.reset() on   *)
(* the subscriber thread when the rotation changes; they share the         *)
(* instance and its process handle, and nothing locks them.                *)
(***************************************************************************)
EXTENDS Naturals, FiniteSets

CONSTANTS
    Clip, None,
    MaxPlays,   \* bound: helpers spawned
    MaxResets,  \* bound: rotation changes
    MaxErrors   \* bound: pipelines that fail, helpers that do not answer

FbdevAssumption ==
    /\ MaxPlays \in Nat \ {0} /\ MaxResets \in Nat /\ MaxErrors \in Nat
    /\ None \notin Clip

Child == 1..MaxPlays
Inst == 1..(MaxResets + 1)
Thread == {"main", "sub"}

VARIABLES
    \* The viewer.
    instance,   \* MediaPlayerProxy.INSTANCE, or 0
    made,       \* the instances made so far
    handle,     \* _proc of each instance, or 0
    pc, on,     \* where each thread is in stop(), and on which instance
    target,     \* the process it waits for
    todo,       \* the clip the main thread plays after stop(), or None
    spawned,
    \* The helpers.
    clip, phase,    \* what each plays, and how far main() has come
    audio,          \* whether its pipeline has an audio sink
    killed,         \* sent SIGKILL
    resets, errors

viewer == <<instance, made, handle, pc, on, target, todo, spawned>>
helpers == <<clip, phase, audio, killed>>
vars == <<viewer, helpers, resets, errors>>

TypeOK ==
    /\ instance \in Inst \cup {0} /\ made \in Inst \cup {0}
    /\ handle \in [Inst -> Child \cup {0}]
    /\ pc \in [Thread -> {"idle", "signal", "wait", "kill", "clear", "spawn",
                          "playing"}]
    /\ on \in [Thread -> Inst \cup {0}]
    /\ target \in [Thread -> Child \cup {0}]
    /\ todo \in Clip \cup {None} /\ spawned \in 0..MaxPlays
    /\ clip \in [Child -> Clip \cup {None}]
    /\ phase \in [Child -> {"none", "boot", "build", "loop", "quit", "dead"}]
    /\ audio \in [Child -> BOOLEAN] /\ killed \in [Child -> BOOLEAN]
    /\ resets \in 0..MaxResets /\ errors \in 0..MaxErrors

Init ==
    /\ instance = 0 /\ made = 0 /\ handle = [i \in Inst |-> 0]
    /\ pc = [t \in Thread |-> "idle"] /\ on = [t \in Thread |-> 0]
    /\ target = [t \in Thread |-> 0]
    /\ todo = None /\ spawned = 0
    /\ clip = [k \in Child |-> None] /\ phase = [k \in Child |-> "none"]
    /\ audio = [k \in Child |-> FALSE] /\ killed = [k \in Child |-> FALSE]
    /\ resets = MaxResets /\ errors = MaxErrors

Fault == errors > 0 /\ errors' = errors - 1

\* A killed process paints nothing more, even when it cannot be reaped yet.
Paints(k) == phase[k] = "loop" /\ ~killed[k]

-----------------------------------------------------------------------------
(* The viewer. *)

Leaves(t) == IF t = "main" /\ todo' # None THEN "spawn" ELSE "idle"

\* The head of stop(): nothing to do without a handle.
EnterStop(t, i) ==
    /\ on' = [on EXCEPT ![t] = i]
    /\ pc' = [pc EXCEPT ![t] = IF handle[i] # 0 THEN "signal" ELSE Leaves(t)]

\* MediaPlayerProxy.get_instance()
GetInstance(i) ==
    IF instance # 0 THEN i = instance /\ UNCHANGED <<instance, made>>
    ELSE i = made + 1 /\ i \in Inst /\ instance' = i /\ made' = i

\* set_asset() and play(), which begins with stop().
Play(c) ==
    /\ pc["main"] = "idle" /\ spawned < MaxPlays
    /\ \E i \in Inst :
        /\ GetInstance(i)
        /\ todo' = c
        /\ EnterStop("main", i)
    /\ UNCHANGED <<handle, target, spawned, helpers, resets, errors>>

\* view_video() is over: its deadline has passed or a skip came.
Stop ==
    /\ pc["main"] = "playing"
    /\ todo' = None
    /\ EnterStop("main", on["main"])
    /\ UNCHANGED <<instance, made, handle, target, spawned, helpers, resets,
                   errors>>

\* MediaPlayerProxy.reset()
Reset ==
    /\ pc["sub"] = "idle" /\ resets > 0 /\ instance # 0
    /\ resets' = resets - 1
    /\ IF handle[instance] # 0
       THEN EnterStop("sub", instance) /\ UNCHANGED <<instance, todo>>
       ELSE instance' = 0 /\ UNCHANGED <<pc, on, todo>>
    /\ UNCHANGED <<made, handle, target, spawned, helpers, errors>>

\* poll() and killpg(SIGTERM).  A helper that has not installed its handlers
\* dies of the signal; one that is building its pipeline quits a loop that
\* does not run yet, which is forgotten; one that runs its loop leaves it.
Signal(t) ==
    LET k == handle[on[t]] IN
    /\ pc[t] = "signal" /\ k # 0
    /\ target' = [target EXCEPT ![t] = k]
    /\ pc' = [pc EXCEPT ![t] = IF phase[k] = "dead" THEN "clear" ELSE "wait"]
    /\ phase' = [phase EXCEPT ![k] =
                    CASE phase[k] = "boot" -> "dead"
                      [] phase[k] = "loop" -> "quit"
                      [] OTHER -> phase[k]]
    /\ UNCHANGED <<instance, made, handle, on, todo, spawned, clip, audio,
                   killed, resets, errors>>

\* The other thread has dropped the handle since it was looked at: reset()
\* swallows the AttributeError, on the main thread it ends the viewer, whose
\* container takes the helpers with it.
SignalFindsNone(t) ==
    /\ pc[t] = "signal" /\ handle[on[t]] = 0
    /\ IF t = "sub"
       THEN /\ instance' = 0
            /\ pc' = [pc EXCEPT ![t] = "idle"]
            /\ UNCHANGED <<made, handle, on, target, todo, helpers>>
       ELSE /\ instance' = 0 /\ made' = 0
            /\ handle' = [i \in Inst |-> 0] /\ on' = [s \in Thread |-> 0]
            /\ pc' = [s \in Thread |-> "idle"]
            /\ phase' = [k \in Child |->
                            IF phase[k] = "none" THEN "none" ELSE "dead"]
            /\ todo' = None
            /\ UNCHANGED <<target, clip, audio, killed>>
    /\ UNCHANGED <<spawned, resets, errors>>

\* wait(timeout=3): the helper has ended, or it has not.
Reaped(t) ==
    /\ pc[t] \in {"wait", "kill"} /\ phase[target[t]] = "dead"
    /\ pc' = [pc EXCEPT ![t] = "clear"]
    /\ UNCHANGED <<instance, made, handle, on, target, todo, spawned, helpers,
                   resets, errors>>

WaitTimesOut(t) ==
    /\ pc[t] \in {"wait", "kill"} /\ phase[target[t]] # "dead"
    /\ IF pc[t] = "wait"
       THEN /\ killed' = [killed EXCEPT ![target[t]] = TRUE]
            /\ pc' = [pc EXCEPT ![t] = "kill"]
       ELSE /\ pc' = [pc EXCEPT ![t] = "clear"]
            /\ UNCHANGED killed
    /\ UNCHANGED <<instance, made, handle, on, target, todo, spawned, clip,
                   phase, audio, resets, errors>>

\* The handle is dropped, whether the process has ended or not, and whichever
\* process it stands for by now.
ClearHandle(t) ==
    /\ pc[t] = "clear"
    /\ handle' = [handle EXCEPT ![on[t]] = 0]
    /\ UNCHANGED todo
    /\ pc' = [pc EXCEPT ![t] = Leaves(t)]
    /\ instance' = IF t = "sub" THEN 0 ELSE instance
    /\ UNCHANGED <<made, on, target, spawned, helpers, resets, errors>>

Spawn ==
    /\ pc["main"] = "spawn"
    /\ LET k == spawned + 1 IN
        /\ spawned' = k
        /\ handle' = [handle EXCEPT ![on["main"]] = k]
        /\ clip' = [clip EXCEPT ![k] = todo]
        /\ phase' = [phase EXCEPT ![k] = "boot"]
    /\ todo' = None
    /\ pc' = [pc EXCEPT !["main"] = "playing"]
    /\ UNCHANGED <<instance, made, on, target, audio, killed, resets, errors>>

SpawnFails ==
    /\ pc["main"] = "spawn" /\ Fault
    /\ handle' = [handle EXCEPT ![on["main"]] = 0]
    /\ todo' = None
    /\ pc' = [pc EXCEPT !["main"] = "playing"]
    /\ UNCHANGED <<instance, made, on, target, spawned, helpers, resets>>

-----------------------------------------------------------------------------
(* A helper: main() of gst_fbdev_player. *)

HelperStep(k, ph) ==
    /\ phase' = [phase EXCEPT ![k] = ph]
    /\ UNCHANGED <<viewer, clip, resets>>

\* The handlers are installed and the audio device has been tried.
Boots(k, usable) ==
    /\ phase[k] = "boot" /\ ~killed[k]
    /\ audio' = [audio EXCEPT ![k] = usable]
    /\ HelperStep(k, "build")
    /\ UNCHANGED <<killed, errors>>

\* build_and_start()
Starts(k) ==
    /\ phase[k] = "build" /\ ~killed[k]
    /\ HelperStep(k, "loop")
    /\ UNCHANGED <<audio, killed, errors>>

\* A pipeline that does not start, or that posts an error, is rebuilt once
\* without audio; then the helper exits.
PipelineFails(k) ==
    /\ phase[k] \in {"build", "loop"} /\ ~killed[k] /\ Fault
    /\ HelperStep(k, IF audio[k] THEN "build" ELSE "dead")
    /\ audio' = [audio EXCEPT ![k] = FALSE]
    /\ UNCHANGED killed

\* The pipeline has been taken down, or the kernel is done with the process.
Exits(k) ==
    /\ phase[k] = "quit" \/ (killed[k] /\ phase[k] # "dead")
    /\ HelperStep(k, "dead")
    /\ UNCHANGED <<audio, killed, errors>>

Next ==
    \/ \E c \in Clip : Play(c)
    \/ Stop \/ Reset \/ Spawn \/ SpawnFails
    \/ \E t \in Thread : \/ Signal(t) \/ SignalFindsNone(t) \/ Reaped(t)
                         \/ WaitTimesOut(t) \/ ClearHandle(t)
    \/ \E k \in Child : \/ \E usable \in BOOLEAN : Boots(k, usable)
                        \/ Starts(k) \/ PipelineFails(k) \/ Exits(k)

Spec == Init /\ [][Next]_vars

-----------------------------------------------------------------------------
(* Properties *)

\* The clip the caller asked for, as long as a handle keeps track of it, and
\* the clips whose helper paints.
Asked ==
    LET k == IF on["main"] = 0 THEN 0 ELSE handle[on["main"]] IN
    IF k = 0 THEN None ELSE clip[k]

Frames == {clip[k] : k \in {j \in Child : Paints(j)}}

\* "calling reset() is cheap and harmless": after it, as before it, no two
\* helpers paint to the framebuffer.
ResetIsHarmless == Cardinality({k \in Child : Paints(k)}) <= 1
=============================================================================
