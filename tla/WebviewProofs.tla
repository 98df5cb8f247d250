--------------------------- MODULE WebviewProofs ---------------------------
(***************************************************************************)
(* Proofs about the process that draws the screen, as the viewer sees it.  *)
(*                                                                         *)
(* The viewer skips a load it takes to be on the screen already.  It may:  *)
(* whatever crashes and restarts in between, a living process shows what   *)
(* current_browser_url says, or the viewer has forgotten it.               *)
(*                                                                         *)
(* The handlers that blank, unblank, stop and play leave the flags of the  *)
(* playback loop in agreement.  The argument is by what each of them has   *)
(* still to assign.                                                        *)
(***************************************************************************)
EXTENDS MCViewer, Sequences, SequenceTheorems, TLAPS

\* What the viewer remembers to have loaded, the living process shows.
UrlIsShown == alive => url \in {None, shows.content}

\* A load under way is one of an asset.
LoadHasTarget ==
    /\ pc \in {"stage", "load", "resend"} => want \in Asset
    /\ after # "top" => want \in Asset

IInv == TypeOK /\ UrlIsShown /\ LoadHasTarget

LEMMA BlankType ==
  /\ Blank \in [content : Asset \cup {None}, with : Header \cup {None}]
  /\ Blank.content = None
  BY DEF Blank

LEMMA Bounds ==
  /\ MaxAttempts \in Nat \ {0} /\ MaxFaults \in Nat /\ MaxEdits \in Nat
  /\ None \notin Asset
  BY WebviewAssumption DEF WebviewAssumption, Asset

LEMMA InitIInv == ASSUME Init PROVE IInv
  <1>1. UrlIsShown /\ LoadHasTarget
    BY DEF Init, UrlIsShown, LoadHasTarget
  <1>2. attempts \in 0..(MaxAttempts - 1) /\ faults \in 0..MaxFaults
        /\ edits \in 0..MaxEdits
    BY Bounds DEF Init
  <1>3. supports \in BOOLEAN /\ headersOf \in [Page -> Header \cup {None}]
    BY WebviewAssumption DEF Init, WebviewAssumption
  <1>4. TypeOK
    BY <1>2, <1>3, BlankType DEF Init, TypeOK
  <1>5. QED
    BY <1>1, <1>4 DEF IInv

\* The process dies, the rows or the schedule change: around the main thread.
LEMMA AroundKeeps ==
  ASSUME IInv,
         \/ Crash \/ RequestBounce
         \/ \E p \in Page, h \in Header \cup {None} : EditHeaders(p, h)
  PROVE  IInv'
  <1>1. CASE Crash
    <2>1. faults' \in 0..MaxFaults
      BY <1>1, Bounds DEF Crash, IInv, TypeOK
    <2>2. TypeOK'
      <3>1. /\ alive' = FALSE /\ staged' = None /\ shows' = Blank
            /\ UNCHANGED <<supports, url, sent, slot, bounce, pc, want>>
            /\ UNCHANGED <<headers, applied, after, attempts>>
            /\ UNCHANGED <<headersOf, rotation, edits>>
        BY <1>1 DEF Crash, Gone, cache, thread
      <3>2. /\ alive' \in BOOLEAN /\ supports' \in BOOLEAN
            /\ staged' \in Header \cup {None}
            /\ shows' \in [content : Asset \cup {None}, with : Header \cup {None}]
            /\ ~alive' => shows' = Blank /\ staged' = None
        BY <3>1, BlankType DEF IInv, TypeOK
      <3>3. /\ url' \in Asset \cup {None} /\ sent' \in Header \cup {None}
            /\ slot' \in BOOLEAN /\ bounce' \in BOOLEAN
            /\ headersOf' \in [Page -> Header \cup {None}]
            /\ rotation' \in Rotations /\ edits' \in 0..MaxEdits
        BY <3>1 DEF IInv, TypeOK
      <3>4. /\ pc' \in {"top", "pick", "spawn", "stage", "load", "resend"}
            /\ want' \in Asset \cup {None} /\ headers' \in Header \cup {None}
            /\ applied' \in BOOLEAN
            /\ after' \in {"top", "stage", "load", "resend"}
            /\ attempts' \in 0..(MaxAttempts - 1)
        BY <3>1 DEF IInv, TypeOK
      <3>5. QED
        BY <2>1, <3>2, <3>3, <3>4 DEF TypeOK
    <2>3. UrlIsShown' /\ LoadHasTarget'
      BY <1>1 DEF Crash, Gone, thread, IInv, UrlIsShown, LoadHasTarget
    <2>4. QED
      BY <2>2, <2>3 DEF IInv
  <1>2. CASE RequestBounce
    <2>1. edits' \in 0..MaxEdits
      BY <1>2, Bounds DEF RequestBounce, IInv, TypeOK
    <2>2. QED
      BY <1>2, <2>1
      DEF RequestBounce, process, cache, thread, IInv, TypeOK, UrlIsShown,
          LoadHasTarget
  <1>3. ASSUME NEW p \in Page, NEW h \in Header \cup {None}, EditHeaders(p, h)
        PROVE  IInv'
    <2>1. edits' \in 0..MaxEdits
      BY <1>3, Bounds DEF EditHeaders, IInv, TypeOK
    <2>2. QED
      BY <1>3, <2>1
      DEF EditHeaders, process, cache, thread, IInv, TypeOK, UrlIsShown,
          LoadHasTarget
  <1>4. QED
    BY <1>1, <1>2, <1>3

\* The bounce takes the process down and forgets its URL in one step; the
\* choice of the next asset touches neither.
LEMMA ChoosingKeeps ==
  ASSUME IInv, TopOfTick \/ \E a \in Asset : Pick(a)
  PROVE  IInv'
  <1>1. CASE TopOfTick
    <2>1. CASE bounce
      BY <1>1, <2>1, BlankType
      DEF TopOfTick, Gone, bounds, IInv, TypeOK, UrlIsShown, LoadHasTarget
    <2>2. CASE ~bounce
      <3>1. /\ pc' = "pick" /\ bounce' = FALSE
            /\ UNCHANGED <<alive, staged, shows, url, supports, sent, slot,
                           want, headers, applied, after, attempts,
                           headersOf, rotation, faults, edits>>
        BY <1>1, <2>2 DEF TopOfTick, bounds
      <3>2. TypeOK'
        <4>1. pc' \in {"top", "pick", "spawn", "stage", "load", "resend"}
              /\ bounce' \in BOOLEAN
          BY <3>1
        <4>2. /\ shows' \in [content : Asset \cup {None},
                            with : Header \cup {None}]
              /\ ~alive' => shows' = Blank /\ staged' = None
          BY <3>1 DEF IInv, TypeOK, Blank
        <4>3. QED
          BY <3>1, <4>1, <4>2 DEF IInv, TypeOK
      <3>3. UrlIsShown' /\ LoadHasTarget'
        BY <3>1 DEF IInv, UrlIsShown, LoadHasTarget
      <3>4. QED
        BY <3>2, <3>3 DEF IInv
    <2>3. QED
      BY <2>1, <2>2
  <1>2. ASSUME NEW a \in Asset, Pick(a) PROVE IInv'
    <2>1. headers' \in Header \cup {None}
      BY <1>2 DEF Pick, IInv, TypeOK
    <2>2. want' = a /\ pc' \in {"stage", "load", "spawn"}
          /\ after' \in {"stage", "load"}
      BY <1>2 DEF Pick
    <2>3. QED
      BY <1>2, <2>1, <2>2
      DEF Pick, process, cache, bounds, IInv, TypeOK, UrlIsShown, LoadHasTarget
  <1>3. QED
    BY <1>1, <1>2

\* Before a process is launched the URL of the one before it is forgotten.
LEMMA SpawningKeeps ==
  ASSUME IInv, Spawn \/ SpawnFails \/ ResendFails
  PROVE  IInv'
  <1>1. CASE Spawn
    <2>1. supports' \in BOOLEAN /\ attempts' \in 0..(MaxAttempts - 1)
      BY <1>1, Bounds, WebviewAssumption DEF Spawn, WebviewAssumption
    <2>2. LoadHasTarget'
      BY <1>1 DEF Spawn, IInv, LoadHasTarget, TypeOK
    <2>3. UrlIsShown'
      BY <1>1 DEF Spawn, ResetCaches, UrlIsShown
    <2>4. TypeOK'
      BY <1>1, <2>1, BlankType
      DEF Spawn, ResetCaches, bounds, IInv, TypeOK
    <2>5. QED
      BY <2>2, <2>3, <2>4 DEF IInv
  <1>2. CASE SpawnFails /\ attempts < MaxAttempts - 1
    <2>1. attempts' \in 0..(MaxAttempts - 1) /\ faults' \in 0..MaxFaults
      BY <1>2, Bounds DEF SpawnFails, IInv, TypeOK
    <2>2. QED
      BY <1>2, <2>1
      DEF SpawnFails, ResetCaches, IInv, TypeOK, UrlIsShown, LoadHasTarget
  <1>3. ASSUME ViewerRestarts, faults' \in 0..MaxFaults,
               UNCHANGED <<supports, want, headers, applied, headersOf,
                           rotation, edits>>
        PROVE  IInv'
    <2>1. attempts' \in 0..(MaxAttempts - 1)
      BY <1>3, Bounds DEF ViewerRestarts
    <2>2. QED
      BY <1>3, <2>1, BlankType
      DEF ViewerRestarts, Gone, ResetCaches, IInv, TypeOK, UrlIsShown,
          LoadHasTarget
  <1>4. CASE SpawnFails /\ ~(attempts < MaxAttempts - 1)
    <2>1. faults' \in 0..MaxFaults
      BY <1>4, Bounds DEF SpawnFails, IInv, TypeOK
    <2>2. QED
      BY <1>3, <1>4, <2>1 DEF SpawnFails
  <1>5. CASE ResendFails
    BY <1>3, <1>5 DEF ResendFails, bounds, IInv, TypeOK
  <1>6. QED
    BY <1>1, <1>2, <1>4, <1>5

\* What is loaded is what is remembered.
LEMMA LoadingKeeps ==
  ASSUME IInv, Stage \/ StageFails \/ SkipLoad \/ Load \/ LoadFindsItGone
  PROVE  IInv'
  <1>1. CASE Stage
    BY <1>1 DEF Stage, bounds, IInv, TypeOK, UrlIsShown, LoadHasTarget
  <1>2. CASE StageFails
    <2>1. faults' \in 0..MaxFaults
      BY <1>2, Bounds DEF StageFails, IInv, TypeOK
    <2>2. TypeOK'
      <3>1. /\ UNCHANGED <<alive, supports, staged, shows, url, sent, slot>>
            /\ UNCHANGED <<bounce, want, headers, after, attempts>>
            /\ UNCHANGED <<headersOf, rotation, edits>>
            /\ applied' = FALSE /\ pc' = "load"
        BY <1>2 DEF StageFails, process, cache
      <3>2. /\ alive' \in BOOLEAN /\ supports' \in BOOLEAN
            /\ staged' \in Header \cup {None}
            /\ shows' \in [content : Asset \cup {None}, with : Header \cup {None}]
            /\ ~alive' => shows' = Blank /\ staged' = None
        BY <3>1 DEF IInv, TypeOK
      <3>3. /\ url' \in Asset \cup {None} /\ sent' \in Header \cup {None}
            /\ slot' \in BOOLEAN /\ bounce' \in BOOLEAN
            /\ headersOf' \in [Page -> Header \cup {None}]
            /\ rotation' \in Rotations /\ edits' \in 0..MaxEdits
        BY <3>1 DEF IInv, TypeOK
      <3>4. /\ pc' \in {"top", "pick", "spawn", "stage", "load", "resend"}
            /\ want' \in Asset \cup {None} /\ headers' \in Header \cup {None}
            /\ applied' \in BOOLEAN
            /\ after' \in {"top", "stage", "load", "resend"}
            /\ attempts' \in 0..(MaxAttempts - 1)
        BY <3>1 DEF IInv, TypeOK
      <3>5. QED
        BY <2>1, <3>2, <3>3, <3>4 DEF TypeOK
    <2>3. UrlIsShown' /\ LoadHasTarget'
      BY <1>2
      DEF StageFails, process, cache, IInv, UrlIsShown, LoadHasTarget
    <2>4. QED
      BY <2>2, <2>3 DEF IInv
  <1>3. CASE SkipLoad
    BY <1>3
    DEF SkipLoad, process, cache, bounds, IInv, TypeOK, UrlIsShown,
        LoadHasTarget
  <1>4. CASE Load
    <2>1. want \in Asset
      BY <1>4 DEF Load, IInv, LoadHasTarget
    <2>2. shows' \in [content : Asset \cup {None}, with : Header \cup {None}]
          /\ shows'.content = want /\ url' = want
          /\ sent' \in Header \cup {None}
      BY <1>4, <2>1 DEF Load, Loaded, IInv, TypeOK
    <2>3. QED
      BY <1>4, <2>1, <2>2
      DEF Load, Loaded, bounds, IInv, TypeOK, UrlIsShown, LoadHasTarget
  <1>5. CASE LoadFindsItGone
    BY <1>5
    DEF LoadFindsItGone, process, cache, bounds, IInv, TypeOK, UrlIsShown,
        LoadHasTarget
  <1>6. QED
    BY <1>1, <1>2, <1>3, <1>4, <1>5

LEMMA NextKeepsIInv == IInv /\ [Next]_vars => IInv'
  <1>1. ASSUME IInv, UNCHANGED vars PROVE IInv'
    BY <1>1
    DEF vars, process, cache, thread, bounds, IInv, TypeOK, UrlIsShown,
        LoadHasTarget
  <1>2. QED
    BY <1>1, AroundKeeps, ChoosingKeeps, SpawningKeeps, LoadingKeeps
    DEF Next, MainStep

\* A load is skipped only for content the living process shows, for any assets
\* and headers, any number of crashes, failed calls and failed launches, and
\* with binaries that know the headers slot or do not.
THEOREM SkipsAreSafe == Spec => []SkippedLoadIsOnScreen
  <1>1. IInv => SkippedLoadIsOnScreen
    BY Bounds
    DEF IInv, UrlIsShown, LoadHasTarget, SkippedLoadIsOnScreen, Changed
  <1>2. QED
    BY <1>1, InitIInv, NextKeepsIInv, PTL DEF Spec

-----------------------------------------------------------------------------
(* The commands that steer the playback loop, for any assets and commands. *)

OutputOn == wayland => powered \/ refused

Agree ==
    (blanked => stopped) /\ (wayland => (powered <=> ~blanked) \/ refused)

\* What holds at each point of each handler, named by what it has still to do.
ScriptFits ==
    \/ script \in {<<>>, <<"skip">>, <<"skip", "stop">>, <<"stop">>,
                   <<"read", "check">>, <<"check">>} /\ Agree
    \/ script = <<"dark", "stop", "off", "skip">> /\ wayland
    \/ script = <<"stop", "off", "skip">> /\ wayland /\ blanked
    \/ script = <<"off", "skip">> /\ wayland /\ blanked /\ stopped
    \/ script = <<"dark", "stop", "skip">> /\ ~wayland
    \/ script = <<"stop", "skip">> /\ ~wayland
    \/ script = <<"on", "light", "run", "skip">>
    \/ script = <<"light", "run", "skip">> /\ OutputOn
    \/ script \in {<<"run", "skip">>, <<"run">>} /\ ~blanked /\ OutputOn

LoopFlags ==
    /\ stopped \in BOOLEAN /\ blanked \in BOOLEAN
    /\ powered \in BOOLEAN /\ refused \in BOOLEAN /\ wayland \in BOOLEAN

LoopInv == LoopFlags /\ ScriptFits

\* Two sequences put together are the one that has the elements of both.
LEMMA Joined ==
  ASSUME NEW S, NEW s \in Seq(S), NEW t \in Seq(S), NEW r \in Seq(S),
         Len(r) = Len(s) + Len(t),
         \A i \in 1..Len(s) : r[i] = s[i],
         \A i \in 1..Len(t) : r[Len(s) + i] = t[i]
  PROVE  s \o t = r
  <1>1. s \o t \in Seq(S) /\ Len(s \o t) = Len(r)
    BY ConcatProperties
  <1>2. ASSUME NEW i \in 1..Len(r) PROVE (s \o t)[i] = r[i]
    <2>1. CASE i <= Len(s)
      BY <2>1, ConcatProperties
    <2>2. CASE i > Len(s)
      <3>1. i - Len(s) \in 1..Len(t) /\ Len(s) + (i - Len(s)) = i
        BY <2>2
      <3>2. QED
        BY <2>2, <3>1, ConcatProperties
    <2>3. QED
      BY <2>1, <2>2
  <1>3. QED
    BY <1>1, <1>2, SeqEqual

LEMMA TwoAndOne ==
  ASSUME NEW a, NEW b, NEW c
  PROVE  <<a, b>> \o <<c>> = <<a, b, c>>
  <1> DEFINE s == <<a, b>>
             t == <<c>>
             r == <<a, b, c>>
             S == {a, b, c}
  <1>1. s \in Seq(S) /\ t \in Seq(S) /\ r \in Seq(S)
    OBVIOUS
  <1>2. /\ Len(r) = Len(s) + Len(t)
        /\ \A i \in 1..Len(s) : r[i] = s[i]
        /\ \A i \in 1..Len(t) : r[Len(s) + i] = t[i]
    OBVIOUS
  <1> HIDE DEF s, t, r, S
  <1>3. s \o t = r
    BY <1>1, <1>2, Joined
  <1>4. QED
    BY <1>3 DEF s, t, r

LEMMA OneAndThree ==
  ASSUME NEW a, NEW b, NEW c, NEW d
  PROVE  <<a>> \o <<b, c, d>> = <<a, b, c, d>>
  <1> DEFINE s == <<a>>
             t == <<b, c, d>>
             r == <<a, b, c, d>>
             S == {a, b, c, d}
  <1>1. s \in Seq(S) /\ t \in Seq(S) /\ r \in Seq(S)
    OBVIOUS
  <1>2. /\ Len(r) = Len(s) + Len(t)
        /\ \A i \in 1..Len(s) : r[i] = s[i]
        /\ \A i \in 1..Len(t) : r[Len(s) + i] = t[i]
    OBVIOUS
  <1> HIDE DEF s, t, r, S
  <1>3. s \o t = r
    BY <1>1, <1>2, Joined
  <1>4. QED
    BY <1>3 DEF s, t, r

LEMMA ThreeAndOne ==
  ASSUME NEW a, NEW b, NEW c, NEW d
  PROVE  <<a, b, c>> \o <<d>> = <<a, b, c, d>>
  <1> DEFINE s == <<a, b, c>>
             t == <<d>>
             r == <<a, b, c, d>>
             S == {a, b, c, d}
  <1>1. s \in Seq(S) /\ t \in Seq(S) /\ r \in Seq(S)
    OBVIOUS
  <1>2. /\ Len(r) = Len(s) + Len(t)
        /\ \A i \in 1..Len(s) : r[i] = s[i]
        /\ \A i \in 1..Len(t) : r[Len(s) + i] = t[i]
    OBVIOUS
  <1> HIDE DEF s, t, r, S
  <1>3. s \o t = r
    BY <1>1, <1>2, Joined
  <1>4. QED
    BY <1>3 DEF s, t, r

LEMMA HandlersFit ==
  ASSUME LoopInv, script = <<>>,
         NEW h \in {Loop!SkipAsset, Loop!StopPlayback, Loop!PlayPlayback,
                    Loop!BlankDisplay, Loop!UnblankDisplay},
         Loop!Receive(h)
  PROVE  LoopInv'
  <1>1. UNCHANGED <<stopped, blanked, powered, refused, wayland>> /\ script' = h
    BY DEF Loop!Receive, Loop!flags
  <1>2. Agree
    BY DEF LoopInv, ScriptFits
  <1>3. /\ Loop!BlankDisplay = IF wayland
             THEN <<"dark", "stop", "off", "skip">>
             ELSE <<"dark", "stop", "skip">>
        /\ Loop!UnblankDisplay = IF wayland
             THEN <<"on", "light", "run", "skip">>
             ELSE <<"light", "run", "skip">>
    <2>1. /\ <<"dark", "stop">> \o <<"off">> = <<"dark", "stop", "off">>
          /\ <<"dark", "stop">> \o <<>> = <<"dark", "stop">>
          /\ <<"dark", "stop", "off">> \o <<"skip">>
                = <<"dark", "stop", "off", "skip">>
          /\ <<"dark", "stop">> \o <<"skip">> = <<"dark", "stop", "skip">>
      BY TwoAndOne, ThreeAndOne
    <2>2. /\ <<"on">> \o <<"light", "run", "skip">>
                = <<"on", "light", "run", "skip">>
          /\ <<>> \o <<"light", "run", "skip">> = <<"light", "run", "skip">>
      BY OneAndThree
    <2>3. QED
      BY <2>1, <2>2, Zenon
      DEF Loop!BlankDisplay, Loop!UnblankDisplay, Loop!Power
  <1>4. \/ h \in {<<"skip">>, <<"skip", "stop">>}
        \/ h = <<"run">> /\ ~blanked
        \/ h \in {Loop!BlankDisplay, Loop!UnblankDisplay}
    BY DEF Loop!SkipAsset, Loop!StopPlayback, Loop!PlayPlayback
  <1>5. ScriptFits'
    BY <1>1, <1>2, <1>3, <1>4 DEF ScriptFits, Agree, OutputOn
  <1>6. QED
    BY <1>1, <1>5 DEF LoopInv, LoopFlags

SameOutput == powered' = powered /\ refused' = refused

\* What the assignments assign.
LEMMA Assignments ==
  ASSUME Loop!HandlerStep
  PROVE  /\ script # <<>> /\ script' = Tail(script) /\ wayland' = wayland
         /\ Head(script) = "stop" =>
              stopped' /\ blanked' = blanked /\ SameOutput
         /\ Head(script) = "run" =>
              ~stopped' /\ blanked' = blanked /\ SameOutput
         /\ Head(script) = "dark" =>
              blanked' /\ stopped' = stopped /\ SameOutput
         /\ Head(script) = "light" =>
              ~blanked' /\ stopped' = stopped /\ SameOutput
         /\ Head(script) = "on" =>
              (powered' \/ refused') /\ stopped' = stopped /\ blanked' = blanked
         /\ Head(script) = "off" =>
              (~powered' \/ refused') /\ stopped' = stopped /\ blanked' = blanked
         /\ Head(script) \in {"skip", "read", "check"} =>
              stopped' = stopped /\ blanked' = blanked /\ SameOutput
  BY Zenon DEF Loop!HandlerStep, Loop!ApplyWlrPower, SameOutput

LEMMA AssignmentsFit ==
  ASSUME LoopInv, Loop!HandlerStep
  PROVE  LoopInv'
  <1>1. script # <<>> /\ script' = Tail(script) /\ wayland' = wayland
    BY Assignments
  <1>2. LoopFlags'
    BY Zenon DEF Loop!HandlerStep, Loop!ApplyWlrPower, LoopInv, LoopFlags
  <1>3. CASE Agree /\ script \in {<<"skip">>, <<"skip", "stop">>,
                                  <<"read", "check">>, <<"check">>}
    <2>1. script \in {<<"skip">>, <<"skip", "stop">>, <<"read", "check">>,
                       <<"check">>}
      BY <1>3, Zenon
    <2>2. /\ Head(script) \in {"skip", "read", "check"}
          /\ Tail(script) \in {<<>>, <<"stop">>, <<"check">>}
      <3>1. Head(script) \in {"skip", "read", "check"}
        BY <2>1
      <3>2. ASSUME script = <<"skip">> PROVE Tail(script) = <<>>
        BY <3>2
      <3>3. ASSUME script = <<"check">> PROVE Tail(script) = <<>>
        BY <3>3
      <3>4. ASSUME script = <<"skip", "stop">> PROVE Tail(script) = <<"stop">>
        BY <3>4
      <3>5. ASSUME script = <<"read", "check">>
            PROVE  Tail(script) = <<"check">>
        BY <3>5
      <3>6. QED
        BY <2>1, <3>1, <3>2, <3>3, <3>4, <3>5, Zenon
    <2>3. script' \in {<<>>, <<"stop">>, <<"check">>}
      BY <1>1, <2>2, Zenon
    <2>4. Agree'
      <3>1. stopped' = stopped /\ blanked' = blanked /\ SameOutput
        BY <2>2, Assignments, Zenon
      <3>2. QED
        BY <1>1, <1>3, <3>1, Zenon DEF Agree, OutputOn, SameOutput
    <2>5. ScriptFits'
      BY <2>3, <2>4, Zenon DEF ScriptFits
    <2>6. QED
      BY <1>2, <2>5 DEF LoopInv
  <1>4. CASE Agree /\ script = <<"stop">>
    <2>1. script = <<"stop">>
      BY <1>4, Zenon
    <2>2. Head(script) = "stop" /\ Tail(script) = <<>>
      BY <2>1
    <2>3. script' = <<>>
      BY <1>1, <2>2, Zenon
    <2>4. Agree'
      <3>1. stopped' /\ blanked' = blanked /\ SameOutput
        BY <2>2, Assignments, Zenon
      <3>2. QED
        BY <1>1, <1>4, <3>1, Zenon DEF Agree, OutputOn, SameOutput
    <2>5. ScriptFits'
      BY <2>3, <2>4, Zenon DEF ScriptFits
    <2>6. QED
      BY <1>2, <2>5 DEF LoopInv
  <1>5. CASE script = <<"dark", "stop", "off", "skip">> /\ wayland
    <2>1. script = <<"dark", "stop", "off", "skip">>
      BY <1>5, Zenon
    <2>2. Head(script) = "dark" /\ Tail(script) = <<"stop", "off", "skip">>
      BY <2>1
    <2>3. script' = <<"stop", "off", "skip">>
      BY <1>1, <2>2, Zenon
    <2>4. ScriptFits'
      BY <1>1, <1>5, <2>2, <2>3, Assignments, Zenon
      DEF ScriptFits, OutputOn, SameOutput
    <2>5. QED
      BY <1>2, <2>4 DEF LoopInv
  <1>6. CASE script = <<"dark", "stop", "skip">> /\ ~wayland
    <2>1. script = <<"dark", "stop", "skip">>
      BY <1>6, Zenon
    <2>2. Head(script) = "dark" /\ Tail(script) = <<"stop", "skip">>
      BY <2>1
    <2>3. script' = <<"stop", "skip">>
      BY <1>1, <2>2, Zenon
    <2>4. ScriptFits'
      BY <1>1, <1>6, <2>2, <2>3, Assignments, Zenon
      DEF ScriptFits, OutputOn, SameOutput
    <2>5. QED
      BY <1>2, <2>4 DEF LoopInv
  <1>7. CASE script = <<"stop", "off", "skip">> /\ wayland /\ blanked
    <2>1. script = <<"stop", "off", "skip">>
      BY <1>7, Zenon
    <2>2. Head(script) = "stop" /\ Tail(script) = <<"off", "skip">>
      BY <2>1
    <2>3. script' = <<"off", "skip">>
      BY <1>1, <2>2, Zenon
    <2>4. ScriptFits'
      BY <1>1, <1>7, <2>2, <2>3, Assignments, Zenon
      DEF ScriptFits, OutputOn, SameOutput
    <2>5. QED
      BY <1>2, <2>4 DEF LoopInv
  <1>8. CASE script = <<"stop", "skip">> /\ ~wayland
    <2>1. script = <<"stop", "skip">>
      BY <1>8, Zenon
    <2>2. Head(script) = "stop" /\ Tail(script) = <<"skip">>
      BY <2>1
    <2>3. script' = <<"skip">>
      BY <1>1, <2>2, Zenon
    <2>4. Agree'
      BY <1>1, <1>8, <2>2, Assignments, Zenon DEF Agree, OutputOn, SameOutput
    <2>5. ScriptFits'
      BY <2>3, <2>4, Zenon DEF ScriptFits
    <2>6. QED
      BY <1>2, <2>5 DEF LoopInv
  <1>9. CASE script = <<"off", "skip">> /\ wayland /\ blanked /\ stopped
    <2>1. script = <<"off", "skip">>
      BY <1>9, Zenon
    <2>2. Head(script) = "off" /\ Tail(script) = <<"skip">>
      BY <2>1
    <2>3. script' = <<"skip">>
      BY <1>1, <2>2, Zenon
    <2>4. Agree'
      BY <1>1, <1>9, <2>2, Assignments, Zenon DEF Agree, OutputOn, SameOutput
    <2>5. ScriptFits'
      BY <2>3, <2>4, Zenon DEF ScriptFits
    <2>6. QED
      BY <1>2, <2>5 DEF LoopInv
  <1>10. CASE script = <<"on", "light", "run", "skip">>
    <2>1. script = <<"on", "light", "run", "skip">>
      BY <1>10, Zenon
    <2>2. Head(script) = "on" /\ Tail(script) = <<"light", "run", "skip">>
      BY <2>1
    <2>3. script' = <<"light", "run", "skip">>
      BY <1>1, <2>2, Zenon
    <2>4. ScriptFits'
      BY <1>1, <1>10, <2>2, <2>3, Assignments, Zenon
      DEF ScriptFits, OutputOn, SameOutput
    <2>5. QED
      BY <1>2, <2>4 DEF LoopInv
  <1>11. CASE script = <<"light", "run", "skip">> /\ OutputOn
    <2>1. script = <<"light", "run", "skip">>
      BY <1>11, Zenon
    <2>2. Head(script) = "light" /\ Tail(script) = <<"run", "skip">>
      BY <2>1
    <2>3. script' = <<"run", "skip">>
      BY <1>1, <2>2, Zenon
    <2>4. ScriptFits'
      BY <1>1, <1>11, <2>2, <2>3, Assignments, Zenon
      DEF ScriptFits, OutputOn, SameOutput
    <2>5. QED
      BY <1>2, <2>4 DEF LoopInv
  <1>12. CASE script \in {<<"run", "skip">>, <<"run">>} /\ ~blanked /\ OutputOn
    <2>1. script \in {<<"run", "skip">>, <<"run">>}
      BY <1>12, Zenon
    <2>2. Head(script) = "run" /\ Tail(script) \in {<<>>, <<"skip">>}
      <3>1. Head(script) = "run"
        BY <2>1
      <3>2. ASSUME script = <<"run">> PROVE Tail(script) = <<>>
        BY <3>2
      <3>3. ASSUME script = <<"run", "skip">> PROVE Tail(script) = <<"skip">>
        BY <3>3
      <3>4. QED
        BY <2>1, <3>1, <3>2, <3>3, Zenon
    <2>3. script' \in {<<>>, <<"skip">>}
      BY <1>1, <2>2, Zenon
    <2>4. Agree'
      <3>1. ~stopped' /\ blanked' = blanked /\ SameOutput
        BY <2>2, Assignments, Zenon
      <3>2. QED
        BY <1>1, <1>12, <3>1, Zenon DEF Agree, OutputOn, SameOutput
    <2>5. ScriptFits'
      BY <2>3, <2>4, Zenon DEF ScriptFits
    <2>6. QED
      BY <1>2, <2>5 DEF LoopInv
  <1>13. QED
    BY <1>1, <1>3, <1>4, <1>5, <1>6, <1>7, <1>8, <1>9, <1>10, <1>11, <1>12,
       Zenon DEF LoopInv, ScriptFits

\* The specification the run checks adds to the loop only which part moves.
LEMMA LoopPart ==
  /\ MCInit => Loop!Init
  /\ [MCNext]_allVars => [Loop!Next]_Loop!vars
  <1>1. UNCHANGED loopVars <=> UNCHANGED Loop!vars
    BY DEF loopVars, Loop!vars, Loop!main, Loop!flags, Loop!subscriber
  <1>2. ASSUME [MCNext]_allVars PROVE [Loop!Next]_Loop!vars
    BY <1>1, <1>2, Zenon DEF MCNext, WebStep, LoopStep, allVars
  <1>3. QED
    BY <1>2 DEF MCInit

\* Whatever commands an operator and the display schedule send, and however
\* the main thread runs between two assignments of a handler: between handlers
\* a blanked display has a paused loop, and its output is off exactly while it
\* is blanked unless the last call that was to switch it failed.
THEOREM FlagsAlwaysAgree == MCSpec => []FlagsAgree
  <1>1. Loop!Init => LoopInv
    BY DEF Loop!Init, LoopInv, LoopFlags, ScriptFits, Agree
  <1>2. LoopInv /\ [Loop!Next]_Loop!vars => LoopInv'
    <2> SUFFICES ASSUME LoopInv, [Loop!Next]_Loop!vars PROVE LoopInv'
      OBVIOUS
    <2>1. CASE \/ Loop!Main \/ UNCHANGED Loop!vars
               \/ \E a \in Shown : Loop!Deactivate(a) \/ Loop!Activate(a)
      <3>1. UNCHANGED <<stopped, blanked, script, powered, refused, wayland>>
        BY <2>1 DEF Loop!Main, Loop!PausedTick, Loop!EnterAssetLoop,
           Loop!NextAsset, Loop!Show, Loop!ClearSkip, Loop!WaitIsSkipped,
           Loop!WaitTimesOut, Loop!Deactivate, Loop!Activate, Loop!vars,
           Loop!flags, Loop!subscriber
      <3>2. QED
        BY <3>1 DEF LoopInv, LoopFlags, ScriptFits, Agree, OutputOn
    <2>2. CASE Loop!ReceiveReload
      <3>1. /\ UNCHANGED <<stopped, blanked, powered, refused, wayland>>
            /\ script = <<>> /\ script' = <<"read", "check">>
        BY <2>2 DEF Loop!ReceiveReload, Loop!HandleReload, Loop!flags
      <3>2. QED
        BY <3>1 DEF LoopInv, LoopFlags, ScriptFits, Agree
    <2>3. CASE Loop!HandlerStep
      BY <2>3, AssignmentsFit
    <2>4. ASSUME NEW h \in {Loop!SkipAsset, Loop!StopPlayback,
                            Loop!PlayPlayback, Loop!BlankDisplay,
                            Loop!UnblankDisplay},
                 Loop!Receive(h)
          PROVE  LoopInv'
      BY <2>4, HandlersFit DEF Loop!Receive
    <2>5. QED
      BY <2>1, <2>2, <2>3, <2>4 DEF Loop!Next, Loop!Operator
  <1>3. LoopInv => Loop!FlagsAgree
    BY DEF LoopInv, ScriptFits, Agree, Loop!FlagsAgree
  <1>4. QED
    BY <1>1, <1>2, <1>3, LoopPart, PTL DEF MCSpec, FlagsAgree
=============================================================================
