------------------------------ MODULE Webview -------------------------------
(***************************************************************************)
(* The viewer and the AnthiasViewer process it drives over D-Bus           *)
(* (src/src/anthias_viewer/__init__.py, src/src/anthias_webview).          *)
(*                                                                         *)
(* The viewer remembers what it last sent (url, sent) and sends only what  *)
(* differs.  The process may die at any moment, taking what it showed and  *)
(* the staged request headers with it; load_browser() starts another.      *)
(*                                                                         *)
(* The skip-SSL flag travels with every load as the URL does, and the      *)
(* refresh interval is sent anew on every tick: both are left out.         *)
(***************************************************************************)
EXTENDS Integers

CONSTANTS
    Page, Image,    \* the assets shown with view_webpage(), view_image()
    NoCache,        \* the pages with Asset.nocache
    Header,         \* sets of custom request headers
    Owner,          \* the page each of them is configured for
    Rotations,      \* the sets of assets the rotation may consist of
    Binaries,       \* {TRUE}, or with FALSE binaries without the headers slot
    MaxAttempts,    \* BROWSER_SPAWN_INLINE_MAX_ATTEMPTS
    MaxFaults,      \* bound: crashes, failed calls and failed launches
    MaxEdits,       \* bound: header edits and rotation changes
    None            \* no headers, no URL, no content

ASSUME WebviewAssumption ==
    /\ NoCache \subseteq Page /\ Page \cap Image = {}
    /\ Owner \in [Header -> Page]
    /\ Binaries \subseteq BOOLEAN /\ Binaries # {}
    /\ MaxAttempts \in Nat \ {0}
    /\ MaxFaults \in Nat /\ MaxEdits \in Nat
    /\ None \notin Page \cup Image \cup Header
    /\ \A r \in Rotations : r # {} /\ r \subseteq Page \cup Image

Asset == Page \cup Image

VARIABLES
    \* The AnthiasViewer process.
    alive, supports,
    staged,     \* pendingHeaders
    shows,      \* the content and the headers it was requested with
    \* The viewer's globals.
    url,        \* current_browser_url
    sent,       \* current_browser_headers
    slot,       \* _webview_supports_set_request_headers
    bounce,     \* _rotation_bounce_pending
    \* The main thread.
    pc, want, headers, applied, after, attempts,
    \* The rows, and the bounds.
    headersOf, rotation, faults, edits

process == <<alive, supports, staged, shows>>
cache == <<url, sent, slot>>
thread == <<pc, want, headers, applied, after, attempts>>
bounds == <<headersOf, rotation, faults, edits>>
vars == <<process, cache, bounce, thread, bounds>>

Blank == [content |-> None, with |-> None]

\* Besides the types: a dead process shows nothing and holds no headers.
TypeOK ==
    /\ alive \in BOOLEAN /\ supports \in BOOLEAN
    /\ staged \in Header \cup {None}
    /\ shows \in [content : Asset \cup {None}, with : Header \cup {None}]
    /\ url \in Asset \cup {None} /\ sent \in Header \cup {None}
    /\ slot \in BOOLEAN /\ bounce \in BOOLEAN
    /\ pc \in {"top", "pick", "spawn", "stage", "load", "resend"}
    /\ want \in Asset \cup {None} /\ headers \in Header \cup {None}
    /\ applied \in BOOLEAN
    /\ after \in {"top", "stage", "load", "resend"}
    /\ attempts \in 0..(MaxAttempts - 1)
    /\ headersOf \in [Page -> Header \cup {None}]
    /\ rotation \in Rotations
    /\ faults \in 0..MaxFaults /\ edits \in 0..MaxEdits
    /\ ~alive => shows = Blank /\ staged = None

\* load_browser() has spawned the first process.
Init ==
    /\ alive = TRUE /\ supports \in Binaries
    /\ staged = None /\ shows = Blank
    /\ url = None /\ sent = None /\ slot = TRUE /\ bounce = FALSE
    /\ pc = "top" /\ want = None /\ headers = None /\ applied = TRUE
    /\ after = "top" /\ attempts = 0
    /\ headersOf \in {f \in [Page -> Header \cup {None}] :
                        \A p \in Page : f[p] # None => Owner[f[p]] = p}
    /\ rotation \in Rotations
    /\ faults = MaxFaults /\ edits = MaxEdits

-----------------------------------------------------------------------------
(* Around the main thread. *)

Gone == alive' = FALSE /\ staged' = None /\ shows' = Blank

Crash ==
    /\ alive /\ faults > 0
    /\ faults' = faults - 1
    /\ Gone
    /\ UNCHANGED <<supports, cache, bounce, thread, headersOf, rotation, edits>>

EditHeaders(p, h) ==
    /\ edits > 0
    /\ h # headersOf[p] /\ (h # None => Owner[h] = p)
    /\ headersOf' = [headersOf EXCEPT ![p] = h]
    /\ edits' = edits - 1
    /\ UNCHANGED <<process, cache, bounce, thread, rotation, faults>>

\* _handle_reload() on a linuxfb board whose rotation or dark mode changed.
RequestBounce ==
    /\ edits > 0 /\ ~bounce
    /\ bounce' = TRUE
    /\ edits' = edits - 1
    /\ UNCHANGED <<process, cache, thread, headersOf, rotation, faults>>

-----------------------------------------------------------------------------
(* The main thread. *)

\* _consume_pending_rotation_bounce()
TopOfTick ==
    /\ pc = "top"
    /\ pc' = "pick"
    /\ bounce' = FALSE
    /\ IF bounce THEN Gone /\ url' = None
       ELSE UNCHANGED <<alive, staged, shows, url>>
    /\ UNCHANGED <<supports, sent, slot, want, headers, applied, after,
                   attempts, bounds>>

\* The next asset, and the is_alive() check at the head of both view
\* functions.
Pick(a) ==
    LET next == IF a \in Page THEN "stage" ELSE "load" IN
    /\ pc = "pick" /\ a \in rotation
    /\ want' = a
    /\ headers' = IF a \in Page THEN headersOf[a] ELSE None
    /\ applied' = TRUE
    /\ after' = next
    /\ pc' = IF alive THEN next ELSE "spawn"
    /\ UNCHANGED <<process, cache, bounce, attempts, bounds>>

\* Mutant: the URL of the previous process is kept.
ResetCachesKeepsUrl == url' = url /\ sent' = None /\ slot' = TRUE

\* What load_browser() does before it launches a process.
ResetCaches == url' = None /\ sent' = None /\ slot' = TRUE

Spawn ==
    /\ pc = "spawn"
    /\ ResetCaches
    /\ alive' = TRUE /\ supports' \in Binaries
    /\ staged' = None /\ shows' = Blank
    /\ pc' = after
    /\ attempts' = 0
    /\ UNCHANGED <<bounce, want, headers, applied, after, bounds>>

\* Past the budget the exception leaves main(); the container restarts and
\* begins with a load_browser() of its own.
ViewerRestarts ==
    /\ Gone
    /\ ResetCaches
    /\ pc' = "spawn" /\ after' = "top" /\ attempts' = 0
    /\ bounce' = FALSE

SpawnFails ==
    /\ pc = "spawn" /\ faults > 0
    /\ faults' = faults - 1
    /\ IF attempts < MaxAttempts - 1
       THEN /\ attempts' = attempts + 1
            /\ ResetCaches
            /\ UNCHANGED <<alive, staged, shows, pc, after, bounce>>
       ELSE ViewerRestarts
    /\ UNCHANGED <<supports, want, headers, applied, headersOf, rotation, edits>>

\* _apply_request_headers(): the slot answers, is known to be missing, or
\* turns out to be missing.
Stage ==
    /\ pc = "stage"
    /\ alive \/ ~slot
    /\ applied' = TRUE
    /\ staged' = IF alive /\ slot /\ supports THEN headers ELSE staged
    /\ slot' = (slot /\ supports)
    /\ pc' = "load"
    /\ UNCHANGED <<alive, supports, shows, url, sent, bounce, want, headers,
                   after, attempts, bounds>>

\* The call fails: the process is gone, or not yet registered.
StageFails ==
    /\ pc = "stage" /\ slot
    /\ IF alive THEN faults > 0 /\ faults' = faults - 1 ELSE faults' = faults
    /\ applied' = FALSE
    /\ pc' = "load"
    /\ UNCHANGED <<process, cache, bounce, want, headers, after, attempts,
                   headersOf, rotation, edits>>

Changed ==
    \/ want \in NoCache
    \/ url # want
    \/ want \in Page /\ sent # headers

MustLoad == Changed /\ applied

\* startPageLoad() and loadImage() in the process, then the caches.
Loaded ==
    /\ shows' = [content |-> want,
                 with |-> IF want \in Page THEN staged ELSE None]
    /\ url' = want
    /\ sent' = IF want \in Page THEN headers ELSE sent
    /\ pc' = "top"

SkipLoad ==
    /\ pc = "load" /\ ~MustLoad
    /\ pc' = "top"
    /\ UNCHANGED <<process, cache, bounce, want, headers, applied, after,
                   attempts, bounds>>

Load ==
    /\ pc \in {"load", "resend"}
    /\ pc = "load" => MustLoad
    /\ alive
    /\ Loaded
    /\ UNCHANGED <<alive, supports, staged, slot, bounce, want, headers,
                   applied, after, attempts, bounds>>

\* _send_to_webview(): the process was gone; start another and send again.
LoadFindsItGone ==
    /\ pc = "load" /\ MustLoad /\ ~alive
    /\ pc' = "spawn" /\ after' = "resend"
    /\ UNCHANGED <<process, cache, bounce, want, headers, applied, attempts,
                   bounds>>

\* The second failure is not caught.
ResendFails ==
    /\ pc = "resend" /\ ~alive
    /\ ViewerRestarts
    /\ UNCHANGED <<supports, want, headers, applied, bounds>>

MainStep ==
    \/ TopOfTick \/ Spawn \/ Stage \/ StageFails \/ SkipLoad \/ Load
    \/ LoadFindsItGone \/ ResendFails \/ SpawnFails

Next ==
    \/ Crash \/ RequestBounce
    \/ \E p \in Page, h \in Header \cup {None} : EditHeaders(p, h)
    \/ \E a \in Asset : Pick(a)
    \/ MainStep

Spec == Init /\ [][Next]_vars

\* The main thread runs on, and the rotation starves no asset.
Fairness ==
    /\ WF_vars(MainStep)
    /\ \A a \in Asset : SF_vars(Pick(a))

FairSpec == Spec /\ Fairness

-----------------------------------------------------------------------------
(* Properties *)

\* What the viewer believes to be on the screen is there: a load is skipped
\* only for content the living process shows.
SkippedLoadIsOnScreen ==
    (pc = "load" /\ alive /\ applied /\ ~Changed) => shows.content = want

\* A black webview is filled again, even when the rotation has one asset only
\* and its URL never changes.
BlankScreenIsFilled == (shows = Blank) ~> (shows # Blank)

-----------------------------------------------------------------------------
(* What comments say and the code does not do. *)

\* "drop the applied-headers cache so the next view_webpage re-sends them to
\* the fresh process": a page the viewer takes to be loaded with its headers
\* was loaded with them.
PageCarriesItsHeaders ==
    (pc = "top" /\ alive /\ supports /\ url \in Page /\ shows.content = url)
        => shows.with = sent
=============================================================================
