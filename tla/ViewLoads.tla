----------------------------- MODULE ViewLoads ------------------------------
(***************************************************************************)
(* The View widget of AnthiasViewer (src/src/anthias_webview/src/view.cpp):*)
(* one web view, one raster canvas and one video surface, and the requests *)
(* that decide which of them the screen shows.                             *)
(*                                                                         *)
(* Every handler runs on the GUI thread.  The engine and the network       *)
(* answer later, by which time something else may have been asked for.     *)
(* The web view commits a page when it has loaded; repaints are immediate; *)
(* SSL flags, rotation and geometry are left out.                          *)
(***************************************************************************)
EXTENDS Naturals

CONSTANTS
    Page, Image,    \* what loadPage() and loadImage() are called with
    Blank, Video,   \* loadImage("null") and playVideo() as requests
    None,           \* no page, no image: black
    MaxRequests,    \* bound: calls that ask for content
    MaxFaults       \* bound: loads and fetches that fail

ViewAssumption ==
    /\ Page \cap Image = {}
    /\ {Blank, Video, None} \cap (Page \cup Image) = {}
    /\ Blank # Video /\ None \notin {Blank, Video}
    /\ MaxRequests \in Nat /\ MaxFaults \in Nat

VARIABLES
    gen,        \* loadGenerationId
    request,    \* what that generation asked for
    handler,    \* pageLoadConnection: the generation it captured, or 0
    pending,    \* pendingPageUri
    watchdog,   \* pageLoadWatchdog runs
    engine,     \* the page the web view is loading
    aborted,    \* a loadFinished(false) of a stopped load is on its way
    url,        \* the last page the web view was told to load
    web, webUp, \* the page it shows, and whether it is visible
    image,      \* currentImage
    last,       \* lastRasterImage
    fallback,   \* fallbackToLastImageOnBlank
    fetches,    \* the network replies not yet finished
    video,      \* the video surface: "hidden", "idle" or "playing"
    interval, timer,    \* pendingReloadIntervalS # 0, reloadTimer exists
    faults

page == <<handler, pending, watchdog, engine, aborted, url, web, webUp>>
canvas == <<image, last, fallback>>
reload == <<interval, timer>>
vars == <<gen, request, page, canvas, fetches, video, reload, faults>>

\* Besides the types: a fetch belongs to a request already made.
TypeOK ==
    /\ gen \in 0..MaxRequests /\ handler \in 0..gen
    /\ request \in Page \cup Image \cup {Blank, Video}
    /\ {pending, engine, url, web} \subseteq Page \cup {None}
    /\ {watchdog, aborted, webUp, fallback, interval, timer} \subseteq BOOLEAN
    /\ {image, last} \subseteq Image \cup {None}
    /\ fetches \subseteq [of : 1..gen, image : Image]
    /\ video \in {"hidden", "idle", "playing"}
    /\ faults \in 0..MaxFaults

Init ==
    /\ gen = 0 /\ request = Blank
    /\ handler = 0 /\ pending = None /\ watchdog = FALSE
    /\ engine = None /\ aborted = FALSE /\ url = None
    /\ web = None /\ webUp = FALSE
    /\ image = None /\ last = None /\ fallback = FALSE
    /\ fetches = {} /\ video = "hidden"
    /\ interval = FALSE /\ timer = FALSE
    /\ faults = MaxFaults

\* paintEvent() and the widgets above the canvas.
Painted == IF image = None /\ fallback THEN last ELSE image

OnScreen ==
    CASE video # "hidden" -> Video
      [] video = "hidden" /\ webUp -> web
      [] OTHER -> Painted

-----------------------------------------------------------------------------
(* Requests, over D-Bus. *)

Ask(content) ==
    /\ gen < MaxRequests
    /\ gen' = gen + 1
    /\ request' = content

\* QWebEngineView::stop(): the completion of a load that was under way may
\* be emitted at once, to nobody, or later.
StopEngine ==
    \/ engine = None /\ UNCHANGED aborted
    \/ engine # None /\ aborted' \in {aborted, TRUE}

\* startPageLoad()
StartPageLoad(p, requestId) ==
    /\ handler' = requestId
    /\ StopEngine
    /\ pending' = p
    /\ watchdog' = TRUE
    /\ engine' = p /\ url' = p

LoadPage(p) ==
    /\ Ask(p)
    /\ video' = "hidden"
    /\ image' = None /\ fallback' = FALSE
    /\ timer' = FALSE /\ interval' = FALSE
    /\ StartPageLoad(p, gen + 1)
    /\ UNCHANGED <<web, webUp, last, fetches, faults>>

\* The page load, its watchdog and its timer are given up, the web view is
\* hidden: loadImage() and playVideo() alike.
LeavePage ==
    /\ handler' = 0 /\ watchdog' = FALSE /\ pending' = None
    /\ timer' = FALSE /\ interval' = FALSE
    /\ StopEngine
    /\ engine' = None
    /\ webUp' = FALSE
    /\ UNCHANGED <<url, web>>

\* loadImage() of a real image.
LoadImage(i) ==
    /\ Ask(i)
    /\ fallback' = TRUE
    /\ video' = "hidden"
    /\ LeavePage
    /\ fetches' = fetches \cup {[of |-> gen + 1, image |-> i]}
    /\ UNCHANGED <<image, last, faults>>

\* loadImage("null"): black, but the video surface stays where it is.
LoadBlank ==
    /\ Ask(Blank)
    /\ LeavePage
    /\ fallback' = FALSE /\ image' = None
    /\ UNCHANGED <<last, fetches, video, faults>>

PlayVideo ==
    /\ Ask(Video)
    /\ LeavePage
    /\ image' = None /\ fallback' = FALSE
    /\ video' = "playing"
    /\ UNCHANGED <<last, fetches, faults>>

\* stopVideo(): the surface goes black and remains on top.
StopVideo ==
    /\ video = "playing"
    /\ video' = "idle"
    /\ UNCHANGED <<gen, request, page, canvas, fetches, reload, faults>>

\* The viewer sends the interval after every page it asked for.
SetReloadInterval(wanted) ==
    /\ request \in Page
    /\ interval' = wanted
    /\ timer' = (handler = 0 /\ wanted)
    /\ UNCHANGED <<gen, request, page, canvas, fetches, video, faults>>

-----------------------------------------------------------------------------
(* What arrives later. *)

\* switchToNextWebView(), in single-view mode.
Reveal ==
    /\ webUp' = TRUE
    /\ timer' = interval

\* The one-shot handler of loadFinished(ok), when one is connected.
Finished(ok) ==
    /\ handler' = 0
    /\ IF handler = gen /\ gen > 0 /\ ok
       THEN watchdog' = FALSE /\ pending' = None /\ Reveal
       ELSE UNCHANGED <<watchdog, pending, webUp, timer>>

PageLoads ==
    /\ engine # None
    /\ web' = engine /\ engine' = None
    /\ Finished(TRUE)
    /\ UNCHANGED <<gen, request, aborted, url, canvas, fetches, video,
                   interval, faults>>

PageFails ==
    /\ engine # None /\ faults > 0
    /\ faults' = faults - 1
    /\ engine' = None
    /\ Finished(FALSE)
    /\ UNCHANGED <<gen, request, aborted, url, web, canvas, fetches, video,
                   interval>>

\* A load that was stopped reports late, to whoever is connected by then.
LateAbort ==
    /\ aborted
    /\ aborted' = FALSE
    /\ Finished(FALSE)
    /\ UNCHANGED <<gen, request, engine, url, web, canvas, fetches, video,
                   interval, faults>>

\* handlePageLoadTimeout()
WatchdogFires ==
    /\ watchdog
    /\ IF pending = None
       THEN watchdog' = FALSE
            /\ UNCHANGED <<handler, pending, engine, aborted, url>>
       ELSE StartPageLoad(pending, gen)
    /\ UNCHANGED <<gen, request, web, webUp, canvas, fetches, video, reload,
                   faults>>

\* The refresh timer reloads what the view was last told to load.
TimerFires ==
    /\ timer /\ engine = None
    /\ engine' = url
    /\ UNCHANGED <<gen, request, handler, pending, watchdog, aborted, url, web,
                   webUp, canvas, fetches, video, reload, faults>>

\* loadAsStaticImage() or setupAnimation()
ShowImage(i) ==
    /\ image' = i /\ last' = i
    /\ webUp' = FALSE

\* Mutant: every reply that finishes is painted.
FetchEndsUnchecked(r, ok) ==
    /\ fetches' = fetches \ {r}
    /\ fallback' = FALSE
    /\ IF ok THEN ShowImage(r.image) ELSE UNCHANGED <<image, last, webUp>>
    /\ UNCHANGED <<gen, request, handler, pending, watchdog, engine, aborted,
                   url, web, video, reload>>

\* The finished handler of one reply; a body that does not decode ends like
\* a fetch that failed.
FetchEnds(r, ok) ==
    /\ fetches' = fetches \ {r}
    /\ IF r.of # gen THEN UNCHANGED <<canvas, webUp>>
       ELSE /\ fallback' = FALSE
            /\ IF ok THEN ShowImage(r.image)
               ELSE UNCHANGED <<image, last, webUp>>
    /\ UNCHANGED <<gen, request, handler, pending, watchdog, engine, aborted,
                   url, web, video, reload>>

Fetched(r) == FetchEnds(r, TRUE) /\ UNCHANGED faults
FetchFails(r) == faults > 0 /\ faults' = faults - 1 /\ FetchEnds(r, FALSE)

Request ==
    \/ \E p \in Page : LoadPage(p)
    \/ \E i \in Image : LoadImage(i)
    \/ LoadBlank \/ PlayVideo \/ StopVideo
    \/ \E wanted \in BOOLEAN : SetReloadInterval(wanted)

Arrival ==
    \/ PageLoads \/ PageFails \/ LateAbort \/ WatchdogFires \/ TimerFires
    \/ \E r \in fetches : Fetched(r) \/ FetchFails(r)

Next == Request \/ Arrival

Undisturbed == handler # 0 /\ ~aborted

\* Late completions arrive, and the timers do not stay in step with the loads
\* for ever: an attempt that disturbed no other is at times faster than the
\* watchdog, and the watchdog runs out at times when nothing loads.
Fairness ==
    /\ WF_vars(PageLoads) /\ SF_vars(Undisturbed /\ PageLoads)
    /\ WF_vars(LateAbort)
    /\ SF_vars(engine = None /\ WatchdogFires)
    /\ WF_vars(\E r \in fetches : Fetched(r))

Spec == Init /\ [][Next]_vars /\ Fairness

-----------------------------------------------------------------------------
(* Properties *)

\* A page that was asked for comes up however often it fails, times out or
\* loses its completion: nobody asks for a page again that the viewer takes
\* to be loaded.
PageIsUp == request \in Page => OnScreen = request
PageComesUp == []<>PageIsUp

\* Whatever answers late, what comes up between two requests is what was asked
\* for last, or black where an image was: no load, reply, watchdog or timer of
\* an earlier request brings its content back.
LateAnswersAreDropped ==
    [][ (gen' = gen /\ OnScreen' # OnScreen)
            => \/ OnScreen' = request
               \/ request \in Image /\ OnScreen' = None ]_vars

-----------------------------------------------------------------------------
(* What comments say and the code does not do. *)

\* "so a failed/corrupt fetch goes black rather than leaving the previous
\* asset on screen": once the fetch of the image asked for is over, the screen
\* shows that image or nothing.
FailedFetchGoesBlack ==
    (request \in Image /\ \A r \in fetches : r.of # gen)
        => OnScreen \in {request, None}
=============================================================================
