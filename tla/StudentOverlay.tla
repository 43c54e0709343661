---------------------------- MODULE StudentOverlay ----------------------------
(***************************************************************************)
(* The window that the desktop's main process lays over Zoom: the drift    *)
(* prompt with its recovery (main/drift_recovery.ts), the window           *)
(* (main/zoom_overlay_window.ts) and its page (renderer/overlay.mts), and  *)
(* the watch for Zoom's process that shows and hides it                    *)
(* (main/zoom_monitor.ts, main/index.ts).                                  *)
(*                                                                         *)
(* The main process is one event loop. Between two of its steps a request  *)
(* is answered, a window finishes closing, a page finishes loading, and a  *)
(* click is on its way. What is sent to a page that is being replaced, or  *)
(* is not the drift page, is lost.                                         *)
(***************************************************************************)
EXTENDS Naturals

CONSTANTS
    Moments,      \* intervals that the camera reports
    MaxClosing,   \* windows that are closing at one time; others close at once,
                  \* as all do when a window was lost (bound)
    Nothing

ASSUME OverlayAssumption == Nothing \notin Moments /\ MaxClosing \in Nat

VARIABLES
    calm,         \* TRUE: windows close at once, and nobody reports or clicks
                  \* while the overlay is still busy
    pending,      \* DriftRecoveryController.pending
    inFlight,     \* the request of DriftRecoveryController.inFlight
    held,         \* TRUE while overlayWindow is a window
    page,         \* what that window shows
    loading,      \* what it is loading: "none", "zoom" or "drift"
    closeTimer,   \* TRUE while its idle timer runs
    closing,      \* windows that were told to close and are not gone yet
    strays,       \* what the open windows show that overlayWindow has lost
    click,        \* the overlay:action on its way: "none", "recover" or "leave"
    monitored,    \* FALSE where the monitor is switched off
    zoom,         \* the process table: "running" or "gone"
    readings,     \* what process listings have read and not yet answered
    seen,         \* ZoomProcessMonitor.running: "unknown", "running" or "gone"
    zoomRunning   \* index.ts's own flag

controller == <<pending, inFlight>>
windows == <<held, page, loading, closeTimer, closing, strays>>
monitor == <<monitored, zoom, readings, seen, zoomRunning>>
overlayVars == <<calm, controller, windows, click, monitor>>

Blank == [variant |-> "blank", view |-> "prompt", asked |-> FALSE]

-----------------------------------------------------------------------------
(* The window. Its "closed" handler comes later than close(), and forgets  *)
(* the overlay, whichever it is by then: a newer one stays open with what  *)
(* it shows or is loading. One that never showed a page never will, for it *)
(* is overlayWindow that "ready-to-show" shows.                            *)
Loaded == IF loading = "none" THEN page ELSE [Blank EXCEPT !.variant = loading]

Lost == IF page = Blank THEN {} ELSE {Loaded}

ShowZoomOverlay(variant) ==
    /\ closeTimer' = TRUE /\ held' = TRUE /\ loading' = variant
    /\ page' = IF held THEN page ELSE Blank
    /\ UNCHANGED <<closing, strays>>

HideZoomOverlay ==
    /\ closeTimer' = FALSE /\ held' = FALSE
    /\ page' = Blank /\ loading' = "none"
    /\ closing' = IF held /\ ~calm /\ closing < MaxClosing /\ strays = {}
                THEN closing + 1 ELSE closing
    /\ UNCHANGED strays

TimesOut ==
    /\ closeTimer
    /\ HideZoomOverlay
    /\ UNCHANGED <<calm, controller, click, monitor>>

Closed ==
    /\ closing > 0
    /\ closing' = closing - 1
    /\ closeTimer' = FALSE /\ held' = FALSE /\ page' = Blank /\ loading' = "none"
    /\ strays' = strays \cup Lost
    /\ UNCHANGED <<calm, controller, click, monitor>>

PageLoads ==
    /\ loading # "none"
    /\ page' = Loaded
    /\ loading' = "none"
    /\ UNCHANGED <<calm, controller, held, closeTimer, closing, strays, click, monitor>>

-----------------------------------------------------------------------------
(* The recovery.                                                           *)
Shows(view) ==
    IF page.variant = "drift" THEN [page EXCEPT !.view = view, !.asked = FALSE] ELSE page

ShowDrift(m) ==
    /\ calm => click = "none" /\ inFlight = Nothing
    /\ pending' = m
    /\ ShowZoomOverlay("drift")
    /\ UNCHANGED <<calm, inFlight, click, monitor>>

MayClick ==
    /\ click = "none"
    /\ calm => loading = "none"

Offers(shown) ==
    shown.variant = "drift" /\ shown.view \in {"prompt", "failed"} /\ ~shown.asked

ClickRecover ==
    /\ MayClick /\ Offers(page)
    /\ page' = [page EXCEPT !.asked = TRUE]
    /\ click' = "recover"
    /\ UNCHANGED <<calm, controller, held, loading, closeTimer, closing, strays, monitor>>

(* "dismiss", and "open", which shows the main window as well.             *)
ClickLeave ==
    /\ MayClick /\ page # Blank
    /\ click' = "leave"
    /\ UNCHANGED <<calm, controller, windows, monitor>>

(* A lost window can be clicked as well, though not informed.              *)
StrayRecover(lost) ==
    /\ MayClick /\ Offers(lost)
    /\ strays' = (strays \ {lost}) \cup {[lost EXCEPT !.asked = TRUE]}
    /\ click' = "recover"
    /\ UNCHANGED <<calm, controller, held, page, loading, closeTimer, closing, monitor>>

StrayLeave ==
    /\ MayClick /\ strays # {}
    /\ click' = "leave"
    /\ UNCHANGED <<calm, controller, windows, monitor>>

RecoverWithTimer ==   \* slip: the idle timer goes on
    /\ click = "recover"
    /\ click' = "none"
    /\ IF inFlight # Nothing THEN UNCHANGED <<inFlight, page>>
       ELSE /\ inFlight' = pending
            /\ page' = Shows(IF pending = Nothing THEN "failed" ELSE "loading")
    /\ UNCHANGED <<calm, pending, held, loading, closeTimer, closing, strays, monitor>>

(* The action "recover": calls that overlap share one request.             *)
Recover ==
    /\ click = "recover"
    /\ click' = "none" /\ closeTimer' = FALSE
    /\ IF inFlight # Nothing THEN UNCHANGED <<inFlight, page>>
       ELSE /\ inFlight' = pending
            /\ page' = Shows(IF pending = Nothing THEN "failed" ELSE "loading")
    /\ UNCHANGED <<calm, pending, held, loading, closing, strays, monitor>>

Leave ==
    /\ click = "leave"
    /\ click' = "none"
    /\ HideZoomOverlay
    /\ UNCHANGED <<calm, controller, monitor>>

AnswerInSilence(ok) ==   \* slip: a failure is not published
    /\ inFlight # Nothing
    /\ inFlight' = Nothing
    /\ pending' = IF ok THEN Nothing ELSE pending
    /\ page' = IF ok THEN Shows("ready") ELSE page
    /\ UNCHANGED <<calm, held, loading, closeTimer, closing, strays, click, monitor>>

(* The request is answered: a card clears what is pending, a failure keeps *)
(* it for a retry.                                                         *)
Answer(ok) ==
    /\ inFlight # Nothing
    /\ inFlight' = Nothing
    /\ pending' = IF ok THEN Nothing ELSE pending
    /\ page' = Shows(IF ok THEN "ready" ELSE "failed")
    /\ UNCHANGED <<calm, held, loading, closeTimer, closing, strays, click, monitor>>

-----------------------------------------------------------------------------
(* The watch for Zoom.                                                     *)
ZoomChanges ==
    /\ zoom' = IF zoom = "running" THEN "gone" ELSE "running"
    /\ UNCHANGED <<calm, controller, windows, click, monitored, readings, seen, zoomRunning>>

(* A poll reads the process table at one instant and answers at a later    *)
(* one, while others may be under way; of those that read the same one is  *)
(* kept. A command that fails answers nothing.                             *)
PollReads ==
    /\ monitored /\ zoom \notin readings
    /\ readings' = readings \cup {zoom}
    /\ UNCHANGED <<calm, controller, windows, click, monitored, zoom, seen, zoomRunning>>

AlreadyGone(running) == running = seen \/ running = "gone"   \* slip: "gone" is never new

Known(running) == running = seen \/ (seen = "unknown" /\ running = "gone")

PollAnswers(running) ==
    /\ running \in readings
    /\ readings' = readings \ {running}
    /\ seen' = running
    /\ IF Known(running) THEN UNCHANGED <<windows, zoomRunning>>
       ELSE /\ zoomRunning' = (running = "running")
            /\ IF running = "running" THEN ShowZoomOverlay("zoom") ELSE HideZoomOverlay
    /\ UNCHANGED <<calm, controller, click, monitored, zoom>>

(* Another role logs in while Zoom runs.                                   *)
SetRole ==
    /\ zoomRunning
    /\ ShowZoomOverlay("zoom")
    /\ UNCHANGED <<calm, controller, click, monitor>>

-----------------------------------------------------------------------------
OverlayInit ==
    /\ calm \in BOOLEAN
    /\ pending = Nothing /\ inFlight = Nothing
    /\ held = FALSE /\ page = Blank /\ loading = "none"
    /\ closeTimer = FALSE /\ closing = 0 /\ strays = {} /\ click = "none"
    /\ monitored \in BOOLEAN /\ zoom \in {"running", "gone"}
    /\ readings = {} /\ seen = "unknown" /\ zoomRunning = FALSE

OverlayNext ==
    \/ TimesOut \/ Closed \/ PageLoads
    \/ ClickRecover \/ ClickLeave
    \/ StrayLeave \/ \E lost \in strays : StrayRecover(lost)
    \/ Recover \/ Leave
    \/ \E m \in Moments : ShowDrift(m)
    \/ \E ok \in BOOLEAN : Answer(ok)
    \/ ZoomChanges \/ PollReads \/ SetRole
    \/ \E running \in readings : PollAnswers(running)

(* Windows close, pages load, clicks arrive, requests are answered or      *)
(* fail, and the monitor polls again and again with commands that do not   *)
(* fail for ever.                                                          *)
OverlayFairness ==
    /\ WF_overlayVars(Closed) /\ WF_overlayVars(PageLoads)
    /\ WF_overlayVars(Recover) /\ WF_overlayVars(Leave)
    /\ WF_overlayVars(\E ok \in BOOLEAN : Answer(ok))
    /\ WF_overlayVars(PollReads)
    /\ \A running \in {"running", "gone"} : WF_overlayVars(PollAnswers(running))

-----------------------------------------------------------------------------
(* In calm use every open overlay is the one the main process holds; a     *)
(* prompt, or a failure with its retry, has its interval pending, so the   *)
(* click on it recovers something; and a card that is awaited or read is   *)
(* not closed by the idle timer. It holds through failures, retries, role  *)
(* changes, Zoom that comes and goes, and time-outs.                       *)
OverlayStandsReady ==
    calm =>
        /\ strays = {}
        /\ page.variant = "drift" /\ loading = "none" =>
             /\ page.view \in {"prompt", "failed"} /\ ~page.asked => pending # Nothing
             /\ page.view \in {"loading", "ready"} => ~closeTimer

(* A student who waits for a card is told what became of it, unless the    *)
(* overlay is closed or shows something else by then, however clicks,      *)
(* reports, answers and reloads overlap. But while a lost window waits,    *)
(* which can be neither informed nor closed, nothing is claimed.           *)
Waits(shown) == shown.asked \/ shown.view = "loading"
Stranded == \E lost \in strays : Waits(lost)

AskedIsAnswered == Waits(page) ~> ~Waits(page) \/ Stranded

(* When Zoom stays open, or closed, the application knows it in the end,   *)
(* although listings overlap and an older one may be answered last.        *)
ZoomIsNoticed ==
    monitored =>
        \A state \in {"running", "gone"} :
            <>[](zoom = state) => <>[](zoomRunning = (state = "running"))

=============================================================================
