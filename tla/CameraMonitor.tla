---------------------------- MODULE CameraMonitor -----------------------------
(***************************************************************************)
(* The local camera of a student (renderer/services/                       *)
(* student_camera_monitor.mts) and the switch that shows it                *)
(* (renderer/index.mts): opening the camera and the model, analyses and    *)
(* posts that are awaited, and a stop that other handlers wait for.        *)
(*                                                                         *)
(* Everything runs on the renderer's event loop, so a handler runs without *)
(* interruption up to its next await: an action is one such stretch.       *)
(* Handlers call each other (a render stops the camera, a stop that fails  *)
(* shows an error, showing it renders), so the module state is one record  *)
(* and the functions of the code are operators from record to record.      *)
(*                                                                         *)
(* The tracker is abstracted to what an observation or a flush yields: no  *)
(* event, an event to post, or the exception of validateTimestamp.         *)
(***************************************************************************)
EXTENDS Naturals, FiniteSets, SequencesExt

CONSTANTS
    Joinable,         \* sessions that may be joined (bound)
    Monitors,         \* one for each start of the camera (bound)
    NoId              \* no session, no monitor

ASSUME CameraAssumption == NoId \notin Joinable \cup Monitors

VARIABLES
    app,       \* the state of both modules, one record
    patient    \* TRUE: people and lectures wait for what is in progress, and the
               \* camera is switched on only in a live lecture

cameraVars == <<app, patient>>

NoSession == [id |-> NoId, live |-> FALSE]

(* user       whether somebody is logged in (state.user)                   *)
(* session    state.activeSession; bound, the one that the handlers of the *)
(*            last render captured; checked, the one that                  *)
(*            stopCameraForSessionChange last saw (history)                *)
(* owner      cameraMonitorSessionId                                       *)
(* enabled    state.cameraSignalsEnabled; status is "off", "watching" or   *)
(*            "error"                                                      *)
(* prompt     the session of state.pendingDriftPrompt                      *)
(* watched    options.session of each start                                *)
(* current    activeMonitor; starting, monitorStarting                     *)
(* tracks     the starts whose streams are live                            *)
(* tick       the tick of each monitor: "idle", "analyzing", "posting" or  *)
(*            "stopping"                                                   *)
(* stop       the monitor whose events stopPromise posts; waiting, who     *)
(*            awaits it: "toggle", "logout", "lost" or a tick              *)
(* leaving    the click on "log out": "no", "stopping" or "calling"        *)
CameraInit ==
    /\ patient \in BOOLEAN
    /\ app = [user |-> TRUE, session |-> NoSession, bound |-> NoSession, checked |-> NoSession,
              owner |-> NoId, enabled |-> FALSE, status |-> "off", prompt |-> NoId,
              watched |-> [m \in Monitors |-> NoId],
              current |-> NoId, starting |-> NoId, tracks |-> {},
              tick |-> [m \in Monitors |-> "idle"],
              stop |-> NoId, waiting |-> <<>>, leaving |-> "no"]

-----------------------------------------------------------------------------
(* What the tracker's flush yields: nothing, events that are posted, or an *)
(* exception because the clock has not moved since the last observation.   *)
Outcomes == {"nothing", "events", "throws"}

HaltKeepingTracks(a, outcome) ==   \* slip: the tracks are not stopped
    IF a.stop # NoId \/ a.current = NoId THEN a
    ELSE [a EXCEPT !.current = NoId,
                   !.stop = IF outcome = "events" THEN a.current ELSE NoId]

(* The part of stopStudentCameraMonitor before its first await.            *)
Halt(a, outcome) ==
    IF a.stop # NoId \/ a.current = NoId THEN a
    ELSE [a EXCEPT !.current = NoId, !.tracks = @ \ {a.current},
                   !.stop = IF outcome = "events" THEN a.current ELSE NoId]

Reset(a) == [a EXCEPT !.enabled = FALSE, !.status = "off", !.prompt = NoId]

ForeignSession(a) == a.owner # NoId /\ a.owner # a.session.id   \* slip: not the status

Foreign(a) == a.owner # NoId /\ (a.owner # a.session.id \/ ~a.session.live)

(* renderApplication: it stops the camera of another session and binds the *)
(* handlers to the session it shows.                                       *)
RenderApp(a, outcome) ==
    LET shown == [a EXCEPT !.bound = a.session, !.checked = a.session]
    IN IF Foreign(a) THEN Halt(Reset([shown EXCEPT !.owner = NoId]), outcome) ELSE shown

SwitchedOff(a, status) == [a EXCEPT !.owner = NoId, !.enabled = FALSE, !.status = status]

OnError(a, outcome) == RenderApp(SwitchedOff(a, "error"), outcome)

(* What each handler does when the stop it awaits is over.                 *)
Continue(a, waiter, ok, outcome) ==
    CASE waiter = "toggle" -> RenderApp(a, outcome)
      [] waiter = "lost"   -> OnError(a, outcome)
      [] waiter = "logout" -> [a EXCEPT !.leaving = IF ok THEN "calling" ELSE "no"]
      [] OTHER             -> LET over == [a EXCEPT !.tick[waiter] = "idle"]
                              IN IF ok THEN OnError(over, outcome) ELSE over

Enqueued(queue, waiter) == IF Contains(queue, waiter) THEN queue ELSE Append(queue, waiter)

(* stopStudentCameraMonitor, awaited by waiter.                            *)
Stop(a, waiter, outcome) ==
    LET halted == Halt(a, outcome)
        failed == a.current # NoId /\ outcome = "throws"
    IN IF a.stop # NoId \/ halted.stop # NoId
       THEN [halted EXCEPT !.waiting = Enqueued(@, waiter)]
       ELSE Continue(halted, waiter, ~failed, outcome)

-----------------------------------------------------------------------------
Rendered == app.bound = app.session /\ app.checked = app.session
Settled ==
    /\ app.starting = NoId /\ app.stop = NoId /\ app.leaving = "no"
    /\ \A m \in Monitors : app.tick[m] = "idle"
MayAct == patient => Settled /\ Rendered

Busy(a) == a.current # NoId \/ a.starting # NoId

(* startStudentCameraMonitor for the session the handler captured.         *)
Start(a, m, session) ==
    IF Busy(a) THEN a ELSE [a EXCEPT !.starting = m, !.watched[m] = session]

ToggleOn(m, outcome) ==
    /\ MayAct /\ app.user /\ ~app.enabled /\ app.bound.id # NoId
    /\ patient => app.bound.live
    /\ app.watched[m] = NoId
    /\ LET on == [app EXCEPT !.owner = app.bound.id, !.enabled = TRUE, !.status = "watching"]
       IN app' = Start(RenderApp(on, outcome), m, app.bound.id)
    /\ UNCHANGED patient

ToggleOff(outcome) ==
    /\ MayAct /\ app.user /\ app.enabled
    /\ app' = Stop(SwitchedOff(app, "off"), "toggle", outcome)
    /\ UNCHANGED patient

(* getUserMedia answers, then the model is loaded and the video plays.     *)
StartGranted ==
    /\ app.starting # NoId /\ app.starting \notin app.tracks
    /\ app' = [app EXCEPT !.tracks = @ \cup {app.starting}]
    /\ UNCHANGED patient

StartReady ==
    /\ app.starting \in app.tracks
    /\ app' = [app EXCEPT !.current = app.starting, !.starting = NoId]
    /\ UNCHANGED patient

StartFails(outcome) ==
    /\ app.starting # NoId
    /\ app' = OnError([app EXCEPT !.tracks = @ \ {app.starting}, !.starting = NoId], outcome)
    /\ UNCHANGED patient

-----------------------------------------------------------------------------
TickBegins(m) ==
    /\ m = app.current /\ app.tick[m] = "idle"
    /\ app' = [app EXCEPT !.tick[m] = "analyzing"]
    /\ UNCHANGED patient

(* A monitor that was stopped meanwhile may still report: the tracker keeps *)
(* its candidates when its flush throws.                                   *)
TickObserves(m, found) ==
    /\ app.tick[m] = "analyzing"
    /\ app' = [app EXCEPT !.tick[m] = IF found THEN "posting" ELSE "idle"]
    /\ UNCHANGED patient

TickPosts(m, outcome) ==
    /\ app.tick[m] = "posting" /\ app.user
    /\ app' = RenderApp([app EXCEPT !.tick[m] = "idle", !.prompt = app.watched[m]], outcome)
    /\ UNCHANGED patient

(* The analysis, the tracker or the post failed: the tick stops whichever  *)
(* monitor is active. Its own tracker has been cleared.                    *)
TickFails(m, outcome) ==
    /\ app.tick[m] \in {"analyzing", "posting"}
    /\ m = app.current => outcome = "nothing"
    /\ app' = Stop([app EXCEPT !.tick[m] = "stopping"], m, outcome)
    /\ UNCHANGED patient

DeviceLost ==
    /\ app.current # NoId
    /\ app' = Stop(app, "lost", "nothing")
    /\ UNCHANGED patient

(* The stopped monitor's last events have been posted, or not: whoever     *)
(* awaited that goes on, one after the other.                              *)
Resumed(a, ok, outcome) ==
    LET after[n \in 0..Len(app.waiting)] ==
            IF n = 0 THEN a ELSE Continue(after[n - 1], app.waiting[n], ok, outcome)
    IN  after[Len(app.waiting)]

StopSettles(ok, outcome) ==
    /\ app.stop # NoId
    /\ ok => app.user
    /\ app' = Resumed([app EXCEPT !.stop = NoId, !.waiting = <<>>], ok, outcome)
    /\ UNCHANGED patient

-----------------------------------------------------------------------------
(* A join makes another session active and renders once its other requests *)
(* have been answered; a poll may find that the active session is over and *)
(* not render at all. An announced end renders at once.                    *)
Join(s) ==
    /\ MayAct /\ app.user
    /\ app' = [app EXCEPT !.session = [id |-> s, live |-> TRUE]]
    /\ UNCHANGED patient

FindOver ==
    /\ MayAct /\ app.session.live
    /\ app' = [app EXCEPT !.session.live = FALSE]
    /\ UNCHANGED patient

SessionEnded(outcome) ==
    /\ MayAct /\ app.session.live
    /\ app' = RenderApp([app EXCEPT !.session.live = FALSE], outcome)
    /\ UNCHANGED patient

Rerender(outcome) == app' = RenderApp(app, outcome) /\ UNCHANGED patient

(* What a route loads is painted without a look at the camera.             *)
Repaint ==
    /\ app' = [app EXCEPT !.bound = app.session]
    /\ UNCHANGED patient

LogoutClick(outcome) ==
    /\ MayAct /\ app.user /\ app.leaving = "no"
    /\ app' = Stop([app EXCEPT !.leaving = "stopping"], "logout", outcome)
    /\ UNCHANGED patient

LogoutDone(outcome) ==
    /\ app.leaving = "calling"
    /\ app' = RenderApp(Reset([app EXCEPT !.user = FALSE, !.leaving = "no",
                                       !.session = NoSession]), outcome)
    /\ UNCHANGED patient

LogoutFails ==
    /\ app.leaving = "calling"
    /\ app' = [app EXCEPT !.leaving = "no"]
    /\ UNCHANGED patient

Login ==
    /\ ~app.user
    /\ app' = [app EXCEPT !.user = TRUE]
    /\ UNCHANGED patient

CameraNext ==
    \/ StartGranted \/ StartReady \/ DeviceLost \/ FindOver \/ Repaint \/ LogoutFails
    \/ Login
    \/ \E m \in Monitors :
          TickBegins(m) \/ \E found \in BOOLEAN : TickObserves(m, found)
    \/ \E s \in Joinable : Join(s)
    \/ \E outcome \in Outcomes :
          \/ ToggleOff(outcome) \/ StartFails(outcome)
          \/ SessionEnded(outcome) \/ Rerender(outcome)
          \/ LogoutClick(outcome) \/ LogoutDone(outcome)
          \/ \E m \in Monitors :
                ToggleOn(m, outcome) \/ TickPosts(m, outcome) \/ TickFails(m, outcome)
          \/ \E ok \in BOOLEAN : StopSettles(ok, outcome)

CameraSpec == CameraInit /\ [][CameraNext]_cameraVars

-----------------------------------------------------------------------------
(* However the switch is used and whatever fails, at most one camera       *)
(* stream is open, and it belongs to the active monitor or to the start in *)
(* progress: some handler is still able to close it.                       *)
NoStrayStream ==
    /\ Cardinality(app.tracks) <= 1
    /\ app.tracks \subseteq {app.current, app.starting}

(* In calm use a camera that is watching is shown to be: the switch is on, *)
(* for the session the monitor was started for, which is the live session  *)
(* the last render saw unless another has become active since. It holds    *)
(* through failed starts, failed ticks, lost devices, ended sessions,      *)
(* joins and logouts.                                                      *)
WatchingIsShown ==
    patient /\ app.current # NoId =>
        /\ app.enabled /\ app.owner = app.watched[app.current]
        /\ app.checked = app.session => app.session = [id |-> app.owner, live |-> TRUE]

=============================================================================
