---------------------------- MODULE DesktopProofs -----------------------------
(***************************************************************************)
(* Why the bridge of the desktop never leaves a WebSocket behind: a timer  *)
(* runs only while there is no socket, so the socket that a reconnection   *)
(* overwrites is none.  Why, in calm use, the overlay that is open is      *)
(* ready for what is clicked on it.  And why a camera that is open can be  *)
(* closed, and is shown in calm use: no function of the renderer opens one *)
(* (Keeps), a start is alone in progress, and whatever is stopped or left  *)
(* in calm use finds no camera any more (Steady).  Last, why what the      *)
(* local workers report was seen, and what lasted is reported, by the      *)
(* invariants of CaptureInvariant: a lemma for each worker says what a     *)
(* sample leaves of them (StudentRead, PresenterRead, TrackerRead for the  *)
(* one, FollowsOn, PresenterFollowsOn, DesktopFollowsOn for the other).    *)
(***************************************************************************)
EXTENDS DesktopMain, CameraMonitor, CaptureInvariant, SequenceTheorems,
        FiniteSetTheorems, WellFoundedInduction, TLAPS

-----------------------------------------------------------------------------
LEMMA RecordFacts ==
    /\ NoSocket \in Sockets /\ NoSocket.at = "none"
    /\ \A s \in SessionOrNone :
          Unconnected(s) \in Sockets /\ Unconnected(s).session = s /\ Unconnected(s) # NoSocket
    /\ NoneActive \in Views /\ NoJoin \in Joins /\ NoLoad \in Loads
    /\ NoneActive.session = None /\ NoJoin.at = "none"
<1>1. NoSocket \in Sockets /\ NoSocket.at = "none"
  BY EmptySeq DEF NoSocket, Sockets, SessionOrNone
<1>2. \A s \in SessionOrNone :
         /\ Unconnected(s) \in Sockets /\ Unconnected(s).session = s
         /\ Unconnected(s).at = "connecting"
  BY EmptySeq DEF Unconnected, Sockets
<1>3. /\ NoneActive \in Views /\ NoJoin \in Joins /\ NoLoad \in Loads
      /\ NoneActive.session = None /\ NoJoin.at = "none"
  BY ConstantsAssumption DEF NoneActive, NoJoin, NoLoad, Views, Joins, Loads, SessionOrNone
<1> QED BY <1>1, <1>2, <1>3

LEMMA MessageTyped ==
    ASSUME NEW S, NEW s \in Seq(S)
    PROVE  /\ \A e \in S : Append(s, e) \in Seq(S)
           /\ s # <<>> => Tail(s) \in Seq(S) /\ Head(s) \in S
BY HeadTailProperties, AppendProperties

(* Messages travel on the socket, which stays what it is.                  *)
LEMMA SentTyped ==
    ASSUME TypeOK, NEW e \in Envelope
    PROVE  /\ Sent(e) \in Sockets /\ Sent(e).session = socket.session
           /\ (Sent(e) = NoSocket) <=> (socket = NoSocket)
<1>1. \A k \in Sockets :
         /\ [k EXCEPT !.channel = Append(@, e)] \in Sockets
         /\ [k EXCEPT !.channel = Append(@, e)].session = k.session
         /\ [k EXCEPT !.channel = Append(@, e)].at = k.at
  BY MessageTyped DEF Sockets
<1>2. socket \in Sockets
  BY DEF TypeOK
<1>3. CASE socket.at = "open" /\ socket.session = e.session
  BY <1>1, <1>2, <1>3, RecordFacts DEF Sent
<1>4. CASE ~(socket.at = "open" /\ socket.session = e.session)
  BY <1>2, <1>4 DEF Sent
<1> QED BY <1>3, <1>4

LEMMA SyncedTyped ==
    ASSUME TypeOK, NEW a \in Views, Synced(a)
    PROVE  subscribed' \in SessionOrNone /\ commands' \in Seq(SessionOrNone)
<1>1. ToFollow(a) \in SessionOrNone
  BY DEF ToFollow, Views, SessionOrNone
<1> QED BY <1>1, MessageTyped DEF Synced, TypeOK

LEMMA RenderTyped ==
    ASSUME TypeOK, NEW a \in Views, Render(a)
    PROVE  subscribed' \in SessionOrNone /\ commands' \in Seq(SessionOrNone) /\ load' \in Loads
BY SyncedTyped DEF Render, TypeOK, Loads

-----------------------------------------------------------------------------
LEMMA TypedInit == Init => TypeOK
<1> SUFFICES ASSUME Init PROVE TypeOK
  OBVIOUS
<1>1. 0 \in 0..MaxRevision /\ 0 \in 0..MaxFaults /\ 0 \in 0..MaxVisits
  BY ConstantsAssumption
<1>2. <<>> \in Seq(SessionOrNone) /\ <<>> \in Seq(Envelope) /\ None \in SessionOrNone
  BY EmptySeq DEF SessionOrNone
<1>3. /\ commands \in Seq(SessionOrNone) /\ frames \in Seq(Envelope) /\ socket \in Sockets
      /\ active \in Views /\ joining \in Joins /\ load \in Loads
      /\ joining.at = "none" /\ active = NoneActive
  BY <1>2, RecordFacts DEF Init
<1>4. /\ stored \in [Sessions -> 0..MaxRevision] /\ shown \in [Sessions -> 0..MaxRevision]
      /\ announced \in [Sessions -> SUBSET (1..MaxRevision)]
  BY <1>1 DEF Init
<1> QED BY <1>1, <1>2, <1>3, <1>4 DEF Init, TypeOK

LEMMA BackendTyped ==
    ASSUME TypeOK, Backend
    PROVE  TypeOK'
<1> USE DEF renderer, bounds
<1>1. ASSUME NEW s \in Sessions, End(s) PROVE TypeOK'
  <2>1. EndedEvent(s) \in Envelope
    BY ConstantsAssumption DEF EndedEvent, Envelope
  <2> QED BY <1>1, <2>1, SentTyped DEF End, TypeOK
<1>2. ASSUME NEW s \in Sessions, Store(s) PROVE TypeOK'
  <2>1. stored[s] + 1 \in 0..MaxRevision
    BY <1>2, ConstantsAssumption DEF Store, TypeOK
  <2> QED BY <1>2, <2>1 DEF Store, main, TypeOK
<1>3. ASSUME NEW s \in Sessions, NEW n \in 1..MaxRevision, Announce(s, n) PROVE TypeOK'
  <2>1. [session |-> s, revision |-> n] \in Envelope
    BY ConstantsAssumption DEF Envelope
  <2> QED BY <1>3, <2>1, SentTyped DEF Announce, TypeOK
<1> QED BY <1>1, <1>2, <1>3 DEF Backend

LEMMA BridgeTyped ==
    ASSUME TypeOK, HandleCommand \/ Accept \/ Drop \/ Refuse \/ Reconnect \/ Forward
    PROVE  TypeOK'
<1> USE DEF backend, renderer, bounds
<1>1. CASE HandleCommand
  <2>1. Head(commands) \in SessionOrNone /\ Tail(commands) \in Seq(SessionOrNone)
    BY <1>1, MessageTyped DEF HandleCommand, TypeOK
  <2>2. /\ followed' \in SessionOrNone /\ timer' \in SessionOrNone /\ refused' \in BOOLEAN
        /\ socket' \in Sockets /\ stray' = stray
    BY <1>1, <2>1, RecordFacts DEF HandleCommand, main, ClosedTimer, SessionOrNone, TypeOK
  <2> QED BY <1>1, <2>1, <2>2 DEF HandleCommand, TypeOK
<1>2. CASE Accept
  <2>1. socket' \in Sockets
    BY <1>2 DEF Accept, TypeOK, Sockets
  <2> QED BY <1>2, <2>1 DEF Accept, TypeOK
<1>3. CASE Drop \/ Refuse
  <2>1. timer' \in SessionOrNone
    BY <1>3 DEF Drop, Refuse, RetryTimer, TypeOK, SessionOrNone, Sockets
  <2>2. faults' \in 0..MaxFaults
    BY <1>3, ConstantsAssumption DEF Drop, Refuse, TypeOK
  <2> QED BY <1>3, <2>1, <2>2, RecordFacts DEF Drop, Refuse, TypeOK
<1>4. CASE Reconnect
  <2>1. socket' \in Sockets /\ stray' \in Nat
    BY <1>4, RecordFacts DEF Reconnect, Connected, TypeOK
  <2> QED BY <1>4, <2>1 DEF Reconnect, TypeOK, SessionOrNone
<1>5. CASE Forward
  <2>1. socket.channel \in Seq(Envelope)
    BY DEF TypeOK, Sockets
  <2>2. socket' \in Sockets
    BY <1>5, <2>1, MessageTyped DEF Forward, TypeOK, Sockets
  <2>3. frames' \in Seq(Envelope)
    BY <1>5, <2>1, MessageTyped DEF Forward, TypeOK
  <2> QED BY <1>5, <2>2, <2>3 DEF Forward, TypeOK
<1> QED BY <1>1, <1>2, <1>3, <1>4, <1>5

LEMMA JoinTyped ==
    ASSUME TypeOK,
           \/ (\E s \in Sessions : BeginJoin(s) \/ BeginAutoJoin(s)) \/ Adopt \/ FinishJoin
    PROVE  TypeOK'
<1> USE DEF backend, main
<1>1. ASSUME NEW s \in Sessions, BeginJoin(s) \/ BeginAutoJoin(s) PROVE TypeOK'
  <2>1. /\ joining'.session = s /\ joining' \in Joins
        /\ visits' = visits + 1 /\ visits < MaxVisits
    <3>1. \A auto \in BOOLEAN :
             /\ [session |-> s, at |-> "asked", auto |-> auto] \in Joins
             /\ [session |-> s, at |-> "asked", auto |-> auto].session = s
      BY DEF Joins, SessionOrNone
    <3>2. \E auto \in BOOLEAN : joining' = [session |-> s, at |-> "asked", auto |-> auto]
      BY <1>1 DEF BeginJoin, BeginAutoJoin
    <3> QED BY <1>1, <3>1, <3>2 DEF BeginJoin, BeginAutoJoin
  <2>2. active' \in Views /\ (active'.session = None => active' = NoneActive)
    BY <1>1 DEF BeginJoin, BeginAutoJoin, TypeOK, Views
  <2>3. visits' \in 0..MaxVisits
    BY <2>1, ConstantsAssumption DEF TypeOK
  <2> QED BY <1>1, <2>1, <2>2, <2>3 DEF BeginJoin, BeginAutoJoin, TypeOK
<1>2. CASE Adopt
  <2>1. joining.session \in Sessions /\ joining \in Joins
    BY <1>2 DEF Adopt, TypeOK
  <2>2. joining' \in Joins /\ joining'.session \in Sessions
    BY <1>2, <2>1 DEF Adopt, Joins
  <2>3. active' \in Views /\ active'.session # None
    BY <1>2, <2>1, ConstantsAssumption DEF Adopt, Views, SessionOrNone
  <2> QED BY <1>2, <2>2, <2>3 DEF Adopt, bounds, TypeOK
<1>3. CASE FinishJoin
  <2>1. subscribed' \in SessionOrNone /\ commands' \in Seq(SessionOrNone) /\ load' \in Loads
    BY <1>3, RenderTyped DEF FinishJoin, TypeOK
  <2> QED BY <1>3, <2>1, RecordFacts DEF FinishJoin, bounds, TypeOK
<1> QED BY <1>1, <1>2, <1>3

LEMMA PagesTyped ==
    ASSUME TypeOK, Logout \/ BeginLoad \/ FinishLoad
    PROVE  TypeOK'
<1> USE DEF backend, main
<1>1. CASE Logout
  <2>1. subscribed' \in SessionOrNone /\ commands' \in Seq(SessionOrNone) /\ load' \in Loads
    BY <1>1, RenderTyped, RecordFacts DEF Logout
  <2>2. visits' \in 0..MaxVisits /\ shown' \in [Sessions -> 0..MaxRevision]
    BY <1>1, ConstantsAssumption DEF Logout, TypeOK
  <2> QED BY <1>1, <2>1, <2>2, RecordFacts DEF Logout, TypeOK
<1>2. CASE BeginLoad
  <2>1. subscribed' \in SessionOrNone /\ commands' \in Seq(SessionOrNone)
    BY <1>2, SyncedTyped DEF BeginLoad, TypeOK
  <2>2. active.session \in Sessions
    BY <1>2 DEF BeginLoad, TypeOK, Views, SessionOrNone
  <2>3. load' \in Loads
    BY <1>2, <2>2 DEF BeginLoad, Loads, SessionOrNone, TypeOK
  <2>4. visits' \in 0..MaxVisits
    BY <1>2, ConstantsAssumption DEF BeginLoad, TypeOK
  <2> QED BY <1>2, <2>1, <2>3, <2>4 DEF BeginLoad, TypeOK
<1>3. CASE FinishLoad
  <2>1. subscribed' \in SessionOrNone /\ commands' \in Seq(SessionOrNone)
    BY <1>3, SyncedTyped DEF FinishLoad, TypeOK
  <2>2. shown' \in [Sessions -> 0..MaxRevision]
    BY <1>3, ConstantsAssumption DEF FinishLoad, TypeOK, Loads
  <2> QED BY <1>3, <2>1, <2>2, RecordFacts DEF FinishLoad, bounds, TypeOK
<1> QED BY <1>1, <1>2, <1>3

LEMMA ApplyTyped ==
    ASSUME TypeOK, ApplySessionEvent
    PROVE  TypeOK'
<1> USE DEF backend, main, bounds
<1> DEFINE e == Head(frames)
<1>1. e \in Envelope /\ frames' \in Seq(Envelope)
  BY MessageTyped DEF ApplySessionEvent, TypeOK
<1>2. UNCHANGED <<backend, main, joining, bounds>>
      /\ (ApplyEnded(e) \/ ApplyChunk(e) \/ Ignore(e))
  BY DEF ApplySessionEvent
<1> HIDE DEF e
<1>3. CASE ApplyEnded(e)
  <2> DEFINE a == [active EXCEPT !.ended = TRUE]
  <2>1. active' = a /\ Render(a) /\ UNCHANGED shown /\ active.session = e.session
    BY <1>3 DEF ApplyEnded, Applies
  <2>2. a \in Views /\ a.session # None
    BY <1>1, <2>1, ConstantsAssumption DEF TypeOK, Views, Envelope
  <2> HIDE DEF a
  <2>3. subscribed' \in SessionOrNone /\ commands' \in Seq(SessionOrNone) /\ load' \in Loads
    BY <2>1, <2>2, RenderTyped
  <2> QED BY <1>1, <1>2, <2>1, <2>2, <2>3 DEF TypeOK
<1>4. CASE ApplyChunk(e)
  <2>1. shown' \in [Sessions -> 0..MaxRevision]
    BY <1>1, <1>4 DEF ApplyChunk, Envelope, TypeOK
  <2> QED BY <1>1, <1>2, <1>4, <2>1 DEF ApplyChunk, TypeOK
<1>5. CASE Ignore(e)
  BY <1>1, <1>2, <1>5 DEF Ignore, TypeOK
<1> QED BY <1>2, <1>3, <1>4, <1>5

LEMMA TypedNext == TypeOK /\ [Next]_vars => TypeOK'
<1> SUFFICES ASSUME TypeOK, [Next]_vars PROVE TypeOK'
  OBVIOUS
<1>1. CASE UNCHANGED vars
  BY <1>1 DEF vars, backend, main, renderer, bounds, TypeOK
<1> QED
  BY <1>1, BackendTyped, BridgeTyped, JoinTyped, PagesTyped, ApplyTyped DEF Next, User

-----------------------------------------------------------------------------
LEMMA FollowsStep == TypeOK /\ FollowsOneSession /\ [Next]_vars => FollowsOneSession'
<1> SUFFICES ASSUME TypeOK, FollowsOneSession, [Next]_vars PROVE FollowsOneSession'
  OBVIOUS
<1> USE DEF FollowsOneSession
<1>1. CASE UNCHANGED main
  BY <1>1 DEF main
<1>2. CASE Backend
  <2>1. ASSUME NEW s \in Sessions, End(s) PROVE FollowsOneSession'
    <3>1. EndedEvent(s) \in Envelope
      BY ConstantsAssumption DEF EndedEvent, Envelope
    <3> QED BY <2>1, <3>1, SentTyped DEF End
  <2>2. ASSUME NEW s \in Sessions, NEW n \in 1..MaxRevision, Announce(s, n)
        PROVE  FollowsOneSession'
    <3>1. [session |-> s, revision |-> n] \in Envelope
      BY ConstantsAssumption DEF Envelope
    <3> QED BY <2>2, <3>1, SentTyped DEF Announce
  <2> QED BY <1>1, <1>2, <2>1, <2>2 DEF Backend, Store
<1>3. CASE HandleCommand
  <2>1. Head(commands) \in SessionOrNone
    BY <1>3, MessageTyped DEF HandleCommand, TypeOK
  <2> QED BY <1>1, <1>3, <2>1, RecordFacts DEF HandleCommand, ClosedTimer
<1>4. CASE Accept \/ Forward
  <2>1. /\ socket # NoSocket /\ socket'.session = socket.session
        /\ UNCHANGED <<followed, stray, timer>>
    <3>1. socket \in Sockets /\ socket # NoSocket
      BY <1>4, RecordFacts DEF Accept, Forward, TypeOK
    <3> QED BY <1>4, <3>1 DEF Accept, Forward, Sockets
  <2> QED BY <2>1
<1>5. CASE Drop \/ Refuse
  BY <1>5 DEF Drop, Refuse, RetryTimer
<1>6. CASE Reconnect
  <2>1. socket = NoSocket /\ timer = followed /\ timer \in SessionOrNone
    BY <1>6 DEF Reconnect, TypeOK
  <2> QED BY <1>6, <2>1, RecordFacts DEF Reconnect, Connected, TypeOK
<1>7. CASE User \/ Adopt \/ FinishJoin \/ FinishLoad \/ ApplySessionEvent \/ UNCHANGED vars
  BY <1>1, <1>7 DEF User, Logout, BeginLoad, BeginJoin, BeginAutoJoin, Adopt, FinishJoin,
     FinishLoad, ApplySessionEvent, vars
<1> QED BY <1>2, <1>3, <1>4, <1>5, <1>6, <1>7 DEF Next

-----------------------------------------------------------------------------
(* The variables have their types in every reachable state.                *)
THEOREM TypeCorrect == Spec => []TypeOK
BY TypedInit, TypedNext, PTL DEF Spec

(* The bridge keeps one WebSocket or a timer that will open it             *)
(* (session_events.ts), also beside the overlay in the main process.       *)
THEOREM OneSessionIsFollowed ==
    (Spec => []FollowsOneSession) /\ (DesktopSpec => []FollowsOneSession)
<1>1. Init => FollowsOneSession
  BY DEF Init, FollowsOneSession
<1>2. DesktopInit => Init
  BY DEF DesktopInit
<1>3. [DesktopNext]_<<part, vars, overlayVars>> => [Next]_vars
  BY DEF DesktopNext
<1> QED BY <1>1, <1>2, <1>3, TypedInit, TypedNext, FollowsStep, PTL DEF Spec, DesktopSpec

-----------------------------------------------------------------------------
(* The overlay.                                                            *)
Pages == [variant : {"blank", "zoom", "drift"},
          view : {"prompt", "loading", "ready", "failed"}, asked : BOOLEAN]

OverlayTyped ==
    /\ page \in Pages /\ loading \in {"none", "zoom", "drift"}
    /\ click \in {"none", "recover", "leave"}

(* In calm use a prompt is loaded only over an interval that is pending    *)
(* and not yet asked for, a click on "recover" arrives before anything     *)
(* else is asked, and what is in flight stays pending.                     *)
PromptIsPending ==
    loading = "drift" => pending # Nothing /\ inFlight = Nothing /\ click = "none"

ClickIsPending ==
    click = "recover" =>
        /\ pending # Nothing /\ inFlight = Nothing
        /\ page.variant = "drift" => page.asked

FlightIsPending ==
    inFlight # Nothing =>
        /\ pending # Nothing
        /\ page.variant = "drift" => page.view \in {"loading", "ready"}

OverlayInv ==
    /\ OverlayTyped
    /\ calm => closing = 0 /\ PromptIsPending /\ ClickIsPending /\ FlightIsPending
    /\ OverlayStandsReady

LEMMA OverlayStep == OverlayInv /\ [OverlayNext]_overlayVars => OverlayInv'
<1> SUFFICES ASSUME OverlayInv, [OverlayNext]_overlayVars PROVE OverlayInv'
  OBVIOUS
<1> USE OverlayAssumption
    DEF OverlayInv, OverlayTyped, Pages, PromptIsPending, ClickIsPending, FlightIsPending,
        OverlayStandsReady, Blank, controller, windows, monitor
<1>1. CASE UNCHANGED overlayVars
  BY <1>1 DEF overlayVars
<1>2. CASE TimesOut
  BY <1>2 DEF TimesOut, HideZoomOverlay
<1>3. CASE Closed
  BY <1>3 DEF Closed
<1>4. CASE PageLoads
  BY <1>4 DEF PageLoads, Loaded
<1>5. CASE ClickRecover
  BY <1>5 DEF ClickRecover, MayClick, Offers
<1>6. CASE ClickLeave
  BY <1>6 DEF ClickLeave, MayClick
<1>7. ASSUME StrayLeave \/ \E lost \in strays : StrayRecover(lost) PROVE OverlayInv'
  BY <1>7 DEF StrayLeave, StrayRecover, MayClick
<1>8. CASE Recover
  BY <1>8 DEF Recover, Shows
<1>9. CASE Leave
  BY <1>9 DEF Leave, HideZoomOverlay
<1>10. ASSUME NEW m \in Moments, ShowDrift(m) PROVE OverlayInv'
  BY <1>10 DEF ShowDrift, ShowZoomOverlay
<1>11. ASSUME NEW ok \in BOOLEAN, Answer(ok) PROVE OverlayInv'
  BY <1>11 DEF Answer, Shows
<1>12. CASE ZoomChanges \/ PollReads
  BY <1>12 DEF ZoomChanges, PollReads
<1>13. CASE SetRole
  BY <1>13 DEF SetRole, ShowZoomOverlay
<1>14. ASSUME NEW running \in readings, PollAnswers(running) PROVE OverlayInv'
  <2>1. UNCHANGED <<calm, controller, click>>
    BY <1>14 DEF PollAnswers
  <2>2. UNCHANGED windows \/ ShowZoomOverlay("zoom") \/ HideZoomOverlay
    BY <1>14 DEF PollAnswers
  <2>3. CASE UNCHANGED windows
    BY <2>1, <2>3
  <2>4. CASE ShowZoomOverlay("zoom")
    BY <2>1, <2>4 DEF ShowZoomOverlay
  <2>5. CASE HideZoomOverlay
    BY <2>1, <2>5 DEF HideZoomOverlay
  <2> QED BY <2>2, <2>3, <2>4, <2>5
<1> QED
  BY <1>1, <1>2, <1>3, <1>4, <1>5, <1>6, <1>7, <1>8, <1>9, <1>10, <1>11, <1>12, <1>13, <1>14
     DEF OverlayNext

(* In calm use the open overlay is the one the main process holds, a       *)
(* prompt has something to recover, and a card is not closed by the idle   *)
(* timer (drift_recovery.ts, zoom_overlay_window.ts).                      *)
THEOREM OverlayIsReady == DesktopSpec => []OverlayStandsReady
<1>1. DesktopInit => OverlayInv
  BY DEF DesktopInit, OverlayInit, OverlayInv, OverlayTyped, Pages, PromptIsPending,
         ClickIsPending, FlightIsPending, OverlayStandsReady, Blank
<1>2. [DesktopNext]_<<part, vars, overlayVars>> => [OverlayNext]_overlayVars
  BY DEF DesktopNext
<1>3. OverlayInv => OverlayStandsReady
  BY DEF OverlayInv
<1> QED BY <1>1, <1>2, <1>3, OverlayStep, PTL DEF DesktopSpec

-----------------------------------------------------------------------------
(* The camera: the record of its module has its types.                     *)
Shown == [id : Joinable \cup {NoId}, live : BOOLEAN]
Waiters == {"toggle", "logout", "lost"} \cup Monitors

Apps ==
    [user : BOOLEAN, session : Shown, bound : Shown, checked : Shown,
     owner : Joinable \cup {NoId}, enabled : BOOLEAN, status : {"off", "watching", "error"},
     prompt : Joinable \cup {NoId}, watched : [Monitors -> Joinable \cup {NoId}],
     current : Monitors \cup {NoId}, starting : Monitors \cup {NoId},
     tracks : SUBSET Monitors, tick : [Monitors -> {"idle", "analyzing", "posting", "stopping"}],
     stop : Monitors \cup {NoId}, waiting : Seq(Waiters),
     leaving : {"no", "stopping", "calling"}]

(* A stream belongs to the active monitor or to the start in progress, and *)
(* there are not both.                                                     *)
Held(a) ==
    /\ a.current = NoId \/ a.starting = NoId
    /\ a.tracks \subseteq {a.current, a.starting}

Unwatched(a) == a.current = NoId /\ a.starting = NoId

Watches(a, m) ==
    /\ a.enabled /\ a.owner # NoId /\ a.owner = a.watched[m]
    /\ a.checked = a.session => a.session = [id |-> a.owner, live |-> TRUE]

Steady(a) ==
    /\ a.current # NoId => Watches(a, a.current)
    /\ a.starting # NoId =>
         /\ Watches(a, a.starting) /\ a.checked = a.session
         /\ \A m \in Monitors : a.tick[m] = "idle"
    /\ a.stop # NoId \/ a.leaving # "no" => Unwatched(a)

CameraInv == app \in Apps /\ Held(app) /\ (patient => Steady(app))

(* What the functions of the renderer do to the camera: nothing is opened. *)
Keeps(a, b) ==
    /\ b \in Apps
    /\ Held(a) => Held(b)
    /\ Unwatched(a) => Unwatched(b)

LEMMA KeepsOn == ASSUME NEW a, NEW b, NEW c, Keeps(a, b), Keeps(b, c) PROVE Keeps(a, c)
BY DEF Keeps

LEMMA HaltKeeps ==
    ASSUME NEW a \in Apps, NEW outcome
    PROVE  /\ Keeps(a, Halt(a, outcome))
           /\ Halt(a, outcome).starting = a.starting
           /\ a.stop = NoId => Halt(a, outcome).current = NoId
<1>1. CASE a.stop # NoId \/ a.current = NoId
  BY <1>1 DEF Halt, Keeps
<1>2. CASE ~(a.stop # NoId \/ a.current = NoId)
  <2>1. PICK stop \in Monitors \cup {NoId} :
           stop = IF outcome = "events" THEN a.current ELSE NoId
    BY DEF Apps
  <2>2. PICK b : b = [a EXCEPT !.current = NoId, !.tracks = @ \ {a.current}, !.stop = stop]
    OBVIOUS
  <2>3. Halt(a, outcome) = b
    BY <1>2, <2>1, <2>2 DEF Halt
  <2>4. b \in Apps
    BY <2>2 DEF Apps
  <2>5. b.current = NoId /\ b.starting = a.starting /\ b.tracks = a.tracks \ {a.current}
    BY <2>2 DEF Apps
  <2> QED BY <2>3, <2>4, <2>5 DEF Keeps, Held, Unwatched
<1> QED BY <1>1, <1>2

LEMMA RenderKeeps ==
    ASSUME NEW a \in Apps, NEW outcome
    PROVE  Keeps(a, RenderApp(a, outcome))
<1>1. PICK b : b = [a EXCEPT !.bound = a.session, !.checked = a.session]
  OBVIOUS
<1>2. Keeps(a, b)
  <2>1. b \in Apps
    BY <1>1 DEF Apps
  <2>2. b.current = a.current /\ b.starting = a.starting /\ b.tracks = a.tracks
    BY <1>1 DEF Apps
  <2> QED BY <2>1, <2>2 DEF Keeps, Held, Unwatched
<1>3. PICK c : c = Reset([b EXCEPT !.owner = NoId])
  OBVIOUS
<1>4. Keeps(b, c)
  <2>0. b \in Apps
    BY <1>2 DEF Keeps
  <2>1. c = [b EXCEPT !.owner = NoId, !.enabled = FALSE, !.status = "off", !.prompt = NoId]
    BY <1>3, <2>0 DEF Reset, Apps
  <2>2. c \in Apps
    BY <2>0, <2>1 DEF Apps
  <2>3. c.current = b.current /\ c.starting = b.starting /\ c.tracks = b.tracks
    BY <2>0, <2>1 DEF Apps
  <2> QED BY <2>2, <2>3 DEF Keeps, Held, Unwatched
<1>5. Keeps(c, Halt(c, outcome))
  BY <1>4, HaltKeeps DEF Keeps
<1>6. RenderApp(a, outcome) = IF Foreign(a) THEN Halt(c, outcome) ELSE b
  BY <1>1, <1>3 DEF RenderApp
<1> QED BY <1>2, <1>4, <1>5, <1>6, KeepsOn

LEMMA ErrorKeeps ==
    ASSUME NEW a \in Apps, NEW outcome, NEW status \in {"off", "watching", "error"}
    PROVE  Keeps(a, SwitchedOff(a, status)) /\ Keeps(a, OnError(a, outcome))
<1>1. \A s \in {"off", "watching", "error"} : Keeps(a, SwitchedOff(a, s))
  <2> SUFFICES ASSUME NEW s \in {"off", "watching", "error"} PROVE Keeps(a, SwitchedOff(a, s))
    OBVIOUS
  <2>1. PICK b : b = [a EXCEPT !.owner = NoId, !.enabled = FALSE, !.status = s]
    OBVIOUS
  <2>2. b \in Apps
    BY <2>1 DEF Apps
  <2>3. b.current = a.current /\ b.starting = a.starting /\ b.tracks = a.tracks
    BY <2>1 DEF Apps
  <2> QED BY <2>1, <2>2, <2>3 DEF SwitchedOff, Keeps, Held, Unwatched
<1>2. Keeps(SwitchedOff(a, "error"), OnError(a, outcome))
  BY <1>1, RenderKeeps DEF OnError, Keeps
<1> QED BY <1>1, <1>2, KeepsOn

LEMMA ContinueKeeps ==
    ASSUME NEW a \in Apps, NEW waiter \in Waiters, NEW ok, NEW outcome
    PROVE  Keeps(a, Continue(a, waiter, ok, outcome))
<1>1. PICK b : b = [a EXCEPT !.leaving = IF ok THEN "calling" ELSE "no"]
  OBVIOUS
<1>2. Keeps(a, b)
  <2>1. (IF ok THEN "calling" ELSE "no") \in {"no", "stopping", "calling"}
    OBVIOUS
  <2>2. b \in Apps /\ b.current = a.current /\ b.starting = a.starting /\ b.tracks = a.tracks
    BY <1>1, <2>1 DEF Apps
  <2> QED BY <2>2 DEF Keeps, Held, Unwatched
<1>3. PICK c : c = [a EXCEPT !.tick[waiter] = "idle"]
  OBVIOUS
<1>4. Keeps(a, c)
  <2>1. PICK ticks : ticks = [a.tick EXCEPT ![waiter] = "idle"]
    OBVIOUS
  <2>2. ticks \in [Monitors -> {"idle", "analyzing", "posting", "stopping"}]
    BY <2>1 DEF Apps
  <2>3. c = [a EXCEPT !.tick = ticks]
    BY <1>3, <2>1
  <2>4. c \in Apps
    BY <2>2, <2>3 DEF Apps
  <2>5. c.current = a.current /\ c.starting = a.starting /\ c.tracks = a.tracks
    BY <2>3 DEF Apps
  <2> QED BY <2>4, <2>5 DEF Keeps, Held, Unwatched
<1>5. Keeps(c, OnError(c, outcome))
  BY <1>4, ErrorKeeps DEF Keeps
<1>6. \/ Continue(a, waiter, ok, outcome) = RenderApp(a, outcome)
      \/ Continue(a, waiter, ok, outcome) = OnError(a, outcome)
      \/ Continue(a, waiter, ok, outcome) = b
      \/ Continue(a, waiter, ok, outcome) = OnError(c, outcome)
      \/ Continue(a, waiter, ok, outcome) = c
  BY <1>1, <1>3 DEF Continue
<1> QED BY <1>2, <1>4, <1>5, <1>6, KeepsOn, RenderKeeps, ErrorKeeps

(* Whoever awaits the stop of a camera goes on without it.                 *)
LEMMA StopKeeps ==
    ASSUME NEW a \in Apps, NEW waiter \in Waiters, NEW outcome
    PROVE  /\ Keeps(a, Stop(a, waiter, outcome))
           /\ a.stop = NoId /\ a.starting = NoId => Unwatched(Stop(a, waiter, outcome))
<1>1. PICK b, failed : b = Halt(a, outcome) /\ failed = (a.current # NoId /\ outcome = "throws")
  OBVIOUS
<1>2. /\ Keeps(a, b)
      /\ a.stop = NoId /\ a.starting = NoId => Unwatched(b)
  BY <1>1, HaltKeeps DEF Unwatched
<1>3. PICK c : c = [b EXCEPT !.waiting = Enqueued(@, waiter)]
  OBVIOUS
<1>4. Keeps(b, c)
  <2>1. b \in Apps /\ b.waiting \in Seq(Waiters)
    BY <1>2 DEF Keeps, Apps
  <2>2. Enqueued(b.waiting, waiter) \in Seq(Waiters)
    BY <2>1, AppendProperties DEF Enqueued
  <2>3. PICK waiting \in Seq(Waiters) : waiting = Enqueued(b.waiting, waiter)
    BY <2>2
  <2>4. c = [b EXCEPT !.waiting = waiting]
    BY <1>3, <2>3
  <2>5. c \in Apps
    BY <2>1, <2>3, <2>4, ZenonT(60) DEF Apps
  <2>6. c.current = b.current /\ c.starting = b.starting /\ c.tracks = b.tracks
    BY <2>1, <2>4 DEF Apps
  <2> QED BY <2>5, <2>6 DEF Keeps, Held, Unwatched
<1>5. Keeps(b, Continue(b, waiter, ~failed, outcome))
  BY <1>2, ContinueKeeps DEF Keeps
<1>6. Stop(a, waiter, outcome) = IF a.stop # NoId \/ b.stop # NoId THEN c
                                 ELSE Continue(b, waiter, ~failed, outcome)
  BY <1>1, <1>3 DEF Stop
<1>7. Keeps(b, Stop(a, waiter, outcome))
  BY <1>4, <1>5, <1>6
<1>8. Keeps(a, Stop(a, waiter, outcome))
  BY <1>2, <1>7, KeepsOn
<1> QED BY <1>2, <1>7, <1>8 DEF Keeps

-----------------------------------------------------------------------------
(* Numbers: a set of them has a least one, and one that has 0 and the next *)
(* of each of its members has all.                                         *)
LEMMA LeastNatural ==
    ASSUME NEW S \in SUBSET Nat, S # {}
    PROVE  \E m \in S : \A n \in S : m <= n
<1>1. PICK R : R = {pair \in Nat \X Nat : pair[1] < pair[2]}
  OBVIOUS
<1>2. IsWellFoundedOn(R, Nat)
  BY <1>1, NatLessThanWellFounded DEF OpToRel
<1>3. PICK m \in S : \A n \in S : <<n, m>> \notin R
  BY <1>2, WFMin
<1>4. ASSUME NEW n \in S, n < m PROVE FALSE
  <2>1. <<n, m>> \in Nat \X Nat /\ <<n, m>>[1] = n /\ <<n, m>>[2] = m
    OBVIOUS
  <2>2. <<n, m>> \in R
    BY <1>1, <1>4, <2>1
  <2> QED BY <1>3, <2>2
<1> QED BY <1>4

LEMMA InductiveSet ==
    ASSUME NEW A, 0 \in A, \A n \in Nat : n \in A => n + 1 \in A
    PROVE  \A n \in Nat : n \in A
<1> SUFFICES ASSUME NEW n \in Nat \ A PROVE FALSE
  OBVIOUS
<1>1. PICK m \in Nat \ A : \A k \in Nat \ A : m <= k
  BY LeastNatural
<1>2. m # 0 /\ m - 1 \in Nat /\ (m - 1) + 1 = m
  OBVIOUS
<1>3. m - 1 \in A
  BY <1>1, <1>2
<1> QED BY <1>2, <1>3

(* The awaiting handlers, one after the other, open nothing either.        *)
Chain(g, k, a, ok, outcome) ==
    g = [j \in 0..k |-> IF j = 0 THEN a
                        ELSE Continue(g[j - 1], app.waiting[j], ok, outcome)]

LEMMA ChainExists ==
    ASSUME NEW a, NEW ok, NEW outcome, NEW k \in Nat
    PROVE  \E g : Chain(g, k, a, ok, outcome)
<1> DEFINE A == {n \in Nat : \E g : Chain(g, n, a, ok, outcome)}
<1>1. 0 \in A
  <2>1. Chain([j \in 0..0 |-> a], 0, a, ok, outcome)
    BY DEF Chain
  <2> QED BY <2>1
<1>2. ASSUME NEW n \in Nat, n \in A PROVE n + 1 \in A
  <2>1. PICK g : Chain(g, n, a, ok, outcome)
    BY <1>2
  <2>2. PICK next : next = Continue(g[n], app.waiting[n + 1], ok, outcome)
    OBVIOUS
  <2>3. PICK f : f = [j \in 0..(n + 1) |-> IF j = n + 1 THEN next ELSE g[j]]
    OBVIOUS
  <2>4. ASSUME NEW j \in 0..(n + 1)
        PROVE  f[j] = IF j = 0 THEN a ELSE Continue(f[j - 1], app.waiting[j], ok, outcome)
    <3>1. CASE j = n + 1
      <4>1. j # 0 /\ j - 1 = n /\ n \in 0..(n + 1) /\ n # n + 1
        BY <3>1
      <4>2. f[j] = next /\ f[j - 1] = g[n]
        BY <2>3, <3>1, <4>1
      <4> QED BY <2>2, <3>1, <4>1, <4>2
    <3>2. CASE j = 0
      <4>1. f[j] = g[j] /\ j \in 0..n
        BY <2>3, <3>2
      <4> QED BY <2>1, <3>2, <4>1 DEF Chain
    <3>3. CASE j # 0 /\ j # n + 1
      <4>1. j \in 0..n /\ j - 1 \in 0..(n + 1) /\ j - 1 # n + 1
        BY <3>3
      <4>2. f[j] = g[j] /\ f[j - 1] = g[j - 1]
        BY <2>3, <3>3, <4>1
      <4>3. g[j] = Continue(g[j - 1], app.waiting[j], ok, outcome)
        BY <2>1, <3>3, <4>1 DEF Chain
      <4> QED BY <3>3, <4>2, <4>3
    <3> QED BY <3>1, <3>2, <3>3
  <2>5. f = [j \in 0..(n + 1) |-> f[j]]
    BY <2>3
  <2>6. Chain(f, n + 1, a, ok, outcome)
    BY <2>4, <2>5 DEF Chain
  <2> QED BY <2>6
<1> HIDE DEF A
<1>3. k \in A
  BY <1>1, <1>2, InductiveSet
<1> QED BY <1>3 DEF A

LEMMA ResumedKeeps ==
    ASSUME app \in Apps, NEW a \in Apps, NEW ok, NEW outcome
    PROVE  Keeps(a, Resumed(a, ok, outcome))
<1>1. PICK len : len = Len(app.waiting) /\ len \in Nat /\ \A n \in 1..len : app.waiting[n] \in Waiters
  <2>1. app.waiting \in Seq(Waiters)
    BY DEF Apps
  <2> QED BY <2>1, LenProperties, ElementOfSeq
<1>2. PICK f : f = CHOOSE g : Chain(g, len, a, ok, outcome)
  OBVIOUS
<1>3. Chain(f, len, a, ok, outcome)
  BY <1>1, <1>2, ChainExists
<1>4. Resumed(a, ok, outcome) = f[len]
  BY <1>1, <1>2 DEF Resumed, Chain
<1> DEFINE A == {n \in Nat : n <= len => Keeps(a, f[n])}
<1>5. 0 \in A
  BY <1>1, <1>3 DEF Chain, Keeps
<1>6. ASSUME NEW n \in Nat, n \in A PROVE n + 1 \in A
  <2> SUFFICES ASSUME n + 1 <= len PROVE Keeps(a, f[n + 1])
    OBVIOUS
  <2>1. Keeps(a, f[n])
    BY <1>1, <1>6
  <2>2. n + 1 \in 1..len /\ n + 1 \in 0..len /\ n + 1 # 0 /\ (n + 1) - 1 = n
    BY <1>1
  <2>3. f[n + 1] = Continue(f[n], app.waiting[n + 1], ok, outcome)
    BY <1>3, <2>2 DEF Chain
  <2>4. Keeps(f[n], f[n + 1])
    BY <1>1, <2>1, <2>2, <2>3, ContinueKeeps DEF Keeps
  <2> QED BY <2>1, <2>4, KeepsOn
<1> HIDE DEF A
<1>7. len \in A
  BY <1>1, <1>5, <1>6, InductiveSet
<1> QED BY <1>1, <1>4, <1>7 DEF A

-----------------------------------------------------------------------------
LEMMA SteadyOff == ASSUME NEW a, Unwatched(a) PROVE Steady(a)
BY DEF Steady, Unwatched

(* A render leaves a camera on whose session it shows, and no other.       *)
LEMMA RenderSteady ==
    ASSUME NEW a \in Apps, Held(a), Steady(a), NEW outcome
    PROVE  Steady(RenderApp(a, outcome))
<1>1. CASE Unwatched(a)
  <2>1. Unwatched(RenderApp(a, outcome))
    BY <1>1, RenderKeeps DEF Keeps
  <2> QED BY <2>1, SteadyOff
<1>2. CASE ~Unwatched(a) /\ ~Foreign(a)
  <2>1. PICK b : b = [a EXCEPT !.bound = a.session, !.checked = a.session]
    OBVIOUS
  <2>2. RenderApp(a, outcome) = b
    BY <1>2, <2>1 DEF RenderApp
  <2>3. /\ b.current = a.current /\ b.starting = a.starting /\ b.tick = a.tick /\ b.stop = a.stop
        /\ b.leaving = a.leaving /\ b.enabled = a.enabled /\ b.owner = a.owner
        /\ b.watched = a.watched /\ b.session = a.session /\ b.checked = b.session
    BY <2>1 DEF Apps
  <2>4. a.owner # NoId
    BY <1>2 DEF Steady, Watches, Unwatched
  <2>5. a.session = [id |-> a.owner, live |-> TRUE]
    BY <1>2, <2>4 DEF Foreign, Apps, Shown
  <2> QED BY <2>2, <2>3, <2>5 DEF Steady, Watches, Unwatched
<1>3. CASE ~Unwatched(a) /\ Foreign(a)
  <2>1. a.checked # a.session
    BY <1>3 DEF Foreign, Steady, Watches, Unwatched
  <2>2. a.starting = NoId /\ a.stop = NoId
    BY <1>3, <2>1 DEF Steady
  <2>3. PICK c : c = Reset([[a EXCEPT !.bound = a.session, !.checked = a.session]
                              EXCEPT !.owner = NoId])
    OBVIOUS
  <2>4. c = [a EXCEPT !.bound = a.session, !.checked = a.session, !.owner = NoId,
                      !.enabled = FALSE, !.status = "off", !.prompt = NoId]
    BY <2>3 DEF Reset, Apps
  <2>5. c \in Apps /\ c.stop = a.stop /\ c.starting = a.starting
    BY <2>4 DEF Apps
  <2>6. RenderApp(a, outcome) = Halt(c, outcome)
    BY <1>3, <2>3 DEF RenderApp
  <2>7. Unwatched(RenderApp(a, outcome))
    BY <2>2, <2>5, <2>6, HaltKeeps DEF Unwatched
  <2> QED BY <2>7, SteadyOff
<1> QED BY <1>1, <1>2, <1>3

LEMMA CameraStart == CameraInit => CameraInv
<1> SUFFICES ASSUME CameraInit PROVE CameraInv
  OBVIOUS
<1>1. NoSession \in Shown /\ <<>> \in Seq(Waiters)
  BY EmptySeq DEF NoSession, Shown
<1>2. app \in Apps
  BY <1>1 DEF CameraInit, Apps
<1>3. app.current = NoId /\ app.starting = NoId /\ app.tracks = {}
  BY DEF CameraInit
<1> QED BY <1>2, <1>3, SteadyOff DEF CameraInv, Held, Unwatched

(* What is asked in calm use is asked when nothing is in progress.         *)
LEMMA AskedInCalm ==
    ASSUME MayAct, patient
    PROVE  /\ app.starting = NoId /\ app.stop = NoId /\ app.leaving = "no"
           /\ \A m \in Monitors : app.tick[m] = "idle"
           /\ app.bound = app.session /\ app.checked = app.session
BY DEF MayAct, Settled, Rendered

LEMMA SwitchKeeps ==
    ASSUME CameraInv, NEW outcome,
           ToggleOff(outcome) \/ \E m \in Monitors : ToggleOn(m, outcome)
    PROVE  CameraInv'
<1> USE DEF CameraInv
<1>1. ASSUME NEW m \in Monitors, ToggleOn(m, outcome) PROVE CameraInv'
  <2>1. PICK on, b : /\ on = [app EXCEPT !.owner = app.bound.id, !.enabled = TRUE, !.status = "watching"]
                     /\ b = RenderApp(on, outcome)
    OBVIOUS
  <2>2. /\ MayAct /\ ~app.enabled /\ app.bound.id # NoId /\ patient' = patient
        /\ patient => app.bound.live
        /\ app' = IF Busy(b) THEN b ELSE [b EXCEPT !.starting = m, !.watched[m] = app.bound.id]
    BY <1>1, <2>1 DEF ToggleOn, Start
  <2>3. app.bound.id \in Joinable \cup {NoId} /\ app.bound \in Shown
    BY DEF Apps, Shown
  <2>4. PICK id \in Joinable \cup {NoId} : id = app.bound.id
    BY <2>3
  <2>5. on = [app EXCEPT !.owner = id, !.enabled = TRUE, !.status = "watching"]
    BY <2>1, <2>4
  <2>6. /\ on \in Apps /\ on.current = app.current /\ on.starting = app.starting
        /\ on.tracks = app.tracks /\ on.session = app.session /\ on.owner = id /\ on.enabled
        /\ on.tick = app.tick /\ on.stop = app.stop /\ on.leaving = app.leaving
    BY <2>5 DEF Apps
  <2>7. b \in Apps /\ Held(b)
    BY <2>1, <2>6, RenderKeeps DEF Keeps, Held
  <2>8. PICK c : c = [b EXCEPT !.starting = m, !.watched[m] = id]
    OBVIOUS
  <2>9. PICK watched : watched = [b.watched EXCEPT ![m] = id]
    OBVIOUS
  <2>10. watched \in [Monitors -> Joinable \cup {NoId}] /\ watched[m] = id
    BY <2>7, <2>9 DEF Apps
  <2>11. c = [b EXCEPT !.starting = m, !.watched = watched]
    BY <2>7, <2>8, <2>9 DEF Apps
  <2>12. /\ c \in Apps /\ c.current = b.current /\ c.starting = m /\ c.tracks = b.tracks
         /\ c.watched = watched /\ c.session = b.session /\ c.checked = b.checked
         /\ c.owner = b.owner /\ c.enabled = b.enabled /\ c.tick = b.tick /\ c.stop = b.stop
         /\ c.leaving = b.leaving
    BY <2>7, <2>10, <2>11 DEF Apps
  <2>13. app' = IF Busy(b) THEN b ELSE c
    BY <2>2, <2>4, <2>8
  <2>14. app' \in Apps /\ Held(app')
    BY <2>7, <2>12, <2>13 DEF Busy, Held
  <2>15. ASSUME patient PROVE Steady(app')
    <3>1. /\ app.starting = NoId /\ app.stop = NoId /\ app.leaving = "no"
          /\ \A k \in Monitors : app.tick[k] = "idle"
          /\ app.bound = app.session
      BY <2>2, <2>15, AskedInCalm
    <3>2. app.current = NoId
      BY <2>2, <2>15 DEF Steady, Watches
    <3>3. id = app.session.id /\ app.session.live /\ app.session \in Shown
      BY <2>2, <2>3, <2>4, <2>15, <3>1
    <3>4. app.session = [id |-> id, live |-> TRUE]
      BY <3>3 DEF Shown
    <3>5. ~Foreign(on)
      BY <2>6, <3>3 DEF Foreign
    <3>6. b = [on EXCEPT !.bound = on.session, !.checked = on.session]
      BY <2>1, <3>5 DEF RenderApp
    <3>7. /\ b.current = NoId /\ b.starting = NoId /\ b.session = app.session
          /\ b.checked = app.session /\ b.owner = id /\ b.enabled
          /\ b.tick = app.tick /\ b.stop = NoId /\ b.leaving = "no"
      BY <2>6, <3>1, <3>2, <3>6 DEF Apps
    <3>8. app' = c
      BY <2>13, <3>7 DEF Busy
    <3>9. id # NoId
      BY <2>2, <2>4
    <3>10. Watches(c, m)
      BY <2>10, <2>12, <3>4, <3>7, <3>9 DEF Watches
    <3>11. c.current = NoId /\ c.stop = NoId /\ c.leaving = "no"
      BY <2>12, <3>7
    <3>12. \A k \in Monitors : c.tick[k] = "idle"
      BY <2>12, <3>1, <3>7
    <3>13. c.starting = m /\ c.checked = c.session
      BY <2>12, <3>7
    <3> QED BY <3>8, <3>10, <3>11, <3>12, <3>13 DEF Steady
  <2> QED BY <2>2, <2>14, <2>15
<1>2. CASE ToggleOff(outcome)
  <2>1. PICK b : b = SwitchedOff(app, "off")
    OBVIOUS
  <2>2. MayAct /\ app' = Stop(b, "toggle", outcome) /\ patient' = patient
    BY <1>2, <2>1 DEF ToggleOff
  <2>3. Keeps(app, b) /\ b.stop = app.stop /\ b.starting = app.starting
    BY <2>1, ErrorKeeps DEF SwitchedOff, Apps
  <2>4. "toggle" \in Waiters
    BY DEF Waiters
  <2>5. /\ Keeps(b, app')
        /\ b.stop = NoId /\ b.starting = NoId => Unwatched(app')
    BY <2>2, <2>3, <2>4, StopKeeps DEF Keeps
  <2>6. app' \in Apps /\ Held(app')
    BY <2>3, <2>5 DEF Keeps
  <2>7. patient => Unwatched(app')
    BY <2>2, <2>3, <2>5, AskedInCalm
  <2> QED BY <2>2, <2>6, <2>7, SteadyOff
<1> QED BY <1>1, <1>2

LEMMA DeviceKeeps ==
    ASSUME CameraInv, NEW outcome,
           StartGranted \/ StartReady \/ StartFails(outcome) \/ DeviceLost
    PROVE  CameraInv'
<1> USE DEF CameraInv
<1>0. NoId \notin Monitors
  BY CameraAssumption
<1>1. CASE StartGranted
  <2>1. app.starting # NoId /\ app' = [app EXCEPT !.tracks = @ \cup {app.starting}] /\ patient' = patient
    BY <1>1 DEF StartGranted
  <2>2. app.starting \in Monitors
    BY <2>1 DEF Apps
  <2>3. /\ app' \in Apps /\ app'.tracks = app.tracks \cup {app.starting}
        /\ app'.current = app.current /\ app'.starting = app.starting
        /\ app'.enabled = app.enabled /\ app'.owner = app.owner /\ app'.watched = app.watched
        /\ app'.checked = app.checked /\ app'.session = app.session /\ app'.tick = app.tick
        /\ app'.stop = app.stop /\ app'.leaving = app.leaving
    BY <2>1, <2>2 DEF Apps
  <2>4. Held(app')
    BY <2>3 DEF Held
  <2>5. patient => Steady(app')
    BY <2>3 DEF Steady, Watches, Unwatched
  <2> QED BY <2>1, <2>3, <2>4, <2>5
<1>2. CASE StartReady
  <2>1. /\ app.starting \in app.tracks /\ patient' = patient
        /\ app' = [app EXCEPT !.current = app.starting, !.starting = NoId]
    BY <1>2 DEF StartReady
  <2>2. app.starting \in Monitors
    BY <2>1 DEF Apps
  <2>3. /\ app' \in Apps /\ app'.tracks = app.tracks
        /\ app'.current = app.starting /\ app'.starting = NoId
        /\ app'.enabled = app.enabled /\ app'.owner = app.owner /\ app'.watched = app.watched
        /\ app'.checked = app.checked /\ app'.session = app.session
        /\ app'.stop = app.stop /\ app'.leaving = app.leaving
    BY <2>1, <2>2 DEF Apps
  <2>4. Held(app')
    BY <1>0, <2>2, <2>3 DEF Held, Apps
  <2>5. patient => Steady(app')
    BY <1>0, <2>2, <2>3 DEF Steady, Watches, Unwatched
  <2> QED BY <2>1, <2>3, <2>4, <2>5
<1>3. CASE StartFails(outcome)
  <2>1. PICK b : b = [app EXCEPT !.tracks = @ \ {app.starting}, !.starting = NoId]
    OBVIOUS
  <2>2. app.starting # NoId /\ app' = OnError(b, outcome) /\ patient' = patient
    BY <1>3, <2>1 DEF StartFails
  <2>3. /\ b \in Apps /\ b.tracks = app.tracks \ {app.starting} /\ b.current = app.current
        /\ b.starting = NoId
    BY <2>1 DEF Apps
  <2>4. app.current = NoId /\ Held(b) /\ Unwatched(b)
    BY <2>2, <2>3 DEF Held, Unwatched
  <2>5. Keeps(b, app')
    BY <2>2, <2>3, ErrorKeeps
  <2> QED BY <2>2, <2>4, <2>5, SteadyOff DEF Keeps
<1>4. CASE DeviceLost
  <2>1. app.current # NoId /\ app' = Stop(app, "lost", "nothing") /\ patient' = patient
    BY <1>4 DEF DeviceLost
  <2>2. "lost" \in Waiters
    BY DEF Waiters
  <2>3. /\ Keeps(app, app')
        /\ app.stop = NoId /\ app.starting = NoId => Unwatched(app')
    BY <2>1, <2>2, StopKeeps
  <2>4. app.starting = NoId /\ (patient => app.stop = NoId)
    BY <2>1 DEF Held, Steady, Unwatched
  <2> QED BY <2>1, <2>3, <2>4, SteadyOff DEF Keeps
<1> QED BY <1>1, <1>2, <1>3, <1>4

(* The tick of a monitor, active or not any more: no start is in progress. *)
Ticked(a, b) ==
    /\ b \in Apps /\ b.current = a.current /\ b.starting = a.starting /\ b.tracks = a.tracks
    /\ b.enabled = a.enabled /\ b.owner = a.owner /\ b.watched = a.watched
    /\ b.checked = a.checked /\ b.session = a.session /\ b.stop = a.stop /\ b.leaving = a.leaving

LEMMA TickSteady ==
    ASSUME NEW a \in Apps, NEW m \in Monitors, a.tick[m] # "idle" \/ m = a.current,
           Held(a), NEW b, Ticked(a, b)
    PROVE  Held(b) /\ (Steady(a) => Steady(b) /\ b.starting = NoId)
<1>1. Steady(a) => a.starting = NoId
  BY CameraAssumption DEF Steady, Held
<1> QED BY <1>1 DEF Ticked, Steady, Held, Watches, Unwatched

LEMMA TickKeeps ==
    ASSUME CameraInv, NEW m \in Monitors, NEW outcome, NEW found \in BOOLEAN,
           TickBegins(m) \/ TickObserves(m, found) \/ TickPosts(m, outcome) \/ TickFails(m, outcome)
    PROVE  CameraInv'
<1> USE DEF CameraInv
<1>1. ASSUME NEW at \in {"idle", "analyzing", "posting", "stopping"},
             NEW b, b = [app EXCEPT !.tick[m] = at]
      PROVE  Ticked(app, b)
  <2>1. PICK ticks : ticks = [app.tick EXCEPT ![m] = at]
    OBVIOUS
  <2>2. ticks \in [Monitors -> {"idle", "analyzing", "posting", "stopping"}]
    BY <2>1 DEF Apps
  <2>3. b = [app EXCEPT !.tick = ticks]
    BY <1>1, <2>1
  <2> QED BY <2>2, <2>3 DEF Apps, Ticked
<1>2. CASE TickBegins(m)
  <2>1. m = app.current /\ app' = [app EXCEPT !.tick[m] = "analyzing"] /\ patient' = patient
    BY <1>2 DEF TickBegins
  <2>2. Ticked(app, app')
    BY <1>1, <2>1
  <2> QED BY <2>1, <2>2, TickSteady DEF Ticked
<1>3. CASE TickObserves(m, found)
  <2>1. PICK at \in {"idle", "posting"} : at = IF found THEN "posting" ELSE "idle"
    OBVIOUS
  <2>2. app.tick[m] # "idle" /\ app' = [app EXCEPT !.tick[m] = at] /\ patient' = patient
    BY <1>3, <2>1 DEF TickObserves
  <2>3. Ticked(app, app')
    BY <1>1, <2>2
  <2> QED BY <2>2, <2>3, TickSteady DEF Ticked
<1>4. CASE TickPosts(m, outcome)
  <2>1. PICK b : b = [app EXCEPT !.tick[m] = "idle"]
    OBVIOUS
  <2>2. PICK c : c = [b EXCEPT !.prompt = app.watched[m]]
    OBVIOUS
  <2>3. app.tick[m] # "idle" /\ app' = RenderApp(c, outcome) /\ patient' = patient
    BY <1>4, <2>1, <2>2 DEF TickPosts
  <2>4. Ticked(app, b)
    BY <1>1, <2>1
  <2>5. Ticked(app, c)
    <3>1. app.watched[m] \in Joinable \cup {NoId}
      BY DEF Apps
    <3> QED BY <2>2, <2>4, <3>1 DEF Apps, Ticked
  <2>6. c \in Apps /\ Held(c) /\ (patient => Steady(c))
    BY <2>3, <2>5, TickSteady DEF Ticked
  <2> QED BY <2>3, <2>6, RenderKeeps, RenderSteady DEF Keeps
<1>5. CASE TickFails(m, outcome)
  <2>1. PICK b : b = [app EXCEPT !.tick[m] = "stopping"]
    OBVIOUS
  <2>2. app.tick[m] # "idle" /\ app' = Stop(b, m, outcome) /\ patient' = patient
    BY <1>5, <2>1 DEF TickFails
  <2>3. Ticked(app, b)
    BY <1>1, <2>1
  <2>4. b \in Apps /\ Held(b) /\ (patient => Steady(b) /\ b.starting = NoId)
    BY <2>2, <2>3, TickSteady DEF Ticked
  <2>5. /\ Keeps(b, app')
        /\ b.stop = NoId /\ b.starting = NoId => Unwatched(app')
    BY <2>2, <2>4, StopKeeps DEF Waiters
  <2>6. patient => Unwatched(app')
    BY <2>4, <2>5 DEF Keeps, Steady
  <2> QED BY <2>2, <2>4, <2>5, <2>6, SteadyOff DEF Keeps
<1> QED BY <1>2, <1>3, <1>4, <1>5

LEMMA SettleKeeps ==
    ASSUME CameraInv, NEW ok, NEW outcome, StopSettles(ok, outcome)
    PROVE  CameraInv'
<1> USE DEF CameraInv
<1>1. PICK b : b = [app EXCEPT !.stop = NoId, !.waiting = <<>>]
  OBVIOUS
<1>2. app.stop # NoId /\ app' = Resumed(b, ok, outcome) /\ patient' = patient
  BY <1>1 DEF StopSettles
<1>3. /\ b \in Apps /\ b.current = app.current /\ b.starting = app.starting
      /\ b.tracks = app.tracks
  <2>1. <<>> \in Seq(Waiters)
    BY EmptySeq
  <2> QED BY <1>1, <2>1 DEF Apps
<1>4. Keeps(b, app')
  BY <1>2, <1>3, ResumedKeeps
<1>5. patient => Unwatched(app')
  BY <1>2, <1>3, <1>4 DEF Steady, Unwatched, Keeps
<1>6. Held(b)
  BY <1>3 DEF Held
<1> QED BY <1>2, <1>4, <1>5, <1>6, SteadyOff DEF Keeps

-----------------------------------------------------------------------------
(* Another session becomes the active one, or the active one is over.      *)
LEMMA SessionKeeps ==
    ASSUME CameraInv, NEW outcome,
           (\E s \in Joinable : Join(s)) \/ FindOver \/ SessionEnded(outcome) \/ Rerender(outcome) \/ Repaint
    PROVE  CameraInv'
<1> USE DEF CameraInv
<1>1. ASSUME NEW session \in Shown, NEW b, b = [app EXCEPT !.session = session]
      PROVE  /\ b \in Apps /\ Held(b) /\ b.session = session /\ b.checked = app.checked
             /\ b.current = app.current /\ b.starting = app.starting /\ b.enabled = app.enabled
             /\ b.owner = app.owner /\ b.watched = app.watched /\ b.tick = app.tick
             /\ b.stop = app.stop /\ b.leaving = app.leaving
  BY <1>1 DEF Apps, Held
<1>2. PICK over : over = [app.session EXCEPT !.live = FALSE]
  OBVIOUS
<1>3. over \in Shown /\ ~over.live /\ over.id = app.session.id
  BY <1>2 DEF Apps, Shown
<1>4. ASSUME NEW s \in Joinable, Join(s) PROVE CameraInv'
  <2>1. PICK session : session = [id |-> s, live |-> TRUE]
    OBVIOUS
  <2>2. session \in Shown
    BY <2>1 DEF Shown
  <2>3. MayAct /\ app' = [app EXCEPT !.session = session] /\ patient' = patient
    BY <1>4, <2>1 DEF Join
  <2>4. ASSUME patient PROVE Steady(app')
    <3>1. app.starting = NoId /\ app.stop = NoId /\ app.leaving = "no"
          /\ app.checked = app.session
      BY <2>3, <2>4, AskedInCalm
    <3>2. app.current # NoId => Watches(app, app.current)
      BY <2>4 DEF Steady
    <3> QED BY <1>1, <2>2, <2>3, <3>1, <3>2 DEF Steady, Watches
  <2> QED BY <1>1, <2>2, <2>3, <2>4
<1>5. CASE FindOver
  <2>1. MayAct /\ app.session.live /\ app' = [app EXCEPT !.session = over] /\ patient' = patient
    BY <1>2, <1>5 DEF FindOver
  <2>2. ASSUME patient PROVE Steady(app')
    <3>1. app.starting = NoId /\ app.stop = NoId /\ app.leaving = "no"
          /\ app.checked = app.session
      BY <2>1, <2>2, AskedInCalm
    <3>2. app.current # NoId => Watches(app, app.current)
      BY <2>2 DEF Steady
    <3>3. app.session # over
      BY <1>3, <2>1
    <3> QED BY <1>1, <1>3, <2>1, <3>1, <3>2, <3>3 DEF Steady, Watches
  <2> QED BY <1>1, <1>3, <2>1, <2>2
<1>6. CASE SessionEnded(outcome)
  <2>1. PICK b : b = [app EXCEPT !.session = over]
    OBVIOUS
  <2>2. MayAct /\ app.session.live /\ app' = RenderApp(b, outcome) /\ patient' = patient
    BY <1>2, <1>6, <2>1 DEF SessionEnded
  <2>3. b \in Apps /\ Held(b)
    BY <1>1, <1>3, <2>1
  <2>4. ASSUME patient PROVE Steady(b)
    <3>1. app.starting = NoId /\ app.stop = NoId /\ app.leaving = "no"
          /\ app.checked = app.session
      BY <2>2, <2>4, AskedInCalm
    <3>2. app.current # NoId => Watches(app, app.current)
      BY <2>4 DEF Steady
    <3>3. app.session # over
      BY <1>3, <2>2
    <3> QED BY <1>1, <1>3, <2>1, <3>1, <3>2, <3>3 DEF Steady, Watches
  <2> QED BY <2>2, <2>3, <2>4, RenderKeeps, RenderSteady DEF Keeps
<1>7. CASE Rerender(outcome)
  <2>1. app' = RenderApp(app, outcome) /\ patient' = patient
    BY <1>7 DEF Rerender
  <2> QED BY <2>1, RenderKeeps, RenderSteady DEF Keeps
<1>8. CASE Repaint
  <2>1. app' = [app EXCEPT !.bound = app.session] /\ patient' = patient
    BY <1>8 DEF Repaint
  <2>2. Ticked(app, app') /\ app'.tick = app.tick
    BY <2>1 DEF Apps, Ticked
  <2> QED BY <2>1, <2>2 DEF Ticked, Held, Steady, Watches, Unwatched
<1> QED BY <1>4, <1>5, <1>6, <1>7, <1>8

LEMMA PersonKeeps ==
    ASSUME CameraInv, NEW outcome,
           LogoutClick(outcome) \/ LogoutDone(outcome) \/ LogoutFails \/ Login
    PROVE  CameraInv'
<1> USE DEF CameraInv
<1>1. CASE LogoutClick(outcome)
  <2>1. PICK b : b = [app EXCEPT !.leaving = "stopping"]
    OBVIOUS
  <2>2. MayAct /\ app' = Stop(b, "logout", outcome) /\ patient' = patient
    BY <1>1, <2>1 DEF LogoutClick
  <2>3. /\ b \in Apps /\ b.current = app.current /\ b.starting = app.starting
        /\ b.tracks = app.tracks /\ b.stop = app.stop
    BY <2>1 DEF Apps
  <2>4. "logout" \in Waiters
    BY DEF Waiters
  <2>5. /\ Keeps(b, app')
        /\ b.stop = NoId /\ b.starting = NoId => Unwatched(app')
    BY <2>2, <2>3, <2>4, StopKeeps
  <2>6. patient => Unwatched(app')
    BY <2>2, <2>3, <2>5, AskedInCalm
  <2>7. Held(b)
    BY <2>3 DEF Held
  <2> QED BY <2>2, <2>5, <2>6, <2>7, SteadyOff DEF Keeps
<1>2. CASE LogoutDone(outcome)
  <2>1. PICK b : b = Reset([app EXCEPT !.user = FALSE, !.leaving = "no", !.session = NoSession])
    OBVIOUS
  <2>2. app.leaving = "calling" /\ app' = RenderApp(b, outcome) /\ patient' = patient
    BY <1>2, <2>1 DEF LogoutDone
  <2>3. /\ b \in Apps /\ b.current = app.current /\ b.starting = app.starting
        /\ b.tracks = app.tracks
    <3>1. NoSession \in Shown
      BY DEF NoSession, Shown
    <3>2. b = [app EXCEPT !.user = FALSE, !.leaving = "no", !.session = NoSession,
                          !.enabled = FALSE, !.status = "off", !.prompt = NoId]
      BY <2>1 DEF Reset, Apps
    <3> QED BY <3>1, <3>2 DEF Apps
  <2>4. Keeps(b, app') /\ Held(b)
    BY <2>2, <2>3, RenderKeeps DEF Held
  <2>5. patient => Unwatched(app')
    BY <2>2, <2>3, <2>4 DEF Steady, Unwatched, Keeps
  <2> QED BY <2>2, <2>4, <2>5, SteadyOff DEF Keeps
<1>3. CASE LogoutFails
  <2>1. app.leaving = "calling" /\ app' = [app EXCEPT !.leaving = "no"] /\ patient' = patient
    BY <1>3 DEF LogoutFails
  <2>2. /\ app' \in Apps /\ app'.current = app.current /\ app'.starting = app.starting
        /\ app'.tracks = app.tracks
    BY <2>1 DEF Apps
  <2>3. patient => Unwatched(app')
    BY <2>1, <2>2 DEF Steady, Unwatched
  <2> QED BY <2>1, <2>2, <2>3, SteadyOff DEF Held
<1>4. CASE Login
  <2>1. app' = [app EXCEPT !.user = TRUE] /\ patient' = patient
    BY <1>4 DEF Login
  <2>2. Ticked(app, app') /\ app'.tick = app.tick
    BY <2>1 DEF Apps, Ticked
  <2> QED BY <2>1, <2>2 DEF Ticked, Held, Steady, Watches, Unwatched
<1> QED BY <1>1, <1>2, <1>3, <1>4

LEMMA CameraStep == CameraInv /\ [CameraNext]_cameraVars => CameraInv'
<1> SUFFICES ASSUME CameraInv, [CameraNext]_cameraVars PROVE CameraInv'
  OBVIOUS
<1>1. CASE UNCHANGED cameraVars
  BY <1>1 DEF cameraVars, CameraInv
<1>2. ASSUME NEW outcome \in Outcomes,
             \/ ToggleOff(outcome) \/ StartFails(outcome)
             \/ SessionEnded(outcome) \/ Rerender(outcome)
             \/ LogoutClick(outcome) \/ LogoutDone(outcome)
             \/ \E m \in Monitors :
                   ToggleOn(m, outcome) \/ TickPosts(m, outcome) \/ TickFails(m, outcome)
             \/ \E ok \in BOOLEAN : StopSettles(ok, outcome)
      PROVE  CameraInv'
  BY <1>2, SwitchKeeps, DeviceKeeps, SessionKeeps, PersonKeeps, TickKeeps, SettleKeeps
<1>3. ASSUME NEW m \in Monitors, TickBegins(m) \/ \E found \in BOOLEAN : TickObserves(m, found)
      PROVE  CameraInv'
  BY <1>3, TickKeeps
<1>4. ASSUME \/ StartGranted \/ StartReady \/ DeviceLost \/ FindOver \/ Repaint \/ LogoutFails
             \/ Login \/ \E s \in Joinable : Join(s)
      PROVE  CameraInv'
  BY <1>4, DeviceKeeps, SessionKeeps, PersonKeeps
<1> QED BY <1>1, <1>2, <1>3, <1>4 DEF CameraNext

(* However the switch is used and whatever fails, at most one camera is    *)
(* open, and a handler can still close it; for any starts and sessions.    *)
THEOREM NoStreamStrays == CameraSpec => []NoStrayStream
<1>1. CameraInv => NoStrayStream
  <2> SUFFICES ASSUME CameraInv PROVE NoStrayStream
    OBVIOUS
  <2>1. PICK tracks, m, n : /\ tracks = app.tracks /\ tracks \in SUBSET Monitors
                            /\ tracks \subseteq {m, n} /\ (m = NoId \/ n = NoId)
    BY DEF CameraInv, Held, Apps
  <2>2. tracks = {} \/ \E k : tracks = {k}
    BY <2>1, CameraAssumption
  <2>3. Cardinality(tracks) <= 1
    <3>1. CASE tracks = {}
      BY <3>1, FS_EmptySet
    <3>2. CASE \E k : tracks = {k}
      <4>1. Cardinality(tracks) = 1
        BY <3>2, FS_Singleton
      <4> QED BY <4>1
    <3> QED BY <2>2, <3>1, <3>2
  <2> QED BY <2>1, <2>3 DEF NoStrayStream, CameraInv, Held
<1> QED BY <1>1, CameraStart, CameraStep, PTL DEF CameraSpec

(* In calm use a camera that watches is shown to, for the session it was   *)
(* started for.                                                            *)
THEOREM WatchingCameraIsShown == CameraSpec => []WatchingIsShown
<1>1. CameraInv => WatchingIsShown
  BY DEF CameraInv, Steady, Watches, WatchingIsShown
<1> QED BY <1>1, CameraStart, CameraStep, PTL DEF CameraSpec

-----------------------------------------------------------------------------
(* The history only grows, and the program stays the same.                 *)
Extended ==
    /\ tool' = tool /\ Len(samples) \in Nat /\ Len(samples)' \in Nat
    /\ Len(samples) <= Len(samples)'
    /\ \A i \in 1..Len(samples) : samples'[i] = samples[i]

LEMMA Grown ==
    ASSUME CaptureTyped, tool' = tool, NEW r \in Samples, samples' = Append(samples, r)
    PROVE  /\ Extended /\ samples' \in Seq(Samples)
           /\ Len(samples)' = Len(samples) + 1 /\ samples'[Len(samples) + 1] = r
<1>1. samples \in Seq(Samples)
  BY DEF CaptureTyped
<1>2. /\ Append(samples, r) \in Seq(Samples) /\ Len(Append(samples, r)) = Len(samples) + 1
      /\ \A i \in 1..Len(samples) : Append(samples, r)[i] = samples[i]
      /\ Append(samples, r)[Len(samples) + 1] = r
  BY <1>1, AppendProperties
<1>3. Len(samples) \in Nat
  BY <1>1, LenProperties
<1> QED BY <1>2, <1>3 DEF Extended

LEMMA Same ==
    ASSUME CaptureTyped, tool' = tool, samples' = samples
    PROVE  Extended
BY LenProperties DEF CaptureTyped, Extended

(* The durations of the program that runs do not change.                   *)
LEMMA Durations ==
    ASSUME CaptureTyped
    PROVE  /\ Shortest \in Nat \ {0} /\ LongestGap \in Nat \ {0} /\ Bridge \in Nat /\ Spacing \in Nat
           /\ tool.watches = "student" =>
                /\ Shortest = MinDuration /\ LongestGap = MaxGap
                /\ Bridge = MergeGap /\ Spacing = MergeGap
           /\ tool.watches = "presenter" =>
                /\ Shortest = VisionMinDuration /\ LongestGap = VisionMaxGap
                /\ Bridge = 0 /\ Spacing = Cooldown
           /\ tool.watches = "desktop" =>
                /\ Shortest = TrackerMinDuration /\ LongestGap = TrackerMaxGap
                /\ Bridge = 0 /\ Spacing = 0
BY PolicyAssumption, VisionAssumption, TrackerAssumption
   DEF CaptureTyped, Tools, Shortest, LongestGap, Bridge, Spacing, OfWorker

(* What is known of a sample stays so.                                     *)
LEMMA Kept ==
    ASSUME Extended
    PROVE  /\ LongestGap' = LongestGap /\ Shortest' = Shortest
           /\ Bridge' = Bridge /\ Spacing' = Spacing
           /\ \A i \in Index : i \in Index'
           /\ \A i \in Index : At(i)' = At(i)
           /\ \A l : \A i \in Index : On(i, l)' <=> On(i, l)
           /\ \A i, j \in Index : Joined(i, j)' <=> Joined(i, j)
           /\ \A l : \A i, j \in Index : Bridged(l, i, j)' <=> Bridged(l, i, j)
           /\ \A l : \A i, j \in Index : SameUntil(l, i, j)' <=> SameUntil(l, i, j)
<1>1. /\ LongestGap' = LongestGap /\ Shortest' = Shortest
      /\ Bridge' = Bridge /\ Spacing' = Spacing
  BY DEF Extended, LongestGap, Shortest, Bridge, Spacing, OfWorker
<1>2. \A i \in Index : i \in Index' /\ samples'[i] = samples[i]
  BY DEF Extended, Index
<1>3. \A i \in Index : At(i)' = At(i)
  BY <1>2 DEF At
<1>4. \A l : \A i \in Index : On(i, l)' <=> On(i, l)
  BY <1>2 DEF On
<1>5. \A i, j \in Index : \A k \in i..j : k \in Index /\ (k > i => k - 1 \in Index)
  BY DEF Index, Extended
<1>6. \A i, j \in Index : Joined(i, j)' <=> Joined(i, j)
  <2> SUFFICES ASSUME NEW i \in Index, NEW j \in Index PROVE Joined(i, j)' <=> Joined(i, j)
    OBVIOUS
  <2>1. (\A k \in i..j : samples[k].shown)' <=> (\A k \in i..j : samples[k].shown)
    BY <1>2, <1>5
  <2>2. \A k \in (i + 1)..j : k \in i..j /\ k > i
    BY DEF Index
  <2>3. \A k \in (i + 1)..j : k \in Index /\ k - 1 \in Index
    BY <2>2, <1>5
  <2>4. \A k \in (i + 1)..j : At(k)' = At(k) /\ At(k - 1)' = At(k - 1)
    BY <2>3, <1>3
  <2> QED BY <2>1, <2>4, <1>1 DEF Joined
<1>7. \A l : \A i, j \in Index : Bridged(l, i, j)' <=> Bridged(l, i, j)
  <2> SUFFICES ASSUME NEW i \in Index, NEW j \in Index, NEW l
               PROVE  Bridged(l, i, j)' <=> Bridged(l, i, j)
    OBVIOUS
  <2>1. \A p, q \in i..j : \A k \in p..(q - 1) : k \in i..j
    BY DEF Index
  <2>2. \A k \in i..j : At(k)' = At(k) /\ (On(k, l)' <=> On(k, l))
    BY <1>3, <1>4, <1>5
  <2> QED BY <2>1, <2>2, <1>1 DEF Bridged
<1>8. \A l : \A i, j \in Index : SameUntil(l, i, j)' <=> SameUntil(l, i, j)
  BY <1>4, <1>5, <1>6 DEF SameUntil
<1> QED BY <1>1, <1>2, <1>3, <1>4, <1>6, <1>7, <1>8

(* A report stays grounded: what grounds it is in the past.                *)
LEMMA GroundedKept ==
    ASSUME Extended, phase = "running", NEW e, Grounded(e)
    PROVE  Grounded(e)'
<1>1. PICK i \in Index, j \in Index : Backed(e, i, j)
  BY DEF Grounded
<1>2. \A p, q \in i..j : \A k \in p..(q - 1) : k \in Index
  BY DEF Index
<1>3. i \in Index' /\ j \in Index'
  BY Kept, <1>1
<1>4. OverAfter(e, j) \/ LongEnoughAt(e, i, j)
  BY <1>1 DEF Backed, OpenAtEnd
<1>5. OverAfter(e, j) => OverAfter(e, j)'
  <2>1. j < Len(samples) => j + 1 \in Index
    BY DEF Index, Extended
  <2> QED BY <2>1, Kept DEF OverAfter, Extended, At, On, Index
<1>6. LongEnoughAt(e, i, j) => LongEnoughAt(e, i, j)'
  <2>1. i < j => j - 1 \in Index
    BY DEF Index, Extended
  <2> QED BY <2>1, Kept DEF LongEnoughAt, Extended
<1>7. Bridged(e.label, i, j)' <=> Bridged(e.label, i, j)
  BY Kept, <1>1
<1>8. Backed(e, i, j)'
  <2>1. /\ (i <= j /\ At(i) = e.start /\ On(i, e.label) /\ On(j, e.label) /\ Joined(i, j))'
    BY <1>1, Kept DEF Backed
  <2>2. Bridged(e.label, i, j)
    BY <1>1 DEF Backed, Bridged
  <2> QED BY <2>1, <2>2, <1>4, <1>5, <1>6, <1>7 DEF Backed, Bridged
<1> QED BY <1>3, <1>8, Kept DEF Grounded

(* The student's worker: what has begun goes on over joined samples, or    *)
(* pauses since the first sample that did not show it.                     *)
KeptOf(w, now) == IF StudentGap(w, now) THEN [l \in Labels |-> Free] ELSE w.active

(* What a worker that is in step with its samples gives.                   *)
LEMMA SteadyFacts ==
    ASSUME CaptureTyped, NEW previous, InStep(previous)
    PROVE  /\ Len(samples) \in Nat /\ (samples = <<>> <=> Len(samples) = 0)
           /\ \A i \in Index : At(i) \in Nat /\ samples[i] \in Samples
           /\ samples # <<>> => Len(samples) \in Index /\ previous = At(Len(samples)) /\ previous \in Nat
           /\ previous = NoTime <=> samples = <<>>
           /\ \A i \in Index : At(i) <= At(Len(samples))
<1>1. samples \in Seq(Samples) /\ Len(samples) \in Nat
  BY LenProperties DEF CaptureTyped
<1>2. samples = <<>> <=> Len(samples) = 0
  BY <1>1, EmptySeq
<1>3. \A i \in Index : samples[i] \in Samples
  BY <1>1, ElementOfSeq DEF Index
<1>4. \A i \in Index : At(i) \in Nat
  BY <1>3 DEF At, Samples
<1>5. samples # <<>> => Len(samples) \in Index
  BY <1>1, <1>2 DEF Index
<1>6. \A i \in Index : At(i) <= At(Len(samples))
  <2> SUFFICES ASSUME NEW i \in Index PROVE At(i) <= At(Len(samples))
    OBVIOUS
  <2>1. Len(samples) \in Index /\ (i < Len(samples) \/ i = Len(samples))
    BY <1>1 DEF Index
  <2> QED BY <2>1, <1>4 DEF InStep
<1> QED BY <1>1, <1>2, <1>3, <1>4, <1>5, <1>6 DEF InStep, NoTime

LEMMA StudentTimes ==
    ASSUME CaptureTyped, StudentRuns, tool.watches = "student", NEW now \in Nat, ~StudentSkips(student, now),
           InTime(now)
    PROVE  /\ \A i \in Index : At(i) < now
           /\ StudentGap(student, now) <=> (samples # <<>> /\ now - At(Len(samples)) > MaxGap)
<1>1. /\ \A i \in Index : At(i) \in Nat /\ At(i) <= At(Len(samples)) /\ samples # <<>>
      /\ samples # <<>> => student.previous = At(Len(samples)) /\ Len(samples) \in Index
      /\ student.previous = NoTime <=> samples = <<>>
  BY SteadyFacts DEF StudentRuns, Index
<1>2. samples # <<>> => At(Len(samples)) < now
  BY <1>1 DEF InTime, Previous
<1> QED BY <1>1, <1>2 DEF StudentGap

-----------------------------------------------------------------------------
LEMMA PausedGrounded ==
    ASSUME CaptureTyped, NEW l \in Labels, NEW c \in Candidates, Rooted(c, l), c.gap # NoTime,
           c.gap - c.begin >= Shortest,
           \A i \in Index : samples[i].shown
    PROVE  Grounded([label |-> l, start |-> c.begin, end |-> c.gap])
<1> DEFINE e == [label |-> l, start |-> c.begin, end |-> c.gap]
<1>1. PICK i \in Index, j \in Index :
         /\ i <= j /\ At(i) = c.begin /\ On(i, l) /\ On(j, l)
         /\ Joined(i, Len(samples)) /\ Bridged(l, i, j)
         /\ j < Len(samples) /\ At(j + 1) = c.gap
         /\ \A k \in (j + 1)..Len(samples) : ~On(k, l)
  BY DEF Rooted
<1>2. Len(samples) \in Nat /\ j + 1 \in Index /\ j + 1 \in (j + 1)..Len(samples)
  BY <1>1, LenProperties DEF CaptureTyped, Index
<1>3. Joined(i, j)
  BY <1>1, <1>2 DEF Joined, Index
<1>4. At(j + 1) - At(j) <= LongestGap
  <2>1. j + 1 \in (i + 1)..Len(samples) /\ (j + 1) - 1 = j
    BY <1>1, <1>2 DEF Index
  <2> QED BY <1>1, <2>1 DEF Joined
<1>5. OverAfter(e, j)
  BY <1>1, <1>2, <1>4 DEF OverAfter
<1>6. Backed(e, i, j)
  BY <1>1, <1>3, <1>5 DEF Backed, Bridged
<1> QED BY <1>6 DEF Grounded

(* A new sample joins the ones before it unless a gap lies between.        *)
LEMMA Appended ==
    ASSUME CaptureTyped, tool' = tool, NEW r \in Samples, samples' = Append(samples, r),
           NEW n \in Nat, n = Len(samples)
    PROVE  /\ Extended /\ samples' \in Seq(Samples) /\ Len(samples)' = n + 1
           /\ (n + 1 \in Index)' /\ samples'[n + 1] = r /\ At(n + 1)' = r.t
           /\ \A i : (i \in Index)' <=> i \in Index \/ i = n + 1
           /\ \A l : On(n + 1, l)' <=> l \in r.on
           /\ Joined(n + 1, n + 1)' <=> r.shown
           /\ \A i \in Index :
                 Joined(i, n + 1)' <=> Joined(i, n) /\ r.shown /\ r.t - At(n) <= LongestGap
           /\ \A l : SameUntil(l, n + 1, n + 1)' <=> l \in r.on /\ r.shown
           /\ \A l : \A i \in Index :
                 SameUntil(l, i, n + 1)' <=>
                     SameUntil(l, i, n) /\ l \in r.on /\ r.shown /\ r.t - At(n) <= LongestGap
<1>1. /\ Extended /\ samples' \in Seq(Samples)
      /\ Len(samples)' = n + 1 /\ samples'[n + 1] = r
  BY Grown
<1>2. /\ (n + 1 \in Index)' /\ At(n + 1)' = r.t
      /\ \A i : (i \in Index)' <=> i \in Index \/ i = n + 1
      /\ \A l : On(n + 1, l)' <=> l \in r.on
  BY <1>1 DEF Index, At, On
<1>3. Joined(n + 1, n + 1)' <=> r.shown
  <2>1. \A k \in (n + 1)..(n + 1) : k = n + 1
    OBVIOUS
  <2>2. (n + 1) + 1 .. (n + 1) = {} /\ n + 1 \in (n + 1)..(n + 1)
    OBVIOUS
  <2> QED BY <1>1, <2>1, <2>2 DEF Joined
<1>4. \A i \in Index :
         Joined(i, n + 1)' <=> Joined(i, n) /\ r.shown /\ r.t - At(n) <= LongestGap
  <2> SUFFICES ASSUME NEW i \in Index
               PROVE  Joined(i, n + 1)' <=> Joined(i, n) /\ r.shown /\ r.t - At(n) <= LongestGap
    OBVIOUS
  <2>1. n \in Index /\ i \in Nat /\ i >= 1 /\ i <= n
    BY DEF Index
  <2>2. /\ \A k : k \in i..(n + 1) <=> k \in i..n \/ k = n + 1
        /\ \A k : k \in (i + 1)..(n + 1) <=> k \in (i + 1)..n \/ k = n + 1
        /\ (n + 1) - 1 = n
    BY <2>1
  <2>3. /\ Joined(i, n)' <=> Joined(i, n)
        /\ LongestGap' = LongestGap /\ At(n)' = At(n)
    BY <2>1, <1>1, Kept
  <2>4. Joined(i, n + 1)' <=> Joined(i, n)' /\ r.shown /\ At(n + 1)' - At(n)' <= LongestGap'
    BY <2>2, <1>1 DEF Joined
  <2> QED BY <2>3, <2>4, <1>2
<1>5. \A l : SameUntil(l, n + 1, n + 1)' <=> l \in r.on /\ r.shown
  <2>1. \A k : k \in (n + 1)..(n + 1) <=> k = n + 1
    OBVIOUS
  <2> QED BY <2>1, <1>2, <1>3 DEF SameUntil
<1>6. \A l : \A i \in Index :
         SameUntil(l, i, n + 1)' <=>
             SameUntil(l, i, n) /\ l \in r.on /\ r.shown /\ r.t - At(n) <= LongestGap
  <2> SUFFICES ASSUME NEW l, NEW i \in Index
               PROVE  SameUntil(l, i, n + 1)' <=>
                        SameUntil(l, i, n) /\ l \in r.on /\ r.shown /\ r.t - At(n) <= LongestGap
    OBVIOUS
  <2>1. n \in Index /\ i \in Nat /\ i >= 1 /\ i <= n
    BY DEF Index
  <2>2. \A k : k \in i..(n + 1) <=> k \in i..n \/ k = n + 1
    BY <2>1
  <2>3. \A k \in i..n : k \in Index
    BY <2>1 DEF Index
  <2>4. \A k \in i..n : On(k, l)' <=> On(k, l)
    BY <2>3, <1>1, Kept
  <2> QED BY <2>2, <2>4, <1>2, <1>4 DEF SameUntil
<1> QED BY <1>1, <1>2, <1>3, <1>4, <1>5, <1>6

(* One label's condition at a new sample.                                  *)
LEMMA ResumedRooted ==
    ASSUME CaptureTyped, tool' = tool, tool.watches = "student", NEW n \in Nat, n = Len(samples),
           NEW r \in Samples, samples' = Append(samples, r), r.shown,
           \A i \in Index : At(i) \in Nat /\ At(i) < r.t,
           \A i, j \in Index : i < j => At(i) < At(j),
           samples # <<>> => r.t - At(n) <= MaxGap,
           NEW l \in Labels, l \in r.on,
           NEW c \in Candidates, Rooted(c, l), c.begin # NoTime, ~Bridgeless(c, r.t)
    PROVE  Rooted([c EXCEPT !.gap = NoTime], l)'
<1>1. PICK i \in Index, j \in Index :
         /\ i <= j /\ At(i) = c.begin /\ On(i, l) /\ On(j, l)
         /\ Joined(i, n) /\ Bridged(l, i, j)
         /\ IF c.gap = NoTime THEN j = n
            ELSE /\ j < n /\ At(j + 1) = c.gap
                 /\ \A k \in (j + 1)..n : ~On(k, l)
  BY DEF Rooted
<1>2. n \in Index /\ samples # <<>> /\ i \in Nat /\ j \in Nat /\ j <= n /\ r.t \in Nat
  BY <1>1 DEF Index, Samples
<1>3. /\ Extended /\ Len(samples)' = n + 1 /\ (n + 1 \in Index)'
      /\ At(n + 1)' = r.t /\ On(n + 1, l)'
      /\ Joined(i, n + 1)'
      /\ LongestGap = MaxGap /\ Bridge = MergeGap
  BY <1>1, <1>2, Appended, Durations
<1>4. /\ (i \in Index)' /\ At(i)' = c.begin /\ On(i, l)' /\ Bridge' = MergeGap
      /\ \A k \in Index : At(k)' = At(k) /\ (On(k, l)' <=> On(k, l))
  BY <1>1, <1>3, Kept
<1>5. \A p \in (j + 1)..n : r.t - At(p) < MergeGap /\ ~On(p, l)
  <2> SUFFICES ASSUME NEW p \in (j + 1)..n PROVE r.t - At(p) < MergeGap /\ ~On(p, l)
    OBVIOUS
  <2>1. c.gap # NoTime /\ j + 1 \in Index /\ p \in Index /\ ~On(p, l) /\ c.gap = At(j + 1)
    BY <1>1, <1>2 DEF Index
  <2>2. MergeGap \in Nat
    BY PolicyAssumption
  <2>3. r.t - c.gap < MergeGap
    BY <2>1, <2>2, <1>2 DEF Bridgeless
  <2>4. j + 1 < p \/ j + 1 = p
    BY <1>2
  <2>5. At(j + 1) <= At(p)
    BY <2>1, <2>4
  <2>6. At(j + 1) \in Nat /\ At(p) \in Nat /\ r.t \in Nat /\ r.t - At(j + 1) < MergeGap
    BY <1>2, <2>1, <2>3
  <2>7. r.t - At(p) < MergeGap
    BY <2>2, <2>5, <2>6
  <2> QED BY <2>1, <2>7
<1>6. Bridged(l, i, n + 1)'
  <2> SUFFICES ASSUME NEW p \in i..(n + 1), NEW q \in i..(n + 1), p < q, On(q, l)',
                      \A k \in p..(q - 1) : ~On(k, l)'
               PROVE  At(q)' - At(p)' < MergeGap
    BY <1>4 DEF Bridged
  <2>1. p \in Index /\ p \in p..(q - 1) /\ ~On(p, l) /\ p # j
    <3>1. p \in Index /\ p \in p..(q - 1)
      BY <1>2 DEF Index
    <3> QED BY <3>1, <1>1, <1>4
  <2>2. CASE q \in i..j
    <3>1. q \in Index /\ p \in i..j /\ \A k \in p..(q - 1) : k \in Index
      BY <2>2, <1>2 DEF Index
    <3>2. On(q, l) /\ \A k \in p..(q - 1) : ~On(k, l)
      BY <3>1, <1>4
    <3> QED BY <3>1, <3>2, <2>2, <1>1, <1>3, <1>4, <2>1 DEF Bridged
  <2>3. CASE q \in (j + 1)..n
    <3>1. q \in Index
      BY <2>3, <1>2 DEF Index
    <3> QED BY <3>1, <2>3, <1>4, <1>5
  <2>4. CASE q = n + 1
    <3>1. p > j
      <4>1. p < j => j \in p..(q - 1)
        BY <2>4, <1>2 DEF Index
      <4> QED BY <4>1, <2>1, <1>1, <1>4, <1>2
    <3>2. p \in (j + 1)..n
      BY <3>1, <2>4, <1>2 DEF Index
    <3> QED BY <3>2, <1>5, <1>4, <1>3, <2>1, <2>4
  <2>5. q \in i..j \/ q \in (j + 1)..n \/ q = n + 1
    BY <1>1, <1>2
  <2> QED BY <2>2, <2>3, <2>4, <2>5
<1>7. [c EXCEPT !.gap = NoTime].begin = c.begin /\ [c EXCEPT !.gap = NoTime].gap = NoTime
  BY DEF Candidates
<1>8. i <= n + 1
  BY <1>1, <1>2
<1> QED BY <1>3, <1>4, <1>6, <1>7, <1>8 DEF Rooted

LEMMA BegunHere ==
    ASSUME CaptureTyped, tool' = tool, NEW n \in Nat, n = Len(samples),
           NEW r \in Samples, samples' = Append(samples, r), r.shown,
           NEW l \in Labels, l \in r.on
    PROVE  Rooted([begin |-> r.t, gap |-> NoTime], l)'
<1>1. /\ Len(samples)' = n + 1 /\ (n + 1 \in Index)' /\ At(n + 1)' = r.t /\ On(n + 1, l)'
      /\ Joined(n + 1, n + 1)'
  BY Appended
<1>2. Bridged(l, n + 1, n + 1)'
  BY DEF Bridged
<1> QED BY <1>1, <1>2 DEF Rooted

LEMMA Pausing ==
    ASSUME CaptureTyped, tool' = tool, tool.watches = "student", NEW n \in Nat, n = Len(samples),
           NEW r \in Samples, samples' = Append(samples, r), r.shown,
           samples # <<>> => r.t - At(n) <= MaxGap,
           NEW l \in Labels, l \notin r.on,
           NEW c \in Candidates, Rooted(c, l), c.begin # NoTime
    PROVE  Rooted(PausedAt(c, r.t), l)'
<1>1. PICK i \in Index, j \in Index :
         /\ i <= j /\ At(i) = c.begin /\ On(i, l) /\ On(j, l)
         /\ Joined(i, n) /\ Bridged(l, i, j)
         /\ IF c.gap = NoTime THEN j = n
            ELSE /\ j < n /\ At(j + 1) = c.gap
                 /\ \A k \in (j + 1)..n : ~On(k, l)
  BY DEF Rooted
<1>2. n \in Index /\ samples # <<>> /\ i \in Nat /\ j \in Nat /\ j <= n /\ r.t \in Nat
  BY <1>1 DEF Index, Samples
<1>3. /\ Extended /\ Len(samples)' = n + 1 /\ (n + 1 \in Index)'
      /\ At(n + 1)' = r.t /\ ~On(n + 1, l)'
      /\ Joined(i, n + 1)'
  BY <1>1, <1>2, Appended, Durations
<1>4. /\ (i \in Index)' /\ (j \in Index)' /\ At(i)' = c.begin /\ On(i, l)' /\ On(j, l)'
      /\ Bridged(l, i, j)'
      /\ \A k \in Index : At(k)' = At(k) /\ (On(k, l)' <=> On(k, l))
  BY <1>1, <1>3, Kept
<1>5. PICK d : d = PausedAt(c, r.t)
  OBVIOUS
<1>6. d.begin = c.begin /\ d.gap = (IF c.gap = NoTime THEN r.t ELSE c.gap) /\ d.gap # NoTime
  BY <1>2, <1>5 DEF PausedAt, Candidates, NoTime
<1>7. j < n + 1 /\ At(j + 1)' = d.gap /\ \A k \in (j + 1)..(n + 1) : ~On(k, l)'
  <2>1. CASE c.gap = NoTime
    <3>1. \A k \in (j + 1)..(n + 1) : k = n + 1
      BY <2>1, <1>1
    <3> QED BY <3>1, <2>1, <1>1, <1>2, <1>3, <1>6
  <2>2. CASE c.gap # NoTime
    <3>1. /\ j + 1 \in Index /\ \A k \in (j + 1)..(n + 1) : k = n + 1 \/ k \in (j + 1)..n
          /\ \A k \in (j + 1)..n : k \in Index
      BY <2>2, <1>1, <1>2 DEF Index
    <3> QED BY <3>1, <2>2, <1>1, <1>2, <1>3, <1>4, <1>6
  <2> QED BY <2>1, <2>2
<1>8. Rooted(d, l)'
  BY <1>1, <1>3, <1>4, <1>6, <1>7 DEF Rooted
<1> QED BY <1>5, <1>8

LEMMA FreeFacts ==
    /\ Free \in Candidates /\ Free.begin = NoTime /\ Free.gap = NoTime
    /\ \A l : Rooted(Free, l)
    /\ \A c \in Candidates : c.begin = NoTime /\ c.gap = NoTime => c = Free
BY DEF Free, Candidates, Times, Rooted

(* What the worker holds of a label before it judges the sample.           *)
Holding(c, l, r) ==
    /\ c \in Candidates /\ Rooted(c, l)
    /\ c.begin # NoTime => samples # <<>> /\ r.t - At(Len(samples)) <= MaxGap

LEMMA AdvancedRooted ==
    ASSUME CaptureTyped, tool' = tool, tool.watches = "student", NEW n \in Nat, n = Len(samples),
           NEW r \in Samples, samples' = Append(samples, r), r.shown,
           \A i \in Index : At(i) \in Nat /\ At(i) < r.t,
           \A i, j \in Index : i < j => At(i) < At(j),
           NEW l \in Labels, NEW c, Holding(c, l, r)
    PROVE  /\ Advanced(c, l \in r.on, r.t) \in Candidates
           /\ Rooted(Advanced(c, l \in r.on, r.t), l)'
<1>1. /\ r.t \in Nat /\ c \in Candidates /\ Rooted(c, l)
      /\ c.begin # NoTime => samples # <<>> /\ r.t - At(n) <= MaxGap
      /\ c.begin = NoTime => c = Free
  BY FreeFacts DEF Samples, Holding, Rooted
<1>2. CASE l \in r.on
  <2>1. CASE c = Free \/ Bridgeless(c, r.t)
    <3>1. Advanced(c, l \in r.on, r.t) = [begin |-> r.t, gap |-> NoTime]
      BY <1>2, <2>1 DEF Advanced
    <3>2. [begin |-> r.t, gap |-> NoTime] \in Candidates
      BY <1>1 DEF Candidates, Times
    <3> QED BY <3>1, <3>2, <1>2, BegunHere
  <2>2. CASE ~(c = Free \/ Bridgeless(c, r.t))
    <3>1. Advanced(c, l \in r.on, r.t) = [c EXCEPT !.gap = NoTime]
      BY <1>2, <2>2 DEF Advanced
    <3>2. [c EXCEPT !.gap = NoTime] \in Candidates
      BY <1>1 DEF Candidates, Times
    <3>3. Rooted([c EXCEPT !.gap = NoTime], l)'
      BY <1>1, <1>2, <2>2, ResumedRooted
    <3> QED BY <3>1, <3>2, <3>3
  <2> QED BY <2>1, <2>2
<1>3. CASE l \notin r.on
  <2>1. CASE c = Free \/ Bridgeless(PausedAt(c, r.t), r.t)
    <3>1. Advanced(c, l \in r.on, r.t) = Free
      BY <1>3, <2>1 DEF Advanced
    <3>2. Rooted(Free, l)'
      BY FreeFacts DEF Rooted
    <3> QED BY <3>1, <3>2, FreeFacts
  <2>2. CASE ~(c = Free \/ Bridgeless(PausedAt(c, r.t), r.t))
    <3>1. Advanced(c, l \in r.on, r.t) = PausedAt(c, r.t)
      BY <1>3, <2>2 DEF Advanced
    <3>2. PausedAt(c, r.t) \in Candidates
      BY <1>1 DEF Candidates, Times, PausedAt
    <3>3. Rooted(PausedAt(c, r.t), l)'
      BY <1>1, <1>3, <2>2, Pausing
    <3> QED BY <3>1, <3>2, <3>3
  <2> QED BY <2>1, <2>2
<1> QED BY <1>2, <1>3

LEMMA ReportableFacts ==
    ASSUME NEW l, NEW begin, NEW end, NEW e \in Reportable(l, begin, end)
    PROVE  /\ e = [label |-> l, start |-> begin, end |-> end] /\ ~(end - begin < MinDuration)
           /\ e.label = l /\ e.start = begin /\ e.end = end
           /\ \A d \in Reportable(l, begin, end) : d = e
BY DEF Reportable

LEMMA PausedReported ==
    ASSUME CaptureTyped, tool.watches = "student", \A i \in Index : samples[i].shown,
           NEW l \in Labels, NEW c \in Candidates, Rooted(c, l), c.gap # NoTime,
           NEW e \in Reportable(l, c.begin, c.gap)
    PROVE  /\ Grounded(e) /\ e \in Reports /\ e.label = l /\ e.start = c.begin /\ e.end = c.gap
           /\ c.begin # NoTime
<1>1. /\ c.begin \in Times /\ c.gap \in Nat /\ c.begin # NoTime /\ c.begin \in Nat
  BY DEF Candidates, Rooted, Times
<1>2. MinDuration \in Nat /\ Shortest = MinDuration
  BY Durations, PolicyAssumption
<1>3. /\ e = [label |-> l, start |-> c.begin, end |-> c.gap] /\ c.gap - c.begin >= Shortest
      /\ e.label = l /\ e.start = c.begin /\ e.end = c.gap
  BY <1>1, <1>2, ReportableFacts
<1>4. e \in Reports
  BY <1>1, <1>3 DEF Reports
<1> QED BY <1>1, <1>3, <1>4, PausedGrounded

(* Whatever is reported of a label has been closed as the worker closed it. *)
LEMMA ReportedOnce ==
    ASSUME NEW l, NEW c, NEW on, NEW now,
           NEW e, e \in Reported(l, c, l \in on, now), NEW a, a = Advanced(c, l \in on, now)
    PROVE  /\ a = Free \/ a.begin = now
           /\ \A d : d \in Reported(l, c, l \in on, now) => d = e
<1>1. CASE l \in on
  BY <1>1 DEF Reported, Advanced, Reportable
<1>2. CASE l \notin on
  BY <1>2 DEF Reported, Advanced, Reportable
<1> QED BY <1>1, <1>2

LEMMA ReportedFacts ==
    ASSUME CaptureTyped, tool' = tool, tool.watches = "student", phase = "running",
           NEW n \in Nat, n = Len(samples),
           NEW r \in Samples, samples' = Append(samples, r), r.shown,
           \A i \in Index : samples[i].shown,
           NEW l \in Labels, NEW c, Holding(c, l, r),
           NEW reports, reports = Reported(l, c, l \in r.on, r.t), NEW e \in reports
    PROVE  /\ Grounded(e)' /\ e \in Reports /\ e.label = l /\ e.start = c.begin /\ c.begin # NoTime
           /\ e.end + MergeGap <= r.t
<1>0. /\ r.t \in Nat /\ MergeGap \in Nat /\ c \in Candidates /\ c.begin \in Times /\ c.gap \in Times
      /\ c.begin # NoTime => samples # <<>> /\ r.t - At(n) <= MaxGap
  BY PolicyAssumption DEF Samples, Candidates, Holding
<1>1. PICK p : p = IF l \in r.on THEN c ELSE PausedAt(c, r.t)
  OBVIOUS
<1>2. /\ c # Free /\ Bridgeless(p, r.t) /\ e \in Reportable(l, c.begin, p.gap)
  BY <1>1 DEF Reported
<1>3. c.begin # NoTime /\ c.begin \in Nat
  BY <1>0, <1>2, FreeFacts DEF Holding, Rooted, Times
<1>4. /\ p.gap # NoTime /\ p.gap \in Nat /\ r.t - p.gap >= MergeGap
      /\ l \in r.on => p = c
      /\ l \notin r.on => p = PausedAt(c, r.t) /\ p.gap = IF c.gap = NoTime THEN r.t ELSE c.gap
  BY <1>0, <1>1, <1>2 DEF Bridgeless, PausedAt, Candidates, Times
<1>5. /\ e = [label |-> l, start |-> c.begin, end |-> p.gap] /\ ~(p.gap - c.begin < MinDuration)
      /\ e.label = l /\ e.start = c.begin /\ e.end = p.gap
      /\ \A d \in Reportable(l, c.begin, p.gap) : d = e
  BY <1>2, ReportableFacts
<1>6. e \in Reports
  BY <1>3, <1>4, <1>5 DEF Reports
<1>7. e.end + MergeGap <= r.t
  BY <1>0, <1>4, <1>5
<1>9. Extended
  BY Grown
<1>10. Grounded(e)'
  <2>1. CASE c.gap # NoTime
    <3>1. p.gap = c.gap
      BY <2>1, <1>4
    <3>2. Grounded(e)
      BY <1>2, <2>1, <3>1, PausedReported DEF Holding
    <3> QED BY <3>2, <1>9, GroundedKept
  <2>2. CASE c.gap = NoTime
    <3>1. l \notin r.on /\ p.gap = r.t
      BY <2>2, <1>4
    <3>2. PICK i \in Index :
             /\ i <= n /\ At(i) = c.begin /\ On(i, l) /\ On(n, l) /\ n \in Index
             /\ Joined(i, n) /\ Bridged(l, i, n)
      BY <1>3, <2>2 DEF Rooted, Holding
    <3>3. /\ (i \in Index)' /\ (n \in Index)' /\ At(i)' = c.begin /\ On(i, l)' /\ On(n, l)'
          /\ Joined(i, n)' /\ Bridged(l, i, n)'
          /\ At(n)' = At(n) /\ LongestGap' = LongestGap /\ Shortest' = Shortest
      BY <3>2, <1>9, Kept
    <3>4. /\ Len(samples)' = n + 1 /\ samples'[n + 1] = r /\ At(n + 1)' = r.t /\ ~On(n + 1, l)'
      BY <3>1, Appended
    <3>5. LongestGap = MaxGap /\ Shortest = MinDuration /\ MinDuration \in Nat
      BY Durations, PolicyAssumption
    <3>6. OverAfter(e, n)'
      BY <3>1, <3>3, <3>4, <3>5, <1>0, <1>3, <1>5 DEF OverAfter
    <3>7. Backed(e, i, n)'
      BY <3>2, <3>3, <3>6, <1>5 DEF Backed, Bridged
    <3>8. (e.end - e.start >= Shortest)'
      BY <1>3, <1>4, <1>5, <3>3, <3>5
    <3> QED BY <3>3, <3>7, <3>8 DEF Grounded
  <2> QED BY <2>1, <2>2
<1> QED BY <1>2, <1>3, <1>5, <1>6, <1>7, <1>10

(* The faces seen so far, and those before a moment.                       *)
LEMMA FacesFinite ==
    ASSUME Len(samples) \in Nat
    PROVE  /\ IsFiniteSet(Faces) /\ Cardinality(Faces) \in Nat
           /\ \A t : IsFiniteSet(FacesBefore(t)) /\ Cardinality(FacesBefore(t)) \in Nat
<1>1. IsFiniteSet(Index)
  <2>1. PICK n \in Int : n = Len(samples)
    OBVIOUS
  <2> QED BY <2>1, FS_Interval DEF Index
<1>2. Faces \subseteq Index /\ \A t : FacesBefore(t) \subseteq Index
  BY DEF Faces, FacesBefore
<1> QED BY <1>1, <1>2, FS_Subset, FS_CardinalityType

(* A sample adds its face, and no face before it.                          *)
LEMMA FacesGrow ==
    ASSUME CaptureTyped, tool' = tool, NEW n \in Nat, n = Len(samples),
           NEW r \in Samples, samples' = Append(samples, r),
           \A i \in Index : At(i) \in Nat /\ At(i) < r.t
    PROVE  /\ Cardinality(Faces) \in Nat
           /\ Cardinality(Faces)' = IF r.face THEN Cardinality(Faces) + 1 ELSE Cardinality(Faces)
           /\ \A t \in Nat : t <= r.t => FacesBefore(t)' = FacesBefore(t)
           /\ FacesBefore(r.t)' = Faces
<1>1. /\ Extended /\ samples'[n + 1] = r /\ At(n + 1)' = r.t
      /\ \A i : (i \in Index)' <=> i \in Index \/ i = n + 1
  BY Appended
<1>2. /\ \A i \in Index : At(i)' = At(i) /\ samples'[i] = samples[i]
      /\ r.t \in Nat /\ n + 1 \notin Index
  BY <1>1, Kept DEF Extended, Index, Samples
<1>3. IsFiniteSet(Faces) /\ Cardinality(Faces) \in Nat
  BY FacesFinite
<1>4. ASSUME NEW t \in Nat, t <= r.t
      PROVE  FacesBefore(t)' = FacesBefore(t)
  <2>1. ASSUME NEW i
        PROVE  (i \in Index /\ At(i) < t /\ samples[i].face)'
                  <=> (i \in Index /\ At(i) < t /\ samples[i].face)
    <3>1. CASE i \in Index
      BY <3>1, <1>1, <1>2
    <3>2. CASE i = n + 1
      BY <3>2, <1>1, <1>2, <1>4
    <3>3. CASE i \notin Index /\ i # n + 1
      BY <3>3, <1>1
    <3> QED BY <3>1, <3>2, <3>3
  <2> QED BY <2>1 DEF FacesBefore
<1>5. FacesBefore(r.t)' = Faces
  <2>1. ASSUME NEW i
        PROVE  (i \in Index /\ At(i) < r.t /\ samples[i].face)'
                  <=> (i \in Index /\ samples[i].face)
    <3>1. CASE i \in Index
      BY <3>1, <1>1, <1>2
    <3>2. CASE i = n + 1
      BY <3>2, <1>1, <1>2
    <3>3. CASE i \notin Index /\ i # n + 1
      BY <3>3, <1>1
    <3> QED BY <3>1, <3>2, <3>3
  <2> QED BY <2>1 DEF FacesBefore, Faces
<1>6. Faces' = IF r.face THEN Faces \cup {n + 1} ELSE Faces
  BY <1>1, <1>2 DEF Faces
<1>7. n + 1 \notin Faces
  BY <1>2 DEF Faces
<1>8. Cardinality(Faces \cup {n + 1}) = Cardinality(Faces) + 1
  BY <1>3, <1>7, FS_AddElement
<1>9. Cardinality(Faces)' = IF r.face THEN Cardinality(Faces) + 1 ELSE Cardinality(Faces)
  BY <1>6, <1>8
<1> QED BY <1>3, <1>4, <1>5, <1>9

-----------------------------------------------------------------------------
(* How a frame is judged.                                                  *)
Yaws == {0, 2}
Observations == [person : Scores, phone : Scores, yaw : {NoTime, 0, 2}]

LEMMA BaselineFacts ==
    ASSUME NEW w \in StudentWorkers, NEW o \in Observations, NEW on, NEW now \in Nat
    PROVE  /\ Baseline(w, o, "head_away" \in on, now) \in Seq(Yaws)
           /\ Len(w.yaws) \in Nat /\ Len(Baseline(w, o, "head_away" \in on, now)) \in Nat
           /\ Len(Baseline(w, o, "head_away" \in on, now))
                 <= (IF o.yaw # NoTime THEN Len(w.yaws) + 1 ELSE Len(w.yaws))
           /\ TooLong(w, "head_away" \in on, now) => Baseline(w, o, "head_away" \in on, now) = <<>>
<1>1. w.yaws \in Seq(Yaws) /\ Len(w.yaws) \in Nat
  BY LenProperties DEF StudentWorkers, Yaws
<1>2. o.yaw # NoTime => o.yaw \in Yaws
  BY DEF Observations, Yaws
<1>3. <<>> \in Seq(Yaws) /\ Len(<<>>) = 0
  BY EmptySeq
<1>4. CASE o.yaw # NoTime /\ ~(("head_away" \in on) /\ Established(w))
  <2>1. PICK s : s = Append(w.yaws, o.yaw)
    OBVIOUS
  <2>2. s \in Seq(Yaws) /\ Len(s) = Len(w.yaws) + 1
    BY <1>1, <1>2, <1>4, <2>1, AppendProperties
  <2>3. s # <<>> /\ Tail(s) \in Seq(Yaws) /\ Len(Tail(s)) = Len(s) - 1
    <3>1. s # <<>>
      BY <2>2, <1>1, <1>3
    <3> QED BY <3>1, <2>2, HeadTailProperties
  <2>4. Window(s) \in Seq(Yaws) /\ Len(Window(s)) \in Nat /\ Len(Window(s)) <= Len(w.yaws) + 1
    BY <1>1, <2>2, <2>3 DEF Window
  <2>5. Fed(w, o, "head_away" \in on) = Window(s)
    BY <1>4, <2>1 DEF Fed
  <2> QED BY <1>1, <1>3, <1>4, <2>4, <2>5 DEF Baseline
<1>5. CASE ~(o.yaw # NoTime /\ ~(("head_away" \in on) /\ Established(w)))
  <2>1. Fed(w, o, "head_away" \in on) = w.yaws
    BY <1>5 DEF Fed
  <2> QED BY <1>1, <1>3, <2>1 DEF Baseline
<1> QED BY <1>4, <1>5

(* A head that is turned is judged by a baseline, and keeps it.            *)
LEMMA TurnFacts ==
    ASSUME NEW w \in StudentWorkers, NEW o \in Observations, NEW now \in Nat
    PROVE  /\ Positive(w, o) \subseteq Labels
           /\ ("head_away" \in Positive(w, o)) <=> (IsTurned(w, o) \/ LostAfterTurn(w, o))
           /\ IsTurned(w, o) => o.yaw # NoTime /\ Established(w)
           /\ LostAfterTurn(w, o) => o.yaw = NoTime /\ w.lastFace = "turned"
           /\ \A on :
                /\ TurnSince(w, "head_away" \in on, now) \in Times
                /\ LastFace(w, o, "head_away" \in on) \in {"unknown", "ahead", "turned"}
                /\ LastFace(w, o, "head_away" \in on) = "turned" =>
                      (o.yaw # NoTime /\ ("head_away" \in on)) \/ (o.yaw = NoTime /\ w.lastFace = "turned")
<1>1. Positive(w, o) \subseteq Labels
  BY DEF Positive
<1>2. ("head_away" \in Positive(w, o)) <=> (IsTurned(w, o) \/ LostAfterTurn(w, o))
  BY DEF Positive, Labels
<1>3. /\ IsTurned(w, o) => o.yaw # NoTime /\ Established(w)
      /\ LostAfterTurn(w, o) => o.yaw = NoTime /\ w.lastFace = "turned"
  BY DEF IsTurned, LostAfterTurn
<1>4. ASSUME NEW on
      PROVE  /\ TurnSince(w, "head_away" \in on, now) \in Times
             /\ LastFace(w, o, "head_away" \in on) \in {"unknown", "ahead", "turned"}
             /\ LastFace(w, o, "head_away" \in on) = "turned" =>
                   (o.yaw # NoTime /\ ("head_away" \in on)) \/ (o.yaw = NoTime /\ w.lastFace = "turned")
  <2>1. TurnSince(w, "head_away" \in on, now) \in Times
    BY DEF TurnSince, Times, StudentWorkers
  <2>2. CASE o.yaw # NoTime /\ ("head_away" \in on)
    <3>1. LastFace(w, o, "head_away" \in on) = "turned"
      BY <2>2 DEF LastFace
    <3> QED BY <2>1, <2>2, <3>1
  <2>3. CASE o.yaw # NoTime /\ ~("head_away" \in on)
    <3>1. LastFace(w, o, "head_away" \in on) = "ahead"
      BY <2>3 DEF LastFace
    <3> QED BY <2>1, <3>1
  <2>4. CASE o.yaw = NoTime
    <3>1. LastFace(w, o, "head_away" \in on) = IF o.person < 2 THEN "unknown" ELSE w.lastFace
      BY <2>4 DEF LastFace
    <3> QED BY <2>1, <2>4, <3>1 DEF StudentWorkers
  <2> QED BY <2>2, <2>3, <2>4
<1> QED BY <1>1, <1>2, <1>3, <1>4

(* The student's worker reads a sample r in which it observes o.           *)
StudentSees(n, r, o) ==
    /\ CaptureTyped /\ StudentRuns /\ Backing
    /\ tool.watches = "student" /\ phase = "running"
    /\ n \in Nat /\ n = Len(samples) /\ r \in Samples /\ o \in Observations
    /\ ~StudentSkips(student, r.t) /\ InTime(r.t)
    /\ r.on = Positive(student, o) /\ (r.face <=> o.yaw # NoTime) /\ r.shown
    /\ samples' = Append(samples, r) /\ clock' = r.t /\ last' = r.t
    /\ student' = StudentObserve(student, o, r.t).worker
    /\ reported' = reported \cup StudentObserve(student, o, r.t).events
    /\ UNCHANGED <<tool, phase, vision, tracker>>

LEMMA ObserveFacts ==
    ASSUME NEW w, NEW o, NEW now, NEW on, on = Positive(w, o),
           NEW result, result = StudentObserve(w, o, now)
    PROVE  /\ \A l \in Labels :
                 result.worker.active[l] = Advanced(KeptOf(w, now)[l], l \in on, now)
           /\ result.worker.yaws = Baseline(w, o, "head_away" \in on, now)
           /\ result.worker.turnSince = TurnSince(w, "head_away" \in on, now)
           /\ result.worker.lastFace = LastFace(w, o, "head_away" \in on)
           /\ result.worker.previous = now
<1>1. /\ \A l \in Labels :
            result.worker.active[l] = Advanced(KeptOf(w, now)[l], l \in Positive(w, o), now)
      /\ result.worker.yaws = Baseline(w, o, "head_away" \in Positive(w, o), now)
      /\ result.worker.turnSince = TurnSince(w, "head_away" \in Positive(w, o), now)
      /\ result.worker.lastFace = LastFace(w, o, "head_away" \in Positive(w, o))
      /\ result.worker.previous = now
  BY DEF StudentObserve, KeptOf
<1> QED BY <1>1

LEMMA EventsFacts ==
    ASSUME NEW w, NEW o, NEW now, NEW on, on = Positive(w, o),
           NEW result, result = StudentObserve(w, o, now), NEW e \in result.events
    PROVE  \/ StudentGap(w, now) /\ e \in Finished(w)
           \/ \E l \in Labels : e \in Reported(l, KeptOf(w, now)[l], l \in on, now)
<1>1. \/ StudentGap(w, now) /\ e \in Finished(w)
      \/ \E l \in Labels : e \in Reported(l, KeptOf(w, now)[l], l \in Positive(w, o), now)
  BY DEF StudentObserve, KeptOf
<1> QED BY <1>1

LEMMA SeesFacts ==
    ASSUME NEW n, NEW r, NEW o, StudentSees(n, r, o)
    PROVE  /\ \A i \in Index : At(i) \in Nat /\ At(i) < r.t /\ samples[i].shown
           /\ \A i, j \in Index : i < j => At(i) < At(j)
           /\ samples # <<>> => n \in Index /\ \A i \in Index : At(i) <= At(n)
           /\ StudentGap(student, r.t) <=> (samples # <<>> /\ r.t - At(n) > MaxGap)
           /\ \A l \in Labels : Holding(KeptOf(student, r.t)[l], l, r)
           /\ r.t \in Nat /\ student \in StudentWorkers
<1>1. /\ \A i \in Index : At(i) < r.t
      /\ StudentGap(student, r.t) <=> (samples # <<>> /\ r.t - At(n) > MaxGap)
      /\ r.t \in Nat /\ student \in StudentWorkers
  BY StudentTimes DEF StudentSees, Samples, CaptureTyped
<1>2. /\ \A i \in Index : At(i) \in Nat /\ samples[i].shown
      /\ \A i, j \in Index : i < j => At(i) < At(j)
      /\ samples # <<>> => n \in Index /\ \A i \in Index : At(i) <= At(n)
  BY SteadyFacts DEF StudentSees, StudentRuns, InStep
<1>3. ASSUME NEW l \in Labels
      PROVE  Holding(KeptOf(student, r.t)[l], l, r)
  <2>1. CASE StudentGap(student, r.t)
    <3>1. KeptOf(student, r.t)[l] = Free
      BY <2>1 DEF KeptOf
    <3> QED BY <3>1, FreeFacts DEF Holding
  <2>2. CASE ~StudentGap(student, r.t)
    <3>1. KeptOf(student, r.t)[l] = student.active[l]
      BY <2>2 DEF KeptOf
    <3>2. student.active[l] \in Candidates /\ Rooted(student.active[l], l)
      BY <1>1 DEF StudentWorkers, StudentSees, StudentRuns
    <3>3. student.active[l].begin # NoTime => samples # <<>>
      BY <3>2, EmptySeq DEF Rooted, Index
    <3>4. samples # <<>> => r.t - At(n) <= MaxGap
      BY <1>1, <1>2, <2>2, PolicyAssumption
    <3>5. n = Len(samples)
      BY DEF StudentSees
    <3> QED BY <3>1, <3>2, <3>3, <3>4, <3>5 DEF Holding
  <2> QED BY <2>1, <2>2
<1> QED BY <1>1, <1>2, <1>3

LEMMA FacesCounted ==
    ASSUME NEW n, NEW r, NEW o, StudentSees(n, r, o)
    PROVE  /\ Cardinality(Faces) \in Nat
           /\ Cardinality(Faces)' = IF r.face THEN Cardinality(Faces) + 1 ELSE Cardinality(Faces)
           /\ \A t \in Nat : t <= r.t => FacesBefore(t)' = FacesBefore(t)
           /\ FacesBefore(r.t)' = Faces
BY SeesFacts, FacesGrow DEF StudentSees

(* A turned head is judged by enough faces.                                *)
LEMMA JudgingKept ==
    ASSUME NEW n, NEW r, NEW o, StudentSees(n, r, o)
    PROVE  Judging'
<1>1. /\ student \in StudentWorkers /\ o \in Observations /\ r.t \in Nat /\ Judging
      /\ r.on = Positive(student, o) /\ (r.face <=> o.yaw # NoTime)
      /\ student' = StudentObserve(student, o, r.t).worker
      /\ BaselineMin \in Nat \ {0}
  BY SeesFacts, PolicyAssumption DEF StudentSees, StudentRuns
<1> DEFINE turned == "head_away" \in r.on
<1>2. PICK result : result = StudentObserve(student, o, r.t)
  OBVIOUS
<1>3. /\ student'.yaws = Baseline(student, o, turned, r.t)
      /\ student'.lastFace = LastFace(student, o, turned)
      /\ \A l \in Labels : student'.active[l] = Advanced(KeptOf(student, r.t)[l], l \in r.on, r.t)
  <2>1. student' = result.worker
    BY <1>1, <1>2
  <2>2. r.on = Positive(student, o)
    BY <1>1
  <2> QED BY <1>2, <2>1, <2>2, ObserveFacts
<1>4. /\ Cardinality(Faces) \in Nat
      /\ Cardinality(Faces)' = IF r.face THEN Cardinality(Faces) + 1 ELSE Cardinality(Faces)
      /\ \A t \in Nat : t <= r.t => FacesBefore(t)' = FacesBefore(t)
      /\ FacesBefore(r.t)' = Faces
  BY FacesCounted
<1>5. Len(student.yaws) \in Nat /\ Len(student'.yaws) \in Nat /\ Len(student'.yaws) <= Cardinality(Faces)'
  BY <1>1, <1>3, <1>4, BaselineFacts DEF Judging
<1>6. turned => Cardinality(Faces) >= BaselineMin
  BY <1>1, <1>4, <1>5, TurnFacts DEF Established, Judging
<1>7. student'.lastFace = "turned" => Cardinality(Faces)' >= BaselineMin
  BY <1>1, <1>3, <1>4, <1>6, TurnFacts DEF Judging
<1>8. ASSUME NEW begin, begin = student'.active["head_away"].begin, begin # NoTime
      PROVE  Cardinality(FacesBefore(begin))' >= BaselineMin
  <2>1. PICK c : c = KeptOf(student, r.t)["head_away"]
    OBVIOUS
  <2>2. /\ student'.active["head_away"] = Advanced(c, turned, r.t)
        /\ c \in Candidates
        /\ c.begin # NoTime => c = student.active["head_away"]
    <3>1. "head_away" \in Labels
      BY DEF Labels
    <3>2. c.begin # NoTime => c = student.active["head_away"]
      BY <2>1, <3>1, FreeFacts DEF KeptOf
    <3> QED BY <1>3, <2>1, <3>1, <3>2, SeesFacts DEF Holding
  <2>3. begin = c.begin \/ (turned /\ begin = r.t)
    BY <1>8, <2>2, FreeFacts DEF Advanced, PausedAt, Candidates
  <2>4. CASE turned /\ begin = r.t
    BY <1>4, <1>6, <2>4
  <2>5. CASE begin = c.begin
    <3>1. begin \in Nat /\ Cardinality(FacesBefore(begin)) >= BaselineMin
      BY <1>1, <1>8, <2>2, <2>5 DEF Judging, Candidates, Times
    <3>2. begin <= r.t
      <4>1. PICK i \in Index : At(i) = begin
        <5>1. Rooted(student.active["head_away"], "head_away")
          BY DEF StudentSees, StudentRuns, Labels
        <5> QED BY <5>1, <1>8, <2>2, <2>5 DEF Rooted
      <4> QED BY <4>1, SeesFacts
    <3> QED BY <1>4, <3>1, <3>2
  <2> QED BY <2>3, <2>4, <2>5
<1> QED BY <1>5, <1>7, <1>8 DEF Judging

LEMMA TurningKept ==
    ASSUME NEW n, NEW r, NEW o, StudentSees(n, r, o)
    PROVE  Turning' /\ TurnsEnd'
<1>1. /\ student \in StudentWorkers /\ o \in Observations /\ r.t \in Nat /\ Turning /\ TurnsEnd
      /\ r.on = Positive(student, o) /\ (r.face <=> o.yaw # NoTime)
      /\ student' = StudentObserve(student, o, r.t).worker
      /\ BaselineReset \in Nat /\ n \in Nat /\ n = Len(samples)
  BY SeesFacts, PolicyAssumption DEF StudentSees, StudentRuns, Backing
<1> DEFINE turned == "head_away" \in r.on
<1>2. PICK result : result = StudentObserve(student, o, r.t)
  OBVIOUS
<1>3. /\ student'.yaws = Baseline(student, o, turned, r.t)
      /\ student'.turnSince = TurnSince(student, turned, r.t)
      /\ student.turnSince \in Times
  <2>1. student' = result.worker
    BY <1>1, <1>2
  <2>2. r.on = Positive(student, o)
    BY <1>1
  <2> QED BY <1>1, <1>2, <2>1, <2>2, ObserveFacts DEF StudentWorkers
<1>4. /\ Extended /\ Len(samples)' = n + 1 /\ At(n + 1)' = r.t /\ samples'[n + 1] = r
      /\ \A i : (i \in Index)' <=> i \in Index \/ i = n + 1
      /\ On(n + 1, "head_away")' <=> turned
  BY Appended DEF StudentSees
<1>5. /\ \A i \in Index : /\ At(i)' = At(i) /\ samples'[i] = samples[i]
                          /\ (On(i, "head_away")' <=> On(i, "head_away"))
      /\ \A i \in Index : At(i) \in Nat /\ At(i) < r.t
      /\ samples # <<>> => n \in Index
      /\ \A i \in Index : i \in 1..n /\ samples # <<>>
  BY <1>1, <1>4, Kept, SeesFacts, EmptySeq DEF Extended, Index
(* With its face in view the head is turned from a baseline that stands.   *)
<1>6. r.face /\ turned => student.yaws # <<>>
  <2>1. r.face /\ turned => Len(student.yaws) >= BaselineMin
    BY <1>1, TurnFacts DEF Established
  <2> QED BY <2>1, EmptySeq, PolicyAssumption
<1>7. ASSUME NEW i \in Index,
             (\A k \in i..(n + 1) : samples[k].face /\ On(k, "head_away"))'
      PROVE  /\ student.turnSince # NoTime /\ student.turnSince <= At(i)
             /\ turned /\ r.face
  <2>1. n + 1 \in i..(n + 1) /\ \A k \in i..n : k \in i..(n + 1) /\ k \in Index
    BY <1>1, <1>5 DEF Index
  <2>2. \A k \in i..n : samples[k].face /\ On(k, "head_away")
    BY <1>5, <1>7, <2>1
  <2>3. turned /\ r.face
    BY <1>4, <1>7, <2>1
  <2> QED BY <1>1, <1>6, <2>2, <2>3 DEF Turning
<1>8. TurnsEnd'
  <2> SUFFICES ASSUME NEW i \in Index', NEW j \in Index', i < j,
                      (\A k \in i..j : samples[k].face /\ On(k, "head_away"))'
               PROVE  At(j - 1)' - At(i)' <= BaselineReset
    BY DEF TurnsEnd
  <2>1. CASE j = n + 1
    <3>1. i \in Index /\ n \in Index
      BY <1>4, <1>5, <2>1
    <3>2. /\ student.turnSince # NoTime /\ student.turnSince <= At(i)
      BY <1>7, <2>1, <3>1
    <3>3. At(n) - student.turnSince <= BaselineReset
      BY <1>1, <3>2 DEF Turning
    <3>4. j - 1 = n /\ At(n)' = At(n) /\ At(i)' = At(i) /\ At(n) \in Nat /\ At(i) \in Nat
      BY <1>1, <1>5, <2>1, <3>1
    <3>5. student.turnSince \in Nat
      BY <1>3, <3>2 DEF Times
    <3> QED BY <1>1, <3>2, <3>3, <3>4, <3>5
  <2>2. CASE j # n + 1
    <3>1. i \in Index /\ j \in Index /\ j - 1 \in Index /\ \A k \in i..j : k \in Index
      BY <1>1, <1>4, <2>2 DEF Index
    <3>2. \A k \in i..j : samples[k].face /\ On(k, "head_away")
      BY <1>5, <3>1
    <3>3. At(j - 1) - At(i) <= BaselineReset
      BY <1>1, <3>1, <3>2 DEF TurnsEnd
    <3> QED BY <1>5, <3>1, <3>3
  <2> QED BY <2>1, <2>2
<1>9. ASSUME student'.turnSince # NoTime
      PROVE  /\ samples' # <<>> /\ student'.turnSince <= r.t
             /\ r.t - student'.turnSince <= BaselineReset
  <2>1. samples' # <<>>
    BY <1>1, <1>4, EmptySeq
  <2>2. student.turnSince # NoTime => student.turnSince \in Nat /\ student.turnSince <= r.t
    <3>1. student.turnSince # NoTime => n \in Index /\ student.turnSince <= At(n) /\ student.turnSince \in Nat
      BY <1>1, <1>3, <1>5 DEF Turning, Times
    <3> QED BY <3>1, <1>5, <1>1
  <2> QED BY <1>1, <1>3, <1>9, <2>1, <2>2 DEF TurnSince, TooLong
<1>10. ASSUME NEW i \in Index',
              (\A k \in i..(n + 1) : samples[k].face /\ On(k, "head_away"))'
       PROVE  \/ student'.turnSince # NoTime /\ student'.turnSince <= At(i)'
              \/ student'.yaws = <<>>
  <2>1. CASE TooLong(student, turned, r.t)
    BY <1>1, <1>3, <2>1, BaselineFacts
  <2>2. CASE ~TooLong(student, turned, r.t) /\ i = n + 1
    <3>1. turned
      <4>1. n + 1 \in i..(n + 1)
        BY <1>1, <2>2
      <4> QED BY <4>1, <1>4, <1>10
    <3>2. student'.turnSince = IF student.turnSince = NoTime THEN r.t ELSE student.turnSince
      BY <1>3, <2>2, <3>1 DEF TurnSince
    <3>3. student'.turnSince # NoTime
      BY <1>1, <3>2 DEF NoTime
    <3> QED BY <1>4, <1>9, <2>2, <3>3
  <2>3. CASE ~TooLong(student, turned, r.t) /\ i # n + 1
    <3>1. i \in Index
      BY <1>4, <2>3
    <3>2. student.turnSince # NoTime /\ student.turnSince <= At(i) /\ turned
      BY <1>7, <1>10, <3>1
    <3> QED BY <1>3, <1>5, <2>3, <3>1, <3>2 DEF TurnSince
  <2> QED BY <2>1, <2>2, <2>3
<1>11. Turning'
  BY <1>4, <1>9, <1>10 DEF Turning
<1> QED BY <1>8, <1>11

(* What a sample reports: the interval of a label's own condition, which   *)
(* is over by then and not open any more.                                  *)
Concludes(e, r) ==
    /\ e \in Reports /\ e.label \in Labels
    /\ student.active[e.label].begin # NoTime /\ e.start = student.active[e.label].begin
    /\ e.end + MergeGap <= r.t

(* What a gap reports had paused before it.                                *)
LEMMA GapReport ==
    ASSUME NEW n, NEW r, NEW o, StudentSees(n, r, o), StudentGap(student, r.t),
           NEW e \in Finished(student)
    PROVE  /\ Concludes(e, r) /\ Grounded(e)'
           /\ \A d \in Finished(student) : d.label = e.label => d = e
<1>1. \A d \in Finished(student) : \E l \in Labels :
          /\ student.active[l].gap # NoTime
          /\ d \in Reportable(l, student.active[l].begin, student.active[l].gap)
  BY DEF Finished, Paused
<1>2. PICK l \in Labels : /\ student.active[l].gap # NoTime
                          /\ e \in Reportable(l, student.active[l].begin, student.active[l].gap)
  BY <1>1
<1>3. PICK c : c = student.active[l]
  OBVIOUS
<1>4. /\ c \in Candidates /\ Rooted(c, l) /\ CaptureTyped /\ tool.watches = "student"
      /\ n = Len(samples) /\ n \in Nat /\ tool' = tool /\ phase = "running" /\ r.t \in Nat
      /\ \A i \in Index : samples[i].shown /\ At(i) \in Nat
  BY <1>3, SeesFacts DEF StudentSees, StudentRuns, StudentWorkers
<1>5. /\ Grounded(e) /\ e \in Reports /\ e.label = l /\ e.start = c.begin /\ e.end = c.gap
      /\ c.begin # NoTime
  BY <1>2, <1>3, <1>4, PausedReported
<1>6. Grounded(e)'
  <2>1. Extended
    BY Grown DEF StudentSees
  <2> QED BY <1>4, <1>5, <2>1, GroundedKept
<1>7. c.gap <= At(n) /\ n \in Index /\ samples # <<>>
  <2>1. PICK j \in Index : j < n /\ At(j + 1) = c.gap
    BY <1>2, <1>3, <1>4, <1>5 DEF Rooted
  <2>2. j + 1 \in Index /\ samples # <<>>
    BY <1>4, <2>1, EmptySeq DEF Index
  <2> QED BY <2>1, <2>2, SeesFacts
<1>8. e.end + MergeGap <= r.t
  <2>1. r.t - At(n) > MaxGap /\ At(n) \in Nat
    BY <1>4, <1>7, SeesFacts
  <2>2. c.gap \in Nat
    BY <1>2, <1>3, <1>4 DEF Candidates, Times
  <2>3. MaxGap \in Nat /\ MergeGap \in Nat /\ MergeGap <= MaxGap + 1
    BY PoliciesInUse, PolicyAssumption
  <2>4. r.t \in Nat /\ e.end = c.gap /\ c.gap <= At(n)
    BY <1>4, <1>5, <1>7
  <2> QED BY <2>1, <2>2, <2>3, <2>4
<1>9. ASSUME NEW d \in Finished(student), d.label = e.label
      PROVE  d = e
  <2>1. PICK k \in Labels : d \in Reportable(k, student.active[k].begin, student.active[k].gap)
    BY <1>1
  <2>2. k = l
    BY <1>5, <1>9, <2>1, ReportableFacts
  <2> QED BY <1>2, <2>1, <2>2, ReportableFacts
<1> QED BY <1>3, <1>5, <1>6, <1>8, <1>9 DEF Concludes

(* What a sample reports had paused long enough.                           *)
LEMMA SampleReport ==
    ASSUME NEW n, NEW r, NEW o, StudentSees(n, r, o),
           NEW l \in Labels, NEW c, c = KeptOf(student, r.t)[l],
           NEW reports, reports = Reported(l, c, l \in r.on, r.t), NEW e \in reports
    PROVE  /\ Concludes(e, r) /\ Grounded(e)' /\ e.label = l
           /\ c = student.active[l] /\ ~StudentGap(student, r.t)
<1>1. /\ CaptureTyped /\ tool' = tool /\ tool.watches = "student" /\ phase = "running"
      /\ n \in Nat /\ n = Len(samples) /\ r \in Samples /\ samples' = Append(samples, r) /\ r.shown
      /\ \A i \in Index : samples[i].shown
      /\ Holding(c, l, r)
  BY SeesFacts DEF StudentSees
<1>2. /\ Grounded(e)' /\ e \in Reports /\ e.label = l /\ e.start = c.begin /\ c.begin # NoTime
      /\ e.end + MergeGap <= r.t
  BY <1>1, ReportedFacts
<1>3. c = student.active[l] /\ ~StudentGap(student, r.t)
  BY <1>2, FreeFacts DEF KeptOf
<1> QED BY <1>2, <1>3 DEF Concludes

LEMMA ReadReports ==
    ASSUME NEW n, NEW r, NEW o, StudentSees(n, r, o),
           NEW events, events = StudentObserve(student, o, r.t).events, NEW e \in events
    PROVE  /\ Concludes(e, r) /\ Grounded(e)'
           /\ student'.active[e.label].begin # NoTime => student'.active[e.label].begin = r.t
           /\ \A d \in events : d.label = e.label => d = e
<1>1. PICK result : result = StudentObserve(student, o, r.t)
  OBVIOUS
<1>2. student' = result.worker /\ r.on = Positive(student, o) /\ events = result.events
  BY <1>1 DEF StudentSees
<1>3. \A l \in Labels : student'.active[l] = Advanced(KeptOf(student, r.t)[l], l \in r.on, r.t)
  BY <1>1, <1>2, ObserveFacts
<1>4. \A d \in events :
         \/ StudentGap(student, r.t) /\ d \in Finished(student)
         \/ \E l \in Labels : d \in Reported(l, KeptOf(student, r.t)[l], l \in r.on, r.t)
  BY <1>1, <1>2, EventsFacts
<1>5. CASE StudentGap(student, r.t) /\ e \in Finished(student)
  <2>1. \A d \in events : d \in Finished(student)
    BY <1>4, <1>5, SampleReport
  <2>2. /\ Concludes(e, r) /\ Grounded(e)'
        /\ \A d \in Finished(student) : d.label = e.label => d = e
    BY <1>5, GapReport
  <2>3. e.label \in Labels /\ KeptOf(student, r.t)[e.label] = Free
    BY <1>5, <2>2 DEF Concludes, KeptOf
  <2>4. student'.active[e.label] = Free \/ student'.active[e.label].begin = r.t
    <3>1. student'.active[e.label] = Advanced(Free, e.label \in r.on, r.t)
      BY <1>3, <2>3
    <3> QED BY <3>1 DEF Advanced
  <2> QED BY <2>1, <2>2, <2>4, FreeFacts
<1>6. CASE ~(StudentGap(student, r.t) /\ e \in Finished(student))
  <2>1. PICK l \in Labels : e \in Reported(l, KeptOf(student, r.t)[l], l \in r.on, r.t)
    BY <1>4, <1>6
  <2>2. PICK c, reports, a : /\ c = KeptOf(student, r.t)[l]
                             /\ reports = Reported(l, c, l \in r.on, r.t)
                             /\ a = Advanced(c, l \in r.on, r.t)
    OBVIOUS
  <2>3. /\ Concludes(e, r) /\ Grounded(e)' /\ e.label = l /\ ~StudentGap(student, r.t)
    BY <2>1, <2>2, SampleReport
  <2>6. a = Free \/ a.begin = r.t
    BY <2>1, <2>2, ReportedOnce
  <2>4. student'.active[e.label].begin # NoTime => student'.active[e.label].begin = r.t
    BY <1>3, <2>2, <2>3, <2>6, FreeFacts
  <2>5. ASSUME NEW d \in events, d.label = e.label
        PROVE  d = e
    <3>1. PICK k \in Labels : d \in Reported(k, KeptOf(student, r.t)[k], k \in r.on, r.t)
      BY <1>4, <2>3
    <3>2. k = l
      BY <2>3, <2>5, <3>1, SampleReport
    <3> QED BY <2>1, <3>1, <3>2, ReportedOnce
  <2> QED BY <2>3, <2>4, <2>5
<1> QED BY <1>5, <1>6

(* Reports are added: what backs the earlier ones is still there.          *)
LEMMA BackingGrows ==
    ASSUME CaptureTyped, Backing, phase = "running", Extended,
           NEW new, reported' = reported \cup new,
           \A e \in new : Grounded(e)' /\ e.label \in OfWorker(Labels, Kinds, Signals),
           \A e \in new : \A d \in reported \cup new : Spaced(d, e) /\ Spaced(e, d),
           tool.watches = "student" =>
             /\ TurnsEnd'
             /\ \A e \in reported \cup new :
                   e.label = "head_away" => Cardinality(FacesBefore(e.start))' >= BaselineMin
    PROVE  Backing'
<1>1. /\ tool' = tool /\ Spacing' = Spacing
      /\ OfWorker(Labels, Kinds, Signals)' = OfWorker(Labels, Kinds, Signals)
  BY Kept DEF Extended, OfWorker
<1>2. \A d, e : Spaced(d, e)' <=> Spaced(d, e)
  BY <1>1 DEF Spaced
<1>3. \A e \in reported : Grounded(e)'
  BY GroundedKept DEF Backing
<1>4. \A d, e \in reported : Spaced(d, e)
  BY DEF Backing
<1>5. \A d, e \in reported \cup new : Spaced(d, e)'
  BY <1>2, <1>4
<1>6. \A e \in reported \cup new :
         Grounded(e)' /\ e.label \in OfWorker(Labels, Kinds, Signals)'
  BY <1>1, <1>3 DEF Backing
<1>7. tool.watches = "student" =>
         \A e \in reported' : e.label = "head_away" => Cardinality(FacesBefore(e.start))' >= BaselineMin
  OBVIOUS
<1> QED BY <1>1, <1>5, <1>6, <1>7 DEF Backing

LEMMA BackingStays ==
    ASSUME CaptureTyped, Backing, phase = "running", tool' = tool, samples' = samples,
           NEW new, reported' = reported \cup new,
           \A e \in new : Grounded(e)' /\ e.label \in OfWorker(Labels, Kinds, Signals),
           \A e \in new : \A d \in reported \cup new : Spaced(d, e) /\ Spaced(e, d),
           tool.watches = "student" =>
             \A e \in new : e.label = "head_away" => Cardinality(FacesBefore(e.start)) >= BaselineMin
    PROVE  Backing'
<1>1. Extended
  BY Same
<1>2. TurnsEnd' <=> TurnsEnd
  BY DEF TurnsEnd, Index, At, On
<1>3. \A t : FacesBefore(t)' = FacesBefore(t)
  BY DEF FacesBefore, Index, At
<1>4. tool.watches = "student" =>
         /\ TurnsEnd'
         /\ \A e \in reported \cup new :
               e.label = "head_away" => Cardinality(FacesBefore(e.start))' >= BaselineMin
  BY <1>2, <1>3 DEF Backing
<1> QED BY <1>1, <1>4, BackingGrows

LEMMA NothingAdded ==
    ASSUME CaptureTyped, Backing, phase = "running", tool' = tool, samples' = samples,
           reported' = reported
    PROVE  Backing'
<1>1. Extended /\ \A e \in reported : Grounded(e)'
  BY Same, GroundedKept DEF Backing
<1>2. (TurnsEnd' <=> TurnsEnd) /\ \A t : FacesBefore(t)' = FacesBefore(t)
  BY DEF TurnsEnd, FacesBefore, Index, At, On
<1>3. /\ Spacing' = Spacing
      /\ OfWorker(Labels, Kinds, Signals)' = OfWorker(Labels, Kinds, Signals)
  BY DEF Spacing, OfWorker
<1>4. \A d, e : Spaced(d, e)' <=> Spaced(d, e)
  BY <1>3 DEF Spaced
<1> QED BY <1>1, <1>2, <1>3, <1>4 DEF Backing

-----------------------------------------------------------------------------
LEMMA StudentTyped ==
    ASSUME NEW n, NEW r, NEW o, StudentSees(n, r, o)
    PROVE  student' \in StudentWorkers
<1>1. PICK result : result = StudentObserve(student, o, r.t)
  OBVIOUS
<1>2. /\ student' = result.worker /\ r.on = Positive(student, o) /\ o \in Observations
      /\ student \in StudentWorkers /\ r.t \in Nat
  BY <1>1, SeesFacts DEF StudentSees
<1>3. \A l \in Labels : student'.active[l] \in Candidates
  <2> SUFFICES ASSUME NEW l \in Labels PROVE student'.active[l] \in Candidates
    OBVIOUS
  <2>1. student'.active[l] = Advanced(KeptOf(student, r.t)[l], l \in r.on, r.t)
    BY <1>1, <1>2, ObserveFacts
  <2>2. PICK c : c = KeptOf(student, r.t)[l]
    OBVIOUS
  <2>3. c \in Candidates
    BY <2>2, SeesFacts DEF Holding
  <2>4. Advanced(c, l \in r.on, r.t) \in Candidates
    BY <1>2, <2>3, FreeFacts DEF Advanced, PausedAt, Candidates, Times
  <2> QED BY <2>1, <2>2, <2>4
<1>4. student'.active = [l \in Labels |-> student'.active[l]]
  BY <1>1, <1>2 DEF StudentObserve
<1>5. student'.active \in [Labels -> Candidates]
  BY <1>3, <1>4
<1>6. /\ student'.yaws \in Seq(Yaws) /\ student'.turnSince \in Times
      /\ student'.lastFace \in {"unknown", "ahead", "turned"} /\ student'.previous \in Times
  <2>1. /\ student'.yaws = Baseline(student, o, "head_away" \in r.on, r.t)
        /\ student'.turnSince = TurnSince(student, "head_away" \in r.on, r.t)
        /\ student'.lastFace = LastFace(student, o, "head_away" \in r.on)
        /\ student'.previous = r.t
    BY <1>1, <1>2, ObserveFacts
  <2> QED BY <1>2, <2>1, BaselineFacts, TurnFacts DEF Times
<1>7. student' = [active |-> student'.active, yaws |-> student'.yaws,
                  turnSince |-> student'.turnSince, lastFace |-> student'.lastFace,
                  previous |-> student'.previous]
  BY <1>1, <1>2 DEF StudentObserve
<1> QED BY <1>5, <1>6, <1>7 DEF StudentWorkers, Yaws

LEMMA SampleTimes ==
    ASSUME CaptureTyped, Ordered, tool' = tool, NEW r \in Samples, samples' = Append(samples, r),
           NEW n \in Nat, n = Len(samples), last <= r.t, last' = r.t, r.t <= clock'
    PROVE  Ordered'
<1>1. /\ Extended /\ At(n + 1)' = r.t /\ r.t \in Nat
      /\ \A i : (i \in Index)' <=> i \in Index \/ i = n + 1
  BY Appended DEF Samples
<1>2. \A i \in Index : At(i)' = At(i) /\ i < n + 1 /\ i \in Nat /\ At(i) \in Nat /\ At(i) <= r.t
  <2>1. \A i \in Index : samples[i] \in Samples
    BY ElementOfSeq DEF CaptureTyped, Index
  <2>2. \A i \in Index : At(i) \in Nat /\ last \in Nat /\ At(i) <= last
    BY <2>1 DEF Samples, At, CaptureTyped, Ordered
  <2> QED BY <1>1, <2>2, Kept DEF Index
<1>3. ASSUME NEW i \in Index', NEW j \in Index', i < j
      PROVE  At(i)' <= At(j)'
  <2>1. CASE j = n + 1
    <3>1. i \in Index
      BY <1>1, <1>3, <2>1
    <3> QED BY <1>1, <1>2, <2>1, <3>1
  <2>2. CASE j # n + 1
    <3>1. i \in Index /\ j \in Index
      BY <1>1, <1>2, <1>3, <2>2
    <3> QED BY <1>2, <1>3, <3>1 DEF Ordered
  <2> QED BY <2>1, <2>2
<1>4. \A i \in Index' : At(i)' <= r.t
  BY <1>1, <1>2
<1> QED BY <1>3, <1>4 DEF Ordered

(* A worker stays in step with its samples.                                *)
LEMMA SteadyGrows ==
    ASSUME CaptureTyped, tool' = tool, NEW r \in Samples, samples' = Append(samples, r),
           NEW n \in Nat, n = Len(samples), r.shown, last' = r.t, clock' = r.t,
           \A i \in Index : At(i) \in Nat /\ At(i) < r.t /\ samples[i].shown,
           \A i, j \in Index : i < j => At(i) < At(j),
           NEW previous, previous = r.t
    PROVE  InStep(previous)'
<1>1. /\ Extended /\ At(n + 1)' = r.t /\ r.t \in Nat /\ samples'[n + 1] = r /\ Len(samples)' = n + 1
      /\ \A i : (i \in Index)' <=> i \in Index \/ i = n + 1
  BY Appended DEF Samples
<1>2. \A i \in Index : At(i)' = At(i) /\ i < n + 1 /\ i \in Nat /\ samples'[i] = samples[i]
  BY <1>1, Kept DEF Index, Extended
<1>3. ASSUME NEW i \in Index', NEW j \in Index', i < j
      PROVE  At(i)' < At(j)'
  <2>1. CASE j = n + 1
    <3>1. i \in Index
      BY <1>1, <1>3, <2>1
    <3> QED BY <1>1, <1>2, <2>1, <3>1
  <2>2. CASE j # n + 1
    <3>1. i \in Index /\ j \in Index
      BY <1>1, <1>2, <1>3, <2>2
    <3> QED BY <1>2, <1>3, <3>1
  <2> QED BY <2>1, <2>2
<1>4. \A i \in Index' : samples'[i].shown
  BY <1>1, <1>2
<1>5. samples' # <<>>
  BY <1>1, EmptySeq
<1> QED BY <1>1, <1>3, <1>4, <1>5 DEF InStep

(* What is held of a label after a sample began then, or as before.        *)
LEMMA HeldFrom ==
    ASSUME NEW n, NEW r, NEW o, StudentSees(n, r, o), NEW l \in Labels
    PROVE  /\ \/ student'.active[l].begin = NoTime
              \/ student'.active[l].begin = r.t
              \/ student'.active[l].begin = student.active[l].begin
           /\ Rooted(student.active[l], l)'
<1>1. PICK result : result = StudentObserve(student, o, r.t)
  OBVIOUS
<1>2. student' = result.worker /\ r.on = Positive(student, o) /\ r.t \in Nat
  BY <1>1, SeesFacts DEF StudentSees
<1>3. PICK c, a : c = KeptOf(student, r.t)[l] /\ a = Advanced(c, l \in r.on, r.t)
  OBVIOUS
<1>4. student'.active[l] = a
  BY <1>1, <1>2, <1>3, ObserveFacts
<1>5. Holding(c, l, r) /\ (c = student.active[l] \/ c = Free)
  BY <1>3, SeesFacts DEF KeptOf
<1>6. a.begin = NoTime \/ a.begin = r.t \/ a.begin = c.begin
  BY <1>3, <1>5, FreeFacts DEF Advanced, PausedAt, Candidates, Holding
<1>7. Rooted(a, l)'
  BY <1>3, <1>5, SeesFacts, AdvancedRooted DEF StudentSees
<1>8. Rooted(student.active[l], l)'
  BY <1>4, <1>7 DEF Rooted
<1> QED BY <1>4, <1>5, <1>6, <1>8, FreeFacts

(* A sample leaves the student's worker as its reports and its history say. *)
LEMMA StudentRunsOn ==
    ASSUME NEW n, NEW r, NEW o, StudentSees(n, r, o)
    PROVE  StudentRuns'
<1>1. /\ CaptureTyped /\ tool' = tool /\ r \in Samples /\ samples' = Append(samples, r)
      /\ n \in Nat /\ n = Len(samples) /\ r.shown /\ last' = r.t /\ clock' = r.t /\ r.t \in Nat
      /\ student' = StudentObserve(student, o, r.t).worker
      /\ reported' = reported \cup StudentObserve(student, o, r.t).events
      /\ StudentRuns
  BY SeesFacts DEF StudentSees
<1>2. /\ \A i \in Index : At(i) \in Nat /\ At(i) < r.t /\ samples[i].shown
      /\ \A i, j \in Index : i < j => At(i) < At(j)
      /\ samples # <<>> => n \in Index
  BY SeesFacts
<1>3. /\ Len(samples)' = n + 1 /\ At(n + 1)' = r.t /\ samples' # <<>>
  BY <1>1, Appended, EmptySeq
<1>4. student'.previous = r.t
  BY <1>1 DEF StudentObserve
<1>5. InStep(student.previous)'
  <2>1. PICK previous : previous = r.t
    OBVIOUS
  <2>2. InStep(previous)'
    BY <1>1, <1>2, <2>1, SteadyGrows
  <2> QED BY <1>4, <2>1, <2>2 DEF InStep
<1>6. (samples # <<>> => last - At(Len(samples)) < Sampling)'
  BY <1>1, <1>3, PolicyAssumption
<1>7. \A l \in Labels : Rooted(student.active[l], l)'
  BY HeldFrom
<1>8. ASSUME NEW e \in reported'
      PROVE  /\ samples' # <<>> /\ e.end + MergeGap <= r.t
             /\ student'.active[e.label].begin # NoTime =>
                   e.end + MergeGap <= student'.active[e.label].begin
  <2>1. CASE e \in reported
    <3>1. e \in Reports /\ e.label \in Labels
      BY <2>1 DEF StudentSees, Backing, OfWorker, CaptureTyped
    <3>2. /\ samples # <<>> /\ e.end + MergeGap <= At(n)
          /\ student.active[e.label].begin # NoTime =>
                e.end + MergeGap <= student.active[e.label].begin
      BY <1>1, <2>1 DEF StudentRuns
    <3>3. e.end \in Nat /\ MergeGap \in Nat
      BY <3>1, PolicyAssumption DEF Reports
    <3>4. e.end + MergeGap <= r.t
      BY <1>1, <1>2, <3>2, <3>3
    <3> QED BY <1>3, <3>1, <3>2, <3>4, HeldFrom
  <2>2. CASE e \notin reported
    <3>1. PICK events : events = StudentObserve(student, o, r.t).events
      OBVIOUS
    <3>2. e \in events
      BY <1>1, <2>2, <3>1
    <3>3. /\ Concludes(e, r)
          /\ student'.active[e.label].begin # NoTime => student'.active[e.label].begin = r.t
      BY <3>1, <3>2, ReadReports
    <3> QED BY <1>3, <3>3 DEF Concludes
  <2> QED BY <2>1, <2>2
<1>9. Judging' /\ Turning'
  BY JudgingKept, TurningKept
<1> QED BY <1>3, <1>5, <1>6, <1>7, <1>8, <1>9 DEF StudentRuns

(* What the student's worker reports is backed, and keeps its distance.    *)
LEMMA StudentBacked ==
    ASSUME NEW n, NEW r, NEW o, StudentSees(n, r, o)
    PROVE  Backing' /\ reported' \subseteq Reports
<1>1. /\ CaptureTyped /\ tool' = tool /\ r \in Samples /\ samples' = Append(samples, r)
      /\ n \in Nat /\ n = Len(samples) /\ r.t \in Nat /\ phase = "running"
      /\ StudentRuns /\ Backing /\ tool.watches = "student" /\ Extended
      /\ OfWorker(Labels, Kinds, Signals) = Labels /\ Spacing = MergeGap /\ MergeGap \in Nat
      /\ reported \subseteq Reports
  BY SeesFacts, Grown, PolicyAssumption DEF StudentSees, OfWorker, Spacing, CaptureTyped
<1>2. PICK events : events = StudentObserve(student, o, r.t).events
  OBVIOUS
<1>3. reported' = reported \cup events
  BY <1>2 DEF StudentSees
<1>4. \A e \in events : Concludes(e, r) /\ Grounded(e)' /\ \A d \in events : d.label = e.label => d = e
  BY <1>2, ReadReports
<1>5. \A e \in events : e.label \in Labels /\ e \in Reports
  BY <1>4 DEF Concludes
<1>6. ASSUME NEW e \in events, NEW d \in reported \cup events
      PROVE  Spaced(d, e) /\ Spaced(e, d)
  <2>1. CASE d \in events
    BY <1>4, <2>1 DEF Spaced
  <2>2. CASE d \in reported /\ d.label = e.label
    <3>1. student.active[e.label].begin # NoTime /\ e.start = student.active[e.label].begin
      BY <1>4 DEF Concludes
    <3>2. d.end + MergeGap <= e.start
      BY <1>1, <2>2, <3>1 DEF StudentRuns
    <3> QED BY <1>1, <3>2 DEF Spaced
  <2>3. CASE d.label # e.label
    BY <2>3 DEF Spaced
  <2> QED BY <2>1, <2>2, <2>3
<1>7. ASSUME NEW e \in reported \cup events, e.label = "head_away"
      PROVE  Cardinality(FacesBefore(e.start))' >= BaselineMin
  <2>1. Cardinality(FacesBefore(e.start)) >= BaselineMin /\ e.start \in Nat /\ e.start <= r.t
    <3>1. CASE e \in reported
      <4>1. PICK i \in Index : At(i) = e.start
        BY <1>1, <3>1 DEF Backing, Grounded, Backed
      <4> QED BY <1>1, <1>7, <3>1, <4>1, SeesFacts DEF Backing
    <3>2. CASE e \in events
      <4>1. /\ student.active[e.label].begin # NoTime /\ e.start = student.active[e.label].begin
            /\ e.start \in Nat
        BY <1>4, <3>2 DEF Concludes, Reports
      <4>2. PICK i \in Index : At(i) = e.start
        BY <1>1, <1>5, <3>2, <4>1 DEF StudentRuns, Rooted
      <4> QED BY <1>1, <1>7, <4>1, <4>2, SeesFacts DEF StudentRuns, Judging
    <3> QED BY <3>1, <3>2
  <2>2. FacesBefore(e.start)' = FacesBefore(e.start)
    BY <2>1, FacesCounted
  <2> QED BY <2>1, <2>2
<1>8. TurnsEnd'
  BY TurningKept
<1>9. Backing'
  BY <1>1, <1>3, <1>4, <1>5, <1>6, <1>7, <1>8, BackingGrows
<1> QED BY <1>1, <1>3, <1>5, <1>9

LEMMA StudentRead ==
    ASSUME NEW n, NEW r, NEW o, StudentSees(n, r, o), Ordered, last <= r.t
    PROVE  SoundInv'
<1>1. /\ CaptureTyped /\ r.t \in Nat /\ r \in Samples /\ samples' = Append(samples, r)
      /\ n \in Nat /\ n = Len(samples) /\ last' = r.t /\ clock' = r.t
      /\ tool.watches = "student" /\ UNCHANGED <<tool, phase, vision, tracker>>
  BY SeesFacts DEF StudentSees
<1>2. samples' \in Seq(Samples)
  BY <1>1, Grown
<1>3. Ordered'
  BY <1>1, SampleTimes
<1>4. CaptureTyped'
  BY <1>1, <1>2, StudentTyped, StudentBacked DEF CaptureTyped
<1> QED BY <1>1, <1>3, <1>4, StudentBacked, StudentRunsOn DEF SoundInv

LEMMA ObservedFacts ==
    ASSUME NEW f \in Frames
    PROVE  Observation(f) \in Observations
BY DEF Observation, Observations, PhoneScore, MaxOf, Frames, Scores

LEMMA ClockFacts ==
    ASSUME CaptureTyped, Ordered, NEW dt \in Nat
    PROVE  clock + dt \in Nat /\ last \in Nat /\ last <= clock + dt /\ clock \in Nat
BY DEF CaptureTyped, Ordered

(* A frame of the student is a sample of its worker.                       *)
LEMMA StudentReads ==
    ASSUME SoundInv, NEW dt \in Nat, NEW f \in Frames, ReadStudentFrame(dt, f)
    PROVE  \E n, r, o : StudentSees(n, r, o)
<1>1. PICK now, o, r : /\ now = clock + dt /\ o = Observation(f)
                       /\ r = [t |-> now, on |-> Positive(student, o), face |-> (f.yaw # NoTime),
                               shown |-> TRUE]
  OBVIOUS
<1>2. /\ CaptureTyped /\ Ordered /\ Backing /\ phase = "running" /\ tool.watches = "student"
      /\ StudentRuns
  BY DEF SoundInv, ReadStudentFrame, Watching
<1>3. now \in Nat /\ last <= now /\ o \in Observations
  BY <1>1, <1>2, ClockFacts, ObservedFacts
<1>4. /\ r.t = now /\ r.on = Positive(student, o) /\ r.shown /\ (r.face <=> f.yaw # NoTime)
      /\ o.yaw = f.yaw
  BY <1>1 DEF Observation
<1>5. r \in Samples
  <2>1. student \in StudentWorkers
    BY <1>2 DEF CaptureTyped
  <2>2. Positive(student, o) \subseteq Labels
    BY <1>3, <2>1, TurnFacts
  <2> QED BY <1>1, <1>3, <2>2 DEF Samples
<1>6. StudentObserve(student, o, now).on = Positive(student, o)
  BY DEF StudentObserve
<1>7. /\ ~StudentSkips(student, now) /\ InTime(now) /\ clock' = now /\ last' = now
      /\ student' = StudentObserve(student, o, now).worker
      /\ reported' = reported \cup StudentObserve(student, o, now).events
      /\ samples' = Append(samples, r)
      /\ UNCHANGED <<tool, vision, tracker, phase>>
  BY <1>1, <1>6 DEF ReadStudentFrame, Saw
<1>8. PICK n : n = Len(samples)
  OBVIOUS
<1>9. n \in Nat
  BY <1>2, <1>8, LenProperties DEF CaptureTyped
<1>10. StudentSees(n, r, o)
  BY <1>2, <1>3, <1>4, <1>5, <1>7, <1>8, <1>9 DEF StudentSees
<1> QED BY <1>10

LEMMA ReadStudentStep ==
    ASSUME SoundInv, NEW dt \in Nat, NEW f \in Frames, ReadStudentFrame(dt, f)
    PROVE  SoundInv'
<1>1. PICK n, r, o : StudentSees(n, r, o)
  BY StudentReads
<1>2. Ordered /\ last <= r.t
  <2>1. r.t = clock + dt
    BY <1>1 DEF StudentSees, ReadStudentFrame
  <2> QED BY <2>1, ClockFacts DEF SoundInv
<1> QED BY <1>1, <1>2, StudentRead DEF StudentSees

(* What holds of the history does so while no sample is added to it.       *)
LEMMA HistoryStays ==
    ASSUME Ordered, CaptureTyped, samples' = samples, last' \in Nat, last <= last', last' <= clock'
    PROVE  Ordered'
<1>1. \A i \in Index : At(i) \in Nat
  <2>1. \A i \in Index : samples[i] \in Samples
    BY ElementOfSeq DEF CaptureTyped, Index
  <2> QED BY <2>1 DEF Samples, At
<1>2. last \in Nat
  BY DEF CaptureTyped
<1>3. Index' = Index /\ \A i \in Index : At(i)' = At(i)
  BY DEF Index, At
<1> QED BY <1>1, <1>2, <1>3 DEF Ordered

LEMMA SkipStudentStep ==
    ASSUME SoundInv, NEW dt \in Nat, SkipStudentFrame(dt)
    PROVE  SoundInv'
<1>1. PICK now : now = clock + dt
  OBVIOUS
<1>2. /\ CaptureTyped /\ Ordered /\ Backing /\ phase = "running" /\ tool.watches = "student"
      /\ StudentRuns /\ now \in Nat /\ last \in Nat /\ last <= now
  BY <1>1, ClockFacts DEF SoundInv, SkipStudentFrame, Watching
<1>3. /\ StudentSkips(student, now) /\ clock' = now /\ last' = now
      /\ UNCHANGED <<tool, student, vision, tracker, reported, samples, phase>>
  BY <1>1 DEF SkipStudentFrame, workers
<1>4. Ordered' /\ CaptureTyped' /\ Backing'
  <2>1. Ordered'
    BY <1>2, <1>3, HistoryStays
  <2>2. CaptureTyped'
    BY <1>2, <1>3 DEF CaptureTyped
  <2> QED BY <1>2, <1>3, <2>1, <2>2, NothingAdded
<1>5. samples # <<>> => now - At(Len(samples)) < Sampling
  BY <1>2, <1>3, SteadyFacts DEF StudentSkips, StudentRuns
<1>6. Index' = Index /\ (\A i : At(i)' = At(i)) /\ (\A i, l : On(i, l)' <=> On(i, l)) /\ Faces' = Faces
  BY <1>3 DEF Index, At, On, Faces
<1>7. InStep(student.previous)'
  BY <1>2, <1>3, <1>6 DEF InStep, StudentRuns
<1>8. \A l \in Labels : Rooted(student.active[l], l)'
  <2>1. Extended
    BY <1>2, <1>3, Same
  <2> SUFFICES ASSUME NEW l \in Labels PROVE Rooted(student.active[l], l)'
    OBVIOUS
  <2>2. Rooted(student.active[l], l)
    BY <1>2 DEF StudentRuns
  <2>3. \A i, j : (Joined(i, j)' <=> Joined(i, j)) /\ (Bridged(l, i, j)' <=> Bridged(l, i, j))
    <3>1. LongestGap' = LongestGap /\ Bridge' = Bridge
      BY <1>3 DEF LongestGap, Bridge, OfWorker
    <3>2. \A i, j : Joined(i, j)' <=> Joined(i, j)
      BY <1>3, <1>6, <3>1 DEF Joined
    <3>3. \A i, j : Bridged(l, i, j)' <=> Bridged(l, i, j)
      BY <1>6, <3>1 DEF Bridged
    <3> QED BY <3>2, <3>3
  <2> QED BY <1>3, <1>6, <2>2, <2>3 DEF Rooted
<1>9. Judging' /\ Turning'
  BY <1>2, <1>3, <1>6 DEF StudentRuns, Judging, Turning, FacesBefore
<1>10. StudentRuns'
  BY <1>2, <1>3, <1>5, <1>6, <1>7, <1>8, <1>9 DEF StudentRuns
<1> QED BY <1>3, <1>2, <1>4, <1>10 DEF SoundInv

-----------------------------------------------------------------------------
(* The program of the student ends: what is open closes where it ended.    *)
LEMMA FlushReport ==
    ASSUME CaptureTyped, StudentRuns, tool.watches = "student", phase = "running",
           samples' = samples, tool' = tool, phase' \in {"ended", "interrupted"},
           NEW now \in Nat, last' = now, last <= now, samples # <<>> => now - At(Len(samples)) <= MaxGap,
           NEW e \in StudentFlush(student, now)
    PROVE  /\ Grounded(e)' /\ e \in Reports /\ e.label \in Labels
           /\ student.active[e.label].begin # NoTime /\ e.start = student.active[e.label].begin
           /\ \A d \in StudentFlush(student, now) : d.label = e.label => d = e
<1>1. \A d \in StudentFlush(student, now) : \E l \in Labels :
          /\ student.active[l].begin # NoTime
          /\ \/ /\ student.active[l].gap # NoTime
                /\ d \in Reportable(l, student.active[l].begin, student.active[l].gap)
             \/ /\ student.active[l].gap = NoTime
                /\ d \in Reportable(l, student.active[l].begin, now)
  BY DEF StudentFlush, Running, Paused
<1>2. PICK l \in Labels :
          /\ student.active[l].begin # NoTime
          /\ \/ /\ student.active[l].gap # NoTime
                /\ e \in Reportable(l, student.active[l].begin, student.active[l].gap)
             \/ /\ student.active[l].gap = NoTime
                /\ e \in Reportable(l, student.active[l].begin, now)
  BY <1>1
<1>3. PICK c : c = student.active[l]
  OBVIOUS
<1>4. /\ c \in Candidates /\ Rooted(c, l) /\ \A i \in Index : samples[i].shown
      /\ c.begin \in Nat
  BY <1>2, <1>3 DEF StudentRuns, InStep, CaptureTyped, StudentWorkers, Candidates, Times
<1>5. e.label = l /\ e.start = c.begin
  BY <1>2, <1>3, ReportableFacts
<1>6. ASSUME NEW d \in StudentFlush(student, now), d.label = e.label
      PROVE  d = e
  <2>1. PICK k \in Labels :
          /\ student.active[k].begin # NoTime
          /\ \/ /\ student.active[k].gap # NoTime
                /\ d \in Reportable(k, student.active[k].begin, student.active[k].gap)
             \/ /\ student.active[k].gap = NoTime
                /\ d \in Reportable(k, student.active[k].begin, now)
    BY <1>1
  <2>2. k = l
    BY <1>5, <1>6, <2>1, ReportableFacts
  <2> QED BY <1>2, <2>1, <2>2, ReportableFacts
<1>7. Grounded(e)' /\ e \in Reports
  <2>1. CASE c.gap # NoTime
    <3>1. Grounded(e) /\ e \in Reports
      BY <1>2, <1>3, <1>4, <2>1, PausedReported
    <3> QED BY <3>1, Same, GroundedKept
  <2>2. CASE c.gap = NoTime
    <3>1. e \in Reportable(l, c.begin, now)
      BY <1>2, <1>3, <2>2
    <3>2. e = [label |-> l, start |-> c.begin, end |-> now] /\ e.end = now /\ ~(now - c.begin < MinDuration)
      BY <3>1, ReportableFacts
    <3>3. e \in Reports
      BY <1>4, <3>2 DEF Reports
    <3>4. PICK i \in Index : /\ i <= Len(samples) /\ At(i) = c.begin /\ On(i, l) /\ Len(samples) \in Index
                             /\ On(Len(samples), l) /\ Joined(i, Len(samples))
                             /\ Bridged(l, i, Len(samples))
      BY <1>2, <1>3, <1>4, <2>2 DEF Rooted
    <3>5. Extended
      BY Same
    <3>6. PICK n : n = Len(samples) /\ n \in Index
      BY <3>4
    <3>7. /\ i \in Index' /\ n \in Index' /\ At(i)' = c.begin /\ On(i, l)' /\ On(n, l)'
          /\ Joined(i, n)' /\ Bridged(l, i, n)'
      BY <3>4, <3>5, <3>6, Kept
    <3>8. OpenAtEnd(e, n)'
      <4>1. samples # <<>>
        BY <3>6, EmptySeq DEF Index
      <4>2. LongestGap' = MaxGap /\ At(n)' = At(n)
        BY <3>5, <3>6, Kept, Durations
      <4>3. n = Len(samples)'
        BY <3>6
      <4>4. e.end - At(n)' <= MaxGap
        BY <3>2, <3>6, <4>1, <4>2
      <4> QED BY <3>2, <4>2, <4>3, <4>4 DEF OpenAtEnd
    <3>9. Backed(e, i, n)'
      BY <1>5, <3>4, <3>6, <3>7, <3>8 DEF Backed, Bridged
    <3>10. (e.end - e.start >= Shortest)'
      <4>1. Shortest' = MinDuration
        BY <3>5, Kept, Durations
      <4> QED BY <1>4, <1>5, <3>2, <4>1, PolicyAssumption
    <3> QED BY <3>3, <3>7, <3>9, <3>10 DEF Grounded
  <2> QED BY <2>1, <2>2
<1> QED BY <1>2, <1>3, <1>5, <1>6, <1>7

LEMMA FlushSound ==
    ASSUME CaptureTyped, Ordered, Backing, StudentRuns, tool.watches = "student", phase = "running",
           samples' = samples, tool' = tool, phase' \in {"ended", "interrupted"},
           NEW now \in Nat, last' = now, last <= now, now <= clock', clock' \in Nat,
           UNCHANGED <<vision, tracker>>, student' = StudentUnavailable(student),
           NEW new, reported' = reported \cup new,
           \/ new = {}
           \/ /\ samples # <<>> => now - At(Len(samples)) <= MaxGap
              /\ new = StudentFlush(student, now)
    PROVE  SoundInv'
<1>1. \A e \in new :
           /\ Grounded(e)' /\ e \in Reports /\ e.label \in Labels
           /\ student.active[e.label].begin # NoTime /\ e.start = student.active[e.label].begin
           /\ \A d \in new : d.label = e.label => d = e
  BY FlushReport
<1>2. /\ OfWorker(Labels, Kinds, Signals) = Labels /\ Spacing = MergeGap
      /\ reported \subseteq Reports
  BY DEF OfWorker, Spacing, CaptureTyped
<1>3. ASSUME NEW e \in new, NEW d \in reported \cup new
      PROVE  Spaced(d, e) /\ Spaced(e, d)
  <2>1. CASE d \in new
    BY <1>1, <2>1 DEF Spaced
  <2>2. CASE d \in reported /\ d.label = e.label
    <3>1. d.end + MergeGap <= e.start
      BY <1>1, <2>2 DEF StudentRuns
    <3> QED BY <1>2, <3>1 DEF Spaced
  <2>3. CASE d.label # e.label
    BY <2>3 DEF Spaced
  <2> QED BY <2>1, <2>2, <2>3
<1>4. \A e \in new : e.label = "head_away" => Cardinality(FacesBefore(e.start)) >= BaselineMin
  BY <1>1 DEF StudentRuns, Judging
<1>5. Backing'
  BY <1>1, <1>2, <1>3, <1>4, BackingStays
<1>6. Ordered'
  BY HistoryStays
<1>7. student' \in StudentWorkers
  BY EmptySeq DEF StudentUnavailable, StudentIdle, Free, StudentWorkers, Candidates, Times, Labels
<1>8. CaptureTyped'
  BY <1>1, <1>2, <1>7 DEF CaptureTyped
<1> QED BY <1>5, <1>6, <1>8 DEF SoundInv

LEMMA StudentEndsStep ==
    ASSUME SoundInv, StudentEnds
    PROVE  SoundInv'
<1>1. /\ CaptureTyped /\ Ordered /\ Backing /\ phase = "running" /\ tool.watches = "student"
      /\ StudentRuns /\ last \in Nat /\ clock \in Nat /\ last <= clock
  BY DEF SoundInv, StudentEnds, Watching, CaptureTyped, Ordered
<1>2. PICK now, new : now = last /\ new = StudentFlush(student, now)
  OBVIOUS
<1>3. /\ reported' = reported \cup new /\ student' = StudentUnavailable(student)
      /\ UNCHANGED <<vision, tracker, tool, clock, last, samples>> /\ phase' = "ended"
  BY <1>2 DEF StudentEnds, EndsAs
<1>4. samples # <<>> => now - At(Len(samples)) <= MaxGap
  BY <1>1, <1>2, SteadyFacts, PoliciesInUse, PolicyAssumption DEF StudentRuns
<1> QED BY <1>1, <1>2, <1>3, <1>4, FlushSound

LEMMA InterruptedStep ==
    ASSUME SoundInv, NEW dt \in Nat, InterruptedStudent(dt)
    PROVE  SoundInv'
<1>1. PICK now, left, new : /\ now = clock + dt
                            /\ left = IF StudentGap(student, now) THEN StudentIdle ELSE student
                            /\ new = StudentFlush(left, now)
  OBVIOUS
<1>2. /\ CaptureTyped /\ Ordered /\ Backing /\ phase = "running" /\ tool.watches = "student"
      /\ StudentRuns /\ last \in Nat /\ now \in Nat /\ last <= now
  BY <1>1, ClockFacts DEF SoundInv, InterruptedStudent, Watching
<1>3. /\ reported' = reported \cup new /\ student' = StudentUnavailable(student)
      /\ UNCHANGED <<vision, tracker, tool, samples>> /\ phase' = "interrupted"
      /\ clock' = now /\ last' = now /\ ~StudentSkips(student, now) /\ InTime(now)
  BY <1>1 DEF InterruptedStudent
<1>4. StudentGap(student, now) => new = {}
  BY <1>1 DEF StudentFlush, StudentIdle, Running, Free
<1>5. ~StudentGap(student, now) => (samples # <<>> => now - At(Len(samples)) <= MaxGap)
  BY <1>2, <1>3, SteadyFacts, PolicyAssumption DEF StudentGap, StudentRuns
<1>6. ~StudentGap(student, now) => new = StudentFlush(student, now)
  BY <1>1
<1>7. now <= clock' /\ clock' \in Nat /\ phase' \in {"ended", "interrupted"} /\ samples' = samples
  BY <1>2, <1>3
<1>8. CASE StudentGap(student, now)
  BY <1>2, <1>3, <1>4, <1>7, <1>8, FlushSound
<1>9. CASE ~StudentGap(student, now)
  BY <1>2, <1>3, <1>5, <1>6, <1>7, <1>9, FlushSound
<1> QED BY <1>8, <1>9

(* The presenter's worker, as it stands when the gap has been judged.      *)
KeptVision(w, now) == IF VisionGap(w, now) THEN [w EXCEPT !.begun = VisionIdle.begun] ELSE w

LEMMA VisionFacts ==
    /\ VisionIdle \in VisionWorkers
    /\ \A k \in Kinds : VisionIdle.begun[k] = Never
    /\ Never \in Times
BY VisionAssumption DEF VisionIdle, VisionWorkers, Never, Times, NoTime

LEMMA UnavailableFacts ==
    ASSUME NEW w \in VisionWorkers
    PROVE  /\ VisionUnavailable(w) \in VisionWorkers
           /\ VisionUnavailable(w).previous = Never /\ VisionUnavailable(w).begun = VisionIdle.begun
           /\ VisionUnavailable(w).cool = w.cool /\ VisionUnavailable(w).sampling = w.sampling
<1>1. VisionIdle.begun \in [Kinds -> Times]
  BY VisionFacts DEF VisionWorkers
<1> QED BY <1>1, VisionFacts DEF VisionUnavailable, VisionWorkers

LEMMA KeptVisionFacts ==
    ASSUME NEW w \in VisionWorkers, NEW now \in Nat, NEW v, v = KeptVision(w, now)
    PROVE  /\ v \in VisionWorkers /\ v.cool = w.cool /\ v.sampling = w.sampling
           /\ \A k \in Kinds : v.begun[k] # Never => v.begun[k] = w.begun[k] /\ ~VisionGap(w, now)
<1>1. VisionIdle.begun \in [Kinds -> Times]
  BY VisionFacts DEF VisionWorkers
<1> QED BY <1>1, VisionFacts DEF KeptVision, VisionWorkers

LEMMA VisionObserves ==
    ASSUME NEW w \in VisionWorkers, NEW on, NEW now \in Nat, NEW latency \in Nat,
           NEW v, v = KeptVision(w, now), NEW result, result = VisionObserve(w, on, now, latency)
    PROVE  /\ \A k \in Kinds : /\ result.worker.begun[k] = BegunAt(v, k, on, now)
                               /\ result.worker.cool[k] = CoolUntil(v, k, on, now)
BY DEF VisionObserve, KeptVision

LEMMA VisionEvents ==
    ASSUME NEW w, NEW on, NEW now, NEW latency,
           NEW v, v = KeptVision(w, now), NEW result, result = VisionObserve(w, on, now, latency)
    PROVE  \A e : e \in result.events <=> \E k \in Kinds : e \in EndedBy(v, k, on, now)
BY DEF VisionObserve, KeptVision

LEMMA EndedFacts ==
    ASSUME NEW k, NEW begin, NEW end, NEW e \in Ended(k, begin, end)
    PROVE  /\ e = [label |-> k, start |-> begin, end |-> end] /\ ~(end - begin < VisionMinDuration)
           /\ e.label = k /\ e.start = begin /\ e.end = end
BY DEF Ended

LEMMA VisionTyped ==
    ASSUME NEW w \in VisionWorkers, NEW on, NEW now \in Nat, NEW latency \in Nat
    PROVE  VisionObserve(w, on, now, latency).worker \in VisionWorkers
<1>1. PICK v, result : v = KeptVision(w, now) /\ result = VisionObserve(w, on, now, latency)
  OBVIOUS
<1>2. v \in VisionWorkers
  BY <1>1, KeptVisionFacts
<1>3. \A k \in Kinds : BegunAt(v, k, on, now) \in Times /\ CoolUntil(v, k, on, now) \in Nat
  BY <1>2, VisionAssumption DEF BegunAt, CoolUntil, VisionWorkers, Times, Never, NoTime
<1>4. SampledEvery(w, latency) \in 1..MaxSampling
  BY VisionAssumption DEF SampledEvery, VisionWorkers
<1>5. result.worker = [begun |-> [k \in Kinds |-> BegunAt(v, k, on, now)],
                       cool |-> [k \in Kinds |-> CoolUntil(v, k, on, now)],
                       previous |-> now, sampling |-> SampledEvery(w, latency)]
  BY <1>1 DEF VisionObserve, KeptVision
<1> QED BY <1>1, <1>3, <1>4, <1>5 DEF VisionWorkers, Times

-----------------------------------------------------------------------------
(* An unbroken run needs no bridge.                                        *)
LEMMA RunBacks ==
    ASSUME NEW e, NEW i, NEW j, i \in Nat, j \in Nat, i <= j,
           SameUntil(e.label, i, j)', (At(i) = e.start)',
           (OverAfter(e, j) \/ LongEnoughAt(e, i, j) \/ OpenAtEnd(e, j))'
    PROVE  Backed(e, i, j)'
<1>1. i \in i..j /\ j \in i..j
  OBVIOUS
<1>2. \A k \in i..j : On(k, e.label)'
  BY DEF SameUntil
<1>3. \A p, q \in i..j : p < q => p \in p..(q - 1)
  OBVIOUS
<1> QED BY <1>1, <1>2, <1>3 DEF Backed, SameUntil

(* What the presenter's worker holds of a kind.                            *)
LEMMA RunningFacts ==
    ASSUME CaptureTyped, Ordered, PresenterRuns, tool.watches = "presenter",
           NEW k \in Kinds, vision.begun[k] # Never
    PROVE  /\ vision.previous # Never /\ Len(samples) \in Index /\ At(Len(samples)) = vision.previous
           /\ samples # <<>>
           /\ last - vision.previous < vision.sampling
           /\ vision.begun[k] >= vision.cool[k] /\ vision.begun[k] <= last
           /\ vision.begun[k] \in Nat /\ vision.cool[k] \in Nat
           /\ \E i \in Index : At(i) = vision.begun[k] /\ SameUntil(k, i, Len(samples))
<1>1. vision.previous # Never
  BY VisionFacts DEF PresenterRuns
<1>2. vision \in VisionWorkers
  BY DEF CaptureTyped
<1>3. vision.begun[k] \in Nat /\ vision.cool[k] \in Nat
  BY <1>2 DEF VisionWorkers, Times, Never, NoTime
<1>4. samples # <<>> /\ Len(samples) \in Index
  BY <1>1, EmptySeq, LenProperties DEF PresenterRuns, Index, CaptureTyped
<1>5. PICK i \in Index : At(i) = vision.begun[k] /\ SameUntil(k, i, Len(samples))
  BY DEF PresenterRuns
<1>6. vision.begun[k] <= last
  BY <1>5 DEF Ordered
<1> QED BY <1>1, <1>3, <1>4, <1>5, <1>6 DEF PresenterRuns

(* The presenter's worker reads a sample r.                                *)
PresenterSees(n, r, latency) ==
    /\ CaptureTyped /\ Ordered /\ PresenterRuns /\ Backing
    /\ tool.watches = "presenter" /\ phase = "running"
    /\ n \in Nat /\ n = Len(samples) /\ r \in Samples /\ latency \in Nat /\ last <= r.t
    /\ r.shown /\ samples' = Append(samples, r) /\ last' = r.t
    /\ r.t <= clock' /\ clock' \in Nat
    /\ vision' = VisionObserve(vision, r.on, r.t, latency).worker
    /\ reported' = reported \cup VisionObserve(vision, r.on, r.t, latency).events
    /\ UNCHANGED <<tool, phase, student, tracker>>

LEMMA PresenterFacts ==
    ASSUME NEW n, NEW r, NEW latency, PresenterSees(n, r, latency)
    PROVE  /\ r.t \in Nat /\ vision \in VisionWorkers /\ last \in Nat
           /\ Extended /\ Len(samples)' = n + 1 /\ samples' \in Seq(Samples)
           /\ At(n + 1)' = r.t /\ samples'[n + 1] = r /\ (n + 1 \in Index)'
           /\ \A i \in Index : i \in Index' /\ At(i)' = At(i)
           /\ r.shown /\ n \in Nat /\ n < n + 1
           /\ LongestGap = VisionMaxGap /\ Spacing = Cooldown /\ Shortest = VisionMinDuration
           /\ OfWorker(Labels, Kinds, Signals) = Kinds
<1>1. /\ CaptureTyped /\ tool' = tool /\ r \in Samples /\ samples' = Append(samples, r) /\ r.shown
      /\ n \in Nat /\ n = Len(samples) /\ tool.watches = "presenter"
  BY DEF PresenterSees
<1>2. r.t \in Nat /\ vision \in VisionWorkers /\ last \in Nat /\ n < n + 1
  BY <1>1 DEF CaptureTyped, Samples
<1>3. /\ Extended /\ Len(samples)' = n + 1 /\ samples' \in Seq(Samples)
      /\ At(n + 1)' = r.t /\ samples'[n + 1] = r /\ (n + 1 \in Index)'
  BY <1>1, Appended
<1>4. \A i \in Index : i \in Index' /\ At(i)' = At(i)
  BY <1>3, Kept
<1>5. /\ LongestGap = VisionMaxGap /\ Spacing = Cooldown /\ Shortest = VisionMinDuration
      /\ OfWorker(Labels, Kinds, Signals) = Kinds
  BY <1>1, Durations DEF OfWorker
<1> QED BY <1>1, <1>2, <1>3, <1>4, <1>5

(* What the presenter's worker reports was held until the sample.          *)
LEMMA VisionReport ==
    ASSUME NEW n, NEW r, NEW latency, PresenterSees(n, r, latency),
           NEW v, v = KeptVision(vision, r.t),
           NEW k \in Kinds, NEW e \in EndedBy(v, k, r.on, r.t)
    PROVE  /\ Grounded(e)' /\ e \in Reports /\ e.label = k
           /\ vision.begun[k] # Never /\ e.start = vision.begun[k] /\ e.end = r.t
<1>1. /\ k \notin r.on /\ v.begun[k] # Never /\ e \in Ended(k, v.begun[k], r.t)
  BY DEF EndedBy
<1>2. /\ r.t \in Nat /\ vision \in VisionWorkers
  BY PresenterFacts
<1>3. v.begun[k] = vision.begun[k] /\ ~VisionGap(vision, r.t)
  BY <1>1, <1>2, KeptVisionFacts
<1>4. /\ e = [label |-> k, start |-> vision.begun[k], end |-> r.t]
      /\ ~(r.t - vision.begun[k] < VisionMinDuration)
      /\ e.label = k /\ e.start = vision.begun[k] /\ e.end = r.t
  BY <1>1, <1>3, EndedFacts
<1>5. /\ vision.previous # Never /\ n \in Index /\ At(n) = vision.previous
      /\ vision.begun[k] \in Nat
      /\ \E i \in Index : At(i) = vision.begun[k] /\ SameUntil(k, i, n)
  BY <1>1, <1>3, RunningFacts DEF PresenterSees
<1>6. e \in Reports
  BY <1>2, <1>4, <1>5 DEF Reports
<1>7. PICK i \in Index : At(i) = vision.begun[k] /\ SameUntil(k, i, n)
  BY <1>5
<1>8. /\ i \in Index' /\ n \in Index' /\ At(i)' = e.start /\ SameUntil(k, i, n)' /\ i <= n
      /\ At(n)' = At(n) /\ LongestGap' = VisionMaxGap /\ Shortest' = VisionMinDuration
      /\ i \in Nat /\ n \in Nat
  <2>1. i \in Nat /\ n \in Nat /\ i <= n
    BY <1>5, <1>7, PresenterFacts DEF Index, PresenterSees
  <2>2. Extended /\ LongestGap = VisionMaxGap /\ Shortest = VisionMinDuration
    BY PresenterFacts
  <2> QED BY <1>4, <1>5, <1>7, <2>1, <2>2, Kept
<1>9. OverAfter(e, n)'
  <2>1. ~On(n + 1, k)'
    BY <1>1, Appended DEF PresenterSees
  <2>2. samples'[n + 1].shown /\ At(n + 1)' = e.end /\ n < Len(samples)'
    BY <1>4, PresenterFacts
  <2>3. e.end - At(n) <= VisionMaxGap
    <3>1. At(n) \in Nat
      BY <1>2, <1>5 DEF VisionWorkers, Times, Never, NoTime
    <3> QED BY <1>2, <1>3, <1>4, <1>5, <3>1, VisionAssumption DEF VisionGap
  <2> QED BY <1>4, <1>8, <2>1, <2>2, <2>3 DEF OverAfter
<1>10. Backed(e, i, n)'
  BY <1>4, <1>8, <1>9, RunBacks
<1>11. (e.end - e.start >= Shortest)'
  BY <1>2, <1>4, <1>5, <1>8, VisionAssumption
<1> QED BY <1>1, <1>3, <1>4, <1>6, <1>8, <1>10, <1>11 DEF Grounded

LEMMA VisionReports ==
    ASSUME NEW n, NEW r, NEW latency, PresenterSees(n, r, latency),
           NEW events, events = VisionObserve(vision, r.on, r.t, latency).events, NEW e \in events
    PROVE  /\ Grounded(e)' /\ e \in Reports /\ e.label \in Kinds
           /\ vision.begun[e.label] # Never /\ e.start = vision.begun[e.label] /\ e.end = r.t
           /\ vision'.cool[e.label] = r.t + Cooldown
           /\ \A d \in events : d.label = e.label => d = e
<1>1. PICK v, result : /\ v = KeptVision(vision, r.t)
                       /\ result = VisionObserve(vision, r.on, r.t, latency)
  OBVIOUS
<1>2. /\ r.t \in Nat /\ vision \in VisionWorkers /\ latency \in Nat /\ vision' = result.worker
      /\ events = result.events
  BY <1>1, PresenterFacts DEF PresenterSees
<1>3. \A d \in events : \E k \in Kinds : d \in EndedBy(v, k, r.on, r.t)
  BY <1>1, <1>2, VisionEvents
<1>4. PICK k \in Kinds : e \in EndedBy(v, k, r.on, r.t)
  BY <1>3
<1>5. /\ Grounded(e)' /\ e \in Reports /\ e.label = k
      /\ vision.begun[k] # Never /\ e.start = vision.begun[k] /\ e.end = r.t
  BY <1>1, <1>4, VisionReport
<1>6. vision'.cool[k] = r.t + Cooldown
  <2>1. vision'.cool[k] = CoolUntil(v, k, r.on, r.t)
    BY <1>1, <1>2, VisionObserves
  <2> QED BY <1>4, <2>1 DEF CoolUntil
<1>7. ASSUME NEW d \in events, d.label = e.label PROVE d = e
  <2>1. PICK m \in Kinds : d \in EndedBy(v, m, r.on, r.t)
    BY <1>3
  <2>2. m = k
    BY <1>1, <1>5, <1>7, <2>1, VisionReport
  <2>3. d \in Ended(k, v.begun[k], r.t) /\ e \in Ended(k, v.begun[k], r.t)
    BY <1>4, <2>1, <2>2 DEF EndedBy
  <2> QED BY <2>3 DEF Ended
<1> QED BY <1>5, <1>6, <1>7

(* What the presenter's worker holds and reported keeps the cooldown.      *)
LEMMA CoolsKept ==
    ASSUME NEW n, NEW r, NEW latency, PresenterSees(n, r, latency), NEW k \in Kinds
    PROVE  /\ vision'.cool[k] \in Nat /\ vision.cool[k] \in Nat /\ vision'.cool[k] >= vision.cool[k]
           /\ vision'.begun[k] # Never =>
                /\ vision'.begun[k] >= vision'.cool[k]
                /\ \E i \in Index' : At(i)' = vision'.begun[k] /\ SameUntil(k, i, n + 1)'
<1>1. PICK v, result : /\ v = KeptVision(vision, r.t)
                       /\ result = VisionObserve(vision, r.on, r.t, latency)
  OBVIOUS
<1>2. /\ r.t \in Nat /\ vision \in VisionWorkers /\ latency \in Nat /\ vision' = result.worker
      /\ Cooldown \in Nat /\ last \in Nat /\ last <= r.t
  BY <1>1, PresenterFacts, VisionAssumption DEF PresenterSees
<1>3. /\ vision'.begun[k] = BegunAt(v, k, r.on, r.t) /\ vision'.cool[k] = CoolUntil(v, k, r.on, r.t)
  BY <1>1, <1>2, VisionObserves
<1>4. /\ v \in VisionWorkers /\ v.cool[k] = vision.cool[k] /\ v.cool[k] \in Nat
      /\ v.begun[k] # Never => v.begun[k] = vision.begun[k] /\ ~VisionGap(vision, r.t)
  BY <1>1, <1>2, KeptVisionFacts DEF VisionWorkers
<1>5. v.begun[k] # Never =>
         /\ vision.begun[k] >= vision.cool[k] /\ vision.begun[k] <= r.t /\ vision.begun[k] \in Nat
         /\ n \in Index /\ At(n) = vision.previous /\ vision.previous # Never
         /\ \E i \in Index : At(i) = vision.begun[k] /\ SameUntil(k, i, n)
  BY <1>2, <1>4, RunningFacts DEF PresenterSees
<1>6. vision'.cool[k] \in Nat /\ vision'.cool[k] >= vision.cool[k]
  <2>1. CASE EndedBy(v, k, r.on, r.t) = {}
    BY <1>3, <1>4, <2>1 DEF CoolUntil
  <2>2. CASE EndedBy(v, k, r.on, r.t) # {}
    <3>1. v.begun[k] # Never
      BY <2>2 DEF EndedBy
    <3> QED BY <1>2, <1>3, <1>4, <1>5, <2>2, <3>1 DEF CoolUntil
  <2> QED BY <2>1, <2>2
<1>7. ASSUME vision'.begun[k] # Never
      PROVE  /\ vision'.begun[k] >= vision'.cool[k]
             /\ \E i \in Index' : At(i)' = vision'.begun[k] /\ SameUntil(k, i, n + 1)'
  <2>1. k \in r.on /\ vision'.cool[k] = vision.cool[k]
    BY <1>3, <1>4, <1>7 DEF BegunAt, CoolUntil, EndedBy
  <2>2. CASE v.begun[k] = Never
    <3>1. r.t >= vision.cool[k] /\ vision'.begun[k] = r.t
      BY <1>3, <1>4, <1>7, <2>1, <2>2 DEF BegunAt, Continues
    <3>2. SameUntil(k, n + 1, n + 1)'
      BY <2>1, Appended DEF PresenterSees
    <3> QED BY <2>1, <3>1, <3>2, PresenterFacts
  <2>3. CASE v.begun[k] # Never
    <3>1. vision'.begun[k] = vision.begun[k]
      BY <1>3, <1>4, <2>1, <2>3 DEF BegunAt
    <3>2. PICK i \in Index : At(i) = vision.begun[k] /\ SameUntil(k, i, n)
      BY <1>5, <2>3
    <3>3. r.t - At(n) <= LongestGap
      <4>1. At(n) \in Nat
        BY <1>2, <1>5, <2>3 DEF VisionWorkers, Times, Never, NoTime
      <4> QED BY <1>2, <1>4, <1>5, <2>3, <4>1, VisionAssumption, PresenterFacts DEF VisionGap
    <3>4. SameUntil(k, i, n + 1)'
      BY <2>1, <3>2, <3>3, Appended DEF PresenterSees
    <3> QED BY <1>5, <2>1, <2>3, <3>1, <3>2, <3>4, PresenterFacts
  <2> QED BY <2>2, <2>3
<1> QED BY <1>4, <1>6, <1>7

LEMMA PresenterRead ==
    ASSUME NEW n, NEW r, NEW latency, PresenterSees(n, r, latency)
    PROVE  SoundInv'
<1>1. PICK events : events = VisionObserve(vision, r.on, r.t, latency).events
  OBVIOUS
<1>2. reported' = reported \cup events /\ reported \subseteq Reports
  BY <1>1 DEF PresenterSees, CaptureTyped
<1>3. /\ r.t \in Nat /\ vision \in VisionWorkers /\ Extended /\ samples' \in Seq(Samples)
      /\ Len(samples)' = n + 1 /\ At(n + 1)' = r.t /\ samples'[n + 1] = r
      /\ Spacing = Cooldown /\ OfWorker(Labels, Kinds, Signals) = Kinds /\ Cooldown \in Nat
  BY PresenterFacts, VisionAssumption
<1>4. \A e \in events :
         /\ Grounded(e)' /\ e \in Reports /\ e.label \in Kinds
         /\ vision.begun[e.label] # Never /\ e.start = vision.begun[e.label] /\ e.end = r.t
         /\ vision'.cool[e.label] = r.t + Cooldown
         /\ \A d \in events : d.label = e.label => d = e
  BY <1>1, VisionReports
<1>5. \A e \in reported : e.end + Cooldown <= vision.cool[e.label] /\ e.label \in Kinds /\ e.end \in Nat
  BY <1>2, <1>3 DEF PresenterSees, PresenterRuns, Backing, Reports
<1>6. ASSUME NEW e \in events, NEW d \in reported \cup events
      PROVE  Spaced(d, e) /\ Spaced(e, d)
  <2>1. CASE d \in events
    BY <1>4, <2>1 DEF Spaced
  <2>2. CASE d \in reported /\ d.label = e.label
    <3>1. d.end + Cooldown <= vision.cool[e.label]
      BY <1>5, <2>2
    <3>2. e.start >= vision.cool[e.label] /\ e.start \in Nat /\ vision.cool[e.label] \in Nat
      BY <1>4, RunningFacts DEF PresenterSees
    <3>3. d.end + Cooldown <= e.start
      BY <1>3, <1>5, <2>2, <3>1, <3>2
    <3> QED BY <1>3, <3>3 DEF Spaced
  <2>3. CASE d.label # e.label
    BY <2>3 DEF Spaced
  <2> QED BY <2>1, <2>2, <2>3
<1>7. Backing'
  BY <1>2, <1>3, <1>4, <1>6, BackingGrows DEF PresenterSees
<1>8. Ordered'
  BY SampleTimes DEF PresenterSees
<1>9. vision' \in VisionWorkers
  BY <1>3, VisionTyped DEF PresenterSees
<1>10. CaptureTyped'
  BY <1>2, <1>3, <1>4, <1>9 DEF CaptureTyped, PresenterSees
<1>11. PresenterRuns'
  <2>1. vision'.previous = r.t /\ r.t # Never
    BY <1>3 DEF VisionObserve, PresenterSees, Never
  <2>2. samples' # <<>>
    BY <1>3, EmptySeq DEF PresenterSees
  <2>3. (samples[Len(samples)].shown /\ At(Len(samples)) = vision.previous)'
    BY <1>3, <2>1 DEF PresenterSees
  <2>4. (last - vision.previous < vision.sampling)'
    BY <1>3, <1>9, <2>1, VisionAssumption DEF PresenterSees, VisionWorkers
  <2>5. \A k \in Kinds : vision'.begun[k] # Never =>
          /\ vision'.begun[k] >= vision'.cool[k]
          /\ (\E i \in Index : At(i) = vision.begun[k] /\ SameUntil(k, i, Len(samples)))'
    BY <1>3, CoolsKept
  <2>6. \A e \in reported' : e.end + Cooldown <= vision'.cool[e.label]
    <3> SUFFICES ASSUME NEW e \in reported' PROVE e.end + Cooldown <= vision'.cool[e.label]
      OBVIOUS
    <3>1. CASE e \in reported
      BY <1>3, <1>5, <3>1, CoolsKept
    <3>2. CASE e \in events
      BY <1>3, <1>4, <3>2
    <3> QED BY <1>2, <3>1, <3>2
  <2> QED BY <2>1, <2>2, <2>3, <2>4, <2>5, <2>6 DEF PresenterRuns
<1> QED BY <1>7, <1>8, <1>10, <1>11 DEF SoundInv, PresenterSees

LEMMA FlaggedKinds ==
    ASSUME NEW v, NEW board
    PROVE  Flagged(v, board) \subseteq Kinds
BY DEF Flagged, Judged

(* A frame of the presenter is a sample of its worker.                     *)
LEMMA PresenterReads ==
    ASSUME SoundInv, NEW dt \in Nat, NEW v, NEW latency \in Nat, ReadPresenterFrame(dt, v, latency)
    PROVE  \E n, r : PresenterSees(n, r, latency)
<1>1. PICK now, on, r : /\ now = clock + dt /\ on = Flagged(v, tool.board)
                        /\ r = [t |-> now, on |-> on, face |-> FALSE, shown |-> TRUE]
  OBVIOUS
<1>2. /\ CaptureTyped /\ Ordered /\ Backing /\ phase = "running" /\ tool.watches = "presenter"
      /\ PresenterRuns
  BY DEF SoundInv, ReadPresenterFrame, Watching
<1>3. now \in Nat /\ last <= now
  BY <1>1, <1>2, ClockFacts
<1>4. /\ r.t = now /\ r.on = on /\ r.shown /\ r \in Samples
  BY <1>1, <1>3, FlaggedKinds DEF Samples
<1>5. /\ clock' = (IF tool.live THEN now + latency ELSE now) /\ last' = now
      /\ vision' = VisionObserve(vision, on, now, latency).worker
      /\ reported' = reported \cup VisionObserve(vision, on, now, latency).events
      /\ samples' = Append(samples, r)
      /\ UNCHANGED <<tool, student, tracker, phase>>
  BY <1>1 DEF ReadPresenterFrame, Saw
<1>6. now <= clock' /\ clock' \in Nat
  BY <1>3, <1>5
<1>7. PICK n : n = Len(samples)
  OBVIOUS
<1>8. n \in Nat
  BY <1>2, <1>7, LenProperties DEF CaptureTyped
<1>9. PresenterSees(n, r, latency)
  BY <1>2, <1>3, <1>4, <1>5, <1>6, <1>7, <1>8 DEF PresenterSees
<1> QED BY <1>9

LEMMA ReadPresenterStep ==
    ASSUME SoundInv, NEW dt \in Nat, NEW v, NEW latency \in Nat, ReadPresenterFrame(dt, v, latency)
    PROVE  SoundInv'
BY PresenterReads, PresenterRead

LEMMA SkipPresenterStep ==
    ASSUME SoundInv, NEW dt \in Nat, SkipPresenterFrame(dt)
    PROVE  SoundInv'
<1>1. PICK now : now = clock + dt
  OBVIOUS
<1>2. /\ CaptureTyped /\ Ordered /\ Backing /\ phase = "running" /\ tool.watches = "presenter"
      /\ PresenterRuns /\ now \in Nat /\ last \in Nat /\ last <= now
  BY <1>1, ClockFacts DEF SoundInv, SkipPresenterFrame, Watching
<1>3. /\ VisionSkips(vision, now) /\ clock' = now /\ last' = now
      /\ UNCHANGED <<tool, student, vision, tracker, reported, samples, phase>>
  BY <1>1 DEF SkipPresenterFrame, workers
<1>4. Ordered' /\ CaptureTyped' /\ Backing'
  <2>1. Ordered'
    BY <1>2, <1>3, HistoryStays
  <2>2. CaptureTyped'
    BY <1>2, <1>3 DEF CaptureTyped
  <2> QED BY <1>2, <1>3, <2>1, <2>2, NothingAdded
<1>5. vision.previous # Never /\ now - vision.previous < vision.sampling
  BY <1>3 DEF VisionSkips
<1>6. Index' = Index /\ (\A i : At(i)' = At(i)) /\ (\A i, l : On(i, l)' <=> On(i, l))
  BY <1>3 DEF Index, At, On
<1>7. \A l, i, j : SameUntil(l, i, j)' <=> SameUntil(l, i, j)
  BY <1>3, <1>6 DEF SameUntil, Joined, LongestGap, OfWorker
<1>8. PresenterRuns'
  BY <1>2, <1>3, <1>5, <1>6, <1>7 DEF PresenterRuns
<1> QED BY <1>2, <1>3, <1>4, <1>8 DEF SoundInv

LEMMA TileHiddenStep ==
    ASSUME SoundInv, NEW dt \in Nat, TileHidden(dt)
    PROVE  SoundInv'
<1>1. PICK now : now = clock + dt
  OBVIOUS
<1>2. /\ CaptureTyped /\ Ordered /\ Backing /\ phase = "running" /\ tool.watches = "presenter"
      /\ PresenterRuns /\ now \in Nat /\ last \in Nat /\ last <= now /\ vision \in VisionWorkers
  BY <1>1, ClockFacts DEF SoundInv, TileHidden, Watching, CaptureTyped
<1>3. PICK r : r = [t |-> now, on |-> {}, face |-> FALSE, shown |-> FALSE]
  OBVIOUS
<1>4. r \in Samples /\ r.t = now
  BY <1>2, <1>3 DEF Samples
<1>5. /\ clock' = now /\ last' = now /\ vision' = VisionUnavailable(vision)
      /\ samples' = samples \/ samples' = Append(samples, r)
      /\ UNCHANGED <<tool, student, tracker, reported, phase>>
  BY <1>1, <1>3 DEF TileHidden, Saw
<1>6. /\ vision' \in VisionWorkers /\ vision'.previous = Never /\ vision'.begun = VisionIdle.begun
      /\ vision'.cool = vision.cool
  BY <1>2, <1>5, UnavailableFacts
<1>7. PresenterRuns'
  BY <1>2, <1>5, <1>6, VisionFacts DEF PresenterRuns
<1>8. Ordered' /\ samples' \in Seq(Samples) /\ Backing'
  <2>1. CASE samples' = samples
    BY <1>2, <1>5, <2>1, HistoryStays, NothingAdded DEF CaptureTyped
  <2>2. CASE samples' = Append(samples, r)
    <3>1. PICK n : n = Len(samples)
      OBVIOUS
    <3>2. n \in Nat
      BY <1>2, <3>1, LenProperties DEF CaptureTyped
    <3>3. Ordered'
      BY <1>2, <1>4, <1>5, <2>2, <3>1, <3>2, SampleTimes
    <3>4. Extended /\ samples' \in Seq(Samples)
      BY <1>2, <1>4, <1>5, <2>2, Grown
    <3>5. PICK new : new = {}
      OBVIOUS
    <3>6. reported' = reported \cup new
      BY <1>5, <3>5
    <3>7. /\ \A e \in new : Grounded(e)' /\ e.label \in OfWorker(Labels, Kinds, Signals)
          /\ \A e \in new : \A d \in reported \cup new : Spaced(d, e) /\ Spaced(e, d)
          /\ tool.watches # "student"
      BY <1>2, <3>5
    <3>8. Backing'
      BY <1>2, <3>4, <3>6, <3>7, BackingGrows
    <3> QED BY <3>3, <3>4, <3>8
  <2> QED BY <1>5, <2>1, <2>2
<1>9. CaptureTyped'
  BY <1>2, <1>5, <1>6, <1>8 DEF CaptureTyped
<1> QED BY <1>2, <1>5, <1>7, <1>8, <1>9 DEF SoundInv

-----------------------------------------------------------------------------
(* A replay ends: what is open closes where the recording does.            *)
LEMMA ReplayReport ==
    ASSUME CaptureTyped, Ordered, PresenterRuns, tool.watches = "presenter",
           samples' = samples, tool' = tool, phase' = "ended", last' = last,
           NEW e \in VisionFlush(vision, last)
    PROVE  /\ Grounded(e)' /\ e \in Reports /\ e.label \in Kinds
           /\ vision.begun[e.label] # Never /\ e.start = vision.begun[e.label] /\ e.end = last
<1>1. PICK k \in Kinds : vision.begun[k] # Never /\ e \in Ended(k, vision.begun[k], last)
  BY DEF VisionFlush
<1>2. /\ e = [label |-> k, start |-> vision.begun[k], end |-> last]
      /\ ~(last - vision.begun[k] < VisionMinDuration)
      /\ e.label = k /\ e.start = vision.begun[k] /\ e.end = last
  BY <1>1, EndedFacts
<1>3. PICK n : n = Len(samples)
  OBVIOUS
<1>4. /\ vision.previous # Never /\ n \in Index /\ At(n) = vision.previous
      /\ vision.begun[k] \in Nat /\ last - vision.previous < vision.sampling
      /\ \E i \in Index : At(i) = vision.begun[k] /\ SameUntil(k, i, n)
  BY <1>1, <1>3, RunningFacts
<1>5. last \in Nat /\ vision.sampling \in 1..MaxSampling /\ vision.previous \in Nat
  BY <1>4 DEF CaptureTyped, VisionWorkers, Times, Never, NoTime
<1>6. PICK i \in Index : At(i) = vision.begun[k] /\ SameUntil(k, i, n)
  BY <1>4
<1>7. Extended
  BY Same
<1>8. /\ i \in Index' /\ n \in Index' /\ At(i)' = e.start /\ SameUntil(k, i, n)' /\ i <= n
      /\ At(n)' = At(n) /\ LongestGap' = VisionMaxGap /\ Shortest' = VisionMinDuration
      /\ i \in Nat /\ n \in Nat /\ n = Len(samples)'
  BY <1>2, <1>3, <1>4, <1>6, <1>7, Kept, Durations, LenProperties DEF Index, CaptureTyped
<1>9. OpenAtEnd(e, n)'
  <2>1. e.end - At(n) <= VisionMaxGap
    BY <1>2, <1>4, <1>5, PoliciesInUse, VisionAssumption
  <2> QED BY <1>2, <1>8, <2>1 DEF OpenAtEnd
<1>10. Backed(e, i, n)'
  BY <1>2, <1>8, <1>9, RunBacks
<1>11. (e.end - e.start >= Shortest)'
  BY <1>2, <1>4, <1>5, <1>8, VisionAssumption
<1>12. e \in Reports
  BY <1>2, <1>4, <1>5 DEF Reports
<1> QED BY <1>1, <1>2, <1>8, <1>10, <1>11, <1>12 DEF Grounded

LEMMA ReplayEndsStep ==
    ASSUME SoundInv, ReplayEnds
    PROVE  SoundInv'
<1>1. /\ CaptureTyped /\ Ordered /\ Backing /\ phase = "running" /\ tool.watches = "presenter"
      /\ PresenterRuns /\ last \in Nat /\ clock \in Nat /\ last <= clock /\ vision \in VisionWorkers
      /\ reported \subseteq Reports
  BY DEF SoundInv, ReplayEnds, Watching, CaptureTyped, Ordered
<1>2. PICK new : new = VisionFlush(vision, last)
  OBVIOUS
<1>3. /\ reported' = reported \cup new /\ vision' = VisionUnavailable(vision)
      /\ UNCHANGED <<student, tracker, tool, clock, last, samples>> /\ phase' = "ended"
  BY <1>2 DEF ReplayEnds, EndsAs
<1>4. \A e \in new :
         /\ Grounded(e)' /\ e \in Reports /\ e.label \in Kinds
         /\ vision.begun[e.label] # Never /\ e.start = vision.begun[e.label] /\ e.end = last
  BY <1>1, <1>2, <1>3, ReplayReport
<1>5. OfWorker(Labels, Kinds, Signals) = Kinds /\ Spacing = Cooldown /\ Cooldown \in Nat
  BY <1>1, VisionAssumption DEF OfWorker, Spacing
<1>6. \A d, e \in new : d.label = e.label => d = e
  BY <1>4 DEF Reports
<1>7. ASSUME NEW e \in new, NEW d \in reported \cup new
      PROVE  Spaced(d, e) /\ Spaced(e, d)
  <2>1. CASE d \in new
    BY <1>6, <2>1 DEF Spaced
  <2>2. CASE d \in reported /\ d.label = e.label
    <3>1. d.end + Cooldown <= vision.cool[e.label] /\ d.end \in Nat
      BY <1>1, <2>2 DEF PresenterRuns, Reports
    <3>2. e.start >= vision.cool[e.label] /\ e.start \in Nat /\ vision.cool[e.label] \in Nat
      BY <1>1, <1>4, RunningFacts
    <3>3. d.end + Cooldown <= e.start
      BY <1>5, <3>1, <3>2
    <3> QED BY <1>5, <3>3 DEF Spaced
  <2>3. CASE d.label # e.label
    BY <2>3 DEF Spaced
  <2> QED BY <2>1, <2>2, <2>3
<1>8. Backing'
  BY <1>1, <1>3, <1>4, <1>5, <1>7, BackingStays
<1>9. Ordered'
  BY <1>1, <1>3, HistoryStays
<1>10. CaptureTyped'
  BY <1>1, <1>3, <1>4, UnavailableFacts DEF CaptureTyped
<1> QED BY <1>3, <1>8, <1>9, <1>10 DEF SoundInv

(* The desktop's tracker, as it stands when the gap has been judged.       *)
KeptCandidates(w, now) == IF TrackerGap(w, now) THEN TrackerIdle.candidates ELSE w.candidates
HeldCandidate(c, l, on, now) == IF l \in on THEN Begun(c, now) ELSE c

Tracked == [begin : Times, emitted : BOOLEAN]

LEMMA TrackerFacts ==
    /\ TrackerIdle \in Trackers
    /\ NoCandidate \in Tracked /\ NoCandidate.begin = Unseen /\ ~NoCandidate.emitted
    /\ \A l \in Signals : TrackerIdle.candidates[l] = NoCandidate
    /\ \A t \in Times : t # Unseen <=> t \in Nat
BY DEF TrackerIdle, Trackers, NoCandidate, Unseen, Times, NoTime, Tracked

LEMMA TrackerObserves ==
    ASSUME NEW w, NEW on, NEW now, NEW result, result = TrackerObserve(w, on, now),
           NEW l \in Signals, NEW c, c = KeptCandidates(w, now)[l]
    PROVE  /\ result.worker.candidates[l] = Followed(l, c, l \in on, now)
           /\ result.worker.previous = now
BY DEF TrackerObserve, KeptCandidates

LEMMA TrackerEvents ==
    ASSUME NEW w, NEW on, NEW now, NEW result, result = TrackerObserve(w, on, now)
    PROVE  \A e : e \in result.events <=>
              \E l \in Signals : e \in Closing(l, HeldCandidate(KeptCandidates(w, now)[l], l, on, now), now)
BY DEF TrackerObserve, KeptCandidates, HeldCandidate

LEMMA ClosingFacts ==
    ASSUME NEW l, NEW c \in Tracked, c.begin = Unseen => ~c.emitted, NEW end, NEW e \in Closing(l, c, end)
    PROVE  /\ e = [label |-> l, start |-> c.begin, end |-> end] /\ ~(end - c.begin < TrackerMinDuration)
           /\ e.label = l /\ e.start = c.begin /\ e.end = end
           /\ c.begin # Unseen /\ c.begin \in Nat /\ ~c.emitted
           /\ \A d \in Closing(l, c, end) : d = e
<1>1. c # NoCandidate /\ ~c.emitted /\ ~(end - c.begin < TrackerMinDuration)
      /\ e = [label |-> l, start |-> c.begin, end |-> end]
  BY DEF Closing
<1>2. c.begin # Unseen
  BY <1>1 DEF Tracked, NoCandidate
<1>3. c.begin \in Nat
  BY <1>2, TrackerFacts DEF Tracked
<1>4. \A d \in Closing(l, c, end) : d = e
  BY <1>1 DEF Closing
<1> QED BY <1>1, <1>2, <1>3, <1>4

LEMMA FollowedFacts ==
    ASSUME NEW l, NEW c \in Tracked, c.begin = Unseen => ~c.emitted, NEW now \in Nat, NEW on,
           NEW a, a = Followed(l, c, l \in on, now)
    PROVE  /\ a \in Tracked
           /\ a.begin = Unseen => ~a.emitted
           /\ a.begin # Unseen => /\ l \in on /\ a.begin = HeldCandidate(c, l, on, now).begin
                                  /\ a.begin = now \/ a.begin = c.begin
                                  /\ ~a.emitted => /\ Closing(l, HeldCandidate(c, l, on, now), now) = {}
                                                   /\ now - a.begin < TrackerMinDuration
                                                   /\ c.begin = Unseen \/ ~c.emitted
<1>1. CASE l \notin on
  BY <1>1, TrackerFacts DEF Followed
<1>2. CASE l \in on
  <2>1. PICK g : g = Begun(c, now)
    OBVIOUS
  <2>2. /\ g \in Tracked /\ (g.begin = now \/ g.begin = c.begin) /\ g.begin # Unseen
        /\ g.emitted => c.emitted /\ g.begin = c.begin
        /\ ~g.emitted => ~c.emitted
    <3>1. CASE c = NoCandidate
      BY <2>1, <3>1, TrackerFacts DEF Begun, Tracked, Times, Unseen
    <3>2. CASE c # NoCandidate
      BY <2>1, <3>2 DEF Begun, Tracked, NoCandidate
    <3> QED BY <3>1, <3>2
  <2>3. a = [g EXCEPT !.emitted = g.emitted \/ Closing(l, g, now) # {}]
    BY <1>2, <2>1 DEF Followed
  <2>4. a \in Tracked /\ a.begin = g.begin
    BY <2>2, <2>3 DEF Tracked
  <2>5. ~a.emitted => ~g.emitted /\ Closing(l, g, now) = {}
    BY <2>2, <2>3 DEF Tracked
  <2>6. ~g.emitted /\ Closing(l, g, now) = {} => now - g.begin < TrackerMinDuration
    <3>1. g # NoCandidate
      BY <2>2, TrackerFacts
    <3> QED BY <3>1 DEF Closing
  <2>7. HeldCandidate(c, l, on, now) = g
    BY <1>2, <2>1 DEF HeldCandidate
  <2> QED BY <1>2, <2>2, <2>4, <2>5, <2>6, <2>7
<1> QED BY <1>1, <1>2

LEMMA TrackerTyped ==
    ASSUME NEW w \in Trackers, \A l \in Signals : w.candidates[l].begin = Unseen => ~w.candidates[l].emitted,
           NEW on, NEW now \in Nat
    PROVE  TrackerObserve(w, on, now).worker \in Trackers
<1>1. \A l \in Signals : Followed(l, KeptCandidates(w, now)[l], l \in on, now) \in Tracked
  <2> SUFFICES ASSUME NEW l \in Signals
               PROVE  Followed(l, KeptCandidates(w, now)[l], l \in on, now) \in Tracked
    OBVIOUS
  <2>1. PICK c, a : c = KeptCandidates(w, now)[l] /\ a = Followed(l, c, l \in on, now)
    OBVIOUS
  <2>2. c \in Tracked /\ (c.begin = Unseen => ~c.emitted)
    BY <2>1, TrackerFacts DEF KeptCandidates, Trackers, Tracked
  <2>3. a \in Tracked
    BY <2>1, <2>2, FollowedFacts
  <2> QED BY <2>1, <2>3
<1>2. TrackerObserve(w, on, now).worker =
          [candidates |-> [l \in Signals |-> Followed(l, KeptCandidates(w, now)[l], l \in on, now)],
           previous |-> now]
  BY DEF TrackerObserve, KeptCandidates
<1> QED BY <1>1, <1>2 DEF Trackers, Tracked, Times

(* The desktop's tracker observes a sample r.                              *)
TrackerSees(n, r) ==
    /\ CaptureTyped /\ Ordered /\ DesktopRuns /\ Backing
    /\ tool.watches = "desktop" /\ phase = "running"
    /\ n \in Nat /\ n = Len(samples) /\ r \in Samples /\ last <= r.t
    /\ r.shown /\ samples' = Append(samples, r) /\ last' = r.t /\ clock' = r.t
    /\ \A i \in Index : At(i) < r.t
    /\ tracker' = TrackerObserve(tracker, r.on, r.t).worker
    /\ reported' = reported \cup TrackerObserve(tracker, r.on, r.t).events
    /\ UNCHANGED <<tool, phase, student, vision>>

LEMMA CandidateFacts ==
    ASSUME CaptureTyped, DesktopRuns, NEW l \in Signals, NEW c, c = tracker.candidates[l]
    PROVE  /\ c \in Tracked /\ (c.begin = Unseen => ~c.emitted)
           /\ c.begin # Unseen =>
                 /\ c.begin \in Nat /\ samples # <<>> /\ Len(samples) \in Index
                 /\ \E i \in Index : At(i) = c.begin /\ SameUntil(l, i, Len(samples))
                 /\ ~c.emitted => /\ At(Len(samples)) - c.begin < TrackerMinDuration
                                  /\ \A e \in reported : e.label = l => e.end <= c.begin
<1>1. c \in Tracked /\ Len(samples) \in Nat
  BY LenProperties DEF CaptureTyped, Trackers, Tracked
<1>2. c.begin # Unseen => c.begin \in Nat
  BY <1>1, TrackerFacts DEF Tracked
<1>3. c.begin # Unseen => \E i \in Index : At(i) = c.begin /\ SameUntil(l, i, Len(samples))
  BY DEF DesktopRuns
<1>4. (\E i : i \in Index) => samples # <<>> /\ Len(samples) \in Index
  BY <1>1, EmptySeq DEF Index
<1> QED BY <1>1, <1>2, <1>3, <1>4 DEF DesktopRuns

LEMMA TickFacts ==
    ASSUME NEW n, NEW r, TrackerSees(n, r)
    PROVE  /\ r.t \in Nat /\ tracker \in Trackers /\ last \in Nat
           /\ Extended /\ Len(samples)' = n + 1 /\ samples' \in Seq(Samples)
           /\ At(n + 1)' = r.t /\ samples'[n + 1] = r /\ (n + 1 \in Index)'
           /\ \A i \in Index : i \in Index' /\ At(i)' = At(i) /\ At(i) \in Nat /\ At(i) < r.t
           /\ \A i \in Index : samples[i].shown
           /\ \A i, j \in Index : i < j => At(i) < At(j)
           /\ samples # <<>> => n \in Index /\ tracker.previous = At(n)
           /\ r.shown /\ n \in Nat /\ n < n + 1
           /\ LongestGap = TrackerMaxGap /\ Spacing = 0 /\ Shortest = TrackerMinDuration
           /\ OfWorker(Labels, Kinds, Signals) = Signals
<1>1. /\ \A i \in Index : At(i) \in Nat /\ samples[i].shown
      /\ \A i, j \in Index : i < j => At(i) < At(j)
      /\ samples # <<>> => n \in Index /\ tracker.previous = At(n)
  BY SteadyFacts DEF TrackerSees, DesktopRuns, InStep
<1>2. /\ LongestGap = TrackerMaxGap /\ Spacing = 0 /\ Shortest = TrackerMinDuration
      /\ OfWorker(Labels, Kinds, Signals) = Signals
  BY Durations DEF TrackerSees, OfWorker
<1>3. /\ r.t \in Nat /\ tracker \in Trackers /\ last \in Nat /\ r.shown /\ n \in Nat /\ n < n + 1
      /\ \A i \in Index : At(i) < r.t
  BY DEF TrackerSees, CaptureTyped, Samples
<1>4. /\ Extended /\ Len(samples)' = n + 1 /\ samples' \in Seq(Samples)
      /\ At(n + 1)' = r.t /\ samples'[n + 1] = r /\ (n + 1 \in Index)'
      /\ \A i \in Index : i \in Index' /\ At(i)' = At(i)
  BY Appended, Kept DEF TrackerSees
<1> QED BY <1>1, <1>2, <1>3, <1>4

(* What the tracker still holds of a condition goes on to the sample.      *)
LEMMA KeptFacts ==
    ASSUME NEW n, NEW r, TrackerSees(n, r), NEW l \in Signals, NEW c, c = KeptCandidates(tracker, r.t)[l]
    PROVE  /\ c \in Tracked /\ (c.begin = Unseen => ~c.emitted)
           /\ c.begin # Unseen =>
                 /\ c = tracker.candidates[l] /\ c.begin \in Nat /\ n \in Index
                 /\ r.t - At(n) <= TrackerMaxGap
                 /\ \E i \in Index : At(i) = c.begin /\ SameUntil(l, i, n)
                 /\ ~c.emitted => /\ At(n) - c.begin < TrackerMinDuration
                                  /\ \A e \in reported : e.label = l => e.end <= c.begin
<1>1. CASE TrackerGap(tracker, r.t)
  <2>1. c = NoCandidate
    BY <1>1, TrackerFacts DEF KeptCandidates
  <2> QED BY <2>1, TrackerFacts
<1>2. CASE ~TrackerGap(tracker, r.t)
  <2>1. c = tracker.candidates[l]
    BY <1>2 DEF KeptCandidates
  <2>2. CaptureTyped /\ DesktopRuns /\ n = Len(samples)
    BY DEF TrackerSees
  <2>3. samples # <<>> => r.t - At(n) <= TrackerMaxGap
    <3>1. samples # <<>> => At(n) \in Nat /\ tracker.previous = At(n) /\ r.t \in Nat
      BY TickFacts
    <3> QED BY <1>2, <3>1, TrackerAssumption DEF TrackerGap, Unseen
  <2> QED BY <2>1, <2>2, <2>3, CandidateFacts
<1> QED BY <1>1, <1>2

(* What the tracker tells lasts just long enough, or is over.             *)
LEMMA TickReport ==
    ASSUME NEW n, NEW r, TrackerSees(n, r),
           NEW l \in Signals, NEW c, c = KeptCandidates(tracker, r.t)[l],
           NEW g, g = HeldCandidate(c, l, r.on, r.t), NEW e \in Closing(l, g, r.t)
    PROVE  /\ Grounded(e)' /\ e \in Reports /\ e.label = l /\ e.end = r.t
           /\ \A d \in reported : d.label = l => d.end <= e.start
           /\ \A d \in Closing(l, g, r.t) : d = e
<1>1. /\ c \in Tracked /\ (c.begin = Unseen => ~c.emitted) /\ r.t \in Nat
      /\ c.begin # Unseen =>
                 /\ c = tracker.candidates[l] /\ c.begin \in Nat /\ n \in Index
                 /\ r.t - At(n) <= TrackerMaxGap
                 /\ \E i \in Index : At(i) = c.begin /\ SameUntil(l, i, n)
                 /\ ~c.emitted => /\ At(n) - c.begin < TrackerMinDuration
                                  /\ \A d \in reported : d.label = l => d.end <= c.begin
  BY KeptFacts, TickFacts
<1>2. g = c \/ (c = NoCandidate /\ g = [begin |-> r.t, emitted |-> FALSE])
  BY DEF HeldCandidate, Begun
<1>3. g \in Tracked /\ (g.begin = Unseen => ~g.emitted)
  <2>1. CASE g = c
    BY <1>1, <2>1
  <2>2. CASE g = [begin |-> r.t, emitted |-> FALSE]
    <3>1. g.begin = r.t /\ g.emitted = FALSE /\ g \in Tracked
      BY <1>1, <2>2 DEF Tracked, Times
    <3> QED BY <3>1
  <2> QED BY <1>2, <2>1, <2>2
<1>4. /\ e = [label |-> l, start |-> g.begin, end |-> r.t] /\ ~(r.t - g.begin < TrackerMinDuration)
      /\ e.label = l /\ e.start = g.begin /\ e.end = r.t
      /\ g.begin # Unseen /\ g.begin \in Nat /\ ~g.emitted
      /\ \A d \in Closing(l, g, r.t) : d = e
  BY <1>3, ClosingFacts
<1>5. g = c
  BY <1>1, <1>2, <1>4, TrackerAssumption
<1>6. /\ n \in Index /\ r.t - At(n) <= TrackerMaxGap /\ At(n) - c.begin < TrackerMinDuration
      /\ \A d \in reported : d.label = l => d.end <= c.begin
  BY <1>1, <1>4, <1>5
<1>7. PICK i \in Index : At(i) = c.begin /\ SameUntil(l, i, n)
  BY <1>1, <1>4, <1>5
<1>8. /\ i \in Index' /\ At(i)' = e.start /\ i <= n /\ i \in Nat /\ n \in Nat
      /\ n \in Index' /\ At(n)' = At(n)
      /\ LongestGap' = TrackerMaxGap /\ Shortest' = TrackerMinDuration /\ tool'.watches = "desktop"
      /\ n + 1 \in Index' /\ n + 1 \in Nat /\ i <= n + 1
      /\ SameUntil(l, i, n)'
  BY <1>4, <1>5, <1>6, <1>7, TickFacts, Kept DEF Index, TrackerSees
<1>9. (e.end - e.start >= Shortest)' /\ e \in Reports
  BY <1>1, <1>4, <1>8, TrackerAssumption DEF Reports, Signals, Labels
<1>10. \E j \in Index' : Backed(e, i, j)'
  <2>1. CASE l \in r.on
    <3>1. SameUntil(l, i, n + 1)'
      <4>1. /\ CaptureTyped /\ tool' = tool /\ n \in Nat /\ n = Len(samples) /\ r \in Samples
            /\ samples' = Append(samples, r) /\ r.shown /\ LongestGap = TrackerMaxGap
        BY TickFacts DEF TrackerSees
      <4>2. SameUntil(l, i, n + 1)' <=>
                SameUntil(l, i, n) /\ l \in r.on /\ r.shown /\ r.t - At(n) <= LongestGap
        BY <1>7, <4>1, Appended
      <4> QED BY <1>6, <1>7, <2>1, <4>1, <4>2
    <3>2. LongEnoughAt(e, i, n + 1)'
      <4>1. n + 1 - 1 = n /\ i < n + 1
        BY <1>8
      <4>2. At(n + 1)' = e.end
        BY <1>4, TickFacts
      <4> QED BY <1>4, <1>5, <1>6, <1>8, <4>1, <4>2 DEF LongEnoughAt
    <3>3. Backed(e, i, n + 1)'
      BY <1>4, <1>8, <3>1, <3>2, RunBacks
    <3> QED BY <1>8, <3>3
  <2>2. CASE l \notin r.on
    <3>1. OverAfter(e, n)'
      <4>1. ~On(n + 1, l)'
        BY <2>2, Appended DEF TrackerSees
      <4>2. samples'[n + 1].shown /\ At(n + 1)' = e.end /\ n < Len(samples)'
        BY <1>4, TickFacts
      <4> QED BY <1>4, <1>6, <1>8, <4>1, <4>2 DEF OverAfter
    <3>2. Backed(e, i, n)'
      BY <1>4, <1>8, <3>1, RunBacks
    <3> QED BY <1>8, <3>2
  <2> QED BY <2>1, <2>2
<1> QED BY <1>4, <1>5, <1>6, <1>8, <1>9, <1>10 DEF Grounded

LEMMA TickReports ==
    ASSUME NEW n, NEW r, TrackerSees(n, r),
           NEW events, events = TrackerObserve(tracker, r.on, r.t).events, NEW e \in events
    PROVE  /\ Grounded(e)' /\ e \in Reports /\ e.label \in Signals /\ e.end = r.t
           /\ Closing(e.label, HeldCandidate(KeptCandidates(tracker, r.t)[e.label], e.label, r.on, r.t), r.t) # {}
           /\ \A d \in reported : d.label = e.label => d.end <= e.start
           /\ \A d \in events : d.label = e.label => d = e
<1>1. \A d \in events : \E l \in Signals :
          d \in Closing(l, HeldCandidate(KeptCandidates(tracker, r.t)[l], l, r.on, r.t), r.t)
  BY TrackerEvents
<1>2. PICK l \in Signals : e \in Closing(l, HeldCandidate(KeptCandidates(tracker, r.t)[l], l, r.on, r.t), r.t)
  BY <1>1
<1>3. PICK c, g : c = KeptCandidates(tracker, r.t)[l] /\ g = HeldCandidate(c, l, r.on, r.t)
  OBVIOUS
<1>4. /\ Grounded(e)' /\ e \in Reports /\ e.label = l /\ e.end = r.t
      /\ \A d \in reported : d.label = l => d.end <= e.start
      /\ \A d \in Closing(l, g, r.t) : d = e
  BY <1>2, <1>3, TickReport
<1>5. ASSUME NEW d \in events, d.label = e.label PROVE d = e
  <2>1. PICK m \in Signals : d \in Closing(m, HeldCandidate(KeptCandidates(tracker, r.t)[m], m, r.on, r.t), r.t)
    BY <1>1
  <2>2. PICK cm, gm : cm = KeptCandidates(tracker, r.t)[m] /\ gm = HeldCandidate(cm, m, r.on, r.t)
    OBVIOUS
  <2>3. m = l
    BY <1>4, <1>5, <2>1, <2>2, TickReport
  <2> QED BY <1>3, <1>4, <2>1, <2>3
<1> QED BY <1>2, <1>4, <1>5

(* What the tracker holds after the sample runs until it.                  *)
LEMMA CandidatesKept ==
    ASSUME NEW n, NEW r, TrackerSees(n, r), NEW l \in Signals, NEW a, a = tracker'.candidates[l]
    PROVE  /\ a.begin = Unseen => ~a.emitted
           /\ a.begin # Unseen =>
                 /\ \E i \in Index' : At(i)' = a.begin /\ SameUntil(l, i, n + 1)'
                 /\ ~a.emitted => /\ r.t - a.begin < TrackerMinDuration
                                  /\ \A e \in reported' : e.label = l => e.end <= a.begin
<1>1. PICK c : c = KeptCandidates(tracker, r.t)[l]
  OBVIOUS
<1>2. /\ c \in Tracked /\ (c.begin = Unseen => ~c.emitted) /\ r.t \in Nat
  BY <1>1, KeptFacts, TickFacts
<1>3. a = Followed(l, c, l \in r.on, r.t)
  <2>1. PICK result : result = TrackerObserve(tracker, r.on, r.t)
    OBVIOUS
  <2>2. tracker' = result.worker
    BY <2>1 DEF TrackerSees
  <2> QED BY <1>1, <2>1, <2>2, TrackerObserves
<1>4. a.begin = Unseen => ~a.emitted
  <2>1. CASE l \in r.on
    <3>1. PICK g : g = Begun(c, r.t)
      OBVIOUS
    <3>2. g.begin # Unseen /\ g \in Tracked
      BY <1>2, <3>1, TrackerFacts DEF Begun, Tracked, Times, Unseen, NoCandidate
    <3>3. a.begin = g.begin
      BY <1>3, <2>1, <3>1, <3>2 DEF Followed, Tracked
    <3> QED BY <3>2, <3>3
  <2>2. CASE l \notin r.on
    <3>1. a = NoCandidate
      BY <1>3, <2>2 DEF Followed
    <3> QED BY <3>1, TrackerFacts
  <2> QED BY <2>1, <2>2
<1>5. ASSUME a.begin # Unseen
      PROVE  /\ l \in r.on /\ (a.begin = r.t \/ a.begin = c.begin)
             /\ ~a.emitted => /\ Closing(l, HeldCandidate(c, l, r.on, r.t), r.t) = {}
                              /\ r.t - a.begin < TrackerMinDuration
                              /\ c.begin = Unseen \/ ~c.emitted
  BY <1>2, <1>3, <1>5, FollowedFacts
<1>6. ASSUME a.begin # Unseen
      PROVE  \E i \in Index' : At(i)' = a.begin /\ SameUntil(l, i, n + 1)'
  <2>1. CASE a.begin = r.t
    <3>1. SameUntil(l, n + 1, n + 1)'
      BY <1>5, <1>6, Appended DEF TrackerSees
    <3> QED BY <2>1, <3>1, TickFacts
  <2>2. CASE a.begin = c.begin
    <3>1. n \in Index /\ r.t - At(n) <= TrackerMaxGap
          /\ \E i \in Index : At(i) = c.begin /\ SameUntil(l, i, n)
      BY <1>1, <1>6, <2>2, KeptFacts
    <3>2. PICK i \in Index : At(i) = c.begin /\ SameUntil(l, i, n)
      BY <3>1
    <3>3. SameUntil(l, i, n + 1)'
      <4>1. r.t - At(n) <= LongestGap
        BY <3>1, TickFacts
      <4> QED BY <1>5, <1>6, <3>2, <4>1, Appended DEF TrackerSees
    <3> QED BY <2>2, <3>2, <3>3, TickFacts
  <2> QED BY <1>5, <1>6, <2>1, <2>2
<1>7. ASSUME a.begin # Unseen, ~a.emitted, NEW e \in reported', e.label = l
      PROVE  e.end <= a.begin
  <2>1. PICK events : events = TrackerObserve(tracker, r.on, r.t).events
    OBVIOUS
  <2>2. e \notin events
    <3>1. Closing(l, HeldCandidate(c, l, r.on, r.t), r.t) = {}
      BY <1>5, <1>7
    <3> QED BY <1>1, <1>7, <2>1, <3>1, TickReports
  <2>3. e \in reported
    BY <2>1, <2>2, <1>7 DEF TrackerSees
  <2>4. CASE a.begin = r.t
    <3>1. samples # <<>> /\ e.end <= At(n) /\ e \in Reports
      BY <2>3 DEF TrackerSees, DesktopRuns, CaptureTyped
    <3>2. At(n) \in Nat /\ At(n) < r.t
      BY <3>1, TickFacts
    <3> QED BY <1>2, <2>4, <3>1, <3>2 DEF Reports
  <2>5. CASE a.begin = c.begin
    <3>1. c.begin # Unseen /\ ~c.emitted
      BY <1>5, <1>7, <2>5
    <3> QED BY <1>1, <1>7, <2>3, <2>5, <3>1, KeptFacts
  <2> QED BY <1>5, <1>7, <2>4, <2>5
<1> QED BY <1>4, <1>5, <1>6, <1>7

LEMMA TrackerRead ==
    ASSUME NEW n, NEW r, TrackerSees(n, r)
    PROVE  SoundInv'
<1>1. PICK events : events = TrackerObserve(tracker, r.on, r.t).events
  OBVIOUS
<1>2. reported' = reported \cup events /\ reported \subseteq Reports
  BY <1>1 DEF TrackerSees, CaptureTyped
<1>3. /\ r.t \in Nat /\ tracker \in Trackers /\ Extended /\ samples' \in Seq(Samples)
      /\ Len(samples)' = n + 1 /\ At(n + 1)' = r.t /\ samples'[n + 1] = r
      /\ Spacing = 0 /\ OfWorker(Labels, Kinds, Signals) = Signals
  BY TickFacts
<1>4. \A e \in events :
         /\ Grounded(e)' /\ e \in Reports /\ e.label \in Signals /\ e.end = r.t
         /\ \A d \in reported : d.label = e.label => d.end <= e.start
         /\ \A d \in events : d.label = e.label => d = e
  BY <1>1, TickReports
<1>5. ASSUME NEW e \in events, NEW d \in reported \cup events
      PROVE  Spaced(d, e) /\ Spaced(e, d)
  <2>1. CASE d \in events
    BY <1>4, <2>1 DEF Spaced
  <2>2. CASE d \in reported /\ d.label = e.label
    <3>1. d.end + 0 <= e.start
      BY <1>2, <1>4, <2>2 DEF Reports
    <3> QED BY <1>3, <3>1 DEF Spaced
  <2>3. CASE d.label # e.label
    BY <2>3 DEF Spaced
  <2> QED BY <2>1, <2>2, <2>3
<1>6. Backing'
  BY <1>2, <1>3, <1>4, <1>5, BackingGrows DEF TrackerSees
<1>7. Ordered'
  BY <1>3, SampleTimes DEF TrackerSees
<1>8. tracker' \in Trackers
  BY <1>3, CandidateFacts, TrackerTyped DEF TrackerSees
<1>9. CaptureTyped'
  BY <1>2, <1>3, <1>4, <1>8 DEF CaptureTyped, TrackerSees
<1>10. DesktopRuns'
  <2>1. tracker'.previous = r.t
    BY DEF TrackerObserve, TrackerSees
  <2>2. InStep(tracker.previous)'
    <3>1. PICK previous : previous = r.t
      OBVIOUS
    <3>2. InStep(previous)'
      BY <3>1, TickFacts, SteadyGrows DEF TrackerSees
    <3> QED BY <2>1, <3>1, <3>2 DEF InStep
  <2>3. samples' # <<>>
    BY <1>3, EmptySeq DEF TrackerSees
  <2>4. \A e \in reported' : e.end <= r.t
    <3> SUFFICES ASSUME NEW e \in reported' PROVE e.end <= r.t
      OBVIOUS
    <3>1. CASE e \in reported
      <4>1. samples # <<>> /\ e.end <= At(n) /\ e.end \in Nat
        BY <1>2, <3>1 DEF TrackerSees, DesktopRuns, Reports
      <4>2. At(n) \in Nat /\ At(n) < r.t
        BY <4>1, TickFacts
      <4> QED BY <1>3, <4>1, <4>2
    <3>2. CASE e \in events
      BY <1>3, <1>4, <3>2
    <3> QED BY <1>2, <3>1, <3>2
  <2>5. \A l \in Signals :
           /\ tracker'.candidates[l].begin = Unseen => ~tracker'.candidates[l].emitted
           /\ tracker'.candidates[l].begin # Unseen =>
                 /\ \E i \in Index' : At(i)' = tracker'.candidates[l].begin /\ SameUntil(l, i, n + 1)'
                 /\ ~tracker'.candidates[l].emitted =>
                       /\ r.t - tracker'.candidates[l].begin < TrackerMinDuration
                       /\ \A e \in reported' : e.label = l => e.end <= tracker'.candidates[l].begin
    BY CandidatesKept
  <2> QED BY <1>3, <2>2, <2>3, <2>4, <2>5 DEF DesktopRuns
<1> QED BY <1>6, <1>7, <1>9, <1>10 DEF SoundInv, TrackerSees

(* A tick is a sample of the tracker.                                      *)
LEMMA TrackerReads ==
    ASSUME SoundInv, NEW dt \in Nat, NEW on \in SUBSET Signals, Tick(dt, on)
    PROVE  \E n, r : TrackerSees(n, r)
<1>1. PICK now, r : /\ now = clock + dt
                    /\ r = [t |-> now, on |-> on, face |-> FALSE, shown |-> TRUE]
  OBVIOUS
<1>2. /\ CaptureTyped /\ Ordered /\ Backing /\ phase = "running" /\ tool.watches = "desktop"
      /\ DesktopRuns
  BY DEF SoundInv, Tick, Watching
<1>3. now \in Nat /\ last <= now
  BY <1>1, <1>2, ClockFacts
<1>4. /\ r.t = now /\ r.on = on /\ r.shown /\ r \in Samples
  BY <1>1, <1>3 DEF Samples, Signals, Labels
<1>5. /\ clock' = now /\ last' = now /\ InTime(now)
      /\ tracker' = TrackerObserve(tracker, on, now).worker
      /\ reported' = reported \cup TrackerObserve(tracker, on, now).events
      /\ samples' = Append(samples, r)
      /\ UNCHANGED <<tool, student, vision, phase>>
  BY <1>1 DEF Tick, Saw
<1>6. PICK n : n = Len(samples)
  OBVIOUS
<1>7. n \in Nat
  BY <1>2, <1>6, LenProperties DEF CaptureTyped
<1>8. \A i \in Index : At(i) < now
  <2> SUFFICES ASSUME NEW i \in Index PROVE At(i) < now
    OBVIOUS
  <2>1. samples # <<>>
    BY EmptySeq DEF Index
  <2>2. At(i) \in Nat /\ At(i) <= At(n) /\ n \in Index /\ tracker.previous = At(n) /\ At(n) \in Nat
    BY <1>2, <1>6, <2>1, SteadyFacts DEF DesktopRuns
  <2>3. tracker.previous < now
    BY <1>2, <1>5 DEF InTime, Previous
  <2> QED BY <1>3, <2>2, <2>3
<1>9. TrackerSees(n, r)
  BY <1>2, <1>3, <1>4, <1>5, <1>6, <1>7, <1>8 DEF TrackerSees
<1> QED BY <1>9

LEMMA TickStep ==
    ASSUME SoundInv, NEW dt \in Nat, NEW on \in SUBSET Signals, Tick(dt, on)
    PROVE  SoundInv'
BY TrackerReads, TrackerRead

LEMMA SkipTickStep ==
    ASSUME SoundInv, NEW dt \in Nat, SkipTick(dt)
    PROVE  SoundInv'
<1>1. PICK now : now = clock + dt
  OBVIOUS
<1>2. /\ CaptureTyped /\ Ordered /\ Backing /\ phase = "running" /\ tool.watches = "desktop"
      /\ DesktopRuns /\ now \in Nat /\ last \in Nat /\ last <= now
  BY <1>1, ClockFacts DEF SoundInv, SkipTick, Watching
<1>3. /\ clock' = now /\ last' = now
      /\ UNCHANGED <<tool, student, vision, tracker, reported, samples, phase>>
  BY <1>1 DEF SkipTick, workers
<1>4. Ordered' /\ CaptureTyped' /\ Backing'
  <2>1. Ordered'
    BY <1>2, <1>3, HistoryStays
  <2>2. CaptureTyped'
    BY <1>2, <1>3 DEF CaptureTyped
  <2> QED BY <1>2, <1>3, <2>1, <2>2, NothingAdded
<1>5. Index' = Index /\ (\A i : At(i)' = At(i)) /\ (\A i, l : On(i, l)' <=> On(i, l))
  BY <1>3 DEF Index, At, On
<1>6. \A l, i, j : SameUntil(l, i, j)' <=> SameUntil(l, i, j)
  BY <1>3, <1>5 DEF SameUntil, Joined, LongestGap, OfWorker
<1>7. InStep(tracker.previous)'
  BY <1>2, <1>3, <1>5 DEF InStep, DesktopRuns
<1>8. DesktopRuns'
  BY <1>2, <1>3, <1>5, <1>6, <1>7 DEF DesktopRuns
<1> QED BY <1>2, <1>3, <1>4, <1>8 DEF SoundInv

-----------------------------------------------------------------------------
(* The monitor is stopped: what is open closes where it was stopped.       *)
LEMMA StopReport ==
    ASSUME CaptureTyped, DesktopRuns, tool.watches = "desktop",
           samples' = samples, tool' = tool, phase' = "ended", NEW now \in Nat, last' = now,
           NEW e \in TrackerFlush(tracker, now)
    PROVE  /\ Grounded(e)' /\ e \in Reports /\ e.label \in Signals
           /\ \A d \in reported : d.label = e.label => d.end <= e.start
           /\ \A d \in TrackerFlush(tracker, now) : d.label = e.label => d = e
<1>1. \A d \in TrackerFlush(tracker, now) : \E l \in Signals : d \in Closing(l, tracker.candidates[l], now)
  BY DEF TrackerFlush
<1>2. PICK l \in Signals : e \in Closing(l, tracker.candidates[l], now)
  BY <1>1
<1>3. PICK c, n : c = tracker.candidates[l] /\ n = Len(samples)
  OBVIOUS
<1>4. /\ c \in Tracked /\ (c.begin = Unseen => ~c.emitted)
      /\ c.begin # Unseen =>
                 /\ c.begin \in Nat /\ samples # <<>> /\ n \in Index
                 /\ \E i \in Index : At(i) = c.begin /\ SameUntil(l, i, n)
                 /\ ~c.emitted => \A d \in reported : d.label = l => d.end <= c.begin
  BY <1>3, CandidateFacts
<1>5. /\ e = [label |-> l, start |-> c.begin, end |-> now] /\ ~(now - c.begin < TrackerMinDuration)
      /\ e.label = l /\ e.start = c.begin /\ e.end = now
      /\ c.begin # Unseen /\ c.begin \in Nat /\ ~c.emitted
      /\ \A d \in Closing(l, c, now) : d = e
  BY <1>2, <1>3, <1>4, ClosingFacts
<1>6. PICK i \in Index : At(i) = c.begin /\ SameUntil(l, i, n)
  BY <1>4, <1>5
<1>7. Extended
  BY Same
<1>8. /\ i \in Index' /\ At(i)' = e.start /\ i <= n /\ i \in Nat /\ n \in Nat /\ n \in Index'
      /\ Shortest' = TrackerMinDuration /\ tool'.watches = "desktop"
      /\ SameUntil(l, i, n)' /\ n = Len(samples)'
  BY <1>3, <1>4, <1>5, <1>6, <1>7, Kept, Durations, LenProperties DEF Index, CaptureTyped
<1>9. (e.end - e.start >= Shortest)' /\ e \in Reports
  BY <1>5, <1>8, TrackerAssumption DEF Reports, Signals, Labels
<1>10. OpenAtEnd(e, n)'
  BY <1>5, <1>8 DEF OpenAtEnd
<1>11. Backed(e, i, n)'
  BY <1>5, <1>8, <1>10, RunBacks
<1>12. ASSUME NEW d \in TrackerFlush(tracker, now), d.label = e.label PROVE d = e
  <2>1. PICK m \in Signals : d \in Closing(m, tracker.candidates[m], now)
    BY <1>1
  <2>2. PICK cm : cm = tracker.candidates[m]
    OBVIOUS
  <2>3. cm \in Tracked /\ (cm.begin = Unseen => ~cm.emitted)
    BY <2>2, CandidateFacts
  <2>4. m = l
    BY <1>5, <1>12, <2>1, <2>2, <2>3, ClosingFacts
  <2> QED BY <1>3, <1>5, <2>1, <2>4
<1> QED BY <1>4, <1>5, <1>8, <1>9, <1>11, <1>12 DEF Grounded

LEMMA MonitorStopsStep ==
    ASSUME SoundInv, NEW dt \in Nat, MonitorStops(dt)
    PROVE  SoundInv'
<1>1. PICK now, new : now = clock + dt /\ new = TrackerFlush(tracker, now)
  OBVIOUS
<1>2. /\ CaptureTyped /\ Ordered /\ Backing /\ phase = "running" /\ tool.watches = "desktop"
      /\ DesktopRuns /\ now \in Nat /\ last \in Nat /\ last <= now /\ reported \subseteq Reports
  BY <1>1, ClockFacts DEF SoundInv, MonitorStops, Watching, CaptureTyped
<1>3. /\ clock' = now /\ last' = now /\ phase' = "ended"
      /\ reported' = reported \cup new /\ tracker' = [TrackerIdle EXCEPT !.previous = now]
      /\ UNCHANGED <<tool, student, vision, samples>>
  BY <1>1 DEF MonitorStops
<1>4. \A e \in new :
         /\ Grounded(e)' /\ e \in Reports /\ e.label \in Signals
         /\ \A d \in reported : d.label = e.label => d.end <= e.start
         /\ \A d \in new : d.label = e.label => d = e
  BY <1>1, <1>2, <1>3, StopReport
<1>5. Spacing = 0 /\ OfWorker(Labels, Kinds, Signals) = Signals
  BY <1>2 DEF OfWorker, Spacing
<1>6. ASSUME NEW e \in new, NEW d \in reported \cup new
      PROVE  Spaced(d, e) /\ Spaced(e, d)
  <2>1. CASE d \in new
    BY <1>4, <2>1 DEF Spaced
  <2>2. CASE d \in reported /\ d.label = e.label
    <3>1. d.end + 0 <= e.start
      BY <1>2, <1>4, <2>2 DEF Reports
    <3> QED BY <1>5, <3>1 DEF Spaced
  <2>3. CASE d.label # e.label
    BY <2>3 DEF Spaced
  <2> QED BY <2>1, <2>2, <2>3
<1>7. Backing'
  BY <1>2, <1>3, <1>4, <1>5, <1>6, BackingStays
<1>8. Ordered'
  BY <1>2, <1>3, HistoryStays
<1>9. tracker' \in Trackers
  BY <1>2, <1>3, TrackerFacts DEF Trackers, Times
<1>10. CaptureTyped'
  BY <1>2, <1>3, <1>4, <1>9 DEF CaptureTyped
<1> QED BY <1>3, <1>7, <1>8, <1>10 DEF SoundInv

-----------------------------------------------------------------------------
(* Ends that report nothing.                                               *)
LEMMA IdleTyped ==
    ASSUME CaptureTyped
    PROVE  /\ StudentIdle \in StudentWorkers /\ VisionUnavailable(vision) \in VisionWorkers
           /\ VisionIdle \in VisionWorkers /\ TrackerIdle \in Trackers
<1>1. StudentIdle \in StudentWorkers
  BY EmptySeq DEF StudentIdle, Free, StudentWorkers, Candidates, Times, Labels
<1> QED BY <1>1, UnavailableFacts, VisionFacts, TrackerFacts DEF CaptureTyped

LEMMA QuietEnd ==
    ASSUME SoundInv, phase = "running", UNCHANGED <<tool, clock, last, samples, reported>>,
           phase' \in {"ended", "stopped"}, Discard \/ UNCHANGED workers
    PROVE  SoundInv'
<1>1. CaptureTyped /\ Ordered /\ Backing /\ last \in Nat /\ last <= clock
  BY DEF SoundInv, CaptureTyped, Ordered
<1>2. Ordered' /\ Backing'
  BY <1>1, HistoryStays, NothingAdded
<1>3. student' \in StudentWorkers /\ vision' \in VisionWorkers /\ tracker' \in Trackers
  BY <1>1, IdleTyped DEF Discard, workers, StudentUnavailable, TrackerUnavailable, CaptureTyped
<1>4. CaptureTyped'
  BY <1>1, <1>3 DEF CaptureTyped
<1> QED BY <1>2, <1>4 DEF SoundInv

(* The programs start with nothing held, and every step keeps SoundInv.    *)
LEMMA CaptureStarts ==
    ASSUME CaptureInit
    PROVE  SoundInv
<1>1. samples = <<>> /\ Len(samples) = 0 /\ samples \in Seq(Samples) /\ Index = {}
  BY EmptySeq DEF CaptureInit, Index
<1>2. CaptureTyped
  <2>1. tool \in Tools /\ VisionIdle \in VisionWorkers /\ TrackerIdle \in Trackers
    BY VisionFacts, TrackerFacts DEF CaptureInit
  <2>2. StudentIdle \in StudentWorkers
    BY EmptySeq DEF StudentIdle, Free, StudentWorkers, Candidates, Times, Labels
  <2> QED BY <1>1, <2>1, <2>2 DEF CaptureInit, CaptureTyped
<1>3. Ordered
  BY <1>1 DEF Ordered, CaptureInit
<1>4. Backing
  BY <1>1 DEF Backing, CaptureInit, TurnsEnd
<1>5. \A i, j \in Index : FALSE
  BY <1>1
<1>6. StudentRuns
  <2>1. InStep(student.previous)
    BY <1>1 DEF InStep, CaptureInit, StudentIdle
  <2>2. \A l \in Labels : Rooted(student.active[l], l)
    BY FreeFacts DEF CaptureInit, StudentIdle
  <2>3. Len(student.yaws) = 0 /\ student.lastFace = "unknown" /\ student.turnSince = NoTime
        /\ student.active["head_away"].begin = NoTime
    BY EmptySeq DEF CaptureInit, StudentIdle, Free, Labels
  <2>4. Judging
    <3>1. Cardinality(Faces) \in Nat
      BY <1>1, FacesFinite
    <3> QED BY <2>3, <3>1 DEF Judging
  <2>5. Turning
    BY <1>1, <2>3 DEF Turning
  <2> QED BY <1>1, <2>1, <2>2, <2>4, <2>5 DEF StudentRuns, CaptureInit
<1>7. PresenterRuns
  BY VisionFacts DEF PresenterRuns, CaptureInit, VisionIdle
<1>8. DesktopRuns
  <2>1. InStep(tracker.previous)
    BY <1>1 DEF InStep, CaptureInit, TrackerIdle, NoTime, Unseen
  <2> QED BY <2>1, TrackerFacts DEF DesktopRuns, CaptureInit
<1> QED BY <1>2, <1>3, <1>4, <1>6, <1>7, <1>8 DEF SoundInv

LEMMA CaptureSteps ==
    ASSUME SoundInv, [CaptureNext]_captureVars
    PROVE  SoundInv'
<1>1. Steps \subseteq Nat /\ Latencies \subseteq Nat /\ StudentFrames \subseteq Frames
      /\ DesktopFrames \subseteq SUBSET Signals
  BY FramesAssumption
<1>2. CASE UNCHANGED captureVars
  <2>1. SoundInv' = SoundInv
    BY <1>2 DEF captureVars, SoundInv, CaptureTyped, Ordered, Backing, StudentRuns, PresenterRuns,
       DesktopRuns, InStep, Judging, Turning, TurnsEnd, Grounded, Backed, Spaced, Faces, FacesBefore,
       Rooted, Bridged, SameUntil, Joined, OverAfter, LongEnoughAt, OpenAtEnd, OfWorker, Shortest,
       LongestGap, Bridge, Spacing, Index, At, On
  <2> QED BY <2>1
<1>3. ASSUME NEW dt \in Steps, SkipStudentFrame(dt) PROVE SoundInv'
  BY <1>1, <1>3, SkipStudentStep
<1>4. ASSUME NEW dt \in Steps, SkipPresenterFrame(dt) PROVE SoundInv'
  BY <1>1, <1>4, SkipPresenterStep
<1>5. ASSUME NEW dt \in Steps, TileHidden(dt) PROVE SoundInv'
  BY <1>1, <1>5, TileHiddenStep
<1>6. ASSUME NEW dt \in Steps, TimeRefused(dt) PROVE SoundInv'
  BY <1>6, QuietEnd DEF TimeRefused, EndsAs
<1>7. ASSUME NEW dt \in Steps, InterruptedStudent(dt) PROVE SoundInv'
  BY <1>1, <1>7, InterruptedStep
<1>8. ASSUME NEW dt \in Steps, SkipTick(dt) PROVE SoundInv'
  BY <1>1, <1>8, SkipTickStep
<1>9. ASSUME NEW dt \in Steps, MonitorStops(dt) PROVE SoundInv'
  BY <1>1, <1>9, MonitorStopsStep
<1>10. ASSUME NEW dt \in Steps, NEW on \in DesktopFrames, Tick(dt, on) PROVE SoundInv'
  BY <1>1, <1>10, TickStep
<1>11. ASSUME NEW dt \in Steps, NEW f \in StudentFrames, ReadStudentFrame(dt, f) PROVE SoundInv'
  BY <1>1, <1>11, ReadStudentStep
<1>12. ASSUME NEW dt \in Steps, NEW v \in PresenterViews, NEW latency \in Latencies,
              ReadPresenterFrame(dt, v, latency)
       PROVE  SoundInv'
  BY <1>1, <1>12, ReadPresenterStep
<1>13. CASE SourceLost
  BY <1>13, QuietEnd DEF SourceLost, EndsAs
<1>14. CASE InferenceFails
  BY <1>14, QuietEnd DEF InferenceFails, EndsAs
<1>15. CASE StudentEnds
  BY <1>15, StudentEndsStep
<1>16. CASE ReplayEnds
  BY <1>16, ReplayEndsStep
<1>17. CASE PresenterEnds
  BY <1>17, QuietEnd DEF PresenterEnds, EndsAs, Watching
<1>18. CASE FlushRefused
  BY <1>18, QuietEnd DEF FlushRefused, EndsAs, Watching
<1> QED BY <1>2, <1>3, <1>4, <1>5, <1>6, <1>7, <1>8, <1>9, <1>10, <1>11, <1>12, <1>13, <1>14,
           <1>15, <1>16, <1>17, <1>18 DEF CaptureNext

(* What the workers hold says that every report is backed.                 *)
LEMMA SoundlyBacked ==
    ASSUME SoundInv
    PROVE  ReportsAreBacked
<1>1. CaptureTyped /\ Backing /\ Ordered
  BY DEF SoundInv
<1> SUFFICES ASSUME NEW e \in reported
             PROVE  /\ e.end - e.start >= Shortest
                    /\ \E i, j \in Index : Backed(e, i, j)
                    /\ \A d \in reported : Spaced(d, e)
                    /\ e.label = "head_away" => Bounded(e)
  BY DEF ReportsAreBacked
<1>2. /\ Grounded(e) /\ e.label \in OfWorker(Labels, Kinds, Signals)
      /\ \A d \in reported : Spaced(d, e)
  BY <1>1 DEF Backing
<1>3. ASSUME e.label = "head_away" PROVE Bounded(e)
  <2>1. tool.watches = "student"
    <3>1. "head_away" \notin Kinds /\ "head_away" \notin Signals
      BY DEF Kinds, Signals
    <3>2. tool.watches \in {"student", "presenter", "desktop"}
      BY <1>1 DEF CaptureTyped, Tools
    <3> QED BY <1>2, <1>3, <3>1, <3>2 DEF OfWorker
  <2>2. TurnsEnd /\ Cardinality(FacesBefore(e.start)) >= BaselineMin
    BY <1>1, <1>3, <2>1 DEF Backing
  <2> QED BY <2>2 DEF Bounded, TurnsEnd, FacesBefore
<1> QED BY <1>2, <1>3 DEF Grounded

(* Every report is backed by what was seen, in the program of the student, *)
(* of the presenter and of the desktop.                                    *)
THEOREM ReportsStand == CaptureSpec => []ReportsAreBacked
<1>1. CaptureInit => SoundInv
  BY CaptureStarts
<1>2. SoundInv /\ [CaptureNext]_captureVars => SoundInv'
  BY CaptureSteps
<1>3. SoundInv => ReportsAreBacked
  BY SoundlyBacked
<1> QED BY <1>1, <1>2, <1>3, PTL DEF CaptureSpec

(* What has been reported stays reported.                                  *)
LEMMA BeginsKept ==
    ASSUME Extended, NEW i \in Index
    PROVE  \A l : Begins(l, i)' <=> Begins(l, i)
<1>1. i > 1 => i - 1 \in Index
  BY DEF Extended, Index
<1> QED BY <1>1, Kept DEF Begins

LEMMA ToldGrows ==
    ASSUME Extended, reported \subseteq reported', NEW l, NEW i \in Index, NEW until,
           Told(l, i, until)
    PROVE  Told(l, i, until)'
<1>1. At(i)' = At(i) /\ (Begins(l, i)' <=> Begins(l, i)) /\ tool' = tool
  BY Kept, BeginsKept DEF Extended
<1> QED BY <1>1 DEF Told, Covered, Prompted

LEMMA CoolingGrows ==
    ASSUME Extended, reported \subseteq reported', NEW l, NEW i \in Index, Cooling(l, i)
    PROVE  Cooling(l, i)'
<1>1. At(i)' = At(i) /\ tool' = tool
  BY Kept DEF Extended
<1> QED BY <1>1 DEF Cooling

LEMMA WatchedStays ==
    ASSUME Extended
    PROVE  Watched' = Watched
BY DEF Extended, Watched, OfWorker

LEMMA PausesKept ==
    ASSUME Extended
    PROVE  \A l : \A j, k \in Index : PausedFor(l, j, k)' <=> PausedFor(l, j, k)
<1> SUFFICES ASSUME NEW l, NEW j \in Index, NEW k \in Index
             PROVE  PausedFor(l, j, k)' <=> PausedFor(l, j, k)
  OBVIOUS
<1>1. \A m \in (j + 1)..k : m \in Index
  BY DEF Extended, Index
<1>2. Joined(j, k)' <=> Joined(j, k)
  BY Kept
<1> QED BY <1>1, <1>2, Kept DEF PausedFor

(* What the program owed before it has paid.                               *)
LEMMA PaidBefore ==
    ASSUME Extended, reported \subseteq reported', SustainedIsReported,
           NEW l \in Watched, NEW i \in Index, NEW j \in Index, i <= j,
           SameUntil(l, i, j), ~Cooling(l, i)'
    PROVE  /\ tool.watches = "desktop" /\ At(j) - At(i) >= Shortest =>
                \A until : until = At(j) => Told(l, i, until)'
           /\ j < Len(samples) /\ At(j + 1) - At(i) >= Shortest /\ PauseEnded(l, j) =>
                \A until : until = At(j + 1) => Told(l, i, until)'
<1>1. ~Cooling(l, i)
  BY CoolingGrows
<1>2. j \in i..Len(samples)
  BY DEF Index, Extended
<1>3. /\ tool.watches = "desktop" /\ At(j) - At(i) >= Shortest => Told(l, i, At(j))
      /\ j < Len(samples) /\ At(j + 1) - At(i) >= Shortest /\ PauseEnded(l, j)
                => Told(l, i, At(j + 1))
  BY <1>1, <1>2 DEF SustainedIsReported
<1>4. \A until : Told(l, i, until) => Told(l, i, until)'
  BY ToldGrows
<1> QED BY <1>3, <1>4

-----------------------------------------------------------------------------
(* A sample that is read may end a pause.                                  *)
LEMMA PauseEndsAtRead ==
    ASSUME CaptureTyped, tool' = tool, phase' = phase, phase # "ended",
           NEW n \in Nat, n = Len(samples), NEW r \in Samples, samples' = Append(samples, r),
           NEW l, NEW j \in Index, PauseEnded(l, j)'
    PROVE  \/ PauseEnded(l, j)
           \/ PausedFor(l, j, n + 1)' /\ (At(n + 1) - At(j + 1) >= Bridge)'
           \/ tool.watches = "student" /\ j < n /\ PausedFor(l, j, n) /\ r.t - At(n) > MaxGap
<1>1. /\ Extended /\ Len(samples)' = n + 1 /\ At(n + 1)' = r.t /\ samples'[n + 1] = r
      /\ \A i \in Index : At(i)' = At(i) /\ samples'[i] = samples[i]
      /\ Bridge' = Bridge /\ LongestGap' = LongestGap
      /\ \A k \in Index : PausedFor(l, j, k)' <=> PausedFor(l, j, k)
  BY Appended, Kept, PausesKept DEF Extended, Index
<1>2. PICK k \in (j + 1)..(n + 1) :
          /\ PausedFor(l, j, k)'
          /\ (At(k) - At(j + 1) >= Bridge)' \/ (tool.watches = "student" /\ GapAfter(k)')
  BY <1>1 DEF PauseEnded
<1>3. CASE k = n + 1
  <2>1. ~GapAfter(k)'
    BY <1>1, <1>3 DEF GapAfter
  <2> QED BY <1>2, <1>3, <2>1
<1>4. CASE k # n + 1
  <2>1. k \in (j + 1)..n /\ k \in Index /\ j + 1 \in Index /\ j < n
    BY <1>2, <1>4 DEF Index
  <2>2. PausedFor(l, j, k)
    BY <1>1, <1>2, <2>1
  <2>3. CASE (At(k) - At(j + 1) >= Bridge)'
    BY <1>1, <2>1, <2>2, <2>3 DEF PauseEnded
  <2>4. CASE tool.watches = "student" /\ GapAfter(k)' /\ k < n
    <3>1. k + 1 \in Index
      BY <2>1, <2>4 DEF Index
    <3>2. GapAfter(k)
      BY <1>1, <2>1, <2>4, <3>1 DEF GapAfter
    <3> QED BY <2>1, <2>2, <2>4, <3>2 DEF PauseEnded
  <2>5. CASE tool.watches = "student" /\ GapAfter(k)' /\ k = n
    <3>1. r.t - At(n) > MaxGap
      BY <1>1, <2>1, <2>5, Durations DEF GapAfter
    <3> QED BY <2>1, <2>2, <2>5, <3>1
  <2> QED BY <1>2, <2>1, <2>3, <2>4, <2>5
<1> QED BY <1>3, <1>4

(* Or the end of the program does.                                         *)
LEMMA PauseEndsAtEnd ==
    ASSUME CaptureTyped, tool' = tool, samples' = samples, NEW n \in Nat, n = Len(samples),
           NEW l, NEW j \in Index, PauseEnded(l, j)'
    PROVE  PauseEnded(l, j) \/ (phase' = "ended" /\ j < n /\ PausedFor(l, j, n))
<1>1. /\ Extended /\ Len(samples)' = n /\ Bridge' = Bridge /\ LongestGap' = LongestGap
      /\ \A i : At(i)' = At(i)
      /\ \A k \in Index : PausedFor(l, j, k)' <=> PausedFor(l, j, k)
  BY Same, Kept, PausesKept DEF At
<1>2. PICK k \in (j + 1)..n :
          /\ PausedFor(l, j, k)'
          /\ \/ (At(k) - At(j + 1) >= Bridge)' \/ (tool.watches = "student" /\ GapAfter(k)')
             \/ phase' = "ended" /\ k = n
  BY <1>1 DEF PauseEnded
<1>3. k \in Index /\ j < n /\ j \in Nat
  BY <1>2 DEF Index
<1>4. PausedFor(l, j, k)
  BY <1>1, <1>2, <1>3
<1>5. GapAfter(k)' => GapAfter(k)
  BY <1>1 DEF GapAfter
<1> QED BY <1>1, <1>2, <1>3, <1>4, <1>5 DEF PauseEnded

LEMMA EventsGiven ==
    ASSUME NEW w, NEW o, NEW now, NEW on, on = Positive(w, o),
           NEW result, result = StudentObserve(w, o, now)
    PROVE  /\ StudentGap(w, now) => Finished(w) \subseteq result.events
           /\ \A l \in Labels : \A e : e \in Reported(l, KeptOf(w, now)[l], l \in on, now) => e \in result.events
<1>1. /\ StudentGap(w, now) => Finished(w) \subseteq result.events
      /\ \A l \in Labels : \A e :
           e \in Reported(l, KeptOf(w, now)[l], l \in Positive(w, o), now) => e \in result.events
  BY DEF StudentObserve, KeptOf
<1> QED BY <1>1

(* A condition whose pause can be bridged no longer is reported.           *)
LEMMA PauseTells ==
    ASSUME NEW n, NEW r, NEW o, StudentSees(n, r, o), ~StudentGap(student, r.t),
           NEW l \in Labels, l \notin r.on, NEW c, c = student.active[l], c.begin # NoTime,
           NEW gap, gap = IF c.gap = NoTime THEN r.t ELSE c.gap,
           r.t - gap >= MergeGap, ~(gap - c.begin < MinDuration)
    PROVE  [label |-> l, start |-> c.begin, end |-> gap] \in reported'
<1>1. PICK result : result = StudentObserve(student, o, r.t)
  OBVIOUS
<1>2. r.on = Positive(student, o) /\ reported' = reported \cup result.events /\ r.t \in Nat
      /\ student \in StudentWorkers
  BY <1>1, SeesFacts DEF StudentSees
<1>3. KeptOf(student, r.t)[l] = c
  BY DEF KeptOf
<1>4. PICK e : e = [label |-> l, start |-> c.begin, end |-> gap]
  OBVIOUS
<1>5. c \in Candidates
  BY <1>2 DEF StudentWorkers
<1>6. e \in Reported(l, c, l \in r.on, r.t)
  <2>1. PICK p : p = PausedAt(c, r.t)
    OBVIOUS
  <2>2. p.gap = gap /\ gap # NoTime
    BY <1>2, <1>5, <2>1 DEF PausedAt, Candidates, NoTime
  <2>3. c # Free
    BY FreeFacts
  <2>4. Bridgeless(p, r.t)
    BY <2>2 DEF Bridgeless
  <2>5. e \in Reportable(l, c.begin, p.gap)
    BY <1>4, <2>2 DEF Reportable
  <2> QED BY <2>1, <2>3, <2>4, <2>5 DEF Reported
<1> QED BY <1>1, <1>2, <1>3, <1>4, <1>6, EventsGiven

(* A gap in the samples tells of what had paused.                          *)
LEMMA GapTells ==
    ASSUME NEW n, NEW r, NEW o, StudentSees(n, r, o), StudentGap(student, r.t),
           NEW l \in Labels, NEW c, c = student.active[l], c.gap # NoTime,
           ~(c.gap - c.begin < MinDuration)
    PROVE  [label |-> l, start |-> c.begin, end |-> c.gap] \in reported'
<1>1. PICK result : result = StudentObserve(student, o, r.t)
  OBVIOUS
<1>2. r.on = Positive(student, o) /\ reported' = reported \cup result.events
  BY <1>1 DEF StudentSees
<1>3. [label |-> l, start |-> c.begin, end |-> c.gap] \in Finished(student)
  BY DEF Finished, Paused, Reportable
<1> QED BY <1>1, <1>2, <1>3, EventsGiven

(* A report that begins no later tells of the condition.                   *)
LEMMA Covering ==
    ASSUME tool'.watches # "desktop", NEW l, NEW i, NEW begin, NEW end,
           [label |-> l, start |-> begin, end |-> end] \in reported',
           begin <= At(i)'
    PROVE  \A until : until <= end => Told(l, i, until)'
<1>1. PICK e : e = [label |-> l, start |-> begin, end |-> end]
  OBVIOUS
<1>2. e \in reported' /\ e.label = l /\ e.start = begin /\ e.end = end
  BY <1>1
<1> QED BY <1>2 DEF Told, Covered

LEMMA FollowsFacts ==
    ASSUME NEW n, NEW r, NEW o, StudentSees(n, r, o), StudentFollows,
           NEW l \in Labels, NEW i \in Index, NEW j \in Index, i <= j, SameUntil(l, i, j),
           NEW c, c = student.active[l]
    PROVE  /\ c \in Candidates
           /\ j = n => c.begin # NoTime /\ c.begin <= At(i) /\ c.gap = NoTime
           /\ j < n /\ PausedFor(l, j, n) =>
              \/ c.begin # NoTime /\ c.begin <= At(i) /\ c.gap = At(j + 1)
              \/ At(n) - At(j + 1) >= MergeGap
<1>1. n = Len(samples) /\ n \in Nat /\ student \in StudentWorkers
  BY DEF StudentSees, CaptureTyped
<1>2. j \in i..n
  BY <1>1 DEF Index
<1>3. c \in Candidates
  BY <1>1 DEF StudentWorkers
<1> QED BY <1>1, <1>2, <1>3 DEF StudentFollows

(* A pause that a sample ends is paid by the reports of the sample.        *)
LEMMA StudentPays ==
    ASSUME NEW n, NEW r, NEW o, StudentSees(n, r, o), StudentFollows,
           NEW l \in Labels, NEW i \in Index, NEW j \in Index, i <= j, SameUntil(l, i, j),
           PauseEnded(l, j)', ~PauseEnded(l, j), NEW until, until = At(j + 1)', until - At(i) >= MinDuration
    PROVE  Told(l, i, until)'
<1>1. /\ CaptureTyped /\ tool' = tool /\ phase' = phase /\ phase # "ended" /\ tool.watches = "student"
      /\ n \in Nat /\ n = Len(samples) /\ r \in Samples /\ samples' = Append(samples, r) /\ r.shown
  BY DEF StudentSees
<1>2. /\ \A k \in Index : At(k) \in Nat /\ At(k) < r.t /\ samples[k].shown
      /\ StudentGap(student, r.t) <=> (samples # <<>> /\ r.t - At(n) > MaxGap)
      /\ r.t \in Nat
  BY SeesFacts
<1>3. /\ Extended /\ At(n + 1)' = r.t /\ \A k \in Index : At(k)' = At(k)
      /\ On(n + 1, l)' <=> l \in r.on
      /\ Bridge = MergeGap /\ Bridge' = Bridge /\ MergeGap \in Nat /\ LongestGap' = MaxGap
  BY <1>1, Appended, Kept, Durations, PolicyAssumption
<1>4. /\ tool'.watches = "student" /\ j <= n /\ samples # <<>> /\ n \in Index /\ j \in Nat
      /\ j < n => j + 1 \in Index
  BY <1>1, EmptySeq DEF Index
<1>5. PICK c : c = student.active[l]
  OBVIOUS
<1>6. /\ c \in Candidates
      /\ j = n => c.begin # NoTime /\ c.begin <= At(i) /\ c.gap = NoTime
      /\ j < n /\ PausedFor(l, j, n) =>
              \/ c.begin # NoTime /\ c.begin <= At(i) /\ c.gap = At(j + 1)
              \/ At(n) - At(j + 1) >= MergeGap
  BY <1>5, FollowsFacts
<1>7. c.begin # NoTime => c.begin \in Nat
  BY <1>6 DEF Candidates, Times, NoTime
<1>8. j < n /\ PausedFor(l, j, n) => ~(At(n) - At(j + 1) >= MergeGap)
  <2>1. j < n => n \in (j + 1)..n
    BY <1>1, <1>4
  <2> QED BY <1>1, <1>3, <2>1 DEF PauseEnded
<1>9. until = IF j = n THEN r.t ELSE At(j + 1)
  BY <1>1, <1>3, <1>4
<1>10. CASE PausedFor(l, j, n + 1)' /\ (At(n + 1) - At(j + 1) >= Bridge)'
  <2>1. n + 1 \in (j + 1)..(n + 1) /\ \A m \in (j + 1)..n : m \in (j + 1)..(n + 1) /\ m \in Index
    BY <1>1, <1>4 DEF Index
  <2>2. l \notin r.on
    BY <1>3, <1>10, <2>1 DEF PausedFor
  <2>3. r.t - At(n) <= MaxGap
    <3>1. Joined(j, n + 1)'
      BY <1>10 DEF PausedFor
    <3> QED BY <1>1, <1>3, <1>4, <3>1, Appended, Durations
  <2>4. ~StudentGap(student, r.t)
    <3>1. MaxGap \in Nat /\ At(n) \in Nat /\ r.t \in Nat
      BY <1>2, <1>4, PolicyAssumption
    <3>2. ~(r.t - At(n) > MaxGap)
      BY <2>3, <3>1
    <3> QED BY <1>2, <3>2
  <2>5. j < n => PausedFor(l, j, n)
    <3>1. ASSUME j < n PROVE PausedFor(l, j, n)
      <4>1. Joined(j, n + 1)' => Joined(j, n)
        BY <1>1, <1>4, Appended
      <4>2. \A m \in (j + 1)..n : ~On(m, l)
        BY <1>3, <1>10, <2>1, Kept DEF PausedFor
      <4> QED BY <1>10, <4>1, <4>2 DEF PausedFor
    <3> QED BY <3>1
  <2>6. PICK gap : gap = IF c.gap = NoTime THEN r.t ELSE c.gap
    OBVIOUS
  <2>7. c.begin # NoTime /\ c.begin <= At(i) /\ gap = until
    BY <1>2, <1>4, <1>6, <1>8, <1>9, <2>5, <2>6 DEF NoTime
  <2>8. r.t - gap >= MergeGap
    BY <1>3, <1>10, <2>7
  <2>9. ~(gap - c.begin < MinDuration)
    <3>1. gap \in Nat
      BY <1>2, <1>4, <1>9, <2>7
    <3>2. At(i) \in Nat /\ c.begin \in Nat /\ MinDuration \in Nat
      BY <1>2, <1>7, <2>7, PolicyAssumption
    <3> QED BY <2>7, <3>1, <3>2
  <2>10. [label |-> l, start |-> c.begin, end |-> gap] \in reported'
    BY <1>5, <2>2, <2>4, <2>6, <2>7, <2>8, <2>9, PauseTells
  <2>11. until <= gap /\ c.begin <= At(i)'
    <3>1. until \in Nat
      BY <1>1, <1>2, <1>4, <1>9
    <3> QED BY <1>3, <2>7, <3>1
  <2> QED BY <1>4, <2>10, <2>11, Covering
<1>11. CASE j < n /\ PausedFor(l, j, n) /\ r.t - At(n) > MaxGap
  <2>1. StudentGap(student, r.t)
    BY <1>2, <1>4, <1>11
  <2>2. c.begin # NoTime /\ c.begin <= At(i) /\ c.gap = until /\ until = At(j + 1)
    BY <1>6, <1>8, <1>9, <1>11, <1>4
  <2>3. c.gap # NoTime /\ c.gap \in Nat
    BY <1>2, <1>4, <1>11, <2>2 DEF NoTime
  <2>4. ~(c.gap - c.begin < MinDuration)
    BY <1>2, <1>7, <2>2, <2>3, PolicyAssumption
  <2>5. [label |-> l, start |-> c.begin, end |-> c.gap] \in reported'
    BY <1>5, <2>1, <2>3, <2>4, GapTells
  <2>6. until <= c.gap /\ c.begin <= At(i)'
    BY <1>3, <2>2, <2>3
  <2> QED BY <1>4, <2>5, <2>6, Covering
<1> QED BY <1>1, <1>10, <1>11, PauseEndsAtRead

(* The student's worker keeps following what it has seen.                  *)
LEMMA FollowsOn ==
    ASSUME NEW n, NEW r, NEW o, StudentSees(n, r, o), StudentFollows
    PROVE  StudentFollows'
<1>1. /\ CaptureTyped /\ tool' = tool /\ tool.watches = "student"
      /\ n \in Nat /\ n = Len(samples) /\ r \in Samples /\ samples' = Append(samples, r) /\ r.shown
  BY DEF StudentSees
<1>2. /\ \A k \in Index : At(k) \in Nat /\ At(k) < r.t /\ samples[k].shown
      /\ StudentGap(student, r.t) <=> (samples # <<>> /\ r.t - At(n) > MaxGap)
      /\ r.t \in Nat
  BY SeesFacts
<1>3. /\ Extended /\ Len(samples)' = n + 1 /\ At(n + 1)' = r.t /\ \A k \in Index : At(k)' = At(k)
      /\ \A l : On(n + 1, l)' <=> l \in r.on
      /\ \A k : (k \in Index)' <=> k \in Index \/ k = n + 1
      /\ \A l : \A k, m \in Index : SameUntil(l, k, m)' <=> SameUntil(l, k, m)
      /\ MergeGap \in Nat /\ LongestGap = MaxGap
  BY <1>1, Appended, Kept, Durations, PolicyAssumption
<1> SUFFICES ASSUME NEW l \in Labels, NEW i \in Index', NEW j \in i..(n + 1), SameUntil(l, i, j)',
                    NEW a, a = student'.active[l]
             PROVE  /\ j = n + 1 => a.begin # NoTime /\ a.begin <= At(i)' /\ a.gap = NoTime
                    /\ j < n + 1 /\ PausedFor(l, j, n + 1)' =>
                          \/ a.begin # NoTime /\ a.begin <= At(i)' /\ a.gap = At(j + 1)'
                          \/ r.t - At(j + 1)' >= MergeGap
  BY <1>3 DEF StudentFollows
<1>4. PICK k : k = KeptOf(student, r.t)[l]
  OBVIOUS
<1>5. a = Advanced(k, l \in r.on, r.t) /\ k \in Candidates
  <2>1. PICK result : result = StudentObserve(student, o, r.t)
    OBVIOUS
  <2>2. student' = result.worker /\ r.on = Positive(student, o)
    BY <2>1 DEF StudentSees
  <2>3. k \in Candidates
    BY <1>4, SeesFacts DEF Holding
  <2> QED BY <1>4, <2>1, <2>2, <2>3, ObserveFacts
<1>6. PICK c : c = student.active[l]
  OBVIOUS
<1>7. ~StudentGap(student, r.t) => k = c
  BY <1>4, <1>6 DEF KeptOf
<1>8. ASSUME j = n + 1
      PROVE  a.begin # NoTime /\ a.begin <= At(i)' /\ a.gap = NoTime
  <2>1. l \in r.on
    <3>1. n + 1 \in i..j
      BY <1>1, <1>8
    <3> QED BY <1>3, <3>1 DEF SameUntil
  <2>2. CASE i = n + 1
    <3>1. a.gap = NoTime /\ (a.begin = r.t \/ (a.begin = k.begin /\ k # Free /\ ~Bridgeless(k, r.t)))
      BY <1>5, <2>1 DEF Advanced, Candidates
    <3>2. a.begin = k.begin /\ k # Free => k.begin # NoTime /\ k.begin <= r.t
      <4>1. ASSUME k # Free PROVE k.begin # NoTime /\ k.begin <= r.t
        <5>1. Rooted(k, l)
          BY <1>4, SeesFacts DEF Holding
        <5>2. k.begin # NoTime
          BY <1>5, <4>1, <5>1, FreeFacts DEF Rooted
        <5>3. PICK m \in Index : At(m) = k.begin
          BY <5>1, <5>2 DEF Rooted
        <5> QED BY <1>2, <5>2, <5>3
      <4> QED BY <4>1
    <3> QED BY <1>2, <1>3, <2>2, <3>1, <3>2 DEF NoTime
  <2>3. CASE i # n + 1
    <3>1. i \in Index
      BY <1>3, <2>3
    <3>2. SameUntil(l, i, n) /\ r.t - At(n) <= MaxGap
      BY <1>1, <1>3, <1>8, <3>1, Appended
    <3>3. n \in Index /\ i <= n /\ samples # <<>>
      BY <1>1, <3>1, EmptySeq DEF Index
    <3>4. ~StudentGap(student, r.t)
      BY <1>2, <3>2, <3>3, PolicyAssumption
    <3>5. c.begin # NoTime /\ c.begin <= At(i) /\ c.gap = NoTime
      BY <1>6, <3>1, <3>2, <3>3, FollowsFacts
    <3>6. a.begin = c.begin /\ a.gap = NoTime
      BY <1>5, <1>7, <2>1, <3>4, <3>5, FreeFacts DEF Advanced, Bridgeless, Candidates
    <3> QED BY <1>3, <3>1, <3>5, <3>6
  <2> QED BY <2>2, <2>3
<1>9. ASSUME j < n + 1, PausedFor(l, j, n + 1)'
      PROVE  \/ a.begin # NoTime /\ a.begin <= At(i)' /\ a.gap = At(j + 1)'
             \/ r.t - At(j + 1)' >= MergeGap
  <2>1. /\ i \in Index /\ j \in Index /\ i <= j /\ n \in Index /\ samples # <<>>
        /\ n + 1 \in (j + 1)..(n + 1) /\ n + 1 - 1 = n
        /\ \A m \in (j + 1)..n : m \in (j + 1)..(n + 1) /\ m \in Index
    BY <1>1, <1>3, <1>9, EmptySeq DEF Index
  <2>2. SameUntil(l, i, j) /\ l \notin r.on
    BY <1>3, <1>9, <2>1 DEF PausedFor
  <2>3. Joined(j, n) /\ r.t - At(n) <= MaxGap
    <3>1. Joined(j, n + 1)'
      BY <1>9 DEF PausedFor
    <3> QED BY <1>1, <1>3, <2>1, <3>1, Appended
  <2>4. ~StudentGap(student, r.t)
    <3>1. MaxGap \in Nat /\ At(n) \in Nat /\ r.t \in Nat
      BY <1>2, <2>1, PolicyAssumption
    <3>2. ~(r.t - At(n) > MaxGap)
      BY <2>3, <3>1
    <3> QED BY <1>2, <3>2
  <2>5. j < n => PausedFor(l, j, n)
    <3>1. \A m \in (j + 1)..n : ~On(m, l)
      BY <1>3, <1>9, <2>1, Kept DEF PausedFor
    <3> QED BY <2>3, <3>1 DEF PausedFor
  <2>6. /\ j = n => c.begin # NoTime /\ c.begin <= At(i) /\ c.gap = NoTime
        /\ j < n /\ PausedFor(l, j, n) =>
              \/ c.begin # NoTime /\ c.begin <= At(i) /\ c.gap = At(j + 1)
              \/ At(n) - At(j + 1) >= MergeGap
    BY <1>6, <2>1, <2>2, FollowsFacts
  <2>7. /\ At(n) \in Nat /\ At(n) < r.t /\ At(i)' = At(i) /\ j \in Nat
        /\ j < n => At(j + 1)' = At(j + 1) /\ At(j + 1) \in Nat
        /\ j = n => At(j + 1)' = r.t
    BY <1>1, <1>2, <1>3, <2>1 DEF Index
  <2>8. CASE j < n /\ At(n) - At(j + 1) >= MergeGap
    BY <1>2, <1>3, <2>7, <2>8
  <2>9. CASE c.begin # NoTime /\ c.begin <= At(i) /\ (c.gap = At(j + 1)' \/ (j = n /\ c.gap = NoTime))
    <3>1. PICK p : p = PausedAt(k, r.t)
      OBVIOUS
    <3>2. p.begin = c.begin /\ p.gap = At(j + 1)'
      <4>1. At(j + 1)' \in Nat
        BY <1>1, <1>2, <1>9, <2>7
      <4> QED BY <1>5, <1>7, <2>4, <2>7, <2>9, <3>1, <4>1 DEF PausedAt, Candidates, NoTime
    <3>3. a = IF k = Free \/ Bridgeless(p, r.t) THEN Free ELSE p
      BY <1>5, <2>2, <3>1 DEF Advanced
    <3>4. k # Free
      BY <1>7, <2>4, <2>9, FreeFacts
    <3>5. Bridgeless(p, r.t) => r.t - At(j + 1)' >= MergeGap
      BY <3>2 DEF Bridgeless
    <3> QED BY <2>7, <2>9, <3>2, <3>3, <3>4, <3>5
  <2> QED BY <1>1, <1>9, <2>1, <2>5, <2>6, <2>7, <2>8, <2>9
<1> QED BY <1>8, <1>9

(* The student's worker has paid all that it owes after a sample.          *)
LEMMA StudentSustained ==
    ASSUME NEW n, NEW r, NEW o, StudentSees(n, r, o), StudentFollows, SustainedIsReported
    PROVE  SustainedIsReported'
<1>1. /\ CaptureTyped /\ tool' = tool /\ tool.watches = "student" /\ phase' = "running"
      /\ n \in Nat /\ n = Len(samples) /\ r \in Samples /\ samples' = Append(samples, r)
      /\ reported \subseteq reported' /\ tool'.watches = "student"
  BY DEF StudentSees
<1>2. /\ Extended /\ Len(samples)' = n + 1 /\ \A k \in Index : At(k)' = At(k)
      /\ \A k : (k \in Index)' <=> k \in Index \/ k = n + 1
      /\ \A l : \A k, m \in Index : SameUntil(l, k, m)' <=> SameUntil(l, k, m)
      /\ Shortest' = MinDuration /\ Shortest = MinDuration
      /\ Watched = Labels /\ Watched' = Labels
  BY <1>1, Appended, Kept, Durations DEF Watched, OfWorker
<1> SUFFICES ASSUME NEW l \in Labels, NEW i \in Index', NEW j \in i..(n + 1),
                    SameUntil(l, i, j)', ~Cooling(l, i)', j < n + 1, PauseEnded(l, j)',
                    NEW until, until = At(j + 1)', until - At(i)' >= MinDuration
             PROVE  Told(l, i, until)'
  BY <1>1, <1>2 DEF SustainedIsReported
<1>3. i \in Index /\ j \in Index /\ i <= j /\ (j < n => j + 1 \in Index) /\ j <= n /\ j \in Nat
  BY <1>1, <1>2 DEF Index
<1>4. SameUntil(l, i, j) /\ At(i)' = At(i)
  BY <1>2, <1>3
<1>5. CASE PauseEnded(l, j)
  <2>1. j < n
    BY <1>1, <1>3, <1>5 DEF PauseEnded
  <2>2. until = At(j + 1) /\ At(j + 1) - At(i) >= Shortest
    BY <1>2, <1>3, <1>4, <2>1
  <2> QED BY <1>1, <1>2, <1>3, <1>4, <1>5, <2>1, <2>2, PaidBefore
<1>6. CASE ~PauseEnded(l, j)
  BY <1>3, <1>4, <1>6, StudentPays
<1> QED BY <1>5, <1>6

-----------------------------------------------------------------------------
(* Nothing more is owed while no sample is added and the program does not   *)
(* end in order.                                                           *)
LEMMA NothingOwed ==
    ASSUME CaptureTyped, SustainedIsReported, tool' = tool, samples' = samples,
           reported \subseteq reported', phase' # "ended"
    PROVE  SustainedIsReported'
<1>1. PICK n : n = Len(samples)
  OBVIOUS
<1>2. /\ Extended /\ n \in Nat /\ Index' = Index /\ Index = 1..n /\ \A k : At(k)' = At(k)
      /\ \A l : \A k, m \in Index : SameUntil(l, k, m)' <=> SameUntil(l, k, m)
      /\ Shortest' = Shortest /\ Watched' = Watched /\ Len(samples)' = n
  BY <1>1, Same, Kept, WatchedStays, LenProperties DEF Index, At, CaptureTyped
<1> SUFFICES ASSUME NEW l \in Watched, NEW i \in Index, NEW j \in i..n,
                    SameUntil(l, i, j)', ~Cooling(l, i)'
             PROVE  /\ tool.watches = "desktop" /\ At(j) - At(i) >= Shortest =>
                          \A until : until = At(j) => Told(l, i, until)'
                    /\ j < n /\ At(j + 1) - At(i) >= Shortest /\ PauseEnded(l, j)' =>
                          \A until : until = At(j + 1) => Told(l, i, until)'
  BY <1>1, <1>2 DEF SustainedIsReported
<1>3. j \in Index /\ i <= j
  BY <1>2
<1>4. SameUntil(l, i, j)
  BY <1>2, <1>3
<1>5. PauseEnded(l, j)' => PauseEnded(l, j)
  BY <1>1, <1>2, <1>3, PauseEndsAtEnd
<1> QED BY <1>1, <1>2, <1>3, <1>4, <1>5, PaidBefore

(* The student's program ends: what is open is told.                       *)
LEMMA FlushTells ==
    ASSUME NEW l \in Labels, NEW c, c = student.active[l], c.begin # NoTime, NEW now,
           NEW end, end = IF c.gap # NoTime THEN c.gap ELSE now, ~(end - c.begin < MinDuration)
    PROVE  [label |-> l, start |-> c.begin, end |-> end] \in StudentFlush(student, now)
BY DEF StudentFlush, Running, Paused, Reportable

LEMMA StudentEndsSustained ==
    ASSUME SoundInv, StudentFollows, SustainedIsReported, StudentEnds
    PROVE  SustainedIsReported'
<1>1. /\ CaptureTyped /\ Ordered /\ StudentRuns /\ tool.watches = "student" /\ tool' = tool
      /\ samples' = samples /\ phase' = "ended" /\ last' = last /\ tool'.watches = "student"
      /\ reported' = reported \cup StudentFlush(student, last)
      /\ last \in Nat /\ student \in StudentWorkers
  BY DEF SoundInv, StudentEnds, Watching, EndsAs, CaptureTyped
<1>2. PICK n : n = Len(samples)
  OBVIOUS
<1>3. /\ Extended /\ n \in Nat /\ Index' = Index /\ Index = 1..n /\ \A k : At(k)' = At(k)
      /\ \A l : \A k, m \in Index : SameUntil(l, k, m)' <=> SameUntil(l, k, m)
      /\ Shortest' = MinDuration /\ Shortest = MinDuration /\ MinDuration \in Nat
      /\ Watched' = Labels /\ Watched = Labels /\ Len(samples)' = n
      /\ \A k \in Index : At(k) \in Nat
  <2>1. \A k \in Index : At(k) \in Nat
    BY <1>1, SteadyFacts DEF StudentRuns
  <2> QED BY <1>1, <1>2, <2>1, Same, Kept, Durations, LenProperties, PolicyAssumption
          DEF Index, At, CaptureTyped, Watched, OfWorker
<1> SUFFICES ASSUME NEW l \in Labels, NEW i \in Index, NEW j \in i..n,
                    SameUntil(l, i, j)', ~Cooling(l, i)'
             PROVE  /\ j < n /\ At(j + 1) - At(i) >= MinDuration /\ PauseEnded(l, j)' =>
                          \A until : until = At(j + 1) => Told(l, i, until)'
                    /\ j = n /\ last - At(i) >= MinDuration =>
                          \A until : until = last => Told(l, i, until)'
  BY <1>1, <1>2, <1>3 DEF SustainedIsReported
<1>4. j \in Index /\ i <= j /\ (j < n => j + 1 \in Index) /\ At(i)' = At(i) /\ At(i) \in Nat
  BY <1>3
<1>5. SameUntil(l, i, j)
  BY <1>3, <1>4
<1>6. PICK c : c = student.active[l]
  OBVIOUS
<1>7. /\ c \in Candidates
      /\ j = n => c.begin # NoTime /\ c.begin <= At(i) /\ c.gap = NoTime
      /\ j < n /\ PausedFor(l, j, n) =>
              \/ c.begin # NoTime /\ c.begin <= At(i) /\ c.gap = At(j + 1)
              \/ At(n) - At(j + 1) >= MergeGap
  BY <1>1, <1>2, <1>5, <1>6 DEF StudentFollows, StudentWorkers
<1>8. c.begin # NoTime => c.begin \in Nat
  BY <1>7 DEF Candidates, Times, NoTime
<1>9. \A end : /\ c.begin # NoTime /\ end = (IF c.gap # NoTime THEN c.gap ELSE last)
               /\ ~(end - c.begin < MinDuration)
               => [label |-> l, start |-> c.begin, end |-> end] \in reported'
  BY <1>1, <1>6, FlushTells
<1>10. ASSUME j < n, At(j + 1) - At(i) >= MinDuration, PauseEnded(l, j)', NEW until, until = At(j + 1)
       PROVE  Told(l, i, until)'
  <2>1. CASE PauseEnded(l, j)
    BY <1>1, <1>2, <1>3, <1>4, <1>5, <1>10, <2>1, PaidBefore
  <2>2. CASE ~PauseEnded(l, j)
    <3>1. PausedFor(l, j, n)
      BY <1>1, <1>2, <1>3, <1>4, <1>10, <2>2, PauseEndsAtEnd
    <3>2. ~(At(n) - At(j + 1) >= MergeGap)
      <4>1. n \in (j + 1)..n /\ Bridge = MergeGap
        BY <1>1, <1>3, <1>4, <1>10, Durations
      <4> QED BY <1>2, <2>2, <3>1, <4>1 DEF PauseEnded
    <3>3. c.begin # NoTime /\ c.begin <= At(i) /\ c.gap = until /\ until \in Nat
      <4>1. c.begin # NoTime /\ c.begin <= At(i) /\ c.gap = At(j + 1)
        BY <1>7, <1>10, <3>1, <3>2
      <4>2. At(j + 1) \in Nat
        BY <1>3, <1>4, <1>10
      <4> QED BY <1>10, <4>1, <4>2
    <3>4. c.gap # NoTime /\ ~(c.gap - c.begin < MinDuration)
      <4>1. c.begin \in Nat /\ At(i) \in Nat /\ MinDuration \in Nat /\ until - At(i) >= MinDuration
        BY <1>3, <1>4, <1>8, <1>10, <3>3
      <4>2. ~(until - c.begin < MinDuration)
        BY <3>3, <4>1
      <4> QED BY <3>3, <4>2 DEF NoTime
    <3>5. [label |-> l, start |-> c.begin, end |-> until] \in reported' /\ c.begin <= At(i)' /\ until <= until
      BY <1>4, <1>9, <3>3, <3>4
    <3> QED BY <1>1, <3>5, Covering
  <2> QED BY <2>1, <2>2
<1>11. ASSUME j = n, last - At(i) >= MinDuration, NEW until, until = last
       PROVE  Told(l, i, until)'
  <2>1. c.begin # NoTime /\ c.begin <= At(i) /\ c.gap = NoTime
    BY <1>7, <1>11
  <2>2. ~(last - c.begin < MinDuration)
    BY <1>1, <1>3, <1>4, <1>8, <1>11, <2>1
  <2>3. [label |-> l, start |-> c.begin, end |-> until] \in reported' /\ c.begin <= At(i)' /\ until <= until
    BY <1>1, <1>4, <1>9, <1>11, <2>1, <2>2
  <2> QED BY <1>1, <2>3, Covering
<1> QED BY <1>10, <1>11

LEMMA FirstPause ==
    ASSUME NEW l, NEW j \in Nat, NEW k \in Nat, j < k, PausedFor(l, j, k)'
    PROVE  PausedFor(l, j, j + 1)'
<1>1. /\ \A m \in j..(j + 1) : m \in j..k
      /\ \A m \in (j + 1)..(j + 1) : m \in (j + 1)..k
  OBVIOUS
<1>2. Joined(j, k)' /\ \A m \in (j + 1)..k : ~On(m, l)'
  BY DEF PausedFor
<1>3. Joined(j, j + 1)'
  BY <1>1, <1>2 DEF Joined
<1>4. \A m \in (j + 1)..(j + 1) : ~On(m, l)'
  BY <1>1, <1>2
<1> QED BY <1>3, <1>4 DEF PausedFor

(* A worker that bridges no pause ends it at its first sample.             *)
LEMMA EndedAtOnce ==
    ASSUME CaptureTyped, tool' = tool, phase' = phase, phase # "ended", tool.watches # "student",
           NEW n \in Nat, n = Len(samples), NEW r \in Samples, samples' = Append(samples, r),
           NEW l, NEW j \in Index, PauseEnded(l, j)', \A k \in Index : At(k) \in Nat
    PROVE  \/ PauseEnded(l, j)
           \/ j = n /\ Joined(n, n + 1)' /\ l \notin r.on
<1>1. /\ Extended /\ Bridge = 0
      /\ \A k \in Index : PausedFor(l, j, k)' <=> PausedFor(l, j, k)
      /\ On(n + 1, l)' <=> l \in r.on
  <2>1. Extended /\ (On(n + 1, l)' <=> l \in r.on)
    BY Appended
  <2>2. Bridge = 0
    BY Durations DEF CaptureTyped, Tools
  <2> QED BY <2>1, <2>2, PausesKept
<1>2. j \in Nat /\ j <= n /\ (j < n => j + 1 \in Index /\ j + 1 \in (j + 1)..n)
  BY DEF Index
<1>3. CASE PausedFor(l, j, n + 1)'
  <2>1. CASE j = n
    <3>1. n + 1 \in (n + 1)..(n + 1)
      OBVIOUS
    <3> QED BY <1>1, <1>3, <2>1, <3>1 DEF PausedFor
  <2>2. CASE j # n
    <3>1. PausedFor(l, j, j + 1)'
      BY <1>2, <1>3, <2>2, FirstPause
    <3>2. PausedFor(l, j, j + 1) /\ j < n /\ At(j + 1) - At(j + 1) >= Bridge
      BY <1>1, <1>2, <2>2, <3>1
    <3> QED BY <1>2, <3>2 DEF PauseEnded
  <2> QED BY <2>1, <2>2
<1> QED BY <1>3, PauseEndsAtRead

LEMMA EndedBefore ==
    ASSUME CaptureTyped, tool' = tool, samples' = samples, tool.watches # "student",
           NEW n \in Nat, n = Len(samples), NEW l, NEW j \in Index, PauseEnded(l, j)',
           \A k \in Index : At(k) \in Nat
    PROVE  PauseEnded(l, j)
<1>1. /\ Extended /\ Bridge = 0
      /\ \A k \in Index : PausedFor(l, j, k)' <=> PausedFor(l, j, k)
  <2>1. Bridge = 0
    BY Durations DEF CaptureTyped, Tools
  <2> QED BY <2>1, Same, PausesKept
<1>2. j \in Nat /\ (j < n => j + 1 \in Index /\ j + 1 \in (j + 1)..n /\ n \in Index)
  BY DEF Index
<1>3. CASE j < n /\ PausedFor(l, j, n)
  <2>1. PausedFor(l, j, j + 1)'
    BY <1>1, <1>2, <1>3, FirstPause
  <2>2. PausedFor(l, j, j + 1) /\ At(j + 1) - At(j + 1) >= Bridge
    BY <1>1, <1>2, <1>3, <2>1
  <2> QED BY <1>2, <1>3, <2>2 DEF PauseEnded
<1> QED BY <1>3, PauseEndsAtEnd

LEMMA TimesNatural ==
    ASSUME CaptureTyped
    PROVE  /\ Len(samples) \in Nat /\ last \in Nat
           /\ \A k \in Index : At(k) \in Nat
<1>1. \A k \in Index : samples[k] \in Samples
  BY ElementOfSeq DEF CaptureTyped, Index
<1> QED BY <1>1, LenProperties DEF CaptureTyped, Samples, At

-----------------------------------------------------------------------------
(* What the presenter's worker has seen run until the last sample runs on.  *)
LEMMA VisionGoesOn ==
    ASSUME NEW n, NEW r, NEW latency, PresenterSees(n, r, latency), PresenterFollows,
           NEW k \in Kinds, k \in Judged(tool.board), NEW i \in Index, SameUntil(k, i, n), Joined(n, n + 1)',
           NEW v, v = KeptVision(vision, r.t)
    PROVE  \/ v.begun[k] # Never /\ v.begun[k] <= At(i) /\ v.begun[k] = vision.begun[k]
           \/ Cooling(k, i)
<1>1. /\ n = Len(samples) /\ n \in Nat /\ r \in Samples /\ samples' = Append(samples, r)
      /\ CaptureTyped /\ Ordered /\ PresenterRuns /\ tool' = tool /\ tool.watches = "presenter"
      /\ r.t \in Nat /\ vision \in VisionWorkers
  BY PresenterFacts DEF PresenterSees
<1>2. n \in Index
  BY <1>1 DEF Index
<1>3. r.t - At(n) <= VisionMaxGap
  BY <1>1, <1>2, Appended, Durations
<1>4. ASSUME vision.begun[k] # Never /\ vision.begun[k] <= At(i)
      PROVE  v = vision
  <2>1. vision.previous = At(n)
    BY <1>1, <1>4, RunningFacts
  <2> QED BY <1>3, <2>1, VisionAssumption, <1>1, <1>2, TimesNatural DEF KeptVision, VisionGap
<1>5. (vision.begun[k] # Never /\ vision.begun[k] <= At(i)) \/ Cooling(k, i)
  BY <1>1 DEF PresenterFollows
<1> QED BY <1>4, <1>5

LEMMA VisionTells ==
    ASSUME NEW n, NEW r, NEW latency, PresenterSees(n, r, latency),
           NEW v, v = KeptVision(vision, r.t), NEW k \in Kinds, k \notin r.on,
           v.begun[k] # Never, ~(r.t - v.begun[k] < VisionMinDuration)
    PROVE  [label |-> k, start |-> v.begun[k], end |-> r.t] \in reported'
<1>1. PICK result : result = VisionObserve(vision, r.on, r.t, latency)
  OBVIOUS
<1>2. reported' = reported \cup result.events
  BY <1>1 DEF PresenterSees
<1>3. [label |-> k, start |-> v.begun[k], end |-> r.t] \in EndedBy(v, k, r.on, r.t)
  BY DEF EndedBy, Ended
<1> QED BY <1>1, <1>2, <1>3, VisionEvents

(* The presenter's worker keeps following what it has seen.                *)
LEMMA PresenterFollowsOn ==
    ASSUME NEW n, NEW r, NEW latency, PresenterSees(n, r, latency), PresenterFollows
    PROVE  PresenterFollows'
<1>1. /\ n = Len(samples) /\ n \in Nat /\ r \in Samples /\ samples' = Append(samples, r)
      /\ CaptureTyped /\ tool' = tool /\ tool.watches = "presenter" /\ tool'.watches = "presenter"
      /\ r.t \in Nat /\ vision \in VisionWorkers /\ latency \in Nat /\ Extended /\ last' = r.t
      /\ last \in Nat /\ last <= r.t /\ reported \subseteq Reports
      /\ reported \subseteq reported' /\ Cooldown \in Nat
  BY PresenterFacts, VisionAssumption DEF PresenterSees, CaptureTyped
<1>2. PICK v, result : /\ v = KeptVision(vision, r.t)
                       /\ result = VisionObserve(vision, r.on, r.t, latency)
  OBVIOUS
<1>3. \A k \in Kinds : /\ vision'.begun[k] = BegunAt(v, k, r.on, r.t)
                       /\ vision'.cool[k] = CoolUntil(v, k, r.on, r.t)
  <2>1. vision' = result.worker
    BY <1>2 DEF PresenterSees
  <2> QED BY <1>1, <1>2, <2>1, VisionObserves
<1>4. /\ v \in VisionWorkers /\ v.cool = vision.cool
      /\ \A k \in Kinds : v.cool[k] \in Nat /\ (v.begun[k] # Never => v.begun[k] = vision.begun[k])
  BY <1>1, <1>2, KeptVisionFacts DEF VisionWorkers
<1>5. ASSUME NEW k \in Kinds
      PROVE  vision.cool[k] = 0 \/ \E e \in reported : /\ e.label = k /\ e.end <= r.t
                                                       /\ vision.cool[k] = e.end + Cooldown
  <2>1. CASE vision.cool[k] # 0
    <3>1. PICK e \in reported : e.label = k /\ vision.cool[k] = e.end + Cooldown /\ e.end <= last
      BY <2>1 DEF PresenterFollows
    <3>2. e.end <= r.t
      BY <1>1, <3>1 DEF Reports
    <3> QED BY <3>1, <3>2
  <2> QED BY <2>1
<1>6. ASSUME NEW k \in Kinds
      PROVE  vision'.cool[k] = 0 \/ \E e \in reported' : /\ e.label = k /\ e.end <= r.t
                                                         /\ vision'.cool[k] = e.end + Cooldown
  <2>1. CASE EndedBy(v, k, r.on, r.t) = {}
    <3>1. vision'.cool[k] = vision.cool[k]
      BY <1>3, <1>4, <2>1 DEF CoolUntil
    <3> QED BY <1>1, <1>5, <3>1
  <2>2. CASE EndedBy(v, k, r.on, r.t) # {}
    <3>1. PICK e : e \in EndedBy(v, k, r.on, r.t)
      BY <2>2
    <3>2. e \in result.events
      BY <1>2, <3>1, VisionEvents
    <3>3. e \in reported'
      BY <1>2, <3>2 DEF PresenterSees
    <3>4. e.label = k /\ e.end = r.t
      BY <1>2, <3>1, VisionReport
    <3>5. vision'.cool[k] = r.t + Cooldown
      BY <1>3, <2>2 DEF CoolUntil
    <3> QED BY <1>1, <3>3, <3>4, <3>5
  <2> QED BY <2>1, <2>2
<1>7. /\ Len(samples)' = n + 1 /\ At(n + 1)' = r.t /\ \A k \in Index : At(k)' = At(k)
      /\ \A k : (k \in Index)' <=> k \in Index \/ k = n + 1
      /\ \A l : \A k \in Index : SameUntil(l, k, n + 1)' => SameUntil(l, k, n) /\ l \in r.on
      /\ \A l : SameUntil(l, n + 1, n + 1)' => l \in r.on
      /\ \A k \in Index : Joined(k, n + 1)' => Joined(n, n + 1)'
      /\ Judged(tool'.board) = Judged(tool.board)
  <2>1. ASSUME NEW k \in Index, Joined(k, n + 1)' PROVE Joined(n, n + 1)'
    <3>1. /\ \A m \in n..(n + 1) : m \in k..(n + 1)
          /\ \A m \in (n + 1)..(n + 1) : m \in (k + 1)..(n + 1)
      BY <1>1 DEF Index
    <3> QED BY <2>1, <3>1 DEF Joined
  <2> QED BY <1>1, <2>1, Appended, Kept
<1>8. ASSUME NEW k \in Kinds, NEW i \in Index', SameUntil(k, i, n + 1)', k \in Judged(tool.board)
      PROVE  (vision'.begun[k] # Never /\ vision'.begun[k] <= At(i)') \/ Cooling(k, i)'
  <2>1. CASE i \in Index
    <3>1. SameUntil(k, i, n) /\ k \in r.on /\ Joined(n, n + 1)'
      BY <1>7, <1>8, <2>1 DEF SameUntil
    <3>2. \/ v.begun[k] # Never /\ v.begun[k] <= At(i) /\ v.begun[k] = vision.begun[k]
          \/ Cooling(k, i)
      BY <1>2, <1>8, <2>1, <3>1, VisionGoesOn
    <3>3. v.begun[k] # Never => vision'.begun[k] = v.begun[k]
      BY <1>3, <3>1 DEF BegunAt
    <3> QED BY <1>1, <1>7, <2>1, <3>2, <3>3, CoolingGrows
  <2>2. CASE i = n + 1
    <3>1. k \in r.on /\ At(i)' = r.t
      BY <1>7, <1>8, <2>2
    <3>2. CASE v.begun[k] # Never
      <4>1. vision'.begun[k] = v.begun[k] /\ v.begun[k] = vision.begun[k]
        <5>1. vision'.begun[k] = v.begun[k]
          BY <1>3, <3>1, <3>2 DEF BegunAt
        <5>2. v.begun[k] = vision.begun[k]
          BY <1>4, <3>2
        <5> QED BY <5>1, <5>2
      <4>2. vision.begun[k] <= last /\ vision.begun[k] \in Nat
        BY <3>2, <4>1, RunningFacts DEF PresenterSees
      <4> QED BY <1>1, <3>1, <3>2, <4>1, <4>2
    <3>3. CASE v.begun[k] = Never /\ r.t >= v.cool[k]
      <4>1. vision'.begun[k] = r.t
        BY <1>3, <3>1, <3>3 DEF BegunAt, Continues
      <4> QED BY <1>1, <3>1, <4>1 DEF Never
    <3>4. CASE ~(r.t >= v.cool[k])
      <4>1. PICK e \in reported : e.label = k /\ e.end <= r.t /\ vision.cool[k] = e.end + Cooldown
        BY <1>1, <1>4, <1>5, <3>4
      <4>2. e.end <= At(i)' /\ At(i)' < e.end + Cooldown
        BY <1>1, <1>4, <3>1, <3>4, <4>1 DEF Reports
      <4> QED BY <1>1, <4>1, <4>2 DEF Cooling
    <3> QED BY <3>2, <3>3, <3>4
  <2> QED BY <1>7, <2>1, <2>2
<1> QED BY <1>1, <1>6, <1>7, <1>8 DEF PresenterFollows

(* And has paid all that it owes.                                          *)
LEMMA PresenterSustained ==
    ASSUME NEW n, NEW r, NEW latency, PresenterSees(n, r, latency), PresenterFollows, SustainedIsReported
    PROVE  SustainedIsReported'
<1>1. /\ n = Len(samples) /\ n \in Nat /\ r \in Samples /\ samples' = Append(samples, r)
      /\ CaptureTyped /\ tool' = tool /\ tool.watches = "presenter" /\ tool'.watches = "presenter"
      /\ r.t \in Nat /\ Extended /\ reported \subseteq reported' /\ phase = "running" /\ phase' = "running"
      /\ vision \in VisionWorkers
  BY PresenterFacts DEF PresenterSees
<1>2. /\ Len(samples)' = n + 1 /\ At(n + 1)' = r.t /\ \A k \in Index : At(k)' = At(k) /\ At(k) \in Nat
      /\ \A k : (k \in Index)' <=> k \in Index \/ k = n + 1
      /\ \A l : \A k, m \in Index : SameUntil(l, k, m)' <=> SameUntil(l, k, m)
      /\ Shortest' = VisionMinDuration /\ Shortest = VisionMinDuration /\ VisionMinDuration \in Nat
      /\ Watched = Judged(tool.board) /\ Watched' = Watched /\ Judged(tool.board) \subseteq Kinds
  BY <1>1, Appended, Kept, Durations, WatchedStays, TimesNatural, VisionAssumption
     DEF Watched, OfWorker, Judged
<1> SUFFICES ASSUME NEW l \in Watched, NEW i \in Index', NEW j \in i..(n + 1),
                    SameUntil(l, i, j)', ~Cooling(l, i)', j < n + 1, PauseEnded(l, j)',
                    NEW until, until = At(j + 1)', until - At(i)' >= VisionMinDuration
             PROVE  Told(l, i, until)'
  BY <1>1, <1>2 DEF SustainedIsReported
<1>3. i \in Index /\ j \in Index /\ i <= j /\ (j < n => j + 1 \in Index) /\ j <= n /\ j \in Nat
  BY <1>1, <1>2 DEF Index
<1>4. SameUntil(l, i, j) /\ At(i)' = At(i)
  BY <1>2, <1>3
<1>5. CASE PauseEnded(l, j)
  <2>1. j < n
    BY <1>1, <1>3, <1>5 DEF PauseEnded
  <2>2. until = At(j + 1) /\ At(j + 1) - At(i) >= Shortest
    BY <1>2, <1>3, <1>4, <2>1
  <2> QED BY <1>1, <1>2, <1>3, <1>4, <1>5, <2>1, <2>2, PaidBefore
<1>6. CASE ~PauseEnded(l, j)
  <2>1. j = n /\ Joined(n, n + 1)' /\ l \notin r.on
    BY <1>1, <1>2, <1>3, <1>6, EndedAtOnce
  <2>2. PICK v : v = KeptVision(vision, r.t)
    OBVIOUS
  <2>3. ~Cooling(l, i) /\ l \in Kinds
    BY <1>1, <1>2, <1>3, CoolingGrows
  <2>4. v.begun[l] # Never /\ v.begun[l] <= At(i) /\ v.begun[l] = vision.begun[l]
    BY <1>2, <1>3, <1>4, <2>1, <2>2, <2>3, VisionGoesOn
  <2>5. vision.begun[l] \in Nat
    BY <2>3, <2>4, RunningFacts DEF PresenterSees
  <2>6. until = r.t
    BY <1>2, <2>1
  <2>7. ~(r.t - v.begun[l] < VisionMinDuration)
    BY <1>1, <1>2, <1>3, <1>4, <2>4, <2>5, <2>6
  <2>8. [label |-> l, start |-> v.begun[l], end |-> r.t] \in reported'
    BY <2>1, <2>2, <2>3, <2>4, <2>7, VisionTells
  <2>9. v.begun[l] <= At(i)' /\ until <= r.t
    BY <1>1, <1>4, <2>4, <2>6
  <2> QED BY <1>1, <2>8, <2>9, Covering
<1> QED BY <1>5, <1>6

(* A layout without the presenter starts nothing and owes nothing.         *)
LEMMA HiddenOwesNothing ==
    ASSUME CaptureTyped, SustainedIsReported, tool.watches = "presenter", tool' = tool,
           phase = "running", phase' = phase, reported' = reported,
           NEW r \in Samples, samples' = Append(samples, r), ~r.shown
    PROVE  /\ SustainedIsReported'
           /\ \A l : \A i \in Index' : ~SameUntil(l, i, Len(samples))'
<1>1. PICK n : n = Len(samples)
  OBVIOUS
<1>2. /\ n \in Nat /\ Extended /\ Len(samples)' = n + 1 /\ samples'[n + 1] = r
      /\ \A k \in Index : At(k)' = At(k) /\ At(k) \in Nat
      /\ \A k : (k \in Index)' <=> k \in Index \/ k = n + 1
      /\ \A l : \A k, m \in Index : SameUntil(l, k, m)' <=> SameUntil(l, k, m)
      /\ Shortest' = Shortest /\ Watched' = Watched
  BY <1>1, TimesNatural, Appended, Kept, WatchedStays
<1>3. \A i : i <= n + 1 /\ i \in Nat => ~Joined(i, n + 1)'
  <2>1. \A i : i <= n + 1 /\ i \in Nat => n + 1 \in i..(n + 1)
    BY <1>2
  <2> QED BY <1>2, <2>1 DEF Joined
<1>4. \A i \in Index' : i <= n + 1 /\ i \in Nat
  BY <1>2 DEF Index
<1>5. SustainedIsReported'
  <2> SUFFICES ASSUME NEW l \in Watched, NEW i \in Index', NEW j \in i..(n + 1),
                      SameUntil(l, i, j)', ~Cooling(l, i)', j < n + 1, PauseEnded(l, j)',
                      NEW until, until = At(j + 1)', until - At(i)' >= Shortest
               PROVE  Told(l, i, until)'
    BY <1>2 DEF SustainedIsReported
  <2>1. i \in Index /\ j \in Index /\ i <= j /\ (j < n => j + 1 \in Index) /\ j <= n /\ j \in Nat
    BY <1>1, <1>2 DEF Index
  <2>2. SameUntil(l, i, j) /\ At(i)' = At(i)
    BY <1>2, <2>1
  <2>3. PauseEnded(l, j)
    BY <1>1, <1>2, <1>3, <2>1, EndedAtOnce
  <2>4. j < n
    BY <1>1, <1>2, <2>1, <2>3 DEF PauseEnded
  <2>5. until = At(j + 1) /\ At(j + 1) - At(i) >= Shortest
    BY <1>2, <2>1, <2>2, <2>4
  <2> QED BY <1>1, <1>2, <2>1, <2>2, <2>3, <2>4, <2>5, PaidBefore
<1> QED BY <1>2, <1>3, <1>4, <1>5 DEF SameUntil

LEMMA TileFollows ==
    ASSUME SoundInv, PresenterFollows, SustainedIsReported, NEW dt \in Nat, TileHidden(dt)
    PROVE  PresenterFollows' /\ SustainedIsReported'
<1>1. PICK now : now = clock + dt
  OBVIOUS
<1>2. /\ CaptureTyped /\ Ordered /\ phase = "running" /\ tool.watches = "presenter"
      /\ now \in Nat /\ last \in Nat /\ last <= now /\ vision \in VisionWorkers
      /\ reported \subseteq Reports
  BY <1>1, ClockFacts DEF SoundInv, TileHidden, Watching, CaptureTyped
<1>3. PICK r : r = [t |-> now, on |-> {}, face |-> FALSE, shown |-> FALSE]
  OBVIOUS
<1>4. r \in Samples /\ ~r.shown
  BY <1>2, <1>3 DEF Samples
<1>5. /\ last' = now /\ vision' = VisionUnavailable(vision)
      /\ \/ samples' = samples /\ samples # <<>> /\ ~samples[Len(samples)].shown
         \/ samples' = Append(samples, r)
      /\ UNCHANGED <<tool, reported, phase>>
  BY <1>1, <1>3 DEF TileHidden, Saw
<1>6. vision'.cool = vision.cool
  BY <1>2, <1>5, UnavailableFacts
<1>7. SustainedIsReported' /\ \A l : \A i \in Index' : ~SameUntil(l, i, Len(samples))'
  <2>1. CASE samples' = Append(samples, r)
    BY <1>2, <1>4, <1>5, <2>1, HiddenOwesNothing
  <2>2. CASE samples' = samples /\ samples # <<>> /\ ~samples[Len(samples)].shown
    <3>1. SustainedIsReported'
      BY <1>2, <1>5, <2>2, NothingOwed
    <3>2. \A i \in Index' : Len(samples)' \in i..Len(samples)'
      BY <1>2, <2>2, LenProperties DEF Index, CaptureTyped
    <3>3. ~(samples[Len(samples)].shown)'
      BY <2>2
    <3> QED BY <3>1, <3>2, <3>3 DEF SameUntil, Joined
  <2> QED BY <1>5, <2>1, <2>2
<1>8. ASSUME NEW k \in Kinds
      PROVE  vision'.cool[k] = 0 \/ \E e \in reported' : /\ e.label = k /\ vision'.cool[k] = e.end + Cooldown
                                                         /\ e.end <= last'
  <2>1. vision.cool[k] = 0 \/ \E e \in reported : /\ e.label = k /\ vision.cool[k] = e.end + Cooldown
                                                 /\ e.end <= last
    BY DEF PresenterFollows
  <2>2. \A e \in reported : e.end <= last => e.end <= now
    BY <1>2 DEF Reports
  <2> QED BY <1>5, <1>6, <2>1, <2>2
<1> QED BY <1>7, <1>8 DEF PresenterFollows

LEMMA SkipFollows ==
    ASSUME SoundInv, PresenterFollows, NEW dt \in Nat, SkipPresenterFrame(dt)
    PROVE  PresenterFollows'
<1>1. /\ CaptureTyped /\ Ordered /\ clock + dt \in Nat /\ last \in Nat /\ last <= clock + dt
      /\ reported \subseteq Reports
  BY ClockFacts DEF SoundInv, SkipPresenterFrame, Watching, CaptureTyped
<1>2. /\ last' = clock + dt /\ UNCHANGED <<tool, vision, reported, samples>>
  BY DEF SkipPresenterFrame, workers
<1>3. Index' = Index /\ (\A i : At(i)' = At(i)) /\ (\A i, l : On(i, l)' <=> On(i, l))
  BY <1>2 DEF Index, At, On
<1>4. \A l, i, j : SameUntil(l, i, j)' <=> SameUntil(l, i, j)
  BY <1>2, <1>3 DEF SameUntil, Joined, LongestGap, OfWorker
<1>5. \A l, i : Cooling(l, i)' <=> Cooling(l, i)
  BY <1>2, <1>3 DEF Cooling
<1>6. \A e \in reported : e.end <= last => e.end <= last'
  BY <1>1, <1>2 DEF Reports
<1>7. \A k \in Kinds :
         vision'.cool[k] = 0 \/ \E e \in reported' : /\ e.label = k /\ vision'.cool[k] = e.end + Cooldown
                                                     /\ e.end <= last'
  BY <1>2, <1>6 DEF PresenterFollows
<1> QED BY <1>2, <1>3, <1>4, <1>5, <1>7 DEF PresenterFollows

LEMMA ReplayTells ==
    ASSUME NEW k \in Kinds, vision.begun[k] # Never, ~(last - vision.begun[k] < VisionMinDuration)
    PROVE  [label |-> k, start |-> vision.begun[k], end |-> last] \in VisionFlush(vision, last)
BY DEF VisionFlush, Ended

LEMMA ReplayEndsSustained ==
    ASSUME SoundInv, PresenterFollows, SustainedIsReported, ReplayEnds
    PROVE  SustainedIsReported'
<1>1. /\ CaptureTyped /\ Ordered /\ PresenterRuns /\ tool.watches = "presenter" /\ tool' = tool
      /\ samples' = samples /\ phase' = "ended" /\ last' = last /\ tool'.watches = "presenter"
      /\ reported' = reported \cup VisionFlush(vision, last) /\ last \in Nat
  BY DEF SoundInv, ReplayEnds, Watching, EndsAs, CaptureTyped
<1>2. PICK n : n = Len(samples)
  OBVIOUS
<1>3. /\ Extended /\ n \in Nat /\ Index' = Index /\ Index = 1..n
      /\ \A k : At(k)' = At(k)
      /\ \A l : \A k, m \in Index : SameUntil(l, k, m)' <=> SameUntil(l, k, m)
      /\ Shortest' = VisionMinDuration /\ Shortest = VisionMinDuration /\ VisionMinDuration \in Nat
      /\ Watched' = Watched /\ Watched = Judged(tool.board) /\ Judged(tool.board) \subseteq Kinds
      /\ Len(samples)' = n
      /\ \A k \in Index : At(k) \in Nat
  BY <1>1, <1>2, Same, Kept, Durations, WatchedStays, TimesNatural, VisionAssumption
     DEF Index, At, Watched, OfWorker, Judged
<1> SUFFICES ASSUME NEW l \in Watched, NEW i \in Index, NEW j \in i..n,
                    SameUntil(l, i, j)', ~Cooling(l, i)'
             PROVE  /\ j < n /\ At(j + 1) - At(i) >= VisionMinDuration /\ PauseEnded(l, j)' =>
                          \A until : until = At(j + 1) => Told(l, i, until)'
                    /\ j = n /\ last - At(i) >= VisionMinDuration =>
                          \A until : until = last => Told(l, i, until)'
  BY <1>1, <1>2, <1>3 DEF SustainedIsReported
<1>4. j \in Index /\ i <= j /\ At(i)' = At(i) /\ At(i) \in Nat
  BY <1>3
<1>5. SameUntil(l, i, j)
  BY <1>3, <1>4
<1>6. ASSUME j < n, At(j + 1) - At(i) >= VisionMinDuration, PauseEnded(l, j)', NEW until, until = At(j + 1)
      PROVE  Told(l, i, until)'
  <2>1. PauseEnded(l, j)
    BY <1>1, <1>2, <1>3, <1>4, <1>6, EndedBefore
  <2> QED BY <1>1, <1>2, <1>3, <1>4, <1>5, <1>6, <2>1, PaidBefore
<1>7. ASSUME j = n, last - At(i) >= VisionMinDuration, NEW until, until = last
      PROVE  Told(l, i, until)'
  <2>1. ~Cooling(l, i) /\ l \in Kinds /\ l \in Judged(tool.board)
    BY <1>1, <1>3, CoolingGrows
  <2>2. vision.begun[l] # Never /\ vision.begun[l] <= At(i)
    BY <1>2, <1>5, <1>7, <2>1 DEF PresenterFollows
  <2>3. vision.begun[l] \in Nat
    BY <1>1, <2>1, <2>2, RunningFacts
  <2>4. ~(last - vision.begun[l] < VisionMinDuration)
    BY <1>1, <1>3, <1>4, <1>7, <2>2, <2>3
  <2>5. [label |-> l, start |-> vision.begun[l], end |-> last] \in reported'
    BY <1>1, <2>1, <2>2, <2>4, ReplayTells
  <2>6. vision.begun[l] <= At(i)' /\ until <= last
    BY <1>1, <1>4, <1>7, <2>2
  <2> QED BY <1>1, <2>5, <2>6, Covering
<1> QED BY <1>6, <1>7

LEMMA TickTells ==
    ASSUME NEW n, NEW r, TrackerSees(n, r), NEW l \in Signals,
           NEW c, c = KeptCandidates(tracker, r.t)[l], c.begin # Unseen, ~c.emitted,
           ~(r.t - c.begin < TrackerMinDuration)
    PROVE  [label |-> l, start |-> c.begin, end |-> r.t] \in reported'
<1>1. PICK result : result = TrackerObserve(tracker, r.on, r.t)
  OBVIOUS
<1>2. reported' = reported \cup result.events
  BY <1>1 DEF TrackerSees
<1>3. c # NoCandidate
  BY TrackerFacts
<1>4. PICK g : g = HeldCandidate(c, l, r.on, r.t)
  OBVIOUS
<1>5. g = c
  BY <1>3, <1>4 DEF HeldCandidate, Begun
<1>6. [label |-> l, start |-> c.begin, end |-> r.t] \in Closing(l, g, r.t)
  BY <1>3, <1>5 DEF Closing
<1> QED BY <1>1, <1>2, <1>4, <1>6, TrackerEvents

LEMMA Prompting ==
    ASSUME NEW l, NEW i, NEW begin, NEW end,
           [label |-> l, start |-> begin, end |-> end] \in reported', begin = At(i)'
    PROVE  \A until : end <= until => Prompted(l, i, until)'
<1>1. PICK e : e = [label |-> l, start |-> begin, end |-> end]
  OBVIOUS
<1>2. e \in reported' /\ e.label = l /\ e.start = begin /\ e.end = end
  BY <1>1
<1> QED BY <1>2 DEF Prompted

(* What the tracker holds of a condition that runs until the last sample.  *)
LEMMA StillHeld ==
    ASSUME NEW n, NEW r, TrackerSees(n, r), DesktopFollows,
           NEW l \in Signals, NEW i \in Index, SameUntil(l, i, n), Begins(l, i), Joined(n, n + 1)',
           NEW c, c = KeptCandidates(tracker, r.t)[l]
    PROVE  /\ c.begin = At(i) /\ c.begin \in Nat /\ c.begin # Unseen /\ c \in Tracked
           /\ c.emitted => Prompted(l, i, At(n))
<1>1. /\ CaptureTyped /\ tool' = tool /\ tool.watches = "desktop" /\ n \in Nat /\ n = Len(samples)
      /\ r \in Samples /\ samples' = Append(samples, r) /\ tracker \in Trackers
  BY DEF TrackerSees, CaptureTyped
<1>2. n \in Index /\ samples # <<>>
  BY <1>1, EmptySeq DEF Index
<1>3. r.t - At(n) <= TrackerMaxGap /\ At(n) \in Nat /\ r.t \in Nat /\ tracker.previous = At(n)
  BY <1>1, <1>2, Appended, Durations, TickFacts
<1>4. ~TrackerGap(tracker, r.t)
  BY <1>3, TrackerAssumption DEF TrackerGap
<1>5. c = tracker.candidates[l]
  BY <1>4 DEF KeptCandidates
<1>6. c.begin = At(i) /\ (c.emitted => Prompted(l, i, At(n)))
  BY <1>1, <1>5 DEF DesktopFollows
<1>7. At(i) \in Nat
  BY TickFacts
<1>8. c \in Tracked
  BY KeptFacts
<1> QED BY <1>6, <1>7, <1>8 DEF Unseen

(* A condition that starts at the sample is begun there.                   *)
LEMMA StartsHere ==
    ASSUME NEW n, NEW r, TrackerSees(n, r), NEW l \in Signals, Begins(l, n + 1)',
           NEW c, c = KeptCandidates(tracker, r.t)[l]
    PROVE  c = NoCandidate
<1>1. /\ c \in Tracked /\ (c.begin = Unseen => ~c.emitted)
      /\ c.begin # Unseen => /\ n \in Index /\ r.t - At(n) <= TrackerMaxGap
                             /\ \E i \in Index : At(i) = c.begin /\ SameUntil(l, i, n)
  BY KeptFacts
<1>2. c.begin = Unseen
  <2> SUFFICES ASSUME c.begin # Unseen PROVE FALSE
    OBVIOUS
  <2>1. PICK i \in Index : SameUntil(l, i, n)
    BY <1>1
  <2>2. n \in i..n /\ n \in n..n /\ n + 1 > 1 /\ n + 1 - 1 = n /\ n \in Nat /\ n \in Index
    BY <1>1 DEF TrackerSees, Index
  <2>3. On(n, l) /\ samples[n].shown
    BY <2>1, <2>2, TickFacts DEF SameUntil
  <2>4. Joined(n, n)
    <3>1. \A k \in n..n : k = n
      BY <2>2
    <3>2. \A k \in (n + 1)..n : FALSE
      BY <2>2
    <3> QED BY <2>3, <3>1, <3>2 DEF Joined
  <2>5. r.t - At(n) <= LongestGap
    BY <1>1, TickFacts
  <2>6. Joined(n, n + 1)' /\ On(n, l)'
    BY <2>2, <2>3, <2>4, <2>5, Appended, TickFacts, Kept DEF TrackerSees
  <2> QED BY <2>2, <2>6 DEF Begins
<1> QED BY <1>1, <1>2 DEF Tracked, NoCandidate

(* The tracker keeps following what it has seen.                           *)
LEMMA DesktopFollowsOn ==
    ASSUME NEW n, NEW r, TrackerSees(n, r), DesktopFollows
    PROVE  DesktopFollows'
<1>1. /\ CaptureTyped /\ tool' = tool /\ n \in Nat /\ n = Len(samples)
      /\ r \in Samples /\ samples' = Append(samples, r) /\ reported \subseteq reported'
      /\ tool'.watches = "desktop"
  BY DEF TrackerSees
<1>2. /\ Extended /\ Len(samples)' = n + 1 /\ At(n + 1)' = r.t
      /\ \A k \in Index : At(k)' = At(k) /\ At(k) \in Nat /\ At(k) < r.t
      /\ \A k : (k \in Index)' <=> k \in Index \/ k = n + 1
      /\ \A l : \A k \in Index : SameUntil(l, k, n + 1)' => SameUntil(l, k, n) /\ l \in r.on
      /\ \A l : SameUntil(l, n + 1, n + 1)' => l \in r.on
      /\ r.t \in Nat
  BY <1>1, Appended, TickFacts
<1>3. \A k \in Index : Joined(k, n + 1)' => Joined(n, n + 1)'
  <2>1. ASSUME NEW k \in Index, Joined(k, n + 1)' PROVE Joined(n, n + 1)'
    <3>1. /\ \A m \in n..(n + 1) : m \in k..(n + 1)
          /\ \A m \in (n + 1)..(n + 1) : m \in (k + 1)..(n + 1)
      BY <1>1 DEF Index
    <3> QED BY <2>1, <3>1 DEF Joined
  <2> QED BY <2>1
<1> SUFFICES ASSUME NEW l \in Signals, NEW i \in Index', SameUntil(l, i, n + 1)', Begins(l, i)',
                    NEW a, a = tracker'.candidates[l]
             PROVE  /\ a.begin = At(i)'
                    /\ a.emitted => \A until : until = r.t => Prompted(l, i, until)'
  BY <1>2 DEF DesktopFollows
<1>4. PICK c : c = KeptCandidates(tracker, r.t)[l]
  OBVIOUS
<1>5. a = Followed(l, c, l \in r.on, r.t) /\ l \in r.on
  <2>1. PICK result : result = TrackerObserve(tracker, r.on, r.t)
    OBVIOUS
  <2>2. tracker' = result.worker
    BY <2>1 DEF TrackerSees
  <2>3. l \in r.on
    BY <1>2
  <2> QED BY <1>4, <2>1, <2>2, <2>3, TrackerObserves
<1>6. PICK g : g = Begun(c, r.t)
  OBVIOUS
<1>7. a = [g EXCEPT !.emitted = g.emitted \/ Closing(l, g, r.t) # {}]
  BY <1>5, <1>6 DEF Followed
<1>8. CASE i = n + 1
  <2>1. c = NoCandidate
    BY <1>4, <1>8, StartsHere
  <2>2. g = [begin |-> r.t, emitted |-> FALSE] /\ g.begin = r.t /\ ~g.emitted
    BY <1>6, <2>1 DEF Begun
  <2>3. Closing(l, g, r.t) = {}
    BY <1>2, <2>2, TrackerAssumption DEF Closing
  <2>4. a.begin = r.t /\ ~a.emitted
    BY <1>7, <2>2, <2>3
  <2> QED BY <1>2, <1>8, <2>4
<1>9. CASE i \in Index
  <2>1. SameUntil(l, i, n) /\ Joined(n, n + 1)' /\ Begins(l, i)
    BY <1>2, <1>3, <1>9, BeginsKept DEF SameUntil
  <2>2. /\ c.begin = At(i) /\ c.begin \in Nat /\ c.begin # Unseen /\ c \in Tracked
        /\ c.emitted => Prompted(l, i, At(n))
    BY <1>4, <1>9, <2>1, StillHeld
  <2>3. g = c
    BY <1>6, <2>2, TrackerFacts DEF Begun
  <2>4. a.begin = At(i)'
    BY <1>2, <1>7, <1>9, <2>2, <2>3 DEF Tracked
  <2>5. ASSUME a.emitted, NEW until, until = r.t PROVE Prompted(l, i, until)'
    <3>1. CASE c.emitted
      <4>1. PICK e \in reported : e.label = l /\ e.start = At(i) /\ e.end <= At(n)
        BY <2>2, <3>1 DEF Prompted
      <4>2. e.end \in Nat /\ n \in Index
        BY <1>1, <1>9, <4>1 DEF CaptureTyped, Reports, Index
      <4>3. e.end <= until
        BY <1>2, <2>5, <4>1, <4>2
      <4> QED BY <1>1, <1>2, <1>9, <4>1, <4>3 DEF Prompted
    <3>2. CASE ~c.emitted
      <4>1. Closing(l, c, r.t) # {}
        BY <1>7, <2>3, <2>5, <3>2, <2>2 DEF Tracked
      <4>2. ~(r.t - c.begin < TrackerMinDuration)
        BY <4>1 DEF Closing
      <4>3. [label |-> l, start |-> c.begin, end |-> r.t] \in reported'
        BY <1>4, <2>2, <3>2, <4>2, TickTells
      <4>4. c.begin = At(i)' /\ r.t <= until
        BY <1>2, <1>9, <2>2, <2>5
      <4> QED BY <4>3, <4>4, Prompting
    <3> QED BY <3>1, <3>2
  <2> QED BY <2>4, <2>5
<1> QED BY <1>2, <1>8, <1>9

(* What the tracker holds is told by the time it has lasted long enough.   *)
LEMMA HeldIsTold ==
    ASSUME NEW n, NEW r, TrackerSees(n, r), DesktopFollows,
           NEW l \in Signals, NEW i \in Index, SameUntil(l, i, n), Begins(l, i), Joined(n, n + 1)',
           NEW until, until = r.t, until - At(i) >= TrackerMinDuration
    PROVE  Prompted(l, i, until)'
<1>1. PICK c : c = KeptCandidates(tracker, r.t)[l]
  OBVIOUS
<1>2. /\ c.begin = At(i) /\ c.begin \in Nat /\ c.begin # Unseen /\ c \in Tracked
      /\ c.emitted => Prompted(l, i, At(n))
  BY <1>1, StillHeld
<1>3. /\ \A k \in Index : At(k)' = At(k) /\ At(k) \in Nat /\ At(k) < r.t
      /\ r.t \in Nat /\ n = Len(samples) /\ n \in Nat /\ reported \subseteq reported'
      /\ reported \subseteq Reports /\ n \in Index
  BY TickFacts DEF TrackerSees, CaptureTyped, Index
<1>4. CASE c.emitted
  <2>1. PICK e \in reported : e.label = l /\ e.start = At(i) /\ e.end <= At(n)
    BY <1>2, <1>4 DEF Prompted
  <2>2. e.end <= until
    BY <1>3, <2>1 DEF Reports
  <2> QED BY <1>3, <2>1, <2>2 DEF Prompted
<1>5. CASE ~c.emitted
  <2>1. ~(r.t - c.begin < TrackerMinDuration)
    BY <1>2, <1>3, TrackerAssumption
  <2>2. [label |-> l, start |-> c.begin, end |-> r.t] \in reported'
    BY <1>1, <1>2, <1>5, <2>1, TickTells
  <2>3. c.begin = At(i)' /\ r.t <= until
    BY <1>2, <1>3
  <2> QED BY <2>2, <2>3, Prompting
<1> QED BY <1>4, <1>5

(* And has told all that lasted long enough.                               *)
LEMMA DesktopSustained ==
    ASSUME NEW n, NEW r, TrackerSees(n, r), DesktopFollows, SustainedIsReported
    PROVE  SustainedIsReported'
<1>1. /\ n = Len(samples) /\ n \in Nat /\ r \in Samples /\ samples' = Append(samples, r)
      /\ CaptureTyped /\ tool' = tool /\ tool.watches = "desktop" /\ tool'.watches = "desktop"
      /\ r.t \in Nat /\ Extended /\ reported \subseteq reported' /\ phase = "running" /\ phase' = "running"
  BY TickFacts DEF TrackerSees
<1>2. /\ Len(samples)' = n + 1 /\ At(n + 1)' = r.t /\ \A k \in Index : At(k)' = At(k) /\ At(k) \in Nat
      /\ \A k : (k \in Index)' <=> k \in Index \/ k = n + 1
      /\ \A l : \A k, m \in Index : SameUntil(l, k, m)' <=> SameUntil(l, k, m)
      /\ \A l : \A k \in Index : SameUntil(l, k, n + 1)' => SameUntil(l, k, n)
      /\ \A l : \A k \in Index : Begins(l, k)' <=> Begins(l, k)
      /\ Shortest' = TrackerMinDuration /\ Shortest = TrackerMinDuration
      /\ Watched = Signals /\ Watched' = Watched
  BY <1>1, Appended, Kept, Durations, WatchedStays, TimesNatural, BeginsKept DEF Watched, OfWorker
<1> SUFFICES ASSUME NEW l \in Watched, NEW i \in Index', NEW j \in i..(n + 1),
                    SameUntil(l, i, j)', ~Cooling(l, i)'
             PROVE  /\ At(j)' - At(i)' >= TrackerMinDuration =>
                          \A until : until = At(j)' => Told(l, i, until)'
                    /\ j < n + 1 /\ At(j + 1)' - At(i)' >= TrackerMinDuration /\ PauseEnded(l, j)' =>
                          \A until : until = At(j + 1)' => Told(l, i, until)'
  BY <1>1, <1>2 DEF SustainedIsReported
<1>3. ASSUME i \in Index, SameUntil(l, i, n), Joined(n, n + 1)', r.t - At(i) >= TrackerMinDuration,
             NEW until, until = r.t
      PROVE  Told(l, i, until)'
  <2>1. Begins(l, i) => Prompted(l, i, until)'
    BY <1>2, <1>3, HeldIsTold
  <2> QED BY <1>1, <1>2, <1>3, <2>1 DEF Told
<1>4. ASSUME At(j)' - At(i)' >= TrackerMinDuration, NEW until, until = At(j)'
      PROVE  Told(l, i, until)'
  <2>1. CASE j # n + 1
    <3>1. i \in Index /\ j \in Index /\ i <= j /\ At(i)' = At(i) /\ At(j)' = At(j)
      BY <1>1, <1>2, <2>1 DEF Index
    <3>2. SameUntil(l, i, j)
      BY <1>2, <3>1
    <3> QED BY <1>1, <1>2, <1>4, <3>1, <3>2, PaidBefore
  <2>2. CASE j = n + 1 /\ i = n + 1
    BY <1>1, <1>2, <1>4, <2>2, TrackerAssumption
  <2>3. CASE j = n + 1 /\ i # n + 1
    <3>1. i \in Index /\ At(i)' = At(i)
      BY <1>2, <2>3
    <3>2. SameUntil(l, i, n) /\ Joined(n, n + 1)'
      <4>1. Joined(i, n + 1)'
        BY <2>3 DEF SameUntil
      <4>2. /\ \A m \in n..(n + 1) : m \in i..(n + 1)
            /\ \A m \in (n + 1)..(n + 1) : m \in (i + 1)..(n + 1)
        BY <1>1, <3>1 DEF Index
      <4>3. Joined(n, n + 1)'
        BY <4>1, <4>2 DEF Joined
      <4> QED BY <1>2, <2>3, <3>1, <4>3
    <3> QED BY <1>2, <1>3, <1>4, <2>3, <3>1, <3>2
  <2> QED BY <2>1, <2>2, <2>3
<1>5. ASSUME j < n + 1, At(j + 1)' - At(i)' >= TrackerMinDuration, PauseEnded(l, j)',
             NEW until, until = At(j + 1)'
      PROVE  Told(l, i, until)'
  <2>1. /\ i \in Index /\ j \in Index /\ i <= j /\ (j < n => j + 1 \in Index) /\ j <= n /\ j \in Nat
        /\ At(i)' = At(i)
    BY <1>1, <1>2, <1>5 DEF Index
  <2>2. SameUntil(l, i, j)
    BY <1>2, <2>1
  <2>3. CASE PauseEnded(l, j)
    <3>1. j < n
      BY <1>1, <2>1, <2>3 DEF PauseEnded
    <3>2. until = At(j + 1) /\ At(j + 1) - At(i) >= Shortest
      BY <1>2, <1>5, <2>1, <3>1
    <3> QED BY <1>1, <1>2, <2>1, <2>2, <2>3, <3>1, <3>2, PaidBefore
  <2>4. CASE ~PauseEnded(l, j)
    <3>1. j = n /\ Joined(n, n + 1)'
      BY <1>1, <1>2, <1>5, <2>1, <2>4, EndedAtOnce
    <3>2. until = r.t /\ r.t - At(i) >= TrackerMinDuration
      BY <1>2, <1>5, <2>1, <3>1
    <3> QED BY <1>3, <2>1, <2>2, <3>1, <3>2
  <2> QED BY <2>3, <2>4
<1> QED BY <1>4, <1>5

-----------------------------------------------------------------------------
(* The desktop's end, whether the flush is refused or not.                 *)
LEMMA StoppedSustained ==
    ASSUME CaptureTyped, DesktopRuns, DesktopFollows, SustainedIsReported, tool.watches = "desktop", tool' = tool,
           samples' = samples, reported \subseteq reported', last' \in Nat,
           NEW n, n = Len(samples),
           \/ last' = last /\ (samples # <<>> => last = At(n))
           \/ TrackerFlush(tracker, last') \subseteq reported' /\ \A k \in Index : At(k) <= last'
    PROVE  SustainedIsReported'
<1>1. tool'.watches = "desktop"
  OBVIOUS
<1>2. /\ Extended /\ n \in Nat /\ Index' = Index /\ Index = 1..n
      /\ \A k : At(k)' = At(k)
      /\ \A l : \A k, m \in Index : SameUntil(l, k, m)' <=> SameUntil(l, k, m)
      /\ Shortest' = TrackerMinDuration /\ Shortest = TrackerMinDuration /\ TrackerMinDuration \in Nat
      /\ Watched' = Watched /\ Watched = Signals
      /\ Len(samples)' = n
      /\ \A l : \A k \in Index : Begins(l, k)' <=> Begins(l, k)
      /\ \A k \in Index : At(k) \in Nat
  BY Same, Kept, Durations, WatchedStays, TimesNatural, TrackerAssumption, BeginsKept
     DEF Index, At, Watched, OfWorker
<1> SUFFICES ASSUME NEW l \in Signals, NEW i \in Index, NEW j \in i..n,
                    SameUntil(l, i, j)', ~Cooling(l, i)'
             PROVE  /\ At(j) - At(i) >= TrackerMinDuration =>
                          \A until : until = At(j) => Told(l, i, until)'
                    /\ j < n /\ At(j + 1) - At(i) >= TrackerMinDuration /\ PauseEnded(l, j)' =>
                          \A until : until = At(j + 1) => Told(l, i, until)'
                    /\ j = n /\ last' - At(i) >= TrackerMinDuration =>
                          \A until : until = last' => Told(l, i, until)'
  BY <1>1, <1>2 DEF SustainedIsReported
<1>3. j \in Index /\ i <= j /\ At(i)' = At(i) /\ At(i) \in Nat
  BY <1>2
<1>4. SameUntil(l, i, j)
  BY <1>2, <1>3
<1>5. ASSUME At(j) - At(i) >= TrackerMinDuration, NEW until, until = At(j)
      PROVE  Told(l, i, until)'
  BY <1>2, <1>3, <1>4, <1>5, PaidBefore
<1>6. ASSUME j < n, At(j + 1) - At(i) >= TrackerMinDuration, PauseEnded(l, j)', NEW until, until = At(j + 1)
      PROVE  Told(l, i, until)'
  <2>1. PauseEnded(l, j)
    BY <1>2, <1>3, <1>6, EndedBefore
  <2> QED BY <1>2, <1>3, <1>4, <1>6, <2>1, PaidBefore
<1>7. ASSUME j = n, last' - At(i) >= TrackerMinDuration, NEW until, until = last'
      PROVE  Told(l, i, until)'
  <2>1. samples # <<>>
    BY <1>2, EmptySeq
  <2>2. CASE last' = last /\ last = At(n)
    BY <1>5, <1>7, <2>2
  <2>3. CASE TrackerFlush(tracker, last') \subseteq reported' /\ \A k \in Index : At(k) <= last'
    <3>1. ASSUME Begins(l, i) PROVE Prompted(l, i, until)'
      <4>1. PICK c : c = tracker.candidates[l]
        OBVIOUS
      <4>2. c.begin = At(i) /\ (c.emitted => Prompted(l, i, At(n)))
        BY <1>4, <1>7, <3>1, <4>1 DEF DesktopFollows
      <4>3. CASE c.emitted
        <5>1. PICK e \in reported : e.label = l /\ e.start = At(i) /\ e.end <= At(n)
          BY <4>2, <4>3 DEF Prompted
        <5>2. e.end \in Nat /\ At(n) \in Nat /\ At(n) <= last'
          BY <1>2, <1>3, <1>7, <2>3, <5>1 DEF CaptureTyped, Reports
        <5>3. e.end <= until
          BY <1>7, <5>1, <5>2
        <5> QED BY <1>3, <5>1, <5>3 DEF Prompted
      <4>4. CASE ~c.emitted
        <5>1. c # NoCandidate
          BY <1>3, <4>2, TrackerFacts DEF Unseen
        <5>2. PICK end : end = last'
          OBVIOUS
        <5>3. ~(end - c.begin < TrackerMinDuration)
          BY <1>2, <1>3, <1>7, <4>2, <5>2
        <5>4. [label |-> l, start |-> c.begin, end |-> end] \in TrackerFlush(tracker, end)
          BY <4>1, <4>4, <5>1, <5>3 DEF TrackerFlush, Closing
        <5>5. [label |-> l, start |-> c.begin, end |-> end] \in reported'
          BY <2>3, <5>2, <5>4
        <5>6. c.begin = At(i)' /\ end <= until
          BY <1>3, <1>7, <4>2, <5>2
        <5> QED BY <5>5, <5>6, Prompting
      <4> QED BY <4>3, <4>4
    <3> QED BY <1>1, <1>2, <3>1 DEF Told
  <2> QED BY <2>1, <2>2, <2>3
<1> QED BY <1>5, <1>6, <1>7

(* A frame that is skipped changes neither the worker nor the history.     *)
LEMMA SkipOwesNothing ==
    ASSUME SoundInv, SustainedIsReported,
           UNCHANGED <<tool, student, tracker, reported, samples, phase>>, phase = "running"
    PROVE  /\ SustainedIsReported'
           /\ tool.watches = "student" /\ StudentFollows => StudentFollows'
           /\ tool.watches = "desktop" /\ DesktopFollows => DesktopFollows'
<1>1. CaptureTyped
  BY DEF SoundInv
<1>2. SustainedIsReported'
  BY <1>1, NothingOwed
<1>3. Index' = Index /\ (\A i : At(i)' = At(i)) /\ (\A i, l : On(i, l)' <=> On(i, l))
      /\ LongestGap' = LongestGap
  BY DEF Index, At, On, LongestGap, OfWorker
<1>4. /\ \A i, j : Joined(i, j)' <=> Joined(i, j)
  BY <1>3 DEF Joined
<1>5. /\ \A l, i, j : SameUntil(l, i, j)' <=> SameUntil(l, i, j)
      /\ \A l, j, k : PausedFor(l, j, k)' <=> PausedFor(l, j, k)
      /\ \A l, i : Begins(l, i)' <=> Begins(l, i)
  BY <1>3, <1>4 DEF SameUntil, PausedFor, Begins
<1>6. ASSUME StudentFollows PROVE StudentFollows'
  BY <1>3, <1>5, <1>6 DEF StudentFollows
<1>7. ASSUME DesktopFollows PROVE DesktopFollows'
  BY <1>3, <1>5, <1>7 DEF DesktopFollows, Prompted
<1> QED BY <1>2, <1>6, <1>7

(* Where no end is ordered nothing is owed.                                *)
LEMMA LostOwesNothing ==
    ASSUME SoundInv, FullInv, tool' = tool, samples' = samples, reported \subseteq reported',
           phase' \in {"interrupted", "stopped"}
    PROVE  FullInv'
<1>1. SustainedIsReported'
  BY NothingOwed DEF SoundInv, FullInv
<1> QED BY <1>1 DEF FullInv

LEMMA StudentReadFull ==
    ASSUME SoundInv, FullInv, NEW dt \in Nat, NEW f \in Frames, ReadStudentFrame(dt, f)
    PROVE  FullInv'
<1>1. PICK n, r, o : StudentSees(n, r, o)
  BY StudentReads
<1>2. tool.watches = "student" /\ tool' = tool /\ StudentFollows /\ SustainedIsReported
  BY <1>1 DEF StudentSees, FullInv
<1>3. StudentFollows'
  BY <1>1, <1>2, FollowsOn
<1>4. SustainedIsReported'
  BY <1>1, <1>2, StudentSustained
<1> QED BY <1>2, <1>3, <1>4 DEF FullInv

LEMMA PresenterReadFull ==
    ASSUME SoundInv, FullInv, NEW dt \in Nat, NEW v, NEW latency \in Nat,
           ReadPresenterFrame(dt, v, latency)
    PROVE  FullInv'
<1>1. PICK n, r : PresenterSees(n, r, latency)
  BY PresenterReads
<1>2. tool.watches = "presenter" /\ tool' = tool /\ PresenterFollows /\ SustainedIsReported
  BY <1>1 DEF PresenterSees, FullInv
<1>3. PresenterFollows'
  BY <1>1, <1>2, PresenterFollowsOn
<1>4. SustainedIsReported'
  BY <1>1, <1>2, PresenterSustained
<1> QED BY <1>2, <1>3, <1>4 DEF FullInv

LEMMA TickFull ==
    ASSUME SoundInv, FullInv, NEW dt \in Nat, NEW on \in SUBSET Signals, Tick(dt, on)
    PROVE  FullInv'
<1>1. PICK n, r : TrackerSees(n, r)
  BY TrackerReads
<1>2. tool.watches = "desktop" /\ tool' = tool /\ DesktopFollows /\ SustainedIsReported
  BY <1>1 DEF TrackerSees, FullInv
<1>3. DesktopFollows'
  BY <1>1, <1>2, DesktopFollowsOn
<1>4. SustainedIsReported'
  BY <1>1, <1>2, DesktopSustained
<1> QED BY <1>2, <1>3, <1>4 DEF FullInv

LEMMA SkipFull ==
    ASSUME SoundInv, FullInv, NEW dt \in Nat,
           SkipStudentFrame(dt) \/ SkipPresenterFrame(dt) \/ SkipTick(dt)
    PROVE  FullInv'
<1>1. /\ UNCHANGED <<tool, student, vision, tracker, reported, samples, phase>> /\ phase = "running"
      /\ tool.watches = "presenter" => SkipPresenterFrame(dt)
  BY DEF SkipStudentFrame, SkipPresenterFrame, SkipTick, Watching, workers
<1>2. SustainedIsReported /\ (tool.watches = "student" => StudentFollows)
      /\ (tool.watches = "desktop" => DesktopFollows)
      /\ (tool.watches = "presenter" => PresenterFollows)
  BY <1>1 DEF FullInv
<1>3. /\ SustainedIsReported'
      /\ tool.watches = "student" => StudentFollows'
      /\ tool.watches = "desktop" => DesktopFollows'
  BY <1>1, <1>2, SkipOwesNothing
<1>4. tool.watches = "presenter" => PresenterFollows'
  BY <1>1, <1>2, SkipFollows
<1> QED BY <1>1, <1>3, <1>4 DEF FullInv

LEMMA TileFull ==
    ASSUME SoundInv, FullInv, NEW dt \in Nat, TileHidden(dt)
    PROVE  FullInv'
<1>1. tool.watches = "presenter" /\ phase = "running" /\ tool' = tool
  BY DEF TileHidden, Watching
<1>2. PresenterFollows' /\ SustainedIsReported'
  BY <1>1, TileFollows DEF FullInv
<1> QED BY <1>1, <1>2 DEF FullInv

LEMMA StopsFull ==
    ASSUME SoundInv, FullInv, NEW dt \in Nat, MonitorStops(dt)
    PROVE  FullInv'
<1>1. /\ CaptureTyped /\ Ordered /\ DesktopRuns /\ DesktopFollows /\ SustainedIsReported
      /\ tool.watches = "desktop" /\ phase = "running" /\ last \in Nat /\ clock + dt \in Nat
      /\ last <= clock + dt
  BY ClockFacts DEF SoundInv, FullInv, MonitorStops, Watching
<1>2. /\ last' = clock + dt /\ tool' = tool /\ samples' = samples /\ phase' = "ended"
      /\ reported' = reported \cup TrackerFlush(tracker, clock + dt)
  BY DEF MonitorStops
<1>3. PICK n : n = Len(samples)
  OBVIOUS
<1>4. \A k \in Index : At(k) <= last'
  <2>1. \A k \in Index : At(k) \in Nat /\ At(k) <= last
    BY <1>1, TimesNatural DEF Ordered
  <2> QED BY <1>1, <1>2, <2>1
<1>5. TrackerFlush(tracker, last') \subseteq reported' /\ last' \in Nat /\ reported \subseteq reported'
  BY <1>1, <1>2
<1>6. SustainedIsReported'
  BY <1>1, <1>2, <1>3, <1>4, <1>5, StoppedSustained
<1> QED BY <1>2, <1>6 DEF FullInv

LEMMA RefusedFull ==
    ASSUME SoundInv, FullInv, FlushRefused
    PROVE  FullInv'
<1>1. /\ CaptureTyped /\ Ordered /\ DesktopRuns /\ DesktopFollows /\ SustainedIsReported
      /\ tool.watches = "desktop" /\ phase = "running" /\ last \in Nat /\ clock \in Nat
      /\ clock = last /\ clock <= tracker.previous
  BY DEF SoundInv, FullInv, FlushRefused, Watching, Previous, DesktopRuns, InStep, CaptureTyped
<1>2. /\ last' = last /\ tool' = tool /\ samples' = samples /\ phase' = "ended" /\ reported' = reported
  BY DEF FlushRefused, EndsAs
<1>3. PICK n : n = Len(samples)
  OBVIOUS
<1>4. samples # <<>> => last = At(n)
  <2> HAVE samples # <<>>
  <2>1. tracker.previous = At(n) /\ n \in Index /\ At(n) \in Nat
    BY <1>1, <1>3, SteadyFacts DEF DesktopRuns
  <2>2. At(n) <= last
    BY <1>1, <2>1 DEF Ordered
  <2> QED BY <1>1, <2>1, <2>2
<1>5. last' \in Nat /\ reported \subseteq reported'
  BY <1>1, <1>2
<1>6. SustainedIsReported'
  BY <1>1, <1>2, <1>3, <1>4, <1>5, StoppedSustained
<1> QED BY <1>2, <1>6 DEF FullInv

LEMMA EndsFull ==
    ASSUME SoundInv, FullInv, StudentEnds \/ ReplayEnds
    PROVE  FullInv'
<1>1. SustainedIsReported /\ phase = "running" /\ phase' = "ended"
  BY DEF FullInv, StudentEnds, ReplayEnds, Watching, EndsAs
<1>2. CASE StudentEnds
  <2>1. tool.watches = "student" /\ StudentFollows
    BY <1>1, <1>2 DEF FullInv, StudentEnds, Watching
  <2>2. SustainedIsReported'
    BY <1>1, <1>2, <2>1, StudentEndsSustained
  <2> QED BY <1>1, <2>2 DEF FullInv
<1>3. CASE ReplayEnds
  <2>1. tool.watches = "presenter" /\ PresenterFollows
    BY <1>1, <1>3 DEF FullInv, ReplayEnds, Watching
  <2>2. SustainedIsReported'
    BY <1>1, <1>3, <2>1, ReplayEndsSustained
  <2> QED BY <1>1, <2>2 DEF FullInv
<1> QED BY <1>2, <1>3

(* The programs start owing nothing, and every step keeps FullInv.         *)
LEMMA FullStarts ==
    ASSUME CaptureInit
    PROVE  FullInv
<1>1. Index = {} /\ vision.cool = VisionIdle.cool /\ reported = {}
  BY EmptySeq DEF CaptureInit, Index
<1>2. \A i \in Index : FALSE
  BY <1>1
<1>3. \A k \in Kinds : vision.cool[k] = 0
  BY <1>1, VisionFacts DEF VisionIdle
<1> QED BY <1>2, <1>3 DEF FullInv, StudentFollows, PresenterFollows, DesktopFollows, SustainedIsReported

LEMMA FullSteps ==
    ASSUME SoundInv, FullInv, [CaptureNext]_captureVars
    PROVE  FullInv'
<1>1. Steps \subseteq Nat /\ Latencies \subseteq Nat /\ StudentFrames \subseteq Frames
      /\ DesktopFrames \subseteq SUBSET Signals
  BY FramesAssumption
<1>2. CASE UNCHANGED captureVars
  <2>1. FullInv' = FullInv
    BY <1>2 DEF captureVars, FullInv, StudentFollows, PresenterFollows, DesktopFollows,
       SustainedIsReported, Watched, Shortest, LongestGap, Bridge, OfWorker, Index, At, On, Joined,
       SameUntil, PausedFor, GapAfter, PauseEnded, Cooling, Covered, Begins, Prompted, Told
  <2> QED BY <2>1
<1>3. ASSUME NEW dt \in Steps, SkipStudentFrame(dt) \/ SkipPresenterFrame(dt) \/ SkipTick(dt)
      PROVE  FullInv'
  BY <1>1, <1>3, SkipFull
<1>4. ASSUME NEW dt \in Steps, TileHidden(dt) PROVE FullInv'
  BY <1>1, <1>4, TileFull
<1>5. ASSUME NEW dt \in Steps, TimeRefused(dt) \/ InterruptedStudent(dt) PROVE FullInv'
  BY <1>5, LostOwesNothing DEF TimeRefused, InterruptedStudent, EndsAs
<1>6. ASSUME NEW dt \in Steps, MonitorStops(dt) PROVE FullInv'
  BY <1>1, <1>6, StopsFull
<1>7. ASSUME NEW dt \in Steps, NEW on \in DesktopFrames, Tick(dt, on) PROVE FullInv'
  BY <1>1, <1>7, TickFull
<1>8. ASSUME NEW dt \in Steps, NEW f \in StudentFrames, ReadStudentFrame(dt, f) PROVE FullInv'
  BY <1>1, <1>8, StudentReadFull
<1>9. ASSUME NEW dt \in Steps, NEW v \in PresenterViews, NEW latency \in Latencies,
             ReadPresenterFrame(dt, v, latency)
      PROVE  FullInv'
  BY <1>1, <1>9, PresenterReadFull
<1>10. CASE SourceLost \/ InferenceFails \/ PresenterEnds
  BY <1>10, LostOwesNothing DEF SourceLost, InferenceFails, PresenterEnds, EndsAs
<1>11. CASE StudentEnds \/ ReplayEnds
  BY <1>11, EndsFull
<1>12. CASE FlushRefused
  BY <1>12, RefusedFull
<1> QED BY <1>2, <1>3, <1>4, <1>5, <1>6, <1>7, <1>8, <1>9, <1>10, <1>11, <1>12 DEF CaptureNext

(* What lasted long enough over joined samples is reported once it ended,  *)
(* or by the desktop while it lasts: for any frames, times and policies    *)
(* that the programs' own stay within (PoliciesInUse).                     *)
THEOREM WhatLastsIsReported == CaptureSpec => []SustainedIsReported
<1>1. CaptureInit => SoundInv /\ FullInv
  BY CaptureStarts, FullStarts
<1>2. (SoundInv /\ FullInv) /\ [CaptureNext]_captureVars => (SoundInv /\ FullInv)'
  BY CaptureSteps, FullSteps
<1>3. SoundInv /\ FullInv => SustainedIsReported
  BY DEF FullInv
<1> QED BY <1>1, <1>2, <1>3, PTL DEF CaptureSpec
=============================================================================
