---------------------------- MODULE DesktopStream -----------------------------
(***************************************************************************)
(* The desktop application's end of the live event stream: the bridge of   *)
(* the Electron main process that owns the WebSocket                       *)
(* (main/session_events.ts), and the renderer's active session, transcript *)
(* and subscription (renderer/services/live_session_events.mts,            *)
(* backend_session_state.mts, lecture_workspace.mts, renderer/index.mts).  *)
(* The two processes exchange ordered messages.                            *)
(*                                                                         *)
(* The backend is what the desktop sees of it: sessions that end, and one  *)
(* transcript chunk for each session whose revisions are stored at one     *)
(* time and announced at a later one, in any order. Nothing is replayed to *)
(* a connection that opens late.                                           *)
(***************************************************************************)
EXTENDS Naturals, Sequences, FiniteSets

CONSTANTS
    Sessions,
    MaxRevision,      \* revisions of a session's chunk (bound)
    MaxFaults,        \* connections the network or the backend ends (bound)
    MaxVisits,        \* joins, logouts and page loads of the user (bound)
    None              \* no session

ASSUME ConstantsAssumption ==
    /\ MaxRevision \in Nat /\ MaxFaults \in Nat /\ MaxVisits \in Nat
    /\ None \notin Sessions

VARIABLES
    ended,        \* backend: sessions that have ended
    stored,       \* backend: revision stored for each session's chunk
    announced,    \* backend: revisions published so far
    followed,     \* main: sessionId
    socket,       \* main: the current WebSocket, with what is in flight on it
    stray,        \* main: WebSockets left open that are not the current one
    timer,        \* main: the session of reconnectTimer
    refused,      \* main: TRUE after an unauthorized close
    commands,     \* subscribe messages on their way to main
    frames,       \* envelopes on their way to the renderer
    active,       \* renderer: state.activeSession
    subscribed,   \* renderer: subscribedSessionId
    shown,        \* renderer: state.transcriptChunks
    joining,      \* renderer: a join under way
    load,         \* renderer: a transcript read under way
    faults, visits

backend == <<ended, stored, announced>>
main == <<followed, socket, stray, timer, refused>>
renderer == <<active, subscribed, shown, joining, load>>
bounds == <<faults, visits>>
vars == <<backend, main, commands, frames, renderer, bounds>>

NoSocket == [at |-> "none", session |-> None, channel |-> <<>>]
Unconnected(s) == [at |-> "connecting", session |-> s, channel |-> <<>>]
NoneActive == [session |-> None, ended |-> FALSE]
NoJoin == [session |-> None, at |-> "none", auto |-> FALSE]
NoLoad == [session |-> None, revision |-> 0, latest |-> FALSE]

Envelope == [session : Sessions, revision : 0..MaxRevision]   \* 0: session.ended
EndedEvent(s) == [session |-> s, revision |-> 0]

-----------------------------------------------------------------------------
Sent(event) ==
    IF socket.at = "open" /\ socket.session = event.session
    THEN [socket EXCEPT !.channel = Append(@, event)]
    ELSE socket

End(s) ==
    /\ s \notin ended
    /\ ended' = ended \cup {s}
    /\ socket' = Sent(EndedEvent(s))
    /\ UNCHANGED <<stored, announced, followed, stray, timer, refused, commands, frames,
                   renderer, bounds>>

Store(s) ==
    /\ s \notin ended /\ stored[s] < MaxRevision
    /\ stored' = [stored EXCEPT ![s] = @ + 1]
    /\ UNCHANGED <<ended, announced, main, commands, frames, renderer, bounds>>

Announce(s, n) ==
    /\ n \in 1..stored[s] \ announced[s]
    /\ announced' = [announced EXCEPT ![s] = @ \cup {n}]
    /\ socket' = Sent([session |-> s, revision |-> n])
    /\ UNCHANGED <<ended, stored, followed, stray, timer, refused, commands, frames,
                   renderer, bounds>>

-----------------------------------------------------------------------------
(* The bridge. connect overwrites the current socket; the listeners of a   *)
(* socket that is not current do nothing.                                  *)
Connected(s) ==
    /\ socket' = Unconnected(s)
    /\ stray' = stray + (IF socket = NoSocket THEN 0 ELSE 1)

TimerKept == timer   \* slip: closeSocket leaves the reconnect timer running

ClosedTimer == None

HandleCommand ==
    /\ commands # <<>>
    /\ commands' = Tail(commands)
    /\ LET s == Head(commands) IN
       IF s = followed /\ socket # NoSocket
       THEN UNCHANGED main
       ELSE /\ followed' = s
            /\ timer' = ClosedTimer
            /\ socket' = IF s = None THEN NoSocket ELSE Unconnected(s)
            /\ refused' = FALSE
            /\ UNCHANGED stray
    /\ UNCHANGED <<backend, frames, renderer, bounds>>

Accept ==
    /\ socket.at = "connecting"
    /\ socket' = [socket EXCEPT !.at = "open"]
    /\ UNCHANGED <<backend, followed, stray, timer, refused, commands, frames, renderer, bounds>>

RetryNever == None   \* slip: a lost connection is not retried

RetryTimer == IF followed = socket.session THEN socket.session ELSE timer

Drop ==
    /\ socket # NoSocket /\ faults < MaxFaults
    /\ faults' = faults + 1
    /\ socket' = NoSocket
    /\ timer' = RetryTimer
    /\ UNCHANGED <<backend, followed, stray, refused, commands, frames, renderer, visits>>

(* Close code 4401.                                                        *)
Refuse ==
    /\ socket.at = "connecting" /\ faults < MaxFaults
    /\ faults' = faults + 1
    /\ socket' = NoSocket
    /\ timer' = None
    /\ refused' = TRUE
    /\ UNCHANGED <<backend, followed, stray, commands, frames, renderer, visits>>

Reconnect ==
    /\ timer # None
    /\ timer' = None
    /\ IF followed = timer THEN Connected(timer) ELSE UNCHANGED <<socket, stray>>
    /\ UNCHANGED <<backend, followed, refused, commands, frames, renderer, bounds>>

Forward ==
    /\ socket.at = "open" /\ socket.channel # <<>>
    /\ socket' = [socket EXCEPT !.channel = Tail(@)]
    /\ frames' = Append(frames, Head(socket.channel))
    /\ UNCHANGED <<backend, followed, stray, timer, refused, commands, renderer, bounds>>

-----------------------------------------------------------------------------
(* renderApplication: the subscription follows the active session, and a   *)
(* page load that is still under way will not repaint.                     *)
FollowAnyway(a) == a.session   \* slip: an ended session is still followed

ToFollow(a) == IF a.ended THEN None ELSE a.session

Synced(a) ==
    /\ subscribed' = ToFollow(a)
    /\ commands' = IF ToFollow(a) = subscribed THEN commands ELSE Append(commands, ToFollow(a))

Render(a) ==
    /\ Synced(a)
    /\ load' = [load EXCEPT !.latest = FALSE]

(* The user picks a session that is listed as live, or the dashboard's     *)
(* poll finds one to join while the active session is over.                *)
BeginJoin(s) ==
    /\ joining = NoJoin /\ visits < MaxVisits
    /\ s \notin ended /\ s # active.session
    /\ visits' = visits + 1
    /\ joining' = [session |-> s, at |-> "asked", auto |-> FALSE]
    /\ UNCHANGED <<backend, main, commands, frames, active, subscribed, shown, load, faults>>

BeginAutoJoin(s) ==
    /\ joining = NoJoin /\ visits < MaxVisits
    /\ s \notin ended /\ s # active.session
    /\ active = NoneActive \/ active.session \in ended
    /\ visits' = visits + 1
    /\ active' = IF active = NoneActive THEN active ELSE [active EXCEPT !.ended = TRUE]
    /\ joining' = [session |-> s, at |-> "asked", auto |-> TRUE]
    /\ UNCHANGED <<backend, main, commands, frames, subscribed, shown, load, faults>>

(* The transcript of the session left behind stays where it is.            *)
Adopt ==
    /\ joining.at = "asked"
    /\ active' = [session |-> joining.session, ended |-> FALSE]
    /\ joining' = [joining EXCEPT !.at = "adopted"]
    /\ UNCHANGED <<backend, main, commands, frames, subscribed, shown, load, bounds>>

(* The poll renders only while the user is still on the dashboard.         *)
FinishJoin ==
    /\ joining.at = "adopted"
    /\ joining' = NoJoin
    /\ \/ Render(active)
       \/ joining.auto /\ UNCHANGED <<commands, subscribed, load>>
    /\ UNCHANGED <<backend, main, frames, active, shown, bounds>>

Logout ==
    /\ visits < MaxVisits /\ joining = NoJoin /\ active # NoneActive
    /\ visits' = visits + 1
    /\ active' = NoneActive
    /\ shown' = [s \in Sessions |-> 0]
    /\ Render(NoneActive)
    /\ UNCHANGED <<backend, main, frames, joining, faults>>

(* The summary page reads the transcript as it is stored now.              *)
BeginLoad ==
    /\ visits < MaxVisits /\ active # NoneActive /\ load = NoLoad
    /\ visits' = visits + 1
    /\ Synced(active)
    /\ load' = [session |-> active.session, revision |-> stored[active.session], latest |-> TRUE]
    /\ UNCHANGED <<backend, main, frames, active, shown, joining, faults>>

FinishLoad ==
    /\ load # NoLoad
    /\ shown' = [s \in Sessions |-> IF s = load.session THEN load.revision ELSE 0]
    /\ IF load.latest THEN Synced(active) ELSE UNCHANGED <<commands, subscribed>>
    /\ load' = NoLoad
    /\ UNCHANGED <<backend, main, frames, active, joining, bounds>>

Applies(event) == event.session = active.session

Supersedes(event) == event.revision >= shown[event.session]

ApplyEnded(event) ==
    /\ event.revision = 0 /\ Applies(event) /\ ~active.ended
    /\ active' = [active EXCEPT !.ended = TRUE]
    /\ Render([active EXCEPT !.ended = TRUE])
    /\ UNCHANGED shown

ApplyChunk(event) ==
    /\ event.revision > 0 /\ Applies(event) /\ Supersedes(event)
    /\ shown' = [shown EXCEPT ![event.session] = event.revision]
    /\ UNCHANGED <<active, commands, subscribed, load>>

Ignore(event) ==
    /\ \/ ~Applies(event)
       \/ event.revision = 0 /\ active.ended
       \/ event.revision > 0 /\ ~Supersedes(event)
    /\ UNCHANGED <<active, shown, commands, subscribed, load>>

ApplySessionEvent ==
    /\ frames # <<>>
    /\ frames' = Tail(frames)
    /\ ApplyEnded(Head(frames)) \/ ApplyChunk(Head(frames)) \/ Ignore(Head(frames))
    /\ UNCHANGED <<backend, main, joining, bounds>>

-----------------------------------------------------------------------------
Init ==
    /\ ended = {} /\ stored = [s \in Sessions |-> 0]
    /\ announced = [s \in Sessions |-> {}]
    /\ followed = None /\ socket = NoSocket /\ stray = 0 /\ timer = None /\ refused = FALSE
    /\ commands = <<>> /\ frames = <<>>
    /\ active = NoneActive /\ subscribed = None
    /\ shown = [s \in Sessions |-> 0]
    /\ joining = NoJoin /\ load = NoLoad
    /\ faults = 0 /\ visits = 0

Backend ==
    \E s \in Sessions : End(s) \/ Store(s) \/ \E n \in 1..MaxRevision : Announce(s, n)

User == Logout \/ BeginLoad \/ \E s \in Sessions : BeginJoin(s) \/ BeginAutoJoin(s)

Next ==
    \/ Backend \/ User
    \/ HandleCommand \/ Accept \/ Drop \/ Refuse \/ Reconnect \/ Forward
    \/ Adopt \/ FinishJoin \/ FinishLoad \/ ApplySessionEvent

Spec == Init /\ [][Next]_vars

(* Both processes handle their messages and timers, requests are answered, *)
(* and a connection attempt that nothing cuts is accepted. The user, the   *)
(* faults and the lectures are free.                                       *)
Fairness ==
    /\ WF_vars(HandleCommand) /\ WF_vars(Accept) /\ WF_vars(Reconnect) /\ WF_vars(Forward)
    /\ WF_vars(Adopt) /\ WF_vars(FinishJoin) /\ WF_vars(FinishLoad)
    /\ WF_vars(ApplySessionEvent)

-----------------------------------------------------------------------------
SessionOrNone == Sessions \cup {None}
Sockets == [at : {"none", "connecting", "open"}, session : SessionOrNone,
            channel : Seq(Envelope)]
Views == [session : SessionOrNone, ended : BOOLEAN]
Joins == [session : SessionOrNone, at : {"none", "asked", "adopted"}, auto : BOOLEAN]
Loads == [session : SessionOrNone, revision : 0..MaxRevision, latest : BOOLEAN]

TypeOK ==
    /\ ended \in SUBSET Sessions /\ stored \in [Sessions -> 0..MaxRevision]
    /\ announced \in [Sessions -> SUBSET (1..MaxRevision)]
    /\ followed \in SessionOrNone /\ timer \in SessionOrNone /\ refused \in BOOLEAN
    /\ socket \in Sockets /\ stray \in Nat
    /\ commands \in Seq(SessionOrNone) /\ frames \in Seq(Envelope)
    /\ active \in Views /\ (active.session = None => active = NoneActive)
    /\ subscribed \in SessionOrNone /\ shown \in [Sessions -> 0..MaxRevision]
    /\ joining \in Joins /\ (joining.at # "none" => joining.session \in Sessions)
    /\ load \in Loads
    /\ faults \in 0..MaxFaults /\ visits \in 0..MaxVisits

(* The bridge keeps one WebSocket, to the session it follows, or a timer   *)
(* that will open it.                                                      *)
FollowsOneSession ==
    /\ stray = 0
    /\ socket # NoSocket => socket.session = followed /\ timer = None
    /\ timer # None => timer = followed

(* A render asked to follow the active session, which is live.             *)
Asked == active.session # None /\ ~active.ended /\ subscribed = active.session

Streaming == socket.at = "open" /\ socket.session = active.session

(* The stream ends up where the user is, after switches, reconnections and *)
(* lost connections: open for the live session that a render asked for,    *)
(* unless it was refused, and no longer following a session shown as over. *)
FollowsActive ==
    /\ Asked ~> (Streaming \/ refused \/ ~Asked)
    /\ active.ended ~> (followed # active.session \/ ~active.ended)

=============================================================================
