----------------------------- MODULE ZoomStreams -----------------------------
(***************************************************************************)
(* Lifecycle of the Zoom RTMS transcript streams of lecture sessions:      *)
(* src/backend/app/integrations/zoom/service.py with the two routes that   *)
(* drive it (zoom/routes.py, sessions/routes.py `end_session`) and the     *)
(* stream client of zoom/rtms_client.py.                                   *)
(*                                                                         *)
(* Webhooks, the end route, the stream tasks and the stop tasks run on one *)
(* asyncio loop: a step of this module is the code between two awaits.     *)
(* `link_session` runs in the threadpool, so it is cut where the values it *)
(* has read can go stale.  A stream object is named by the webhook request *)
(* that built it, because a request builds at most one.                    *)
(***************************************************************************)
EXTENDS Naturals, FiniteSets

CONSTANTS
    NSessions,   \* sessions are 1..NSessions, in insertion order
    Meetings,    \* Zoom meeting ids
    StreamIds,   \* rtms_stream_id values Zoom assigns
    Requests,    \* HTTP requests the run may serve, numbered as they arrive (bound)
    Reapers,     \* background stop_session tasks alive at once (bound)
    Lifespan,    \* the application shutdown hook
    None

Sessions == 1..NSessions
Procs == Requests \cup Reapers \cup {Lifespan}

ASSUME ConstantsAssumption ==
    /\ NSessions \in Nat \ {0}
    /\ Requests \in SUBSET Nat
    /\ IsFiniteSet(Requests)
    /\ None \notin Meetings \cup StreamIds \cup Procs
    /\ Lifespan \notin Requests \cup Reapers
    /\ Requests \cap Reapers = {}

VARIABLES
    mongo,      \* are sessions copies read from MongoDB? (never changes)
    sessions,   \* store.sessions: is it ENDED, its zoom_meeting_id, the number
                \* of session.ended events published for it, and (remembered)
                \* the links that had read it active and not written it when
                \* it ended
    states,     \* ZoomRtmsService._states; status "absent" when no entry
    streams,    \* stream objects with their task; raced (remembered): launched
                \* while another rtms_started of its session waited for the
                \* stop of an older stream
    proc,       \* requests, stop tasks and the shutdown hook
    toVisit     \* sessions whose slot `shutdown` has still to visit

vars == <<mongo, sessions, states, streams, proc, toVisit>>

Statuses == {"absent", "awaiting", "connecting", "streaming", "stopped", "failed"}
(* "aborting" and "closing": stop() was called while connecting, streaming. *)
Phases == {"unused", "connecting", "streaming", "aborting", "closing", "closed"}
Kinds == {"none", "link", "started", "stopped", "end", "reap", "shutdown"}
Points == {"idle", "write", "mark", "start", "loop", "closing", "joining", "done"}

Idle == [kind |-> "none", at |-> "idle", s |-> 1, m |-> None, id |-> None,
         old |-> None]

Live(x) == streams[x].phase \notin {"unused", "closed"}
Stopping(p) == proc[p].at \in {"closing", "joining"}
Busy(p) == proc[p].at \notin {"idle", "done"}

(* uvicorn runs the shutdown hook once the requests it serves have ended.  *)
CanServe(p) ==
    /\ p \in Requests
    /\ proc[p].at = "idle"
    /\ proc[Lifespan].at = "idle"
    /\ \A q \in Requests : q < p => proc[q].at # "idle"

Served == [Idle EXCEPT !.at = "done"]

-----------------------------------------------------------------------------
(* _stop_stream: its prefix takes the stream out of the state, stream.stop *)
(* and the join of the task are separate steps, the caller then continues. *)
Taking(kind, s, id) == [Idle EXCEPT !.kind = kind, !.at = "closing", !.s = s,
                                    !.id = id, !.old = states[s].stream]

TakeStream(p, kind, s, id) ==
    /\ states' = [states EXCEPT ![s].stream = None]
    /\ proc' = [proc EXCEPT ![p] = Taking(kind, s, id)]
    /\ UNCHANGED streams

CloseStream(p) ==
    /\ proc[p].at = "closing"
    /\ proc' = [proc EXCEPT ![p].at = "joining"]
    /\ LET x == proc[p].old IN
       streams' = [streams EXCEPT ![x].phase =
                     CASE @ = "connecting" -> "aborting"
                       [] @ = "streaming"  -> "closing"
                       [] OTHER            -> @]
    /\ UNCHANGED <<sessions, states, toVisit, mongo>>

(* start_stream: whatever the slot holds is overwritten. *)
Waiting(p, s) == proc[p].kind = "started" /\ Stopping(p) /\ proc[p].s = s

Launch(p, s, id) ==
    /\ states' = [states EXCEPT ![s] =
                    [status |-> "connecting", id |-> id, stream |-> p]]
    /\ streams' = [streams EXCEPT ![p] =
                     [phase |-> "connecting", s |-> s,
                      raced |-> \E q \in Requests \ {p} : Waiting(q, s)]]
    /\ proc' = [proc EXCEPT ![p] = Served]

JoinedUnawaited(p, kind) ==   \* slip: the cancelled task is not awaited
    proc[p].kind = kind /\ proc[p].at = "joining"

Joined(p, kind) ==
    /\ proc[p].kind = kind
    /\ proc[p].at = "joining"
    /\ streams[proc[p].old].phase = "closed"

ResumeStarted(p) ==
    /\ Joined(p, "started")
    /\ Launch(p, proc[p].s, proc[p].id)
    /\ UNCHANGED <<sessions, toVisit, mongo>>

(* rtms_stopped and stop_session mark the session's state when they resume. *)
ResumeStop(p) ==
    /\ \E kind \in {"stopped", "end", "reap"} : Joined(p, kind)
    /\ states' = [states EXCEPT ![proc[p].s].status = "stopped"]
    /\ proc' = [proc EXCEPT ![p] =
                  IF p \in Reapers THEN Idle
                  ELSE Served]
    /\ UNCHANGED <<sessions, streams, toVisit, mongo>>

-----------------------------------------------------------------------------
(* link_session: read and check, write the session, mark the stream state. *)
LinkCheck(p, s, m) ==
    /\ CanServe(p)
    /\ ~sessions[s].ended
    /\ proc' = [proc EXCEPT ![p] = [Idle EXCEPT !.kind = "link", !.at = "write",
                                                !.s = s, !.m = m]]
    /\ UNCHANGED <<sessions, states, streams, toVisit, mongo>>

(* In memory the session is shared; from MongoDB it is the copy read while *)
(* the session was active, and the whole document is written back.         *)
WrittenStale(p) ==   \* slip: a copy is written back in memory too
    [sessions[proc[p].s] EXCEPT !.meeting = proc[p].m, !.ended = FALSE]

Written(p) ==
    [sessions[proc[p].s] EXCEPT !.meeting = proc[p].m, !.ended = @ /\ ~mongo]

LinkWrite(p) ==
    /\ proc[p].at = "write"
    /\ LET s == proc[p].s IN
       /\ sessions' = [sessions EXCEPT ![s] = Written(p)]
       /\ states' = [states EXCEPT
                       ![s].status = IF @ = "absent" THEN "awaiting" ELSE @]
       /\ proc' = [proc EXCEPT ![p] =
                     IF states[s].stream = None
                     THEN [@ EXCEPT !.at = "mark"] ELSE Served]
    /\ UNCHANGED <<streams, toVisit, mongo>>

LinkMark(p) ==
    /\ proc[p].at = "mark"
    /\ states' = [states EXCEPT ![proc[p].s].status = "awaiting"]
    /\ proc' = [proc EXCEPT ![p] = Served]
    /\ UNCHANGED <<sessions, streams, toVisit, mongo>>

(* _handle_rtms_started: the first active session bound to the meeting.    *)
Bound(m) == {s \in Sessions : ~sessions[s].ended /\ sessions[s].meeting = m}
First(s, m) == s \in Bound(m) /\ \A t \in Bound(m) : s <= t

AlreadyRunning(s, id) == states[s].stream # None /\ states[s].id = id

StartedIgnored(p, m, id) ==
    /\ CanServe(p)
    /\ \A s \in Sessions : First(s, m) => AlreadyRunning(s, id)
    /\ proc' = [proc EXCEPT ![p] = Served]
    /\ UNCHANGED <<sessions, states, streams, toVisit, mongo>>

StartedFresh(p, s, m, id) ==
    /\ CanServe(p)
    /\ First(s, m)
    /\ states[s].stream = None
    /\ Launch(p, s, id)
    /\ UNCHANGED <<sessions, toVisit, mongo>>

StartedOverwriting(p, s, m, id) ==   \* slip: the old stream is not stopped
    /\ CanServe(p) /\ First(s, m)
    /\ ~AlreadyRunning(s, id)
    /\ Launch(p, s, id)
    /\ UNCHANGED <<sessions, toVisit, mongo>>

StartedReplacing(p, s, m, id) ==
    /\ CanServe(p)
    /\ First(s, m)
    /\ states[s].stream # None
    /\ ~AlreadyRunning(s, id)
    /\ TakeStream(p, "started", s, id)
    /\ UNCHANGED <<sessions, toVisit, mongo>>

(* _handle_rtms_stopped *)
StoppedIgnored(p, id) ==
    /\ CanServe(p)
    /\ \A s \in Sessions : states[s].id # id
    /\ proc' = [proc EXCEPT ![p] = Served]
    /\ UNCHANGED <<sessions, states, streams, toVisit, mongo>>

StoppedMatching(p, s, id) ==
    /\ CanServe(p)
    /\ states[s].id = id
    /\ \/ /\ states[s].stream # None
          /\ TakeStream(p, "stopped", s, id)
       \/ /\ states[s].stream = None
          /\ states' = [states EXCEPT ![s].status = "stopped"]
          /\ proc' = [proc EXCEPT ![p] =
                        Served]
          /\ UNCHANGED streams
    /\ UNCHANGED <<sessions, toVisit, mongo>>

-----------------------------------------------------------------------------
(* stop_session, from the end route or from a task of its own.             *)
StopSession(p, kind, s, after) ==
    \/ /\ states[s].stream # None
       /\ TakeStream(p, kind, s, None)
    \/ /\ states[s].stream = None
       /\ proc' = [proc EXCEPT ![p] = after]
       /\ UNCHANGED <<states, streams>>

(* end_session: the first transition to ENDED is announced.                *)
Linking(s) == {p \in Requests : proc[p].at = "write" /\ proc[p].s = s}

EndedAgain(s) ==   \* slip: whoever calls the route announces the end
    [sessions[s] EXCEPT !.ended = TRUE, !.announced = @ + 1,
                        !.overtaken = @ \cup Linking(s)]

Ended(s) ==
    IF sessions[s].ended THEN sessions[s]
    ELSE [sessions[s] EXCEPT !.ended = TRUE, !.announced = @ + 1,
                             !.overtaken = @ \cup Linking(s)]

(* POST /sessions/{id}/end: no await between end_session and stop_session. *)
EndSession(p, s) ==
    /\ CanServe(p)
    /\ sessions' = [sessions EXCEPT ![s] = Ended(s)]
    /\ StopSession(p, "end", s, Served)
    /\ UNCHANGED <<toVisit, mongo>>

ReapSession(p) ==
    /\ p \in Reapers
    /\ proc[p].at = "start"
    /\ StopSession(p, "reap", proc[p].s, Idle)
    /\ UNCHANGED <<sessions, toVisit, mongo>>

(* shutdown: list(_states.values()) is taken once, then stopped in turn.   *)
KnownStreaming ==   \* slip: only the streams that are connected
    {s \in Sessions : states[s].status = "streaming"}

Known == {s \in Sessions : states[s].status # "absent"}

ShutdownBegin ==
    /\ proc[Lifespan].at = "idle"
    /\ \A p \in Requests : ~Busy(p)
    /\ proc' = [proc EXCEPT ![Lifespan].at = "loop"]
    /\ toVisit' = Known
    /\ UNCHANGED <<sessions, states, streams, mongo>>

ShutdownVisit(s) ==
    /\ proc[Lifespan].at = "loop"
    /\ s \in toVisit
    /\ toVisit' = toVisit \ {s}
    /\ \/ /\ states[s].stream # None
          /\ TakeStream(Lifespan, "shutdown", s, None)
       \/ /\ states[s].stream = None
          /\ UNCHANGED <<states, streams, proc>>
    /\ UNCHANGED <<sessions, mongo>>

ShutdownResume ==
    /\ Joined(Lifespan, "shutdown")
    /\ proc' = [proc EXCEPT ![Lifespan].at = "loop"]
    /\ UNCHANGED <<sessions, states, streams, toVisit, mongo>>

ShutdownEnd ==
    /\ proc[Lifespan].at = "loop"
    /\ toVisit = {}
    /\ proc' = [proc EXCEPT ![Lifespan].at = "done"]
    /\ UNCHANGED <<sessions, states, streams, toVisit, mongo>>

-----------------------------------------------------------------------------
(* The stream task. `observe` writes the session's state whichever stream  *)
(* it belongs to; only the clearing of the slot compares identities.       *)
StreamConnected(x) ==
    /\ streams[x].phase = "connecting"
    /\ streams' = [streams EXCEPT ![x].phase = "streaming"]
    /\ states' = [states EXCEPT ![streams[x].s].status = "streaming"]
    /\ UNCHANGED <<sessions, proc, toVisit, mongo>>

(* run() returned or was cancelled: STOPPED, unless it returned while the  *)
(* status was FAILED; a fault of the handshake gives FAILED. A task that is *)
(* cancelled before its first step leaves the status alone.                *)
EndStatus(x) ==
    CASE streams[x].phase = "connecting" -> {"failed"}
      [] streams[x].phase = "aborting"   -> {"failed", "stopped",
                                             states[streams[x].s].status}
      [] streams[x].phase = "closing"    -> {"stopped", states[streams[x].s].status}
                                               \cap {"stopped", "failed"}
      [] OTHER -> {IF states[streams[x].s].status = "failed"
                   THEN "failed" ELSE "stopped"}

ReleaseNever(st, x) == st   \* slip: the finally clause is lost

Release(st, x) == IF st.stream = x THEN [st EXCEPT !.stream = None] ELSE st

(* slip: stop_session is awaited inside the receive loop that must end *)
CanEndAfterStop(x) == Live(x) /\ \A r \in Reapers : ~(Stopping(r) /\ proc[r].old = x)

CanEnd(x) == Live(x)

StreamEnds(x) ==
    /\ CanEnd(x)
    /\ \E status \in EndStatus(x) :
         states' = [states EXCEPT ![streams[x].s] =
                      Release([@ EXCEPT !.status = status], x)]
    /\ streams' = [streams EXCEPT ![x].phase = "closed"]
    /\ UNCHANGED <<sessions, proc, toVisit, mongo>>

(* _ingest_transcript on an ended session schedules stop_session. Chunks of *)
(* an active session go to the transcript service and change nothing here. *)
LateTranscriptDropped(x, r) ==   \* slip: the chunk is dropped, nothing else
    streams[x].phase = "streaming" /\ UNCHANGED vars

LateTranscript(x, r) ==
    /\ streams[x].phase = "streaming"
    /\ sessions[streams[x].s].ended
    /\ proc[r].at = "idle"
    /\ proc' = [proc EXCEPT ![r] = [Idle EXCEPT !.kind = "reap", !.at = "start",
                                                !.s = streams[x].s]]
    /\ UNCHANGED <<sessions, states, streams, toVisit, mongo>>

-----------------------------------------------------------------------------
Init ==
    /\ mongo \in BOOLEAN
    /\ sessions \in [Sessions -> [ended : {FALSE}, announced : {0}, overtaken : {{}},
                                  meeting : Meetings \cup {None}]]
    /\ states = [s \in Sessions |->
                   [status |-> "absent", id |-> None, stream |-> None]]
    /\ streams = [x \in Requests |-> [phase |-> "unused", s |-> 1, raced |-> FALSE]]
    /\ proc = [p \in Procs |-> Idle]
    /\ toVisit = {}

Serve(p) ==
    \/ \E s \in Sessions, m \in Meetings : LinkCheck(p, s, m)
    \/ \E m \in Meetings, id \in StreamIds :
         \/ StartedIgnored(p, m, id)
         \/ \E s \in Sessions :
              \/ StartedFresh(p, s, m, id)
              \/ StartedReplacing(p, s, m, id)
    \/ \E id \in StreamIds :
         \/ StoppedIgnored(p, id)
         \/ \E s \in Sessions : StoppedMatching(p, s, id)
    \/ \E s \in Sessions : EndSession(p, s)

Continue(p) ==
    \/ LinkWrite(p) \/ LinkMark(p)
    \/ CloseStream(p) \/ ResumeStarted(p) \/ ResumeStop(p)
    \/ ReapSession(p)

Shutdown ==
    \/ ShutdownBegin \/ ShutdownResume \/ ShutdownEnd
    \/ \E s \in Sessions : ShutdownVisit(s)

StreamTask(x) == StreamConnected(x) \/ StreamEnds(x)

Next ==
    \/ \E p \in Requests : Serve(p)
    \/ \E p \in Procs : Continue(p)
    \/ Shutdown
    \/ \E x \in Requests : StreamTask(x)
    \/ \E x \in Requests, r \in Reapers : LateTranscript(x, r)

Spec == Init /\ [][Next]_vars

(* The loop runs what is ready: a handler or stop task that can continue,  *)
(* a task that was cancelled, a handshake (every receive has a timeout).   *)
(* Zoom goes on sending transcript on an open stream; no stream is assumed *)
(* to end of itself and no request is assumed to arrive.                   *)
Fairness ==
    /\ \A p \in Procs : WF_vars(Continue(p))
    /\ WF_vars(Shutdown /\ proc[Lifespan].at # "idle")
    /\ \A x \in Requests :
         /\ WF_vars(StreamTask(x) /\ streams[x].phase # "streaming")
         /\ WF_vars(\E r \in Reapers : LateTranscript(x, r))

FairSpec == Spec /\ Fairness

-----------------------------------------------------------------------------
(* Types. *)
SessionType == [ended : BOOLEAN, meeting : Meetings \cup {None}, announced : Nat,
                overtaken : SUBSET Requests]
StateType == [status : Statuses, id : StreamIds \cup {None}, stream : Requests \cup {None}]
StreamType == [phase : Phases, s : Sessions, raced : BOOLEAN]
ProcType == [kind : Kinds, at : Points, s : Sessions, m : Meetings \cup {None},
             id : StreamIds \cup {None}, old : Requests \cup {None}]

TypeOK ==
    /\ mongo \in BOOLEAN
    /\ sessions \in [Sessions -> SessionType]
    /\ states \in [Sessions -> StateType]
    /\ streams \in [Requests -> StreamType]
    /\ proc \in [Procs -> ProcType]
    /\ toVisit \in SUBSET Sessions

Holds(p, x) == Stopping(p) /\ proc[p].old = x

(* However webhooks, ends, late transcript and links overlap, a stream that *)
(* still runs is in its session's slot, or some handler has taken it and is *)
(* going to close it; only a stream that was launched while another        *)
(* rtms_started of its session was waiting may be overwritten in its slot. *)
NoOrphan ==
    \A x \in Requests :
        Live(x) => \/ states[streams[x].s].stream = x
                   \/ \E p \in Procs : Holds(p, x)
                   \/ streams[x].raced

(* Once `shutdown` has returned, every stream has been told to stop but    *)
(* those a stop_session task still holds and those that raced.             *)
ShutdownStopsAll ==
    proc[Lifespan].at = "done" =>
        \A x \in Requests :
            \/ streams[x].phase \notin {"connecting", "streaming"}
            \/ \E r \in Reapers : Holds(r, x)
            \/ streams[x].raced

(* A slot never keeps a stream whose task is over: the next rtms_started   *)
(* with that id would be answered "already running" and nothing would run. *)
SlotIsLive ==
    \A s \in Sessions : states[s].stream # None =>
        Live(states[s].stream) /\ streams[states[s].stream].s = s

(* session.ended is published once for a session of the memory; from       *)
(* MongoDB each link that read the session before its end and writes it    *)
(* back afterwards costs at most one more announcement.                    *)
AnnouncedOnce ==
    \A s \in Sessions :
        sessions[s].announced <= 1 + IF mongo THEN Cardinality(sessions[s].overtaken) ELSE 0

(* What end_session documents: the first transition to ENDED publishes     *)
(* session.ended once, repeated ends publish nothing (violated).           *)
EndPublishedOnce == \A s \in Sessions : sessions[s].announced <= 1

(* No handler waits for ever on the task it cancelled: stop_session is run *)
(* outside the receive loop it has to end.                                 *)
HandlersFinish == \A p \in Procs : Busy(p) ~> ~Busy(p)

(* The transcript of an ended session stops: a stream that outlives the    *)
(* end route is closed by the next transcript it delivers, unless it raced *)
(* or a link makes the session active again.                               *)
EndedSessionDrains ==
    \A s \in Sessions :
        sessions[s].ended ~>
            \/ ~sessions[s].ended
            \/ \A x \in Requests :
                  streams[x].s = s /\ ~streams[x].raced => ~Live(x)
=============================================================================
