------------------------- MODULE ZoomStreamsProofs -------------------------
(***************************************************************************)
(* Theorems about ZoomStreams, for any number of sessions, meetings,       *)
(* requests and stop tasks.                                                *)
(***************************************************************************)
EXTENDS ZoomStreams, FiniteSetTheorems, TLAPS

(* One step of the specification, action by action: the case split every   *)
(* proof below uses.                                                       *)
LEMMA Steps ==
    ASSUME Next
    PROVE  \/ \E p \in Requests, s \in Sessions, m \in Meetings : LinkCheck(p, s, m)
           \/ \E p \in Requests, m \in Meetings, id \in StreamIds : StartedIgnored(p, m, id)
           \/ \E p \in Requests, s \in Sessions, m \in Meetings, id \in StreamIds :
                StartedFresh(p, s, m, id)
           \/ \E p \in Requests, s \in Sessions, m \in Meetings, id \in StreamIds :
                StartedReplacing(p, s, m, id)
           \/ \E p \in Requests, id \in StreamIds : StoppedIgnored(p, id)
           \/ \E p \in Requests, s \in Sessions, id \in StreamIds : StoppedMatching(p, s, id)
           \/ \E p \in Requests, s \in Sessions : EndSession(p, s)
           \/ \E p \in Procs : LinkWrite(p)
           \/ \E p \in Procs : LinkMark(p)
           \/ \E p \in Procs : CloseStream(p)
           \/ \E p \in Procs : ResumeStarted(p)
           \/ \E p \in Procs : ResumeStop(p)
           \/ \E p \in Procs : ReapSession(p)
           \/ ShutdownBegin
           \/ \E s \in Sessions : ShutdownVisit(s)
           \/ ShutdownResume
           \/ ShutdownEnd
           \/ \E x \in Requests : StreamConnected(x)
           \/ \E x \in Requests : StreamEnds(x)
           \/ \E x \in Requests, r \in Reapers : LateTranscript(x, r)
  BY DEF Next, Serve, Continue, Shutdown, StreamTask

-----------------------------------------------------------------------------
(* Where the sessions are stored never changes.                            *)
LEMMA MongoKept == ASSUME Next PROVE mongo' = mongo
  BY Steps DEF LinkCheck, StartedIgnored, StartedFresh, StartedReplacing, StoppedIgnored,
     StoppedMatching, EndSession, LinkWrite, LinkMark, CloseStream, ResumeStarted, ResumeStop,
     ReapSession, ShutdownBegin, ShutdownVisit, ShutdownResume, ShutdownEnd, StreamConnected,
     StreamEnds, LateTranscript

(* Types.  The four functions are typed one after the other: each has few   *)
(* actions that change it.  Resuming a started request launches a stream    *)
(* named after that request, which needs the request to be one.             *)
ResumesRequest ==
    \A p \in Procs : proc[p].kind = "started" => p \in Requests

TypeInv == TypeOK /\ ResumesRequest

LEMMA InitType == Init => TypeInv
  <1> SUFFICES ASSUME Init PROVE TypeInv
    OBVIOUS
  <1>1. 1 \in Sessions
    BY ConstantsAssumption DEF Sessions
  <1>2. Idle \in ProcType
    BY <1>1 DEF Idle, ProcType, Kinds, Points
  <1>3. sessions \in [Sessions -> SessionType]
    <2>1. sessions = [s \in Sessions |-> sessions[s]]
      BY DEF Init
    <2>2. ASSUME NEW s \in Sessions PROVE sessions[s] \in SessionType
      <3>1. sessions[s] \in [ended : {FALSE}, announced : {0}, overtaken : {{}},
                             meeting : Meetings \cup {None}]
        BY DEF Init
      <3>2. PICK m \in Meetings \cup {None} :
              sessions[s] = [ended |-> FALSE, announced |-> 0, overtaken |-> {}, meeting |-> m]
        BY <3>1
      <3>3. QED
        BY <3>2 DEF SessionType
    <2>3. QED
      BY <2>1, <2>2
  <1>31. TypeOK
    BY <1>1, <1>2, <1>3 DEF Init, TypeOK, StateType, StreamType, Statuses, Phases
  <1>4. ResumesRequest
    BY DEF Init, ResumesRequest, Idle
  <1>5. QED
    BY <1>31, <1>4 DEF TypeInv

(* Only the end route and the write of a link change a session.            *)
LEMMA SessionFrame ==
    ASSUME Next
    PROVE  \/ UNCHANGED sessions
           \/ \E p \in Requests, s \in Sessions : EndSession(p, s)
           \/ \E p \in Procs : LinkWrite(p)
  <1>1. CASE \E p \in Requests : Serve(p)
    BY <1>1 DEF Serve, LinkCheck, StartedIgnored, StartedFresh, StartedReplacing,
                StoppedIgnored, StoppedMatching
  <1>2. CASE \E p \in Procs : Continue(p)
    BY <1>2 DEF Continue, LinkMark, CloseStream, ResumeStarted, ResumeStop, ReapSession
  <1>3. CASE Shutdown
    BY <1>3 DEF Shutdown, ShutdownBegin, ShutdownVisit, ShutdownResume, ShutdownEnd
  <1>4. CASE \E x \in Requests : StreamTask(x)
    BY <1>4 DEF StreamTask, StreamConnected, StreamEnds
  <1>5. CASE \E x \in Requests, r \in Reapers : LateTranscript(x, r)
    BY <1>5 DEF LateTranscript
  <1>6. QED
    BY <1>1, <1>2, <1>3, <1>4, <1>5 DEF Next

LEMMA SessionsTyped ==
    ASSUME TypeInv, Next PROVE sessions' \in [Sessions -> SessionType]
  <1> USE DEF TypeInv, TypeOK
  <1>1. ASSUME NEW p \in Requests, NEW s \in Sessions, EndSession(p, s)
        PROVE  sessions' \in [Sessions -> SessionType]
    <2>1. Ended(s) \in SessionType
      <3>1. sessions[s] \in SessionType /\ Linking(s) \in SUBSET Requests
        BY DEF Linking
      <3>2. /\ sessions[s].overtaken \cup Linking(s) \in SUBSET Requests
            /\ sessions[s].announced + 1 \in Nat
        BY <3>1 DEF SessionType
      <3>3. QED
        BY <3>1, <3>2 DEF Ended, SessionType
    <2>2. QED
      BY <1>1, <2>1 DEF EndSession
  <1>2. ASSUME NEW p \in Procs, LinkWrite(p)
        PROVE  sessions' \in [Sessions -> SessionType]
    <2>1. proc[p].s \in Sessions /\ proc[p].m \in Meetings \cup {None}
      BY DEF ProcType
    <2>2. Written(p) \in SessionType
      BY <2>1 DEF Written, SessionType
    <2>3. QED
      BY <1>2, <2>1, <2>2 DEF LinkWrite
  <1>3. QED
    BY <1>1, <1>2, SessionFrame

LEMMA StatesTyped ==
    ASSUME TypeInv, Next PROVE states' \in [Sessions -> StateType]
  <1> USE DEF TypeInv, TypeOK
  <1>0. \A p \in Procs : proc[p] \in ProcType /\ proc[p].s \in Sessions
                          /\ proc[p].id \in StreamIds \cup {None}
    BY DEF ProcType
  <1>1. ASSUME NEW p \in Requests, NEW s \in Sessions, NEW m \in Meetings,
               NEW id \in StreamIds, StartedFresh(p, s, m, id)
        PROVE  states' \in [Sessions -> StateType]
    BY <1>1 DEF StartedFresh, Launch, StateType, Statuses
  <1>2. ASSUME NEW p \in Requests, NEW s \in Sessions, NEW m \in Meetings,
               NEW id \in StreamIds, StartedReplacing(p, s, m, id)
        PROVE  states' \in [Sessions -> StateType]
    BY <1>2 DEF StartedReplacing, TakeStream, StateType
  <1>3. ASSUME NEW p \in Requests, NEW s \in Sessions,
               NEW id \in StreamIds, StoppedMatching(p, s, id)
        PROVE  states' \in [Sessions -> StateType]
    BY <1>3 DEF StoppedMatching, TakeStream, StateType, Statuses
  <1>4. ASSUME NEW p \in Requests, NEW s \in Sessions, EndSession(p, s)
        PROVE  states' \in [Sessions -> StateType]
    <2>1. states' = states \/ states' = [states EXCEPT ![s].stream = None]
      BY <1>4 DEF EndSession, StopSession, TakeStream
    <2>2. QED
      BY <2>1 DEF StateType
  <1>5. ASSUME NEW p \in Procs, LinkWrite(p)
        PROVE  states' \in [Sessions -> StateType]
    BY <1>5, <1>0 DEF LinkWrite, StateType, Statuses
  <1>6. ASSUME NEW p \in Procs, LinkMark(p)
        PROVE  states' \in [Sessions -> StateType]
    <2>1. states' = [states EXCEPT ![proc[p].s].status = "awaiting"]
      BY <1>6 DEF LinkMark
    <2>2. QED
      BY <2>1, <1>0 DEF StateType, Statuses
  <1>7. ASSUME NEW p \in Procs, ResumeStarted(p)
        PROVE  states' \in [Sessions -> StateType]
    BY <1>7, <1>0 DEF ResumeStarted, Joined, Launch, ResumesRequest, StateType, Statuses
  <1>8. ASSUME NEW p \in Procs, ResumeStop(p)
        PROVE  states' \in [Sessions -> StateType]
    BY <1>8, <1>0 DEF ResumeStop, StateType, Statuses
  <1>9. ASSUME NEW p \in Procs, ReapSession(p)
        PROVE  states' \in [Sessions -> StateType]
    BY <1>9, <1>0 DEF ReapSession, StopSession, TakeStream, StateType
  <1>10. ASSUME NEW s \in Sessions, ShutdownVisit(s)
        PROVE  states' \in [Sessions -> StateType]
    BY <1>10 DEF ShutdownVisit, TakeStream, StateType
  <1>11. ASSUME NEW x \in Requests, StreamConnected(x)
        PROVE  states' \in [Sessions -> StateType]
    BY <1>11 DEF StreamConnected, StreamType, StateType, Statuses
  <1>12. ASSUME NEW x \in Requests, StreamEnds(x)
        PROVE  states' \in [Sessions -> StateType]
    <2>1. streams[x].s \in Sessions
      BY DEF StreamType
    <2>2. PICK status \in EndStatus(x) :
            states' = [states EXCEPT ![streams[x].s] = Release([@ EXCEPT !.status = status], x)]
      BY <1>12 DEF StreamEnds
    <2>3. status \in Statuses
      BY <2>1, <2>2 DEF EndStatus, StateType, Statuses
    <2>4. Release([states[streams[x].s] EXCEPT !.status = status], x) \in StateType
      BY <2>1, <2>3 DEF Release, StateType
    <2>5. QED
      BY <2>1, <2>2, <2>4
  <1>13. CASE UNCHANGED states
    BY <1>13
  <1>14. QED
    BY <1>1, <1>2, <1>3, <1>4, <1>5, <1>6, <1>7, <1>8, <1>9, <1>10, <1>11, <1>12, <1>13, Steps
       DEF LinkCheck, StartedIgnored, StoppedIgnored, CloseStream, ShutdownBegin, ShutdownResume, ShutdownEnd, LateTranscript

LEMMA StreamsTyped ==
    ASSUME TypeInv, Next PROVE streams' \in [Requests -> StreamType]
  <1> USE DEF TypeInv, TypeOK
  <1>0. \A p \in Procs : proc[p].s \in Sessions
    BY DEF ProcType
  <1>1. ASSUME NEW p \in Requests, NEW s \in Sessions, NEW m \in Meetings,
               NEW id \in StreamIds, StartedFresh(p, s, m, id)
        PROVE  streams' \in [Requests -> StreamType]
    BY <1>1 DEF StartedFresh, Launch, StreamType, Phases
  <1>2. ASSUME NEW p \in Requests, NEW s \in Sessions, NEW m \in Meetings,
               NEW id \in StreamIds, StartedReplacing(p, s, m, id)
        PROVE  streams' \in [Requests -> StreamType]
    BY <1>2 DEF StartedReplacing, TakeStream
  <1>3. ASSUME NEW p \in Requests, NEW s \in Sessions,
               NEW id \in StreamIds, StoppedMatching(p, s, id)
        PROVE  streams' \in [Requests -> StreamType]
    BY <1>3 DEF StoppedMatching, TakeStream
  <1>4. ASSUME NEW p \in Requests, NEW s \in Sessions, EndSession(p, s)
        PROVE  streams' \in [Requests -> StreamType]
    BY <1>4 DEF EndSession, StopSession, TakeStream
  <1>5. ASSUME NEW p \in Procs, CloseStream(p)
        PROVE  streams' \in [Requests -> StreamType]
    <2> DEFINE x == proc[p].old
               phase == CASE streams[x].phase = "connecting" -> "aborting"
                          [] streams[x].phase = "streaming" -> "closing"
                          [] OTHER -> streams[x].phase
    <2>1. streams' = [streams EXCEPT ![x].phase = phase]
      BY <1>5 DEF CloseStream
    <2>2. x \in Requests => phase \in Phases
      BY DEF StreamType, Phases
    <2> HIDE DEF x, phase
    <2>3. QED
      BY <2>1, <2>2 DEF StreamType
  <1>6. ASSUME NEW p \in Procs, ResumeStarted(p)
        PROVE  streams' \in [Requests -> StreamType]
    BY <1>6, <1>0 DEF ResumeStarted, Joined, Launch, ResumesRequest, StreamType, Phases
  <1>7. ASSUME NEW p \in Procs, ReapSession(p)
        PROVE  streams' \in [Requests -> StreamType]
    BY <1>7 DEF ReapSession, StopSession, TakeStream
  <1>8. ASSUME NEW s \in Sessions, ShutdownVisit(s)
        PROVE  streams' \in [Requests -> StreamType]
    BY <1>8 DEF ShutdownVisit, TakeStream
  <1>9. ASSUME NEW x \in Requests, StreamConnected(x)
        PROVE  streams' \in [Requests -> StreamType]
    BY <1>9 DEF StreamConnected, StreamType, Phases
  <1>10. ASSUME NEW x \in Requests, StreamEnds(x)
        PROVE  streams' \in [Requests -> StreamType]
    BY <1>10 DEF StreamEnds, StreamType, Phases
  <1>11. CASE UNCHANGED streams
    BY <1>11
  <1>12. QED
    BY <1>1, <1>2, <1>3, <1>4, <1>5, <1>6, <1>7, <1>8, <1>9, <1>10, <1>11, Steps
       DEF LinkCheck, StartedIgnored, StoppedIgnored, LinkWrite, LinkMark, ResumeStop, ShutdownBegin, ShutdownResume, ShutdownEnd, LateTranscript

LEMMA HandlerTyped ==
    ASSUME TypeInv, NEW s \in Sessions, NEW kind \in Kinds,
           NEW id \in StreamIds \cup {None}
    PROVE  /\ Idle \in ProcType /\ Idle.kind # "started"
           /\ Served \in ProcType /\ Served.kind = "none" /\ Served.at = "done"
           /\ Taking(kind, s, id) \in ProcType /\ Taking(kind, s, id).kind = kind
  <1>1. 1 \in Sessions /\ states[s].stream \in Requests \cup {None}
    BY ConstantsAssumption DEF Sessions, TypeInv, TypeOK, StateType
  <1>2. QED
    BY <1>1 DEF Idle, Served, Taking, ProcType, Kinds, Points

LEMMA ProcsTyped ==
    ASSUME TypeInv, Next PROVE proc' \in [Procs -> ProcType] /\ ResumesRequest'
  <1> USE DEF TypeInv, TypeOK, Procs
  <1>0. /\ 1 \in Sessions
        /\ \A p \in Procs : proc[p].s \in Sessions /\ proc[p].kind \in Kinds
    BY ConstantsAssumption DEF Sessions, ProcType
  <1>1. ASSUME NEW p \in Requests, NEW s \in Sessions,
               NEW m \in Meetings, LinkCheck(p, s, m)
        PROVE  proc' \in [Procs -> ProcType] /\ ResumesRequest'
    BY <1>1, <1>0 DEF LinkCheck, ResumesRequest, Idle, ProcType, Kinds, Points
  <1>2. ASSUME NEW p \in Requests, NEW m \in Meetings,
               NEW id \in StreamIds, StartedIgnored(p, m, id)
        PROVE  proc' \in [Procs -> ProcType] /\ ResumesRequest'
    BY <1>2, <1>0, HandlerTyped DEF StartedIgnored, ResumesRequest, Kinds
  <1>3. ASSUME NEW p \in Requests, NEW s \in Sessions, NEW m \in Meetings,
               NEW id \in StreamIds, StartedFresh(p, s, m, id)
        PROVE  proc' \in [Procs -> ProcType] /\ ResumesRequest'
    BY <1>3, <1>0, HandlerTyped DEF StartedFresh, Launch, ResumesRequest, Kinds
  <1>4. ASSUME NEW p \in Requests, NEW s \in Sessions, NEW m \in Meetings,
               NEW id \in StreamIds, StartedReplacing(p, s, m, id)
        PROVE  proc' \in [Procs -> ProcType] /\ ResumesRequest'
    BY <1>4, <1>0, HandlerTyped DEF StartedReplacing, TakeStream, ResumesRequest, Kinds
  <1>5. ASSUME NEW p \in Requests, NEW id \in StreamIds, StoppedIgnored(p, id)
        PROVE  proc' \in [Procs -> ProcType] /\ ResumesRequest'
    BY <1>5, <1>0, HandlerTyped DEF StoppedIgnored, ResumesRequest, Kinds
  <1>6. ASSUME NEW p \in Requests, NEW s \in Sessions,
               NEW id \in StreamIds, StoppedMatching(p, s, id)
        PROVE  proc' \in [Procs -> ProcType] /\ ResumesRequest'
    <2>1. PICK r \in ProcType : r.kind # "started" /\ proc' = [proc EXCEPT ![p] = r]
      BY <1>6, <1>0, HandlerTyped DEF StoppedMatching, TakeStream, Kinds
    <2>2. QED
      BY <2>1 DEF ResumesRequest
  <1>7. ASSUME NEW p \in Requests, NEW s \in Sessions, EndSession(p, s)
        PROVE  proc' \in [Procs -> ProcType] /\ ResumesRequest'
    <2>0. proc' \in {[proc EXCEPT ![p] = Taking("end", s, None)],
                    [proc EXCEPT ![p] = Served]}
      BY <1>7 DEF EndSession, StopSession, TakeStream
    <2>1. PICK r \in ProcType : r.kind # "started" /\ proc' = [proc EXCEPT ![p] = r]
      BY <2>0, HandlerTyped DEF Kinds
    <2>2. QED
      BY <2>1 DEF ResumesRequest
  <1>8. ASSUME NEW p \in Procs, LinkWrite(p)
        PROVE  proc' \in [Procs -> ProcType] /\ ResumesRequest'
    <2>1. [proc[p] EXCEPT !.at = "mark"] \in ProcType
      BY DEF ProcType, Points
    <2>2. proc[p].at = "write" /\ proc' \in {[proc EXCEPT ![p].at = "mark"],
                    [proc EXCEPT ![p] = Served]}
      BY <1>8 DEF LinkWrite
    <2>3. Served \in ProcType
          /\ Served.kind = "none"
      BY <1>0, HandlerTyped DEF Kinds
    <2>4. proc' \in [Procs -> ProcType]
      BY <2>1, <2>2, <2>3
    <2>5. \A q \in Procs : q # p => proc'[q] = proc[q]
      BY <2>2
    <2>6. proc'[p].kind \in {proc[p].kind, "none"}
      BY <2>2, <2>3 DEF ProcType
    <2>7. QED
      BY <2>4, <2>5, <2>6 DEF ResumesRequest
  <1>9. ASSUME NEW p \in Procs, LinkMark(p)
        PROVE  proc' \in [Procs -> ProcType] /\ ResumesRequest'
    BY <1>9, <1>0, HandlerTyped DEF LinkMark, ResumesRequest, Kinds
  <1>10. ASSUME NEW p \in Procs, CloseStream(p)
        PROVE  proc' \in [Procs -> ProcType] /\ ResumesRequest'
    BY <1>10 DEF CloseStream, ResumesRequest, ProcType, Points
  <1>11. ASSUME NEW p \in Procs, ResumeStarted(p)
        PROVE  proc' \in [Procs -> ProcType] /\ ResumesRequest'
    BY <1>11, <1>0, HandlerTyped DEF ResumeStarted, Joined, Launch, ResumesRequest, Kinds
  <1>12. ASSUME NEW p \in Procs, ResumeStop(p)
        PROVE  proc' \in [Procs -> ProcType] /\ ResumesRequest'
    <2>1. PICK r \in ProcType : r.kind # "started" /\ proc' = [proc EXCEPT ![p] = r]
      <3>1. PICK kind \in {"stopped", "end", "reap"} : proc[p].kind = kind
        BY <1>12 DEF ResumeStop, Joined
      <3>2. proc' \in {[proc EXCEPT ![p] = Idle],
                      [proc EXCEPT ![p] = Served]}
        BY <1>12 DEF ResumeStop
      <3>3. QED
        <4>1. /\ Idle \in ProcType /\ Idle.kind # "started"
              /\ Served \in ProcType /\ Served.kind # "started"
          BY <1>0, HandlerTyped
        <4>2. CASE proc' = [proc EXCEPT ![p] = Idle]
          BY <4>1, <4>2
        <4>3. CASE proc' = [proc EXCEPT ![p] = Served]
          BY <3>1, <4>1, <4>3
        <4>4. QED
          BY <3>2, <4>2, <4>3
    <2>2. QED
      BY <2>1 DEF ResumesRequest
  <1>13. ASSUME NEW p \in Procs, ReapSession(p)
        PROVE  proc' \in [Procs -> ProcType] /\ ResumesRequest'
    <2>1. PICK r \in ProcType : r.kind # "started" /\ proc' = [proc EXCEPT ![p] = r]
      <3>1. \/ proc' = [proc EXCEPT ![p] = Idle]
            \/ proc' = [proc EXCEPT ![p] = Taking("reap", proc[p].s, None)]
        BY <1>13 DEF ReapSession, StopSession, TakeStream
      <3>2. /\ Idle \in ProcType /\ Idle.kind # "started"
            /\ Taking("reap", proc[p].s, None) \in ProcType
            /\ Taking("reap", proc[p].s, None).kind = "reap"
        <4>1. "reap" \in Kinds /\ proc[p].s \in Sessions /\ TypeInv
          BY <1>0 DEF Kinds
        <4>2. QED
          BY ONLY <4>1, HandlerTyped
      <3>3. QED
        BY <3>1, <3>2
    <2>2. QED
      BY <2>1 DEF ResumesRequest
  <1>14. ASSUME ShutdownBegin
        PROVE  proc' \in [Procs -> ProcType] /\ ResumesRequest'
    BY <1>14 DEF ShutdownBegin, ResumesRequest, ProcType, Points
  <1>15. ASSUME NEW s \in Sessions, ShutdownVisit(s)
        PROVE  proc' \in [Procs -> ProcType] /\ ResumesRequest'
    BY <1>15, <1>0, HandlerTyped DEF ShutdownVisit, TakeStream, ResumesRequest, Kinds
  <1>16. ASSUME ShutdownResume
        PROVE  proc' \in [Procs -> ProcType] /\ ResumesRequest'
    BY <1>16 DEF ShutdownResume, ResumesRequest, ProcType, Points
  <1>17. ASSUME ShutdownEnd
        PROVE  proc' \in [Procs -> ProcType] /\ ResumesRequest'
    BY <1>17 DEF ShutdownEnd, ResumesRequest, ProcType, Points
  <1>18. ASSUME NEW x \in Requests, NEW r \in Reapers, LateTranscript(x, r)
        PROVE  proc' \in [Procs -> ProcType] /\ ResumesRequest'
    BY <1>18, <1>0 DEF LateTranscript, ResumesRequest, StreamType, Served, Idle, ProcType, Kinds, Points
  <1>19. CASE UNCHANGED proc
    BY <1>19 DEF ResumesRequest
  <1>20. QED
    BY <1>1, <1>2, <1>3, <1>4, <1>5, <1>6, <1>7, <1>8, <1>9,
       <1>10, <1>11, <1>12, <1>13, <1>14, <1>15, <1>16, <1>17, <1>18, <1>19, Steps
       DEF StreamConnected, StreamEnds

LEMMA StepType == TypeInv /\ [Next]_vars => TypeInv'
  <1> SUFFICES ASSUME TypeInv, [Next]_vars PROVE TypeInv'
    OBVIOUS
  <1>1. CASE Next
    <2>1. toVisit' \in SUBSET Sessions
      BY <1>1, Steps DEF TypeInv, TypeOK, LinkCheck, StartedIgnored, StartedFresh,
         StartedReplacing, StoppedIgnored, StoppedMatching, EndSession, LinkWrite, LinkMark,
         CloseStream, ResumeStarted, ResumeStop, ReapSession, ShutdownBegin, ShutdownVisit,
         ShutdownResume, ShutdownEnd, StreamConnected, StreamEnds, LateTranscript, Known
    <2>2. QED
      BY <1>1, <2>1, MongoKept, SessionsTyped, StatesTyped, StreamsTyped, ProcsTyped DEF TypeInv, TypeOK
  <1>2. CASE UNCHANGED vars
    BY <1>2 DEF vars, TypeInv, TypeOK, ResumesRequest
  <1>3. QED
    BY <1>1, <1>2

(* Every variable of the stream lifecycle keeps its type.                  *)
THEOREM TypeCorrect == Spec => []TypeOK
  <1>1. TypeInv => TypeOK
    BY DEF TypeInv
  <1>2. QED
    BY <1>1, InitType, StepType, PTL DEF Spec

-----------------------------------------------------------------------------
(* The links that were overtaken by the end of s and have written s back.  *)
WrittenBack(s) == {p \in sessions[s].overtaken : proc[p].at # "write"}

(* The link requests that have yet to write; a link that finds its session *)
(* ended was overtaken by the end, and one that has written is served, so  *)
(* it never links again.                                                   *)
Links ==
    \A p \in Procs : proc[p].at \in {"write", "mark"} => p \in Requests

OvertakenLinks ==
    \A p \in Requests :
        /\ proc[p].at = "write" /\ sessions[proc[p].s].ended
              => p \in sessions[proc[p].s].overtaken
        /\ \A s \in Sessions :
             p \in sessions[s].overtaken =>
                /\ proc[p].at \in {"write", "mark", "done"}
                /\ proc[p].at = "write" => proc[p].s = s

Counted ==
    \A s \in Sessions :
        sessions[s].announced <=
            (IF sessions[s].ended THEN 1 ELSE 0)
              + (IF mongo THEN Cardinality(WrittenBack(s)) ELSE 0)

AnnounceInv == Links /\ OvertakenLinks /\ Counted

(* What a step other than the end of a session and the write of a link     *)
(* does to a process: it leaves links alone, marks one, or serves a new    *)
(* one of an active session.                                               *)
Untouched(q) ==
    \/ proc'[q] = proc[q]
    \/ proc[q].at = "mark" /\ proc'[q].at = "done"
    \/ /\ proc[q].at \notin {"write", "mark", "done"}
       /\ \/ proc'[q].at \notin {"write", "mark"}
          \/ /\ proc'[q].at = "write" /\ q \in Requests
             /\ ~sessions[proc'[q].s].ended

LEMMA LinksLeftAlone ==
    ASSUME TypeInv, Next,
           \A p \in Requests, s \in Sessions : ~EndSession(p, s),
           \A p \in Procs : ~LinkWrite(p)
    PROVE  sessions' = sessions /\ \A q \in Procs : Untouched(q)
  <1> USE DEF Untouched
  <1>0. proc \in [Procs -> ProcType] /\ Requests \subseteq Procs
        /\ Reapers \subseteq Procs /\ Lifespan \in Procs
    BY DEF TypeInv, TypeOK, Procs
  <1>1. ASSUME NEW p \in Procs, NEW r, proc' = [proc EXCEPT ![p] = r],
               proc[p].at \notin {"write", "mark", "done"}, r.at \notin {"write", "mark"}
        PROVE  \A q \in Procs : Untouched(q)
    BY <1>0, <1>1
  <1>2. ASSUME NEW p \in Requests, NEW s \in Sessions,
               NEW m \in Meetings, LinkCheck(p, s, m)
        PROVE  \A q \in Procs : Untouched(q)
    BY <1>0, <1>2 DEF LinkCheck, CanServe, Idle
  <1>3. ASSUME NEW p \in Requests, CanServe(p) PROVE proc[p].at = "idle" /\ p \in Procs
    BY <1>0, <1>3 DEF CanServe
  <1>4. /\ Idle.at = "idle" /\ Served.at = "done"
        /\ \A kind, s, id : Taking(kind, s, id).at = "closing"
    BY DEF Idle, Served, Taking
  <1>5. ASSUME NEW p \in Requests, NEW id \in StreamIds,
               \/ \E m \in Meetings : StartedIgnored(p, m, id)
               \/ \E m \in Meetings, s \in Sessions : StartedFresh(p, s, m, id)
               \/ \E m \in Meetings, s \in Sessions : StartedReplacing(p, s, m, id)
               \/ StoppedIgnored(p, id)
               \/ \E s \in Sessions : StoppedMatching(p, s, id)
        PROVE  \A q \in Procs : Untouched(q)
    <2>1. proc[p].at = "idle" /\ p \in Procs
      BY <1>3, <1>5 DEF StartedIgnored, StartedFresh, StartedReplacing, StoppedIgnored, StoppedMatching
    <2>2. \/ proc' = [proc EXCEPT ![p] = Served]
          \/ \E kind \in Kinds, s \in Sessions : proc' = [proc EXCEPT ![p] = Taking(kind, s, id)]
      BY <1>5 DEF StartedIgnored, StartedFresh, StartedReplacing, StoppedIgnored,
                  StoppedMatching, Launch, TakeStream, Kinds
    <2>3. QED
      BY <1>1, <1>4, <2>1, <2>2
  <1>6. ASSUME NEW p \in Procs, LinkMark(p)
        PROVE  \A q \in Procs : Untouched(q)
    BY <1>0, <1>4, <1>6 DEF LinkMark
  <1>7. ASSUME NEW p \in Procs, CloseStream(p)
        PROVE  \A q \in Procs : Untouched(q)
    BY <1>0, <1>7 DEF CloseStream, ProcType
  <1>8. ASSUME NEW p \in Procs, ResumeStarted(p) \/ ResumeStop(p) \/ ReapSession(p)
        PROVE  \A q \in Procs : Untouched(q)
    <2>1. proc[p].at \in {"joining", "start"}
      BY <1>8 DEF ResumeStarted, ResumeStop, ReapSession, Joined
    <2>2. \/ proc' = [proc EXCEPT ![p] = Served]
          \/ proc' = [proc EXCEPT ![p] = Idle]
          \/ proc' = [proc EXCEPT ![p] = Taking("reap", proc[p].s, None)]
      BY <1>8 DEF ResumeStarted, ResumeStop, ReapSession, Launch, StopSession, TakeStream
    <2>3. QED
      BY <1>1, <1>4, <2>1, <2>2
  <1>9. ASSUME Shutdown
        PROVE  \A q \in Procs : Untouched(q)
    <2>1. CASE ShutdownBegin
      BY <1>0, <2>1 DEF ShutdownBegin, ProcType
    <2>2. CASE \E s \in Sessions : ShutdownVisit(s)
      <3>1. PICK s \in Sessions : ShutdownVisit(s)
        BY <2>2
      <3>2. /\ proc[Lifespan].at = "loop"
            /\ \/ proc' = proc
               \/ proc' = [proc EXCEPT ![Lifespan] = Taking("shutdown", s, None)]
        BY <3>1 DEF ShutdownVisit, TakeStream
      <3>3. QED
        BY <1>0, <1>1, <1>4, <3>2
    <2>3. CASE ShutdownResume \/ ShutdownEnd
      BY <1>0, <2>3 DEF ShutdownResume, ShutdownEnd, Joined, ProcType
    <2>4. QED
      BY <1>9, <2>1, <2>2, <2>3 DEF Shutdown
  <1>10. ASSUME NEW x \in Requests, NEW r \in Reapers, LateTranscript(x, r)
        PROVE  \A q \in Procs : Untouched(q)
    <2>1. PICK t \in {[Idle EXCEPT !.kind = "reap", !.at = "start", !.s = streams[x].s]} :
            proc' = [proc EXCEPT ![r] = t] /\ proc[r].at = "idle"
      BY <1>10 DEF LateTranscript
    <2>2. t.at = "start"
      BY <2>1 DEF Idle
    <2>3. QED
      BY <1>0, <1>1, <2>1, <2>2
  <1>11. ASSUME NEW x \in Requests, StreamConnected(x) \/ StreamEnds(x)
        PROVE  \A q \in Procs : Untouched(q)
    BY <1>11 DEF StreamConnected, StreamEnds
  <1>12. sessions' = sessions
    BY SessionFrame
  <1>13. \A q \in Procs : Untouched(q)
    <2>1. CASE \E p \in Requests : Serve(p)
      <3>1. PICK p \in Requests : Serve(p)
        BY <2>1
      <3>2. QED
        BY <3>1, <1>2, <1>5 DEF Serve
    <2>2. CASE \E p \in Procs : Continue(p)
      BY <2>2, <1>6, <1>7, <1>8 DEF Continue
    <2>3. CASE \E x \in Requests : StreamTask(x)
      BY <2>3, <1>11 DEF StreamTask
    <2>4. QED
      BY <2>1, <2>2, <2>3, <1>9, <1>10 DEF Next
  <1>14. QED
    BY <1>12, <1>13

LEMMA WrittenBackFinite ==
    ASSUME TypeInv, NEW s \in Sessions
    PROVE  /\ IsFiniteSet(sessions[s].overtaken)
           /\ IsFiniteSet(WrittenBack(s))
           /\ Cardinality(WrittenBack(s)) \in Nat
           /\ Cardinality(WrittenBack(s)) <= Cardinality(sessions[s].overtaken)
           /\ Cardinality(sessions[s].overtaken) \in Nat
  <1>1. sessions[s].overtaken \in SUBSET Requests
    BY DEF TypeInv, TypeOK, SessionType
  <1>2. IsFiniteSet(sessions[s].overtaken)
    BY <1>1, FS_Subset, ConstantsAssumption
  <1>3. WrittenBack(s) \subseteq sessions[s].overtaken
    BY DEF WrittenBack
  <1>4. QED
    BY <1>2, <1>3, FS_Subset, FS_CardinalityType

(* What is remembered only grows, so the bound only becomes weaker.        *)
LEMMA BoundGrows ==
    ASSUME TypeInv, TypeInv', Counted, mongo' = mongo, NEW s \in Sessions,
           sessions'[s].ended = sessions[s].ended,
           sessions'[s].announced = sessions[s].announced,
           WrittenBack(s) \subseteq WrittenBack(s)'
    PROVE  sessions'[s].announced <=
             (IF sessions'[s].ended THEN 1 ELSE 0)
               + (IF mongo' THEN Cardinality(WrittenBack(s)') ELSE 0)
  <1>1. /\ Cardinality(WrittenBack(s)) \in Nat /\ IsFiniteSet(WrittenBack(s))
    BY WrittenBackFinite
  <1>2. /\ Cardinality(WrittenBack(s)') \in Nat /\ IsFiniteSet(WrittenBack(s)')
    <2>1. IsFiniteSet(WrittenBack(s)')
      <3>1. sessions'[s].overtaken \in SUBSET Requests
        BY DEF TypeInv, TypeOK, SessionType
      <3>2. WrittenBack(s)' \subseteq sessions'[s].overtaken
        BY DEF WrittenBack
      <3>3. QED
        BY <3>1, <3>2, FS_Subset, ConstantsAssumption
    <2>2. QED
      BY <2>1, FS_CardinalityType
  <1>3. Cardinality(WrittenBack(s)) <= Cardinality(WrittenBack(s)')
    BY <1>2, FS_Subset
  <1>4. /\ sessions[s].announced \in Nat
        /\ sessions[s].announced <=
             (IF sessions[s].ended THEN 1 ELSE 0)
               + (IF mongo THEN Cardinality(WrittenBack(s)) ELSE 0)
    BY DEF Counted, TypeInv, TypeOK, SessionType
  <1>5. QED
    BY <1>1, <1>2, <1>3, <1>4

LEMMA AnnounceQuiet ==
    ASSUME TypeInv, TypeInv', AnnounceInv, sessions' = sessions, mongo' = mongo,
           \A q \in Procs : Untouched(q)
    PROVE  AnnounceInv'
  <1>0. /\ Requests \subseteq Procs
        /\ \A q \in Procs : proc[q].s \in Sessions /\ proc'[q].s \in Sessions
        /\ \A s \in Sessions : sessions[s].overtaken \in SUBSET Requests
    BY DEF Procs, TypeInv, TypeOK, ProcType, SessionType
  <1>1. Links'
    BY <1>0 DEF AnnounceInv, Links, Untouched
  <1>2. OvertakenLinks'
    <2> SUFFICES ASSUME NEW q \in Requests
                 PROVE  /\ proc'[q].at = "write" /\ sessions[proc'[q].s].ended
                             => q \in sessions[proc'[q].s].overtaken
                        /\ \A s \in Sessions : q \in sessions[s].overtaken =>
                             /\ proc'[q].at \in {"write", "mark", "done"}
                             /\ proc'[q].at = "write" => proc'[q].s = s
      BY DEF OvertakenLinks
    <2>1. /\ proc[q].at = "write" /\ sessions[proc[q].s].ended
                => q \in sessions[proc[q].s].overtaken
          /\ \A s \in Sessions : q \in sessions[s].overtaken =>
                /\ proc[q].at \in {"write", "mark", "done"}
                /\ proc[q].at = "write" => proc[q].s = s
      BY DEF AnnounceInv, OvertakenLinks
    <2>2. Untouched(q)
      BY <1>0
    <2>3. CASE proc'[q] = proc[q]
      BY <2>1, <2>3
    <2>4. CASE proc[q].at = "mark" /\ proc'[q].at = "done"
      BY <2>1, <2>4
    <2>5. CASE proc[q].at \notin {"write", "mark", "done"}
      BY <2>1, <2>2, <2>5 DEF Untouched
    <2>6. QED
      BY <2>2, <2>3, <2>4, <2>5 DEF Untouched
  <1>3. ASSUME NEW s \in Sessions PROVE WrittenBack(s) \subseteq WrittenBack(s)'
    <2>1. ASSUME NEW q \in WrittenBack(s) PROVE q \in WrittenBack(s)'
      <3>1. q \in Requests /\ q \in sessions[s].overtaken /\ proc[q].at \in {"mark", "done"}
        BY <1>0 DEF WrittenBack, AnnounceInv, OvertakenLinks
      <3>2. proc'[q].at # "write"
        BY <1>0, <3>1 DEF Untouched
      <3>3. QED
        BY <3>1, <3>2 DEF WrittenBack
    <2>2. QED
      BY <2>1
  <1>4. Counted'
    BY <1>3, BoundGrows DEF AnnounceInv, Counted
  <1>5. QED
    BY <1>1, <1>2, <1>4 DEF AnnounceInv

LEMMA AnnounceEnd ==
    ASSUME TypeInv, TypeInv', AnnounceInv,
           NEW p \in Requests, NEW s \in Sessions, EndSession(p, s)
    PROVE  AnnounceInv'
  <1>0. /\ Requests \subseteq Procs /\ mongo' = mongo
        /\ proc \in [Procs -> ProcType] /\ sessions \in [Sessions -> SessionType]
        /\ \A t \in Sessions : sessions[t].overtaken \in SUBSET Requests
        /\ proc[p].at = "idle"
    BY DEF Procs, TypeInv, TypeOK, ProcType, SessionType, EndSession, CanServe
  <1>1. /\ proc'[p].at \in {"closing", "done"}
        /\ \A q \in Procs : q # p => proc'[q] = proc[q]
    <2>1. \/ proc' = [proc EXCEPT ![p] = Served]
          \/ proc' = [proc EXCEPT ![p] = Taking("end", s, None)]
      BY DEF EndSession, StopSession, TakeStream
    <2>2. QED
      BY <1>0, <2>1 DEF Served, Taking, Idle
  <1>2. \A t \in Sessions : sessions'[t] = IF t = s THEN Ended(s) ELSE sessions[t]
    BY <1>0 DEF EndSession
  <1>3. /\ Ended(s).ended
        /\ Ended(s).overtaken = IF sessions[s].ended THEN sessions[s].overtaken
                                ELSE sessions[s].overtaken \cup Linking(s)
        /\ Ended(s).announced = sessions[s].announced + IF sessions[s].ended THEN 0 ELSE 1
    BY <1>0 DEF Ended, SessionType
  <1>4. Links'
    BY <1>0, <1>1 DEF AnnounceInv, Links
  <1>5. \A t \in Sessions : p \notin sessions[t].overtaken /\ p \notin Linking(t)
    BY <1>0 DEF AnnounceInv, OvertakenLinks, Linking
  <1>6. OvertakenLinks'
    <2> SUFFICES ASSUME NEW q \in Requests
                 PROVE  /\ proc'[q].at = "write" /\ sessions'[proc'[q].s].ended
                             => q \in sessions'[proc'[q].s].overtaken
                        /\ \A t \in Sessions : q \in sessions'[t].overtaken =>
                             /\ proc'[q].at \in {"write", "mark", "done"}
                             /\ proc'[q].at = "write" => proc'[q].s = t
      BY DEF OvertakenLinks
    <2>1. CASE q = p
      BY <1>1, <1>2, <1>3, <1>5, <2>1
    <2>2. CASE q # p
      <3>1. proc'[q] = proc[q] /\ proc[q].s \in Sessions
        BY <1>0, <1>1, <2>2 DEF ProcType
      <3>2. proc[q].at = "write" /\ sessions'[proc[q].s].ended
              => q \in sessions'[proc[q].s].overtaken
        BY <1>2, <1>3, <3>1 DEF AnnounceInv, OvertakenLinks, Linking
      <3>3. ASSUME NEW t \in Sessions, q \in sessions'[t].overtaken
            PROVE  /\ proc[q].at \in {"write", "mark", "done"}
                   /\ proc[q].at = "write" => proc[q].s = t
        BY <1>2, <1>3, <3>3 DEF AnnounceInv, OvertakenLinks, Linking
      <3>4. QED
        BY <3>1, <3>2, <3>3
    <2>3. QED
      BY <2>1, <2>2
  <1>7. ASSUME NEW t \in Sessions PROVE WrittenBack(t)' = WrittenBack(t)
    <2>1. \A q \in Requests : q # p => proc'[q] = proc[q]
      BY <1>0, <1>1
    <2>2. sessions'[t].overtaken \cap Linking(t) \subseteq {q \in Requests : proc'[q].at = "write"}
      BY <1>5, <2>1 DEF Linking
    <2>3. QED
      BY <1>0, <1>2, <1>3, <1>5, <2>1, <2>2 DEF WrittenBack, Linking
  <1>8. Counted'
    <2> SUFFICES ASSUME NEW t \in Sessions
                 PROVE  sessions'[t].announced <=
                          (IF sessions'[t].ended THEN 1 ELSE 0)
                            + (IF mongo' THEN Cardinality(WrittenBack(t)') ELSE 0)
      BY DEF Counted
    <2>1. CASE sessions'[t] = sessions[t]
      BY <2>1, <1>0, <1>7, BoundGrows DEF AnnounceInv
    <2>2. CASE t = s /\ ~sessions[s].ended
      <3>1. /\ sessions[s].announced \in Nat /\ Cardinality(WrittenBack(s)) \in Nat
            /\ sessions[s].announced <= 0 + (IF mongo THEN Cardinality(WrittenBack(s)) ELSE 0)
        BY <1>0, <2>2, WrittenBackFinite DEF AnnounceInv, Counted, SessionType
      <3>2. sessions'[s].ended /\ sessions'[s].announced = sessions[s].announced + 1
        BY <1>2, <1>3, <2>2
      <3>3. QED
        BY <1>0, <1>7, <2>2, <3>1, <3>2
    <2>3. QED
      BY <1>2, <2>1, <2>2 DEF Ended
  <1>9. QED
    BY <1>4, <1>6, <1>8 DEF AnnounceInv

LEMMA AnnounceWrite ==
    ASSUME TypeInv, TypeInv', AnnounceInv, NEW p \in Procs, LinkWrite(p)
    PROVE  AnnounceInv'
  <1> DEFINE s == proc[p].s
  <1>0. /\ Requests \subseteq Procs /\ mongo' = mongo /\ mongo \in BOOLEAN
        /\ proc \in [Procs -> ProcType] /\ sessions \in [Sessions -> SessionType]
        /\ \A t \in Sessions : sessions[t].overtaken \in SUBSET Requests
        /\ proc[p].at = "write" /\ s \in Sessions
    BY DEF Procs, TypeInv, TypeOK, ProcType, SessionType, LinkWrite
  <1>1. /\ proc'[p].at \in {"mark", "done"} /\ p \in Requests
        /\ \A q \in Procs : q # p => proc'[q] = proc[q]
    <2>1. \/ proc' = [proc EXCEPT ![p] = Served]
          \/ proc' = [proc EXCEPT ![p].at = "mark"]
      BY DEF LinkWrite
    <2>2. Served.at = "done"
      BY DEF Served, Idle
    <2>3. QED
      BY <1>0, <2>1, <2>2 DEF ProcType, AnnounceInv, Links
  <1>2. \A t \in Sessions : sessions'[t] = IF t = s THEN Written(p) ELSE sessions[t]
    BY <1>0 DEF LinkWrite
  <1>3. /\ Written(p).ended = (sessions[s].ended /\ ~mongo)
        /\ Written(p).overtaken = sessions[s].overtaken
        /\ Written(p).announced = sessions[s].announced
    BY <1>0 DEF Written, SessionType
  <1> HIDE DEF s
  <1>4. Links'
    BY <1>0, <1>1 DEF AnnounceInv, Links
  <1>5. OvertakenLinks'
    <2> SUFFICES ASSUME NEW q \in Requests
                 PROVE  /\ proc'[q].at = "write" /\ sessions'[proc'[q].s].ended
                             => q \in sessions'[proc'[q].s].overtaken
                        /\ \A t \in Sessions : q \in sessions'[t].overtaken =>
                             /\ proc'[q].at \in {"write", "mark", "done"}
                             /\ proc'[q].at = "write" => proc'[q].s = t
      BY DEF OvertakenLinks
    <2>1. CASE q = p
      BY <1>1, <2>1
    <2>2. CASE q # p
      <3>1. proc'[q] = proc[q] /\ proc[q].s \in Sessions
        BY <1>0, <1>1, <2>2 DEF ProcType
      <3>2. \A t \in Sessions : /\ sessions'[t].overtaken = sessions[t].overtaken
                                /\ sessions'[t].ended => sessions[t].ended
        BY <1>2, <1>3
      <3>3. QED
        BY <3>1, <3>2 DEF AnnounceInv, OvertakenLinks
    <2>3. QED
      BY <2>1, <2>2
  <1>6. ASSUME NEW t \in Sessions
        PROVE  WrittenBack(t)' = IF p \in sessions[t].overtaken
                                 THEN WrittenBack(t) \cup {p} ELSE WrittenBack(t)
    <2>1. sessions'[t].overtaken = sessions[t].overtaken
      BY <1>2, <1>3
    <2>2. \A q \in sessions[t].overtaken : q # p => proc'[q] = proc[q]
      BY <1>0, <1>1
    <2>3. QED
      BY <1>0, <1>1, <2>1, <2>2 DEF WrittenBack
  <1>7. Counted'
    <2> SUFFICES ASSUME NEW t \in Sessions
                 PROVE  sessions'[t].announced <=
                          (IF sessions'[t].ended THEN 1 ELSE 0)
                            + (IF mongo' THEN Cardinality(WrittenBack(t)') ELSE 0)
      BY DEF Counted
    <2>1. CASE sessions'[t].ended = sessions[t].ended
      <3>1. WrittenBack(t) \subseteq WrittenBack(t)'
        BY <1>6
      <3>2. sessions'[t].announced = sessions[t].announced
        BY <1>2, <1>3
      <3>3. QED
        BY <1>0, <2>1, <3>1, <3>2, BoundGrows DEF AnnounceInv
    <2>2. CASE sessions'[t].ended # sessions[t].ended
      <3>1. t = s /\ sessions[t].ended /\ mongo /\ ~sessions'[t].ended
            /\ sessions'[t].announced = sessions[t].announced
        BY <1>0, <1>2, <1>3, <2>2 DEF SessionType
      <3>2. p \in sessions[t].overtaken
        BY <1>0, <1>1, <3>1 DEF AnnounceInv, OvertakenLinks, s
      <3>3. p \notin WrittenBack(t) /\ IsFiniteSet(WrittenBack(t))
        BY <1>0, WrittenBackFinite DEF WrittenBack
      <3>4. WrittenBack(t)' = WrittenBack(t) \cup {p}
        BY <1>6, <3>2
      <3>5. Cardinality(WrittenBack(t) \cup {p}) = Cardinality(WrittenBack(t)) + 1
        BY <3>3, FS_AddElement
      <3>6. /\ sessions[t].announced \in Nat /\ Cardinality(WrittenBack(t)) \in Nat
            /\ sessions[t].announced <= 1 + Cardinality(WrittenBack(t))
        BY <1>0, <3>1, WrittenBackFinite DEF AnnounceInv, Counted, SessionType
      <3>7. Cardinality(WrittenBack(t)') = Cardinality(WrittenBack(t)) + 1
        BY <3>4, <3>5
      <3>8. QED
        BY <1>0, <3>1, <3>6, <3>7
    <2>3. QED
      BY <2>1, <2>2
  <1>8. QED
    BY <1>4, <1>5, <1>7 DEF AnnounceInv

(* However many end requests, links and webhooks interleave, session.ended *)
(* is published once for a session of the memory, and from MongoDB once    *)
(* more at most for each link that its end overtook.                       *)
THEOREM AnnouncementsBounded == Spec => []AnnouncedOnce
  <1>1. Init => AnnounceInv
    <2> SUFFICES ASSUME Init PROVE AnnounceInv
      OBVIOUS
    <2>1. /\ \A s \in Sessions : sessions[s].announced = 0 /\ sessions[s].overtaken = {}
                                 /\ sessions[s].ended = FALSE
          /\ \A p \in Procs : proc[p].at = "idle"
      BY DEF Init, Idle
    <2>2. Links /\ OvertakenLinks
      BY <2>1 DEF Links, OvertakenLinks, Procs
    <2>3. ASSUME NEW s \in Sessions PROVE WrittenBack(s) = {}
      BY <2>1 DEF WrittenBack
    <2>4. QED
      BY <2>1, <2>2, <2>3, FS_EmptySet DEF AnnounceInv, Counted
  <1>2. TypeInv /\ TypeInv' /\ AnnounceInv /\ [Next]_vars => AnnounceInv'
    <2> SUFFICES ASSUME TypeInv, TypeInv', AnnounceInv, [Next]_vars
                 PROVE  AnnounceInv'
      OBVIOUS
    <2>1. CASE UNCHANGED vars
      BY <2>1, AnnounceQuiet DEF vars, Untouched
    <2>2. CASE Next /\ \E p \in Requests, s \in Sessions : EndSession(p, s)
      BY <2>2, AnnounceEnd
    <2>3. CASE Next /\ \E p \in Procs : LinkWrite(p)
      BY <2>3, AnnounceWrite
    <2>4. CASE /\ Next
               /\ \A p \in Requests, s \in Sessions : ~EndSession(p, s)
               /\ \A p \in Procs : ~LinkWrite(p)
      BY <2>4, LinksLeftAlone, AnnounceQuiet, MongoKept
    <2>5. QED
      BY <2>1, <2>2, <2>3, <2>4
  <1>3. TypeInv /\ AnnounceInv => AnnouncedOnce
    <2> SUFFICES ASSUME TypeInv, AnnounceInv, NEW s \in Sessions
                 PROVE  sessions[s].announced <=
                          1 + IF mongo THEN Cardinality(sessions[s].overtaken) ELSE 0
      BY DEF AnnouncedOnce
    <2>1. /\ sessions[s].announced \in Nat
          /\ sessions[s].announced <=
               (IF sessions[s].ended THEN 1 ELSE 0)
                 + (IF mongo THEN Cardinality(WrittenBack(s)) ELSE 0)
      BY DEF AnnounceInv, Counted, TypeInv, TypeOK, SessionType
    <2>2. QED
      BY <2>1, WrittenBackFinite
  <1>4. QED
    BY <1>1, <1>2, <1>3, InitType, StepType, PTL DEF Spec

-----------------------------------------------------------------------------
(* A request that has not finished has not built a stream, so launching    *)
(* its stream overwrites no other.                                         *)
FreshUnused ==
    \A p \in Requests : proc[p].at # "done" => streams[p].phase = "unused"

SlotInv == SlotIsLive /\ FreshUnused

LEMMA LinkFrame ==
    ASSUME TypeInv, NEW p \in Procs, LinkWrite(p) \/ LinkMark(p)
    PROVE  /\ UNCHANGED streams
           /\ \A s \in Sessions : states'[s].stream = states[s].stream
           /\ proc[p].at \in {"write", "mark"}
           /\ \E r : /\ proc' = [proc EXCEPT ![p] = r]
                    /\ r.at \in {"mark", "done"}
  <1>1. proc[p] \in ProcType /\ proc[p].s \in Sessions /\ states \in [Sessions -> StateType]
    BY DEF TypeInv, TypeOK, ProcType
  <1>2. /\ UNCHANGED streams /\ proc[p].at \in {"write", "mark"}
        /\ \E status : states' = [states EXCEPT ![proc[p].s].status = status]
    BY DEF LinkWrite, LinkMark
  <1>3. proc' \in {[proc EXCEPT ![p].at = "mark"],
                  [proc EXCEPT ![p] = Served]}
    BY DEF LinkWrite, LinkMark
  <1>4. \E r : /\ proc' = [proc EXCEPT ![p] = r]
              /\ r.at \in {"mark", "done"}
    <2>1. Served.at = "done"
      BY DEF Served, Idle
    <2>2. CASE proc' = [proc EXCEPT ![p] = Served]
      BY <2>1, <2>2
    <2>3. CASE proc' = [proc EXCEPT ![p].at = "mark"]
      <3>1. proc' = [proc EXCEPT ![p] = [proc[p] EXCEPT !.at = "mark"]]
        BY <2>3
      <3>2. [proc[p] EXCEPT !.at = "mark"].at = "mark"
        BY <1>1 DEF ProcType
      <3>3. QED
        BY <3>1, <3>2
    <2>4. QED
      BY <1>3, <2>2, <2>3
  <1>5. \A s \in Sessions : states'[s].stream = states[s].stream
    BY <1>1, <1>2 DEF StateType
  <1>6. QED
    BY <1>2, <1>4, <1>5

LEMMA CloseFrame ==
    ASSUME TypeInv, NEW p \in Procs, CloseStream(p)
    PROVE  /\ UNCHANGED states
           /\ \A x \in Requests : /\ streams'[x].s = streams[x].s
                                  /\ streams'[x].raced = streams[x].raced
                                  /\ Live(x)' <=> Live(x)
                                  /\ streams'[x].phase = "unused"
                                        <=> streams[x].phase = "unused"
           /\ proc[p].at = "closing" /\ proc' = [proc EXCEPT ![p].at = "joining"]
  <1> DEFINE x == proc[p].old
             phase == CASE streams[x].phase = "connecting" -> "aborting"
                        [] streams[x].phase = "streaming" -> "closing"
                        [] OTHER -> streams[x].phase
  <1>1. /\ UNCHANGED states /\ streams' = [streams EXCEPT ![x].phase = phase]
        /\ proc[p].at = "closing" /\ proc' = [proc EXCEPT ![p].at = "joining"]
    BY DEF CloseStream
  <1>2. /\ phase = "unused" <=> streams[x].phase = "unused"
        /\ phase = "closed" <=> streams[x].phase = "closed"
    OBVIOUS
  <1>3. streams \in [Requests -> StreamType]
    BY DEF TypeInv, TypeOK
  <1> HIDE DEF x, phase
  <1>4. QED
    <2>1. \A y \in Requests : y # x => streams'[y] = streams[y]
      BY <1>1, <1>3
    <2>2. x \in Requests =>
            /\ streams'[x].s = streams[x].s /\ streams'[x].raced = streams[x].raced
            /\ streams'[x].phase = phase
      BY <1>1, <1>3 DEF StreamType
    <2>3. ASSUME NEW y \in Requests
          PROVE  /\ streams'[y].s = streams[y].s
                 /\ streams'[y].raced = streams[y].raced
                 /\ Live(y)' <=> Live(y)
                 /\ streams'[y].phase = "unused" <=> streams[y].phase = "unused"
      <3>1. CASE y = x
        BY <1>2, <2>2, <3>1 DEF Live
      <3>2. CASE y # x
        BY <2>1, <3>2 DEF Live
      <3>3. QED
        BY <3>1, <3>2
    <2>4. QED
      BY <1>1, <2>3

LEMMA ResumeFrame ==
    ASSUME TypeInv, NEW p \in Procs, ResumeStop(p)
    PROVE  /\ UNCHANGED streams
           /\ \A s \in Sessions : states'[s].stream = states[s].stream
           /\ proc[p].at = "joining" /\ streams[proc[p].old].phase = "closed"
           /\ \E r : proc' = [proc EXCEPT ![p] = r] /\ r.at \in {"idle", "done"}
  <1>1. proc[p].s \in Sessions /\ states \in [Sessions -> StateType]
    BY DEF TypeInv, TypeOK, ProcType
  <1>2. /\ UNCHANGED streams
        /\ proc[p].at = "joining" /\ streams[proc[p].old].phase = "closed"
        /\ states' = [states EXCEPT ![proc[p].s].status = "stopped"]
    BY DEF ResumeStop, Joined
  <1>3. \E r : proc' = [proc EXCEPT ![p] = r] /\ r.at \in {"idle", "done"}
    <2>1. /\ Idle.at = "idle"
          /\ Served.at = "done"
      BY DEF Served, Idle
    <2>2. proc' \in {[proc EXCEPT ![p] = Idle],
                    [proc EXCEPT ![p] = Served]}
      BY DEF ResumeStop
    <2> HIDE DEF Served, Idle
    <2>3. QED
      BY <2>1, <2>2
  <1>4. \A s \in Sessions : states'[s].stream = states[s].stream
    BY <1>1, <1>2 DEF StateType
  <1>5. QED
    BY <1>2, <1>3, <1>4

LEMMA SlotFrame ==
    ASSUME TypeInv, SlotInv, UNCHANGED streams,
           \A s \in Sessions : states'[s].stream = states[s].stream,
           NEW p \in Procs, NEW r, proc' = [proc EXCEPT ![p] = r], proc[p].at # "done"
    PROVE  SlotInv'
  <1>1. SlotIsLive'
    BY DEF SlotInv, SlotIsLive, Live
  <1>2. \A q \in Procs : q # p => proc'[q] = proc[q]
    BY DEF TypeInv, TypeOK
  <1>3. FreshUnused'
    BY <1>2 DEF SlotInv, FreshUnused, Procs
  <1>4. QED
    BY <1>1, <1>3 DEF SlotInv

LEMMA SlotStep == TypeInv /\ SlotInv /\ [Next]_vars => SlotInv'
  <1> SUFFICES ASSUME TypeInv, SlotInv, [Next]_vars PROVE SlotInv'
    OBVIOUS
  <1> USE ConstantsAssumption DEF SlotInv, SlotIsLive, FreshUnused, Live, Procs,
          TypeInv, TypeOK
  <1>1. ASSUME NEW p \in Requests, NEW s \in Sessions,
               NEW m \in Meetings, LinkCheck(p, s, m)
        PROVE  SlotInv'
    BY <1>1 DEF LinkCheck, CanServe, Idle
  <1>2. ASSUME NEW p \in Requests, NEW m \in Meetings,
               NEW id \in StreamIds, StartedIgnored(p, m, id)
        PROVE  SlotInv'
    BY <1>2 DEF StartedIgnored, CanServe
  <1>3. ASSUME NEW p \in Requests, NEW s \in Sessions, NEW m \in Meetings,
               NEW id \in StreamIds, StartedFresh(p, s, m, id)
        PROVE  SlotInv'
    BY <1>3 DEF StartedFresh, CanServe, Launch, StateType, StreamType, Served, Idle
  <1>4. ASSUME NEW p \in Requests, NEW s \in Sessions, NEW m \in Meetings,
               NEW id \in StreamIds, StartedReplacing(p, s, m, id)
        PROVE  SlotInv'
    BY <1>4 DEF StartedReplacing, CanServe, TakeStream, StateType, Taking, Idle
  <1>5. ASSUME NEW p \in Requests, NEW id \in StreamIds, StoppedIgnored(p, id)
        PROVE  SlotInv'
    BY <1>5 DEF StoppedIgnored, CanServe
  <1>6. ASSUME NEW p \in Requests, NEW s \in Sessions,
               NEW id \in StreamIds, StoppedMatching(p, s, id)
        PROVE  SlotInv'
    <2>1. /\ streams' = streams /\ proc[p].at = "idle"
          /\ \A t \in Sessions : states'[t].stream \in {states[t].stream, None}
      BY <1>6 DEF StoppedMatching, CanServe, TakeStream, StateType
    <2>2. \A q \in Procs : q # p => proc'[q] = proc[q]
      BY <1>6 DEF StoppedMatching, TakeStream
    <2>3. QED
      BY <2>1, <2>2
  <1>7. ASSUME NEW p \in Requests, NEW s \in Sessions, EndSession(p, s)
        PROVE  SlotInv'
    BY <1>7 DEF EndSession, StopSession, CanServe, TakeStream, StateType, Taking, Idle
  <1>8. ASSUME NEW p \in Procs, LinkWrite(p)
        PROVE  SlotInv'
    BY <1>8, LinkFrame, SlotFrame
  <1>9. ASSUME NEW p \in Procs, LinkMark(p)
        PROVE  SlotInv'
    BY <1>9, LinkFrame, SlotFrame
  <1>10. ASSUME NEW p \in Procs, CloseStream(p)
        PROVE  SlotInv'
    BY <1>10 DEF CloseStream, StreamType, ProcType
  <1>11. ASSUME NEW p \in Procs, ResumeStarted(p)
        PROVE  SlotInv'
    BY <1>11 DEF ResumeStarted, Joined, Launch, StateType, StreamType, ProcType, Served, Idle, ResumesRequest
  <1>12. ASSUME NEW p \in Procs, ResumeStop(p)
        PROVE  SlotInv'
    BY <1>12, ResumeFrame, SlotFrame
  <1>13. ASSUME NEW p \in Procs, ReapSession(p)
        PROVE  SlotInv'
    BY <1>13 DEF ReapSession, StopSession, TakeStream, StateType
  <1>14. ASSUME ShutdownBegin
        PROVE  SlotInv'
    BY <1>14 DEF ShutdownBegin
  <1>15. ASSUME NEW s \in Sessions, ShutdownVisit(s)
        PROVE  SlotInv'
    BY <1>15 DEF ShutdownVisit, TakeStream, StateType
  <1>16. ASSUME ShutdownResume
        PROVE  SlotInv'
    BY <1>16 DEF ShutdownResume
  <1>17. ASSUME ShutdownEnd
        PROVE  SlotInv'
    BY <1>17 DEF ShutdownEnd
  <1>18. ASSUME NEW x \in Requests, StreamConnected(x)
        PROVE  SlotInv'
    <2>1. streams[x].s \in Sessions
      BY DEF StreamType
    <2>2. \A s \in Sessions : states'[s].stream = states[s].stream
      BY <1>18, <2>1 DEF StreamConnected, StateType
    <2>3. \A y \in Requests : /\ streams'[y].s = streams[y].s
                             /\ streams'[y].phase = IF y = x THEN "streaming"
                                                    ELSE streams[y].phase
      BY <1>18 DEF StreamConnected, StreamType
    <2>4. proc' = proc /\ streams[x].phase = "connecting"
      BY <1>18 DEF StreamConnected
    <2>5. QED
      BY <2>2, <2>3, <2>4 DEF StateType
  <1>19. ASSUME NEW x \in Requests, StreamEnds(x)
        PROVE  SlotInv'
    <2>1. streams[x].s \in Sessions
      BY DEF StreamType
    <2>2. PICK status \in EndStatus(x) :
            states' = [states EXCEPT ![streams[x].s] = Release([@ EXCEPT !.status = status], x)]
      BY <1>19 DEF StreamEnds
    <2>3. \A s \in Sessions : states'[s].stream =
             IF s = streams[x].s /\ states[s].stream = x THEN None ELSE states[s].stream
      BY <2>1, <2>2 DEF Release, StateType
    <2>4. \A y \in Requests : /\ streams'[y].s = streams[y].s
                             /\ streams'[y].phase = IF y = x THEN "closed"
                                                    ELSE streams[y].phase
      BY <1>19 DEF StreamEnds, StreamType
    <2>5. proc' = proc /\ Live(x)
      BY <1>19 DEF StreamEnds, CanEnd
    <2>6. FreshUnused'
      BY <2>4, <2>5
    <2>7. ASSUME NEW s \in Sessions, states'[s].stream # None
          PROVE  (Live(states[s].stream) /\ streams[states[s].stream].s = s)'
      <3>1. /\ states'[s].stream = states[s].stream /\ states[s].stream \in Requests
            /\ streams[states[s].stream].s = s /\ Live(states[s].stream)
        BY <2>3, <2>7 DEF StateType
      <3>2. states[s].stream # x
        BY ONLY <2>3, <2>7, <3>1
      <3>3. /\ streams'[states[s].stream].s = s
            /\ streams'[states[s].stream].phase = streams[states[s].stream].phase
        BY ONLY <2>4, <3>1, <3>2
      <3>4. QED
        BY ONLY <3>1, <3>3 DEF Live
    <2>8. QED
      BY <2>6, <2>7
  <1>20. ASSUME NEW x \in Requests, NEW r \in Reapers, LateTranscript(x, r)
        PROVE  SlotInv'
    BY <1>20 DEF LateTranscript
  <1>21. CASE UNCHANGED vars
    BY <1>21 DEF vars
  <1>22. QED
    BY <1>1, <1>2, <1>3, <1>4, <1>5, <1>6, <1>7, <1>8, <1>9, <1>10,
       <1>11, <1>12, <1>13, <1>14, <1>15, <1>16, <1>17, <1>18, <1>19, <1>20, <1>21, Steps

(* A session's slot holds None or a stream of that session whose task runs *)
(* - also when webhooks, links, the end route and stop tasks overlap - so  *)
(* rtms_started never takes a dead stream for one that is running.         *)
THEOREM SlotHoldsLiveStream == Spec => []SlotIsLive
  <1>1. Init => SlotInv
    BY DEF Init, SlotInv, SlotIsLive, FreshUnused
  <1>2. SlotInv => SlotIsLive
    BY DEF SlotInv
  <1>3. QED
    BY <1>1, <1>2, InitType, StepType, SlotStep, PTL DEF Spec

-----------------------------------------------------------------------------
(* A handler that waits has taken a stream of its session.                 *)
HeldStreams ==
    \A p \in Procs : Stopping(p) =>
        /\ proc[p].old \in Requests
        /\ streams[proc[p].old].s = proc[p].s
        /\ streams[proc[p].old].phase # "unused"

(* A waiting rtms_started finds the slot as it left it, empty, or holding  *)
(* a stream that raced it.                                                 *)
WaitingSlot ==
    \A p \in Procs :
        Stopping(p) /\ proc[p].kind = "started" =>
            \/ states[proc[p].s].stream = None
            \/ streams[states[proc[p].s].stream].raced

OverlapInv == HeldStreams /\ WaitingSlot /\ NoOrphan

LEMMA TakeKeeps ==
    ASSUME TypeInv, SlotInv, HeldStreams, WaitingSlot, NoOrphan,
           NEW p \in Procs, NEW s \in Sessions, NEW kind, NEW id,
           ~Stopping(p), states[s].stream # None, TakeStream(p, kind, s, id)
    PROVE  HeldStreams' /\ WaitingSlot' /\ NoOrphan'
  <1>0. /\ \A t \in Sessions : states'[t].stream = IF t = s THEN None ELSE states[t].stream
        /\ streams' = streams
    BY DEF TakeStream, TypeInv, TypeOK, StateType
  <1>1. /\ proc' = [proc EXCEPT ![p] = Taking(kind, s, id)]
        /\ Taking(kind, s, id).at = "closing"
        /\ Taking(kind, s, id).s = s
        /\ Taking(kind, s, id).old = states[s].stream
    BY DEF TakeStream, Taking, Idle
  <1>2. /\ \A q \in Procs : q # p => proc'[q] = proc[q]
        /\ proc'[p] = Taking(kind, s, id)
    BY <1>1 DEF TypeInv, TypeOK
  <1>3. HeldStreams'
    BY <1>0, <1>1, <1>2 DEF HeldStreams, Stopping, SlotInv, SlotIsLive, Live, TypeInv, TypeOK, StateType
  <1>4. WaitingSlot'
    BY <1>0, <1>1, <1>2 DEF WaitingSlot, Stopping, TypeInv, TypeOK, ProcType
  <1>5. NoOrphan'
    BY <1>0, <1>1, <1>2 DEF NoOrphan, Live, Holds, Stopping, TypeInv, TypeOK, StreamType
  <1>6. QED
    BY <1>3, <1>4, <1>5

LEMMA QuietKeeps ==
    ASSUME TypeInv, HeldStreams, WaitingSlot, NoOrphan,
           NEW p \in Procs, NEW r, ~Stopping(p), r.at \notin {"closing", "joining"},
           proc' = [proc EXCEPT ![p] = r], UNCHANGED streams,
           \A s \in Sessions : states'[s].stream = states[s].stream
    PROVE  HeldStreams' /\ WaitingSlot' /\ NoOrphan'
  <1>1. \A q \in Procs : Stopping(q)' <=> Stopping(q)
    BY DEF Stopping, TypeInv, TypeOK
  <1>2. \A q \in Procs : Stopping(q) => proc'[q] = proc[q]
    BY DEF TypeInv, TypeOK
  <1>3. HeldStreams'
    BY <1>1, <1>2 DEF HeldStreams
  <1>4. WaitingSlot'
    BY <1>1, <1>2 DEF WaitingSlot, Stopping, TypeInv, TypeOK, ProcType
  <1>5. \A q \in Procs, x \in Requests : Holds(q, x) => Holds(q, x)'
    BY <1>1, <1>2 DEF Holds
  <1>6. NoOrphan'
    BY <1>5 DEF NoOrphan, Live, TypeInv, TypeOK, StreamType
  <1>7. QED
    BY <1>3, <1>4, <1>6

(* A launch overwrites nothing, or a stream that raced the handler that    *)
(* launches; the new stream races whoever waits still.                     *)
LEMMA LaunchKeeps ==
    ASSUME TypeInv, SlotInv, OverlapInv, NEW p \in Requests, NEW s \in Sessions, NEW id,
           Launch(p, s, id), proc[p].at # "done",
           \/ ~Stopping(p) /\ states[s].stream = None
           \/ Waiting(p, s) /\ streams[proc[p].old].phase = "closed"
    PROVE  OverlapInv'
  <1>0. /\ p \in Procs /\ Requests \subseteq Procs /\ None \notin Requests
        /\ proc \in [Procs -> ProcType] /\ streams \in [Requests -> StreamType]
        /\ states \in [Sessions -> StateType]
    BY ConstantsAssumption DEF Procs, TypeInv, TypeOK
  <1>1. /\ \A q \in Procs : proc'[q] = IF q = p THEN Served ELSE proc[q]
        /\ Served.at = "done"
        /\ \A u \in Sessions : states'[u].stream = IF u = s THEN p ELSE states[u].stream
        /\ \A x \in Requests : x # p => streams'[x] = streams[x]
        /\ streams'[p].s = s
        /\ streams'[p].raced <=> \E q \in Requests \ {p} : Waiting(q, s)
    BY <1>0 DEF Launch, Served, Idle
  <1>2. streams[p].phase = "unused" /\ ~Live(p)
    BY DEF SlotInv, FreshUnused, Live
  <1>3. \A q \in Procs : Stopping(q)' <=> q # p /\ Stopping(q)
    BY <1>1 DEF Stopping
  <1>4. HeldStreams'
    <2>1. ASSUME NEW q \in Procs, q # p, Stopping(q)
          PROVE  proc[q].old \in Requests /\ proc[q].old # p
      BY <1>2, <2>1 DEF OverlapInv, HeldStreams
    <2>2. QED
      BY <1>1, <1>3, <2>1 DEF OverlapInv, HeldStreams
  <1>5. WaitingSlot'
    <2> SUFFICES ASSUME NEW q \in Procs, q # p, Stopping(q), proc[q].kind = "started"
                 PROVE  \/ states'[proc[q].s].stream = None
                        \/ streams'[states'[proc[q].s].stream].raced
      BY <1>1, <1>3 DEF WaitingSlot
    <2>1. q \in Requests /\ proc[q].s \in Sessions
      BY <1>0 DEF TypeInv, ResumesRequest, ProcType
    <2>2. CASE proc[q].s = s
      BY <1>1, <2>1, <2>2 DEF Waiting
    <2>3. CASE proc[q].s # s
      <3> DEFINE x == states[proc[q].s].stream
      <3>1. states'[proc[q].s].stream = x
        BY <1>1, <2>1, <2>3
      <3>2. x # None => x \in Requests /\ x # p
        BY <1>0, <1>2, <2>1 DEF SlotInv, SlotIsLive, StateType
      <3>3. x = None \/ streams[x].raced
        BY DEF OverlapInv, WaitingSlot
      <3> HIDE DEF x
      <3>4. QED
        BY <1>1, <3>1, <3>2, <3>3
    <2>4. QED
      BY <2>2, <2>3
  <1>6. NoOrphan'
    <2> SUFFICES ASSUME NEW x \in Requests, Live(x)'
                 PROVE  \/ states'[streams'[x].s].stream = x
                        \/ \E q \in Procs : Holds(q, x)'
                        \/ streams'[x].raced
      BY DEF NoOrphan
    <2>1. CASE x = p
      BY <1>1, <2>1
    <2>2. CASE x # p
      <3>1. Live(x) /\ streams'[x] = streams[x] /\ streams[x].s \in Sessions
        BY <1>0, <1>1, <2>2 DEF Live, StreamType
      <3>2. ASSUME NEW q \in Procs, Holds(q, x)
            PROVE  \E r \in Procs : Holds(r, x)'
        <4>1. q # p
          BY <3>1, <3>2 DEF Holds, Waiting, Live
        <4>2. QED
          BY <1>1, <1>3, <3>2, <4>1 DEF Holds
      <3>3. CASE states[streams[x].s].stream = x /\ streams[x].s # s
        BY <1>1, <3>1, <3>3
      <3>4. CASE states[streams[x].s].stream = x /\ streams[x].s = s
        <4>1. Waiting(p, s)
          BY <1>0, <3>4
        <4>2. streams[x].raced
          BY <1>0, <3>4, <4>1 DEF OverlapInv, WaitingSlot, Waiting
        <4>3. QED
          BY <3>1, <4>2
      <3>5. QED
        BY <3>1, <3>2, <3>3, <3>4 DEF OverlapInv, NoOrphan
    <2>3. QED
      BY <2>1, <2>2
  <1>7. QED
    BY <1>4, <1>5, <1>6 DEF OverlapInv

LEMMA OverlapStep == TypeInv /\ SlotInv /\ OverlapInv /\ [Next]_vars => OverlapInv'
  <1> SUFFICES ASSUME TypeInv, SlotInv, OverlapInv, [Next]_vars PROVE OverlapInv'
    OBVIOUS
  <1>0. /\ Requests \subseteq Procs /\ Reapers \subseteq Procs /\ Lifespan \in Procs
        /\ proc \in [Procs -> ProcType] /\ streams \in [Requests -> StreamType]
        /\ states \in [Sessions -> StateType]
        /\ \A p \in Procs : proc[p].s \in Sessions
        /\ \A x \in Requests : streams[x].s \in Sessions
        /\ \A s \in Sessions : states[s].stream \in Requests \cup {None}
    BY DEF Procs, TypeInv, TypeOK, ProcType, StreamType, StateType
  <1>01. /\ Served.at = "done" /\ Idle.at = "idle"
         /\ \A kind, s, id : Taking(kind, s, id).at = "closing"
    BY DEF Served, Idle, Taking
  <1>02. ASSUME NEW p \in Procs, proc[p].at \in {"idle", "write", "mark", "start", "loop"}
         PROVE  ~Stopping(p)
    BY <1>02 DEF Stopping
  <1>1. ASSUME NEW p \in Requests, NEW s \in Sessions,
               NEW m \in Meetings, LinkCheck(p, s, m)
        PROVE  OverlapInv'
    <2>1. PICK r : /\ proc' = [proc EXCEPT ![p] = r] /\ r.at = "write" /\ proc[p].at = "idle"
                   /\ UNCHANGED <<states, streams>>
      BY <1>1 DEF LinkCheck, CanServe, Idle
    <2>2. QED
      BY <1>0, <1>02, <2>1, QuietKeeps DEF OverlapInv
  <1>2. ASSUME NEW p \in Requests, NEW id \in StreamIds,
               StoppedIgnored(p, id) \/ \E m \in Meetings : StartedIgnored(p, m, id)
        PROVE  OverlapInv'
    <2>1. /\ proc' = [proc EXCEPT ![p] = Served] /\ proc[p].at = "idle"
          /\ UNCHANGED <<states, streams>>
      BY <1>2 DEF StartedIgnored, StoppedIgnored, CanServe
    <2>2. QED
      BY <1>0, <1>01, <1>02, <2>1, QuietKeeps DEF OverlapInv
  <1>3. ASSUME NEW p \in Requests, NEW s \in Sessions, NEW m \in Meetings,
               NEW id \in StreamIds, StartedFresh(p, s, m, id)
        PROVE  OverlapInv'
    <2>1. Launch(p, s, id) /\ proc[p].at = "idle" /\ states[s].stream = None
      BY <1>3 DEF StartedFresh, CanServe
    <2>2. QED
      BY <1>0, <1>02, <2>1, LaunchKeeps
  <1>4. ASSUME NEW p \in Requests, NEW s \in Sessions, NEW m \in Meetings,
               NEW id \in StreamIds, StartedReplacing(p, s, m, id)
        PROVE  OverlapInv'
    <2>1. TakeStream(p, "started", s, id) /\ proc[p].at = "idle" /\ states[s].stream # None
      BY <1>4 DEF StartedReplacing, CanServe
    <2>2. QED
      BY <1>0, <1>02, <2>1, TakeKeeps DEF OverlapInv
  <1>5. ASSUME NEW p \in Requests, NEW s \in Sessions,
               NEW id \in StreamIds, StoppedMatching(p, s, id)
        PROVE  OverlapInv'
    <2>1. proc[p].at = "idle"
      BY <1>5 DEF StoppedMatching, CanServe
    <2>2. CASE states[s].stream # None
      BY <1>0, <1>02, <1>5, <2>1, <2>2, TakeKeeps DEF StoppedMatching, OverlapInv
    <2>3. CASE states[s].stream = None
      <3>1. \A u \in Sessions : states'[u].stream = states[u].stream
        BY <1>0, <1>5, <2>3 DEF StoppedMatching, StateType
      <3>2. proc' = [proc EXCEPT ![p] = Served] /\ UNCHANGED streams
        BY <1>5, <2>3 DEF StoppedMatching
      <3>3. QED
        BY <1>0, <1>01, <1>02, <2>1, <3>1, <3>2, QuietKeeps DEF OverlapInv
    <2>4. QED
      BY <2>2, <2>3
  <1>6. ASSUME NEW p \in Procs, NEW s \in Sessions, NEW kind, NEW r,
               StopSession(p, kind, s, r), ~Stopping(p), r.at \in {"idle", "done"}
        PROVE  OverlapInv'
    <2>1. CASE states[s].stream # None
      BY <1>6, <2>1, TakeKeeps DEF StopSession, OverlapInv
    <2>2. CASE states[s].stream = None
      BY <1>6, <2>2, QuietKeeps DEF StopSession, OverlapInv
    <2>3. QED
      BY <2>1, <2>2
  <1>7. ASSUME NEW p \in Requests, NEW s \in Sessions, EndSession(p, s)
        PROVE  OverlapInv'
    BY <1>0, <1>01, <1>02, <1>6, <1>7 DEF EndSession, CanServe
  <1>8. ASSUME NEW p \in Procs, LinkWrite(p) \/ LinkMark(p)
        PROVE  OverlapInv'
    <2>1. /\ UNCHANGED streams /\ ~Stopping(p)
          /\ \A s \in Sessions : states'[s].stream = states[s].stream
      BY <1>02, <1>8, LinkFrame
    <2>2. PICK r : proc' = [proc EXCEPT ![p] = r] /\ r.at \in {"mark", "done"}
      BY <1>8, LinkFrame
    <2>3. QED
      BY <2>1, <2>2, QuietKeeps DEF OverlapInv
  <1>10. ASSUME NEW p \in Procs, CloseStream(p)
        PROVE  OverlapInv'
    <2>1. /\ UNCHANGED states
          /\ \A x \in Requests : /\ streams'[x].s = streams[x].s
                                 /\ streams'[x].raced = streams[x].raced
                                 /\ Live(x)' <=> Live(x)
                                 /\ streams'[x].phase = "unused"
                                       <=> streams[x].phase = "unused"
          /\ proc[p].at = "closing" /\ proc' = [proc EXCEPT ![p].at = "joining"]
      BY <1>10, CloseFrame
    <2>2. \A q \in Procs : /\ Stopping(q)' <=> Stopping(q)
                           /\ proc'[q].kind = proc[q].kind /\ proc'[q].s = proc[q].s
                           /\ proc'[q].old = proc[q].old
      BY <1>0, <2>1 DEF ProcType, Stopping
    <2>3. HeldStreams'
      BY <2>1, <2>2 DEF OverlapInv, HeldStreams
    <2>4. WaitingSlot'
      BY <1>0, <2>1, <2>2 DEF OverlapInv, WaitingSlot
    <2>5. NoOrphan'
      BY <2>1, <2>2 DEF OverlapInv, NoOrphan, Holds
    <2>6. QED
      BY <2>3, <2>4, <2>5 DEF OverlapInv
  <1>11. ASSUME NEW p \in Procs, ResumeStarted(p)
        PROVE  OverlapInv'
    <2>1. /\ Launch(p, proc[p].s, proc[p].id) /\ proc[p].at = "joining"
          /\ proc[p].kind = "started" /\ streams[proc[p].old].phase = "closed"
      BY <1>11 DEF ResumeStarted, Joined
    <2>2. p \in Requests /\ Waiting(p, proc[p].s)
      BY <2>1 DEF TypeInv, ResumesRequest, Waiting, Stopping
    <2>3. QED
      BY <1>0, <2>1, <2>2, LaunchKeeps
  <1>12. ASSUME NEW p \in Procs, ResumeStop(p)
        PROVE  OverlapInv'
    <2>1. /\ UNCHANGED streams
          /\ \A s \in Sessions : states'[s].stream = states[s].stream
          /\ proc[p].at = "joining" /\ streams[proc[p].old].phase = "closed"
      BY <1>12, ResumeFrame
    <2>2. PICK r : proc' = [proc EXCEPT ![p] = r] /\ r.at \in {"idle", "done"}
      BY <1>12, ResumeFrame
    <2>3. \A q \in Procs : /\ Stopping(q)' <=> q # p /\ Stopping(q)
                           /\ q # p => proc'[q] = proc[q]
      BY <1>0, <2>2 DEF Stopping
    <2>4. HeldStreams' /\ WaitingSlot'
      BY <1>0, <2>1, <2>3 DEF OverlapInv, HeldStreams, WaitingSlot
    <2>5. \A q \in Procs, x \in Requests : Live(x) /\ Holds(q, x) => Holds(q, x)'
      BY <2>1, <2>3 DEF Holds, Live
    <2>6. NoOrphan'
      BY <1>0, <2>1, <2>5 DEF OverlapInv, NoOrphan, Live
    <2>7. QED
      BY <2>4, <2>6 DEF OverlapInv
  <1>13. ASSUME NEW p \in Procs, ReapSession(p)
        PROVE  OverlapInv'
    BY <1>0, <1>01, <1>02, <1>6, <1>13 DEF ReapSession
  <1>14. ASSUME ShutdownBegin \/ ShutdownEnd \/ ShutdownResume
        PROVE  OverlapInv'
    <2>1. PICK at \in {"loop", "done"} : proc' = [proc EXCEPT ![Lifespan].at = at]
      BY <1>14 DEF ShutdownBegin, ShutdownEnd, ShutdownResume
    <2>2. /\ UNCHANGED <<states, streams>>
          /\ \/ ~Stopping(Lifespan)
             \/ streams[proc[Lifespan].old].phase = "closed"
      BY <1>14 DEF ShutdownBegin, ShutdownEnd, ShutdownResume, Joined, Stopping
    <2>3. \A q \in Procs : /\ Stopping(q)' <=> q # Lifespan /\ Stopping(q)
                           /\ q # Lifespan => proc'[q] = proc[q]
      BY <1>0, <2>1 DEF Stopping, ProcType
    <2>4. HeldStreams' /\ WaitingSlot'
      BY <1>0, <2>2, <2>3 DEF OverlapInv, HeldStreams, WaitingSlot
    <2>5. \A q \in Procs, x \in Requests : Live(x) /\ Holds(q, x) => Holds(q, x)'
      BY <2>2, <2>3 DEF Holds, Live
    <2>6. NoOrphan'
      BY <1>0, <2>2, <2>5 DEF OverlapInv, NoOrphan, Live
    <2>7. QED
      BY <2>4, <2>6 DEF OverlapInv
  <1>15. ASSUME NEW s \in Sessions, ShutdownVisit(s)
        PROVE  OverlapInv'
    <2>1. ~Stopping(Lifespan)
      BY <1>0, <1>02, <1>15 DEF ShutdownVisit
    <2>2. CASE states[s].stream # None
      BY <1>0, <1>15, <2>1, <2>2, TakeKeeps DEF ShutdownVisit, OverlapInv
    <2>3. CASE states[s].stream = None
      BY <1>15, <2>3 DEF ShutdownVisit, OverlapInv, HeldStreams, WaitingSlot, NoOrphan,
                         Holds, Stopping, Live
    <2>4. QED
      BY <2>2, <2>3
  <1>18. ASSUME NEW x \in Requests, StreamConnected(x) \/ StreamEnds(x)
        PROVE  OverlapInv'
    <2>1. /\ proc' = proc
          /\ \A y \in Requests :
               /\ streams'[y].s = streams[y].s /\ streams'[y].raced = streams[y].raced
               /\ Live(y)' => Live(y)
               /\ streams'[y].phase = "unused" => streams[y].phase = "unused"
      <3>1. PICK phase \in {"streaming", "closed"} : streams' = [streams EXCEPT ![x].phase = phase]
        BY <1>18 DEF StreamConnected, StreamEnds
      <3>2. Live(x) /\ proc' = proc
        BY <1>18 DEF StreamConnected, StreamEnds, CanEnd, Live
      <3>3. QED
        BY <1>0, <3>1, <3>2 DEF StreamType, Live
    <2>2. /\ \A s \in Sessions : states'[s].stream \in {states[s].stream, None}
          /\ \A s \in Sessions : states[s].stream # x => states'[s].stream = states[s].stream
          /\ Live(x)' => \A s \in Sessions : states'[s].stream = states[s].stream
      <3>1. CASE StreamConnected(x)
        BY <1>0, <3>1 DEF StreamConnected, StateType
      <3>2. CASE StreamEnds(x)
        <4>1. PICK status \in EndStatus(x) :
                states' = [states EXCEPT ![streams[x].s] = Release([@ EXCEPT !.status = status], x)]
          BY <3>2 DEF StreamEnds
        <4>2. \A s \in Sessions : states'[s].stream =
                 IF s = streams[x].s /\ states[s].stream = x THEN None ELSE states[s].stream
          BY <1>0, <4>1 DEF Release, StateType
        <4>3. ~Live(x)'
          BY <1>0, <3>2 DEF StreamEnds, Live, StreamType
        <4>4. QED
          BY <4>2, <4>3
      <3>3. QED
        BY <1>18, <3>1, <3>2
    <2>3. HeldStreams'
      BY <2>1 DEF OverlapInv, HeldStreams, Stopping
    <2>4. WaitingSlot'
      <3>1. ASSUME NEW q \in Procs, Stopping(q), proc[q].kind = "started"
            PROVE  \/ states'[proc[q].s].stream = None
                   \/ streams'[states'[proc[q].s].stream].raced
        BY <1>0, <2>1, <2>2, <3>1 DEF OverlapInv, WaitingSlot
      <3>2. QED
        BY <2>1, <3>1 DEF WaitingSlot, Stopping
    <2>5. NoOrphan'
      <3>1. ASSUME NEW y \in Requests, Live(y)', states[streams[y].s].stream = y
            PROVE  states'[streams[y].s].stream = y
        BY <1>0, <2>2, <3>1
      <3>2. QED
        BY <2>1, <3>1 DEF OverlapInv, NoOrphan, Holds, Stopping
    <2>6. QED
      BY <2>3, <2>4, <2>5 DEF OverlapInv
  <1>20. ASSUME NEW x \in Requests, NEW r \in Reapers, LateTranscript(x, r)
        PROVE  OverlapInv'
    <2>1. PICK t : /\ proc' = [proc EXCEPT ![r] = t] /\ t.at = "start" /\ proc[r].at = "idle"
                   /\ UNCHANGED <<states, streams>>
      BY <1>20 DEF LateTranscript, Idle
    <2>2. QED
      BY <1>0, <1>02, <2>1, QuietKeeps DEF OverlapInv
  <1>21. CASE UNCHANGED vars
    BY <1>21 DEF vars, OverlapInv, HeldStreams, WaitingSlot, NoOrphan, Holds, Stopping, Live
  <1>22. QED
    BY <1>1, <1>2, <1>3, <1>4, <1>5, <1>7, <1>8, <1>10,
       <1>11, <1>12, <1>13, <1>14, <1>15, <1>18, <1>20, <1>21, Steps

LEMMA OverlapInit == Init => SlotInv /\ OverlapInv
  <1>1. Init => SlotInv
    BY DEF Init, SlotInv, SlotIsLive, FreshUnused
  <1>2. Init => HeldStreams /\ WaitingSlot
    BY DEF Init, HeldStreams, WaitingSlot, Stopping, Idle
  <1>3. Init => NoOrphan
    BY DEF Init, NoOrphan, Live
  <1>4. QED
    BY <1>1, <1>2, <1>3 DEF OverlapInv

(* However webhooks, ends, links and stop tasks overlap, a stream that is  *)
(* left running outside its slot without a handler that closes it was      *)
(* launched while another rtms_started of its session was waiting.         *)
THEOREM NoStreamOrphaned == Spec => []NoOrphan
  <1>1. OverlapInv => NoOrphan
    BY DEF OverlapInv
  <1>2. QED
    BY <1>1, OverlapInit, InitType, StepType, SlotStep, OverlapStep, PTL DEF Spec

-----------------------------------------------------------------------------
(* The shutdown hook is a process of its own kind; while it runs, no       *)
(* request does, and every slot that holds a stream is still to be visited. *)
HookOwn ==
    /\ proc[Lifespan].kind \in {"none", "shutdown"}
    /\ proc[Lifespan].at \in {"idle", "loop", "closing", "joining", "done"}

ServedFirst == proc[Lifespan].at # "idle" => \A p \in Requests : ~Busy(p)

Remaining ==
    proc[Lifespan].at # "idle" =>
        \A s \in Sessions : states[s].stream # None => s \in toVisit

Exhausted == proc[Lifespan].at = "done" => toVisit = {}

KnownSlots == \A s \in Sessions : states[s].stream # None => states[s].status # "absent"

ShutdownInv == HookOwn /\ ServedFirst /\ Remaining /\ Exhausted /\ KnownSlots

LEMMA HookQuiet ==
    ASSUME TypeInv, ShutdownInv, toVisit' = toVisit,
           \/ proc'[Lifespan] = proc[Lifespan]
           \/ /\ proc[Lifespan].at = "closing" /\ proc'[Lifespan].at = "joining"
              /\ proc'[Lifespan].kind = proc[Lifespan].kind,
           \/ proc[Lifespan].at = "idle"
           \/ /\ \A q \in Requests : Busy(q)' => Busy(q)
              /\ \A s \in Sessions : states'[s].stream # None => states[s].stream # None,
           KnownSlots'
    PROVE  ShutdownInv'
  BY DEF ShutdownInv, HookOwn, ServedFirst, Remaining, Exhausted

LEMMA ShutdownStep == TypeInv /\ ShutdownInv /\ [Next]_vars => ShutdownInv'
  <1> SUFFICES ASSUME TypeInv, ShutdownInv, [Next]_vars PROVE ShutdownInv'
    OBVIOUS
  <1>0. /\ Requests \subseteq Procs /\ Reapers \subseteq Procs /\ Lifespan \in Procs
        /\ Lifespan \notin Requests \cup Reapers /\ Requests \cap Reapers = {}
        /\ proc \in [Procs -> ProcType] /\ streams \in [Requests -> StreamType]
        /\ states \in [Sessions -> StateType]
        /\ \A p \in Procs : proc[p].s \in Sessions
        /\ \A x \in Requests : streams[x].s \in Sessions
    BY ConstantsAssumption DEF Procs, TypeInv, TypeOK, ProcType, StreamType
  <1>1. ASSUME NEW p \in Requests, Serve(p), KnownSlots'
        PROVE  ShutdownInv'
    <2>1. proc[Lifespan].at = "idle" /\ toVisit' = toVisit
      BY <1>1 DEF Serve, CanServe, LinkCheck, StartedIgnored, StartedFresh, StartedReplacing,
                  StoppedIgnored, StoppedMatching, EndSession
    <2>2. proc'[Lifespan] = proc[Lifespan]
      <3>1. \E r : proc' = [proc EXCEPT ![p] = r]
        BY <1>1 DEF Serve, LinkCheck, StartedIgnored, StartedFresh, StartedReplacing,
                    StoppedIgnored, StoppedMatching, EndSession, StopSession, TakeStream, Launch
      <3>2. QED
        BY <1>0, <3>1
    <2>3. QED
      BY <1>1, <2>1, <2>2, HookQuiet
  <1>2. ASSUME NEW p \in Requests, Serve(p)
        PROVE  KnownSlots'
    <2>1. ASSUME NEW s \in Sessions, NEW id, Launch(p, s, id)
          PROVE  KnownSlots'
      BY <1>0, <2>1 DEF Launch, ShutdownInv, KnownSlots
    <2>2. ASSUME NEW s \in Sessions, NEW kind, NEW id, TakeStream(p, kind, s, id)
          PROVE  KnownSlots'
      BY <1>0, <2>2 DEF TakeStream, ShutdownInv, KnownSlots, StateType
    <2>3. ASSUME NEW s \in Sessions, NEW status \in Statuses \ {"absent"},
                 states' = [states EXCEPT ![s].status = status]
          PROVE  KnownSlots'
      BY <1>0, <2>3 DEF ShutdownInv, KnownSlots, StateType
    <2>4. CASE states' = states
      BY <2>4 DEF ShutdownInv, KnownSlots
    <2>5. \/ states' = states
          \/ \E s \in Sessions, id \in StreamIds : Launch(p, s, id)
          \/ \E s \in Sessions, kind \in Kinds, id \in StreamIds \cup {None} :
               TakeStream(p, kind, s, id)
          \/ \E s \in Sessions : states' = [states EXCEPT ![s].status = "stopped"]
      BY <1>2 DEF Serve, LinkCheck, StartedIgnored, StartedFresh, StartedReplacing,
                  StoppedIgnored, StoppedMatching, EndSession, StopSession, Kinds
    <2>6. "stopped" \in Statuses \ {"absent"}
      BY DEF Statuses
    <2>7. QED
      BY <2>1, <2>2, <2>3, <2>4, <2>5, <2>6
  <1>3. ASSUME NEW p \in Procs, LinkWrite(p) \/ LinkMark(p)
        PROVE  ShutdownInv'
    <2>1. /\ p # Lifespan /\ toVisit' = toVisit
          /\ \A s \in Sessions : states'[s].stream = states[s].stream
          /\ proc[p].at \in {"write", "mark"}
      BY <1>3, LinkFrame DEF LinkWrite, LinkMark, ShutdownInv, HookOwn
    <2>2. \A q \in Procs : q # p => proc'[q] = proc[q]
      BY <1>0, <1>3 DEF LinkWrite, LinkMark
    <2>3. \A q \in Requests : Busy(q)' => Busy(q)
      BY <1>0, <2>1, <2>2 DEF Busy
    <2>4. KnownSlots'
      BY <1>0, <1>3 DEF LinkWrite, LinkMark, ShutdownInv, KnownSlots, StateType
    <2>5. QED
      BY <1>0, <2>1, <2>2, <2>3, <2>4, HookQuiet
  <1>4. ASSUME NEW p \in Procs, CloseStream(p)
        PROVE  ShutdownInv'
    <2>1. /\ states' = states /\ toVisit' = toVisit
          /\ proc[p].at = "closing" /\ proc' = [proc EXCEPT ![p].at = "joining"]
      BY <1>4 DEF CloseStream
    <2>2. /\ \A q \in Procs : q # p => proc'[q] = proc[q]
          /\ proc'[p].at = "joining" /\ proc'[p].kind = proc[p].kind
      BY <1>0, <2>1 DEF ProcType
    <2>3. \A q \in Requests : Busy(q)' => Busy(q)
      BY <1>0, <2>1, <2>2 DEF Busy
    <2>4. KnownSlots'
      BY <2>1 DEF ShutdownInv, KnownSlots
    <2>5. QED
      BY <1>0, <2>1, <2>2, <2>3, <2>4, HookQuiet
  <1>5. ASSUME NEW p \in Procs, ResumeStarted(p)
        PROVE  ShutdownInv'
    <2>1. /\ p \in Requests /\ Busy(p) /\ toVisit' = toVisit
          /\ Launch(p, proc[p].s, proc[p].id)
      BY <1>5 DEF ResumeStarted, Joined, Busy, TypeInv, ResumesRequest
    <2>2. proc[Lifespan].at = "idle" /\ proc'[Lifespan] = proc[Lifespan]
      BY <1>0, <2>1 DEF ShutdownInv, ServedFirst, Launch
    <2>3. KnownSlots'
      BY <1>0, <2>1 DEF Launch, ShutdownInv, KnownSlots
    <2>4. QED
      BY <2>1, <2>2, <2>3, HookQuiet
  <1>6. ASSUME NEW p \in Procs, ResumeStop(p)
        PROVE  ShutdownInv'
    <2>1. /\ p # Lifespan /\ proc[p].at = "joining" /\ toVisit' = toVisit
          /\ states' = [states EXCEPT ![proc[p].s].status = "stopped"]
      BY <1>6 DEF ResumeStop, Joined, ShutdownInv, HookOwn
    <2>2. \A q \in Procs : q # p => proc'[q] = proc[q]
      BY <1>0, <1>6 DEF ResumeStop
    <2>3. /\ \A q \in Requests : Busy(q)' => Busy(q)
          /\ \A s \in Sessions : states'[s].stream = states[s].stream
      BY <1>0, <2>1, <2>2 DEF Busy, StateType
    <2>4. KnownSlots'
      BY <1>0, <2>1 DEF ShutdownInv, KnownSlots, StateType
    <2>5. QED
      BY <1>0, <2>1, <2>2, <2>3, <2>4, HookQuiet
  <1>7. ASSUME NEW p \in Procs, ReapSession(p)
        PROVE  ShutdownInv'
    <2>1. /\ p \in Reapers /\ toVisit' = toVisit
          /\ \/ states' = states
             \/ states' = [states EXCEPT ![proc[p].s].stream = None]
          /\ \E r : proc' = [proc EXCEPT ![p] = r]
      BY <1>7 DEF ReapSession, StopSession, TakeStream
    <2>2. \A q \in Procs : q # p => proc'[q] = proc[q]
      BY <1>0, <2>1
    <2>3. /\ \A q \in Requests : Busy(q)' => Busy(q)
          /\ \A s \in Sessions : states'[s].stream # None =>
               states'[s] = states[s] /\ states[s].stream # None
      BY <1>0, <2>1, <2>2 DEF Busy, StateType
    <2>4. KnownSlots'
      BY <2>3 DEF ShutdownInv, KnownSlots
    <2>5. QED
      BY <1>0, <2>1, <2>2, <2>3, <2>4, HookQuiet
  <1>8. ASSUME ShutdownBegin PROVE ShutdownInv'
    <2>1. /\ proc'[Lifespan].at = "loop" /\ proc'[Lifespan].kind = proc[Lifespan].kind
          /\ \A q \in Procs : q # Lifespan => proc'[q] = proc[q]
          /\ states' = states /\ toVisit' = Known /\ \A p \in Requests : ~Busy(p)
      BY <1>0, <1>8 DEF ShutdownBegin, ProcType
    <2>2. \A p \in Requests : ~Busy(p)'
      BY <1>0, <2>1 DEF Busy
    <2>3. QED
      BY <2>1, <2>2 DEF ShutdownInv, HookOwn, ServedFirst, Remaining, Exhausted, KnownSlots, Known
  <1>9. ASSUME NEW s \in Sessions, ShutdownVisit(s) PROVE ShutdownInv'
    <2>1. /\ proc[Lifespan].at = "loop" /\ toVisit' = toVisit \ {s}
          /\ \/ proc' = proc /\ states' = states /\ states[s].stream = None
             \/ /\ proc' = [proc EXCEPT ![Lifespan] = Taking("shutdown", s, None)]
                /\ states' = [states EXCEPT ![s].stream = None]
      BY <1>9 DEF ShutdownVisit, TakeStream
    <2>2. /\ \A q \in Procs : q # Lifespan => proc'[q] = proc[q]
          /\ proc'[Lifespan].at \in {"loop", "closing"}
          /\ proc'[Lifespan].kind \in {"none", "shutdown"}
      <3>1. Taking("shutdown", s, None).at = "closing"
            /\ Taking("shutdown", s, None).kind = "shutdown"
        BY DEF Taking, Idle
      <3>2. QED
        BY <1>0, <2>1, <3>1 DEF ShutdownInv, HookOwn
    <2>3. \A t \in Sessions : states'[t].stream # None =>
               t # s /\ states'[t] = states[t] /\ states[t].stream # None
      BY <1>0, <2>1 DEF StateType
    <2>4. \A p \in Requests : Busy(p)' <=> Busy(p)
      BY <1>0, <2>2 DEF Busy
    <2>5. QED
      BY <2>1, <2>2, <2>3, <2>4
         DEF ShutdownInv, HookOwn, ServedFirst, Remaining, Exhausted, KnownSlots
  <1>10. ASSUME ShutdownResume \/ ShutdownEnd PROVE ShutdownInv'
    <2>1. /\ proc[Lifespan].at \in {"joining", "loop"} /\ states' = states /\ toVisit' = toVisit
          /\ \E at \in {"loop", "done"} :
               proc' = [proc EXCEPT ![Lifespan].at = at] /\ (at = "done" => toVisit = {})
      BY <1>10 DEF ShutdownResume, ShutdownEnd, Joined
    <2>2. /\ \A q \in Procs : q # Lifespan => proc'[q] = proc[q]
          /\ proc'[Lifespan].at \in {"loop", "done"}
          /\ proc'[Lifespan].at = "done" => toVisit = {}
          /\ proc'[Lifespan].kind = proc[Lifespan].kind
      BY <1>0, <2>1 DEF ProcType
    <2>3. \A p \in Requests : Busy(p)' <=> Busy(p)
      BY <1>0, <2>2 DEF Busy
    <2>4. QED
      BY <2>1, <2>2, <2>3
         DEF ShutdownInv, HookOwn, ServedFirst, Remaining, Exhausted, KnownSlots
  <1>11. ASSUME NEW x \in Requests, StreamConnected(x) \/ StreamEnds(x)
         PROVE  ShutdownInv'
    <2>1. proc' = proc /\ toVisit' = toVisit
      BY <1>11 DEF StreamConnected, StreamEnds
    <2>2. \A s \in Sessions : states'[s].stream # None =>
             /\ states[s].stream # None
             /\ states'[s].status # "absent" \/ states'[s].status = states[s].status
      <3>1. CASE StreamConnected(x)
        BY <1>0, <3>1 DEF StreamConnected, StateType
      <3>2. CASE StreamEnds(x)
        <4>1. PICK status \in EndStatus(x) :
                states' = [states EXCEPT ![streams[x].s] = Release([@ EXCEPT !.status = status], x)]
          BY <3>2 DEF StreamEnds
        <4>2. status # "absent" \/ status = states[streams[x].s].status
          BY <4>1 DEF EndStatus
        <4>3. QED
          BY <1>0, <4>1, <4>2 DEF Release, StateType
      <3>3. QED
        BY <1>11, <3>1, <3>2
    <2>3. KnownSlots'
      BY <2>2 DEF ShutdownInv, KnownSlots
    <2>4. QED
      BY <2>1, <2>2, <2>3, HookQuiet DEF Busy
  <1>12. ASSUME NEW x \in Requests, NEW r \in Reapers, LateTranscript(x, r)
         PROVE  ShutdownInv'
    <2>1. /\ states' = states /\ toVisit' = toVisit
          /\ \A q \in Procs : q # r => proc'[q] = proc[q]
      BY <1>0, <1>12 DEF LateTranscript
    <2>2. \A q \in Requests : Busy(q)' => Busy(q)
      BY <1>0, <2>1 DEF Busy
    <2>3. KnownSlots'
      BY <2>1 DEF ShutdownInv, KnownSlots
    <2>4. QED
      BY <1>0, <2>1, <2>2, <2>3, HookQuiet
  <1>13. CASE UNCHANGED vars
    BY <1>13 DEF vars, ShutdownInv, HookOwn, ServedFirst, Remaining, Exhausted, KnownSlots, Busy
  <1>14. CASE \E p \in Procs : Continue(p)
    BY <1>14, <1>3, <1>4, <1>5, <1>6, <1>7 DEF Continue
  <1>15. CASE Shutdown
    BY <1>15, <1>8, <1>9, <1>10 DEF Shutdown
  <1>16. QED
    BY <1>1, <1>2, <1>11, <1>12, <1>13, <1>14, <1>15 DEF Next, StreamTask

(* When `shutdown` has returned, every stream that still runs is one that  *)
(* a stop task holds, or one that raced another webhook.                   *)
THEOREM ShutdownReachesStreams == Spec => []ShutdownStopsAll
  <1>1. Init => ShutdownInv
    BY ConstantsAssumption DEF Init, Idle, Procs, ShutdownInv, HookOwn, ServedFirst,
       Remaining, Exhausted, KnownSlots
  <1>2. TypeInv /\ OverlapInv /\ ShutdownInv => ShutdownStopsAll
    <2> SUFFICES ASSUME TypeInv, OverlapInv, ShutdownInv, proc[Lifespan].at = "done",
                        NEW x \in Requests, streams[x].phase \in {"connecting", "streaming"},
                        ~streams[x].raced
                 PROVE  \E r \in Reapers : Holds(r, x)
      BY DEF ShutdownStopsAll
    <2>1. streams[x].s \in Sessions /\ Live(x) /\ None # x
      BY ConstantsAssumption DEF TypeInv, TypeOK, StreamType, Live, Procs
    <2>2. states[streams[x].s].stream = None
      BY <2>1 DEF ShutdownInv, Remaining, Exhausted
    <2>3. PICK p \in Procs : Holds(p, x)
      BY <2>1, <2>2 DEF OverlapInv, NoOrphan
    <2>4. p # Lifespan /\ p \notin Requests
      BY <2>3 DEF Holds, Stopping, ShutdownInv, ServedFirst, Busy
    <2>5. QED
      BY <2>3, <2>4 DEF Procs
  <1>3. QED
    BY <1>1, <1>2, OverlapInit, InitType, StepType, SlotStep, OverlapStep, ShutdownStep,
       PTL DEF Spec
=============================================================================
