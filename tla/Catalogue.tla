------------------------------- MODULE Catalogue -------------------------------
(***************************************************************************)
(* The catalogue of a professor's courses and of the students in them:     *)
(* courses/service.py, enrollments/service.py, the creation and the join   *)
(* codes of sessions/service.py, and the registration route of             *)
(* signals/routes.py, which enrols too.                                    *)
(*                                                                         *)
(* Handlers run in the threadpool on records that no lock protects. Each   *)
(* is cut where another may change what it has read: a check and the write *)
(* that relies on it are two steps. Refused requests change nothing and    *)
(* are left out.                                                           *)
(***************************************************************************)
EXTENDS Naturals, FiniteSets

CONSTANTS
    Students, Professor,
    Courses, Sessions, Enrollments,   \* identifiers (bounds)
    CourseCodes, JoinCodes,
    Requests,     \* requests served at one time (bound)
    None

Membership == [who : Students, course : Courses, auto : BOOLEAN]

ASSUME ConstantsAssumption ==
    /\ Professor \notin Students
    /\ None \notin Courses \cup JoinCodes \cup Sessions \cup Enrollments \cup Membership

VARIABLES
    calm,           \* TRUE: a person has one request under way at a time
    courses,        \* the code of each course; "fresh", or "deleted"
    sessions,       \* course, join code and status of each session
    codes,          \* store.session_join_codes
    enrollments,    \* student, course and auto-join choice, or None
    answered,       \* history: what a student was last told of a course
    proc            \* the requests under way

store == <<courses, sessions, codes, enrollments>>
vars == <<calm, store, answered, proc>>

Modes == {"out", "manual", "auto"}
Unborn == [course |-> None, code |-> None, status |-> "fresh"]

(* What a request has read and will write.                                 *)
Idle == [op |-> "idle", who |-> None, id |-> None, course |-> None,
         code |-> None, auto |-> FALSE]
Job(op, who, id) == [Idle EXCEPT !.op = op, !.who = who, !.id = id]

Free(r, who) ==
    /\ proc[r] = Idle
    /\ calm => \A q \in Requests : proc[q].who # who
Begin(r, job) == proc' = [proc EXCEPT ![r] = job]
Finish(r) == proc' = [proc EXCEPT ![r] = Idle]
Unmentioned(id) == \A q \in Requests : proc[q].id # id

Open(c) == courses[c] \in CourseCodes

Init ==
    /\ calm \in BOOLEAN
    /\ courses = [c \in Courses |-> "fresh"]
    /\ sessions = [s \in Sessions |-> Unborn]
    /\ codes = [k \in JoinCodes |-> None]
    /\ enrollments = [i \in Enrollments |-> None]
    /\ answered = [told \in Students \X Courses |-> "out"]
    /\ proc = [r \in Requests |-> Idle]

-----------------------------------------------------------------------------
(* Courses. delete_course checks the owner, then deletes what is there.    *)
CreateCourse(c, k) ==
    /\ courses[c] = "fresh"
    /\ courses' = [courses EXCEPT ![c] = k]
    /\ UNCHANGED <<sessions, codes, enrollments, answered, proc>>

DeleteCourseCheck(r, c) ==
    /\ Free(r, Professor) /\ Open(c)
    /\ Begin(r, Job("delete", Professor, c))
    /\ UNCHANGED <<store, answered>>

DeleteCourse(r) ==
    /\ proc[r].op = "delete"
    /\ courses' = [courses EXCEPT ![proc[r].id] = "deleted"]
    /\ Finish(r)
    /\ UNCHANGED <<sessions, codes, enrollments, answered>>

-----------------------------------------------------------------------------
(* Sessions and their codes. generate_join_code draws until a code is not  *)
(* taken; two draws of one code at the same time are left out, as there    *)
(* are 32^6 codes. The course of a session is whatever the request says.   *)
Taken(k) == codes[k] # None

CreateSessionDraw(r, s, c, k) ==
    /\ Free(r, Professor) /\ sessions[s] = Unborn /\ Unmentioned(s)
    /\ courses[c] # "fresh"
    /\ ~Taken(k) /\ \A q \in Requests : proc[q].code # k
    /\ Begin(r, [Job("save", Professor, s) EXCEPT !.course = c, !.code = k])
    /\ UNCHANGED <<store, answered>>

SaveSession(r) ==
    /\ proc[r].op = "save"
    /\ sessions' = [sessions EXCEPT ![proc[r].id] =
                      [course |-> proc[r].course, code |-> proc[r].code, status |-> "active"]]
    /\ Begin(r, [proc[r] EXCEPT !.op = "publish"])
    /\ UNCHANGED <<courses, codes, enrollments, answered>>

PublishCode(r) ==
    /\ proc[r].op = "publish"
    /\ codes' = [codes EXCEPT ![proc[r].code] = proc[r].id]
    /\ Finish(r)
    /\ UNCHANGED <<courses, sessions, enrollments, answered>>

ReleasedAgain(s) ==   \* slip: also when the session has ended before
    [codes EXCEPT ![sessions[s].code] = None]

(* end_session: the code of a session that has ended is not released again.*)
Released(s) ==
    IF sessions[s].status = "active"
    THEN [codes EXCEPT ![sessions[s].code] = None] ELSE codes

EndSession(s) ==
    /\ sessions[s] # Unborn
    /\ sessions' = [sessions EXCEPT ![s].status = "ended"]
    /\ codes' = Released(s)
    /\ UNCHANGED <<courses, enrollments, answered, proc>>

(* resolve_join_code; None is the answer not_found.                        *)
Resolved(k) ==
    IF codes[k] # None /\ sessions[codes[k]].status = "active" THEN codes[k] ELSE None

-----------------------------------------------------------------------------
(* Enrolment: by the code of a course, or by joining a session, whose      *)
(* participants are the subject of AggregationConsent.                     *)
Found(u, c) ==
    {i \in Enrollments : enrollments[i] # None
                         /\ enrollments[i].who = u /\ enrollments[i].course = c}

Mode(i) == IF enrollments[i].auto THEN "auto" ELSE "manual"
Told(u, c, mode) == answered' = [answered EXCEPT ![<<u, c>>] = mode]

CreateAlways(r, u, c) ==   \* slip: no look for an earlier record
    Begin(r, [Job("enroll", u, None) EXCEPT !.course = c]) /\ UNCHANGED answered

(* _find_enrollment or _create_enrollment: one that is found is answered.  *)
FindOrCreate(r, u, c) ==
    \/ /\ Found(u, c) = {}
       /\ Begin(r, [Job("enroll", u, None) EXCEPT !.course = c])
       /\ UNCHANGED answered
    \/ \E i \in Found(u, c) : Told(u, c, Mode(i)) /\ Finish(r)

EnrollByCode(r, u, k) ==
    /\ Free(r, u)
    /\ \E c \in Courses :
          /\ {d \in Courses : courses[d] = k} = {c}
          /\ FindOrCreate(r, u, c)
    /\ UNCHANGED store

JoinSession(r, u, s) ==
    /\ Free(r, u) /\ sessions[s] # Unborn
    /\ Begin(r, Job("joined", u, s))
    /\ UNCHANGED <<store, answered>>

EnrollFromSession(r) ==
    /\ proc[r].op = "joined"
    /\ LET c == sessions[proc[r].id].course IN
       IF Open(c) THEN FindOrCreate(r, proc[r].who, c)
       ELSE Finish(r) /\ UNCHANGED answered
    /\ UNCHANGED store

CreateEnrollment(r, i) ==
    /\ proc[r].op = "enroll"
    /\ enrollments[i] = None /\ Unmentioned(i)
    /\ enrollments' = [enrollments EXCEPT ![i] =
                         [who |-> proc[r].who, course |-> proc[r].course, auto |-> FALSE]]
    /\ Told(proc[r].who, proc[r].course, "manual")
    /\ Finish(r)
    /\ UNCHANGED <<courses, sessions, codes>>

Owned(u, i) == enrollments[i] # None /\ enrollments[i].who = u

(* update_enrollment stores its copy whether or not the record is there.   *)
UpdateEnrollmentCheck(r, u, i, auto) ==
    /\ Free(r, u) /\ Owned(u, i)
    /\ Begin(r, [Job("update", u, i) EXCEPT !.course = enrollments[i].course, !.auto = auto])
    /\ UNCHANGED <<store, answered>>

UpdateEnrollment(r) ==
    /\ proc[r].op = "update"
    /\ LET p == proc[r] IN
       /\ enrollments' = [enrollments EXCEPT ![p.id] =
                            [who |-> p.who, course |-> p.course, auto |-> p.auto]]
       /\ Told(p.who, p.course, IF p.auto THEN "auto" ELSE "manual")
    /\ Finish(r)
    /\ UNCHANGED <<courses, sessions, codes>>

DeleteEnrollmentCheck(r, u, i) ==
    /\ Free(r, u) /\ Owned(u, i)
    /\ Begin(r, [Job("leave", u, i) EXCEPT !.course = enrollments[i].course])
    /\ UNCHANGED <<store, answered>>

(* A record that another request has removed is a KeyError.                *)
DeleteEnrollment(r) ==
    /\ proc[r].op = "leave"
    /\ LET p == proc[r] IN
       /\ enrollments' = [enrollments EXCEPT ![p.id] = None]
       /\ IF enrollments[p.id] = None THEN UNCHANGED answered
          ELSE Told(p.who, p.course, "out")
    /\ Finish(r)
    /\ UNCHANGED <<courses, sessions, codes>>

-----------------------------------------------------------------------------
Professional(r) ==
    \/ DeleteCourse(r) \/ SaveSession(r) \/ PublishCode(r)
    \/ \E c \in Courses :
          \/ DeleteCourseCheck(r, c)
          \/ \E s \in Sessions, k \in JoinCodes : CreateSessionDraw(r, s, c, k)

Studious(r) ==
    \/ EnrollFromSession(r) \/ UpdateEnrollment(r) \/ DeleteEnrollment(r)
    \/ \E i \in Enrollments : CreateEnrollment(r, i)
    \/ \E u \in Students :
          \/ \E k \in CourseCodes : EnrollByCode(r, u, k)
          \/ \E s \in Sessions : JoinSession(r, u, s)
          \/ \E i \in Enrollments :
                \/ DeleteEnrollmentCheck(r, u, i)
                \/ \E auto \in BOOLEAN : UpdateEnrollmentCheck(r, u, i, auto)

Next ==
    /\ UNCHANGED calm
    /\ \/ \E c \in Courses, k \in CourseCodes : CreateCourse(c, k)
       \/ \E s \in Sessions : EndSession(s)
       \/ \E r \in Requests : Professional(r) \/ Studious(r)

Spec == Init /\ [][Next]_vars

-----------------------------------------------------------------------------
(* The records keep their shape.                                           *)
TypeOK ==
    /\ courses \in [Courses -> CourseCodes \cup {"fresh", "deleted"}]
    /\ codes \in [JoinCodes -> Sessions \cup {None}]
    /\ enrollments \in [Enrollments -> Membership \cup {None}]
    /\ answered \in [Students \X Courses -> Modes]

(* A session whose creation has been answered can be joined by its code as *)
(* long as it is active, whichever sessions end, once or again, and reuse  *)
(* codes meanwhile; and no code leads to another session.                  *)
ReachableByCode ==
    \A s \in Sessions :
        LET k == sessions[s].code IN
        sessions[s].status = "active" =>
            \/ Resolved(k) = s
            \/ Resolved(k) = None /\ \E r \in Requests : proc[r].op = "publish" /\ proc[r].id = s

(* What a student was last told of a course is so, as long as each student *)
(* waits for an answer before the next request: one enrolment with the     *)
(* auto-join choice that was answered, or none.                            *)
TrueAnswer(u, c) ==
    IF answered[<<u, c>>] = "out" THEN Found(u, c) = {}
    ELSE \E i \in Found(u, c) : Found(u, c) = {i} /\ Mode(i) = answered[<<u, c>>]

AnswersHold ==
    calm => \A u \in Students, c \in Courses : TrueAnswer(u, c)

=============================================================================
