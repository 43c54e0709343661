------------------------------- MODULE Campus ---------------------------------
(***************************************************************************)
(* Accounts and lecture records: users/service.py, lectures/service.py and *)
(* the rest of the deletion of a course (courses/service.py), over the     *)
(* courses of the Catalogue.                                               *)
(*                                                                         *)
(* Accounts, lectures, and the sessions and enrolments of a course share   *)
(* no record that two of them write, so a behaviour takes place in one     *)
(* part of the campus. No lock protects a record. When all is calm a       *)
(* person waits for each answer and no access to a store fails.            *)
(***************************************************************************)
EXTENDS Catalogue, Sequences

CONSTANTS
    Emails, Lectures,
    MaxAccounts      \* accounts created in a behaviour (bound)

ASSUME CampusAssumption ==
    /\ MaxAccounts \in Nat
    /\ Professor \notin Emails
    /\ None \notin Emails \cup Lectures

VARIABLES
    part,        \* where the behaviour takes place
    accounts,    \* store.users, in the order in which they were stored
    loggedIn,    \* history: the account that an email first logged in to
    lectures,    \* the course of each record in store.lectures, or None
    jobs         \* the requests under way in this part

catalogue == <<sessions, codes, enrollments, answered>>
campusVars == <<part, vars, accounts, loggedIn, lectures, jobs>>

Parts == {"catalogue", "accounts", "lectures"}
Accounts == [email : Emails, optIn : BOOLEAN]

NoJob == [op |-> "none", who |-> None, of |-> None, left |-> {}]
Work(op, who, of) == [NoJob EXCEPT !.op = op, !.who = who, !.of = of]

Available(r, who) ==
    /\ Free(r, who) /\ jobs[r] = NoJob
    /\ calm => \A q \in Requests : jobs[q].who # who

Take(r, job) == jobs' = [jobs EXCEPT ![r] = job]
Answer(r) == Take(r, NoJob)

-----------------------------------------------------------------------------
(* Accounts. The first record with the email is the one that logs in.      *)
Positions(e) == {i \in DOMAIN accounts : accounts[i].email = e}

FindLast(e) ==   \* slip: a later account of the same email hides the first
    IF Positions(e) = {} THEN 0
    ELSE CHOOSE i \in Positions(e) : \A j \in Positions(e) : j <= i

FindByEmail(e) ==
    IF Positions(e) = {} THEN 0
    ELSE CHOOSE i \in Positions(e) : \A j \in Positions(e) : i <= j

(* register looks for the email, hashes the password and stores the record.*)
RegisterCheck(r, e) ==
    /\ Available(r, e) /\ FindByEmail(e) = 0
    /\ Take(r, Work("register", e, e))
    /\ UNCHANGED <<accounts, loggedIn>>

RegisterStore(r) ==
    /\ jobs[r].op = "register" /\ Len(accounts) < MaxAccounts
    /\ accounts' = Append(accounts, [email |-> jobs[r].of, optIn |-> FALSE])
    /\ Answer(r)
    /\ UNCHANGED loggedIn

Login(e) ==
    /\ FindByEmail(e) # 0
    /\ loggedIn' = [loggedIn EXCEPT ![e] = IF @ = 0 THEN FindByEmail(e) ELSE @]
    /\ UNCHANGED <<accounts, jobs>>

UpdateConsent(i, optIn) ==
    /\ accounts' = [accounts EXCEPT ![i].optIn = optIn]
    /\ UNCHANGED <<loggedIn, jobs>>

-----------------------------------------------------------------------------
(* Lectures. Refused requests change nothing and are left out.             *)
CreateLectureCheck(r, c) ==
    /\ Available(r, Professor) /\ Open(c)
    /\ Take(r, Work("lecture", Professor, c))
    /\ UNCHANGED <<courses, proc, lectures>>

StoreLecture(r, l) ==
    /\ jobs[r].op = "lecture" /\ lectures[l] = None
    /\ \A q \in Requests : jobs[q].of # l /\ l \notin jobs[q].left
    /\ lectures' = [lectures EXCEPT ![l] = jobs[r].of]
    /\ Answer(r)
    /\ UNCHANGED <<courses, proc>>

DeleteLectureCheck(r, l) ==
    /\ Available(r, Professor) /\ lectures[l] # None
    /\ Take(r, Work("drop", Professor, l))
    /\ UNCHANGED <<courses, proc, lectures>>

DeleteLecture(r) ==
    /\ jobs[r].op = "drop"
    /\ lectures' = [lectures EXCEPT ![jobs[r].of] = None]
    /\ Answer(r)
    /\ UNCHANGED <<courses, proc>>

(* delete_course: the course, then the identifiers of its lectures, then   *)
(* one after the other. What another request has removed is a KeyError.    *)
AskDeletion(r, c) ==
    /\ Available(r, Professor)
    /\ DeleteCourseCheck(r, c)
    /\ UNCHANGED <<lectures, jobs>>

RemoveCourse(r) ==
    /\ DeleteCourse(r)
    /\ IF Open(proc[r].id) THEN Take(r, Work("collect", Professor, proc[r].id))
       ELSE UNCHANGED jobs
    /\ UNCHANGED lectures

OfOther(c) == {}   \* slip: the lectures of the course are not collected

OfCourse(c) == {l \in Lectures : lectures[l] = c}

Collect(r) ==
    LET c == jobs[r].of IN
    /\ jobs[r].op = "collect"
    /\ IF OfCourse(c) = {} THEN Answer(r)
       ELSE Take(r, [Work("sweep", Professor, c) EXCEPT !.left = OfCourse(c)])
    /\ UNCHANGED <<courses, proc, lectures>>

Sweep(r, l) ==
    LET left == jobs[r].left \ {l} IN
    /\ jobs[r].op = "sweep" /\ l \in jobs[r].left
    /\ lectures' = [lectures EXCEPT ![l] = None]
    /\ IF lectures[l] = None \/ left = {} THEN Answer(r)
       ELSE Take(r, [jobs[r] EXCEPT !.left = left])
    /\ UNCHANGED <<courses, proc>>

(* A store fails, or, in memory, the records change under the iteration.   *)
Fail(r) ==
    /\ ~calm /\ jobs[r] # NoJob
    /\ Answer(r)

-----------------------------------------------------------------------------
CampusInit ==
    /\ Init
    /\ part \in Parts
    /\ accounts = <<>> /\ loggedIn = [e \in Emails |-> 0]
    /\ lectures = [l \in Lectures |-> None]
    /\ jobs = [r \in Requests |-> NoJob]

AccountsNext ==
    /\ \/ \E r \in Requests :
            \/ \E e \in Emails : RegisterCheck(r, e)
            \/ RegisterStore(r)
            \/ Fail(r) /\ UNCHANGED <<accounts, loggedIn>>
       \/ \E e \in Emails : Login(e)
       \/ \E i \in DOMAIN accounts, optIn \in BOOLEAN : UpdateConsent(i, optIn)
    /\ UNCHANGED <<vars, lectures>>

LecturesNext ==
    /\ \/ \E c \in Courses, k \in CourseCodes : CreateCourse(c, k) /\ UNCHANGED <<lectures, jobs>>
       \/ \E r \in Requests :
            \/ \E c \in Courses : CreateLectureCheck(r, c) \/ AskDeletion(r, c)
            \/ \E l \in Lectures :
                  StoreLecture(r, l) \/ DeleteLectureCheck(r, l) \/ Sweep(r, l)
            \/ DeleteLecture(r) \/ RemoveCourse(r) \/ Collect(r)
            \/ Fail(r) /\ UNCHANGED <<courses, proc, lectures>>
    /\ UNCHANGED <<calm, catalogue, accounts, loggedIn>>

CampusNext ==
    /\ UNCHANGED part
    /\ \/ part = "catalogue" /\ Next /\ UNCHANGED <<accounts, loggedIn, lectures, jobs>>
       \/ part = "accounts" /\ AccountsNext
       \/ part = "lectures" /\ LecturesNext

CampusSpec == CampusInit /\ [][CampusNext]_campusVars

-----------------------------------------------------------------------------
(* What was stored can be reached. However registrations overlap, an email *)
(* keeps leading to the account it first logged in to: a second account of *)
(* the email is never reached instead. When all is calm there is no second *)
(* one, and a lecture that has outlived its course is being removed.       *)
RecordsAreReachable ==
    /\ \A e \in Emails : loggedIn[e] # 0 => FindByEmail(e) = loggedIn[e]
    /\ calm =>
         /\ \A i \in DOMAIN accounts : FindByEmail(accounts[i].email) = i
         /\ \A l \in Lectures : lectures[l] # None /\ ~Open(lectures[l]) =>
               \E r \in Requests :
                   \/ jobs[r].op = "collect" /\ jobs[r].of = lectures[l]
                   \/ jobs[r].op = "sweep" /\ l \in jobs[r].left

=============================================================================
