---------------------------- MODULE CatalogueProofs ----------------------------
(***************************************************************************)
(* Why a session can be reached by its join code. A code belongs to one    *)
(* session from the draw to the end: while the session is created, the     *)
(* request holds the code and the table has no entry for it; afterwards    *)
(* the entry leads to the session (HeldCodes, PendingCodes, ActiveCodes).  *)
(* So what an ending session releases is its own.                          *)
(*                                                                         *)
(* Why accounts and lectures can be reached: the first record of an email  *)
(* stays the first (FirstRecords), and in calm use the professor has one   *)
(* request under way, which removes what it leaves without a course        *)
(* (LecturesInv).                                                          *)
(***************************************************************************)
EXTENDS Campus, SequenceTheorems, TLAPS

Session == [course : Courses, code : JoinCodes, status : {"active", "ended"}] \cup {Unborn}

(* What a request carries, by what it does.                                *)
Deletion == [op : {"delete"}, who : {Professor}, id : Courses,
             course : {None}, code : {None}, auto : {FALSE}]
Creation == [op : {"save", "publish"}, who : {Professor}, id : Sessions,
             course : Courses, code : JoinCodes, auto : {FALSE}]
Joining == [op : {"joined"}, who : Students, id : Sessions,
            course : {None}, code : {None}, auto : {FALSE}]
Enrolling == [op : {"enroll"}, who : Students, id : {None},
              course : Courses, code : {None}, auto : {FALSE}]
Changing == [op : {"update", "leave"}, who : Students, id : Enrollments,
             course : Courses, code : {None}, auto : BOOLEAN]
Other == {Idle} \cup Deletion \cup Joining \cup Enrolling \cup Changing

ProcTyped ==
    /\ sessions \in [Sessions -> Session]
    /\ proc \in [Requests -> Creation \cup Other]

HeldCodes ==
    \A k \in JoinCodes : codes[k] # None =>
        sessions[codes[k]] # Unborn /\ sessions[codes[k]].code = k

PendingCodes ==
    \A r \in Requests : proc[r] \in Creation =>
        /\ codes[proc[r].code] = None
        /\ IF proc[r].op = "save" THEN sessions[proc[r].id] = Unborn
           ELSE sessions[proc[r].id] # Unborn /\ sessions[proc[r].id].code = proc[r].code

DistinctCodes ==
    \A q, r \in Requests : q # r /\ proc[q] \in Creation /\ proc[r] \in Creation =>
        proc[q].code # proc[r].code /\ proc[q].id # proc[r].id

ActiveCodes ==
    \A s \in Sessions : sessions[s].status = "active" =>
        \/ codes[sessions[s].code] = s
        \/ \E r \in Requests : proc[r].op = "publish" /\ proc[r].id = s

(* A session that is being joined is there, and it has a course.           *)
JoinedBorn ==
    \A r \in Requests : proc[r].op = "joined" => sessions[proc[r].id] # Unborn

Codes == HeldCodes /\ PendingCodes /\ DistinctCodes /\ ActiveCodes /\ JoinedBorn
CodesOwned == TypeOK /\ ProcTyped /\ Codes

-----------------------------------------------------------------------------
LEMMA OpOfJob ==
    /\ Idle.op = "idle"
    /\ \A j \in Deletion : j.op = "delete"
    /\ \A j \in Creation : j.op \in {"save", "publish"}
    /\ \A j \in Joining : j.op = "joined"
    /\ \A j \in Enrolling : j.op = "enroll"
    /\ \A j \in Changing : j.op \in {"update", "leave"}
<1>1. Idle.op = "idle" BY DEF Idle
<1>2. \A j \in Deletion : j.op = "delete" BY DEF Deletion
<1>3. \A j \in Creation : j.op \in {"save", "publish"} BY DEF Creation
<1>4. \A j \in Joining : j.op = "joined" BY DEF Joining
<1>5. \A j \in Enrolling : j.op = "enroll" BY DEF Enrolling
<1>6. \A j \in Changing : j.op \in {"update", "leave"} BY DEF Changing
<1> QED BY <1>1, <1>2, <1>3, <1>4, <1>5, <1>6

LEMMA OtherIsNotCreation ==
    ASSUME NEW j \in Other
    PROVE  j \notin Creation /\ j.op # "publish" /\ j.op # "save"
BY OpOfJob DEF Other

LEMMA JoinedTyped ==
    ASSUME ProcTyped, NEW r \in Requests, proc[r].op = "joined"
    PROVE  proc[r].who \in Students /\ proc[r].id \in Sessions
<1>1. proc[r] \in Joining
  BY OpOfJob DEF ProcTyped, Other
<1> QED BY <1>1 DEF Joining

LEMMA CodesOwnedInit == Init => CodesOwned
<1> SUFFICES ASSUME Init PROVE CodesOwned
  OBVIOUS
<1>1. TypeOK
  BY DEF Init, TypeOK, Modes
<1>2. ProcTyped
  BY DEF Init, ProcTyped, Session, Other
<1>3. HeldCodes
  BY DEF Init, HeldCodes
<1>4. \A r \in Requests : proc[r] \in Other
  BY DEF Init, Other
<1>5. PendingCodes /\ DistinctCodes
  BY <1>4, OtherIsNotCreation DEF PendingCodes, DistinctCodes
<1>6. ActiveCodes
  BY DEF Init, ActiveCodes, Unborn
<1>7. JoinedBorn
  BY DEF Init, JoinedBorn, Idle
<1> QED BY <1>1, <1>2, <1>3, <1>5, <1>6, <1>7 DEF CodesOwned, Codes

(* A request that creates no session, before and after, and writes neither *)
(* sessions nor codes.                                                     *)
LEMMA OtherRequest ==
    ASSUME CodesOwned, NEW r \in Requests, proc[r] \in Other, NEW j \in Other,
           j.op = "joined" => sessions[j.id] # Unborn,
           proc' = [proc EXCEPT ![r] = j], UNCHANGED <<sessions, codes>>
    PROVE  ProcTyped' /\ Codes'
<1> USE DEF CodesOwned, Codes
<1>0. proc[r] \notin Creation /\ proc[r].op # "publish"
  BY OtherIsNotCreation
<1>1. j \notin Creation /\ j.op # "publish"
  BY OtherIsNotCreation
<1>2. proc'[r] = j /\ \A q \in Requests : q # r => proc'[q] = proc[q]
  BY DEF ProcTyped
<1>3. ProcTyped'
  BY DEF ProcTyped
<1>4. HeldCodes'
  BY DEF HeldCodes
<1>5. PendingCodes'
  BY <1>1, <1>2 DEF PendingCodes
<1>6. DistinctCodes'
  BY <1>1, <1>2 DEF DistinctCodes
<1>7. ActiveCodes'
  <2> SUFFICES ASSUME NEW s \in Sessions, sessions[s].status = "active",
                      NEW q \in Requests, proc[q].op = "publish", proc[q].id = s
               PROVE  proc'[q].op = "publish" /\ proc'[q].id = s
    BY DEF ActiveCodes
  <2> QED BY <1>0, <1>2
<1>8. JoinedBorn'
  BY <1>2 DEF JoinedBorn
<1> QED BY <1>3, <1>4, <1>5, <1>6, <1>7, <1>8

-----------------------------------------------------------------------------
(* The three steps of a creation and the end of a session.                 *)
LEMMA DrawStep ==
    ASSUME CodesOwned, NEW r \in Requests, NEW s \in Sessions, NEW c \in Courses,
           NEW k \in JoinCodes, CreateSessionDraw(r, s, c, k)
    PROVE  CodesOwned'
<1> USE DEF CodesOwned, Codes
<1> DEFINE j == [Job("save", Professor, s) EXCEPT !.course = c, !.code = k]
<1>1. j \in Creation /\ j.op = "save" /\ j.id = s /\ j.code = k
  BY DEF Job, Idle, Creation
<1>2. /\ proc' = [proc EXCEPT ![r] = j] /\ UNCHANGED <<store, answered>>
      /\ proc[r] = Idle /\ sessions[s] = Unborn /\ codes[k] = None
      /\ \A q \in Requests : proc[q].id # s /\ proc[q].code # k
  BY DEF CreateSessionDraw, Begin, Free, Unmentioned, Taken
<1> HIDE DEF j
<1>3. UNCHANGED <<courses, sessions, codes, enrollments>>
  BY <1>2 DEF store
<1>4. proc'[r] = j /\ \A q \in Requests : q # r => proc'[q] = proc[q]
  BY <1>2 DEF ProcTyped
<1>5. TypeOK'
  BY <1>2, <1>3 DEF TypeOK
<1>6. ProcTyped'
  BY <1>1, <1>2, <1>3 DEF ProcTyped
<1>7. HeldCodes'
  BY <1>3 DEF HeldCodes
<1>8. PendingCodes'
  BY <1>1, <1>2, <1>3, <1>4 DEF PendingCodes
<1>9. DistinctCodes'
  BY <1>1, <1>2, <1>4 DEF DistinctCodes
<1>10. ActiveCodes'
  <2>1. proc[r].op # "publish"
    BY <1>2 DEF Idle
  <2> QED BY <2>1, <1>3, <1>4 DEF ActiveCodes
<1>11. JoinedBorn'
  BY <1>1, <1>3, <1>4 DEF JoinedBorn
<1> QED BY <1>5, <1>6, <1>7, <1>8, <1>9, <1>10, <1>11

LEMMA CreationOps ==
    ASSUME CodesOwned, NEW r \in Requests, proc[r].op \in {"save", "publish"}
    PROVE  proc[r] \in Creation
BY OtherIsNotCreation DEF CodesOwned, ProcTyped

LEMMA SaveStep ==
    ASSUME CodesOwned, NEW r \in Requests, SaveSession(r)
    PROVE  CodesOwned'
<1> USE DEF CodesOwned, Codes
<1> DEFINE p == proc[r]
           t == [course |-> p.course, code |-> p.code, status |-> "active"]
           j == [p EXCEPT !.op = "publish"]
<1>0. p \in Creation /\ p.op = "save"
  BY CreationOps DEF SaveSession
<1>1. j \in Creation /\ j.op = "publish" /\ j.id = p.id /\ j.code = p.code
  BY <1>0 DEF Creation
<1>2. t \in Session /\ t # Unborn /\ t.code = p.code /\ t.status = "active"
  BY <1>0 DEF Creation, Session, Unborn
<1>3. /\ sessions' = [sessions EXCEPT ![p.id] = t]
      /\ proc' = [proc EXCEPT ![r] = j]
      /\ UNCHANGED <<courses, codes, enrollments, answered>>
  BY DEF SaveSession, Begin
<1>4. p.id \in Sessions /\ p.code \in JoinCodes /\ sessions[p.id] = Unborn /\ codes[p.code] = None
  BY <1>0 DEF Creation, PendingCodes
<1> HIDE DEF j, t
<1>5. proc'[r] = j /\ \A q \in Requests : q # r => proc'[q] = proc[q]
  BY <1>3 DEF ProcTyped
<1>6. sessions'[p.id] = t /\ \A s \in Sessions : s # p.id => sessions'[s] = sessions[s]
  BY <1>3, <1>4 DEF ProcTyped
<1>7. TypeOK'
  BY <1>3 DEF TypeOK
<1>8. ProcTyped'
  BY <1>1, <1>2, <1>3 DEF ProcTyped
<1>9. HeldCodes'
  <2> SUFFICES ASSUME NEW k \in JoinCodes, codes[k] # None
               PROVE  sessions'[codes[k]] # Unborn /\ sessions'[codes[k]].code = k
    BY <1>3 DEF HeldCodes
  <2>1. codes[k] \in Sessions /\ sessions[codes[k]] # Unborn /\ sessions[codes[k]].code = k
    BY DEF HeldCodes, TypeOK
  <2> QED BY <2>1, <1>4, <1>6
<1>10. PendingCodes'
  <2> SUFFICES ASSUME NEW q \in Requests, proc'[q] \in Creation
               PROVE  /\ codes[proc'[q].code] = None
                      /\ IF proc'[q].op = "save" THEN sessions'[proc'[q].id] = Unborn
                         ELSE sessions'[proc'[q].id] # Unborn
                              /\ sessions'[proc'[q].id].code = proc'[q].code
    BY <1>3 DEF PendingCodes
  <2>1. CASE q = r
    BY <2>1, <1>1, <1>2, <1>4, <1>5, <1>6
  <2>2. CASE q # r
    <3>1. proc'[q] = proc[q] /\ proc[q].id # p.id /\ proc[q].id \in Sessions
      BY <2>2, <1>0, <1>5 DEF DistinctCodes, Creation
    <3> QED BY <3>1, <1>6 DEF PendingCodes
  <2> QED BY <2>1, <2>2
<1>11. DistinctCodes'
  BY <1>0, <1>1, <1>5 DEF DistinctCodes
<1>12. ActiveCodes'
  <2> SUFFICES ASSUME NEW s \in Sessions, sessions'[s].status = "active"
               PROVE  \/ codes[sessions'[s].code] = s
                      \/ \E q \in Requests : proc'[q].op = "publish" /\ proc'[q].id = s
    BY <1>3 DEF ActiveCodes
  <2>1. CASE s = p.id
    BY <2>1, <1>1, <1>5
  <2>2. CASE s # p.id
    <3>1. \A q \in Requests : proc[q].op = "publish" => q # r
      BY <1>0
    <3> QED BY <3>1, <2>2, <1>5, <1>6 DEF ActiveCodes
  <2> QED BY <2>1, <2>2
<1>13. JoinedBorn'
  <2> SUFFICES ASSUME NEW q \in Requests, proc'[q].op = "joined"
               PROVE  sessions'[proc'[q].id] # Unborn
    BY DEF JoinedBorn
  <2>1. /\ proc'[q] = proc[q] /\ sessions[proc[q].id] # Unborn
        /\ proc[q].id \in Sessions
    BY <1>1, <1>5, JoinedTyped DEF JoinedBorn
  <2> QED BY <2>1, <1>2, <1>6
<1> QED BY <1>7, <1>8, <1>9, <1>10, <1>11, <1>12, <1>13

LEMMA PublishStep ==
    ASSUME CodesOwned, NEW r \in Requests, PublishCode(r)
    PROVE  CodesOwned'
<1> USE DEF CodesOwned, Codes
<1> DEFINE p == proc[r]
<1>0. p \in Creation /\ p.op = "publish"
  BY CreationOps DEF PublishCode
<1>1. /\ codes' = [codes EXCEPT ![p.code] = p.id]
      /\ proc' = [proc EXCEPT ![r] = Idle]
      /\ UNCHANGED <<courses, sessions, enrollments, answered>>
  BY DEF PublishCode, Finish
<1>2. /\ p.id \in Sessions /\ p.code \in JoinCodes
      /\ sessions[p.id] # Unborn /\ sessions[p.id].code = p.code /\ codes[p.code] = None
  BY <1>0 DEF Creation, PendingCodes
<1>3. Idle \in Other /\ Idle \notin Creation
  BY OtherIsNotCreation DEF Other
<1>4. proc'[r] = Idle /\ \A q \in Requests : q # r => proc'[q] = proc[q]
  BY <1>1 DEF ProcTyped
<1>5. codes'[p.code] = p.id /\ \A k \in JoinCodes : k # p.code => codes'[k] = codes[k]
  BY <1>1, <1>2 DEF TypeOK
<1>6. TypeOK'
  BY <1>1, <1>2 DEF TypeOK
<1>7. ProcTyped'
  BY <1>1, <1>3 DEF ProcTyped
<1>8. HeldCodes'
  BY <1>1, <1>2, <1>5 DEF HeldCodes
<1>9. PendingCodes'
  <2> SUFFICES ASSUME NEW q \in Requests, q # r, proc[q] \in Creation
               PROVE  codes'[proc[q].code] = None
    BY <1>1, <1>3, <1>4 DEF PendingCodes
  <2>1. proc[q].code # p.code /\ proc[q].code \in JoinCodes
    BY <1>0 DEF DistinctCodes, Creation
  <2> QED BY <2>1, <1>5 DEF PendingCodes
<1>10. DistinctCodes'
  BY <1>3, <1>4 DEF DistinctCodes
<1>11. ActiveCodes'
  <2> SUFFICES ASSUME NEW s \in Sessions, sessions[s].status = "active"
               PROVE  \/ codes'[sessions[s].code] = s
                      \/ \E q \in Requests : proc'[q].op = "publish" /\ proc'[q].id = s
    BY <1>1 DEF ActiveCodes
  <2>1. sessions[s].code \in JoinCodes
    BY DEF ProcTyped, Session, Unborn
  <2>2. CASE codes[sessions[s].code] = s
    <3>1. sessions[s].code # p.code
      BY <2>2, <1>2, ConstantsAssumption
    <3> QED BY <3>1, <2>1, <2>2, <1>5
  <2>3. CASE \E q \in Requests : proc[q].op = "publish" /\ proc[q].id = s
    <3> PICK q \in Requests : proc[q].op = "publish" /\ proc[q].id = s
      BY <2>3
    <3>1. CASE q = r
      BY <3>1, <1>2, <1>5
    <3>2. CASE q # r
      BY <3>2, <1>4
    <3> QED BY <3>1, <3>2
  <2> QED BY <2>2, <2>3 DEF ActiveCodes
<1>12. JoinedBorn'
  BY <1>1, <1>4 DEF JoinedBorn, Idle
<1> QED BY <1>6, <1>7, <1>8, <1>9, <1>10, <1>11, <1>12

LEMMA EndStep ==
    ASSUME CodesOwned, NEW s \in Sessions, EndSession(s)
    PROVE  CodesOwned'
<1> USE DEF CodesOwned, Codes
<1> DEFINE k == sessions[s].code
           t == [sessions[s] EXCEPT !.status = "ended"]
<1>1. /\ sessions[s] # Unborn /\ sessions' = [sessions EXCEPT ![s] = t]
      /\ codes' = Released(s) /\ UNCHANGED <<courses, enrollments, answered, proc>>
  BY DEF EndSession
<1>2. k \in JoinCodes /\ t \in Session /\ t.code = k /\ t.status = "ended" /\ t # Unborn
  BY <1>1 DEF ProcTyped, Session, Unborn
<1> HIDE DEF t
<1>3. sessions'[s] = t /\ \A u \in Sessions : u # s => sessions'[u] = sessions[u]
  BY <1>1 DEF ProcTyped
<1>4. \A l \in JoinCodes :
         \/ codes'[l] = codes[l]
         \/ l = k /\ codes'[l] = None /\ sessions[s].status = "active"
  <2>1. CASE sessions[s].status = "active"
    BY <2>1, <1>1, <1>2 DEF Released, TypeOK
  <2>2. CASE sessions[s].status # "active"
    BY <2>2, <1>1 DEF Released
  <2> QED BY <2>1, <2>2
<1>5. codes' \in [JoinCodes -> Sessions \cup {None}]
  BY <1>1, <1>2 DEF Released, TypeOK
<1>6. TypeOK'
  BY <1>1, <1>5 DEF TypeOK
<1>7. ProcTyped'
  BY <1>1, <1>2 DEF ProcTyped
<1>8. HeldCodes'
  <2> SUFFICES ASSUME NEW l \in JoinCodes, codes'[l] # None
               PROVE  sessions'[codes'[l]] # Unborn /\ sessions'[codes'[l]].code = l
    BY DEF HeldCodes
  <2>1. /\ codes'[l] = codes[l] /\ codes[l] \in Sessions
        /\ sessions[codes[l]] # Unborn /\ sessions[codes[l]].code = l
    BY <1>4 DEF HeldCodes, TypeOK
  <2> QED BY <2>1, <1>2, <1>3
<1>9. PendingCodes'
  <2> SUFFICES ASSUME NEW r \in Requests, proc[r] \in Creation
               PROVE  /\ codes'[proc[r].code] = None
                      /\ IF proc[r].op = "save" THEN sessions'[proc[r].id] = Unborn
                         ELSE sessions'[proc[r].id] # Unborn
                              /\ sessions'[proc[r].id].code = proc[r].code
    BY <1>1 DEF PendingCodes
  <2>1. proc[r].code \in JoinCodes /\ proc[r].id \in Sessions
    BY DEF Creation
  <2> QED BY <2>1, <1>1, <1>2, <1>3, <1>4 DEF PendingCodes
<1>10. DistinctCodes'
  BY <1>1 DEF DistinctCodes
<1>11. ActiveCodes'
  <2> SUFFICES ASSUME NEW u \in Sessions, sessions'[u].status = "active"
               PROVE  \/ codes'[sessions'[u].code] = u
                      \/ \E r \in Requests : proc[r].op = "publish" /\ proc[r].id = u
    BY <1>1 DEF ActiveCodes
  <2>1. u # s /\ sessions'[u] = sessions[u] /\ sessions[u].code \in JoinCodes
    BY <1>2, <1>3 DEF ProcTyped, Session, Unborn
  <2>2. ASSUME codes[sessions[u].code] = u
        PROVE  codes'[sessions[u].code] = u
    <3> SUFFICES ASSUME sessions[u].code = k, sessions[s].status = "active" PROVE FALSE
      BY <2>1, <2>2, <1>4
    <3>1. codes[k] # None
      BY <2>2, ConstantsAssumption
    <3>2. PICK r \in Requests : proc[r].op = "publish" /\ proc[r].id = s
      BY <2>1, <2>2 DEF ActiveCodes
    <3>3. proc[r] \in Creation
      BY <3>2, CreationOps
    <3> QED BY <3>1, <3>2, <3>3 DEF PendingCodes
  <2> QED BY <2>1, <2>2 DEF ActiveCodes
<1>12. JoinedBorn'
  <2> SUFFICES ASSUME NEW r \in Requests, proc[r].op = "joined"
               PROVE  sessions'[proc[r].id] # Unborn
    BY <1>1 DEF JoinedBorn
  <2>1. sessions[proc[r].id] # Unborn /\ proc[r].id \in Sessions
    BY JoinedTyped DEF JoinedBorn
  <2> QED BY <2>1, <1>2, <1>3
<1> QED BY <1>6, <1>7, <1>8, <1>9, <1>10, <1>11, <1>12

-----------------------------------------------------------------------------
(* What students are told and what is stored of them keep their type.      *)
LEMMA ToldTyped ==
    ASSUME answered \in [Students \X Courses -> Modes],
           NEW u \in Students, NEW c \in Courses, NEW mode \in Modes, Told(u, c, mode)
    PROVE  answered' \in [Students \X Courses -> Modes]
BY DEF Told

LEMMA ModeTyped == ASSUME NEW i PROVE Mode(i) \in Modes
BY DEF Mode, Modes

(* A step of a request that creates no session.                            *)
LEMMA OtherStep ==
    ASSUME CodesOwned, NEW r \in Requests, proc[r] \in Other, NEW j \in Other,
           j.op = "joined" => sessions[j.id] # Unborn,
           proc' = [proc EXCEPT ![r] = j], UNCHANGED <<sessions, codes>>,
           courses' \in [Courses -> CourseCodes \cup {"fresh", "deleted"}],
           enrollments' \in [Enrollments -> Membership \cup {None}],
           answered' \in [Students \X Courses -> Modes]
    PROVE  CodesOwned'
<1>1. TypeOK'
  BY DEF CodesOwned, TypeOK
<1> QED BY <1>1, OtherRequest DEF CodesOwned

LEMMA IdleIsOther == Idle \in Other /\ Idle.op # "joined"
BY DEF Other, Idle

LEMMA OtherOps ==
    ASSUME CodesOwned, NEW r \in Requests, proc[r].op \notin {"save", "publish"}
    PROVE  proc[r] \in Other
BY OpOfJob DEF CodesOwned, ProcTyped

LEMMA FindOrCreateStep ==
    ASSUME CodesOwned, NEW r \in Requests, proc[r] \in Other, NEW u \in Students,
           NEW c \in Courses, FindOrCreate(r, u, c), UNCHANGED store
    PROVE  CodesOwned'
<1>1. UNCHANGED <<courses, sessions, codes, enrollments>>
  BY DEF store
<1>2. CASE Found(u, c) = {} /\ Begin(r, [Job("enroll", u, None) EXCEPT !.course = c])
           /\ UNCHANGED answered
  <2> DEFINE j == [Job("enroll", u, None) EXCEPT !.course = c]
  <2>1. j \in Other /\ j.op # "joined"
    BY DEF Job, Idle, Other, Enrolling
  <2>2. proc' = [proc EXCEPT ![r] = j] /\ answered' = answered
    BY <1>2 DEF Begin
  <2> HIDE DEF j
  <2> QED BY <1>1, <2>1, <2>2, OtherStep DEF CodesOwned, TypeOK
<1>3. ASSUME NEW i \in Found(u, c), Told(u, c, Mode(i)), Finish(r)
      PROVE  CodesOwned'
  <2>1. answered' \in [Students \X Courses -> Modes]
    BY <1>3, ModeTyped, ToldTyped DEF CodesOwned, TypeOK
  <2>2. proc' = [proc EXCEPT ![r] = Idle]
    BY <1>3 DEF Finish
  <2> QED BY <1>1, <2>1, <2>2, IdleIsOther, OtherStep DEF CodesOwned, TypeOK
<1> QED BY <1>2, <1>3 DEF FindOrCreate

(* Requests that begin and write nothing yet.                              *)
LEMMA BeginStep ==
    ASSUME CodesOwned, NEW r \in Requests, NEW who, Free(r, who), NEW j \in Other,
           j.op = "joined" => sessions[j.id] # Unborn,
           Begin(r, j), UNCHANGED <<store, answered>>
    PROVE  CodesOwned'
<1>1. proc[r] \in Other /\ proc' = [proc EXCEPT ![r] = j]
  BY IdleIsOther DEF Free, Begin
<1> QED BY <1>1, OtherStep DEF store, CodesOwned, TypeOK

LEMMA ProfessionalStep ==
    ASSUME CodesOwned, NEW r \in Requests, Professional(r)
    PROVE  CodesOwned'
<1>1. ASSUME DeleteCourse(r) PROVE CodesOwned'
  <2>1. proc[r] \in Other
    BY <1>1, OtherOps DEF DeleteCourse
  <2>2. /\ proc' = [proc EXCEPT ![r] = Idle]
        /\ UNCHANGED <<sessions, codes, enrollments, answered>>
        /\ courses' = [courses EXCEPT ![proc[r].id] = "deleted"]
    BY <1>1 DEF DeleteCourse, Finish
  <2>3. courses' \in [Courses -> CourseCodes \cup {"fresh", "deleted"}]
    BY <2>2 DEF CodesOwned, TypeOK
  <2> QED BY <2>1, <2>2, <2>3, IdleIsOther, OtherStep DEF CodesOwned, TypeOK
<1>2. ASSUME NEW c \in Courses, DeleteCourseCheck(r, c) PROVE CodesOwned'
  <2>1. /\ Job("delete", Professor, c) \in Other
        /\ Job("delete", Professor, c).op # "joined"
    BY DEF Job, Idle, Other, Deletion
  <2> QED BY <1>2, <2>1, BeginStep DEF DeleteCourseCheck
<1> QED BY <1>1, <1>2, DrawStep, SaveStep, PublishStep DEF Professional

LEMMA StudiousStep ==
    ASSUME CodesOwned, NEW r \in Requests, Studious(r)
    PROVE  CodesOwned'
<1> DEFINE p == proc[r]
<1>1. ASSUME EnrollFromSession(r) PROVE CodesOwned'
  <2>1. p \in Other /\ p.op = "joined"
    BY <1>1, OtherOps DEF EnrollFromSession
  <2> DEFINE c == sessions[p.id].course
  <2>2. p.who \in Students /\ c \in Courses
    <3>1. p.who \in Students /\ p.id \in Sessions /\ sessions[p.id] # Unborn
      BY <2>1, JoinedTyped DEF CodesOwned, Codes, JoinedBorn
    <3> QED BY <3>1 DEF CodesOwned, ProcTyped, Session
  <2>3. CASE Open(c)
    <3>1. FindOrCreate(r, p.who, c) /\ UNCHANGED store
      BY <1>1, <2>3 DEF EnrollFromSession
    <3> QED BY <3>1, <2>1, <2>2, <2>3, FindOrCreateStep
  <2>4. CASE ~Open(c)
    <3>1. proc' = [proc EXCEPT ![r] = Idle] /\ UNCHANGED <<courses, sessions, codes, enrollments, answered>>
      BY <1>1, <2>4 DEF EnrollFromSession, Finish, store
    <3> QED BY <3>1, <2>1, IdleIsOther, OtherStep DEF CodesOwned, TypeOK
  <2> QED BY <2>3, <2>4
<1>2. ASSUME UpdateEnrollment(r) \/ DeleteEnrollment(r) PROVE CodesOwned'
  <2>1. p \in Other /\ p.op \in {"update", "leave"}
    BY <1>2, OtherOps DEF UpdateEnrollment, DeleteEnrollment
  <2>2. p.who \in Students /\ p.id \in Enrollments /\ p.course \in Courses /\ p.auto \in BOOLEAN
    <3>1. p \in Changing
      BY <2>1, OpOfJob DEF Other
    <3> QED BY <3>1 DEF Changing
  <2>3. proc' = [proc EXCEPT ![r] = Idle] /\ UNCHANGED <<courses, sessions, codes>>
    BY <1>2 DEF UpdateEnrollment, DeleteEnrollment, Finish
  <2>4. enrollments' \in [Enrollments -> Membership \cup {None}]
    BY <1>2, <2>2 DEF UpdateEnrollment, DeleteEnrollment, Membership, CodesOwned, TypeOK
  <2>5. answered' \in [Students \X Courses -> Modes]
    <3>1. \/ answered' = answered
          \/ \E mode \in Modes : Told(p.who, p.course, mode)
      BY <1>2 DEF UpdateEnrollment, DeleteEnrollment, Modes
    <3> QED BY <3>1, <2>2, ToldTyped DEF CodesOwned, TypeOK
  <2> QED BY <2>1, <2>3, <2>4, <2>5, IdleIsOther, OtherStep DEF CodesOwned, TypeOK
<1>3. ASSUME NEW i \in Enrollments, CreateEnrollment(r, i) PROVE CodesOwned'
  <2>1. p \in Other /\ p.op = "enroll"
    BY <1>3, OtherOps DEF CreateEnrollment
  <2>2. p.who \in Students /\ p.course \in Courses
    <3>1. p \in Enrolling
      BY <2>1, OpOfJob DEF Other
    <3> QED BY <3>1 DEF Enrolling
  <2>3. proc' = [proc EXCEPT ![r] = Idle] /\ UNCHANGED <<courses, sessions, codes>>
    BY <1>3 DEF CreateEnrollment, Finish
  <2>4. enrollments' \in [Enrollments -> Membership \cup {None}]
    BY <1>3, <2>2 DEF CreateEnrollment, Membership, CodesOwned, TypeOK
  <2>5. answered' \in [Students \X Courses -> Modes]
    BY <1>3, <2>2, ToldTyped DEF CreateEnrollment, Modes, CodesOwned, TypeOK
  <2> QED BY <2>1, <2>3, <2>4, <2>5, IdleIsOther, OtherStep DEF CodesOwned, TypeOK
<1>4. ASSUME NEW u \in Students, NEW k \in CourseCodes, EnrollByCode(r, u, k)
      PROVE  CodesOwned'
  <2>1. p \in Other
    BY <1>4, IdleIsOther DEF EnrollByCode, Free
  <2>2. PICK c \in Courses : FindOrCreate(r, u, c)
    BY <1>4 DEF EnrollByCode
  <2> QED BY <1>4, <2>1, <2>2, FindOrCreateStep DEF EnrollByCode
<1>5. ASSUME NEW u \in Students, NEW s \in Sessions, JoinSession(r, u, s)
      PROVE  CodesOwned'
  <2>1. Job("joined", u, s) \in Other /\ Job("joined", u, s).id = s
    BY DEF Job, Idle, Other, Joining
  <2> QED BY <1>5, <2>1, BeginStep DEF JoinSession
<1>6. ASSUME NEW u \in Students, NEW i \in Enrollments, DeleteEnrollmentCheck(r, u, i)
      PROVE  CodesOwned'
  <2> DEFINE j == [Job("leave", u, i) EXCEPT !.course = enrollments[i].course]
  <2>1. j \in Other /\ j.op # "joined"
    BY <1>6
    DEF DeleteEnrollmentCheck, Owned, CodesOwned, TypeOK, Membership, Job, Idle, Other, Changing
  <2>2. Free(r, u) /\ Begin(r, j) /\ UNCHANGED <<store, answered>>
    BY <1>6 DEF DeleteEnrollmentCheck
  <2> HIDE DEF j
  <2> QED BY <2>1, <2>2, BeginStep
<1>7. ASSUME NEW u \in Students, NEW i \in Enrollments, NEW auto \in BOOLEAN,
             UpdateEnrollmentCheck(r, u, i, auto)
      PROVE  CodesOwned'
  <2> DEFINE j == [Job("update", u, i) EXCEPT !.course = enrollments[i].course, !.auto = auto]
  <2>1. j \in Other /\ j.op # "joined"
    BY <1>7 DEF UpdateEnrollmentCheck, Owned, CodesOwned, TypeOK, Membership, Job, Idle, Other, Changing
  <2>2. Free(r, u) /\ Begin(r, j) /\ UNCHANGED <<store, answered>>
    BY <1>7 DEF UpdateEnrollmentCheck
  <2> HIDE DEF j
  <2> QED BY <2>1, <2>2, BeginStep
<1> QED BY <1>1, <1>2, <1>3, <1>4, <1>5, <1>6, <1>7 DEF Studious

LEMMA CodesOwnedStep == CodesOwned /\ [Next]_vars => CodesOwned'
<1> SUFFICES ASSUME CodesOwned, [Next]_vars PROVE CodesOwned'
  OBVIOUS
<1>1. ASSUME NEW c \in Courses, NEW k \in CourseCodes, CreateCourse(c, k) PROVE CodesOwned'
  <2>1. /\ UNCHANGED <<sessions, codes, enrollments, answered, proc>>
        /\ courses' \in [Courses -> CourseCodes \cup {"fresh", "deleted"}]
    BY <1>1 DEF CreateCourse, CodesOwned, TypeOK
  <2> QED BY <2>1 DEF CodesOwned, TypeOK, ProcTyped, Codes, HeldCodes,
                      PendingCodes, DistinctCodes, ActiveCodes, JoinedBorn
<1>2. CASE UNCHANGED vars
  <2>1. UNCHANGED <<courses, sessions, codes, enrollments, answered, proc>>
    BY <1>2 DEF vars, store
  <2> QED BY <2>1 DEF CodesOwned, TypeOK, ProcTyped, Codes, HeldCodes,
                      PendingCodes, DistinctCodes, ActiveCodes, JoinedBorn
<1> QED BY <1>1, <1>2, EndStep, ProfessionalStep, StudiousStep DEF Next

-----------------------------------------------------------------------------
LEMMA CodesOwnedAlways == Spec => []CodesOwned
BY CodesOwnedInit, CodesOwnedStep, PTL DEF Spec

(* The records of courses, enrolments and answers, and the table of codes, *)
(* keep their shape.                                                       *)
THEOREM CatalogueTyped == Spec => []TypeOK
<1>1. CodesOwned => TypeOK
  BY DEF CodesOwned
<1> QED BY <1>1, CodesOwnedAlways, PTL

(* A session that is active can be joined by the code that was answered,   *)
(* however many sessions are created, ended and ended again.               *)
THEOREM CodesReach == Spec => []ReachableByCode
<1>1. CodesOwned => ReachableByCode
  <2> SUFFICES ASSUME CodesOwned, NEW s \in Sessions, sessions[s].status = "active"
               PROVE  LET k == sessions[s].code IN
                      \/ Resolved(k) = s
                      \/ /\ Resolved(k) = None
                         /\ \E r \in Requests : proc[r].op = "publish" /\ proc[r].id = s
    BY DEF ReachableByCode
  <2> DEFINE k == sessions[s].code
  <2>1. CASE codes[k] = s
    BY <2>1, ConstantsAssumption DEF Resolved
  <2>2. CASE \E r \in Requests : proc[r].op = "publish" /\ proc[r].id = s
    <3> PICK r \in Requests : proc[r].op = "publish" /\ proc[r].id = s
      BY <2>2
    <3>1. proc[r] \in Creation
      BY CreationOps
    <3>2. codes[k] = None
      BY <3>1 DEF CodesOwned, Codes, PendingCodes
    <3> QED BY <2>2, <3>2 DEF Resolved
  <2> QED BY <2>1, <2>2 DEF CodesOwned, Codes, ActiveCodes
<1> QED BY <1>1, CodesOwnedAlways, PTL

-----------------------------------------------------------------------------
(* Answers. While each student waits for an answer, a request works for a  *)
(* student alone: what it has found of the student's enrolments is still   *)
(* so when it writes.                                                      *)
Waiting ==
    \A q, r \in Requests :
        q # r /\ proc[q] # Idle /\ proc[r] # Idle => proc[q].who # proc[r].who

StillFound(j) ==
    /\ j.op = "enroll" => Found(j.who, j.course) = {}
    /\ j.op \in {"update", "leave"} => j.id \in Found(j.who, j.course)

FindingsHold == \A r \in Requests : StillFound(proc[r])

TrueAnswers == \A u \in Students, c \in Courses : TrueAnswer(u, c)

Calm == calm => Waiting /\ FindingsHold /\ TrueAnswers

LEMMA CalmInit == Init => Calm
<1> SUFFICES ASSUME Init PROVE Calm
  OBVIOUS
<1>1. Waiting
  BY DEF Init, Waiting
<1>2. FindingsHold
  BY DEF Init, FindingsHold, StillFound, Idle
<1>3. TrueAnswers
  BY DEF Init, TrueAnswers, TrueAnswer, Found
<1> QED BY <1>1, <1>2, <1>3 DEF Calm

(* Steps that leave the enrolments and the answers as they are.            *)
LEMMA CalmFrame ==
    ASSUME CodesOwned, Calm, NEW r \in Requests, NEW j, proc' = [proc EXCEPT ![r] = j],
           UNCHANGED <<calm, enrollments, answered>>,
           calm => StillFound(j),
           \/ j = Idle
           \/ proc[r] # Idle /\ j.who = proc[r].who
           \/ calm => \A q \in Requests : proc[q].who # j.who
    PROVE  Calm'
<1> SUFFICES ASSUME calm PROVE Waiting' /\ FindingsHold' /\ TrueAnswers'
  BY DEF Calm
<1>1. proc'[r] = j /\ \A q \in Requests : q # r => proc'[q] = proc[q]
  BY DEF CodesOwned, ProcTyped
<1>2. Waiting'
  BY <1>1 DEF Calm, Waiting
<1>3. \A u, c : Found(u, c)' = Found(u, c)
  BY DEF Found
<1>4. FindingsHold'
  BY <1>1, <1>3 DEF Calm, FindingsHold, StillFound
<1>5. TrueAnswers'
  BY <1>3 DEF Calm, TrueAnswers, TrueAnswer, Mode
<1> QED BY <1>2, <1>4, <1>5

(* A request that writes the one record of its student in a course and     *)
(* answers what it has written.                                            *)
LEMMA CalmWrite ==
    ASSUME CodesOwned, Calm, calm, calm' = calm,
           NEW r \in Requests, proc[r] # Idle, proc' = [proc EXCEPT ![r] = Idle],
           NEW u \in Students, u = proc[r].who, NEW c \in Courses, NEW i \in Enrollments,
           Found(u, c) \subseteq {i}, enrollments[i] # None => i \in Found(u, c),
           NEW v \in Membership \cup {None}, NEW mode,
           enrollments' = [enrollments EXCEPT ![i] = v],
           answered' = [answered EXCEPT ![<<u, c>>] = mode],
           \/ v = None /\ mode = "out"
           \/ /\ v # None /\ v.who = u /\ v.course = c
              /\ mode = IF v.auto THEN "auto" ELSE "manual"
    PROVE  Calm'
<1>1. proc'[r] = Idle /\ \A q \in Requests : q # r => proc'[q] = proc[q]
  BY DEF CodesOwned, ProcTyped
<1>2. enrollments'[i] = v /\ \A k \in Enrollments : k # i => enrollments'[k] = enrollments[k]
  BY DEF CodesOwned, TypeOK
<1>3. Waiting'
  BY <1>1 DEF Calm, Waiting
<1>4. ASSUME NEW w, NEW d, w # u \/ d # c
      PROVE  i \notin Found(w, d) /\ Found(w, d)' = Found(w, d)
  <2>1. i \notin Found(w, d)
    BY <1>4 DEF Found
  <2>2. \A k \in Enrollments : k \in Found(w, d)' <=> k \in Found(w, d)
    BY <1>2, <1>4, <2>1 DEF Found
  <2>3. Found(w, d) \subseteq Enrollments /\ Found(w, d)' \subseteq Enrollments
    BY DEF Found
  <2> QED BY <2>1, <2>2, <2>3
<1>5. FindingsHold'
  <2> SUFFICES ASSUME NEW q \in Requests PROVE StillFound(proc[q])'
    BY DEF FindingsHold
  <2>1. CASE q = r
    BY <2>1, <1>1 DEF StillFound, Idle
  <2>2. CASE q # r /\ proc[q] = Idle
    BY <2>2, <1>1 DEF StillFound, Idle
  <2>3. CASE q # r /\ proc[q] # Idle
    <3>1. proc[q].who # u
      BY <2>3 DEF Calm, Waiting
    <3>2. Found(proc[q].who, proc[q].course)' = Found(proc[q].who, proc[q].course)
      BY <1>1, <1>4, <2>3, <3>1
    <3> QED BY <1>1, <2>3, <3>2 DEF Calm, FindingsHold, StillFound
  <2> QED BY <2>1, <2>2, <2>3
<1>6. ASSUME NEW w \in Students, NEW d \in Courses, w # u \/ d # c
      PROVE  TrueAnswer(w, d)'
  <2>1. answered'[<<w, d>>] = answered[<<w, d>>]
    BY <1>6 DEF CodesOwned, TypeOK
  <2>2. TrueAnswer(w, d)
    BY DEF Calm, TrueAnswers
  <2>3. \A k \in Found(w, d) : Mode(k)' = Mode(k)
    BY <1>2, <1>4, <1>6 DEF Mode, Found
  <2> QED BY <1>4, <1>6, <2>1, <2>2, <2>3 DEF TrueAnswer
<1>7. TrueAnswer(u, c)'
  <2>1. answered'[<<u, c>>] = mode
    BY DEF CodesOwned, TypeOK
  <2>2. \A k \in Enrollments : k # i => k \notin Found(u, c)'
    BY <1>2 DEF Found
  <2>3. CASE v = None
    <3>1. Found(u, c)' = {}
      BY <2>2, <2>3, <1>2 DEF Found
    <3> QED BY <2>1, <2>3, <3>1 DEF TrueAnswer
  <2>4. CASE v # None
    <3>1. i \in Found(u, c)'
      BY <2>4, <1>2 DEF Found
    <3>2. Found(u, c)' = {i}
      BY <2>2, <3>1 DEF Found
    <3>3. Mode(i)' = mode
      BY <2>4, <1>2 DEF Mode
    <3> QED BY <2>1, <2>4, <3>1, <3>2, <3>3 DEF TrueAnswer
  <2> QED BY <2>3, <2>4
<1> QED BY <1>3, <1>5, <1>6, <1>7 DEF Calm, TrueAnswers

LEMMA CalmFind ==
    ASSUME CodesOwned, Calm, NEW r \in Requests, NEW u \in Students, NEW c \in Courses,
           FindOrCreate(r, u, c), UNCHANGED <<calm, enrollments>>,
           \/ proc[r] # Idle /\ proc[r].who = u
           \/ calm => \A q \in Requests : proc[q].who # u
    PROVE  Calm'
<1>1. CASE Found(u, c) = {} /\ Begin(r, [Job("enroll", u, None) EXCEPT !.course = c])
           /\ UNCHANGED answered
  <2> DEFINE j == [Job("enroll", u, None) EXCEPT !.course = c]
  <2>1. j.op = "enroll" /\ j.who = u /\ j.course = c
    BY DEF Job, Idle
  <2>2. proc' = [proc EXCEPT ![r] = j] /\ answered' = answered
    BY <1>1 DEF Begin
  <2> HIDE DEF j
  <2>3. StillFound(j)
    BY <1>1, <2>1 DEF StillFound
  <2> QED BY <2>1, <2>2, <2>3, CalmFrame
<1>2. ASSUME NEW i \in Found(u, c), Told(u, c, Mode(i)), Finish(r) PROVE Calm'
  <2> SUFFICES ASSUME calm PROVE Calm'
    BY DEF Calm
  <2>1. answered[<<u, c>>] = Mode(i)
    BY DEF Calm, TrueAnswers, TrueAnswer
  <2>2. answered' = answered
    BY <1>2, <2>1 DEF Told, CodesOwned, TypeOK
  <2>3. proc' = [proc EXCEPT ![r] = Idle]
    BY <1>2 DEF Finish
  <2>4. StillFound(Idle)
    BY DEF StillFound, Idle
  <2> QED BY <2>2, <2>3, <2>4, CalmFrame
<1> QED BY <1>1, <1>2 DEF FindOrCreate

LEMMA OthersFree ==
    ASSUME NEW r \in Requests, NEW who, Free(r, who)
    PROVE  calm => \A q \in Requests : proc[q].who # who
BY DEF Free

LEMMA CalmProfessional ==
    ASSUME CodesOwned, Calm, NEW r \in Requests, Professional(r), calm' = calm
    PROVE  Calm'
<1>1. ASSUME DeleteCourse(r) \/ PublishCode(r) PROVE Calm'
  <2>1. proc' = [proc EXCEPT ![r] = Idle] /\ UNCHANGED <<enrollments, answered>>
    BY <1>1 DEF DeleteCourse, PublishCode, Finish
  <2> QED BY <2>1, CalmFrame DEF StillFound, Idle
<1>2. ASSUME SaveSession(r) PROVE Calm'
  <2> DEFINE j == [proc[r] EXCEPT !.op = "publish"]
  <2>1. proc[r] \in Creation /\ proc[r].op = "save"
    BY <1>2, CreationOps DEF SaveSession
  <2>2. j.op = "publish" /\ j.who = proc[r].who
    BY <2>1 DEF Creation
  <2>3. proc' = [proc EXCEPT ![r] = j] /\ UNCHANGED <<enrollments, answered>>
    BY <1>2 DEF SaveSession, Begin
  <2> HIDE DEF j
  <2> QED BY <2>1, <2>2, <2>3, OpOfJob, CalmFrame DEF StillFound
<1>3. ASSUME NEW c \in Courses, DeleteCourseCheck(r, c) PROVE Calm'
  <2> DEFINE j == Job("delete", Professor, c)
  <2>1. j.op = "delete" /\ j.who = Professor
    BY DEF Job, Idle
  <2>2. /\ proc' = [proc EXCEPT ![r] = j] /\ UNCHANGED <<enrollments, answered>>
        /\ Free(r, Professor)
    BY <1>3 DEF DeleteCourseCheck, Begin, store
  <2> HIDE DEF j
  <2> QED BY <2>1, <2>2, OthersFree, CalmFrame DEF StillFound
<1>4. ASSUME NEW c \in Courses, NEW s \in Sessions, NEW k \in JoinCodes,
             CreateSessionDraw(r, s, c, k)
      PROVE  Calm'
  <2> DEFINE j == [Job("save", Professor, s) EXCEPT !.course = c, !.code = k]
  <2>1. j.op = "save" /\ j.who = Professor
    BY DEF Job, Idle
  <2>2. /\ proc' = [proc EXCEPT ![r] = j] /\ UNCHANGED <<enrollments, answered>>
        /\ Free(r, Professor)
    BY <1>4 DEF CreateSessionDraw, Begin, store
  <2> HIDE DEF j
  <2> QED BY <2>1, <2>2, OthersFree, CalmFrame DEF StillFound
<1> QED BY <1>1, <1>2, <1>3, <1>4 DEF Professional

(* The three steps that write an enrolment.                                *)
LEMMA CalmCreate ==
    ASSUME CodesOwned, Calm, calm, calm' = calm, NEW r \in Requests,
           NEW i \in Enrollments, CreateEnrollment(r, i)
    PROVE  Calm'
<1> DEFINE p == proc[r]
           v == [who |-> p.who, course |-> p.course, auto |-> FALSE]
<1>1. p \in Enrolling /\ p.op = "enroll"
  BY OtherOps, OpOfJob DEF CreateEnrollment, Other
<1>2. p.who \in Students /\ p.course \in Courses /\ p # Idle
  BY <1>1, OpOfJob DEF Enrolling
<1>3. v \in Membership /\ v.who = p.who /\ v.course = p.course /\ v.auto = FALSE
  BY <1>2 DEF Membership
<1>4. v # None
  BY <1>3, ConstantsAssumption
<1>5. Found(p.who, p.course) = {}
  BY <1>1 DEF Calm, FindingsHold, StillFound
<1>6. /\ enrollments[i] = None /\ enrollments' = [enrollments EXCEPT ![i] = v]
      /\ answered' = [answered EXCEPT ![<<p.who, p.course>>] = "manual"]
      /\ proc' = [proc EXCEPT ![r] = Idle]
  BY DEF CreateEnrollment, Told, Finish
<1> HIDE DEF v
<1> QED BY <1>2, <1>3, <1>4, <1>5, <1>6, CalmWrite

LEMMA CalmChange ==
    ASSUME CodesOwned, Calm, calm, NEW r \in Requests, proc[r].op \in {"update", "leave"}
    PROVE  /\ proc[r].who \in Students /\ proc[r].course \in Courses
           /\ proc[r].id \in Enrollments /\ proc[r].auto \in BOOLEAN /\ proc[r] # Idle
           /\ Found(proc[r].who, proc[r].course) = {proc[r].id}
           /\ enrollments[proc[r].id] # None
<1> DEFINE p == proc[r]
<1>1. p \in Changing
  BY OtherOps, OpOfJob DEF Other
<1>2. /\ p.who \in Students /\ p.course \in Courses /\ p.id \in Enrollments
      /\ p.auto \in BOOLEAN /\ p # Idle
  BY <1>1, OpOfJob DEF Changing
<1>3. p.id \in Found(p.who, p.course)
  BY DEF Calm, FindingsHold, StillFound
<1>4. TrueAnswer(p.who, p.course)
  BY <1>2 DEF Calm, TrueAnswers
<1>5. Found(p.who, p.course) = {p.id}
  BY <1>3, <1>4 DEF TrueAnswer
<1>6. enrollments[p.id] # None
  BY <1>3 DEF Found
<1> QED BY <1>2, <1>5, <1>6

LEMMA CalmUpdate ==
    ASSUME CodesOwned, Calm, calm, calm' = calm, NEW r \in Requests, UpdateEnrollment(r)
    PROVE  Calm'
<1> DEFINE p == proc[r]
           v == [who |-> p.who, course |-> p.course, auto |-> p.auto]
           mode == IF p.auto THEN "auto" ELSE "manual"
<1>1. /\ p.who \in Students /\ p.course \in Courses /\ p.id \in Enrollments
      /\ p.auto \in BOOLEAN /\ p # Idle /\ Found(p.who, p.course) = {p.id}
  BY CalmChange DEF UpdateEnrollment
<1>2. v \in Membership /\ v.who = p.who /\ v.course = p.course /\ v.auto = p.auto
  BY <1>1 DEF Membership
<1>3. v # None
  BY <1>2, ConstantsAssumption
<1>4. /\ enrollments' = [enrollments EXCEPT ![p.id] = v]
      /\ answered' = [answered EXCEPT ![<<p.who, p.course>>] = mode]
      /\ proc' = [proc EXCEPT ![r] = Idle]
  BY DEF UpdateEnrollment, Told, Finish
<1>5. mode = IF v.auto THEN "auto" ELSE "manual"
  BY <1>2
<1> HIDE DEF v, mode
<1> QED BY <1>1, <1>2, <1>3, <1>4, <1>5, CalmWrite

LEMMA CalmDelete ==
    ASSUME CodesOwned, Calm, calm, calm' = calm, NEW r \in Requests, DeleteEnrollment(r)
    PROVE  Calm'
<1> DEFINE p == proc[r]
<1>1. /\ p.who \in Students /\ p.course \in Courses /\ p.id \in Enrollments
      /\ p # Idle /\ Found(p.who, p.course) = {p.id} /\ enrollments[p.id] # None
  BY CalmChange DEF DeleteEnrollment
<1>2. /\ enrollments' = [enrollments EXCEPT ![p.id] = None]
      /\ answered' = [answered EXCEPT ![<<p.who, p.course>>] = "out"]
      /\ proc' = [proc EXCEPT ![r] = Idle]
  BY <1>1 DEF DeleteEnrollment, Told, Finish
<1> QED BY <1>1, <1>2, CalmWrite

LEMMA CalmStudious ==
    ASSUME CodesOwned, Calm, calm, calm' = calm, NEW r \in Requests, Studious(r)
    PROVE  Calm'
<1>1. ASSUME EnrollFromSession(r) PROVE Calm'
  <2> DEFINE p == proc[r]
             c == sessions[p.id].course
  <2>1. p.op = "joined" /\ UNCHANGED enrollments
    BY <1>1 DEF EnrollFromSession, store
  <2>2. p # Idle /\ p.who \in Students /\ p.id \in Sessions /\ sessions[p.id] # Unborn
    BY <2>1, OpOfJob, JoinedTyped DEF CodesOwned, Codes, JoinedBorn
  <2>3. c \in Courses
    BY <2>2 DEF CodesOwned, ProcTyped, Session
  <2>4. CASE Open(c)
    <3>1. FindOrCreate(r, p.who, c)
      BY <1>1, <2>4 DEF EnrollFromSession
    <3> QED BY <3>1, <2>1, <2>2, <2>3, CalmFind
  <2>5. CASE ~Open(c)
    <3>1. proc' = [proc EXCEPT ![r] = Idle] /\ UNCHANGED answered
      BY <1>1, <2>5 DEF EnrollFromSession, Finish
    <3> QED BY <3>1, <2>1, CalmFrame DEF StillFound, Idle
  <2> QED BY <2>4, <2>5
<1>2. ASSUME NEW u \in Students, NEW k \in CourseCodes, EnrollByCode(r, u, k) PROVE Calm'
  <2>1. PICK c \in Courses : FindOrCreate(r, u, c)
    BY <1>2 DEF EnrollByCode
  <2>2. Free(r, u) /\ UNCHANGED enrollments
    BY <1>2 DEF EnrollByCode, store
  <2> QED BY <2>1, <2>2, OthersFree, CalmFind
<1>3. ASSUME NEW u \in Students, NEW s \in Sessions, JoinSession(r, u, s) PROVE Calm'
  <2> DEFINE j == Job("joined", u, s)
  <2>1. j.op = "joined" /\ j.who = u
    BY DEF Job, Idle
  <2>2. proc' = [proc EXCEPT ![r] = j] /\ Free(r, u) /\ UNCHANGED <<enrollments, answered>>
    BY <1>3 DEF JoinSession, Begin, store
  <2> HIDE DEF j
  <2> QED BY <2>1, <2>2, OthersFree, CalmFrame DEF StillFound
<1>4. ASSUME NEW u \in Students, NEW i \in Enrollments, DeleteEnrollmentCheck(r, u, i)
      PROVE  Calm'
  <2> DEFINE j == [Job("leave", u, i) EXCEPT !.course = enrollments[i].course]
  <2>1. j.op = "leave" /\ j.who = u /\ j.id = i /\ j.course = enrollments[i].course
    BY DEF Job, Idle
  <2>2. /\ proc' = [proc EXCEPT ![r] = j] /\ Free(r, u) /\ Owned(u, i)
        /\ UNCHANGED <<enrollments, answered>>
    BY <1>4 DEF DeleteEnrollmentCheck, Begin, store
  <2> HIDE DEF j
  <2>3. StillFound(j)
    BY <2>1, <2>2 DEF StillFound, Owned, Found
  <2> QED BY <2>1, <2>2, <2>3, OthersFree, CalmFrame
<1>5. ASSUME NEW u \in Students, NEW i \in Enrollments, NEW auto \in BOOLEAN,
             UpdateEnrollmentCheck(r, u, i, auto)
      PROVE  Calm'
  <2> DEFINE j == [Job("update", u, i) EXCEPT !.course = enrollments[i].course, !.auto = auto]
  <2>1. j.op = "update" /\ j.who = u /\ j.id = i /\ j.course = enrollments[i].course
    BY DEF Job, Idle
  <2>2. /\ proc' = [proc EXCEPT ![r] = j] /\ Free(r, u) /\ Owned(u, i)
        /\ UNCHANGED <<enrollments, answered>>
    BY <1>5 DEF UpdateEnrollmentCheck, Begin, store
  <2> HIDE DEF j
  <2>3. StillFound(j)
    BY <2>1, <2>2 DEF StillFound, Owned, Found
  <2> QED BY <2>1, <2>2, <2>3, OthersFree, CalmFrame
<1> QED BY <1>1, <1>2, <1>3, <1>4, <1>5, CalmCreate, CalmUpdate, CalmDelete DEF Studious

LEMMA CalmStep == CodesOwned /\ Calm /\ [Next]_vars => Calm'
<1> SUFFICES ASSUME CodesOwned, Calm, [Next]_vars PROVE Calm'
  OBVIOUS
<1>0. calm' = calm
  BY DEF Next, vars
<1>1. ASSUME UNCHANGED <<enrollments, answered, proc>> PROVE Calm'
  BY <1>0, <1>1 DEF Calm, Waiting, FindingsHold, StillFound, TrueAnswers, TrueAnswer, Found, Mode
<1>2. ASSUME NEW c \in Courses, NEW k \in CourseCodes, CreateCourse(c, k) PROVE Calm'
  BY <1>1, <1>2 DEF CreateCourse
<1>3. ASSUME NEW s \in Sessions, EndSession(s) PROVE Calm'
  BY <1>1, <1>3 DEF EndSession
<1>4. CASE UNCHANGED vars
  BY <1>1, <1>4 DEF vars, store
<1>5. ASSUME NEW r \in Requests, Studious(r) PROVE Calm'
  <2>1. CASE calm
    BY <1>0, <1>5, <2>1, CalmStudious
  <2>2. CASE ~calm
    BY <1>0, <2>2 DEF Calm
  <2> QED BY <2>1, <2>2
<1> QED BY <1>0, <1>2, <1>3, <1>4, <1>5, CalmProfessional DEF Next

(* What a student was last told of a course holds for any number of        *)
(* students, courses and requests, as long as each of them waits for an    *)
(* answer: what overlapping requests of one student break is nothing else. *)
THEOREM StudentsAreToldTheTruth == Spec => []AnswersHold
<1>1. CodesOwned /\ Calm => AnswersHold
  BY DEF Calm, TrueAnswers, AnswersHold
<1> QED BY <1>1, CodesOwnedInit, CodesOwnedStep, CalmInit, CalmStep, PTL DEF Spec

-----------------------------------------------------------------------------
(* Accounts. Every email that is stored has a first record, and it is the  *)
(* one that a login finds; storing another record does not change it.      *)
FirstOf(e, i) == i \in Positions(e) /\ \A j \in Positions(e) : i <= j

FirstRecords ==
    \A e \in Emails :
        /\ Positions(e) = {} \/ \E i \in Positions(e) : FirstOf(e, i)
        /\ loggedIn[e] # 0 => FirstOf(e, loggedIn[e])

(* In calm use an email that is being registered has no record, and nobody *)
(* else registers it.                                                      *)
Registering == [op : {"register"}, who : Emails, of : Emails, left : {{}}]

OneRecord ==
    /\ \A i, j \in DOMAIN accounts : accounts[i].email = accounts[j].email => i = j
    /\ \A r \in Requests : jobs[r] # NoJob => Positions(jobs[r].of) = {}
    /\ \A q, r \in Requests :
          jobs[q] # NoJob /\ jobs[r] # NoJob /\ jobs[q].of = jobs[r].of => q = r

AccountsInv ==
    /\ accounts \in Seq(Accounts) /\ loggedIn \in [Emails -> Nat]
    /\ FirstRecords
    /\ part = "accounts" =>
         /\ jobs \in [Requests -> {NoJob} \cup Registering]
         /\ \A r \in Requests : jobs[r].who = jobs[r].of
         /\ calm => OneRecord
    /\ part # "accounts" => accounts = <<>>

LEMMA PositionsNat ==
    ASSUME accounts \in Seq(Accounts), NEW e
    PROVE  /\ Positions(e) \subseteq Nat \ {0}
           /\ \A i \in Positions(e) : FirstOf(e, i) => FindByEmail(e) = i
           /\ Positions(e) = {} => FindByEmail(e) = 0
<1>1. Positions(e) \subseteq Nat \ {0}
  BY LenProperties DEF Positions
<1>2. ASSUME NEW i \in Positions(e), FirstOf(e, i) PROVE FindByEmail(e) = i
  <2>1. \A k \in Positions(e) : (\A j \in Positions(e) : k <= j) => k = i
    BY <1>1, <1>2 DEF FirstOf
  <2> QED BY <1>2, <2>1 DEF FindByEmail, FirstOf
<1> QED BY <1>1, <1>2 DEF FindByEmail

LEMMA StoredPositions ==
    ASSUME accounts \in Seq(Accounts), NEW a \in Accounts, accounts' = Append(accounts, a)
    PROVE  /\ accounts' \in Seq(Accounts)
           /\ DOMAIN accounts' = DOMAIN accounts \cup {Len(accounts) + 1}
           /\ accounts'[Len(accounts) + 1] = a
           /\ \A i \in DOMAIN accounts :
                 accounts'[i] = accounts[i] /\ i < Len(accounts) + 1
           /\ \A e : Positions(e)' = Positions(e) \cup
                        (IF a.email = e THEN {Len(accounts) + 1} ELSE {})
<1>1. /\ accounts' \in Seq(Accounts) /\ Len(accounts) \in Nat
      /\ Len(accounts') = Len(accounts) + 1
      /\ \A i \in 1..Len(accounts) : accounts'[i] = accounts[i]
      /\ accounts'[Len(accounts) + 1] = a
      /\ DOMAIN accounts = 1..Len(accounts) /\ DOMAIN accounts' = 1..Len(accounts')
  BY AppendProperties, LenProperties
<1>2. DOMAIN accounts' = DOMAIN accounts \cup {Len(accounts) + 1}
  BY <1>1
<1>3. ASSUME NEW e
      PROVE  Positions(e)' = Positions(e) \cup
                               (IF a.email = e THEN {Len(accounts) + 1} ELSE {})
  BY <1>1, <1>2 DEF Positions
<1> QED BY <1>1, <1>2, <1>3

LEMMA RegisterStep ==
    ASSUME AccountsInv, part = "accounts", part' = part, calm' = calm,
           NEW r \in Requests, RegisterStore(r)
    PROVE  AccountsInv'
<1>1. PICK email, a, n :
         /\ jobs[r] \in Registering /\ jobs[r] # NoJob /\ email = jobs[r].of
         /\ a = [email |-> email, optIn |-> FALSE] /\ n = Len(accounts) + 1
         /\ accounts' = Append(accounts, a)
         /\ jobs' = [jobs EXCEPT ![r] = NoJob] /\ loggedIn' = loggedIn
  BY DEF RegisterStore, Take, Answer, AccountsInv, NoJob
<1>2. a \in Accounts /\ a.email = email /\ email \in Emails
  BY <1>1 DEF Accounts, Registering
<1>3. accounts \in Seq(Accounts)
  BY DEF AccountsInv
<1>4. /\ accounts' \in Seq(Accounts)
      /\ DOMAIN accounts' = DOMAIN accounts \cup {n} /\ accounts'[n] = a
      /\ \A i \in DOMAIN accounts : accounts'[i] = accounts[i] /\ i < n
      /\ \A e : Positions(e)' = Positions(e) \cup (IF a.email = e THEN {n} ELSE {})
  BY <1>1, <1>2, <1>3, StoredPositions
<1>5. n \in Nat \ {0} /\ \A e : Positions(e) \subseteq Nat \ {0}
                                /\ \A i \in Positions(e) : i < n
  BY <1>1, <1>3, <1>4, LenProperties, PositionsNat DEF Positions
<1>6. ASSUME NEW e, NEW i, FirstOf(e, i) PROVE FirstOf(e, i)'
  BY <1>4, <1>5, <1>6 DEF FirstOf
<1>7. FirstRecords'
  <2> SUFFICES ASSUME NEW e \in Emails
               PROVE  /\ Positions(e)' = {} \/ \E i \in Positions(e)' : FirstOf(e, i)'
                      /\ loggedIn[e] # 0 =>
                           \E k : k = loggedIn[e] /\ FirstOf(e, k)'
    BY <1>1 DEF FirstRecords
  <2>1. CASE Positions(e) = {} /\ a.email = e
    <3>1. FirstOf(e, n)' /\ n \in Positions(e)'
      BY <1>4, <1>5, <2>1 DEF FirstOf
    <3>2. loggedIn[e] = 0
      BY <2>1 DEF AccountsInv, FirstRecords, FirstOf
    <3> QED BY <3>1, <3>2
  <2>2. CASE Positions(e) = {} /\ a.email # e
    BY <1>4, <2>2 DEF AccountsInv, FirstRecords, FirstOf
  <2>3. CASE Positions(e) # {}
    <3>1. PICK i \in Positions(e) : FirstOf(e, i)
      BY <2>3 DEF AccountsInv, FirstRecords
    <3>2. FirstOf(e, i)' /\ i \in Positions(e)'
      BY <1>4, <1>6, <3>1
    <3>3. PICK k : k = loggedIn[e]
      OBVIOUS
    <3>4. k # 0 => FirstOf(e, k)'
      BY <1>6, <3>3 DEF AccountsInv, FirstRecords
    <3> QED BY <3>2, <3>3, <3>4
  <2> QED BY <2>1, <2>2, <2>3
<1>8. /\ jobs' \in [Requests -> {NoJob} \cup Registering]
      /\ \A q \in Requests : jobs'[q] = IF q = r THEN NoJob ELSE jobs[q]
  BY <1>1 DEF AccountsInv
<1>9. \A q \in Requests : jobs'[q].who = jobs'[q].of
  BY <1>8 DEF AccountsInv, NoJob
<1>10. ASSUME calm PROVE OneRecord'
  <2>1. OneRecord
    BY <1>10 DEF AccountsInv
  <2>2. \A i, j \in DOMAIN accounts' : accounts'[i].email = accounts'[j].email => i = j
    <3>1. \A i \in DOMAIN accounts : accounts[i].email # email
      BY <1>1, <2>1 DEF OneRecord, Positions
    <3> QED BY <1>2, <1>4, <2>1, <3>1 DEF OneRecord
  <2>3. ASSUME NEW q \in Requests, jobs'[q] # NoJob, NEW e, e = jobs'[q].of
        PROVE  Positions(e)' = {}
    <3>1. q # r /\ jobs'[q] = jobs[q]
      BY <1>8, <2>3
    <3>2. e # email /\ Positions(e) = {}
      BY <1>1, <2>1, <2>3, <3>1 DEF OneRecord
    <3> QED BY <1>2, <1>4, <3>2
  <2>4. \A q, s \in Requests :
          jobs'[q] # NoJob /\ jobs'[s] # NoJob /\ jobs'[q].of = jobs'[s].of => q = s
    BY <1>8, <2>1 DEF OneRecord
  <2>5. \A q \in Requests : jobs'[q] # NoJob =>
           {i \in DOMAIN accounts' : accounts'[i].email = jobs'[q].of} = {}
    BY <2>3 DEF Positions
  <2> QED BY <2>2, <2>4, <2>5 DEF OneRecord, Positions
<1> QED BY <1>1, <1>4, <1>7, <1>8, <1>9, <1>10 DEF AccountsInv

LEMMA AccountsStep ==
    ASSUME AccountsInv, part = "accounts", part' = part, calm' = calm, AccountsNext
    PROVE  AccountsInv'
<1> USE DEF AccountsInv
<1>0. \A r \in Requests : jobs[r] \in {NoJob} \cup Registering
  OBVIOUS
<1>1. ASSUME UNCHANGED accounts PROVE \A e, i : FirstOf(e, i) => FirstOf(e, i)'
  BY <1>1 DEF FirstOf, Positions
<1>2. ASSUME NEW r \in Requests, NEW e \in Emails, RegisterCheck(r, e) PROVE AccountsInv'
  <2> DEFINE job == Work("register", e, e)
  <2>1. /\ job \in Registering /\ job # NoJob /\ job.who = e /\ job.of = e
    BY DEF Work, NoJob, Registering
  <2>2. /\ jobs' = [jobs EXCEPT ![r] = job] /\ UNCHANGED <<accounts, loggedIn>>
        /\ FindByEmail(e) = 0
        /\ calm => \A q \in Requests : jobs[q].who # e
    BY <1>2 DEF RegisterCheck, Take, Available
  <2> HIDE DEF job
  <2>3. \A q \in Requests : jobs'[q] = IF q = r THEN job ELSE jobs[q]
    BY <2>2
  <2>4. Positions(e) = {}
    <3>1. \A i \in Positions(e) : FirstOf(e, i) => i = 0
      BY <2>2, PositionsNat
    <3>2. 0 \notin Positions(e)
      BY PositionsNat
    <3> QED BY <3>1, <3>2 DEF FirstRecords
  <2>5. calm => OneRecord'
    <3> SUFFICES ASSUME calm PROVE OneRecord'
      OBVIOUS
    <3>1. \A q \in Requests : jobs[q].of # e
      BY <2>2
    <3>2. \A f : Positions(f)' = Positions(f)
      BY <2>2 DEF Positions
    <3>3. \A q \in Requests : jobs'[q] # NoJob => Positions(jobs'[q].of) = {}
      BY <2>1, <2>3, <2>4 DEF OneRecord
    <3>4. \A q, s \in Requests :
            jobs'[q] # NoJob /\ jobs'[s] # NoJob /\ jobs'[q].of = jobs'[s].of => q = s
      BY <2>1, <2>3, <3>1 DEF OneRecord
    <3> QED BY <2>2, <3>2, <3>3, <3>4 DEF OneRecord, Positions
  <2>6. FirstRecords'
    BY <2>2 DEF FirstRecords, FirstOf, Positions
  <2>7. jobs' \in [Requests -> {NoJob} \cup Registering]
    BY <2>1, <2>2
  <2> QED BY <2>1, <2>2, <2>3, <2>5, <2>6, <2>7
<1>3. ASSUME NEW r \in Requests, Fail(r), UNCHANGED <<accounts, loggedIn>>
      PROVE  AccountsInv'
  <2>1. jobs' = [jobs EXCEPT ![r] = NoJob] /\ ~calm
    BY <1>3 DEF Fail, Take, Answer
  <2>2. FirstRecords'
    BY <1>3 DEF FirstRecords, FirstOf, Positions
  <2> QED BY <1>3, <2>1, <2>2 DEF NoJob
<1>4. ASSUME NEW e \in Emails, Login(e) PROVE AccountsInv'
  <2>1. /\ UNCHANGED <<accounts, jobs>> /\ FindByEmail(e) # 0
        /\ loggedIn' = [loggedIn EXCEPT ![e] = IF @ = 0 THEN FindByEmail(e) ELSE @]
    BY <1>4 DEF Login
  <2>2. FirstOf(e, FindByEmail(e)) /\ FindByEmail(e) \in Nat
    <3>1. PICK i \in Positions(e) : FirstOf(e, i)
      BY <2>1, PositionsNat DEF FirstRecords
    <3> QED BY <3>1, PositionsNat
  <2>3. FirstRecords'
    BY <2>1, <2>2 DEF FirstRecords, FirstOf, Positions
  <2>4. calm => OneRecord'
    BY <2>1 DEF OneRecord, Positions
  <2> QED BY <2>1, <2>2, <2>3, <2>4
<1>5. ASSUME NEW i \in DOMAIN accounts, NEW optIn \in BOOLEAN, UpdateConsent(i, optIn)
      PROVE  AccountsInv'
  <2>1. /\ accounts' = [accounts EXCEPT ![i].optIn = optIn] /\ UNCHANGED <<loggedIn, jobs>>
    BY <1>5 DEF UpdateConsent
  <2>2. \A k \in DOMAIN accounts : accounts[k] \in Accounts
    BY ElementOfSeq, LenProperties
  <2>3. /\ accounts' \in Seq(Accounts) /\ DOMAIN accounts' = DOMAIN accounts
        /\ \A k \in DOMAIN accounts : accounts'[k].email = accounts[k].email
    <3>1. [accounts[i] EXCEPT !.optIn = optIn] \in Accounts
      BY <2>2 DEF Accounts
    <3> QED BY <2>1, <2>2, <3>1, ExceptSeq DEF Accounts
  <2>4. \A e : Positions(e)' = Positions(e)
    BY <2>3 DEF Positions
  <2>5. FirstRecords'
    BY <2>1, <2>4 DEF FirstRecords, FirstOf
  <2>6. calm => OneRecord'
    BY <2>1, <2>3 DEF OneRecord, Positions
  <2> QED BY <2>1, <2>3, <2>5, <2>6
<1> QED
  BY <1>2, <1>3, <1>4, <1>5, RegisterStep DEF AccountsNext

-----------------------------------------------------------------------------
(* Lectures. In calm use the professor has one request under way, so a     *)
(* course that a lecture is stored for is still there, and the lectures of *)
(* a course that is gone are those that its deletion has yet to remove.    *)
Lecturing == [op : {"lecture", "collect"}, who : {Professor}, of : Courses, left : {{}}]
Dropping == [op : {"drop"}, who : {Professor}, of : Lectures, left : {{}}]
Sweeping == [op : {"sweep"}, who : {Professor}, of : Courses, left : SUBSET Lectures]

LecturesTyped ==
    /\ courses \in [Courses -> CourseCodes \cup {"fresh", "deleted"}]
    /\ lectures \in [Lectures -> Courses \cup {None}]
    /\ jobs \in [Requests -> {NoJob} \cup Lecturing \cup Dropping \cup Sweeping]
    /\ proc \in [Requests -> {Idle} \cup Deletion]

Busy(r) == proc[r] # Idle \/ jobs[r] # NoJob
ProfessorAlone ==
    /\ \A q, r \in Requests : Busy(q) /\ Busy(r) => q = r
    /\ \A r \in Requests : proc[r] = Idle \/ jobs[r] = NoJob

Orphan(l) == lectures[l] # None /\ ~Open(lectures[l])
Removing(r, l) ==
    \/ jobs[r].op = "collect" /\ jobs[r].of = lectures[l]
    \/ jobs[r].op = "sweep" /\ l \in jobs[r].left

Lectured ==
    /\ \A r \in Requests : jobs[r].op = "lecture" => Open(jobs[r].of)
    /\ \A r \in Requests : jobs[r].op = "sweep" => \A l \in jobs[r].left : lectures[l] # None
    /\ \A l \in Lectures : Orphan(l) => \E r \in Requests : Removing(r, l)

LecturesInv ==
    /\ part # "lectures" => lectures = [l \in Lectures |-> None]
    /\ part = "lectures" /\ calm => LecturesTyped /\ ProfessorAlone /\ Lectured

LEMMA JobOps ==
    /\ NoJob.op = "none" /\ Idle.op = "idle"
    /\ \A j \in Lecturing : j.op \in {"lecture", "collect"} /\ j.who = Professor /\ j.of \in Courses
    /\ \A j \in Dropping : j.op = "drop" /\ j.who = Professor /\ j.of \in Lectures
    /\ \A j \in Sweeping : j.op = "sweep" /\ j.who = Professor /\ j.left \subseteq Lectures
    /\ \A j \in Deletion : j.op = "delete" /\ j.who = Professor /\ j.id \in Courses
<1>1. NoJob.op = "none" /\ Idle.op = "idle"
  BY DEF NoJob, Idle
<1>2. \A j \in Lecturing : j.op \in {"lecture", "collect"} /\ j.who = Professor /\ j.of \in Courses
  BY DEF Lecturing
<1>3. \A j \in Dropping : j.op = "drop" /\ j.who = Professor /\ j.of \in Lectures
  BY DEF Dropping
<1>4. \A j \in Sweeping : j.op = "sweep" /\ j.who = Professor /\ j.left \subseteq Lectures
  BY DEF Sweeping
<1>5. \A j \in Deletion : j.op = "delete" /\ j.who = Professor /\ j.id \in Courses
  BY DEF Deletion
<1> QED BY <1>1, <1>2, <1>3, <1>4, <1>5

(* A professor who may ask has no other request, so no lecture is orphan.  *)
LEMMA ProfessorFree ==
    ASSUME calm, LecturesTyped, Lectured, NEW r \in Requests, Available(r, Professor)
    PROVE  /\ \A q \in Requests : proc[q] = Idle /\ jobs[q] = NoJob
           /\ \A l \in Lectures : ~Orphan(l)
<1>1. \A q \in Requests : proc[q].who # Professor /\ jobs[q].who # Professor
  BY DEF Available, Free
<1>2. \A q \in Requests : proc[q] = Idle /\ jobs[q] = NoJob
  BY <1>1, JobOps DEF LecturesTyped
<1> QED BY <1>2, JobOps DEF Lectured, Removing

(* When the one request under way removes nothing, no lecture is orphan.   *)
LEMMA NothingOrphaned ==
    ASSUME ProfessorAlone, Lectured, NEW r \in Requests, Busy(r),
           jobs[r].op \notin {"collect", "sweep"}
    PROVE  \A l \in Lectures : ~Orphan(l)
<1>1. \A q \in Requests, l \in Lectures : Removing(q, l) => Busy(q)
  BY JobOps DEF Removing, Busy
<1> QED BY <1>1 DEF Lectured, Removing, ProfessorAlone

LEMMA CreateCourseKeeps ==
    ASSUME LecturesTyped, ProfessorAlone, Lectured, NEW c \in Courses, NEW k \in CourseCodes,
           CreateCourse(c, k), UNCHANGED <<lectures, jobs>>
    PROVE  LecturesTyped' /\ ProfessorAlone' /\ Lectured'
<1>1. courses' = [courses EXCEPT ![c] = k] /\ proc' = proc /\ lectures' = lectures /\ jobs' = jobs
  BY DEF CreateCourse
<1>2. LecturesTyped'
  BY <1>1 DEF LecturesTyped
<1>3. ProfessorAlone'
  BY <1>1 DEF ProfessorAlone, Busy
<1>4. \A d : d \in Courses /\ Open(d) => Open(d)'
  BY <1>1 DEF Open, LecturesTyped
<1>5. \A r \in Requests : jobs[r].op = "lecture" => jobs[r].of \in Courses
  BY JobOps DEF LecturesTyped
<1>6. \A r \in Requests : jobs[r].op = "lecture" =>
         \E d : d = jobs[r].of /\ Open(d)'
  BY <1>4, <1>5 DEF Lectured
<1>7. \A l \in Lectures : lectures[l] # None /\ Open(lectures[l]) =>
         \E d : d = lectures[l] /\ Open(d)'
  BY <1>4 DEF LecturesTyped
<1>8. \A l \in Lectures : Orphan(l)' => Orphan(l)
  BY <1>1, <1>7 DEF Orphan, Open
<1>9. Lectured'
  BY <1>1, <1>6, <1>8 DEF Lectured, Removing, Open
<1> QED BY <1>2, <1>3, <1>9

(* A professor asks: the request is the only one.                          *)
LEMMA AskKeeps ==
    ASSUME calm, LecturesTyped, Lectured, NEW r \in Requests, Available(r, Professor),
           NEW j \in Lecturing \cup Dropping, Take(r, j), j.op # "collect",
           j.op = "lecture" => Open(j.of),
           UNCHANGED <<courses, proc, lectures>>
    PROVE  LecturesTyped' /\ ProfessorAlone' /\ Lectured'
<1>1. /\ \A q \in Requests : proc[q] = Idle /\ jobs[q] = NoJob
      /\ \A l \in Lectures : ~Orphan(l)
  BY ProfessorFree
<1>2. /\ jobs' = [jobs EXCEPT ![r] = j]
      /\ \A q \in Requests : jobs'[q] = IF q = r THEN j ELSE NoJob
  BY <1>1 DEF Take, LecturesTyped
<1>3. LecturesTyped'
  BY <1>2 DEF LecturesTyped
<1>4. ProfessorAlone'
  BY <1>1, <1>2 DEF ProfessorAlone, Busy
<1>5. j.op \notin {"collect", "sweep"}
  BY JobOps
<1>6. Lectured'
  BY <1>1, <1>2, <1>5, JobOps DEF Lectured, Orphan, Open
<1> QED BY <1>3, <1>4, <1>6

LEMMA DeletionKeeps ==
    ASSUME calm, LecturesTyped, Lectured, NEW r \in Requests, NEW c \in Courses, AskDeletion(r, c)
    PROVE  LecturesTyped' /\ ProfessorAlone' /\ Lectured'
<1> DEFINE j == Job("delete", Professor, c)
<1>1. j \in Deletion
  BY DEF Job, Idle, Deletion
<1>2. /\ proc' = [proc EXCEPT ![r] = j] /\ UNCHANGED <<courses, lectures, jobs>>
      /\ Available(r, Professor)
  BY DEF AskDeletion, DeleteCourseCheck, Begin, store
<1> HIDE DEF j
<1>3. /\ \A q \in Requests : proc[q] = Idle /\ jobs[q] = NoJob
      /\ \A l \in Lectures : ~Orphan(l)
  BY <1>2, ProfessorFree
<1>4. LecturesTyped'
  BY <1>1, <1>2 DEF LecturesTyped
<1>5. ProfessorAlone'
  BY <1>2, <1>3 DEF ProfessorAlone, Busy, LecturesTyped
<1>6. Lectured'
  BY <1>2, <1>3, JobOps DEF Lectured, Orphan, Open
<1> QED BY <1>4, <1>5, <1>6

LEMMA RemovalKeeps ==
    ASSUME LecturesTyped, ProfessorAlone, Lectured, NEW r \in Requests, RemoveCourse(r)
    PROVE  LecturesTyped' /\ ProfessorAlone' /\ Lectured'
<1>1. proc[r].op = "delete"
  BY DEF RemoveCourse, DeleteCourse
<1>2. proc[r] \in Deletion /\ proc[r] # Idle /\ Busy(r) /\ jobs[r] = NoJob
  BY <1>1, JobOps DEF LecturesTyped, Busy, ProfessorAlone
<1>3. PICK c : c = proc[r].id /\ c \in Courses
  BY <1>2, JobOps
<1> DEFINE j == Work("collect", Professor, c)
<1>4. j \in Lecturing /\ j.op = "collect" /\ j.of = c
  BY <1>3 DEF Work, NoJob, Lecturing
<1>5. /\ courses' = [courses EXCEPT ![c] = "deleted"] /\ proc' = [proc EXCEPT ![r] = Idle]
      /\ lectures' = lectures
      /\ IF Open(c) THEN jobs' = [jobs EXCEPT ![r] = j] ELSE jobs' = jobs
  BY <1>3 DEF RemoveCourse, DeleteCourse, Finish, Take
<1> HIDE DEF j
<1>6. /\ \A l \in Lectures : ~Orphan(l)
      /\ \A q \in Requests : q # r => proc[q] = Idle /\ jobs[q] = NoJob
  BY <1>2, JobOps, NothingOrphaned DEF ProfessorAlone, Busy
<1>7. LecturesTyped'
  BY <1>4, <1>5 DEF LecturesTyped
<1>8. \A q \in Requests : /\ proc'[q] = Idle
                          /\ jobs'[q] = IF q = r /\ Open(c) THEN j ELSE NoJob
  BY <1>2, <1>5, <1>6 DEF LecturesTyped
<1>9. ProfessorAlone'
  BY <1>8 DEF ProfessorAlone, Busy
<1>10. ASSUME NEW l \in Lectures, Orphan(l)' PROVE \E q \in Requests : Removing(q, l)'
  <2>1. lectures[l] # None /\ lectures[l] \in Courses
    BY <1>5, <1>10 DEF Orphan, LecturesTyped
  <2>2. Open(lectures[l])
    BY <1>6, <2>1 DEF Orphan
  <2>3. lectures[l] = c
    <3>1. CASE lectures[l] # c
      <4>1. courses'[lectures[l]] = courses[lectures[l]]
        BY <1>5, <2>1, <3>1 DEF LecturesTyped
      <4> QED BY <1>5, <1>10, <2>2, <4>1 DEF Orphan, Open
    <3> QED BY <3>1
  <2>4. Removing(r, l)'
    BY <1>4, <1>5, <1>8, <2>2, <2>3 DEF Removing
  <2> QED BY <2>4
<1>11. Lectured'
  BY <1>4, <1>8, <1>10, JobOps DEF Lectured
<1> QED BY <1>7, <1>9, <1>11

(* The request under way ends; nothing is left orphan.                     *)
LEMMA EndingKeeps ==
    ASSUME LecturesTyped, ProfessorAlone, NEW r \in Requests, jobs[r] # NoJob,
           Answer(r), UNCHANGED <<courses, proc>>,
           lectures' \in [Lectures -> Courses \cup {None}],
           \A l \in Lectures : ~Orphan(l)'
    PROVE  LecturesTyped' /\ ProfessorAlone' /\ Lectured'
<1>1. \A q \in Requests : /\ proc[q] = Idle
                          /\ q # r => jobs[q] = NoJob
  BY DEF ProfessorAlone, Busy
<1>2. /\ jobs' = [jobs EXCEPT ![r] = NoJob]
      /\ \A q \in Requests : jobs'[q] = NoJob
  BY <1>1 DEF Answer, Take, LecturesTyped
<1>3. LecturesTyped'
  BY <1>2 DEF LecturesTyped
<1>4. ProfessorAlone'
  BY <1>1, <1>2 DEF ProfessorAlone, Busy
<1>5. Lectured'
  BY <1>2, JobOps DEF Lectured
<1> QED BY <1>3, <1>4, <1>5

(* The request under way goes on to remove the lectures that are left.     *)
LEMMA SweepingKeeps ==
    ASSUME LecturesTyped, ProfessorAlone, NEW r \in Requests, jobs[r] # NoJob,
           NEW j \in Sweeping, Take(r, j), UNCHANGED <<courses, proc>>,
           lectures' \in [Lectures -> Courses \cup {None}],
           \A l \in j.left : lectures'[l] # None,
           \A l \in Lectures : Orphan(l)' => l \in j.left
    PROVE  LecturesTyped' /\ ProfessorAlone' /\ Lectured'
<1>0. j.op = "sweep"
  BY JobOps
<1>1. \A q \in Requests : /\ proc[q] = Idle
                          /\ q # r => jobs[q] = NoJob
  BY DEF ProfessorAlone, Busy
<1>2. /\ jobs' = [jobs EXCEPT ![r] = j]
      /\ \A q \in Requests : jobs'[q] = IF q = r THEN j ELSE NoJob
  BY <1>1 DEF Take, LecturesTyped
<1>3. LecturesTyped'
  BY <1>2 DEF LecturesTyped
<1>4. ProfessorAlone'
  BY <1>1, <1>2 DEF ProfessorAlone, Busy
<1>5. Lectured'
  BY <1>0, <1>2, JobOps DEF Lectured, Removing
<1> QED BY <1>3, <1>4, <1>5

LEMMA StoreLectureKeeps ==
    ASSUME LecturesTyped, ProfessorAlone, Lectured, NEW r \in Requests, NEW l \in Lectures,
           StoreLecture(r, l)
    PROVE  LecturesTyped' /\ ProfessorAlone' /\ Lectured'
<1>1. PICK c : c = jobs[r].of /\ c \in Courses /\ Open(c) /\ jobs[r].op = "lecture"
  BY JobOps DEF StoreLecture, LecturesTyped, Lectured
<1>2. /\ lectures' = [lectures EXCEPT ![l] = c] /\ Answer(r) /\ UNCHANGED <<courses, proc>>
      /\ jobs[r] # NoJob /\ Busy(r)
  BY <1>1, JobOps DEF StoreLecture, Busy
<1>3. \A m \in Lectures : ~Orphan(m)
  BY <1>1, <1>2, NothingOrphaned
<1>4. \A m \in Lectures : ~Orphan(m)'
  BY <1>1, <1>2, <1>3 DEF Orphan, Open, LecturesTyped
<1>5. lectures' \in [Lectures -> Courses \cup {None}]
  BY <1>1, <1>2 DEF LecturesTyped
<1> QED BY <1>2, <1>4, <1>5, EndingKeeps

LEMMA DeleteLectureKeeps ==
    ASSUME LecturesTyped, ProfessorAlone, Lectured, NEW r \in Requests, DeleteLecture(r)
    PROVE  LecturesTyped' /\ ProfessorAlone' /\ Lectured'
<1>1. PICK l : l = jobs[r].of /\ jobs[r].op = "drop"
  BY DEF DeleteLecture
<1>2. /\ lectures' = [lectures EXCEPT ![l] = None] /\ Answer(r) /\ UNCHANGED <<courses, proc>>
      /\ jobs[r] # NoJob /\ Busy(r)
  BY <1>1, JobOps DEF DeleteLecture, Busy
<1>3. \A m \in Lectures : ~Orphan(m)
  BY <1>1, <1>2, NothingOrphaned
<1>4. \A m \in Lectures : lectures'[m] \in {None, lectures[m]}
  BY <1>2 DEF LecturesTyped
<1>5. \A m \in Lectures : ~Orphan(m)'
  BY <1>2, <1>3, <1>4 DEF Orphan, Open
<1>6. lectures' \in [Lectures -> Courses \cup {None}]
  BY <1>2 DEF LecturesTyped
<1> QED BY <1>2, <1>5, <1>6, EndingKeeps

LEMMA CollectKeeps ==
    ASSUME LecturesTyped, ProfessorAlone, Lectured, NEW r \in Requests, Collect(r)
    PROVE  LecturesTyped' /\ ProfessorAlone' /\ Lectured'
<1>1. PICK c : c = jobs[r].of /\ c \in Courses /\ jobs[r].op = "collect"
  BY JobOps DEF Collect, LecturesTyped
<1>2. jobs[r] # NoJob /\ \A q \in Requests : q # r => jobs[q] = NoJob
  BY <1>1, JobOps DEF ProfessorAlone, Busy
<1>3. UNCHANGED <<courses, proc, lectures>>
  BY DEF Collect
<1>4. \A l \in Lectures : Orphan(l) => l \in OfCourse(c)
  BY <1>1, <1>2, JobOps DEF Lectured, Removing, OfCourse
<1>5. \A l \in Lectures : Orphan(l)' => Orphan(l)
  BY <1>3 DEF Orphan, Open
<1>6. lectures' \in [Lectures -> Courses \cup {None}]
  BY <1>3 DEF LecturesTyped
<1>7. CASE OfCourse(c) = {}
  <2>1. Answer(r)
    BY <1>1, <1>7 DEF Collect
  <2> QED BY <1>2, <1>3, <1>4, <1>5, <1>6, <1>7, <2>1, EndingKeeps
<1>8. CASE OfCourse(c) # {}
  <2> DEFINE j == [Work("sweep", Professor, c) EXCEPT !.left = OfCourse(c)]
  <2>1. Take(r, j)
    BY <1>1, <1>8 DEF Collect
  <2>2. j \in Sweeping /\ j.left = OfCourse(c)
    BY <1>1 DEF Work, NoJob, Sweeping, OfCourse
  <2> HIDE DEF j
  <2>3. \A l \in j.left : lectures'[l] # None
    BY <1>1, <1>3, <2>2, ConstantsAssumption DEF OfCourse
  <2> QED BY <1>2, <1>3, <1>4, <1>5, <1>6, <2>1, <2>2, <2>3, SweepingKeeps
<1> QED BY <1>7, <1>8

LEMMA SweepKeeps ==
    ASSUME LecturesTyped, ProfessorAlone, Lectured, NEW r \in Requests, NEW l \in Lectures,
           Sweep(r, l)
    PROVE  LecturesTyped' /\ ProfessorAlone' /\ Lectured'
<1> DEFINE left == jobs[r].left \ {l}
           j == [jobs[r] EXCEPT !.left = left]
<1>1. jobs[r].op = "sweep" /\ l \in jobs[r].left /\ jobs[r] \in Sweeping /\ lectures[l] # None
  BY JobOps DEF Sweep, LecturesTyped, Lectured
<1>2. jobs[r] # NoJob /\ \A q \in Requests : q # r => jobs[q] = NoJob
  BY <1>1, JobOps DEF ProfessorAlone, Busy
<1>3. lectures' = [lectures EXCEPT ![l] = None] /\ UNCHANGED <<courses, proc>>
  BY DEF Sweep
<1>4. /\ lectures' \in [Lectures -> Courses \cup {None}] /\ lectures'[l] = None
      /\ \A m \in Lectures : m # l => lectures'[m] = lectures[m]
  BY <1>3 DEF LecturesTyped
<1>5. \A m \in Lectures : Orphan(m) => m \in jobs[r].left
  BY <1>1, <1>2, JobOps DEF Lectured, Removing
<1>6. \A m \in Lectures : Orphan(m)' => m \in left
  <2> SUFFICES ASSUME NEW m \in Lectures, Orphan(m)' PROVE m \in left
    OBVIOUS
  <2>1. m # l
    BY <1>4 DEF Orphan
  <2>2. Orphan(m)
    BY <1>3, <1>4, <2>1 DEF Orphan, Open
  <2> QED BY <1>5, <2>1, <2>2
<1>7. CASE left = {}
  <2>1. Answer(r)
    BY <1>7 DEF Sweep
  <2> QED BY <1>2, <1>3, <1>4, <1>6, <1>7, <2>1, EndingKeeps
<1>8. CASE left # {}
  <2>1. Take(r, j)
    BY <1>1, <1>8 DEF Sweep
  <2>2. j \in Sweeping /\ j.left = left
    BY <1>1 DEF Sweeping
  <2>3. \A m \in left : lectures'[m] # None
    BY <1>1, <1>4, JobOps DEF Lectured
  <2> HIDE DEF j, left
  <2> QED BY <1>2, <1>3, <1>4, <1>6, <2>1, <2>2, <2>3, SweepingKeeps
<1> QED BY <1>7, <1>8

LEMMA LecturesStep ==
    ASSUME LecturesTyped, ProfessorAlone, Lectured, calm, LecturesNext
    PROVE  LecturesTyped' /\ ProfessorAlone' /\ Lectured'
<1>1. ASSUME NEW r \in Requests, NEW c \in Courses, CreateLectureCheck(r, c)
      PROVE  LecturesTyped' /\ ProfessorAlone' /\ Lectured'
  <2> DEFINE j == Work("lecture", Professor, c)
  <2>1. j \in Lecturing /\ j.op = "lecture" /\ j.of = c
    BY DEF Work, NoJob, Lecturing
  <2>2. /\ Available(r, Professor) /\ Open(c) /\ Take(r, j)
        /\ UNCHANGED <<courses, proc, lectures>>
    BY <1>1 DEF CreateLectureCheck
  <2> HIDE DEF j
  <2> QED BY <2>1, <2>2, AskKeeps
<1>2. ASSUME NEW r \in Requests, NEW l \in Lectures, DeleteLectureCheck(r, l)
      PROVE  LecturesTyped' /\ ProfessorAlone' /\ Lectured'
  <2> DEFINE j == Work("drop", Professor, l)
  <2>1. j \in Dropping /\ j.op = "drop"
    BY DEF Work, NoJob, Dropping
  <2>2. Available(r, Professor) /\ Take(r, j) /\ UNCHANGED <<courses, proc, lectures>>
    BY <1>2 DEF DeleteLectureCheck
  <2> HIDE DEF j
  <2> QED BY <2>1, <2>2, AskKeeps
<1> QED
  BY <1>1, <1>2, CreateCourseKeeps, DeletionKeeps, RemovalKeeps, StoreLectureKeeps,
     DeleteLectureKeeps, CollectKeeps, SweepKeeps DEF LecturesNext, Fail

-----------------------------------------------------------------------------
(* The campus: a behaviour of its courses is one of the Catalogue.         *)
LEMMA CampusMaps ==
    /\ CampusInit => Init
    /\ [CampusNext]_campusVars => [Next]_vars /\ calm' = calm
<1>1. CampusInit => Init
  BY DEF CampusInit
<1>2. ASSUME LecturesNext PROVE [Next]_vars /\ calm' = calm
  <2>1. calm' = calm /\ UNCHANGED catalogue
    BY <1>2 DEF LecturesNext
  <2>2. ASSUME UNCHANGED <<courses, proc>> PROVE UNCHANGED vars
    BY <2>1, <2>2 DEF catalogue, vars, store
  <2>3. ASSUME NEW r \in Requests, NEW c \in Courses, AskDeletion(r, c) PROVE Next
    BY <2>1, <2>3 DEF AskDeletion, Next, Professional
  <2>4. ASSUME NEW r \in Requests, RemoveCourse(r) PROVE Next
    BY <2>1, <2>4 DEF RemoveCourse, Next, Professional
  <2>5. ASSUME NEW c \in Courses, NEW k \in CourseCodes, CreateCourse(c, k) PROVE Next
    BY <2>1, <2>5 DEF Next
  <2> QED BY <1>2, <2>1, <2>2, <2>3, <2>4, <2>5
          DEF LecturesNext, CreateLectureCheck, StoreLecture, DeleteLectureCheck, DeleteLecture,
              Collect, Sweep
<1>3. ASSUME AccountsNext PROVE UNCHANGED vars /\ calm' = calm
  BY <1>3 DEF AccountsNext, vars
<1>4. Next \/ UNCHANGED vars => calm' = calm
  BY DEF Next, vars
<1> QED BY <1>1, <1>2, <1>3, <1>4 DEF CampusNext, campusVars

(* Accounts and lectures change nothing that the Catalogue speaks of: with *)
(* them, codes still reach their sessions and answers still hold.          *)
THEOREM CampusKeepsCatalogue ==
    CampusSpec => Spec /\ []TypeOK /\ []ReachableByCode /\ []AnswersHold
<1>1. CampusSpec => Spec
  BY CampusMaps, PTL DEF Spec, CampusSpec
<1> QED BY <1>1, CatalogueTyped, CodesReach, StudentsAreToldTheTruth

CampusInv == part \in Parts /\ AccountsInv /\ LecturesInv

LEMMA CampusStart == CampusInit => CampusInv
<1> SUFFICES ASSUME CampusInit PROVE CampusInv
  OBVIOUS
<1>1. /\ accounts = <<>> /\ loggedIn = [e \in Emails |-> 0] /\ part \in Parts
      /\ jobs = [r \in Requests |-> NoJob] /\ lectures = [l \in Lectures |-> None]
      /\ courses = [c \in Courses |-> "fresh"] /\ proc = [r \in Requests |-> Idle]
  BY DEF CampusInit, Init
<1>2. accounts \in Seq(Accounts) /\ DOMAIN accounts = {}
  BY <1>1
<1>3. \A e : Positions(e) = {}
  BY <1>2 DEF Positions
<1>4. FirstRecords
  BY <1>1, <1>3 DEF FirstRecords
<1>5. OneRecord
  BY <1>1, <1>2 DEF OneRecord
<1>6. AccountsInv
  BY <1>1, <1>2, <1>4, <1>5 DEF AccountsInv, NoJob
<1>7. LecturesTyped /\ ProfessorAlone
  BY <1>1 DEF LecturesTyped, ProfessorAlone, Busy
<1>8. Lectured
  BY <1>1, JobOps DEF Lectured, Orphan
<1> QED BY <1>1, <1>6, <1>7, <1>8 DEF CampusInv, LecturesInv

LEMMA CampusStep == CampusInv /\ [CampusNext]_campusVars => CampusInv'
<1> SUFFICES ASSUME CampusInv, [CampusNext]_campusVars PROVE CampusInv'
  OBVIOUS
<1> USE DEF CampusInv
<1>0. part' = part /\ calm' = calm
  BY CampusMaps DEF CampusNext, campusVars
<1>1. ASSUME UNCHANGED <<accounts, loggedIn>>, part = "accounts" => UNCHANGED jobs
      PROVE  AccountsInv'
  <2>1. FirstRecords'
    BY <1>1 DEF AccountsInv, FirstRecords, FirstOf, Positions
  <2>2. part = "accounts" /\ OneRecord => OneRecord'
    BY <1>1 DEF OneRecord, Positions
  <2> QED BY <1>0, <1>1, <2>1, <2>2 DEF AccountsInv
<1>2. CASE part = "catalogue" /\ UNCHANGED <<accounts, loggedIn, lectures, jobs>>
  BY <1>0, <1>1, <1>2 DEF LecturesInv
<1>3. CASE part = "accounts" /\ AccountsNext
  BY <1>0, <1>3, AccountsStep DEF AccountsNext, LecturesInv
<1>4. CASE part = "lectures" /\ LecturesNext
  <2>1. AccountsInv'
    BY <1>1, <1>4 DEF LecturesNext
  <2> QED BY <1>0, <1>4, <2>1, LecturesStep DEF LecturesInv
<1>5. CASE UNCHANGED campusVars
  <2>1. AccountsInv'
    BY <1>1, <1>5 DEF campusVars
  <2>2. UNCHANGED <<courses, proc, jobs, lectures>>
    BY <1>5 DEF campusVars, vars, store
  <2>3. LecturesTyped => LecturesTyped'
    BY <2>2 DEF LecturesTyped
  <2>4. ProfessorAlone => ProfessorAlone'
    BY <2>2 DEF ProfessorAlone, Busy
  <2>5. Lectured => Lectured'
    BY <2>2 DEF Lectured, Orphan, Removing, Open
  <2> QED BY <1>0, <2>1, <2>2, <2>3, <2>4, <2>5 DEF LecturesInv
<1> QED BY <1>2, <1>3, <1>4, <1>5 DEF CampusNext

(* However many registrations, logins, lectures and deletions overlap, an  *)
(* email keeps its first account; and in calm use every account is reached *)
(* and a lecture whose course is gone is about to be removed.              *)
THEOREM RecordsAreReached == CampusSpec => []RecordsAreReachable
<1>1. CampusInv => RecordsAreReachable
  <2> SUFFICES ASSUME CampusInv PROVE RecordsAreReachable
    OBVIOUS
  <2>0. accounts \in Seq(Accounts)
    BY DEF CampusInv, AccountsInv
  <2>1. ASSUME NEW e \in Emails, loggedIn[e] # 0 PROVE FindByEmail(e) = loggedIn[e]
    BY <2>0, <2>1, PositionsNat DEF CampusInv, AccountsInv, FirstRecords, FirstOf
  <2>2. ASSUME calm, NEW i \in DOMAIN accounts PROVE FindByEmail(accounts[i].email) = i
    <3>1. part = "accounts"
      BY <2>2 DEF CampusInv, AccountsInv
    <3>2. OneRecord
      BY <2>2, <3>1 DEF CampusInv, AccountsInv
    <3>3. PICK e : e = accounts[i].email /\ i \in Positions(e)
      BY DEF Positions
    <3>4. i \in Nat /\ \A j \in Positions(e) : j = i
      BY <2>0, <3>2, <3>3, PositionsNat DEF OneRecord, Positions
    <3>5. FirstOf(e, i)
      BY <3>3, <3>4 DEF FirstOf
    <3> QED BY <2>0, <3>3, <3>5, PositionsNat
  <2>3. ASSUME calm, NEW l \in Lectures, Orphan(l) PROVE \E r \in Requests : Removing(r, l)
    <3>1. part = "lectures"
      BY <2>3 DEF CampusInv, LecturesInv, Orphan
    <3> QED BY <2>3, <3>1 DEF CampusInv, LecturesInv, Lectured
  <2> QED BY <2>1, <2>2, <2>3 DEF RecordsAreReachable, Orphan, Removing
<1> QED BY <1>1, CampusStart, CampusStep, PTL DEF CampusSpec
=============================================================================
