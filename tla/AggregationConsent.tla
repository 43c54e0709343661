-------------------------- MODULE AggregationConsent --------------------------
(***************************************************************************)
(* Participation, aggregation consent and observation coverage of one      *)
(* session: register_participant of signals/service.py, the consent route  *)
(* of professor/metrics_routes.py, ingest_coverage and the participant     *)
(* counts of report in professor/metrics.py.                               *)
(*                                                                         *)
(* Handlers run in the threadpool. The participants of a session are one   *)
(* document: shared in memory, and with mongo a copy that a handler reads, *)
(* edits and writes back whole. In memory a consent is set on the record   *)
(* that was fetched, which a second registration of the student that is    *)
(* still under way may have replaced by then, and replaces with its own    *)
(* consent if it comes later. Coverage is in the process, under a lock;    *)
(* the checks that precede the lock are steps of their own. What a report  *)
(* makes of the coverage is ClassReport.                                   *)
(***************************************************************************)
EXTENDS ClassReport

CONSTANTS
    Students,
    CoverageIds,   \* coverage_id values of each student
    Evidence,      \* what a coverage record says
    Requests,      \* requests served at one time (bound)
    MaxRecords,    \* LearningState.maximum_records
    None

ASSUME ConstantsAssumption ==
    /\ MaxRecords \in Nat
    /\ Evidence \subseteq [from : Nat, to : Nat, ok : BOOLEAN]
    /\ None \notin Students

VARIABLES
    mongo,          \* TRUE: participants are a MongoDB document
    raced,          \* history: whose consent an overlapping handler may undo
    ended,          \* the session is ENDED
    participants,   \* "absent", or the participant's is_opted_in as "in"/"out"
    coverage,       \* per student and id: the record, if there is one
    record,         \* in memory: which of a student's records is the stored one
    choice,         \* history: the last answered choice of each student
    proc            \* the requests under way; a report keeps what it shows

vars == <<mongo, raced, ended, participants, coverage, record, choice, proc>>

States == {"absent", "in", "out"}
Kinds == {"none", "register", "consent", "coverage", "report"}

NoBatch == [i \in CoverageIds |-> None]
Batches == {b \in [CoverageIds -> Evidence \cup {None}] : b # NoBatch}
Nothing == [b \in Buckets |-> {}]

Idle == [kind |-> "none", at |-> "idle", s |-> None, value |-> "absent", record |-> 0,
         read |-> [s \in Students |-> "absent"], batch |-> NoBatch,
         group |-> {}, shown |-> Nothing, withdrawn |-> {}]

Busy(p) == proc[p].at \notin {"idle", "done"}
Start(p, kind, at, s) ==
    [Idle EXCEPT !.kind = kind, !.at = at, !.s = s,
                 !.read = IF mongo THEN participants ELSE @]
Answered(p) == [proc EXCEPT ![p] = Idle]

Editing(p) == Busy(p) /\ proc[p].kind \in {"register", "consent"}

(* No registration and no consent change of the student is under way.      *)
Quiet(s) == \A q \in Requests : Editing(q) => proc[q].s # s

(* With MongoDB a write puts back what its handler has read of everybody,  *)
(* in memory a registration puts a new record in the place of an earlier.  *)
Overlapped == IF mongo /\ \E q \in Requests : Editing(q) THEN Students ELSE {}

Doubled(s) ==
    IF \E q \in Requests : Editing(q) /\ proc[q].kind = "register" /\ proc[q].s = s
    THEN {s} ELSE {}

-----------------------------------------------------------------------------
(* register_participant *)
RegisteredAgain(s) == TRUE   \* slip: who joins again is registered anew

Unregistered(s) == participants[s] = "absent"

RegisterRead(p, s) ==
    /\ ~Busy(p)
    /\ Unregistered(s)
    /\ proc' = [proc EXCEPT ![p] = Start(p, "register", "write", s)]
    /\ raced' = raced \cup Overlapped \cup Doubled(s)
    /\ UNCHANGED <<ended, participants, coverage, record, choice>>

(* The document a handler edits: the stored one, or its copy.              *)
Document(p) == IF mongo THEN proc[p].read ELSE participants

(* Joining is a choice for who has made none yet.                          *)
RegisterWrite(p) ==
    /\ proc[p].kind = "register"
    /\ proc[p].at = "write"
    /\ LET s == proc[p].s IN
       /\ participants' = [Document(p) EXCEPT ![s] = "in"]
       /\ record' = [record EXCEPT ![s] = IF mongo THEN @ ELSE @ + 1]
       /\ choice' = [choice EXCEPT ![s] = IF @ = "absent" THEN "in" ELSE @]
    /\ proc' = Answered(p)
    /\ UNCHANGED <<raced, ended, coverage>>

(* update_aggregation_consent: the record is fetched before the lock.      *)
ConsentRead(p, s, value) ==
    /\ ~Busy(p)
    /\ participants[s] # "absent"
    /\ proc' = [proc EXCEPT ![p] = [Start(p, "consent", "write", s) EXCEPT
                                       !.value = value, !.record = record[s]]]
    /\ raced' = raced \cup Overlapped
    /\ UNCHANGED <<ended, participants, coverage, record, choice>>

Erased(s) == [coverage EXCEPT ![s] = NoBatch]

Detached(p) == ~mongo /\ proc[p].record # record[proc[p].s]

Decided(p, s) ==
    IF Detached(p) THEN participants ELSE [Document(p) EXCEPT ![s] = proc[p].value]

ConsentWrite(p) ==
    /\ proc[p].kind = "consent"
    /\ proc[p].at = "write"
    /\ LET s == proc[p].s IN
       /\ participants' = Decided(p, s)
       /\ coverage' = IF proc[p].value = "out" THEN Erased(s) ELSE coverage
       /\ choice' = [choice EXCEPT ![s] = proc[p].value]
    /\ proc' = Answered(p)
    /\ UNCHANGED <<raced, ended, record>>

-----------------------------------------------------------------------------
(* ingest_coverage: consent and session are checked before the lock.       *)
CoverageCheck(p, s, b) ==
    /\ ~Busy(p)
    /\ participants[s] = "in"
    /\ ~ended
    /\ proc' = [proc EXCEPT ![p] =
                  [Start(p, "coverage", "write", s) EXCEPT !.batch = b]]
    /\ UNCHANGED <<raced, ended, participants, coverage, record, choice>>

Recorded(c) == {r \in Students \X CoverageIds : c[r[1]][r[2]] # None}

Conflicting(s, b) ==
    \E i \in CoverageIds :
        b[i] # None /\ coverage[s][i] \notin {None, b[i]}

With(s, b) ==
    [coverage EXCEPT ![s] = [i \in CoverageIds |-> IF b[i] = None THEN @[i] ELSE b[i]]]

Fits(s, b) == Cardinality(Recorded(With(s, b))) <= MaxRecords

CoverageWrite(p) ==
    /\ proc[p].kind = "coverage"
    /\ proc[p].at = "write"
    /\ LET s == proc[p].s  b == proc[p].batch IN
         \/ ~Conflicting(s, b) /\ Fits(s, b) /\ coverage' = With(s, b)
         \/ (Conflicting(s, b) \/ ~Fits(s, b)) /\ UNCHANGED coverage
    /\ proc' = Answered(p)
    /\ UNCHANGED <<raced, ended, participants, record, choice>>

EndSession ==
    /\ ~ended
    /\ ended' = TRUE
    /\ UNCHANGED <<raced, participants, coverage, record, choice, proc>>

-----------------------------------------------------------------------------
(* report: the participants, and then under the lock their coverage.       *)
OptedInOnce ==   \* slip: whoever is registered
    {s \in Students : participants[s] # "absent"}

OptedIn == {s \in Students : participants[s] = "in"}
Withdrawn == {s \in Students : choice[s] = "out" /\ Quiet(s)}

ReportRead(p) ==
    /\ ~Busy(p)
    /\ ended
    /\ proc' = [proc EXCEPT ![p] =
                  [Idle EXCEPT !.kind = "report", !.at = "cover",
                               !.group = OptedIn, !.withdrawn = Withdrawn]]
    /\ UNCHANGED <<raced, ended, participants, coverage, record, choice>>

RecordsOf(s) ==
    {[id |-> i, from |-> coverage[s][i].from, to |-> coverage[s][i].to, ok |-> coverage[s][i].ok] :
        i \in {j \in CoverageIds : coverage[s][j] # None}}

(* Whom each bucket counts.                                                *)
Released(group) ==
    LET records == [s \in group |-> RecordsOf(s)] IN
    [b \in Buckets |-> Shown(group, ObservedOf(group, records, b))]

ReportCover(p) ==
    /\ proc[p].at = "cover"
    /\ proc' = [proc EXCEPT ![p].at = "done", ![p].shown = Released(proc[p].group)]
    /\ UNCHANGED <<raced, ended, participants, coverage, record, choice>>

-----------------------------------------------------------------------------
Init ==
    /\ mongo \in BOOLEAN
    /\ raced = {}
    /\ ended = FALSE
    /\ participants = [s \in Students |-> "absent"]
    /\ coverage = [s \in Students |-> NoBatch]
    /\ record = [s \in Students |-> 0]
    /\ choice = [s \in Students |-> "absent"]
    /\ proc = [p \in Requests |-> Idle]

Step ==
    \/ \E p \in Requests :
         \/ \E s \in Students :
              \/ RegisterRead(p, s)
              \/ \E value \in {"in", "out"} : ConsentRead(p, s, value)
              \/ \E b \in Batches : CoverageCheck(p, s, b)
         \/ RegisterWrite(p) \/ ConsentWrite(p) \/ CoverageWrite(p)
         \/ ReportRead(p) \/ ReportCover(p)
    \/ EndSession

Next == Step /\ UNCHANGED mongo

Spec == Init /\ [][Next]_vars

-----------------------------------------------------------------------------
ProcType == [kind : Kinds, at : {"idle", "write", "cover", "done"},
             s : Students \cup {None}, value : States, record : Nat,
             read : [Students -> States],
             batch : [CoverageIds -> Evidence \cup {None}], group : SUBSET Students,
             shown : [Buckets -> SUBSET Students], withdrawn : SUBSET Students]

TypeOK ==
    /\ mongo \in BOOLEAN
    /\ raced \in SUBSET Students
    /\ ended \in BOOLEAN
    /\ participants \in [Students -> States]
    /\ coverage \in [Students -> [CoverageIds -> Evidence \cup {None}]]
    /\ record \in [Students -> Nat]
    /\ choice \in [Students -> States]
    /\ proc \in [Requests -> ProcType]

(* The stored consent is what the student was last answered, whoever else  *)
(* joins or decides at the same time: with MongoDB until two handlers have *)
(* the participants at once, and in memory for all but a student of whom   *)
(* two registrations were under way at once.                               *)
ConsentIsHonoured ==
    \A s \in Students \ raced : Quiet(s) => participants[s] = choice[s]

(* A report that starts after a withdrawal was answered never counts that  *)
(* student, with the same exceptions, and each of its buckets counts a     *)
(* group of the minimum size or nobody.                                    *)
ReportsOmitWithdrawn ==
    \A p \in Requests, b \in Buckets : proc[p].kind = "report" /\ proc[p].at = "done" =>
        /\ proc[p].shown[b] \cap proc[p].withdrawn \subseteq raced
        /\ proc[p].shown[b] # {} => IsGroup(proc[p].shown[b])

(* Whatever the records and the signals of a lecture are, a bucket counts   *)
(* who was observed in all of it, each moment once, those who missed enough *)
(* of it by signals that count, and no finding reaches beyond the buckets  *)
(* that are shown.                                                         *)
Safe == EveryReportIsSafe(Students)

ReportsAreSafe == (\E p \in Requests : proc[p].kind = "report") => Safe

=============================================================================
