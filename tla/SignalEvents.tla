----------------------------- MODULE SignalEvents -----------------------------
(***************************************************************************)
(* The signal events of one session: their ingestion and correction by the *)
(* students (signals/service.py), and the anonymous summary that the       *)
(* professor of a demo reads (professor/service.py).                       *)
(*                                                                         *)
(* No lock guards the list of events. In memory it is one list that every  *)
(* request appends to; with MongoDB a request reads a copy and writes the  *)
(* whole list back. Each student has one event, so its identifier is the   *)
(* student's name; sending it again is a retry. Refused requests change    *)
(* nothing and are left out.                                               *)
(***************************************************************************)
EXTENDS Naturals, FiniteSets, Sequences

CONSTANTS
    Students, Professor,
    Requests,       \* requests served at one time (bound)
    MaxRequests,    \* requests in all (bound)
    MinimumGroup,   \* minimum_group_size of a released aggregate
    Settings,       \* the settings that are looked at
    None

(* Requests follow each other; a person's do; or they overlap at will.     *)
Paces == {"serial", "calm", "free"}
AllSettings == [mongo : BOOLEAN, live : BOOLEAN, pace : Paces, after : BOOLEAN]

ASSUME GroupAssumption ==
    /\ Settings \subseteq AllSettings
    /\ None \notin Requests \cup Students \cup {Professor}
    /\ MinimumGroup \in Nat \ {0} /\ MaxRequests \in Nat
    /\ Professor \notin Students
    /\ IsFiniteSet(Students)

VARIABLES
    setting,    \* the storage, the provider and how requests may overlap
    status,     \* of the session
    opted,      \* participants who allow aggregation
    records,    \* store.events of the session
    proc,       \* the requests under way
    begun,      \* requests begun so far
    denied,     \* history: students whose denial was the last answer
    eligible    \* history: students whose event was last answered as recoverable

signals == <<status, opted, records>>
history == <<denied, eligible>>

Records == [by : Students, phone : BOOLEAN, verdict : {"open", "confirmed", "denied"}]

IngestJobs == [op : {"ingest"}, who : Students, phone : BOOLEAN, list : Seq(Records)]
ConfirmJobs == [op : {"confirm"}, who : Students, verdict : {"confirmed", "denied"},
                list : Seq(Records)]
(* A part of a summary: the students behind it, and, for the properties,   *)
(* those who had denied their event when it was read.                      *)
Parts == [of : SUBSET Students, denied : SUBSET Students]
CountJobs == [op : {"count"}, who : {Professor}]
BucketsJobs == [op : {"buckets"}, who : {Professor}, buckets : Parts]
ReleaseJobs == [op : {"release"}, who : {Professor}, buckets : Parts, intervals : Parts]
SummaryJobs == CountJobs \cup BucketsJobs \cup ReleaseJobs

Idle == [op |-> "idle", who |-> None]

(* A request begins where the pace allows it to overlap with the others.   *)
InTurn == setting.pace = "serial" => \A q \in Requests : proc[q] = Idle

Admitted(who) ==
    /\ InTurn
    /\ setting.pace = "calm" => \A q \in Requests : proc[q].who # who

Begin(r, job) ==
    /\ proc[r] = Idle /\ begun < MaxRequests
    /\ Admitted(job.who)
    /\ proc' = [proc EXCEPT ![r] = job]
    /\ begun' = begun + 1

Continue(r, job) == proc' = [proc EXCEPT ![r] = job] /\ UNCHANGED begun
Finish(r) == Continue(r, Idle)

(* Before the first event, or after a lecture in which everybody sent one. *)
EventOf(s) == [by |-> s, phone |-> FALSE, verdict |-> "open"]
Everybody ==
    CHOOSE order \in [1..Cardinality(Students) -> Students] :
        \A s \in Students : \E i \in DOMAIN order : order[i] = s
EverybodysEvents == [i \in 1..Cardinality(Students) |-> EventOf(Everybody[i])]

InitSignals ==
    /\ setting \in Settings
    /\ opted = Students
    /\ proc = [r \in Requests |-> Idle] /\ begun = 0
    /\ denied = {}
    /\ \/ /\ ~setting.after /\ status = "active"
          /\ records = <<>> /\ eligible = {}
       \/ /\ setting.after /\ status = "ended" /\ records = EverybodysEvents
          /\ eligible = Students

-----------------------------------------------------------------------------
(* The records.                                                            *)
Indices(list, s) == {i \in DOMAIN list : list[i].by = s}
Has(list, s) == Indices(list, s) # {}

(* confirm_event stops at the first record of the identifier.              *)
First(list, s) == CHOOSE i \in Indices(list, s) : \A j \in Indices(list, s) : i <= j

CorrectedOnce(list, s, v) ==   \* slip: an answer that was given is kept
    [list EXCEPT ![First(list, s)].verdict = IF @ = "open" THEN v ELSE @]

Corrected(list, s, v) == [list EXCEPT ![First(list, s)].verdict = v]

(* is_recovery_eligible, for an event that lasted long enough.             *)
IsRecoverable(record) == record.verdict # "denied" /\ ~record.phone
Recoverable(list) == {list[i].by : i \in {j \in DOMAIN list : IsRecoverable(list[j])}}

(* _safe_records: the students behind what the summary may count.          *)
Safe(list, allowed) ==
    {list[i].by : i \in {j \in DOMAIN list : list[j].verdict # "denied" /\ ~list[j].phone}}
        \cap allowed

(* The list that a request sees: in memory the one everybody sees.         *)
Seen(job) == IF setting.mongo THEN job.list ELSE records

-----------------------------------------------------------------------------
(* ingest_batch: the session and the duplicates are checked on what was    *)
(* read; the records are then appended.                                    *)
Ingesting(s, phone) == [op |-> "ingest", who |-> s, phone |-> phone, list |-> records]

IngestCheck(r, s, phone) ==
    /\ status = "active" /\ ~Has(records, s)
    /\ Begin(r, Ingesting(s, phone))
    /\ UNCHANGED <<signals, history>>

Appended(job) ==
    Append(Seen(job), [by |-> job.who, phone |-> job.phone, verdict |-> "open"])

IngestStore(r) ==
    LET s == proc[r].who  list == Appended(proc[r])
    IN  /\ proc[r].op = "ingest"
        /\ records' = list
        /\ eligible' = (eligible \ {s}) \cup (Recoverable(list) \cap {s})
        /\ Finish(r)
        /\ UNCHANGED <<status, opted, denied>>

(* confirm_event, also after the session has ended.                        *)
ConfirmRead(r, s, v) ==
    /\ Has(records, s)
    /\ Begin(r, [op |-> "confirm", who |-> s, verdict |-> v, list |-> records])
    /\ UNCHANGED <<signals, history>>

ConfirmStore(r) ==
    LET s == proc[r].who  v == proc[r].verdict  list == Corrected(Seen(proc[r]), s, v)
    IN  /\ proc[r].op = "confirm"
        /\ records' = list
        /\ denied' = IF v = "denied" THEN denied \cup {s} ELSE denied \ {s}
        /\ eligible' = IF v = "denied" THEN eligible \ {s} ELSE eligible
        /\ Finish(r)
        /\ UNCHANGED <<status, opted>>

-----------------------------------------------------------------------------
(* build_summary counts the participants, and reads everything again for   *)
(* the buckets and for the intervals. A group that is too small is         *)
(* answered without either.                                                *)
Counted == Cardinality(Safe(records, opted))

SummaryCount(r) ==
    /\ Counted >= MinimumGroup
    /\ Begin(r, [op |-> "count", who |-> Professor])
    /\ UNCHANGED <<signals, history>>

Part(students) == [of |-> students, denied |-> denied]

ReadBefore(job) == job.buckets.of   \* slip: the intervals are drawn from the buckets

ReadAgain(job) == Safe(records, opted)

SummaryBuckets(r) ==
    /\ proc[r].op = "count"
    /\ Continue(r, [op |-> "buckets", who |-> Professor, buckets |-> Part(Safe(records, opted))])
    /\ UNCHANGED <<signals, history>>

SummaryIntervals(r) ==
    /\ proc[r].op = "buckets"
    /\ Continue(r, [op |-> "release", who |-> Professor, buckets |-> proc[r].buckets,
                    intervals |-> Part(ReadAgain(proc[r]))])
    /\ UNCHANGED <<signals, history>>

SummaryRelease(r) ==
    /\ proc[r].op = "release" /\ Finish(r)
    /\ UNCHANGED <<signals, history>>

SignalsNext ==
    \E r \in Requests :
        \/ \E s \in Students :
            \/ \E phone \in BOOLEAN : IngestCheck(r, s, phone)
            \/ \E v \in {"confirmed", "denied"} : ConfirmRead(r, s, v)
        \/ IngestStore(r) \/ ConfirmStore(r)
        \/ SummaryCount(r) \/ SummaryBuckets(r)
        \/ SummaryIntervals(r) \/ SummaryRelease(r)

-----------------------------------------------------------------------------
(* With MongoDB a request writes back the list it read earlier, and loses  *)
(* what another wrote, so there this is claimed for requests that follow   *)
(* each other.                                                             *)
Faithful == ~setting.mongo \/ setting.pace = "serial"

(* A student's denial stays: no copy of the event is left that would be    *)
(* counted or offered for recovery. A retry that overtakes its first       *)
(* attempt stores the event twice and a denial reaches the first only, so  *)
(* this is claimed for students who wait for their answers.                *)
DenialsHold ==
    Faithful /\ setting.pace # "free" =>
        \A s \in denied :
            /\ \A i \in Indices(records, s) : records[i].verdict = "denied"
            /\ s \notin eligible

(* A released summary shows nobody whose denial had been answered when the *)
(* part was read, though it was begun before: the count, the buckets and   *)
(* the intervals are read one after the other. That a part shows as many   *)
(* students as were counted is not claimed, for it is not so.              *)
SummaryOmitsDenied ==
    Faithful /\ setting.pace # "free" =>
        \A r \in Requests : proc[r].op = "release" =>
            /\ proc[r].buckets.of \cap proc[r].buckets.denied = {}
            /\ proc[r].intervals.of \cap proc[r].intervals.denied = {}

=============================================================================
