----------------------------- MODULE ClassReport ------------------------------
(***************************************************************************)
(* The professor's report of professor/metrics.py: what fixed buckets of a *)
(* lecture show of a group of students, from the intervals in which each   *)
(* of them was observed and the signals that each of them sent.            *)
(*                                                                         *)
(* Intervals are half-open, on the lecture clock; ratios are percentages.  *)
(* Names tell apart records and events with the same interval.             *)
(***************************************************************************)
EXTENDS Naturals, FiniteSets, Sequences, SequencesExt

CONSTANTS
    LectureMs,      \* the end of the last final chunk of the transcript
    BucketMs,       \* the policy: the width of a bucket,
    MinGroup,       \*   minimum_group_size,
    MinCoverage,    \*   minimum_coverage_ratio,
    HotspotRatio,   \*   hotspot_ratio,
    MinSignal,      \*   and minimum_signal_duration_ms
    Histories,      \* what a student's records may be, and
    Sent,           \*   the signals, in EveryReportIsSafe (bound)
    Deliveries      \*   beside these delivery events (bound)

Duration(i) == i.to - i.from
IsInterval(i) == i.from \in Nat /\ i.to \in Nat /\ i.from < i.to

ASSUME ReportAssumption ==
    /\ LectureMs \in Nat /\ MinSignal \in Nat
    /\ BucketMs \in Nat \ {0} /\ MinGroup \in Nat \ {0}
    /\ \A i \in Deliveries : IsInterval(i)
    /\ \A intervals \in Histories \cup Sent :
         IsFiniteSet(intervals) /\ \A i \in intervals : IsInterval(i)

Buckets ==
    {[from |-> BucketMs * n, to |-> Min({LectureMs, BucketMs * (n + 1)})] :
        n \in {k \in 0..LectureMs : BucketMs * k < LectureMs}}

-----------------------------------------------------------------------------
(* covered_duration: the intervals that reach the bucket, clipped to it,   *)
(* taken in order with a cursor at the end of what has been counted.       *)
Reaches(i, b) == i.from < b.to /\ b.from < i.to
Clipped(i, b) == [from |-> Max({i.from, b.from}), to |-> Min({i.to, b.to})]
Within(intervals, b) == {Clipped(i, b) : i \in {j \in intervals : Reaches(j, b)}}

Earlier(i, j) == i.from < j.from \/ (i.from = j.from /\ i.to < j.to)
Leftmost(intervals) == CHOOSE i \in intervals : \A j \in intervals : i = j \/ Earlier(i, j)

Counted(swept, i) ==
    LET left == Max({swept.cursor, i.from}) IN IF left < i.to THEN i.to - left ELSE 0

SweptBack(swept, i) ==   \* slip: an interval within another moves the cursor back
    [total |-> swept.total + Counted(swept, i), cursor |-> i.to]

Swept(swept, i) ==
    [total |-> swept.total + Counted(swept, i), cursor |-> Max({swept.cursor, i.to})]

(* What is counted and what is left when n of the intervals are taken.     *)
Sweeping(state) ==
    LET i == Leftmost(state.left)
    IN [swept |-> Swept(state.swept, i), left |-> state.left \ {i}]

CoveredDuration(intervals, b) ==
    LET inside == Within(intervals, b)
        after[n \in 0..Cardinality(inside)] ==
            IF n = 0 THEN [swept |-> [total |-> 0, cursor |-> b.from], left |-> inside]
            ELSE Sweeping(after[n - 1])
    IN  after[Cardinality(inside)].swept.total

-----------------------------------------------------------------------------
(* One bucket. A record that says a student could not be observed wins     *)
(* over those that say the contrary.                                       *)
IsObserved(own, b) ==
    /\ CoveredDuration({r \in own : r.ok}, b) = Duration(b)
    /\ CoveredDuration({r \in own : ~r.ok}, b) = 0

ObservedOf(group, records, b) == {s \in group : IsObserved(records[s], b)}

(* Denied signals, and those no report takes, do not count; a confirmation *)
(* stands in for confidence, and a look down always needs one.             *)
Counts(event) ==
    /\ event.approved
    /\ event.confirmed # "no"
    /\ event.confirmed = "yes" \/ (event.sure /\ ~event.down)

AffectedOf(observed, events, b) ==
    {s \in observed : CoveredDuration({e \in events[s] : Counts(e)}, b)
                        >= Min({MinSignal, Duration(b)})}

Reaching(ratio, part, whole) == 100 * Cardinality(part) >= ratio * Cardinality(whole)

IsGroup(students) == Cardinality(students) >= MinGroup

(* Whom a bucket counts: nobody unless both are groups.                    *)
Shown(group, observed) == IF IsGroup(group) /\ IsGroup(observed) THEN observed ELSE {}

Bucket(group, records, events, b) ==
    LET observed == Shown(group, ObservedOf(group, records, b))
        affected == AffectedOf(observed, events, b)
        available == observed # {} /\ Reaching(MinCoverage, observed, group)
    IN [status |-> IF ~IsGroup(group) THEN "suppressed"
                   ELSE IF available THEN "available" ELSE "insufficient_evidence",
        observed |-> Cardinality(observed),
        affected |-> IF available THEN Cardinality(affected) ELSE 0,
        hotspot |-> available /\ Reaching(HotspotRatio, affected, observed)]

(* The report: its buckets, and the delivery events that only buckets that *)
(* are shown make up.                                                      *)
Report(group, records, events) == [b \in Buckets |-> Bucket(group, records, events, b)]

Available(report) == {b \in Buckets : report[b].status = "available"}

Findings(report, deliveries) ==
    {d \in deliveries : CoveredDuration(Available(report), d) = Duration(d)}

-----------------------------------------------------------------------------
(* What the sweep is for, without it: a moment counts once, whatever       *)
(* overlaps, is contained or is sent twice.                                *)
Moments(i) == i.from..(i.to - 1)
At(n, intervals) == \E i \in intervals : n \in Moments(i)

SeenThroughout(own, b) ==
    \A n \in Moments(b) : At(n, {r \in own : r.ok}) /\ ~At(n, {r \in own : ~r.ok})

MissedIn(events, b) == {n \in Moments(b) : At(n, {e \in events : Counts(e)})}

(* A bucket that counts anyone counts a group of students who were observed *)
(* in every moment of it, and of them those who missed enough of it.       *)
CountsGroup(bucket, group, records, events, b) ==
    LET seen == {s \in group : SeenThroughout(records[s], b)}
        missing == {s \in seen : Cardinality(MissedIn(events[s], b))
                                    >= Min({MinSignal, Duration(b)})}
    IN /\ bucket.observed = Cardinality(seen) /\ IsGroup(seen)
       /\ bucket.status = "available" => bucket.affected = Cardinality(missing)

ReportIsSafe(report, group, records, events) ==
    /\ \A b \in Buckets :
         report[b].observed > 0 => CountsGroup(report[b], group, records, events, b)
    /\ \A d \in Findings(report, Deliveries) : \A n \in Moments(d) : At(n, Available(report))

EveryReportIsSafe(students) ==
    \A records \in [students -> Histories], events \in [students -> Sent] :
        \A group \in SUBSET students :
            ReportIsSafe(Report(group, records, events), group, records, events)

=============================================================================
