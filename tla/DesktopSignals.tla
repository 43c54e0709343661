---------------------------- MODULE DesktopSignals ----------------------------
(***************************************************************************)
(* StudentSignalTracker of the desktop's renderer (renderer/services/      *)
(* student_signal_tracker.mts) as operators on the tracker's record.       *)
(* Unlike the workers of the backend it reports a condition as soon as it  *)
(* has lasted long enough, and then not again until it has ended.          *)
(***************************************************************************)
EXTENDS Integers, FiniteSets

CONSTANTS
    TrackerSampling,     \* samplingMs: closer observations are ignored
    TrackerMinDuration,  \* minimumDurationMs of a reported interval
    TrackerMaxGap        \* maximumSampleGapMs between two observations

ASSUME TrackerAssumption ==
    {TrackerSampling, TrackerMinDuration, TrackerMaxGap} \subseteq Nat \ {0}

Signals == {"student_left_frame", "phone_visible"}
Unseen == -1

(* A candidate is when the condition began and whether it was reported.    *)
NoCandidate == [begin |-> Unseen, emitted |-> FALSE]

TrackerIdle == [candidates |-> [l \in Signals |-> NoCandidate], previous |-> Unseen]

(* unavailable: the candidates are discarded, and so is the last time.     *)
TrackerUnavailable(w) == TrackerIdle

TrackerSkips(w, now) == w.previous # Unseen /\ now - w.previous < TrackerSampling

GapIgnored(w, now) == FALSE   \* slip: the candidates outlast a gap

TrackerGap(w, now) == w.previous # Unseen /\ now - w.previous > TrackerMaxGap

(* closeCandidate: the interval, unless it is too short or was reported.   *)
Closing(l, c, end) ==
    IF c = NoCandidate \/ c.emitted \/ end - c.begin < TrackerMinDuration THEN {}
    ELSE {[label |-> l, start |-> c.begin, end |-> end]}

Begun(c, now) == IF c = NoCandidate THEN [begin |-> now, emitted |-> FALSE] ELSE c

FollowedUnmarked(l, c, isPositive, now) ==   \* slip: the report is not remembered
    IF isPositive THEN Begun(c, now) ELSE NoCandidate

(* The candidate of a label after an observation.                          *)
Followed(l, c, isPositive, now) ==
    IF isPositive
    THEN LET going == Begun(c, now)
         IN [going EXCEPT !.emitted = @ \/ Closing(l, going, now) # {}]
    ELSE NoCandidate

(* observe: the tracker after it, and what it reports.                     *)
TrackerObserve(w, on, now) ==
    LET kept == IF TrackerGap(w, now) THEN TrackerIdle.candidates ELSE w.candidates
        held == [l \in Signals |-> IF l \in on THEN Begun(kept[l], now) ELSE kept[l]]
    IN  [worker |-> [candidates |-> [l \in Signals |-> Followed(l, kept[l], l \in on, now)],
                     previous |-> now],
         events |-> UNION {Closing(l, held[l], now) : l \in Signals}]

(* flush: the conditions that are still open when the camera is stopped.   *)
TrackerFlush(w, now) == UNION {Closing(l, w.candidates[l], now) : l \in Signals}

=============================================================================
