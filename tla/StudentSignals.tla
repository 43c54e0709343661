---------------------------- MODULE StudentSignals ----------------------------
(***************************************************************************)
(* StudentSignalWorker of local_ml/student_signals.py as operators on the  *)
(* worker's record: how one frame's observation advances the conditions    *)
(* that are running, and which intervals it reports. LocalCapture holds    *)
(* the variables and calls them as the capture loops do.                   *)
(*                                                                         *)
(* Times are ticks of the lecture clock. Scores are levels: 0 nothing, 1   *)
(* below the threshold, 2 at it. The yaw of a face is 0 or 2 and a turn is *)
(* a difference above 1, so that medians stay whole. Confidences are left  *)
(* out: nothing here depends on them.                                      *)
(***************************************************************************)
EXTENDS Integers, Sequences, FiniteSets, SequencesExt

CONSTANTS
    Sampling,         \* sampling_ms: closer frames are not analysed
    MinDuration,      \* minimum_duration_ms of a reported interval
    MaxGap,           \* maximum_sample_gap_ms between two samples
    MergeGap,         \* merge_gap_ms that a condition may pause for
    BaselineMin,      \* faces needed before a turn is judged
    BaselineWindow,   \* faces the baseline remembers
    BaselineReset,    \* a longer turn is a new seating position
    Horizon           \* MAXIMUM_LECTURE_MS

ASSUME PolicyAssumption ==
    /\ {Sampling, MinDuration, MaxGap, BaselineMin, BaselineReset} \subseteq Nat \ {0}
    /\ {MergeGap, Horizon} \subseteq Nat
    /\ BaselineWindow \in Nat /\ BaselineWindow >= BaselineMin

Labels == {"student_left_frame", "face_absent", "head_away", "phone_visible"}
NoTime == -1

-----------------------------------------------------------------------------
(* OnnxStudentAnalyzer: what the detectors find in a frame. A frame is its *)
(* best person's score and whether the body crops are large enough to be   *)
(* searched, the best phone score of the whole frame and of the crops, and *)
(* the yaw of its best face.                                               *)
Scores == 0..2
Frames == [person : Scores, croppable : BOOLEAN, full : Scores, body : Scores,
           yaw : {NoTime, 0, 2}]

MaxOf(a, b) == IF a > b THEN a ELSE b

(* The crops of the body are searched when a person was found at all.      *)
PhoneScore(f) ==
    IF f.person > 0 /\ f.croppable THEN MaxOf(f.full, f.body) ELSE f.full

Observation(f) == [person |-> f.person, phone |-> PhoneScore(f), yaw |-> f.yaw]

-----------------------------------------------------------------------------
(* The worker. A candidate is a running condition: when it began, and the  *)
(* first sample of its present pause.                                      *)
Free == [begin |-> NoTime, gap |-> NoTime]

StudentIdle == [active |-> [l \in Labels |-> Free], yaws |-> <<>>,
                turnSince |-> NoTime, lastFace |-> "unknown", previous |-> NoTime]

Running(w, l) == w.active[l].begin # NoTime
Paused(w, l) == w.active[l].gap # NoTime

(* unavailable: incomplete candidates and the baseline are discarded.      *)
StudentUnavailable(w) == StudentIdle

Median(s) ==
    LET t == SortSeq(s, LAMBDA a, b : a < b)  n == Len(s)
    IN  IF n % 2 = 1 THEN t[(n + 1) \div 2] ELSE (t[n \div 2] + t[n \div 2 + 1]) \div 2

Established(w) == Len(w.yaws) >= BaselineMin

AbsDiff(a, b) == IF a > b THEN a - b ELSE b - a

IsTurned(w, o) == o.yaw # NoTime /\ Established(w) /\ AbsDiff(o.yaw, Median(w.yaws)) > 1

(* A turned head that the face detector loses is still the same turn.      *)
LostAfterTurn(w, o) == o.person = 2 /\ o.yaw = NoTime /\ w.lastFace = "turned"

(* _flags: the labels the observation is positive for.                     *)
Positive(w, o) ==
    {l \in Labels :
        \/ l = "student_left_frame" /\ o.person < 2
        \/ l = "face_absent" /\ o.person = 2 /\ o.yaw = NoTime /\ ~LostAfterTurn(w, o)
        \/ l = "head_away" /\ (IsTurned(w, o) \/ LostAfterTurn(w, o))
        \/ l = "phone_visible" /\ o.person = 2 /\ o.phone = 2}

LastFace(w, o, turned) ==
    CASE o.yaw # NoTime /\ turned  -> "turned"
      [] o.yaw # NoTime /\ ~turned -> "ahead"
      [] o.yaw = NoTime            -> IF o.person < 2 THEN "unknown" ELSE w.lastFace

Window(s) == IF Len(s) > BaselineWindow THEN Tail(s) ELSE s

(* _update_baseline: turned faces do not feed a baseline that exists, and   *)
(* a turn that lasts too long starts it anew.                              *)
Fed(w, o, turned) ==
    IF o.yaw # NoTime /\ ~(turned /\ Established(w))
    THEN Window(Append(w.yaws, o.yaw)) ELSE w.yaws

NeverTooLong(w, turned, now) == FALSE   \* slip: a baseline is kept for good

TooLong(w, turned, now) ==
    turned /\ w.turnSince # NoTime /\ now - w.turnSince > BaselineReset

Baseline(w, o, turned, now) == IF TooLong(w, turned, now) THEN <<>> ELSE Fed(w, o, turned)

TurnSince(w, turned, now) ==
    IF ~turned \/ TooLong(w, turned, now) THEN NoTime
    ELSE IF w.turnSince = NoTime THEN now ELSE w.turnSince

-----------------------------------------------------------------------------
(* _close: the interval of a finished candidate, unless it is too short.   *)
Reportable(l, begin, end) ==
    IF end - begin < MinDuration THEN {} ELSE {[label |-> l, start |-> begin, end |-> end]}

(* The pause of a candidate has become too long to be bridged.             *)
Bridgeless(c, now) == c.gap # NoTime /\ now - c.gap >= MergeGap

(* The pause as it stands once a negative sample has been seen.            *)
PausedAt(c, now) == [c EXCEPT !.gap = IF @ = NoTime THEN now ELSE @]

(* _advance: a label's candidate after a sample, and what it reports.      *)
Advanced(c, isPositive, now) ==
    IF isPositive
    THEN IF c = Free \/ Bridgeless(c, now) THEN [begin |-> now, gap |-> NoTime]
         ELSE [c EXCEPT !.gap = NoTime]
    ELSE IF c = Free \/ Bridgeless(PausedAt(c, now), now) THEN Free ELSE PausedAt(c, now)

ReportedLate(l, c, isPositive, now) ==   \* slip: the pause belongs to the interval
    LET paused == IF isPositive THEN c ELSE PausedAt(c, now)
    IN  IF c # Free /\ Bridgeless(paused, now) THEN Reportable(l, c.begin, now) ELSE {}

Reported(l, c, isPositive, now) ==
    LET paused == IF isPositive THEN c ELSE PausedAt(c, now)
    IN  IF c # Free /\ Bridgeless(paused, now) THEN Reportable(l, c.begin, paused.gap) ELSE {}

(* _finish_ended: after a gap in the samples the candidates that had        *)
(* already stopped are closed, and those still running are dropped.        *)
Finished(w) ==
    UNION {IF Paused(w, l) THEN Reportable(l, w.active[l].begin, w.active[l].gap) ELSE {}
             : l \in Labels}

StudentGap(w, now) == w.previous # NoTime /\ now - w.previous > MaxGap
StudentSkips(w, now) == w.previous # NoTime /\ now - w.previous < Sampling

(* observe, once the frame has been analysed: the worker and its reports.   *)
StudentObserve(w, o, now) ==
    LET kept == IF StudentGap(w, now) THEN [l \in Labels |-> Free] ELSE w.active
        on   == Positive(w, o)
        turned == "head_away" \in on
    IN  [worker |-> [active |-> [l \in Labels |-> Advanced(kept[l], l \in on, now)],
                     yaws |-> Baseline(w, o, turned, now),
                     turnSince |-> TurnSince(w, turned, now),
                     lastFace |-> LastFace(w, o, turned),
                     previous |-> now],
         events |-> (IF StudentGap(w, now) THEN Finished(w) ELSE {})
                      \cup UNION {Reported(l, kept[l], l \in on, now) : l \in Labels},
         on |-> on]

StudentFlushRunning(w, now) ==   \* slip: a condition in a pause is forgotten
    UNION {IF Running(w, l) /\ ~Paused(w, l) THEN Reportable(l, w.active[l].begin, now) ELSE {}
             : l \in Labels}

(* flush: the conditions that are still open when the observation stops.   *)
StudentFlush(w, now) ==
    UNION {IF Running(w, l)
           THEN Reportable(l, w.active[l].begin, IF Paused(w, l) THEN w.active[l].gap ELSE now)
           ELSE {} : l \in Labels}

=============================================================================
