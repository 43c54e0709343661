---------------------------- MODULE VisionSignals -----------------------------
(***************************************************************************)
(* VisionWorker of local_ml/vision.py as operators on the worker's record: *)
(* the presenter, the board and the slide are watched, and a condition is  *)
(* reported once it has ended. Unlike the student worker it bridges no     *)
(* pause, waits a cooldown after a report, and slows its sampling down     *)
(* when a frame took long to analyse.                                      *)
(***************************************************************************)
EXTENDS Integers, FiniteSets

CONSTANTS
    VisionSampling,       \* sampling_ms of the profile
    MaxSampling,          \* the slowest sampling a slow device falls back to
    VisionMinDuration,    \* minimum_duration_ms of a reported interval
    VisionMaxGap,         \* maximum_sample_gap_ms between two samples
    Cooldown              \* cooldown_ms after a reported interval

ASSUME VisionAssumption ==
    /\ {VisionSampling, MaxSampling, VisionMinDuration, VisionMaxGap} \subseteq Nat \ {0}
    /\ Cooldown \in Nat /\ MaxSampling >= VisionSampling

Kinds == {"presenter_out_of_frame", "board_or_screen_occluded", "slide_text_low_legibility"}
BoardKinds == Kinds \ {"presenter_out_of_frame"}
Never == -1

-----------------------------------------------------------------------------
(* A view is the people detected in it, each by the confirmed regions that *)
(* the box overlaps, and whether the board is blurred or without contrast. *)
Boxes == [confident : BOOLEAN, onPresenter : BOOLEAN, overBoard : BOOLEAN]
Scenes == [boxes : SUBSET Boxes, blurred : BOOLEAN, flat : BOOLEAN]

Detections(v) == {b \in v.boxes : b.confident}

(* The kinds that are judged: the board's need a board region and a        *)
(* profile other than low_power.                                           *)
Judged(board) == IF board THEN Kinds ELSE Kinds \ BoardKinds

Flagged(v, board) ==
    {k \in Judged(board) :
        \/ k = "presenter_out_of_frame" /\ \A b \in Detections(v) : ~b.onPresenter
        \/ k = "board_or_screen_occluded" /\ \E b \in Detections(v) : b.overBoard
        \/ k = "slide_text_low_legibility" /\ (v.blurred \/ v.flat)}

-----------------------------------------------------------------------------
(* The worker: when each running condition began, the time before which a  *)
(* kind is not begun again, the last sample and the present sampling.      *)
VisionIdle == [begun |-> [k \in Kinds |-> Never], cool |-> [k \in Kinds |-> 0],
               previous |-> Never, sampling |-> VisionSampling]

VisionForgets(w) == [VisionIdle EXCEPT !.sampling = w.sampling]   \* slip: no cooldowns

(* unavailable: running conditions are discarded, the cooldowns are kept.  *)
VisionUnavailable(w) == [w EXCEPT !.begun = VisionIdle.begun, !.previous = Never]

VisionGap(w, now) == w.previous # Never /\ now - w.previous > VisionMaxGap
VisionSkips(w, now) == w.previous # Never /\ now - w.previous < w.sampling

(* _close_interval: the interval of a finished condition, if long enough.  *)
Ended(k, begin, end) ==
    IF end - begin < VisionMinDuration THEN {} ELSE {[label |-> k, start |-> begin, end |-> end]}

(* A condition begins or goes on when it is flagged outside its cooldown.  *)
Continues(w, k, now) == now >= w.cool[k]

EndedBy(w, k, on, now) ==
    IF k \notin on /\ w.begun[k] # Never THEN Ended(k, w.begun[k], now) ELSE {}

BegunAt(w, k, on, now) ==
    IF k \notin on THEN Never
    ELSE IF Continues(w, k, now) /\ w.begun[k] = Never THEN now ELSE w.begun[k]

CoolUntil(w, k, on, now) ==
    IF EndedBy(w, k, on, now) = {} THEN w.cool[k] ELSE now + Cooldown

(* A frame that took longer than the sampling doubles it, up to a limit.   *)
SampledEvery(w, latency) ==
    IF latency <= w.sampling THEN w.sampling
    ELSE IF 2 * latency > MaxSampling THEN MaxSampling ELSE 2 * latency

(* observe, once the frame has been analysed.                              *)
VisionObserve(w, on, now, latency) ==
    LET kept == IF VisionGap(w, now) THEN [w EXCEPT !.begun = VisionIdle.begun] ELSE w
    IN  [worker |-> [begun |-> [k \in Kinds |-> BegunAt(kept, k, on, now)],
                     cool |-> [k \in Kinds |-> CoolUntil(kept, k, on, now)],
                     previous |-> now, sampling |-> SampledEvery(w, latency)],
         events |-> UNION {EndedBy(kept, k, on, now) : k \in Kinds}]

(* flush: the conditions that are still open when the video ends.          *)
VisionFlush(w, now) ==
    UNION {IF w.begun[k] = Never THEN {} ELSE Ended(k, w.begun[k], now) : k \in Kinds}

=============================================================================
