---------------------------- MODULE LocalCapture -----------------------------
(***************************************************************************)
(* The programs that watch a camera or a recording and print or post what  *)
(* the workers report: local_ml/student_worker.py and scripts/             *)
(* run_student_signals.py for the student, local_ml/worker.py and scripts/ *)
(* run_vision_on_video.py for the presenter, and the camera monitor of the *)
(* desktop (its life cycle is CameraMonitor). One program runs at a time.  *)
(*                                                                         *)
(* Reading a frame and analysing it are one step: the loops are            *)
(* sequential, and only an interruption comes between the two.             *)
(***************************************************************************)
EXTENDS StudentSignals, VisionSignals, DesktopSignals

CONSTANTS
    Steps,          \* time between two frames (bound)
    Latencies,      \* time the presenter's detector may take (bound)
    StudentFrames,  \* frames of the student's camera (bound)
    PresenterViews, \* frames of the presenter's (bound)
    DesktopFrames   \* what the desktop's analyzer finds in one (bound)

ASSUME FramesAssumption ==
    /\ Steps \subseteq Nat /\ Latencies \subseteq Nat
    /\ StudentFrames \subseteq Frames /\ PresenterViews \subseteq Scenes
    /\ DesktopFrames \subseteq SUBSET Signals

(* Every program takes the default policies: a gap in the samples is       *)
(* longer than the slowest sampling, and no gap is within the merge gap.   *)
ASSUME PoliciesInUse ==
    /\ Sampling <= MaxGap /\ MergeGap <= MaxGap + 1
    /\ MaxSampling <= VisionMaxGap

VARIABLES
    tool,      \* which program runs, and whether it was given a board
    clock,     \* lecture time
    last,      \* last_ms: the time of the last frame that was read
    student,   \* the student worker
    vision,    \* the presenter's worker
    tracker,   \* the desktop's tracker
    reported,  \* the intervals that the loop has printed or collected
    samples,      \* history: the frames that were analysed, or not shown
    phase      \* how the program stands

workers == <<student, vision, tracker>>
captureVars == <<tool, clock, last, student, vision, tracker, reported, samples, phase>>

Tools == [watches : {"student", "presenter", "desktop"}, live : BOOLEAN, board : BOOLEAN]
Samples == [t : Nat, on : SUBSET (Labels \cup Kinds), face : BOOLEAN, shown : BOOLEAN]

(* A replay knows no board, the student's tools have none, and the desktop *)
(* watches a camera.                                                       *)
CaptureInit ==
    /\ tool \in {p \in Tools : /\ p.board => p.live /\ p.watches = "presenter"
                              /\ p.watches = "desktop" => p.live}
    /\ clock = 0 /\ last = 0
    /\ student = StudentIdle /\ vision = VisionIdle /\ tracker = TrackerIdle
    /\ reported = {} /\ samples = <<>>
    /\ phase = "running"

Previous ==
    CASE tool.watches = "student"   -> student.previous
      [] tool.watches = "presenter" -> vision.previous
      [] tool.watches = "desktop"   -> tracker.previous
InTime(now) == Previous < now /\ now <= Horizon

(* A recording is read at a stride of frames that rounds the sampling.     *)
Shortfall == 1
Strides(dt) ==
    LET stride == IF tool.watches = "student" THEN Sampling ELSE VisionSampling
    IN  tool.live \/ samples = <<>> \/ dt + Shortfall >= stride

Watching(who) == phase = "running" /\ tool.watches = who

Saw(now, on, face, shown) ==
    samples' = Append(samples, [t |-> now, on |-> on, face |-> face, shown |-> shown])

EndsAs(how, events) ==
    /\ phase' = how
    /\ reported' = reported \cup events
    /\ UNCHANGED <<tool, clock, last, samples>>

-----------------------------------------------------------------------------
(* The student's frames. A frame that follows too soon is not analysed,    *)
(* but the time it was read counts when the program ends.                  *)
SkipStudentFrame(dt) ==
    LET now == clock + dt
    IN  /\ Watching("student") /\ Strides(dt) /\ InTime(now)
        /\ StudentSkips(student, now)
        /\ clock' = now /\ last' = now
        /\ UNCHANGED <<tool, workers, reported, samples, phase>>

ReadStudentFrame(dt, f) ==
    LET now == clock + dt
        o == Observation(f)
        result == StudentObserve(student, o, now)
    IN  /\ Watching("student") /\ Strides(dt) /\ InTime(now)
        /\ ~StudentSkips(student, now)
        /\ clock' = now /\ last' = now
        /\ student' = result.worker
        /\ reported' = reported \cup result.events
        /\ Saw(now, result.on, f.yaw # NoTime, TRUE)
        /\ UNCHANGED <<tool, vision, tracker, phase>>

-----------------------------------------------------------------------------
(* The presenter's frames. A camera's next frame comes after the analysis; *)
(* the time of a recording does not wait for it.                           *)
SkipPresenterFrame(dt) ==
    LET now == clock + dt
    IN  /\ Watching("presenter") /\ Strides(dt) /\ InTime(now)
        /\ VisionSkips(vision, now)
        /\ clock' = now /\ last' = now
        /\ UNCHANGED <<tool, workers, reported, samples, phase>>

ReadPresenterFrame(dt, v, latency) ==
    LET now == clock + dt
        on == Flagged(v, tool.board)
        result == VisionObserve(vision, on, now, latency)
    IN  /\ Watching("presenter") /\ Strides(dt) /\ InTime(now)
        /\ ~VisionSkips(vision, now)
        /\ clock' = IF tool.live THEN now + latency ELSE now
        /\ last' = now
        /\ vision' = result.worker
        /\ reported' = reported \cup result.events
        /\ Saw(now, on, FALSE, TRUE)
        /\ UNCHANGED <<tool, student, tracker, phase>>

(* The recording does not show the presenter's tile for a while.           *)
TileHidden(dt) ==
    LET now == clock + dt
    IN  /\ Watching("presenter") /\ ~tool.live /\ Strides(dt) /\ InTime(now)
        /\ clock' = now /\ last' = now
        /\ vision' = VisionUnavailable(vision)
        /\ IF samples # <<>> /\ ~samples[Len(samples)].shown THEN UNCHANGED samples
           ELSE Saw(now, {}, FALSE, FALSE)
        /\ UNCHANGED <<tool, student, tracker, reported, phase>>

-----------------------------------------------------------------------------
(* The ticks of the desktop's timer: the clock is read once the frame has  *)
(* been analysed, and a tick that comes too early is ignored.              *)
SkipTick(dt) ==
    LET now == clock + dt
    IN  /\ Watching("desktop") /\ InTime(now)
        /\ TrackerSkips(tracker, now)
        /\ clock' = now /\ last' = now
        /\ UNCHANGED <<tool, workers, reported, samples, phase>>

Tick(dt, on) ==
    LET now == clock + dt
        result == TrackerObserve(tracker, on, now)
    IN  /\ Watching("desktop") /\ InTime(now)
        /\ ~TrackerSkips(tracker, now)
        /\ clock' = now /\ last' = now
        /\ tracker' = result.worker
        /\ reported' = reported \cup result.events
        /\ Saw(now, on, FALSE, TRUE)
        /\ UNCHANGED <<tool, student, vision, phase>>

-----------------------------------------------------------------------------
(* The ends. A lost camera is not a student who has left; a failed         *)
(* inference, a time beyond the lecture or one that does not advance makes *)
(* the worker unavailable and ends the program with the exception.         *)
Discard ==
    /\ student' = StudentUnavailable(student)
    /\ vision' = VisionUnavailable(vision)
    /\ tracker' = TrackerUnavailable(tracker)

SourceLost ==
    /\ phase = "running" /\ tool.live
    /\ Discard
    /\ EndsAs("stopped", {})

InferenceFails ==
    /\ phase = "running"
    /\ Discard
    /\ EndsAs("stopped", {})

TimeRefused(dt) ==
    /\ phase = "running"
    /\ ~InTime(clock + dt)
    /\ tool.live \/ dt > 0
    /\ Discard
    /\ EndsAs("stopped", {})

(* The source is exhausted or closed, the time is up, or Ctrl-C came while *)
(* no frame was analysed. The live presenter's program does not flush.     *)
StudentEnds ==
    /\ Watching("student")
    /\ EndsAs("ended", StudentFlush(student, last))
    /\ student' = StudentUnavailable(student) /\ UNCHANGED <<vision, tracker>>

ReplayEnds ==
    /\ Watching("presenter") /\ ~tool.live
    /\ EndsAs("ended", VisionFlush(vision, last))
    /\ vision' = VisionUnavailable(vision) /\ UNCHANGED <<student, tracker>>

PresenterEnds ==
    /\ Watching("presenter") /\ tool.live
    /\ Discard
    /\ EndsAs("stopped", {})

(* The monitor is stopped: what is open is closed at the present time, or   *)
(* the flush refuses a clock that has not moved, and keeps what it had.    *)
MonitorStops(dt) ==
    LET now == clock + dt
    IN  /\ Watching("desktop") /\ now > Previous
        /\ phase' = "ended"
        /\ clock' = now /\ last' = now
        /\ reported' = reported \cup TrackerFlush(tracker, now)
        /\ tracker' = [TrackerIdle EXCEPT !.previous = now]
        /\ UNCHANGED <<tool, student, vision, samples>>

FlushRefused ==
    /\ Watching("desktop") /\ clock <= Previous
    /\ EndsAs("ended", {})
    /\ UNCHANGED workers

(* Ctrl-C during the analysis of a frame: the loop flushes what the worker *)
(* held before the frame, and what a gap had finished is not printed.      *)
InterruptedStudent(dt) ==
    LET now == clock + dt
        held == IF StudentGap(student, now) THEN StudentIdle ELSE student
    IN  /\ Watching("student") /\ tool.live /\ InTime(now)
        /\ ~StudentSkips(student, now)
        /\ phase' = "interrupted"
        /\ clock' = now /\ last' = now
        /\ reported' = reported \cup StudentFlush(held, now)
        /\ student' = StudentUnavailable(student)
        /\ UNCHANGED <<tool, vision, tracker, samples>>

CaptureNext ==
    \/ \E dt \in Steps :
        \/ SkipStudentFrame(dt) \/ SkipPresenterFrame(dt)
        \/ TileHidden(dt) \/ TimeRefused(dt) \/ InterruptedStudent(dt)
        \/ SkipTick(dt) \/ MonitorStops(dt) \/ \E on \in DesktopFrames : Tick(dt, on)
        \/ \E f \in StudentFrames : ReadStudentFrame(dt, f)
        \/ \E v \in PresenterViews, latency \in Latencies : ReadPresenterFrame(dt, v, latency)
    \/ SourceLost \/ InferenceFails
    \/ StudentEnds \/ ReplayEnds \/ PresenterEnds \/ FlushRefused

CaptureSpec == CaptureInit /\ [][CaptureNext]_captureVars

-----------------------------------------------------------------------------
(* The durations of the worker that runs.                                  *)
OfWorker(ofStudent, ofPresenter, ofDesktop) ==
    CASE tool.watches = "student"   -> ofStudent
      [] tool.watches = "presenter" -> ofPresenter
      [] tool.watches = "desktop"   -> ofDesktop

Shortest == OfWorker(MinDuration, VisionMinDuration, TrackerMinDuration)
LongestGap == OfWorker(MaxGap, VisionMaxGap, TrackerMaxGap)
Watched == OfWorker(Labels, Judged(tool.board), Signals)
Bridge == OfWorker(MergeGap, 0, 0)
Spacing == OfWorker(MergeGap, Cooldown, 0)

Index == 1..Len(samples)
At(i) == samples[i].t
On(i, l) == l \in samples[i].on

(* The samples from i to j follow each other without a gap.                *)
Joined(i, j) ==
    /\ \A k \in i..j : samples[k].shown
    /\ \A k \in (i + 1)..j : At(k) - At(k - 1) <= LongestGap

(* The report e ends at the first sample after j, where the condition was  *)
(* over, or at j itself when the desktop saw it last long enough.          *)
OverAfter(e, j) ==
    /\ j < Len(samples) /\ samples[j + 1].shown /\ At(j + 1) = e.end /\ ~On(j + 1, e.label)
    /\ e.end - At(j) <= LongestGap

LongEnoughAt(e, i, j) ==
    /\ tool.watches = "desktop" /\ e.end = At(j)
    /\ i < j /\ At(j - 1) - e.start < Shortest

(* Or where the program ended, for the desktop whenever it was stopped.    *)
OpenAtEnd(e, j) ==
    /\ j = Len(samples) /\ phase \in {"ended", "interrupted"} /\ e.end = last
    /\ tool.watches # "desktop" => e.end - At(j) <= LongestGap

(* The report e begins at the sample i and was last seen at the sample j.  *)
Backed(e, i, j) ==
    /\ i <= j /\ At(i) = e.start /\ On(i, e.label) /\ On(j, e.label)
    /\ Joined(i, j)
    /\ OverAfter(e, j) \/ LongEnoughAt(e, i, j) \/ OpenAtEnd(e, j)
    /\ \A p, q \in i..j :
        On(q, e.label) /\ p < q /\ (\A k \in p..(q - 1) : ~On(k, e.label))
            => At(q) - At(p) < Bridge

(* Between two reports of one condition lies the merge gap, for the        *)
(* presenter the cooldown, also when the worker was unavailable meanwhile; *)
(* the desktop reports nothing twice.                                      *)
Spaced(d, e) ==
    d.label = e.label /\ d # e => d.end + Spacing <= e.start \/ e.end + Spacing <= d.start

(* No turn of the head is judged before the baseline stands, and a turned  *)
(* head with its face in view is a new seating position once it lasts      *)
(* longer than the reset: the sample that finds it so is the last that the *)
(* report covers.                                                          *)
Bounded(e) ==
    /\ Cardinality({i \in Index : At(i) < e.start /\ samples[i].face}) >= BaselineMin
    /\ \A i, j \in Index :
          /\ i < j /\ At(i) >= e.start /\ At(j) <= e.end
          /\ \A k \in i..j : samples[k].face /\ On(k, "head_away")
          => At(j - 1) - At(i) <= BaselineReset

(* Every reported interval is long enough, begins at a sample that showed  *)
(* the condition, ends at the first that did not or where the program      *)
(* ended, and in between the samples followed each other and showed it but *)
(* for pauses that are shorter than the merge gap. A frame nobody saw,     *)
(* a lost camera or a layout without the presenter is never part of one,   *)
(* reports of one condition keep their distance, and a turned head ends    *)
(* with the seating position it is judged by.                              *)
ReportsAreBacked ==
    \A e \in reported :
        /\ e.end - e.start >= Shortest
        /\ \E i, j \in Index : Backed(e, i, j)
        /\ \A d \in reported : Spaced(d, e)
        /\ e.label = "head_away" => Bounded(e)

SameUntil(l, i, j) == (\A k \in i..j : On(k, l)) /\ Joined(i, j)

PausedFor(l, j, k) == Joined(j, k) /\ \A n \in (j + 1)..k : ~On(n, l)

GapAfter(k) == k < Len(samples) /\ samples[k + 1].shown /\ At(k + 1) - At(k) > LongestGap

PauseEnded(l, j) ==
    \E k \in (j + 1)..Len(samples) :
        /\ PausedFor(l, j, k)
        /\ \/ At(k) - At(j + 1) >= Bridge
           \/ tool.watches = "student" /\ GapAfter(k)
           \/ phase = "ended" /\ k = Len(samples)

Cooling(l, i) ==
    tool.watches = "presenter" /\
        \E e \in reported : e.label = l /\ e.end <= At(i) /\ At(i) < e.end + Cooldown

Covered(l, begin, end) == \E e \in reported : e.label = l /\ e.start <= begin /\ end <= e.end

(* The desktop reports a condition once, from where it began.              *)
Begins(l, i) == ~(i > 1 /\ Joined(i - 1, i) /\ On(i - 1, l))
Prompted(l, i, until) == \E e \in reported : e.label = l /\ e.start = At(i) /\ e.end <= until

Told(l, i, until) ==
    IF tool.watches = "desktop" THEN Begins(l, i) => Prompted(l, i, until)
    ELSE Covered(l, At(i), until)

(* A condition that lasted long enough over joined samples is reported     *)
(* once it has ended: when the merge gap has passed, when a gap in the     *)
(* samples follows its pause, or when the program ends in order; for the   *)
(* presenter at once, unless a cooldown covers its beginning; and by the   *)
(* desktop while it still lasts.                                           *)
SustainedIsReported ==
    \A l \in Watched, i \in Index : \A j \in i..Len(samples) :
        SameUntil(l, i, j) /\ ~Cooling(l, i) =>
            /\ tool.watches = "desktop" /\ At(j) - At(i) >= Shortest => Told(l, i, At(j))
            /\ j < Len(samples) /\ At(j + 1) - At(i) >= Shortest /\ PauseEnded(l, j)
                    => Told(l, i, At(j + 1))
            /\ phase = "ended" /\ j = Len(samples) /\ last - At(i) >= Shortest
                    => Told(l, i, last)

=============================================================================
