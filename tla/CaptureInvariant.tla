-------------------------- MODULE CaptureInvariant ---------------------------
(***************************************************************************)
(* What the workers of LocalCapture hold, told by the samples they saw: the *)
(* inductive invariants of the two properties. SoundInv says that whatever *)
(* a worker holds or reported was seen, FullInv that whatever was seen is  *)
(* held or reported.                                                       *)
(***************************************************************************)
EXTENDS LocalCapture

Reports == [label : Labels \cup Kinds, start : Nat, end : Nat]
Times == Nat \cup {NoTime}

Candidates == [begin : Times, gap : Times]
StudentWorkers ==
    [active : [Labels -> Candidates], yaws : Seq({0, 2}), turnSince : Times,
     lastFace : {"unknown", "ahead", "turned"}, previous : Times]
VisionWorkers ==
    [begun : [Kinds -> Times], cool : [Kinds -> Nat], previous : Times, sampling : 1..MaxSampling]
Trackers ==
    [candidates : [Signals -> [begin : Times, emitted : BOOLEAN]], previous : Times]

CaptureTyped ==
    /\ tool \in Tools /\ clock \in Nat /\ last \in Nat
    /\ student \in StudentWorkers /\ vision \in VisionWorkers /\ tracker \in Trackers
    /\ reported \subseteq Reports /\ samples \in Seq(Samples)
    /\ phase \in {"running", "ended", "interrupted", "stopped"}

(* Samples come in the order of their times.                               *)
Ordered ==
    /\ last <= clock
    /\ \A i \in Index : At(i) <= last
    /\ \A i, j \in Index : i < j => At(i) <= At(j)

(* The student's and the desktop's samples are all shown, no two at one    *)
(* time, and the worker remembers the time of the last.                    *)
InStep(previous) ==
    /\ \A i \in Index : samples[i].shown
    /\ \A i, j \in Index : i < j => At(i) < At(j)
    /\ previous = IF samples = <<>> THEN NoTime ELSE At(Len(samples))
    /\ clock = last

(* Every pause between the samples i and j was short enough to bridge.     *)
Bridged(l, i, j) ==
    \A p, q \in i..j :
        On(q, l) /\ p < q /\ (\A k \in p..(q - 1) : ~On(k, l)) => At(q) - At(p) < Bridge

(* What the student's worker holds of a condition began at a sample that   *)
(* showed it, and has paused since the sample that first did not.          *)
Rooted(c, l) ==
    /\ c.begin = NoTime => c.gap = NoTime
    /\ c.begin # NoTime =>
        \E i, j \in Index :
            /\ i <= j /\ At(i) = c.begin /\ On(i, l) /\ On(j, l)
            /\ Joined(i, Len(samples)) /\ Bridged(l, i, j)
            /\ IF c.gap = NoTime THEN j = Len(samples)
               ELSE /\ j < Len(samples) /\ At(j + 1) = c.gap
                    /\ \A k \in (j + 1)..Len(samples) : ~On(k, l)

Grounded(e) ==
    /\ e.end - e.start >= Shortest
    /\ \E i, j \in Index : Backed(e, i, j)

FacesBefore(t) == {i \in Index : At(i) < t /\ samples[i].face}
Faces == {i \in Index : samples[i].face}

TurnsEnd ==
    \A i, j \in Index :
        i < j /\ (\A k \in i..j : samples[k].face /\ On(k, "head_away"))
            => At(j - 1) - At(i) <= BaselineReset

(* The baseline has no more angles than faces were seen, and a turn under  *)
(* way was judged by enough of them.                                       *)
Judging ==
    /\ Len(student.yaws) <= Cardinality(Faces)
    /\ student.lastFace = "turned" => Cardinality(Faces) >= BaselineMin
    /\ LET begin == student.active["head_away"].begin
       IN  begin # NoTime => Cardinality(FacesBefore(begin)) >= BaselineMin

(* The turn the worker times is as long as the samples say, unless the     *)
(* baseline has just been dropped.                                         *)
Turning ==
    /\ student.turnSince # NoTime =>
          /\ samples # <<>> /\ student.turnSince <= At(Len(samples))
          /\ At(Len(samples)) - student.turnSince <= BaselineReset
    /\ \A i \in Index :
          (\A k \in i..Len(samples) : samples[k].face /\ On(k, "head_away")) =>
              \/ student.turnSince # NoTime /\ student.turnSince <= At(i)
              \/ student.yaws = <<>>

-----------------------------------------------------------------------------
(* What has been reported, however the program stands.                     *)
Backing ==
    /\ \A e \in reported : Grounded(e) /\ e.label \in OfWorker(Labels, Kinds, Signals)
    /\ \A d, e \in reported : Spaced(d, e)
    /\ tool.watches = "student" =>
          /\ TurnsEnd
          /\ \A e \in reported : e.label = "head_away" => Cardinality(FacesBefore(e.start)) >= BaselineMin

(* While the student's program runs a report is followed by the merge gap  *)
(* before its condition can begin again.                                   *)
StudentRuns ==
    /\ InStep(student.previous)
    /\ samples # <<>> => last - At(Len(samples)) < Sampling
    /\ \A l \in Labels : Rooted(student.active[l], l)
    /\ \A e \in reported :
         /\ samples # <<>> /\ e.end + MergeGap <= At(Len(samples))
         /\ LET begin == student.active[e.label].begin
            IN  begin # NoTime => e.end + MergeGap <= begin
    /\ Judging /\ Turning

(* The presenter's worker holds unbroken runs, none begun in its cooldown. *)
PresenterRuns ==
    /\ IF vision.previous = Never
       THEN vision.begun = VisionIdle.begun
       ELSE /\ samples # <<>> /\ samples[Len(samples)].shown /\ At(Len(samples)) = vision.previous
            /\ last - vision.previous < vision.sampling
    /\ \A k \in Kinds : vision.begun[k] # Never =>
          /\ vision.begun[k] >= vision.cool[k]
          /\ \E i \in Index : /\ At(i) = vision.begun[k]
                              /\ SameUntil(k, i, Len(samples))
    /\ \A e \in reported : e.end + Cooldown <= vision.cool[e.label]

(* What the tracker has not told is still too short, and begins after all  *)
(* that it told of the condition.                                          *)
DesktopRuns ==
    /\ InStep(tracker.previous)
    /\ \A l \in Signals :
          LET c == tracker.candidates[l]
          IN  /\ c.begin = Unseen => ~c.emitted
              /\ c.begin # Unseen =>
                    /\ \E i \in Index : At(i) = c.begin /\ SameUntil(l, i, Len(samples))
                    /\ ~c.emitted => /\ At(Len(samples)) - c.begin < TrackerMinDuration
                                     /\ \A e \in reported : e.label = l => e.end <= c.begin
    /\ \A e \in reported : samples # <<>> /\ e.end <= At(Len(samples))

SoundInv ==
    /\ CaptureTyped /\ Ordered /\ Backing
    /\ phase = "running" =>
          /\ tool.watches = "student" => StudentRuns
          /\ tool.watches = "presenter" => PresenterRuns
          /\ tool.watches = "desktop" => DesktopRuns

-----------------------------------------------------------------------------
(* A run of samples up to the last is held since its beginning or before;  *)
(* one that has paused is held with its pause, or the pause cannot be      *)
(* bridged any more.                                                       *)
StudentFollows ==
    \A l \in Labels, i \in Index : \A j \in i..Len(samples) :
        SameUntil(l, i, j) =>
            LET c == student.active[l]
            IN  /\ j = Len(samples) => c.begin # NoTime /\ c.begin <= At(i) /\ c.gap = NoTime
                /\ j < Len(samples) /\ PausedFor(l, j, Len(samples)) =>
                      \/ c.begin # NoTime /\ c.begin <= At(i) /\ c.gap = At(j + 1)
                      \/ At(Len(samples)) - At(j + 1) >= MergeGap

(* A cooldown is that of a report, and a run is held unless one covers its *)
(* beginning.                                                              *)
PresenterFollows ==
    /\ \A k \in Kinds :
          vision.cool[k] = 0 \/ \E e \in reported : /\ e.label = k /\ vision.cool[k] = e.end + Cooldown
                                                   /\ e.end <= last
    /\ \A k \in Kinds, i \in Index :
          SameUntil(k, i, Len(samples)) /\ k \in Judged(tool.board) =>
              (vision.begun[k] # Never /\ vision.begun[k] <= At(i)) \/ Cooling(k, i)

(* A run is held from exactly where it began, and marked as told only when *)
(* it has been.                                                            *)
DesktopFollows ==
    \A l \in Signals, i \in Index :
        SameUntil(l, i, Len(samples)) /\ Begins(l, i) =>
            LET c == tracker.candidates[l]
            IN  /\ c.begin = At(i)
                /\ c.emitted => Prompted(l, i, At(Len(samples)))

FullInv ==
    /\ phase = "running" =>
          /\ tool.watches = "student" => StudentFollows
          /\ tool.watches = "presenter" => PresenterFollows
          /\ tool.watches = "desktop" => DesktopFollows
    /\ SustainedIsReported
=============================================================================
