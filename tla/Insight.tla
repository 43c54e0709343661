-------------------------------- MODULE Insight --------------------------------
(***************************************************************************)
(* What the professor learns of a lecture and what leaves the service:     *)
(* delivery events (delivery/service.py), recommendations drawn from the   *)
(* released report and their reviews (professor/recommendations.py), the   *)
(* consent to external text (recovery/consent_routes.py) and tool-assisted *)
(* recovery (ai/routes.py, ai/tools.py), beside the signal events.         *)
(*                                                                         *)
(* LearningState.lock is held over a call of the provider. The signal      *)
(* events, the participants of a report and the transcript are not under   *)
(* it. Coverage is complete until a student withdraws; it is modelled in   *)
(* AggregationConsent. Each lecture has one bucket.                        *)
(***************************************************************************)
EXTENDS SignalEvents

CONSTANTS
    DeliveryIds, Batches,   \* batches of delivery events, by their identifiers
    Contents,               \* what a delivery event says
    MaximumRounds           \* ToolRunner.maximum_rounds

ASSUME InsightAssumption ==
    /\ MaximumRounds \in 1..5
    /\ \A b \in Batches : DOMAIN b \subseteq DeliveryIds /\ \A i \in DOMAIN b : b[i] \in Contents
    /\ None \notin Contents

VARIABLES
    delivery,   \* LearningState.delivery
    receipts,   \* history: the batches that were answered with a receipt
    words,      \* whether the lecture has a final transcript
    covered,    \* students whose coverage is stored
    lock,       \* the request that holds LearningState.lock, or None
    consent,    \* LearningState.external_consent
    runs,       \* LearningState.recommendation_runs, with a number each
    reviews,    \* LearningState.reviews, with the number of the run they are of
    shown       \* history: the run that the professor was last shown, or None

learning == <<delivery, receipts, words, covered, lock, consent, runs, reviews, shown>>
advice == <<runs, reviews, shown>>
vars == <<setting, signals, history, proc, begun, learning>>

People == Students \cup {Professor}

Init ==
    /\ InitSignals
    /\ delivery = [i \in DeliveryIds |-> None] /\ receipts = {}
    /\ words = (status = "ended")
    /\ covered = Students
    /\ lock = None /\ consent = {}
    /\ runs = {} /\ reviews = {} /\ shown = None

-----------------------------------------------------------------------------
(* The session ends, and its transcript is received, also after the end. A *)
(* correction keeps the chunks and changes nothing that is modelled here.  *)
EndSession ==
    /\ status = "active" /\ status' = "ended"
    /\ UNCHANGED <<opted, records, history, proc, begun, learning>>

Transcribe ==
    /\ ~words /\ words' = TRUE
    /\ UNCHANGED <<signals, history, proc, begun, delivery, receipts, covered, lock,
                   consent, advice>>

(* update_aggregation_consent: withdrawal erases the coverage.             *)
SetAggregation(s) ==
    LET allowed == IF s \in opted THEN opted \ {s} ELSE opted \cup {s}
    IN  /\ lock = None /\ InTurn
        /\ opted' = allowed
        /\ covered' = covered \cap (allowed \cup (Students \ {s}))
        /\ UNCHANGED <<status, records, history, proc, begun, delivery, receipts, words,
                       lock, consent, advice>>

SetExternal(who) ==
    /\ lock = None /\ InTurn /\ setting.live
    /\ consent' = IF who \in consent THEN consent \ {who} ELSE consent \cup {who}
    /\ UNCHANGED <<signals, history, proc, begun, delivery, receipts, words, covered,
                   lock, advice>>

-----------------------------------------------------------------------------
(* DeliveryService.ingest: the session is checked before the lock, the     *)
(* identifiers under it.                                                   *)
Delivering(b) == [op |-> "deliver", who |-> Professor, batch |-> b]

DeliverCheck(r, b) ==
    /\ status = "active"
    /\ Begin(r, Delivering(b))
    /\ UNCHANGED <<signals, history, learning>>

NeverConflicts(b) == FALSE   \* slip: an event that is sent again replaces the first

Conflicts(b) == \E i \in DOMAIN b : delivery[i] \notin {None, b[i]}
Delivered(b) == [i \in DeliveryIds |-> IF i \in DOMAIN b THEN b[i] ELSE delivery[i]]

DeliverStore(r) ==
    LET b == proc[r].batch
    IN  /\ proc[r].op = "deliver" /\ lock = None
        /\ IF Conflicts(b)
           THEN UNCHANGED <<delivery, receipts>>
           ELSE delivery' = Delivered(b) /\ receipts' = receipts \cup {b}
        /\ Finish(r)
        /\ UNCHANGED <<signals, history, words, covered, lock, consent, advice>>

-----------------------------------------------------------------------------
(* ProfessorMetricsService.report: numbers of students, never who they are. *)
(* The transcript shows in it by the chunks it has, not by their text.     *)
Observed == opted \cap covered
Affected == Safe(records, Observed)
Available ==
    /\ status = "ended" /\ words
    /\ Cardinality(opted) >= MinimumGroup /\ Cardinality(Observed) >= MinimumGroup

Reports == [observed : Nat, affected : Nat,
            findings : [DeliveryIds -> Contents \cup {None}]]

Report == [observed |-> Cardinality(Observed), affected |-> Cardinality(Affected),
           findings |-> delivery]

(* The hotspot_ratio is 0.4. Only hotspots are recommended upon.           *)
IsHotspot(report) == 5 * report.affected >= 2 * report.observed

-----------------------------------------------------------------------------
(* RecommendationService._generate, which holds the lock throughout.       *)
Scope(report) ==
    IF IsHotspot(report) /\ (setting.live => Professor \in consent)
    THEN "lecture_transcript" ELSE "intervals_only"

RunsOf(report) == {run \in runs : run.report = report}
Cached(report) ==
    {run \in RunsOf(report) : Scope(report) \in {run.scope, "intervals_only"}}

AllReviews(report) == reviews   \* slip: a new run keeps the reviews of the old one

ReviewsBut(report) == {v \in reviews : v.report # report}

(* Each request makes one run at most, so the requests begun number it.    *)
Keep(report, scope, number) ==
    LET run == [report |-> report, scope |-> scope, number |-> number]
    IN  /\ runs' = (runs \ RunsOf(report)) \cup {run}
        /\ reviews' = ReviewsBut(report)
        /\ shown' = run

Generating(report) ==
    [op |-> "generate", who |-> Professor, report |-> report, number |-> begun,
     from |-> Observed]

CanGenerate(r) ==
    lock = None /\ Available /\ proc[r] = Idle /\ begun < MaxRequests /\ Admitted(Professor)

GenerateCached(r) ==
    /\ CanGenerate(r)
    /\ \E run \in Cached(Report) : shown' = run
    /\ UNCHANGED <<signals, history, proc, begun, delivery, receipts, words, covered, lock,
                   consent, runs, reviews>>

GenerateLocally(r) ==
    /\ CanGenerate(r) /\ Cached(Report) = {}
    /\ setting.live => Scope(Report) = "intervals_only"
    /\ Keep(Report, Scope(Report), begun)
    /\ begun' = begun + 1
    /\ UNCHANGED <<signals, history, proc, delivery, receipts, words, covered, lock, consent>>

GenerateAsk(r) ==
    /\ CanGenerate(r) /\ Cached(Report) = {}
    /\ setting.live /\ Scope(Report) = "lecture_transcript"
    /\ Begin(r, Generating(Report))
    /\ lock' = r
    /\ UNCHANGED <<signals, history, delivery, receipts, words, covered, consent, advice>>

GenerateAnswer(r) ==
    /\ proc[r].op = "generate"
    /\ Keep(proc[r].report, "lecture_transcript", proc[r].number)
    /\ lock' = None /\ Finish(r)
    /\ UNCHANGED <<signals, history, delivery, receipts, words, covered, consent>>

GenerateFails(r) ==
    /\ proc[r].op = "generate"
    /\ lock' = None /\ Finish(r)
    /\ UNCHANGED <<signals, history, delivery, receipts, words, covered, consent, advice>>

(* review: the report and the run are read without the lock.               *)
ReviewCheck(r) ==
    /\ lock = None /\ shown # None
    /\ Available /\ Report = shown.report /\ IsHotspot(Report) /\ RunsOf(Report) # {}
    /\ Begin(r, [op |-> "review", who |-> Professor, of |-> shown])
    /\ UNCHANGED <<signals, history, learning>>

ReviewStore(r) ==
    LET of == proc[r].of
    IN  /\ proc[r].op = "review" /\ lock = None
        /\ reviews' = ReviewsBut(of.report) \cup {[report |-> of.report, number |-> of.number]}
        /\ Finish(r)
        /\ UNCHANGED <<signals, history, delivery, receipts, words, covered, lock, consent,
                       runs, shown>>

-----------------------------------------------------------------------------
(* run_tools: consent is checked, and checked again under the lock. The    *)
(* provider then asks for up to MaximumRounds rounds of calls.             *)
MayAsk(who) == setting.live => who \in consent

ToolBegin(r, s) ==
    /\ MayAsk(s)
    /\ Begin(r, [op |-> "tool", who |-> s, rounds |-> 0])
    /\ UNCHANGED <<signals, history, learning>>

Trusting(who) == TRUE   \* slip: the consent is not checked again under the lock

Reconsidered(who) == MayAsk(who)

ToolEnter(r) ==
    /\ proc[r].op = "tool" /\ lock = None
    /\ IF Reconsidered(proc[r].who)
       THEN lock' = r /\ Continue(r, [proc[r] EXCEPT !.op = "tools"])
       ELSE UNCHANGED lock /\ Finish(r)
    /\ UNCHANGED <<signals, history, delivery, receipts, words, covered, consent, advice>>

RoundsForgotten(n) == IF n = 0 THEN 1 ELSE 0   \* slip: a call resets the count

NextRound(n) == n + 1

(* A round reads the transcript, or another of the tools.                  *)
ToolCall(r) ==
    /\ proc[r].op = "tools" /\ proc[r].rounds < MaximumRounds
    /\ Continue(r, [proc[r] EXCEPT !.rounds = NextRound(@)])
    /\ UNCHANGED <<signals, history, learning>>

(* A final draft. A failure and a call too many end the request.           *)
ToolFinal(r) ==
    /\ proc[r].op = "tools"
    /\ Continue(r, [proc[r] EXCEPT !.op = "ground"])
    /\ lock' = None
    /\ UNCHANGED <<signals, history, delivery, receipts, words, covered, consent, advice>>

ToolFails(r) ==
    /\ proc[r].op = "tools"
    /\ lock' = None /\ Finish(r)
    /\ UNCHANGED <<signals, history, delivery, receipts, words, covered, consent, advice>>

(* The quotes are compared with the transcript as it is by then; either    *)
(* answer ends the request.                                                *)
ToolGround(r) ==
    /\ proc[r].op = "ground" /\ Finish(r)
    /\ UNCHANGED <<signals, history, learning>>

-----------------------------------------------------------------------------
Provided(r) ==
    GenerateAnswer(r) \/ GenerateFails(r) \/ ToolCall(r) \/ ToolFinal(r) \/ ToolFails(r)

Step ==
    \/ SignalsNext /\ UNCHANGED learning
    \/ EndSession \/ Transcribe
    \/ \E s \in Students : SetAggregation(s)
    \/ \E who \in People : SetExternal(who)
    \/ \E r \in Requests :
        \/ \E b \in Batches : DeliverCheck(r, b)
        \/ \E s \in Students : ToolBegin(r, s)
        \/ DeliverStore(r)
        \/ GenerateCached(r) \/ GenerateLocally(r) \/ GenerateAsk(r)
        \/ ReviewCheck(r) \/ ReviewStore(r)
        \/ ToolEnter(r) \/ ToolGround(r) \/ Provided(r)

Next == Step /\ UNCHANGED setting

(* A provider answers, or its client gives up; so does what it is given.   *)
Spec == Init /\ [][Next]_vars /\ \A r \in Requests : WF_vars(Provided(r) /\ UNCHANGED setting)

-----------------------------------------------------------------------------
Runs == [report : Reports, scope : {"lecture_transcript", "intervals_only"}, number : Nat]
Reviews == [report : Reports, number : Nat]

DeliverJobs == [op : {"deliver"}, who : {Professor}, batch : Batches]
GenerateJobs == [op : {"generate"}, who : {Professor}, report : Reports, number : Nat,
                 from : SUBSET Students]
ReviewJobs == [op : {"review"}, who : {Professor}, of : Runs]
ToolJobs == [op : {"tool", "tools", "ground"}, who : Students, rounds : Nat]

Jobs == {Idle} \cup IngestJobs \cup ConfirmJobs \cup SummaryJobs
          \cup DeliverJobs \cup GenerateJobs \cup ReviewJobs \cup ToolJobs

TypeOK ==
    /\ setting \in Settings /\ begun \in Nat
    /\ proc \in [Requests -> Jobs]
    /\ status \in {"active", "ended"} /\ words \in BOOLEAN
    /\ opted \subseteq Students /\ covered \subseteq Students /\ consent \subseteq People
    /\ records \in Seq(Records)
    /\ denied \subseteq Students /\ eligible \subseteq Students
    /\ delivery \in [DeliveryIds -> Contents \cup {None}] /\ receipts \subseteq Batches
    /\ lock \in Requests \cup {None}
    /\ runs \subseteq Runs /\ reviews \subseteq Reviews /\ shown \in Runs \cup {None}

(* A batch of delivery events is stored as a whole or not at all, and what *)
(* was receipted never changes: of two batches that disagree on an event   *)
(* one is refused with everything it brings.                               *)
DeliveryIsKept ==
    /\ \A b \in receipts : \A i \in DOMAIN b : delivery[i] = b[i]
    /\ \A i \in DeliveryIds : delivery[i] # None => \E b \in receipts : i \in DOMAIN b

(* While lecture text is with the live provider, the person for whom it    *)
(* was sent consents to that, and the students behind the report still     *)
(* allow aggregation: revocation waits for the answer.                     *)
AskedWithConsent ==
    \A r \in Requests : setting.live /\ proc[r].op \in {"generate", "tools"} =>
        /\ proc[r].who \in consent
        /\ proc[r].op = "generate" => proc[r].from \subseteq opted

(* A review is of the run that is stored for its report, as the professor  *)
(* saw it; with two windows open a regeneration may overtake a review.     *)
ReviewsBelong ==
    setting.pace # "free" => \A v \in reviews : \E run \in RunsOf(v.report) : run.number = v.number

(* The lock, for which everything else waits, is released.                 *)
LockIsReleased == \A r \in Requests : (lock = r) ~> (lock # r)

=============================================================================
