----------------------------- MODULE InsightProofs -----------------------------
(***************************************************************************)
(* Why what the professor is shown omits what was denied, belongs to its   *)
(* run, and leaves the service with consent only. Each argument has its    *)
(* own invariant: a call of the provider keeps the lock that every change  *)
(* of a consent waits for (Asking); a professor who waits for answers has  *)
(* no review pending while a run is made (Advised); a student who does has *)
(* one copy of the event at most (Single), so what a summary reads omits   *)
(* the denied (Omitting). They rest on requests taking turns (Turns).      *)
(***************************************************************************)
EXTENDS Insight, FiniteSetTheorems, SequenceTheorems, TLAPS

(* Requests of a person, and with the serial pace all of them, take turns. *)
Turns ==
    /\ setting.pace = "serial" => \A q, r \in Requests :
          proc[q] # Idle /\ proc[r] # Idle => q = r
    /\ setting.pace = "calm" => \A q, r \in Requests :
          proc[q].who = proc[r].who /\ proc[q].who \in People => q = r

Typed == TypeOK /\ Turns

-----------------------------------------------------------------------------
LEMMA Constants ==
    /\ None \notin Requests /\ None \notin People /\ None \notin Contents
    /\ Settings \subseteq AllSettings
BY GroupAssumption, InsightAssumption DEF People

LEMMA OpOfJob ==
    /\ Idle.op = "idle" /\ Idle.who = None
    /\ \A j \in IngestJobs : j.op = "ingest" /\ j.who \in Students
    /\ \A j \in ConfirmJobs : j.op = "confirm" /\ j.who \in Students
    /\ \A j \in SummaryJobs : j.op \in {"count", "buckets", "release"} /\ j.who = Professor
    /\ \A j \in DeliverJobs : j.op = "deliver" /\ j.who = Professor
    /\ \A j \in GenerateJobs : j.op = "generate" /\ j.who = Professor
    /\ \A j \in ReviewJobs : j.op = "review" /\ j.who = Professor
    /\ \A j \in ToolJobs : j.op \in {"tool", "tools", "ground"} /\ j.who \in Students
<1>1. Idle.op = "idle" /\ Idle.who = None BY DEF Idle
<1>2. \A j \in IngestJobs : j.op = "ingest" /\ j.who \in Students BY DEF IngestJobs
<1>3. \A j \in ConfirmJobs : j.op = "confirm" /\ j.who \in Students BY DEF ConfirmJobs
<1>4. \A j \in SummaryJobs : j.op \in {"count", "buckets", "release"} /\ j.who = Professor
  BY DEF SummaryJobs, CountJobs, BucketsJobs, ReleaseJobs
<1>5. \A j \in DeliverJobs : j.op = "deliver" /\ j.who = Professor BY DEF DeliverJobs
<1>6. \A j \in GenerateJobs : j.op = "generate" /\ j.who = Professor BY DEF GenerateJobs
<1>7. \A j \in ReviewJobs : j.op = "review" /\ j.who = Professor BY DEF ReviewJobs
<1>8. \A j \in ToolJobs : j.op \in {"tool", "tools", "ground"} /\ j.who \in Students
  BY DEF ToolJobs
<1> QED BY <1>1, <1>2, <1>3, <1>4, <1>5, <1>6, <1>7, <1>8

(* What a request holds, by its kind.                                      *)
LEMMA JobOfOp ==
    ASSUME NEW j \in Jobs
    PROVE  /\ j.op = "idle" => j = Idle
           /\ j.op = "ingest" => j \in IngestJobs
           /\ j.op = "confirm" => j \in ConfirmJobs
           /\ j.op \in {"count", "buckets", "release"} => j \in SummaryJobs
           /\ j.op = "deliver" => j \in DeliverJobs
           /\ j.op = "generate" => j \in GenerateJobs
           /\ j.op = "review" => j \in ReviewJobs
           /\ j.op \in {"tool", "tools", "ground"} => j \in ToolJobs
           /\ j # Idle => j.op # "idle" /\ j.who \in People
<1>1. CASE j = Idle
  BY <1>1, OpOfJob
<1>2. CASE j # Idle
  BY <1>2, OpOfJob DEF Jobs, People
<1> QED BY <1>1, <1>2

LEMMA SummaryOfOp ==
    ASSUME NEW j \in SummaryJobs
    PROVE  /\ j.op = "buckets" => j \in BucketsJobs /\ j.buckets \in Parts
           /\ j.op = "release" => /\ j \in ReleaseJobs
                                  /\ j.buckets \in Parts /\ j.intervals \in Parts
<1>1. \A c \in CountJobs : c.op = "count" BY DEF CountJobs
<1>2. \A c \in BucketsJobs : c.op = "buckets" /\ c.buckets \in Parts BY DEF BucketsJobs
<1>3. \A c \in ReleaseJobs : /\ c.op = "release"
                             /\ c.buckets \in Parts /\ c.intervals \in Parts
  BY DEF ReleaseJobs
<1> QED BY <1>1, <1>2, <1>3 DEF SummaryJobs

-----------------------------------------------------------------------------
(* A request begins in turn, goes on for the same person, or ends.         *)
LEMMA BeginTurns ==
    ASSUME Typed, UNCHANGED setting, NEW r \in Requests, NEW j \in Jobs, j.who \in People,
           Begin(r, j)
    PROVE  /\ proc' \in [Requests -> Jobs] /\ Turns' /\ proc'[r] = j
           /\ \A q \in Requests : q # r => proc'[q] = proc[q]
<1>1. /\ proc[r] = Idle /\ proc' = [proc EXCEPT ![r] = j]
      /\ setting.pace = "serial" => \A q \in Requests : proc[q] = Idle
      /\ setting.pace = "calm" => \A q \in Requests : proc[q].who # j.who
  BY DEF Begin, Admitted, InTurn
<1>2. proc \in [Requests -> Jobs]
  BY DEF Typed, TypeOK
<1>3. proc' \in [Requests -> Jobs] /\ proc'[r] = j /\ \A q \in Requests : q # r => proc'[q] = proc[q]
  BY <1>1, <1>2
<1>4. Turns'
  BY <1>1, <1>3 DEF Typed, Turns
<1> QED BY <1>3, <1>4

LEMMA ContinueTurns ==
    ASSUME Typed, UNCHANGED setting, NEW r \in Requests, NEW j \in Jobs, proc[r] # Idle,
           j = Idle \/ j.who = proc[r].who, Continue(r, j)
    PROVE  /\ proc' \in [Requests -> Jobs] /\ Turns' /\ proc'[r] = j
           /\ \A q \in Requests : q # r => proc'[q] = proc[q]
<1>1. proc' = [proc EXCEPT ![r] = j]
  BY DEF Continue
<1>2. proc \in [Requests -> Jobs]
  BY DEF Typed, TypeOK
<1>3. proc' \in [Requests -> Jobs] /\ proc'[r] = j /\ \A q \in Requests : q # r => proc'[q] = proc[q]
  BY <1>1, <1>2
<1>4. Turns'
  BY <1>3, Constants, OpOfJob DEF Typed, Turns
<1> QED BY <1>3, <1>4

LEMMA FinishTurns ==
    ASSUME Typed, UNCHANGED setting, NEW r \in Requests, proc[r] # Idle, Finish(r)
    PROVE  /\ proc' \in [Requests -> Jobs] /\ Turns' /\ proc'[r] = Idle
           /\ \A q \in Requests : q # r => proc'[q] = proc[q]
BY ContinueTurns DEF Finish, Jobs

-----------------------------------------------------------------------------
(* The lists of events.                                                    *)
LEMMA ListFacts ==
    ASSUME NEW list \in Seq(Records)
    PROVE  /\ DOMAIN list = 1..Len(list) /\ Len(list) \in Nat
           /\ \A i \in DOMAIN list : list[i] \in Records /\ list[i].by \in Students
           /\ Recoverable(list) \subseteq Students
           /\ \A allowed : Safe(list, allowed) \subseteq allowed
<1>1. DOMAIN list = 1..Len(list) /\ Len(list) \in Nat /\ \A i \in DOMAIN list : list[i] \in Records
  OBVIOUS
<1>2. \A i \in DOMAIN list : list[i].by \in Students
  BY <1>1 DEF Records
<1> QED BY <1>1, <1>2 DEF Recoverable, Safe

LEMMA CorrectedList ==
    ASSUME NEW list \in Seq(Records), NEW s, NEW v \in {"confirmed", "denied"}
    PROVE  /\ Corrected(list, s, v) \in Seq(Records)
           /\ DOMAIN Corrected(list, s, v) = DOMAIN list
           /\ \A i \in DOMAIN list : Corrected(list, s, v)[i].by = list[i].by
           /\ \A i \in DOMAIN list : i # First(list, s) => Corrected(list, s, v)[i] = list[i]
           /\ First(list, s) \in DOMAIN list =>
                 Corrected(list, s, v)[First(list, s)].verdict = v
<1> DEFINE f == First(list, s)
           new == Corrected(list, s, v)
<1>1. new = [list EXCEPT ![f] = [@ EXCEPT !.verdict = v]]
  BY DEF Corrected
<1>2. list \in [1..Len(list) -> Records] /\ Len(list) \in Nat
  OBVIOUS
<1>3. \A e \in Records : /\ [e EXCEPT !.verdict = v] \in Records
                         /\ [e EXCEPT !.verdict = v].by = e.by
                         /\ [e EXCEPT !.verdict = v].verdict = v
  BY DEF Records
<1> HIDE DEF f, new
<1>4. new \in [1..Len(list) -> Records]
  BY <1>1, <1>2, <1>3
<1>5. new \in Seq(Records)
  BY <1>2, <1>4, SeqDef
<1> QED BY <1>1, <1>2, <1>3, <1>4, <1>5 DEF f, new

LEMMA AppendedList ==
    ASSUME NEW list \in Seq(Records), NEW e \in Records
    PROVE  /\ Append(list, e) \in Seq(Records)
           /\ Len(Append(list, e)) = Len(list) + 1
           /\ \A i \in 1..Len(list) : Append(list, e)[i] = list[i]
           /\ Append(list, e)[Len(list) + 1] = e
BY AppendProperties

-----------------------------------------------------------------------------
(* Types, and turns, in every step.                                        *)
LEMMA IngestCheckTyped ==
    ASSUME Typed, UNCHANGED <<setting, learning>>, NEW r \in Requests, NEW s \in Students,
           NEW phone \in BOOLEAN, IngestCheck(r, s, phone)
    PROVE  Typed'
<1> DEFINE j == Ingesting(s, phone)
<1>1. j \in Jobs /\ j.who \in People
  <2>1. j \in IngestJobs
    BY DEF Ingesting, IngestJobs, Typed, TypeOK
  <2> QED BY <2>1, OpOfJob DEF Jobs, People
<1>2. Begin(r, j) /\ UNCHANGED <<signals, history>>
  BY DEF IngestCheck
<1> HIDE DEF j
<1>3. proc' \in [Requests -> Jobs] /\ Turns'
  BY <1>1, <1>2, BeginTurns
<1> QED BY <1>2, <1>3 DEF Typed, TypeOK, signals, history, learning, Begin

LEMMA ConfirmReadTyped ==
    ASSUME Typed, UNCHANGED <<setting, learning>>, NEW r \in Requests, NEW s \in Students,
           NEW v \in {"confirmed", "denied"}, ConfirmRead(r, s, v)
    PROVE  Typed'
<1> DEFINE j == [op |-> "confirm", who |-> s, verdict |-> v, list |-> records]
<1>1. j \in Jobs /\ j.who \in People
  <2>1. j \in ConfirmJobs
    BY DEF ConfirmJobs, Typed, TypeOK
  <2> QED BY <2>1, OpOfJob DEF Jobs, People
<1>2. Begin(r, j) /\ UNCHANGED <<signals, history>>
  BY DEF ConfirmRead
<1> HIDE DEF j
<1>3. proc' \in [Requests -> Jobs] /\ Turns'
  BY <1>1, <1>2, BeginTurns
<1> QED BY <1>2, <1>3 DEF Typed, TypeOK, signals, history, learning, Begin

LEMMA SeenTyped ==
    ASSUME Typed, NEW r \in Requests, proc[r].op \in {"ingest", "confirm"}
    PROVE  /\ Seen(proc[r]) \in Seq(Records)
           /\ proc[r] # Idle /\ proc[r].who \in Students
           /\ proc[r].op = "ingest" => proc[r].phone \in BOOLEAN
           /\ proc[r].op = "confirm" => proc[r].verdict \in {"confirmed", "denied"}
<1>1. proc[r] \in Jobs /\ records \in Seq(Records)
  BY DEF Typed, TypeOK
<1>2. proc[r] \in IngestJobs \/ proc[r] \in ConfirmJobs
  BY <1>1, JobOfOp
<1>3. CASE proc[r] \in IngestJobs
  BY <1>1, <1>3, OpOfJob DEF Seen, IngestJobs
<1>4. CASE proc[r] \in ConfirmJobs
  BY <1>1, <1>4, OpOfJob DEF Seen, ConfirmJobs
<1> QED BY <1>2, <1>3, <1>4

LEMMA IngestStoreTyped ==
    ASSUME Typed, UNCHANGED <<setting, learning>>, NEW r \in Requests, IngestStore(r)
    PROVE  Typed'
<1> DEFINE list == Appended(proc[r])
           e == [by |-> proc[r].who, phone |-> proc[r].phone, verdict |-> "open"]
<1>1. /\ proc[r].op = "ingest" /\ records' = list /\ Finish(r)
      /\ eligible' = (eligible \ {proc[r].who}) \cup (Recoverable(list) \cap {proc[r].who})
      /\ UNCHANGED <<status, opted, denied>>
  BY DEF IngestStore
<1>2. Seen(proc[r]) \in Seq(Records) /\ proc[r] # Idle /\ proc[r].who \in Students /\ e \in Records
  BY <1>1, SeenTyped DEF Records
<1>3. list \in Seq(Records)
  BY <1>2, AppendedList DEF Appended
<1> HIDE DEF list, e
<1>4. proc' \in [Requests -> Jobs] /\ Turns'
  BY <1>1, <1>2, FinishTurns
<1>5. begun' = begun
  BY <1>1 DEF Finish, Continue
<1> QED BY <1>1, <1>2, <1>3, <1>4, <1>5 DEF Typed, TypeOK, learning

LEMMA ConfirmStoreTyped ==
    ASSUME Typed, UNCHANGED <<setting, learning>>, NEW r \in Requests, ConfirmStore(r)
    PROVE  Typed'
<1> DEFINE s == proc[r].who
           v == proc[r].verdict
           list == Corrected(Seen(proc[r]), s, v)
<1>1. /\ proc[r].op = "confirm" /\ records' = list /\ Finish(r)
      /\ denied' = IF v = "denied" THEN denied \cup {s} ELSE denied \ {s}
      /\ eligible' = IF v = "denied" THEN eligible \ {s} ELSE eligible
      /\ UNCHANGED <<status, opted>>
  BY DEF ConfirmStore
<1>2. Seen(proc[r]) \in Seq(Records) /\ proc[r] # Idle /\ s \in Students
      /\ v \in {"confirmed", "denied"}
  BY <1>1, SeenTyped
<1>3. list \in Seq(Records)
  BY <1>2, CorrectedList
<1> HIDE DEF list
<1>4. proc' \in [Requests -> Jobs] /\ Turns'
  BY <1>1, <1>2, FinishTurns
<1>5. begun' = begun
  BY <1>1 DEF Finish, Continue
<1> QED BY <1>1, <1>2, <1>3, <1>4, <1>5 DEF Typed, TypeOK, learning

LEMMA SummaryTyped ==
    ASSUME Typed, UNCHANGED <<setting, learning>>, NEW r \in Requests,
           SummaryCount(r) \/ SummaryBuckets(r) \/ SummaryIntervals(r) \/ SummaryRelease(r)
    PROVE  Typed'
<1>1. Part(Safe(records, opted)) \in Parts /\ proc[r] \in Jobs
  BY ListFacts DEF Typed, TypeOK, Part, Parts
<1>2. CASE SummaryCount(r)
  <2> DEFINE j == [op |-> "count", who |-> Professor]
  <2>1. j \in Jobs /\ j.who \in People
    BY DEF CountJobs, SummaryJobs, Jobs, People
  <2>2. Begin(r, j) /\ UNCHANGED <<signals, history>>
    BY <1>2 DEF SummaryCount
  <2> HIDE DEF j
  <2>3. proc' \in [Requests -> Jobs] /\ Turns'
    BY <2>1, <2>2, BeginTurns
  <2> QED BY <2>2, <2>3 DEF Typed, TypeOK, signals, history, learning, Begin
<1>3. CASE SummaryBuckets(r)
  <2> DEFINE j == [op |-> "buckets", who |-> Professor, buckets |-> Part(Safe(records, opted))]
  <2>1. j \in Jobs /\ j.who = Professor
    BY <1>1 DEF BucketsJobs, SummaryJobs, Jobs
  <2>2. Continue(r, j) /\ UNCHANGED <<signals, history>> /\ proc[r].op = "count"
    BY <1>3 DEF SummaryBuckets
  <2> HIDE DEF j
  <2>3. proc[r] # Idle /\ proc[r].who = Professor
    BY <1>1, <2>2, JobOfOp, OpOfJob
  <2>4. proc' \in [Requests -> Jobs] /\ Turns'
    BY <2>1, <2>2, <2>3, ContinueTurns
  <2> QED BY <2>2, <2>4 DEF Typed, TypeOK, signals, history, learning, Continue
<1>4. CASE SummaryIntervals(r)
  <2> DEFINE j == [op |-> "release", who |-> Professor, buckets |-> proc[r].buckets,
                   intervals |-> Part(Safe(records, opted))]
  <2>1. Continue(r, j) /\ UNCHANGED <<signals, history>> /\ proc[r].op = "buckets"
    BY <1>4 DEF SummaryIntervals, ReadAgain
  <2>2. proc[r] # Idle /\ proc[r].who = Professor /\ proc[r].buckets \in Parts
    BY <1>1, <2>1, JobOfOp, OpOfJob, SummaryOfOp
  <2>3. j \in Jobs /\ j.who = Professor
    BY <1>1, <2>2 DEF ReleaseJobs, SummaryJobs, Jobs
  <2> HIDE DEF j
  <2>4. proc' \in [Requests -> Jobs] /\ Turns'
    BY <2>1, <2>2, <2>3, ContinueTurns
  <2> QED BY <2>1, <2>4 DEF Typed, TypeOK, signals, history, learning, Continue
<1>5. CASE SummaryRelease(r)
  <2>1. /\ Finish(r) /\ proc[r].op = "release"
        /\ UNCHANGED <<signals, history>>
    BY <1>5 DEF SummaryRelease
  <2>2. proc[r] # Idle
    BY <2>1, OpOfJob
  <2>3. proc' \in [Requests -> Jobs] /\ Turns'
    BY <2>1, <2>2, FinishTurns
  <2> QED BY <2>1, <2>3 DEF Typed, TypeOK, signals, history, learning, Finish, Continue
<1> QED BY <1>2, <1>3, <1>4, <1>5

LEMMA SettingsTyped ==
    ASSUME Typed, UNCHANGED setting,
           \/ EndSession \/ Transcribe
           \/ \E s \in Students : SetAggregation(s)
           \/ \E who \in People : SetExternal(who)
    PROVE  Typed'
<1>1. CASE EndSession \/ Transcribe
  BY <1>1 DEF EndSession, Transcribe, Typed, TypeOK, Turns, history, learning, signals, advice
<1>2. ASSUME NEW s \in Students, SetAggregation(s) PROVE Typed'
  <2>1. opted' \subseteq Students /\ covered' \subseteq Students
    BY <1>2 DEF SetAggregation, Typed, TypeOK
  <2> QED BY <1>2, <2>1 DEF SetAggregation, Typed, TypeOK, Turns, history, advice
<1>3. ASSUME NEW who \in People, SetExternal(who) PROVE Typed'
  BY <1>3 DEF SetExternal, Typed, TypeOK, Turns, history, signals, advice
<1> QED BY <1>1, <1>2, <1>3

LEMMA DeliverTyped ==
    ASSUME Typed, UNCHANGED setting, NEW r \in Requests,
           (\E b \in Batches : DeliverCheck(r, b)) \/ DeliverStore(r)
    PROVE  Typed'
<1>1. ASSUME NEW b \in Batches, DeliverCheck(r, b) PROVE Typed'
  <2> DEFINE j == Delivering(b)
  <2>1. j \in Jobs /\ j.who \in People
    BY DEF Delivering, DeliverJobs, Jobs, People
  <2>2. Begin(r, j) /\ UNCHANGED <<signals, history, learning>>
    BY <1>1 DEF DeliverCheck
  <2> HIDE DEF j
  <2>3. proc' \in [Requests -> Jobs] /\ Turns'
    BY <2>1, <2>2, BeginTurns
  <2> QED BY <2>2, <2>3 DEF Typed, TypeOK, signals, history, learning, Begin
<1>2. CASE DeliverStore(r)
  <2> DEFINE b == proc[r].batch
  <2>1. b \in Batches /\ proc[r] # Idle
    <3>1. proc[r].op = "deliver" /\ proc[r] \in Jobs
      BY <1>2 DEF DeliverStore, Typed, TypeOK
    <3> QED BY <3>1, JobOfOp, OpOfJob DEF DeliverJobs
  <2>2. Delivered(b) \in [DeliveryIds -> Contents \cup {None}]
    BY <2>1, InsightAssumption DEF Delivered, Typed, TypeOK
  <2>3. delivery' \in [DeliveryIds -> Contents \cup {None}] /\ receipts' \subseteq Batches
    BY <1>2, <2>1, <2>2 DEF DeliverStore, Typed, TypeOK
  <2>4. proc' \in [Requests -> Jobs] /\ Turns' /\ begun' = begun
    BY <1>2, <2>1, FinishTurns DEF DeliverStore, Finish, Continue
  <2> QED BY <1>2, <2>3, <2>4 DEF DeliverStore, Typed, TypeOK, signals, history, advice
<1> QED BY <1>1, <1>2

LEMMA ReportTyped ==
    ASSUME Typed
    PROVE  Report \in Reports /\ Scope(Report) \in {"lecture_transcript", "intervals_only"}
<1>1. Observed \subseteq Students /\ Affected \subseteq Students
  BY ListFacts DEF Observed, Affected, Typed, TypeOK
<1>2. Cardinality(Observed) \in Nat /\ Cardinality(Affected) \in Nat
  BY <1>1, GroupAssumption, FS_Subset, FS_CardinalityType
<1> QED BY <1>2 DEF Report, Reports, Scope, Typed, TypeOK

LEMMA KeepTyped ==
    ASSUME Typed, NEW report \in Reports, NEW number \in Nat,
           NEW scope \in {"lecture_transcript", "intervals_only"}, Keep(report, scope, number)
    PROVE  runs' \subseteq Runs /\ reviews' \subseteq Reviews /\ shown' \in Runs
<1>1. [report |-> report, scope |-> scope, number |-> number] \in Runs
  BY DEF Runs
<1> QED BY <1>1 DEF Keep, ReviewsBut, Typed, TypeOK

(* Who asks for a run, and the report it is of.                            *)
LEMMA GeneratingTyped ==
    ASSUME Typed, NEW r \in Requests, proc[r].op = "generate"
    PROVE  /\ proc[r] # Idle /\ proc[r].who = Professor
           /\ proc[r].report \in Reports /\ proc[r].number \in Nat
<1>1. proc[r] \in GenerateJobs
  BY JobOfOp DEF Typed, TypeOK
<1> QED BY <1>1, OpOfJob DEF GenerateJobs

LEMMA GenerateTyped ==
    ASSUME Typed, UNCHANGED setting, NEW r \in Requests,
           \/ GenerateCached(r) \/ GenerateLocally(r) \/ GenerateAsk(r)
           \/ GenerateAnswer(r) \/ GenerateFails(r)
    PROVE  Typed'
<1>1. CASE GenerateCached(r)
  <2>1. shown' \in Runs
    BY <1>1 DEF GenerateCached, Cached, RunsOf, Typed, TypeOK
  <2> QED BY <1>1, <2>1 DEF GenerateCached, Typed, TypeOK, Turns, signals, history
<1>2. CASE GenerateLocally(r)
  <2>1. runs' \subseteq Runs /\ reviews' \subseteq Reviews /\ shown' \in Runs
    BY <1>2, ReportTyped, KeepTyped DEF GenerateLocally, Typed, TypeOK
  <2>2. begun' \in Nat
    BY <1>2 DEF GenerateLocally, Typed, TypeOK
  <2> QED BY <1>2, <2>1, <2>2 DEF GenerateLocally, Typed, TypeOK, Turns, signals, history
<1>3. CASE GenerateAsk(r)
  <2> DEFINE j == Generating(Report)
  <2>1. j \in Jobs /\ j.who \in People
    <3>1. Observed \subseteq Students
      BY DEF Observed, Typed, TypeOK
    <3>2. j \in GenerateJobs
      BY <3>1, ReportTyped DEF Generating, GenerateJobs, Typed, TypeOK
    <3> QED BY <3>2, OpOfJob DEF Jobs, People
  <2>2. /\ Begin(r, j) /\ lock' = r
        /\ UNCHANGED <<signals, history, delivery, receipts, words, covered, consent, advice>>
    BY <1>3 DEF GenerateAsk
  <2> HIDE DEF j
  <2>3. proc' \in [Requests -> Jobs] /\ Turns'
    BY <2>1, <2>2, BeginTurns
  <2> QED BY <2>2, <2>3 DEF Typed, TypeOK, signals, history, advice, Begin
<1>4. CASE GenerateAnswer(r)
  <2>1. proc[r] # Idle /\ runs' \subseteq Runs /\ reviews' \subseteq Reviews /\ shown' \in Runs
    BY <1>4, GeneratingTyped, KeepTyped DEF GenerateAnswer
  <2>2. proc' \in [Requests -> Jobs] /\ Turns' /\ begun' = begun
    BY <1>4, <2>1, FinishTurns DEF GenerateAnswer, Finish, Continue
  <2> QED BY <1>4, <2>1, <2>2 DEF GenerateAnswer, Typed, TypeOK, signals, history
<1>5. CASE GenerateFails(r)
  <2>1. proc' \in [Requests -> Jobs] /\ Turns' /\ begun' = begun
    BY <1>5, GeneratingTyped, FinishTurns DEF GenerateFails, Finish, Continue
  <2> QED BY <1>5, <2>1 DEF GenerateFails, Typed, TypeOK, signals, history, advice
<1> QED BY <1>1, <1>2, <1>3, <1>4, <1>5

LEMMA ReviewingTyped ==
    ASSUME Typed, NEW r \in Requests, proc[r].op = "review"
    PROVE  proc[r] # Idle /\ proc[r].who = Professor /\ proc[r].of \in Runs
<1>1. proc[r] \in ReviewJobs
  BY JobOfOp DEF Typed, TypeOK
<1> QED BY <1>1, OpOfJob DEF ReviewJobs

LEMMA ReviewTyped ==
    ASSUME Typed, UNCHANGED setting, NEW r \in Requests, ReviewCheck(r) \/ ReviewStore(r)
    PROVE  Typed'
<1>1. CASE ReviewCheck(r)
  <2> DEFINE j == [op |-> "review", who |-> Professor, of |-> shown]
  <2>1. j \in Jobs /\ j.who \in People
    BY <1>1 DEF ReviewCheck, ReviewJobs, Jobs, People, Typed, TypeOK
  <2>2. Begin(r, j) /\ UNCHANGED <<signals, history, learning>>
    BY <1>1 DEF ReviewCheck
  <2> HIDE DEF j
  <2>3. proc' \in [Requests -> Jobs] /\ Turns'
    BY <2>1, <2>2, BeginTurns
  <2> QED BY <2>2, <2>3 DEF Typed, TypeOK, signals, history, learning, Begin
<1>2. CASE ReviewStore(r)
  <2> DEFINE of == proc[r].of
             v == [report |-> of.report, number |-> of.number]
  <2>1. /\ proc[r].op = "review" /\ Finish(r)
        /\ reviews' = ReviewsBut(of.report) \cup {v}
        /\ UNCHANGED <<signals, history, delivery, receipts, words, covered, lock, consent,
                       runs, shown>>
    BY <1>2 DEF ReviewStore
  <2>2. proc[r] # Idle /\ v \in Reviews
    BY <2>1, ReviewingTyped DEF Runs, Reviews
  <2> HIDE DEF v
  <2>3. reviews' \subseteq Reviews
    BY <2>1, <2>2 DEF ReviewsBut, Typed, TypeOK
  <2>4. proc' \in [Requests -> Jobs] /\ Turns' /\ begun' = begun
    BY <2>1, <2>2, FinishTurns DEF Finish, Continue
  <2> QED BY <2>1, <2>3, <2>4 DEF Typed, TypeOK, signals, history
<1> QED BY <1>1, <1>2

LEMMA ToolJobTyped ==
    ASSUME Typed, NEW r \in Requests, proc[r].op \in {"tool", "tools", "ground"}
    PROVE  /\ proc[r] # Idle /\ proc[r] \in ToolJobs
           /\ \A op \in {"tool", "tools", "ground"} :
                 LET j == [proc[r] EXCEPT !.op = op]
                 IN  j \in Jobs /\ j.who = proc[r].who /\ j.op = op
<1>1. proc[r] \in ToolJobs
  BY JobOfOp DEF Typed, TypeOK
<1> QED BY <1>1, OpOfJob DEF ToolJobs, Jobs

LEMMA ToolTyped ==
    ASSUME Typed, UNCHANGED setting, NEW r \in Requests,
           \/ \E s \in Students : ToolBegin(r, s)
           \/ ToolEnter(r) \/ ToolCall(r) \/ ToolFinal(r) \/ ToolFails(r) \/ ToolGround(r)
    PROVE  Typed'
<1>1. ASSUME NEW s \in Students, ToolBegin(r, s) PROVE Typed'
  <2> DEFINE j == [op |-> "tool", who |-> s, rounds |-> 0]
  <2>1. j \in Jobs /\ j.who \in People
    BY DEF ToolJobs, Jobs, People
  <2>2. Begin(r, j) /\ UNCHANGED <<signals, history, learning>>
    BY <1>1 DEF ToolBegin
  <2> HIDE DEF j
  <2>3. proc' \in [Requests -> Jobs] /\ Turns'
    BY <2>1, <2>2, BeginTurns
  <2> QED BY <2>2, <2>3 DEF Typed, TypeOK, signals, history, learning, Begin
<1>2. ASSUME ToolEnter(r) \/ ToolFinal(r) \/ ToolFails(r) \/ ToolCall(r) \/ ToolGround(r)
      PROVE  proc[r].op \in {"tool", "tools", "ground"}
  BY <1>2 DEF ToolEnter, ToolFinal, ToolFails, ToolCall, ToolGround
<1>3. CASE ToolEnter(r) \/ ToolFinal(r) \/ ToolFails(r)
  <2>1. /\ Finish(r) \/ Continue(r, [proc[r] EXCEPT !.op = "tools"])
           \/ Continue(r, [proc[r] EXCEPT !.op = "ground"])
        /\ lock' \in {lock, r, None}
        /\ UNCHANGED <<signals, history, delivery, receipts, words, covered, consent, advice>>
    BY <1>3 DEF ToolEnter, ToolFinal, ToolFails
  <2>2. proc' \in [Requests -> Jobs] /\ Turns' /\ begun' = begun
    BY <1>2, <1>3, <2>1, ToolJobTyped, ContinueTurns, FinishTurns DEF Finish, Continue
  <2> QED BY <2>1, <2>2 DEF Typed, TypeOK, signals, history, advice
<1>4. CASE ToolCall(r)
  <2> DEFINE j == [proc[r] EXCEPT !.rounds = NextRound(@)]
  <2>1. proc[r] \in ToolJobs /\ proc[r] # Idle
    BY <1>2, <1>4, ToolJobTyped
  <2>2. j \in ToolJobs /\ j.who = proc[r].who
    BY <2>1 DEF ToolJobs, NextRound
  <2>3. Continue(r, j) /\ UNCHANGED <<signals, history, learning>>
    BY <1>4 DEF ToolCall
  <2> HIDE DEF j
  <2>4. proc' \in [Requests -> Jobs] /\ Turns'
    BY <2>1, <2>2, <2>3, ContinueTurns DEF Jobs
  <2> QED BY <2>3, <2>4 DEF Typed, TypeOK, signals, history, learning, Continue
<1>5. CASE ToolGround(r)
  <2>1. proc' \in [Requests -> Jobs] /\ Turns' /\ begun' = begun
    BY <1>2, <1>5, ToolJobTyped, FinishTurns DEF ToolGround, Finish, Continue
  <2> QED BY <1>5, <2>1 DEF ToolGround, Typed, TypeOK, signals, history, learning
<1> QED BY <1>1, <1>3, <1>4, <1>5

-----------------------------------------------------------------------------
(* After a lecture in which every student sent an event there is one each. *)
LEMMA EverybodyOnce ==
    /\ Cardinality(Students) \in Nat
    /\ Everybody \in [1..Cardinality(Students) -> Students]
    /\ \A s \in Students : \E i \in 1..Cardinality(Students) : Everybody[i] = s
    /\ \A i, k \in 1..Cardinality(Students) : Everybody[i] = Everybody[k] => i = k
<1> DEFINE n == Cardinality(Students)
<1>1. n \in Nat /\ ExistsBijection(1..n, Students)
  BY GroupAssumption, FS_CardinalityType
<1>2. PICK order \in [1..n -> Students] : \A s \in Students : \E i \in 1..n : order[i] = s
  BY <1>1 DEF ExistsBijection, Bijection, Surjection
<1>3. \E e \in [1..n -> Students] : \A s \in Students : \E i \in DOMAIN e : e[i] = s
  BY <1>2
<1>4. Everybody \in [1..n -> Students] /\ \A s \in Students : \E i \in DOMAIN Everybody : Everybody[i] = s
  BY <1>3 DEF Everybody
<1>5. \A s \in Students : \E i \in 1..n : Everybody[i] = s
  BY <1>4
<1>6. Everybody \in Surjection(1..n, Students)
  BY <1>4, <1>5 DEF Surjection
<1>7. IsFiniteSet(1..n) /\ Cardinality(1..n) = n
  BY <1>1, FS_Interval
<1>8. Everybody \in Injection(1..n, Students)
  BY <1>6, <1>7, FS_SurjSameCardinalityImpliesInj
<1> QED BY <1>1, <1>4, <1>5, <1>8 DEF Injection, IsInjective

LEMMA EverybodysEventsTyped ==
    /\ EverybodysEvents \in Seq(Records)
    /\ Len(EverybodysEvents) = Cardinality(Students)
    /\ \A i \in DOMAIN EverybodysEvents :
          /\ i \in 1..Cardinality(Students)
          /\ EverybodysEvents[i].by = Everybody[i] /\ EverybodysEvents[i].verdict = "open"
<1>1. \A s \in Students :
         EventOf(s) \in Records /\ EventOf(s).by = s /\ EventOf(s).verdict = "open"
  BY DEF EventOf, Records
<1>2. EverybodysEvents \in [1..Cardinality(Students) -> Records]
  BY <1>1, EverybodyOnce DEF EverybodysEvents
<1>3. EverybodysEvents \in Seq(Records) /\ Len(EverybodysEvents) = Cardinality(Students)
  BY <1>2, EverybodyOnce, SeqDef
<1> QED BY <1>1, <1>2, <1>3, EverybodyOnce DEF EverybodysEvents

LEMMA TypedInit == Init => Typed
<1> SUFFICES ASSUME Init PROVE Typed
  OBVIOUS
<1> USE DEF Init, InitSignals
<1>1. records \in Seq(Records)
  <2>1. records = <<>> \/ records = EverybodysEvents
    OBVIOUS
  <2>2. <<>> \in Seq(Records)
    OBVIOUS
  <2> QED BY <2>1, <2>2, EverybodysEventsTyped
<1>2. proc \in [Requests -> Jobs] /\ \A r \in Requests : proc[r] = Idle
  BY DEF Jobs
<1>3. Turns
  BY <1>2, OpOfJob, Constants DEF Turns
<1>4. TypeOK
  BY <1>1, <1>2 DEF TypeOK
<1> QED BY <1>3, <1>4 DEF Typed

LEMMA TypedNext == Typed /\ [Next]_vars => Typed'
<1> SUFFICES ASSUME Typed, [Next]_vars PROVE Typed'
  OBVIOUS
<1>1. CASE UNCHANGED vars
  BY <1>1 DEF vars, learning, signals, history, Typed, TypeOK, Turns
<1>2. CASE Next
  <2> UNCHANGED setting
    BY <1>2 DEF Next
  <2>1. CASE SignalsNext /\ UNCHANGED learning
    BY <2>1, IngestCheckTyped, ConfirmReadTyped, IngestStoreTyped, ConfirmStoreTyped,
       SummaryTyped DEF SignalsNext
  <2>2. CASE \/ EndSession \/ Transcribe \/ (\E s \in Students : SetAggregation(s))
             \/ \E who \in People : SetExternal(who)
    BY <2>2, SettingsTyped
  <2>3. ASSUME NEW r \in Requests, (\E b \in Batches : DeliverCheck(r, b)) \/ DeliverStore(r)
        PROVE  Typed'
    BY <2>3, DeliverTyped
  <2>4. ASSUME NEW r \in Requests,
               \/ GenerateCached(r) \/ GenerateLocally(r) \/ GenerateAsk(r)
               \/ GenerateAnswer(r) \/ GenerateFails(r)
        PROVE  Typed'
    BY <2>4, GenerateTyped
  <2>5. ASSUME NEW r \in Requests, ReviewCheck(r) \/ ReviewStore(r) PROVE Typed'
    BY <2>5, ReviewTyped
  <2>6. ASSUME NEW r \in Requests,
               \/ \E s \in Students : ToolBegin(r, s)
               \/ ToolEnter(r) \/ ToolCall(r) \/ ToolFinal(r) \/ ToolFails(r) \/ ToolGround(r)
        PROVE  Typed'
    BY <2>6, ToolTyped
  <2> QED BY <1>2, <2>1, <2>2, <2>3, <2>4, <2>5, <2>6 DEF Next, Step, Provided
<1> QED BY <1>1, <1>2

-----------------------------------------------------------------------------
(* Delivery events.                                                        *)
LEMMA DeliveryFrame ==
    ASSUME Next
    PROVE  UNCHANGED <<delivery, receipts>> \/ \E r \in Requests : DeliverStore(r)
<1>1. CASE SignalsNext /\ UNCHANGED learning
  BY <1>1 DEF learning
<1>2. CASE \/ EndSession \/ Transcribe \/ (\E s \in Students : SetAggregation(s))
           \/ \E who \in People : SetExternal(who)
  BY <1>2 DEF EndSession, Transcribe, SetAggregation, SetExternal, learning
<1>3. ASSUME NEW r \in Requests,
             \/ \E b \in Batches : DeliverCheck(r, b)
             \/ \E s \in Students : ToolBegin(r, s)
             \/ ReviewCheck(r) \/ ToolGround(r) \/ ToolCall(r)
      PROVE  UNCHANGED <<delivery, receipts>>
  BY <1>3 DEF DeliverCheck, ToolBegin, ReviewCheck, ToolGround, ToolCall, learning
<1>4. ASSUME NEW r \in Requests,
             \/ GenerateCached(r) \/ GenerateLocally(r) \/ GenerateAsk(r) \/ GenerateAnswer(r)
             \/ GenerateFails(r) \/ ReviewStore(r) \/ ToolEnter(r) \/ ToolFinal(r) \/ ToolFails(r)
      PROVE  UNCHANGED <<delivery, receipts>>
  BY <1>4 DEF GenerateCached, GenerateLocally, GenerateAsk, GenerateAnswer, GenerateFails,
              ReviewStore, ToolEnter, ToolFinal, ToolFails
<1> QED BY <1>1, <1>2, <1>3, <1>4 DEF Next, Step, Provided

LEMMA DeliveryStep == Typed /\ DeliveryIsKept /\ [Next]_vars => DeliveryIsKept'
<1> SUFFICES ASSUME Typed, DeliveryIsKept, [Next]_vars PROVE DeliveryIsKept'
  OBVIOUS
<1>1. CASE UNCHANGED <<delivery, receipts>>
  BY <1>1 DEF DeliveryIsKept
<1>2. ASSUME NEW r \in Requests, DeliverStore(r), ~UNCHANGED <<delivery, receipts>>
      PROVE  DeliveryIsKept'
  <2> DEFINE b == proc[r].batch
  <2>1. /\ \A i \in DOMAIN b : delivery[i] \in {None, b[i]}
        /\ delivery' = [i \in DeliveryIds |-> IF i \in DOMAIN b THEN b[i] ELSE delivery[i]]
        /\ receipts' = receipts \cup {b}
    BY <1>2 DEF DeliverStore, Conflicts, Delivered
  <2>2. \A c \in receipts \cup {b} :
           DOMAIN c \subseteq DeliveryIds /\ \A i \in DOMAIN c : c[i] # None
    <3>1. proc[r].op = "deliver" /\ proc[r] \in Jobs
      BY <1>2 DEF DeliverStore, Typed, TypeOK
    <3>2. b \in Batches
      BY <3>1, JobOfOp DEF DeliverJobs
    <3> QED BY <3>2, InsightAssumption DEF Typed, TypeOK
  <2> HIDE DEF b
  <2>3. ASSUME NEW c \in receipts', NEW i \in DOMAIN c PROVE delivery'[i] = c[i]
    <3>1. CASE i \in DOMAIN b
      BY <3>1, <2>1, <2>2, <2>3 DEF DeliveryIsKept
    <3>2. CASE i \notin DOMAIN b
      BY <3>2, <2>1, <2>2, <2>3 DEF DeliveryIsKept
    <3> QED BY <3>1, <3>2
  <2>4. ASSUME NEW i \in DeliveryIds, delivery'[i] # None
        PROVE  \E c \in receipts' : i \in DOMAIN c
    BY <2>1, <2>4 DEF DeliveryIsKept
  <2> QED BY <2>3, <2>4 DEF DeliveryIsKept
<1>3. UNCHANGED <<delivery, receipts>> \/ \E r \in Requests : DeliverStore(r)
  <2>1. CASE UNCHANGED vars
    BY <2>1 DEF vars, learning
  <2>2. CASE Next
    BY <2>2, DeliveryFrame
  <2> QED BY <2>1, <2>2
<1> QED BY <1>1, <1>2, <1>3

-----------------------------------------------------------------------------
(* Text that is with the provider.                                         *)
Asked(r) == proc[r].op \in {"generate", "tools"}

Asking ==
    \A r \in Requests : Asked(r) =>
        /\ lock = r
        /\ setting.live => proc[r].who \in consent
        /\ proc[r].op = "generate" => proc[r].from \subseteq opted

LEMMA OneAsks ==
    ASSUME Typed, Asking, NEW r \in Requests, lock \in {r, None}
    PROVE  \A q \in Requests : q # r => ~Asked(q)
BY Constants DEF Asking

(* A step of a request that does not ask, and the consents stay.           *)
LEMMA AskingKept ==
    ASSUME Typed, Asking, UNCHANGED <<setting, opted, consent, lock>>, NEW r \in Requests,
           \A q \in Requests : q # r => proc'[q] = proc[q],
           Asked(r)' => proc'[r] = proc[r]
    PROVE  Asking'
BY DEF Asking, Asked

LEMMA AskingMoved ==
    ASSUME Typed, Asking, UNCHANGED <<setting, opted, consent>>, NEW r \in Requests,
           lock \in {r, None},
           \A q \in Requests : q # r => proc'[q] = proc[q],
           Asked(r)' => /\ lock' = r
                        /\ setting.live => proc'[r].who \in consent
                        /\ proc'[r].op = "generate" => proc'[r].from \subseteq opted
    PROVE  Asking'
<1>1. \A q \in Requests : q # r => ~Asked(q)
  BY OneAsks
<1> QED BY <1>1 DEF Asking, Asked

LEMMA OneMoves ==
    ASSUME Typed, NEW r \in Requests, NEW j, Begin(r, j) \/ Continue(r, j)
    PROVE  /\ proc'[r] = j
           /\ \A q \in Requests : q # r => proc'[q] = proc[q]
           /\ begun' \in {begun, begun + 1}
BY DEF Begin, Continue, Typed, TypeOK

LEMMA QuietMove ==
    ASSUME Typed, NEW r \in Requests, NEW j, Begin(r, j) \/ Continue(r, j),
           j.op \notin {"generate", "tools"}
    PROVE  ~Asked(r)' /\ \A q \in Requests : q # r => proc'[q] = proc[q]
BY OneMoves DEF Asked

LEMMA AskingSignals ==
    Typed /\ Asking /\ SignalsNext /\ UNCHANGED <<setting, learning>> => Asking'
<1> SUFFICES ASSUME Typed, Asking, SignalsNext, UNCHANGED <<setting, learning>>
             PROVE  Asking'
  OBVIOUS
<1>1. UNCHANGED <<opted, consent, lock>>
  BY DEF SignalsNext, IngestCheck, ConfirmRead, IngestStore, ConfirmStore, SummaryCount,
         SummaryBuckets, SummaryIntervals, SummaryRelease, signals, learning
<1>2. PICK r \in Requests :
         \E j : (Begin(r, j) \/ Continue(r, j)) /\ j.op \notin {"generate", "tools"}
  <2>1. ASSUME NEW r \in Requests, NEW s \in Students, NEW phone \in BOOLEAN,
               IngestCheck(r, s, phone)
        PROVE  Begin(r, Ingesting(s, phone)) /\ Ingesting(s, phone).op = "ingest"
    BY <2>1 DEF IngestCheck, Ingesting
  <2>2. ASSUME NEW r \in Requests, NEW s \in Students, NEW v, ConfirmRead(r, s, v)
        PROVE  \E j : Begin(r, j) /\ j.op = "confirm"
    BY <2>2 DEF ConfirmRead
  <2>3. ASSUME NEW r \in Requests, IngestStore(r) \/ ConfirmStore(r) \/ SummaryRelease(r)
        PROVE  Continue(r, Idle) /\ Idle.op = "idle"
    BY <2>3 DEF IngestStore, ConfirmStore, SummaryRelease, Finish, Idle
  <2>4. ASSUME NEW r \in Requests, SummaryCount(r) \/ SummaryBuckets(r) \/ SummaryIntervals(r)
        PROVE  \E j : (Begin(r, j) \/ Continue(r, j)) /\ j.op \in {"count", "buckets", "release"}
    BY <2>4 DEF SummaryCount, SummaryBuckets, SummaryIntervals
  <2> QED BY <2>1, <2>2, <2>3, <2>4 DEF SignalsNext
<1>3. ~Asked(r)' /\ \A q \in Requests : q # r => proc'[q] = proc[q]
  BY <1>2, QuietMove
<1> QED BY <1>1, <1>3, AskingKept

LEMMA AskingDemo ==
    ASSUME Typed, Asking, UNCHANGED setting,
           \/ EndSession \/ Transcribe \/ (\E s \in Students : SetAggregation(s))
           \/ \E who \in People : SetExternal(who)
    PROVE  Asking'
<1>1. CASE EndSession \/ Transcribe
  <2>1. UNCHANGED <<opted, consent, lock, proc>>
    BY <1>1 DEF EndSession, Transcribe, signals, learning
  <2> QED BY <2>1 DEF Asking, Asked
<1>2. CASE (\E s \in Students : SetAggregation(s)) \/ (\E who \in People : SetExternal(who))
  <2>1. lock = None /\ UNCHANGED proc
    BY <1>2 DEF SetAggregation, SetExternal
  <2>2. \A r \in Requests : ~Asked(r)
    BY <2>1, Constants DEF Asking
  <2> QED BY <2>1, <2>2 DEF Asking, Asked
<1> QED BY <1>1, <1>2

LEMMA AskingGenerate ==
    ASSUME Typed, Asking, UNCHANGED setting, NEW r \in Requests,
           \/ GenerateCached(r) \/ GenerateLocally(r) \/ GenerateAsk(r)
           \/ GenerateAnswer(r) \/ GenerateFails(r)
    PROVE  Asking'
<1>1. CASE GenerateCached(r) \/ GenerateLocally(r)
  <2>1. UNCHANGED <<opted, consent, lock, proc>>
    BY <1>1 DEF GenerateCached, GenerateLocally, signals
  <2> QED BY <2>1 DEF Asking, Asked
<1>2. CASE GenerateAsk(r)
  <2>1. /\ Begin(r, Generating(Report)) /\ lock = None /\ lock' = r
        /\ setting.live /\ Professor \in consent /\ UNCHANGED <<opted, consent>>
    BY <1>2 DEF GenerateAsk, CanGenerate, Scope, signals
  <2>2. Generating(Report).who = Professor /\ Generating(Report).from \subseteq opted
    BY DEF Generating, Observed
  <2> QED BY <2>1, <2>2, OneMoves, AskingMoved
<1>3. CASE GenerateAnswer(r) \/ GenerateFails(r)
  <2>1. /\ proc[r].op = "generate" /\ Continue(r, Idle) /\ UNCHANGED <<opted, consent>>
    BY <1>3 DEF GenerateAnswer, GenerateFails, Finish, signals
  <2>2. lock = r
    BY <2>1 DEF Asking, Asked
  <2>3. ~Asked(r)' /\ \A q \in Requests : q # r => proc'[q] = proc[q]
    BY <2>1, OneMoves DEF Asked, Idle
  <2> QED BY <2>1, <2>2, <2>3, AskingMoved
<1> QED BY <1>1, <1>2, <1>3

LEMMA AskingTools ==
    ASSUME Typed, Asking, UNCHANGED setting, NEW r \in Requests,
           \/ \E s \in Students : ToolBegin(r, s)
           \/ ToolEnter(r) \/ ToolCall(r) \/ ToolFinal(r) \/ ToolFails(r) \/ ToolGround(r)
    PROVE  Asking'
<1>1. CASE (\E s \in Students : ToolBegin(r, s)) \/ ToolGround(r)
  <2>1. UNCHANGED <<opted, consent, lock>>
    BY <1>1 DEF ToolBegin, ToolGround, signals, learning
  <2>2. \/ \E s \in Students : Begin(r, [op |-> "tool", who |-> s, rounds |-> 0])
        \/ Continue(r, Idle)
    BY <1>1 DEF ToolBegin, ToolGround, Finish
  <2>3. /\ \A s : [op |-> "tool", who |-> s, rounds |-> 0].op \notin {"generate", "tools"}
        /\ Idle.op \notin {"generate", "tools"}
    BY OpOfJob
  <2>4. ~Asked(r)' /\ \A q \in Requests : q # r => proc'[q] = proc[q]
    BY <2>2, <2>3, QuietMove
  <2> QED BY <2>1, <2>4, AskingKept
<1>2. CASE ToolEnter(r)
  <2>1. /\ proc[r].op = "tool" /\ lock = None /\ UNCHANGED <<opted, consent>>
        /\ \/ /\ setting.live => proc[r].who \in consent
              /\ lock' = r /\ Continue(r, [proc[r] EXCEPT !.op = "tools"])
           \/ UNCHANGED lock /\ Continue(r, Idle)
    BY <1>2 DEF ToolEnter, Reconsidered, MayAsk, Finish, signals
  <2>2. [proc[r] EXCEPT !.op = "tools"].op = "tools"
        /\ [proc[r] EXCEPT !.op = "tools"].who = proc[r].who
    BY <2>1, ToolJobTyped
  <2>3. Idle.op = "idle"
    BY DEF Idle
  <2> QED BY <2>1, <2>2, <2>3, OneMoves, AskingMoved DEF Asked
<1>3. CASE ToolCall(r)
  <2> DEFINE j == [proc[r] EXCEPT !.rounds = NextRound(@)]
  <2>1. /\ proc[r].op = "tools" /\ Continue(r, j) /\ UNCHANGED <<opted, consent, lock>>
    BY <1>3 DEF ToolCall, signals, learning
  <2>2. j.op = "tools" /\ j.who = proc[r].who
    <3>1. proc[r] \in ToolJobs
      BY <2>1, ToolJobTyped
    <3> QED BY <2>1, <3>1 DEF ToolJobs
  <2> HIDE DEF j
  <2>3. lock = r /\ (setting.live => proc[r].who \in consent)
    BY <2>1 DEF Asking, Asked
  <2> QED BY <2>1, <2>2, <2>3, OneMoves, AskingMoved
<1>4. CASE ToolFinal(r) \/ ToolFails(r)
  <2>1. /\ proc[r].op = "tools" /\ UNCHANGED <<opted, consent>>
        /\ Continue(r, Idle) \/ Continue(r, [proc[r] EXCEPT !.op = "ground"])
    BY <1>4 DEF ToolFinal, ToolFails, Finish, signals
  <2>2. Idle.op = "idle" /\ [proc[r] EXCEPT !.op = "ground"].op = "ground"
    BY <2>1, ToolJobTyped DEF Idle
  <2>3. lock = r
    BY <2>1 DEF Asking, Asked
  <2> QED BY <2>1, <2>2, <2>3, OneMoves, AskingMoved DEF Asked
<1> QED BY <1>1, <1>2, <1>3, <1>4

LEMMA AskingRest ==
    ASSUME Typed, Asking, UNCHANGED setting, NEW r \in Requests,
           \/ \E b \in Batches : DeliverCheck(r, b)
           \/ DeliverStore(r) \/ ReviewCheck(r) \/ ReviewStore(r)
    PROVE  Asking'
<1>1. UNCHANGED <<opted, consent, lock>>
  BY DEF DeliverCheck, DeliverStore, ReviewCheck, ReviewStore, signals, learning
<1>2. \/ \E b \in Batches : Begin(r, [op |-> "deliver", who |-> Professor, batch |-> b])
      \/ Begin(r, [op |-> "review", who |-> Professor, of |-> shown])
      \/ Continue(r, Idle)
  BY DEF DeliverCheck, Delivering, DeliverStore, ReviewCheck, ReviewStore, Finish
<1>3. /\ \A b : [op |-> "deliver", who |-> Professor, batch |-> b].op \notin {"generate", "tools"}
      /\ [op |-> "review", who |-> Professor, of |-> shown].op \notin {"generate", "tools"}
      /\ Idle.op \notin {"generate", "tools"}
  BY OpOfJob
<1>4. ~Asked(r)' /\ \A q \in Requests : q # r => proc'[q] = proc[q]
  BY <1>2, <1>3, QuietMove
<1> QED BY <1>1, <1>4, AskingKept

LEMMA AskingStep == Typed /\ Asking /\ [Next]_vars => Asking'
<1> SUFFICES ASSUME Typed, Asking, [Next]_vars PROVE Asking'
  OBVIOUS
<1>1. CASE UNCHANGED vars
  BY <1>1 DEF vars, learning, signals, Asking, Asked
<1>2. CASE Next
  <2> UNCHANGED setting
    BY <1>2 DEF Next
  <2> QED BY <1>2, AskingSignals, AskingDemo, AskingGenerate, AskingTools, AskingRest
          DEF Next, Step, Provided
<1> QED BY <1>1, <1>2

-----------------------------------------------------------------------------
(* A step that is none of the signal events' leaves them and the requests  *)
(* about them alone.                                                       *)
OfSignals == {"ingest", "confirm", "count", "buckets", "release"}

Elsewhere ==
    /\ UNCHANGED <<records, opted, denied, eligible>>
    /\ \/ UNCHANGED proc
       \/ \E r \in Requests :
             /\ proc'[r].op \notin OfSignals
             /\ \A q \in Requests : q # r => proc'[q] = proc[q]

LEMMA ElsewhereMove ==
    ASSUME Typed, UNCHANGED <<signals, history>> \/ UNCHANGED <<records, opted, history>>,
           NEW r \in Requests, NEW j, Begin(r, j) \/ Continue(r, j), j.op \notin OfSignals
    PROVE  Elsewhere
BY OneMoves DEF Elsewhere, signals, history

LEMMA ElsewhereStep ==
    ASSUME Typed, [Next]_vars
    PROVE  \/ SignalsNext /\ UNCHANGED learning
           \/ \E s \in Students : SetAggregation(s)
           \/ Elsewhere
<1>1. CASE UNCHANGED vars
  BY <1>1 DEF vars, Elsewhere, signals, history
<1>2. CASE EndSession \/ Transcribe \/ \E who \in People : SetExternal(who)
  BY <1>2 DEF Elsewhere, EndSession, Transcribe, SetExternal, signals, history
<1>3. Idle.op \notin OfSignals
  BY OpOfJob DEF OfSignals
<1>4. ASSUME NEW r \in Requests, NEW b \in Batches, DeliverCheck(r, b) PROVE Elsewhere
  BY <1>4, ElsewhereMove DEF DeliverCheck, Delivering, OfSignals
<1>5. ASSUME NEW r \in Requests,
             \/ DeliverStore(r) \/ GenerateAnswer(r) \/ GenerateFails(r)
             \/ ReviewStore(r) \/ ToolFails(r) \/ ToolGround(r)
      PROVE  Elsewhere
  BY <1>3, <1>5, ElsewhereMove DEF DeliverStore, GenerateAnswer, GenerateFails, ReviewStore,
     ToolFails, ToolGround, Finish
<1>6. ASSUME NEW r \in Requests, GenerateCached(r) \/ GenerateLocally(r) PROVE Elsewhere
  BY <1>6 DEF GenerateCached, GenerateLocally, Elsewhere, signals, history
<1>7. ASSUME NEW r \in Requests, GenerateAsk(r) PROVE Elsewhere
  BY <1>7, ElsewhereMove DEF GenerateAsk, Generating, OfSignals
<1>8. ASSUME NEW r \in Requests, ReviewCheck(r) PROVE Elsewhere
  BY <1>8, ElsewhereMove DEF ReviewCheck, OfSignals
<1>9. ASSUME NEW r \in Requests, NEW s \in Students, ToolBegin(r, s) PROVE Elsewhere
  BY <1>9, ElsewhereMove DEF ToolBegin, OfSignals
<1>10. ASSUME NEW r \in Requests, ToolEnter(r) \/ ToolFinal(r) PROVE Elsewhere
  <2>1. /\ [proc[r] EXCEPT !.op = "tools"].op \notin OfSignals
        /\ [proc[r] EXCEPT !.op = "ground"].op \notin OfSignals
    BY <1>10, ToolJobTyped DEF ToolEnter, ToolFinal, OfSignals
  <2> QED BY <1>3, <1>10, <2>1, ElsewhereMove DEF ToolEnter, ToolFinal, Finish
<1>11. ASSUME NEW r \in Requests, ToolCall(r) PROVE Elsewhere
  <2>1. [proc[r] EXCEPT !.rounds = NextRound(@)].op \notin OfSignals
    BY <1>11, ToolJobTyped DEF ToolCall, ToolJobs, OfSignals
  <2> QED BY <1>11, <2>1, ElsewhereMove DEF ToolCall
<1> QED
  BY <1>1, <1>2, <1>4, <1>5, <1>6, <1>7, <1>8, <1>9, <1>10, <1>11 DEF Next, Step, Provided

-----------------------------------------------------------------------------
(* Runs and their reviews.                                                 *)
Advised ==
    /\ shown \in runs \cup {None}
    /\ setting.pace # "free" => \A r \in Requests : proc[r].op = "review" => proc[r].of \in runs
    /\ ReviewsBelong

Apart ==
    UNCHANGED advice /\ \A q \in Requests : proc'[q].op = "review" => proc'[q] = proc[q]

LEMMA ApartMove ==
    ASSUME Typed, UNCHANGED advice, NEW r \in Requests, NEW j, Begin(r, j) \/ Continue(r, j),
           j.op # "review"
    PROVE  Apart
BY OneMoves DEF Apart

LEMMA ApartSignals ==
    ASSUME Typed, SignalsNext, UNCHANGED learning
    PROVE  Apart
<1>1. UNCHANGED advice
  BY DEF learning, advice
<1>2. Idle.op # "review"
  BY OpOfJob
<1>3. ASSUME NEW r \in Requests, NEW s \in Students, NEW phone \in BOOLEAN,
             IngestCheck(r, s, phone)
      PROVE  Apart
  BY <1>1, <1>3, ApartMove DEF IngestCheck, Ingesting
<1>4. ASSUME NEW r \in Requests, NEW s \in Students, NEW v, ConfirmRead(r, s, v) PROVE Apart
  BY <1>1, <1>4, ApartMove DEF ConfirmRead
<1>5. ASSUME NEW r \in Requests, IngestStore(r) \/ ConfirmStore(r) \/ SummaryRelease(r)
      PROVE  Apart
  BY <1>1, <1>2, <1>5, ApartMove DEF IngestStore, ConfirmStore, SummaryRelease, Finish
<1>6. ASSUME NEW r \in Requests, SummaryCount(r) \/ SummaryBuckets(r) \/ SummaryIntervals(r)
      PROVE  Apart
  BY <1>1, <1>6, ApartMove DEF SummaryCount, SummaryBuckets, SummaryIntervals
<1> QED BY <1>3, <1>4, <1>5, <1>6 DEF SignalsNext

LEMMA ApartStep ==
    ASSUME Typed, [Next]_vars
    PROVE  \/ Apart
           \/ \E r \in Requests :
                 \/ GenerateCached(r) \/ GenerateLocally(r) \/ GenerateAnswer(r)
                 \/ ReviewCheck(r) \/ ReviewStore(r)
<1>1. CASE UNCHANGED vars
  BY <1>1 DEF vars, learning, advice, Apart
<1>2. CASE \/ EndSession \/ Transcribe \/ (\E s \in Students : SetAggregation(s))
           \/ \E who \in People : SetExternal(who)
  BY <1>2 DEF Apart, EndSession, Transcribe, SetAggregation, SetExternal, learning, advice
<1>3. Idle.op # "review"
  BY OpOfJob
<1>4. ASSUME NEW r \in Requests, NEW b \in Batches, DeliverCheck(r, b) PROVE Apart
  BY <1>4, ApartMove DEF DeliverCheck, Delivering, learning, advice
<1>5. ASSUME NEW r \in Requests,
             \/ DeliverStore(r) \/ GenerateFails(r) \/ ToolFails(r) \/ ToolGround(r)
      PROVE  Apart
  BY <1>3, <1>5, ApartMove DEF DeliverStore, GenerateFails, ToolFails, ToolGround, Finish,
     learning, advice
<1>6. ASSUME NEW r \in Requests, GenerateAsk(r) PROVE Apart
  BY <1>6, ApartMove DEF GenerateAsk, Generating
<1>7. ASSUME NEW r \in Requests, NEW s \in Students, ToolBegin(r, s) PROVE Apart
  BY <1>7, ApartMove DEF ToolBegin, learning, advice
<1>8. ASSUME NEW r \in Requests, ToolEnter(r) \/ ToolFinal(r) PROVE Apart
  <2>1. /\ [proc[r] EXCEPT !.op = "tools"].op # "review"
        /\ [proc[r] EXCEPT !.op = "ground"].op # "review"
    BY <1>8, ToolJobTyped DEF ToolEnter, ToolFinal
  <2> QED BY <1>3, <1>8, <2>1, ApartMove DEF ToolEnter, ToolFinal, Finish
<1>9. ASSUME NEW r \in Requests, ToolCall(r) PROVE Apart
  <2>1. [proc[r] EXCEPT !.rounds = NextRound(@)].op # "review"
    BY <1>9, ToolJobTyped DEF ToolCall, ToolJobs
  <2> QED BY <1>9, <2>1, ApartMove DEF ToolCall, learning, advice
<1> QED
  BY <1>1, <1>2, <1>4, <1>5, <1>6, <1>7, <1>8, <1>9, ApartSignals DEF Next, Step, Provided

(* No review is pending while a run is made, and the other runs stay.      *)
LEMMA KeepAdvised ==
    ASSUME Typed, Advised, UNCHANGED setting, NEW report, NEW scope, NEW number,
           Keep(report, scope, number),
           setting.pace # "free" => \A q \in Requests : proc'[q].op # "review"
    PROVE  Advised'
<1> DEFINE run == [report |-> report, scope |-> scope, number |-> number]
<1>1. /\ runs' = {k \in runs : k.report # report} \cup {run}
      /\ reviews' = {v \in reviews : v.report # report}
      /\ shown' = run
  BY DEF Keep, RunsOf, ReviewsBut
<1>2. ASSUME setting.pace # "free", NEW v \in reviews'
      PROVE  \E k \in runs' : k.report = v.report /\ k.number = v.number
  <2>1. PICK k \in runs : k.report = v.report /\ k.number = v.number
    BY <1>1, <1>2 DEF Advised, ReviewsBelong, RunsOf
  <2>2. k \in runs'
    BY <1>1, <1>2, <2>1
  <2> QED BY <2>1, <2>2
<1>3. ReviewsBelong'
  BY <1>2 DEF ReviewsBelong, RunsOf
<1> QED BY <1>1, <1>3 DEF Advised

LEMMA AdvisedStep == Typed /\ Advised /\ [Next]_vars => Advised'
<1> SUFFICES ASSUME Typed, Advised, [Next]_vars PROVE Advised'
  OBVIOUS
<1> UNCHANGED setting
  BY DEF Next, vars
<1>0. setting.pace \in {"serial", "calm", "free"}
  BY Constants DEF Typed, TypeOK, AllSettings, Paces
<1>1. CASE Apart
  BY <1>1 DEF Apart, Advised, ReviewsBelong, RunsOf, advice
<1>2. ASSUME NEW r \in Requests, GenerateCached(r) PROVE Advised'
  <2>1. shown' \in runs /\ UNCHANGED <<proc, runs, reviews>>
    BY <1>2 DEF GenerateCached, Cached, RunsOf
  <2> QED BY <2>1 DEF Advised, ReviewsBelong, RunsOf
<1>3. ASSUME NEW r \in Requests, GenerateLocally(r) PROVE Advised'
  <2>1. Admitted(Professor) /\ UNCHANGED proc /\ Keep(Report, Scope(Report), begun)
    BY <1>3 DEF GenerateLocally, CanGenerate
  <2>2. setting.pace # "free" => \A q \in Requests : proc[q].op # "review"
    BY <1>0, <2>1, OpOfJob, ReviewingTyped DEF Admitted, InTurn
  <2> QED BY <2>1, <2>2, KeepAdvised
<1>4. ASSUME NEW r \in Requests, GenerateAnswer(r) PROVE Advised'
  <2>1. /\ proc[r].op = "generate" /\ Continue(r, Idle)
        /\ Keep(proc[r].report, "lecture_transcript", proc[r].number)
    BY <1>4 DEF GenerateAnswer, Finish
  <2>2. setting.pace # "free" => \A q \in Requests : q # r => proc[q].op # "review"
    BY <1>0, <2>1, GeneratingTyped, ReviewingTyped DEF Typed, Turns, People
  <2>3. setting.pace # "free" => \A q \in Requests : proc'[q].op # "review"
    BY <2>1, <2>2, OneMoves, OpOfJob
  <2> QED BY <2>1, <2>3, KeepAdvised
<1>5. ASSUME NEW r \in Requests, ReviewCheck(r) PROVE Advised'
  <2>1. /\ Begin(r, [op |-> "review", who |-> Professor, of |-> shown])
        /\ shown \in runs /\ UNCHANGED <<runs, reviews, shown>>
    BY <1>5 DEF ReviewCheck, Advised, learning
  <2>2. proc'[r].of \in runs /\ \A q \in Requests : q # r => proc'[q] = proc[q]
    BY <2>1, OneMoves
  <2> QED BY <2>1, <2>2 DEF Advised, ReviewsBelong, RunsOf
<1>6. ASSUME NEW r \in Requests, ReviewStore(r) PROVE Advised'
  <2> DEFINE of == proc[r].of
             v == [report |-> of.report, number |-> of.number]
  <2>1. /\ proc[r].op = "review" /\ Continue(r, Idle) /\ UNCHANGED <<runs, shown>>
        /\ reviews' \subseteq reviews \cup {v}
    BY <1>6 DEF ReviewStore, Finish, ReviewsBut
  <2>2. /\ proc'[r].op = "idle" /\ \A q \in Requests : q # r => proc'[q] = proc[q]
        /\ setting.pace # "free" => of \in runs
    BY <2>1, OneMoves, OpOfJob DEF Advised
  <2>3. ReviewsBelong'
    <3>1. setting.pace # "free" => \E k \in runs : k.report = v.report /\ k.number = v.number
      BY <2>2
    <3> HIDE DEF v
    <3> QED BY <2>1, <3>1 DEF Advised, ReviewsBelong, RunsOf
  <2> QED BY <2>1, <2>2, <2>3 DEF Advised
<1> QED BY <1>1, <1>2, <1>3, <1>4, <1>5, <1>6, ApartStep

-----------------------------------------------------------------------------
(* Copies of an event.                                                     *)
OneEach(list) == \A i, k \in DOMAIN list : list[i].by = list[k].by => i = k

Foreseen(job) ==
    /\ job.op = "ingest" => ~Has(records, job.who)
    /\ job.op = "confirm" => Has(records, job.who)
    /\ setting.mongo /\ job.op \in {"ingest", "confirm"} => job.list = records

Orderly == Faithful /\ setting.pace # "free"

Single ==
    Orderly =>
        /\ OneEach(records)
        /\ \A r \in Requests : Foreseen(proc[r])
        /\ \A s \in denied :
              /\ s \notin eligible /\ Has(records, s)
              /\ \A i \in Indices(records, s) : records[i].verdict = "denied"

LEMMA OthersDiffer ==
    ASSUME Typed, Orderly, NEW r \in Requests, proc[r] # Idle
    PROVE  /\ \A q \in Requests : q # r => proc[q].who # proc[r].who
           /\ setting.mongo => \A q \in Requests : q # r => proc[q] = Idle
<1>1. setting.pace \in {"serial", "calm"} /\ (setting.mongo => setting.pace = "serial")
  BY Constants DEF Typed, TypeOK, AllSettings, Paces, Orderly, Faithful
<1>2. proc[r].who \in People
  BY JobOfOp DEF Typed, TypeOK
<1> QED BY <1>1, <1>2, OpOfJob, Constants DEF Typed, Turns

LEMMA SingleKept ==
    ASSUME Typed, Single, UNCHANGED <<setting, records, denied, eligible>>,
           \A q \in Requests : proc'[q].op \in {"ingest", "confirm"} => proc'[q] = proc[q]
    PROVE  Single'
BY DEF Single, Orderly, Faithful, OneEach, Foreseen, Has, Indices

LEMMA SingleBegin ==
    ASSUME Typed, Single, UNCHANGED <<setting, records, denied, eligible>>,
           NEW r \in Requests, NEW j, Begin(r, j), Foreseen(j)
    PROVE  Single'
<1>1. Foreseen(proc[r])' /\ \A q \in Requests : q # r => proc'[q] = proc[q]
  BY OneMoves DEF Foreseen, Has, Indices
<1> QED BY <1>1 DEF Single, Orderly, Faithful, OneEach, Foreseen, Has, Indices

(* The first event of a student goes to the end of the list.               *)
LEMMA SingleIngest ==
    ASSUME Typed, Single, UNCHANGED setting, NEW r \in Requests, IngestStore(r)
    PROVE  Single'
<1> SUFFICES ASSUME Orderly PROVE Single'
  BY DEF Single, Orderly, Faithful
<1> DEFINE s == proc[r].who
           e == [by |-> proc[r].who, phone |-> proc[r].phone, verdict |-> "open"]
           list == Append(records, e)
           n == Len(records)
<1>1. /\ proc[r].op = "ingest" /\ Continue(r, Idle) /\ records' = Append(Seen(proc[r]), e)
      /\ eligible' = (eligible \ {s}) \cup (Recoverable(records') \cap {s})
      /\ UNCHANGED denied
  BY DEF IngestStore, Appended, Finish
<1>2. ~Has(records, s) /\ Seen(proc[r]) = records
  BY <1>1 DEF Single, Foreseen, Seen
<1>3. proc[r] # Idle /\ s \in Students /\ e \in Records /\ e.by = s
  BY <1>1, SeenTyped DEF Records
<1>4. /\ records' \in Seq(Records) /\ records \in Seq(Records) /\ n \in Nat
      /\ DOMAIN records = 1..n /\ DOMAIN records' = 1..(n + 1)
      /\ \A i \in 1..n : records'[i] = records[i]
      /\ records'[n + 1] = e
  BY <1>1, <1>2, <1>3, AppendedList, ListFacts DEF Typed, TypeOK
<1>5. \A i \in 1..n : records[i].by # s
  BY <1>2, <1>4 DEF Has, Indices
<1>6. OneEach(records) /\ \A t \in denied : t \notin eligible /\ Has(records, t)
  BY DEF Single
<1> HIDE DEF e, list, n
<1>7. OneEach(records')
  <2> SUFFICES ASSUME NEW i \in DOMAIN records', NEW k \in DOMAIN records',
                      records'[i].by = records'[k].by
               PROVE  i = k
    BY DEF OneEach
  <2>1. (i \in 1..n \/ i = n + 1) /\ (k \in 1..n \/ k = n + 1)
    BY <1>4
  <2>2. CASE i \in 1..n /\ k \in 1..n
    BY <1>4, <1>6, <2>2 DEF OneEach
  <2>3. CASE i = n + 1 /\ k = n + 1
    BY <2>3
  <2>4. CASE (i = n + 1 /\ k \in 1..n) \/ (i \in 1..n /\ k = n + 1)
    BY <1>3, <1>4, <1>5, <2>4
  <2> QED BY <2>1, <2>2, <2>3, <2>4
<1>8. \A t : t # s => Indices(records', t) = Indices(records, t)
  BY <1>3, <1>4 DEF Indices
<1>9. \A q \in Requests : Foreseen(proc[q])'
  <2>1. CASE setting.mongo
    <3>1. \A q \in Requests : proc'[q] = Idle
      BY <1>1, <1>3, <2>1, OthersDiffer, OneMoves
    <3> QED BY <3>1, OpOfJob DEF Foreseen
  <2>2. CASE ~setting.mongo
    <3>1. proc'[r].op = "idle"
      BY <1>1, OneMoves, OpOfJob
    <3>2. ASSUME NEW q \in Requests, q # r
          PROVE  proc'[q] = proc[q] /\ proc[q].who # s /\ Foreseen(proc[q])
      BY <1>1, <1>3, <3>2, OthersDiffer, OneMoves DEF Single
    <3>3. ASSUME NEW q \in Requests, q # r PROVE Foreseen(proc[q])'
      BY <1>8, <2>2, <3>2, <3>3 DEF Foreseen, Has
    <3> QED BY <2>2, <3>1, <3>3 DEF Foreseen
  <2> QED BY <2>1, <2>2
<1>10. ASSUME NEW t \in denied'
       PROVE  /\ t \notin eligible' /\ Has(records', t)
              /\ \A i \in Indices(records', t) : records'[i].verdict = "denied"
  <2>1. t \in denied /\ t # s
    BY <1>1, <1>2, <1>6, <1>10
  <2>2. \A i \in Indices(records, t) : i \in 1..n /\ records[i].verdict = "denied"
    BY <1>4, <2>1 DEF Single, Indices
  <2> QED BY <1>1, <1>4, <1>6, <1>8, <2>1, <2>2 DEF Has
<1> QED BY <1>7, <1>9, <1>10 DEF Single

(* The answer reaches the one copy there is.                               *)
LEMMA SingleConfirm ==
    ASSUME Typed, Single, UNCHANGED setting, NEW r \in Requests, ConfirmStore(r)
    PROVE  Single'
<1> SUFFICES ASSUME Orderly PROVE Single'
  BY DEF Single, Orderly, Faithful
<1> DEFINE s == proc[r].who
           v == proc[r].verdict
           f == First(records, s)
<1>1. /\ proc[r].op = "confirm" /\ Continue(r, Idle)
      /\ records' = Corrected(Seen(proc[r]), s, v)
      /\ denied' = IF v = "denied" THEN denied \cup {s} ELSE denied \ {s}
      /\ eligible' = IF v = "denied" THEN eligible \ {s} ELSE eligible
  BY DEF ConfirmStore, Finish
<1>2. Has(records, s) /\ Seen(proc[r]) = records /\ OneEach(records)
  BY <1>1 DEF Single, Foreseen, Seen
<1>3. proc[r] # Idle /\ s \in Students /\ v \in {"confirmed", "denied"}
  BY <1>1, SeenTyped
<1>4. Indices(records, s) = {f} /\ f \in DOMAIN records
  <2>1. PICK i \in Indices(records, s) : TRUE
    BY <1>2 DEF Has
  <2>2. \A k \in Indices(records, s) : k = i
    BY <1>2, <2>1 DEF OneEach, Indices
  <2>3. i \in DOMAIN records /\ i \in Nat
    BY <2>1, ListFacts DEF Indices, Typed, TypeOK
  <2>4. f \in Indices(records, s)
    BY <2>1, <2>2, <2>3 DEF First
  <2> QED BY <2>2, <2>3, <2>4
<1>5. /\ DOMAIN records' = DOMAIN records
      /\ \A i \in DOMAIN records : records'[i].by = records[i].by
      /\ \A i \in DOMAIN records : i # f => records'[i] = records[i]
      /\ records'[f].verdict = v
  BY <1>1, <1>2, <1>3, <1>4, CorrectedList DEF Typed, TypeOK
<1> HIDE DEF f
<1>6. OneEach(records')
  BY <1>2, <1>5 DEF OneEach
<1>7. \A t : Indices(records', t) = Indices(records, t)
  BY <1>5 DEF Indices
<1>8. \A q \in Requests : Foreseen(proc[q])'
  <2>1. CASE setting.mongo
    <3>1. \A q \in Requests : proc'[q] = Idle
      BY <1>1, <1>3, <2>1, OthersDiffer, OneMoves
    <3> QED BY <3>1, OpOfJob DEF Foreseen
  <2>2. CASE ~setting.mongo
    <3>1. proc'[r].op = "idle"
      BY <1>1, OneMoves, OpOfJob
    <3>2. ASSUME NEW q \in Requests, q # r PROVE proc'[q] = proc[q] /\ Foreseen(proc[q])
      BY <1>1, <3>2, OneMoves DEF Single
    <3>3. ASSUME NEW q \in Requests, q # r PROVE Foreseen(proc[q])'
      BY <1>7, <2>2, <3>2, <3>3 DEF Foreseen, Has
    <3> QED BY <2>2, <3>1, <3>3 DEF Foreseen
  <2> QED BY <2>1, <2>2
<1>9. ASSUME NEW t \in denied'
      PROVE  /\ t \notin eligible' /\ Has(records', t)
             /\ \A i \in Indices(records', t) : records'[i].verdict = "denied"
  <2>1. CASE t = s
    BY <1>1, <1>2, <1>4, <1>5, <1>7, <1>9, <2>1 DEF Has
  <2>2. CASE t # s
    <3>1. t \in denied
      BY <1>1, <1>9, <2>2
    <3>2. t \notin eligible /\ Has(records, t)
          /\ \A i \in Indices(records, t) : records[i].verdict = "denied"
      BY <3>1 DEF Single
    <3>3. \A i \in Indices(records, t) : i \in DOMAIN records /\ i # f
      BY <1>4, <2>2 DEF Indices
    <3> QED BY <1>1, <1>5, <1>7, <3>2, <3>3 DEF Has
  <2> QED BY <2>1, <2>2
<1> QED BY <1>6, <1>8, <1>9 DEF Single

LEMMA SingleStep == Typed /\ Single /\ [Next]_vars => Single'
<1> SUFFICES ASSUME Typed, Single, [Next]_vars PROVE Single'
  OBVIOUS
<1> UNCHANGED setting
  BY DEF Next, vars
<1>1. CASE Elsewhere
  <2>1. \A q \in Requests : proc'[q].op \in {"ingest", "confirm"} => proc'[q] = proc[q]
    BY <1>1 DEF Elsewhere, OfSignals
  <2> QED BY <1>1, <2>1, SingleKept DEF Elsewhere
<1>2. ASSUME NEW s \in Students, SetAggregation(s) PROVE Single'
  BY <1>2, SingleKept DEF SetAggregation, history
<1>3. ASSUME NEW r \in Requests, NEW s \in Students, NEW phone \in BOOLEAN,
             IngestCheck(r, s, phone)
      PROVE  Single'
  <2>1. Foreseen(Ingesting(s, phone))
    BY <1>3 DEF IngestCheck, Ingesting, Foreseen
  <2> QED BY <1>3, <2>1, SingleBegin DEF IngestCheck, signals, history
<1>4. ASSUME NEW r \in Requests, NEW s \in Students, NEW v, ConfirmRead(r, s, v) PROVE Single'
  <2>1. Foreseen([op |-> "confirm", who |-> s, verdict |-> v, list |-> records])
    BY <1>4 DEF ConfirmRead, Foreseen
  <2> QED BY <1>4, <2>1, SingleBegin DEF ConfirmRead, signals, history
<1>5. ASSUME NEW r \in Requests,
             SummaryCount(r) \/ SummaryBuckets(r) \/ SummaryIntervals(r) \/ SummaryRelease(r)
      PROVE  Single'
  <2>1. UNCHANGED <<records, denied, eligible>>
    BY <1>5 DEF SummaryCount, SummaryBuckets, SummaryIntervals, SummaryRelease, signals, history
  <2>2. /\ \A q \in Requests : q # r => proc'[q] = proc[q]
        /\ proc'[r].op \in {"count", "buckets", "release", "idle"}
    BY <1>5, OneMoves, OpOfJob
       DEF SummaryCount, SummaryBuckets, SummaryIntervals, SummaryRelease, Finish
  <2> QED BY <2>1, <2>2, SingleKept
<1> QED
  BY <1>1, <1>2, <1>3, <1>4, <1>5, SingleIngest, SingleConfirm, ElsewhereStep DEF SignalsNext

-----------------------------------------------------------------------------
(* What a summary reads omits the denied.                                  *)
OmittedJob(job) ==
    /\ job.op \in {"buckets", "release"} => job.buckets.of \cap job.buckets.denied = {}
    /\ job.op = "release" => job.intervals.of \cap job.intervals.denied = {}

Omitting == Orderly => \A r \in Requests : OmittedJob(proc[r])

LEMMA PartOmits ==
    ASSUME Typed, Single, Orderly
    PROVE  Part(Safe(records, opted)).of \cap Part(Safe(records, opted)).denied = {}
<1>1. \A s \in denied : \A i \in Indices(records, s) : records[i].verdict = "denied"
  BY DEF Single, Orderly, DenialsHold
<1> QED BY <1>1 DEF Part, Safe, Indices

LEMMA OmittingMove ==
    ASSUME Omitting, UNCHANGED setting, NEW r \in Requests,
           \A q \in Requests : q # r => proc'[q] = proc[q],
           Orderly => OmittedJob(proc'[r])
    PROVE  Omitting'
BY DEF Omitting, Orderly, Faithful, OmittedJob

LEMMA OmittingSummary ==
    ASSUME Typed, Single, Omitting, UNCHANGED setting, NEW r \in Requests,
           SummaryBuckets(r) \/ SummaryIntervals(r)
    PROVE  Omitting'
<1>1. CASE SummaryBuckets(r)
  <2>1. /\ proc'[r] = [op |-> "buckets", who |-> Professor, buckets |-> Part(Safe(records, opted))]
        /\ \A q \in Requests : q # r => proc'[q] = proc[q]
    BY <1>1, OneMoves DEF SummaryBuckets
  <2>2. Orderly => OmittedJob(proc'[r])
    BY <2>1, PartOmits DEF OmittedJob
  <2> QED BY <2>1, <2>2, OmittingMove
<1>2. CASE SummaryIntervals(r)
  <2>1. /\ proc[r].op = "buckets"
        /\ proc'[r] = [op |-> "release", who |-> Professor, buckets |-> proc[r].buckets,
                       intervals |-> Part(Safe(records, opted))]
        /\ \A q \in Requests : q # r => proc'[q] = proc[q]
    BY <1>2, OneMoves DEF SummaryIntervals, ReadAgain
  <2>2. Orderly => OmittedJob(proc'[r])
    BY <2>1, PartOmits DEF OmittedJob, Omitting
  <2> QED BY <2>1, <2>2, OmittingMove
<1> QED BY <1>1, <1>2

LEMMA OmittingStep == Typed /\ Single /\ Omitting /\ [Next]_vars => Omitting'
<1> SUFFICES ASSUME Typed, Single, Omitting, [Next]_vars PROVE Omitting'
  OBVIOUS
<1>0. UNCHANGED setting
  BY DEF Next, vars
<1>1. CASE Elsewhere
  <2>1. CASE UNCHANGED proc
    BY <1>0, <2>1 DEF Omitting, Orderly, Faithful, OmittedJob
  <2>2. CASE ~UNCHANGED proc
    <3>1. PICK r \in Requests : /\ proc'[r].op \notin OfSignals
                                /\ \A q \in Requests : q # r => proc'[q] = proc[q]
      BY <1>1, <2>2 DEF Elsewhere
    <3>2. OmittedJob(proc'[r])
      BY <3>1 DEF OmittedJob, OfSignals
    <3> QED BY <1>0, <3>1, <3>2, OmittingMove
  <2> QED BY <2>1, <2>2
<1>2. ASSUME NEW s \in Students, SetAggregation(s) PROVE Omitting'
  BY <1>0, <1>2 DEF SetAggregation, Omitting, Orderly, Faithful, OmittedJob
<1>3. ASSUME NEW r \in Requests, NEW j, Begin(r, j) \/ Continue(r, j),
             j.op \notin {"buckets", "release"}
      PROVE  Omitting'
  <2>1. proc'[r] = j /\ \A q \in Requests : q # r => proc'[q] = proc[q]
    BY <1>3, OneMoves
  <2>2. OmittedJob(proc'[r])
    BY <1>3, <2>1 DEF OmittedJob
  <2> QED BY <1>0, <2>1, <2>2, OmittingMove
<1>4. ASSUME NEW r \in Requests, NEW s \in Students, NEW phone \in BOOLEAN,
             IngestCheck(r, s, phone)
      PROVE  Omitting'
  BY <1>3, <1>4 DEF IngestCheck, Ingesting
<1>5. ASSUME NEW r \in Requests, NEW s \in Students, NEW v, ConfirmRead(r, s, v) PROVE Omitting'
  BY <1>3, <1>5 DEF ConfirmRead
<1>6. ASSUME NEW r \in Requests, IngestStore(r) \/ ConfirmStore(r) \/ SummaryRelease(r)
      PROVE  Omitting'
  BY <1>3, <1>6, OpOfJob DEF IngestStore, ConfirmStore, SummaryRelease, Finish
<1>7. ASSUME NEW r \in Requests, SummaryCount(r) PROVE Omitting'
  BY <1>3, <1>7 DEF SummaryCount
<1> QED
  BY <1>0, <1>1, <1>2, <1>4, <1>5, <1>6, <1>7, OmittingSummary, ElsewhereStep DEF SignalsNext

-----------------------------------------------------------------------------
LEMMA EverythingInit == Init => Asking /\ Omitting /\ Advised /\ Single /\ DeliveryIsKept
<1> SUFFICES ASSUME Init PROVE Asking /\ Omitting /\ Advised /\ Single /\ DeliveryIsKept
  OBVIOUS
<1> USE DEF Init
<1>1. \A r \in Requests : proc[r] = Idle
  BY DEF InitSignals
<1>2. Asking /\ Omitting
  BY <1>1, OpOfJob DEF Asking, Asked, Omitting, OmittedJob
<1>3. Advised
  BY <1>1, OpOfJob DEF Advised, ReviewsBelong
<1>4. OneEach(records) /\ denied = {}
  <2>1. records = <<>> \/ records = EverybodysEvents
    BY DEF InitSignals
  <2>2. OneEach(<<>>)
    BY DEF OneEach
  <2>3. OneEach(EverybodysEvents)
    BY EverybodysEventsTyped, EverybodyOnce DEF OneEach
  <2> QED BY <2>1, <2>2, <2>3 DEF InitSignals
<1>5. Single
  BY <1>1, <1>4, OpOfJob DEF Single, Foreseen
<1>6. DeliveryIsKept
  BY DEF DeliveryIsKept
<1> QED BY <1>2, <1>3, <1>5, <1>6

(* The variables have their types, and requests take turns as the pace     *)
(* says.                                                                   *)
THEOREM TypeCorrect == Spec => []Typed
BY TypedInit, TypedNext, PTL DEF Spec

(* What was receipted of delivery events is what is stored                 *)
(* (DeliveryService.ingest).                                               *)
THEOREM ReceiptsStand == Spec => []DeliveryIsKept
BY EverythingInit, DeliveryStep, TypeCorrect, PTL DEF Spec

(* Text is with the provider while its person consents, because consent    *)
(* changes under the lock only (RecommendationService, run_tools).         *)
THEOREM ConsentOutlastsTheCall == Spec => []AskedWithConsent
<1>1. Typed /\ Asking => AskedWithConsent
  BY DEF Asking, Asked, AskedWithConsent
<1> QED BY <1>1, EverythingInit, AskingStep, TypeCorrect, PTL DEF Spec

(* A released summary omits what was denied before its parts were read,    *)
(* from requests of people who wait for answers (build_summary).           *)
THEOREM SummariesOmitTheDenied == Spec => []SummaryOmitsDenied
<1>1. Omitting => SummaryOmitsDenied
  BY DEF Omitting, OmittedJob, Orderly, SummaryOmitsDenied
<1> QED BY <1>1, EverythingInit, SingleStep, OmittingStep, TypeCorrect, PTL DEF Spec

(* A review is of the run that is stored (RecommendationService.review).   *)
THEOREM ReviewsFollowRuns == Spec => []ReviewsBelong
<1>1. Advised => ReviewsBelong
  BY DEF Advised
<1> QED BY <1>1, EverythingInit, AdvisedStep, TypeCorrect, PTL DEF Spec

(* A denial reaches every copy of the event (confirm_event).               *)
THEOREM DenialsReachTheEvent == Spec => []DenialsHold
<1>1. Single => DenialsHold
  BY DEF Single, Orderly, DenialsHold
<1> QED BY <1>1, EverythingInit, SingleStep, TypeCorrect, PTL DEF Spec

=============================================================================
