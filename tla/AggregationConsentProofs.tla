----------------------- MODULE AggregationConsentProofs -----------------------
(***************************************************************************)
(* Why the stored consent is what the student chose. In memory a handler   *)
(* changes one entry of the shared document, in a record that is still the *)
(* stored one unless a student is registered twice at once (Joining). With *)
(* MongoDB it writes back a copy, which is still the document as long as   *)
(* it is the only handler that has one (Copies). In both cases the stored  *)
(* and the answered consent move together (Honoured), so a report never    *)
(* starts from a student who had withdrawn (Omitting). What                *)
(* a report counts is the sweep of ClassReport, which is followed through  *)
(* its recursion at the end: every moment that was taken counts once       *)
(* (Tallied).                                                              *)
(***************************************************************************)
EXTENDS AggregationConsent, FiniteSetTheorems, WellFoundedInduction, TLAPS

Honoured == \A s \in Students \ raced : participants[s] = choice[s]

Copies ==
    mongo /\ raced # Students => \A p \in Requests : Editing(p) =>
        /\ proc[p].read = participants
        /\ \A q \in Requests : Editing(q) => q = p

(* Who is registered is not there yet, and registered once at a time; who  *)
(* decides does so in the stored record.                                   *)
Registering(p, s) == Editing(p) /\ proc[p].kind = "register" /\ proc[p].s = s
Deciding(p, s) == Editing(p) /\ proc[p].kind = "consent" /\ proc[p].s = s

Joining(p) ==
    \A s \in Students \ raced :
        /\ Registering(p, s) => /\ participants[s] = "absent"
                                /\ \A q \in Requests : Registering(q, s) => q = p
        /\ Deciding(p, s) => /\ participants[s] # "absent"
                             /\ ~mongo => proc[p].record = record[s]

(* What a request holds, by its kind.                                      *)
Holding(p) ==
    /\ Editing(p) => proc[p].at = "write" /\ proc[p].s \in Students
    /\ proc[p].kind = "consent" => proc[p].value \in {"in", "out"}
    /\ proc[p].kind = "coverage" => proc[p].s \in Students

Omitting(p) ==
    proc[p].kind = "report" =>
        /\ proc[p].group \cap proc[p].withdrawn \subseteq raced
        /\ \A b \in Buckets :
             /\ proc[p].shown[b] \subseteq proc[p].group
             /\ proc[p].shown[b] # {} => IsGroup(proc[p].shown[b])

ConsentInv ==
    /\ TypeOK /\ Honoured /\ Copies
    /\ \A p \in Requests : Holding(p) /\ Joining(p) /\ Omitting(p)

-----------------------------------------------------------------------------
LEMMA NoBatchTyped == NoBatch \in [CoverageIds -> Evidence \cup {None}]
BY DEF NoBatch

LEMMA IdleTyped ==
    /\ Idle \in ProcType /\ Idle.at = "idle" /\ Idle.kind = "none"
    /\ Idle.shown = Nothing /\ \A b \in Buckets : Nothing[b] = {}
BY NoBatchTyped DEF Idle, ProcType, Kinds, States, Nothing

LEMMA StartTyped ==
    ASSUME TypeOK, NEW p \in Requests, NEW s \in Students,
           NEW kind \in {"register", "consent", "coverage"}
    PROVE  /\ Start(p, kind, "write", s) \in ProcType
           /\ Start(p, kind, "write", s).kind = kind /\ Start(p, kind, "write", s).s = s
           /\ Start(p, kind, "write", s).at = "write"
           /\ mongo => Start(p, kind, "write", s).read = participants
<1>1. Idle \in ProcType /\ Kinds = {"none", "register", "consent", "coverage", "report"}
  BY IdleTyped DEF Kinds
<1>2. participants \in [Students -> States]
  BY DEF TypeOK
<1> QED BY <1>1, <1>2 DEF Start, ProcType

(* A step of one request, to a request that keeps its parts of the         *)
(* invariant; a race is only ever noticed, not forgotten.                  *)
LEMMA OneRequest ==
    ASSUME ConsentInv, UNCHANGED mongo, NEW p \in Requests, NEW r \in ProcType,
           proc' = [proc EXCEPT ![p] = r],
           raced \subseteq raced', Holding(p)', Omitting(p)'
    PROVE  /\ proc' \in [Requests -> ProcType] /\ proc'[p] = r
           /\ \A q \in Requests : q # p => proc'[q] = proc[q]
           /\ \A q \in Requests : Holding(q)' /\ Omitting(q)'
<1>1. proc \in [Requests -> ProcType]
  BY DEF ConsentInv, TypeOK
<1>2. proc' \in [Requests -> ProcType] /\ proc'[p] = r
      /\ \A q \in Requests : q # p => proc'[q] = proc[q]
  BY <1>1
<1>3. ASSUME NEW q \in Requests, q # p PROVE Holding(q)' /\ Omitting(q)'
  <2>1. proc'[q] = proc[q] /\ Holding(q) /\ Omitting(q)
    BY <1>2, <1>3 DEF ConsentInv
  <2> QED BY <2>1 DEF Holding, Editing, Busy, Omitting
<1> QED BY <1>2, <1>3

LEMMA InitStep == Init => ConsentInv
<1> SUFFICES ASSUME Init PROVE ConsentInv
  OBVIOUS
<1> USE DEF Init
<1>1. TypeOK
  BY IdleTyped, NoBatchTyped DEF TypeOK, States
<1>2. Honoured
  BY DEF Honoured
<1>3. \A p \in Requests : proc[p].at = "idle" /\ proc[p].kind = "none"
  BY IdleTyped
<1>4. Copies /\ \A p \in Requests : Holding(p) /\ Joining(p) /\ Omitting(p)
  BY <1>3 DEF Copies, Holding, Joining, Registering, Deciding, Omitting, Editing, Busy
<1> QED BY <1>1, <1>2, <1>4 DEF ConsentInv

-----------------------------------------------------------------------------
(* A registration or a change of consent begins, or a batch of coverage.   *)
LEMMA BeginStep ==
    ASSUME ConsentInv, UNCHANGED <<mongo, ended, participants, coverage, record, choice>>,
           NEW p \in Requests, NEW s \in Students, NEW r \in ProcType,
           ~Busy(p), proc' = [proc EXCEPT ![p] = r],
           r.at = "write", r.s = s,
           \/ /\ r.kind = "register" /\ participants[s] = "absent"
              /\ raced' = raced \cup Overlapped \cup Doubled(s)
           \/ /\ r.kind = "consent" /\ participants[s] # "absent"
              /\ r.value \in {"in", "out"} /\ r.record = record[s]
              /\ raced' = raced \cup Overlapped
           \/ r.kind = "coverage" /\ UNCHANGED raced,
           mongo => r.read = participants
    PROVE  ConsentInv'
<1>1. /\ raced \subseteq raced' /\ raced' \in SUBSET Students /\ raced \in SUBSET Students
      /\ proc \in [Requests -> ProcType]
  BY DEF Overlapped, Doubled, ConsentInv, TypeOK
<1>2. proc'[p] = r
  BY <1>1
<1>3. Holding(p)' /\ Omitting(p)'
  BY <1>2 DEF Holding, Omitting, Editing, Busy
<1>4. /\ proc' \in [Requests -> ProcType]
      /\ \A q \in Requests : q # p => proc'[q] = proc[q]
      /\ \A q \in Requests : Holding(q)' /\ Omitting(q)'
  BY <1>1, <1>3, OneRequest
<1>5. TypeOK'
  BY <1>1, <1>4 DEF ConsentInv, TypeOK
<1>6. Honoured'
  BY <1>1 DEF ConsentInv, Honoured
<1>7. /\ \A q \in Requests : q # p => (Editing(q)' <=> Editing(q))
      /\ Editing(p)' <=> r.kind # "coverage"
      /\ ~Editing(p)
  BY <1>2, <1>4 DEF Editing, Busy
<1>8. ASSUME mongo, r.kind # "coverage", raced' # Students, NEW q \in Requests, q # p
      PROVE  ~Editing(q)
  BY <1>1, <1>8 DEF Overlapped
<1>9. Copies'
  <2> SUFFICES ASSUME mongo, raced' # Students, NEW q \in Requests, Editing(q)'
               PROVE  /\ proc'[q].read = participants
                      /\ \A o \in Requests : Editing(o)' => o = q
    BY DEF Copies
  <2>1. raced # Students
    BY <1>1
  <2>2. CASE r.kind = "coverage"
    <3>1. q # p /\ Editing(q) /\ proc'[q] = proc[q]
      BY <2>2, <1>4, <1>7
    <3>2. \A o \in Requests : Editing(o)' => o # p /\ Editing(o)
      BY <2>2, <1>7
    <3> QED BY <2>1, <3>1, <3>2 DEF ConsentInv, Copies
  <2>3. CASE r.kind # "coverage"
    <3>1. q = p /\ \A o \in Requests : Editing(o)' => o = p
      BY <2>3, <1>7, <1>8
    <3> QED BY <3>1, <1>2
  <2> QED BY <2>2, <2>3
<1>10. ASSUME NEW q \in Requests PROVE Joining(q)'
  <2> SUFFICES ASSUME NEW u \in Students \ raced'
               PROVE  /\ Registering(q, u)' =>
                            /\ participants[u] = "absent"
                            /\ \A o \in Requests : Registering(o, u)' => o = q
                      /\ Deciding(q, u)' =>
                            /\ participants[u] # "absent"
                            /\ ~mongo => proc'[q].record = record[u]
    BY DEF Joining
  <2>1. u \notin raced
    BY <1>1
  <2>2. \A o \in Requests : o # p => (Registering(o, u)' <=> Registering(o, u))
                                   /\ (Deciding(o, u)' <=> Deciding(o, u))
    BY <1>4, <1>7 DEF Registering, Deciding
  <2>3. Registering(p, u)' => /\ r.kind = "register" /\ s = u /\ participants[u] = "absent"
                              /\ \A o \in Requests : ~Registering(o, u)
    BY <1>2, <1>7 DEF Registering, Doubled
  <2>4. Deciding(p, u)' => r.kind = "consent" /\ s = u
    BY <1>2, <1>7 DEF Deciding
  <2>5. CASE q = p
    BY <1>2, <2>2, <2>3, <2>4, <2>5
  <2>6. CASE q # p
    <3>1. proc'[q] = proc[q] /\ Joining(q)
      BY <2>6, <1>4 DEF ConsentInv
    <3> QED BY <2>1, <2>2, <2>3, <2>6, <3>1 DEF Joining
  <2> QED BY <2>5, <2>6
<1> QED BY <1>4, <1>5, <1>6, <1>9, <1>10 DEF ConsentInv

(* A handler stores what its student decided, and is done: of a student of *)
(* no race it is stored, and of the others nothing changes.                *)
LEMMA DecideStep ==
    ASSUME ConsentInv, UNCHANGED <<mongo, raced, ended>>, NEW p \in Requests,
           Editing(p), NEW v \in {"in", "out"}, NEW s \in Students, s = proc[p].s,
           participants' \in [Students -> States], choice' \in [Students -> States],
           record' \in [Students -> Nat], proc[p].kind = "consent" => record' = record,
           s \notin raced => participants'[s] = v /\ choice'[s] = v,
           \A t \in Students \ raced : t # s =>
              participants'[t] = participants[t] /\ choice'[t] = choice[t] /\ record'[t] = record[t],
           coverage' \in [Students -> [CoverageIds -> Evidence \cup {None}]],
           proc' = Answered(p)
    PROVE  ConsentInv'
<1>1. proc \in [Requests -> ProcType] /\ proc' = [proc EXCEPT ![p] = Idle]
  BY DEF ConsentInv, TypeOK, Answered
<1>2. proc'[p] = Idle /\ Holding(p)' /\ Omitting(p)' /\ ~Editing(p)'
  BY <1>1, IdleTyped DEF Holding, Omitting, Editing, Busy
<1>3. /\ proc' \in [Requests -> ProcType]
      /\ \A q \in Requests : q # p => proc'[q] = proc[q]
      /\ \A q \in Requests : Holding(q)' /\ Omitting(q)'
  BY <1>1, <1>2, IdleTyped, OneRequest
<1>4. TypeOK'
  BY <1>3 DEF ConsentInv, TypeOK
<1>5. Honoured'
  BY DEF ConsentInv, Honoured
<1>6. \A q \in Requests : Editing(q)' => q # p /\ Editing(q) /\ proc'[q] = proc[q]
  BY <1>2, <1>3 DEF Editing, Busy
<1>7. mongo /\ raced # Students => \A q \in Requests : ~Editing(q)'
  BY <1>6 DEF ConsentInv, Copies
<1>8. Copies'
  BY <1>7 DEF Copies
<1>9. ASSUME NEW q \in Requests PROVE Joining(q)'
  <2> SUFFICES ASSUME NEW u \in Students \ raced, Editing(q)', proc'[q].s = u
               PROVE  /\ Registering(q, u)' =>
                            /\ participants'[u] = "absent"
                            /\ \A o \in Requests : Registering(o, u)' => o = q
                      /\ Deciding(q, u)' =>
                            /\ participants'[u] # "absent"
                            /\ ~mongo' => proc'[q].record = record'[u]
    BY DEF Joining, Registering, Deciding
  <2>1. q # p /\ Editing(q) /\ proc'[q] = proc[q] /\ ~mongo /\ Joining(q) /\ Joining(p)
    BY <1>6, <1>7 DEF ConsentInv
  <2>2. \A o \in Requests : Registering(o, u)' => Registering(o, u)
    BY <1>6 DEF Registering
  <2>3. Deciding(q, u)' <=> Deciding(q, u)
    BY <2>1 DEF Deciding, Editing, Busy
  <2>4. CASE u # s
    BY <2>1, <2>2, <2>3, <2>4 DEF Joining
  <2>5. CASE u = s
    <3>1. /\ Registering(p, u) \/ Deciding(p, u)
          /\ Registering(q, u) \/ Deciding(q, u)
      BY <2>1, <2>5 DEF Registering, Deciding, Editing
    <3>2. Deciding(p, u) /\ Deciding(q, u) /\ ~Registering(q, u)
      BY <2>1, <3>1 DEF Joining, Registering, Deciding
    <3>3. participants'[u] \in {"in", "out"} /\ record' = record
      BY <2>5, <3>2 DEF Deciding
    <3> QED BY <2>1, <2>2, <3>2, <3>3 DEF Joining
  <2> QED BY <2>4, <2>5
<1> QED BY <1>3, <1>4, <1>5, <1>8, <1>9 DEF ConsentInv

(* A step that leaves the participants alone and edits none.               *)
LEMMA OtherStep ==
    ASSUME ConsentInv, UNCHANGED <<mongo, raced, participants, record, choice>>,
           ended' \in BOOLEAN, NEW p \in Requests, NEW r \in ProcType,
           proc' = [proc EXCEPT ![p] = r], r.kind \notin {"register", "consent"},
           coverage' \in [Students -> [CoverageIds -> Evidence \cup {None}]],
           r.kind = "coverage" => r.s \in Students,
           r.kind = "report" =>
              /\ r.group \cap r.withdrawn \subseteq raced
              /\ \A b \in Buckets :
                   r.shown[b] \subseteq r.group /\ (r.shown[b] # {} => IsGroup(r.shown[b]))
    PROVE  ConsentInv'
<1>1. proc \in [Requests -> ProcType]
  BY DEF ConsentInv, TypeOK
<1>2. proc'[p] = r /\ Holding(p)' /\ Omitting(p)'
  BY <1>1 DEF Holding, Omitting, Editing
<1>3. /\ proc' \in [Requests -> ProcType]
      /\ \A q \in Requests : q # p => proc'[q] = proc[q]
      /\ \A q \in Requests : Holding(q)' /\ Omitting(q)'
  BY <1>1, <1>2, OneRequest
<1>4. TypeOK' /\ Honoured'
  BY <1>1, <1>3 DEF ConsentInv, TypeOK, Honoured
<1>5. \A q \in Requests : Editing(q)' => q # p /\ Editing(q) /\ proc'[q] = proc[q]
  BY <1>2, <1>3 DEF Editing, Busy
<1>6. Copies'
  BY <1>5 DEF ConsentInv, Copies
<1>7. \A q \in Requests : Joining(q)'
  <2>1. \A q \in Requests : \A t : /\ Registering(q, t)' => Registering(q, t)
                                   /\ Deciding(q, t)' => Deciding(q, t) /\ proc'[q] = proc[q]
    BY <1>5 DEF Registering, Deciding
  <2> QED BY <2>1 DEF ConsentInv, Joining
<1> QED BY <1>3, <1>4, <1>6, <1>7 DEF ConsentInv

-----------------------------------------------------------------------------
LEMMA RegisterStep ==
    ASSUME ConsentInv, UNCHANGED mongo, NEW p \in Requests, NEW s \in Students,
           RegisterRead(p, s)
    PROVE  ConsentInv'
<1> DEFINE r == Start(p, "register", "write", s)
<1>1. r \in ProcType /\ r.kind = "register" /\ r.at = "write" /\ r.s = s
      /\ (mongo => r.read = participants)
  BY StartTyped DEF ConsentInv
<1>2. ~Busy(p) /\ proc' = [proc EXCEPT ![p] = r] /\ participants[s] = "absent"
      /\ raced' = raced \cup Overlapped \cup Doubled(s)
      /\ UNCHANGED <<ended, participants, coverage, record, choice>>
  BY DEF RegisterRead, Unregistered
<1> HIDE DEF r
<1> QED BY <1>1, <1>2, BeginStep

LEMMA ConsentStep ==
    ASSUME ConsentInv, UNCHANGED mongo, NEW p \in Requests, NEW s \in Students,
           NEW v \in {"in", "out"}, ConsentRead(p, s, v)
    PROVE  ConsentInv'
<1> DEFINE start == Start(p, "consent", "write", s)
           r == [start EXCEPT !.value = v, !.record = record[s]]
<1>1. start \in ProcType /\ start.kind = "consent" /\ start.at = "write" /\ start.s = s
      /\ (mongo => start.read = participants)
  BY StartTyped DEF ConsentInv
<1>2. ~Busy(p) /\ proc' = [proc EXCEPT ![p] = r] /\ participants[s] # "absent"
      /\ raced' = raced \cup Overlapped
      /\ UNCHANGED <<ended, participants, coverage, record, choice>>
  BY DEF ConsentRead
<1> HIDE DEF start
<1>3. r \in ProcType /\ r.kind = "consent" /\ r.at = "write" /\ r.s = s /\ r.value = v
      /\ r.record = record[s] /\ (mongo => r.read = participants)
  <2>1. record[s] \in Nat
    BY DEF ConsentInv, TypeOK
  <2> QED BY <1>1, <2>1 DEF ProcType, States
<1> HIDE DEF r
<1> QED BY <1>2, <1>3, BeginStep

LEMMA CoverageCheckStep ==
    ASSUME ConsentInv, UNCHANGED mongo, NEW p \in Requests, NEW s \in Students,
           NEW b \in Batches, CoverageCheck(p, s, b)
    PROVE  ConsentInv'
<1> DEFINE start == Start(p, "coverage", "write", s)
           r == [start EXCEPT !.batch = b]
<1>1. start \in ProcType /\ start.kind = "coverage" /\ start.at = "write" /\ start.s = s
      /\ (mongo => start.read = participants)
  BY StartTyped DEF ConsentInv
<1>2. ~Busy(p) /\ proc' = [proc EXCEPT ![p] = r]
      /\ UNCHANGED <<raced, ended, participants, coverage, record, choice>>
  BY DEF CoverageCheck
<1> HIDE DEF start
<1>3. r \in ProcType /\ r.kind = "coverage" /\ r.at = "write" /\ r.s = s
      /\ (mongo => r.read = participants)
  BY <1>1 DEF ProcType, Batches
<1> HIDE DEF r
<1> QED BY <1>2, <1>3, BeginStep

LEMMA WriteStep ==
    ASSUME ConsentInv, UNCHANGED mongo, NEW p \in Requests,
           RegisterWrite(p) \/ ConsentWrite(p)
    PROVE  ConsentInv'
<1> DEFINE s == proc[p].s
<1>1. /\ Editing(p) /\ Holding(p) /\ Joining(p) /\ s \in Students /\ proc[p] \in ProcType
      /\ coverage \in [Students -> [CoverageIds -> Evidence \cup {None}]]
      /\ participants \in [Students -> States] /\ choice \in [Students -> States]
      /\ record \in [Students -> Nat]
  BY DEF RegisterWrite, ConsentWrite, Editing, Busy, Holding, ConsentInv, TypeOK
<1>2. Document(p) \in [Students -> States]
  BY <1>1 DEF Document, ProcType
<1>3. ASSUME NEW t \in Students, t \notin raced PROVE Document(p) = participants
  <2>1. raced # Students
    BY <1>3
  <2> QED BY <1>1, <2>1 DEF Document, ConsentInv, Copies
<1>4. CASE RegisterWrite(p)
  <2>1. /\ participants' = [Document(p) EXCEPT ![s] = "in"]
        /\ record' = [record EXCEPT ![s] = IF mongo THEN @ ELSE @ + 1]
        /\ choice' = [choice EXCEPT ![s] = IF @ = "absent" THEN "in" ELSE @]
        /\ proc[p].kind = "register" /\ proc' = Answered(p) /\ UNCHANGED <<raced, ended, coverage>>
    BY <1>4 DEF RegisterWrite
  <2>2. /\ participants' \in [Students -> States] /\ choice' \in [Students -> States]
        /\ record' \in [Students -> Nat]
    BY <1>1, <1>2, <2>1 DEF States
  <2>3. ASSUME s \notin raced PROVE participants'[s] = "in" /\ choice'[s] = "in"
    <3>1. choice[s] = "absent"
      BY <1>1, <2>1, <2>3 DEF Joining, Registering, ConsentInv, Honoured
    <3> QED BY <1>1, <1>2, <2>1, <3>1
  <2>4. \A t \in Students \ raced : t # s =>
           participants'[t] = participants[t] /\ choice'[t] = choice[t] /\ record'[t] = record[t]
    BY <1>1, <1>2, <1>3, <2>1
  <2> QED BY <1>1, <2>1, <2>2, <2>3, <2>4, DecideStep
<1>5. CASE ConsentWrite(p)
  <2>1. /\ participants' = Decided(p, s) /\ choice' = [choice EXCEPT ![s] = proc[p].value]
        /\ proc[p].kind = "consent" /\ proc' = Answered(p) /\ UNCHANGED <<raced, ended, record>>
    BY <1>5 DEF ConsentWrite
  <2>2. proc[p].value \in {"in", "out"} /\ proc[p].value \in States
    BY <1>1, <2>1 DEF Holding, States
  <2>3. coverage' \in [Students -> [CoverageIds -> Evidence \cup {None}]]
    BY <1>1, <1>5, NoBatchTyped DEF ConsentWrite, Erased
  <2>4. /\ participants' \in [Students -> States] /\ choice' \in [Students -> States]
        /\ record' \in [Students -> Nat]
    BY <1>1, <1>2, <2>1, <2>2 DEF Decided
  <2>5. ASSUME s \notin raced
        PROVE  participants'[s] = proc[p].value /\ choice'[s] = proc[p].value
    <3>1. ~Detached(p)
      BY <1>1, <2>1, <2>5 DEF Joining, Deciding, Detached
    <3> QED BY <1>1, <1>2, <2>1, <3>1 DEF Decided
  <2>6. \A t \in Students \ raced : t # s =>
           participants'[t] = participants[t] /\ choice'[t] = choice[t] /\ record'[t] = record[t]
    BY <1>1, <1>2, <1>3, <2>1 DEF Decided
  <2> QED BY <1>1, <2>1, <2>2, <2>3, <2>4, <2>5, <2>6, DecideStep
<1> QED BY <1>4, <1>5

LEMMA CoverageWriteStep ==
    ASSUME ConsentInv, UNCHANGED mongo, NEW p \in Requests, CoverageWrite(p)
    PROVE  ConsentInv'
<1> DEFINE s == proc[p].s
           b == proc[p].batch
<1>1. proc[p] \in ProcType /\ proc[p].kind = "coverage" /\ Holding(p)
  BY DEF CoverageWrite, ConsentInv, TypeOK
<1>2. s \in Students /\ b \in [CoverageIds -> Evidence \cup {None}]
  BY <1>1 DEF Holding, ProcType
<1>3. coverage \in [Students -> [CoverageIds -> Evidence \cup {None}]] /\ ended \in BOOLEAN
  BY DEF ConsentInv, TypeOK
<1>4. With(s, b) \in [Students -> [CoverageIds -> Evidence \cup {None}]]
  BY <1>2, <1>3 DEF With
<1>5. coverage' \in [Students -> [CoverageIds -> Evidence \cup {None}]]
  BY <1>3, <1>4 DEF CoverageWrite
<1>6. /\ proc' = [proc EXCEPT ![p] = Idle]
      /\ UNCHANGED <<raced, ended, participants, record, choice>>
  BY DEF CoverageWrite, Answered
<1> QED BY <1>3, <1>5, <1>6, IdleTyped, OtherStep

(* A report starts from students whose stored consent is their choice, and *)
(* releases fewer of them or none.                                         *)
LEMMA ReportStep ==
    ASSUME ConsentInv, UNCHANGED mongo, NEW p \in Requests,
           ReportRead(p) \/ ReportCover(p)
    PROVE  ConsentInv'
<1>1. /\ proc[p] \in ProcType /\ Omitting(p) /\ Holding(p) /\ ended \in BOOLEAN
      /\ coverage \in [Students -> [CoverageIds -> Evidence \cup {None}]]
  BY DEF ConsentInv, TypeOK
<1>2. UNCHANGED <<raced, ended, participants, coverage, record, choice>>
  BY DEF ReportRead, ReportCover
<1>3. CASE ReportRead(p)
  <2> DEFINE r == [Idle EXCEPT !.kind = "report", !.at = "cover", !.group = OptedIn,
                               !.withdrawn = Withdrawn]
  <2>1. OptedIn \in SUBSET Students /\ Withdrawn \in SUBSET Students
    BY DEF OptedIn, Withdrawn
  <2>2. /\ r \in ProcType /\ r.kind = "report" /\ r.at = "cover"
        /\ r.group = OptedIn /\ r.withdrawn = Withdrawn /\ r.shown = Nothing
    BY <2>1, IdleTyped DEF ProcType, Kinds
  <2>3. proc' = [proc EXCEPT ![p] = r]
    BY <1>3 DEF ReportRead
  <2> HIDE DEF r
  <2>4. OptedIn \cap Withdrawn \subseteq raced
    BY DEF ConsentInv, Honoured, OptedIn, Withdrawn
  <2>5. \A b \in Buckets : r.shown[b] = {}
    BY <2>2, IdleTyped
  <2> QED BY <1>1, <1>2, <2>2, <2>3, <2>4, <2>5, OtherStep
<1>4. CASE ReportCover(p)
  <2> DEFINE shown == Released(proc[p].group)
             r == [proc[p] EXCEPT !.at = "done", !.shown = shown]
  <2>1. /\ shown \in [Buckets -> SUBSET Students]
        /\ \A b \in Buckets :
             shown[b] \subseteq proc[p].group /\ (shown[b] # {} => IsGroup(shown[b]))
    BY <1>1 DEF Released, Shown, ObservedOf, ProcType
  <2> HIDE DEF shown
  <2>2. /\ r \in ProcType /\ r.kind = proc[p].kind /\ r.at = "done" /\ r.s = proc[p].s
        /\ r.shown = shown /\ r.group = proc[p].group /\ r.withdrawn = proc[p].withdrawn
    BY <1>1, <2>1 DEF ProcType
  <2>3. proc' = [proc EXCEPT ![p] = r] /\ proc[p].at = "cover"
    BY <1>4 DEF ReportCover, shown
  <2> HIDE DEF r
  <2>4. r.kind \notin {"register", "consent"}
    BY <1>1, <2>2, <2>3 DEF Holding, Editing, Busy
  <2>5. r.kind = "report" => r.group \cap r.withdrawn \subseteq raced
    BY <1>1, <2>2 DEF Omitting
  <2>6. r.kind = "coverage" => r.s \in Students
    BY <1>1, <2>2 DEF Holding
  <2> QED BY <1>1, <1>2, <2>1, <2>2, <2>3, <2>4, <2>5, <2>6, OtherStep
<1> QED BY <1>3, <1>4

-----------------------------------------------------------------------------
LEMMA NextStep == ConsentInv /\ [Next]_vars => ConsentInv'
<1> SUFFICES ASSUME ConsentInv, [Next]_vars PROVE ConsentInv'
  OBVIOUS
<1>1. CASE UNCHANGED vars
  BY <1>1 DEF vars, ConsentInv, TypeOK, Honoured, Copies, Joining, Registering, Deciding, Holding, Editing,
              Busy, Omitting
<1>2. CASE Next
  <2> USE <1>2 DEF Next
  <2>1. ASSUME NEW p \in Requests, NEW s \in Students,
               \/ RegisterRead(p, s)
               \/ \E v \in {"in", "out"} : ConsentRead(p, s, v)
               \/ \E b \in Batches : CoverageCheck(p, s, b)
        PROVE  ConsentInv'
    BY <2>1, RegisterStep, ConsentStep, CoverageCheckStep
  <2>2. ASSUME NEW p \in Requests,
               RegisterWrite(p) \/ ConsentWrite(p) \/ CoverageWrite(p) \/ ReportRead(p)
                 \/ ReportCover(p)
        PROVE  ConsentInv'
    BY <2>2, WriteStep, CoverageWriteStep, ReportStep
  <2>3. CASE EndSession
    BY <2>3 DEF EndSession, ConsentInv, TypeOK, Honoured, Copies, Joining, Registering, Deciding, Holding,
                Editing, Busy, Omitting
  <2> QED BY <2>1, <2>2, <2>3 DEF Step
<1> QED BY <1>1, <1>2

LEMMA ConsentInvAlways == Spec => []ConsentInv
BY InitStep, NextStep, PTL DEF Spec

(* Type correctness, for any students, requests and coverage.              *)
THEOREM TypeCorrect == Spec => []TypeOK
<1>1. ConsentInv => TypeOK
  BY DEF ConsentInv
<1> QED BY <1>1, ConsentInvAlways, PTL

(* However many requests overlap, the stored consent is the last answered  *)
(* choice: in memory of everybody but who was registered twice at once,    *)
(* and with MongoDB until two handlers overlap.                            *)
THEOREM ChoiceIsStored == Spec => []ConsentIsHonoured
<1>1. ConsentInv => ConsentIsHonoured
  BY DEF ConsentInv, Honoured, ConsentIsHonoured
<1> QED BY <1>1, ConsentInvAlways, PTL

(* A report counts nobody who had withdrawn when it began, and releases a  *)
(* group of the minimum size or none.                                      *)
THEOREM WithdrawnAreOmitted == Spec => []ReportsOmitWithdrawn
<1>1. ConsentInv => ReportsOmitWithdrawn
  BY DEF ConsentInv, Omitting, ReportsOmitWithdrawn
<1> QED BY <1>1, ConsentInvAlways, PTL

-----------------------------------------------------------------------------
(* The report of ClassReport, for a lecture of any length, any policy and  *)
(* any records and signals. Numbers first: a set of them has a least one,  *)
(* and one that has 0 and the next of each of its members has all.         *)
LEMMA LeastNatural ==
    ASSUME NEW S \in SUBSET Nat, S # {}
    PROVE  \E m \in S : \A n \in S : m <= n
<1>1. PICK R : R = {pair \in Nat \X Nat : pair[1] < pair[2]}
  OBVIOUS
<1>2. IsWellFoundedOn(R, Nat)
  BY <1>1, NatLessThanWellFounded DEF OpToRel
<1>3. PICK m \in S : \A n \in S : <<n, m>> \notin R
  BY <1>2, WFMin
<1>4. ASSUME NEW n \in S, n < m PROVE FALSE
  <2>1. <<n, m>> \in Nat \X Nat /\ <<n, m>>[1] = n /\ <<n, m>>[2] = m
    OBVIOUS
  <2>2. <<n, m>> \in R
    BY <1>1, <1>4, <2>1
  <2> QED BY <1>3, <2>2
<1> QED BY <1>4

LEMMA InductiveSet ==
    ASSUME NEW A, 0 \in A, \A n \in Nat : n \in A => n + 1 \in A
    PROVE  \A n \in Nat : n \in A
<1> SUFFICES ASSUME NEW n \in Nat \ A PROVE FALSE
  OBVIOUS
<1>1. PICK m \in Nat \ A : \A k \in Nat \ A : m <= k
  BY LeastNatural
<1>2. m # 0 /\ m - 1 \in Nat /\ (m - 1) + 1 = m
  OBVIOUS
<1>3. m - 1 \in A
  BY <1>1, <1>2
<1> QED BY <1>2, <1>3

(* Extremes of two numbers.                                                *)
LEMMA ExtremeOfTwo ==
    ASSUME NEW m \in Nat, NEW n \in Nat
    PROVE  /\ Max({m, n}) = IF m <= n THEN n ELSE m
           /\ Min({m, n}) = IF m <= n THEN m ELSE n
<1>1. PICK k : k = IF m <= n THEN n ELSE m
  OBVIOUS
<1>2. PICK l : l = IF m <= n THEN m ELSE n
  OBVIOUS
<1>3. k \in {m, n} /\ \A y \in {m, n} : k >= y
  BY <1>1
<1>4. l \in {m, n} /\ \A y \in {m, n} : l <= y
  BY <1>2
<1>5. Max({m, n}) = k
  BY <1>3 DEF Max
<1>6. Min({m, n}) = l
  BY <1>4 DEF Min
<1> QED BY <1>1, <1>2, <1>5, <1>6

LEMMA LeftmostFirst ==
    ASSUME NEW S, S # {}, \A i \in S : i \in [from : Nat, to : Nat]
    PROVE  Leftmost(S) \in S /\ \A j \in S : Leftmost(S).from <= j.from
<1>1. \A i \in S : i.from \in Nat /\ i.to \in Nat
  OBVIOUS
<1>2. PICK i \in S : \A j \in S : i.from <= j.from
  <2>1. PICK m \in {i.from : i \in S} : \A n \in {i.from : i \in S} : m <= n
    <3>1. {i.from : i \in S} \subseteq Nat /\ {i.from : i \in S} # {}
      BY <1>1
    <3> QED BY <3>1, LeastNatural
  <2> QED BY <2>1
<1>3. PICK T : T = {j \in S : j.from = i.from}
  OBVIOUS
<1>4. PICK k \in T : \A j \in T : k.to <= j.to
  <2>1. PICK m \in {j.to : j \in T} : \A n \in {j.to : j \in T} : m <= n
    <3>1. {j.to : j \in T} \subseteq Nat /\ {j.to : j \in T} # {}
      BY <1>1, <1>2, <1>3
    <3> QED BY <3>1, LeastNatural
  <2> QED BY <2>1
<1>5. ASSUME NEW j \in S PROVE k = j \/ Earlier(k, j)
  <2>1. k.from = i.from /\ k \in S
    BY <1>3, <1>4
  <2>2. CASE j \in T
    <3>1. j.from = k.from /\ (k.to < j.to \/ k.to = j.to)
      BY <1>1, <1>3, <1>4, <2>1, <2>2
    <3>2. k.to = j.to => k = j
      <4>1. k \in [from : Nat, to : Nat] /\ j \in [from : Nat, to : Nat]
        BY <2>1
      <4> QED BY <3>1, <4>1
    <3> QED BY <3>1, <3>2 DEF Earlier
  <2>3. CASE j \notin T
    BY <1>1, <1>2, <1>3, <2>1, <2>3 DEF Earlier
  <2> QED BY <2>2, <2>3
<1>6. Leftmost(S) \in S /\ \A j \in S : Leftmost(S) = j \/ Earlier(Leftmost(S), j)
  <2>1. k \in S
    BY <1>3
  <2> QED BY <1>5, <2>1 DEF Leftmost
<1> QED BY <1>1, <1>6 DEF Earlier

(* The clipped intervals that reach a bucket: intervals of it, with the    *)
(* moments that they had there.                                            *)
Spans(b) == {i \in [from : Nat, to : Nat] : b.from <= i.from /\ i.from < i.to /\ i.to <= b.to}

Here(b, intervals) == {n \in Moments(b) : At(n, intervals)}

LEMMA ClippedSpans ==
    ASSUME NEW b, IsInterval(b), NEW i, IsInterval(i), Reaches(i, b)
    PROVE  /\ Clipped(i, b) \in Spans(b)
           /\ \A n \in Moments(b) : n \in Moments(Clipped(i, b)) <=> n \in Moments(i)
<1>1. PICK c : c = Clipped(i, b)
  OBVIOUS
<1>2. b.from \in Nat /\ b.to \in Nat /\ i.from \in Nat /\ i.to \in Nat
  BY DEF IsInterval
<1>3. PICK from, to : /\ from = IF i.from <= b.from THEN b.from ELSE i.from
                      /\ to = IF i.to <= b.to THEN i.to ELSE b.to
  OBVIOUS
<1>4. c = [from |-> from, to |-> to]
  BY <1>1, <1>2, <1>3, ExtremeOfTwo DEF Clipped
<1>5. from \in Nat /\ to \in Nat /\ c.from = from /\ c.to = to
  BY <1>2, <1>3, <1>4
<1>6. c \in Spans(b)
  <2>1. c \in [from : Nat, to : Nat]
    BY <1>4, <1>5
  <2>2. b.from <= from /\ from < to /\ to <= b.to
    BY <1>2, <1>3 DEF IsInterval, Reaches
  <2> QED BY <1>5, <2>1, <2>2 DEF Spans
<1>7. \A n \in Moments(b) : n \in Moments(c) <=> n \in Moments(i)
  BY <1>2, <1>3, <1>5 DEF Moments
<1> QED BY <1>1, <1>6, <1>7

LEMMA WithinSpans ==
    ASSUME NEW b, IsInterval(b), NEW intervals, \A i \in intervals : IsInterval(i)
    PROVE  Within(intervals, b) \subseteq Spans(b) /\ Here(b, Within(intervals, b)) = Here(b, intervals)
<1>1. Within(intervals, b) \subseteq Spans(b)
  BY ClippedSpans DEF Within
<1>2. ASSUME NEW n \in Moments(b) PROVE At(n, Within(intervals, b)) <=> At(n, intervals)
  <2>1. ASSUME NEW i \in intervals, n \in Moments(i) PROVE At(n, Within(intervals, b))
    <3>1. Reaches(i, b)
      BY <2>1 DEF Reaches, Moments, IsInterval
    <3> QED BY <2>1, <3>1, ClippedSpans DEF Within, At
  <2>2. ASSUME NEW c \in Within(intervals, b), n \in Moments(c) PROVE At(n, intervals)
    <3>1. PICK i \in intervals : Reaches(i, b) /\ c = Clipped(i, b)
      BY DEF Within
    <3> QED BY <2>2, <3>1, ClippedSpans DEF At
  <2> QED BY <2>1, <2>2 DEF At
<1> QED BY <1>1, <1>2 DEF Here

LEMMA WithinFinite ==
    ASSUME NEW b, NEW intervals, IsFiniteSet(intervals)
    PROVE  IsFiniteSet(Within(intervals, b))
<1>1. PICK S : S = {j \in intervals : Reaches(j, b)}
  OBVIOUS
<1>2. IsFiniteSet(S)
  BY <1>1, FS_Subset
<1>3. PICK f : f = [i \in S |-> Clipped(i, b)]
  OBVIOUS
<1>4. f \in Surjection(S, Within(intervals, b))
  BY <1>1, <1>3 DEF Within, Surjection
<1> QED BY <1>2, <1>4, FS_Surjection

(* What has been counted when some intervals are left: every moment of     *)
(* those taken, once; the cursor is where the last of them ends.           *)
Tallied(swept, left, taken, b) ==
    /\ swept.cursor \in Nat /\ b.from <= swept.cursor
    /\ swept.total = Cardinality(Here(b, taken))
    /\ \A i \in taken : i.to <= swept.cursor /\ \A j \in left : i.from <= j.from
    /\ swept.cursor = b.from \/ \E i \in taken : i.to = swept.cursor

LEMMA HereFinite ==
    ASSUME NEW b, IsInterval(b), NEW intervals
    PROVE  IsFiniteSet(Here(b, intervals)) /\ Cardinality(Here(b, intervals)) \in Nat
<1>1. IsFiniteSet(Moments(b))
  BY FS_Interval DEF Moments, IsInterval
<1> QED BY <1>1, FS_Subset, FS_CardinalityType DEF Here

LEMMA SweptTallies ==
    ASSUME NEW b, IsInterval(b), NEW left \in SUBSET Spans(b), NEW taken \in SUBSET Spans(b),
           NEW swept, Tallied(swept, left, taken, b),
           NEW i \in left, \A j \in left : i.from <= j.from
    PROVE  Tallied(Swept(swept, i), left \ {i}, taken \cup {i}, b)
<1>1. PICK cursor \in Nat : cursor = swept.cursor
  BY DEF Tallied
<1>2. /\ b.from \in Nat /\ b.to \in Nat /\ i.from \in Nat /\ i.to \in Nat
      /\ b.from <= i.from /\ i.from < i.to /\ i.to <= b.to /\ b.from <= cursor
  BY <1>1 DEF Spans, IsInterval, Tallied
<1>3. \A j \in taken : j.from \in Nat /\ j.to \in Nat /\ j.from <= i.from /\ j.to <= cursor
  BY <1>1 DEF Spans, Tallied
<1>4. PICK start, next : /\ start = IF cursor <= i.from THEN i.from ELSE cursor
                         /\ next = IF cursor <= i.to THEN i.to ELSE cursor
  OBVIOUS
<1>5. PICK old : old = Here(b, taken)
  OBVIOUS
<1>6. IsFiniteSet(old) /\ Cardinality(old) \in Nat /\ swept.total = Cardinality(old)
  BY <1>5, HereFinite DEF Tallied
<1>7. PICK new : new = start..(i.to - 1)
  OBVIOUS
<1>8. IsFiniteSet(new) /\ Cardinality(new) = IF start < i.to THEN i.to - start ELSE 0
  <2>1. PICK last \in Int : last = i.to - 1
    BY <1>2
  <2>2. start \in Int /\ new = start..last
    BY <1>2, <1>4, <1>7, <2>1
  <2>3. IsFiniteSet(new) /\ Cardinality(new) = IF start > last THEN 0 ELSE last - start + 1
    BY <2>1, <2>2, FS_Interval
  <2> QED BY <1>2, <2>1, <2>2, <2>3
<1>9. /\ Swept(swept, i).cursor = next
      /\ Swept(swept, i).total = Cardinality(old) + Cardinality(new)
  <2>1. Max({cursor, i.from}) = start /\ Max({cursor, i.to}) = next
    BY <1>2, <1>4, ExtremeOfTwo
  <2>2. Counted(swept, i) = Cardinality(new)
    BY <1>1, <1>8, <2>1 DEF Counted
  <2> QED BY <1>1, <1>6, <2>1, <2>2 DEF Swept
<1>10. old \cap new = {}
  BY <1>2, <1>3, <1>4, <1>5, <1>7 DEF Here, At, Moments
<1>11. Here(b, taken \cup {i}) = old \cup new
  <2>1. ASSUME NEW n \in old \cup new PROVE n \in Here(b, taken \cup {i})
    <3>1. CASE n \in old
      BY <1>5, <3>1 DEF Here, At
    <3>2. CASE n \in new
      BY <1>2, <1>4, <1>7, <3>2 DEF Here, At, Moments
    <3> QED BY <3>1, <3>2
  <2>2. ASSUME NEW n \in Moments(b), n \in Moments(i), n \notin new PROVE n \in old
    <3>1. n \in Nat /\ b.from <= n /\ i.from <= n /\ n < cursor
      BY <1>2, <1>4, <1>7, <2>2 DEF Moments
    <3>2. PICK j \in taken : j.to = cursor
      BY <1>1, <1>2, <3>1 DEF Tallied
    <3>3. n \in Moments(j)
      BY <1>3, <1>2, <3>1, <3>2 DEF Moments
    <3> QED BY <1>5, <3>3 DEF Here, At
  <2>3. ASSUME NEW n \in Here(b, taken \cup {i}) PROVE n \in old \cup new
    BY <1>5, <2>2 DEF Here, At
  <2> QED BY <2>1, <2>3
<1>12. Swept(swept, i).total = Cardinality(Here(b, taken \cup {i}))
  <2>1. Cardinality(old \cup new) = Cardinality(old) + Cardinality(new) - Cardinality(old \cap new)
    BY <1>6, <1>8, FS_Union
  <2>2. Cardinality(old \cap new) = 0 /\ Cardinality(new) \in Nat
    BY <1>8, <1>10, FS_EmptySet, FS_CardinalityType
  <2>3. PICK c \in Nat, d \in Nat : c = Cardinality(old) /\ d = Cardinality(new)
    BY <1>6, <2>2
  <2>4. Cardinality(old \cup new) = c + d
    BY <2>1, <2>2, <2>3
  <2> QED BY <1>9, <1>11, <2>3, <2>4
<1>13. \A k \in taken \cup {i} : k.to <= next /\ \A j \in left \ {i} : k.from <= j.from
  <2>1. \A j \in left : j.from \in Nat /\ i.from <= j.from
    BY DEF Spans
  <2> QED BY <1>2, <1>3, <1>4, <2>1
<1>14. next = b.from \/ \E k \in taken \cup {i} : k.to = next
  BY <1>1, <1>4 DEF Tallied
<1>15. next \in Nat /\ b.from <= next
  BY <1>2, <1>4
<1> QED BY <1>9, <1>12, <1>13, <1>14, <1>15 DEF Tallied

(* The recursion of CoveredDuration.                                       *)
Unswept(b, inside) == [swept |-> [total |-> 0, cursor |-> b.from], left |-> inside]

SweepChain(g, k, b, inside) ==
    g = [n \in 0..k |-> IF n = 0 THEN Unswept(b, inside) ELSE Sweeping(g[n - 1])]

Counting(state, n, b, inside) ==
    /\ state.left \subseteq inside
    /\ Cardinality(state.left) = Cardinality(inside) - n
    /\ Tallied(state.swept, state.left, inside \ state.left, b)

LEMMA SweepingCounts ==
    ASSUME NEW b, IsInterval(b), NEW inside \in SUBSET Spans(b), IsFiniteSet(inside),
           NEW n \in Nat, n < Cardinality(inside),
           NEW state, Counting(state, n, b, inside)
    PROVE  Counting(Sweeping(state), n + 1, b, inside)
<1>1. PICK left : left = state.left
  OBVIOUS
<1>2. left \in SUBSET inside /\ IsFiniteSet(left) /\ Cardinality(left) = Cardinality(inside) - n
  BY <1>1, FS_Subset DEF Counting
<1>3. PICK c \in Nat : c = Cardinality(inside)
  BY FS_CardinalityType
<1>4. left # {}
  BY <1>2, <1>3, FS_EmptySet
<1>5. PICK i : i = Leftmost(left)
  OBVIOUS
<1>6. i \in left /\ \A j \in left : i.from <= j.from
  <2>1. \A j \in left : j \in [from : Nat, to : Nat]
    BY <1>2 DEF Spans
  <2> QED BY <1>4, <1>5, <2>1, LeftmostFirst
<1>7. Sweeping(state).swept = Swept(state.swept, i) /\ Sweeping(state).left = left \ {i}
  BY <1>1, <1>5 DEF Sweeping
<1>8. Cardinality(left \ {i}) = Cardinality(inside) - (n + 1)
  <2>1. Cardinality(left \ {i}) = Cardinality(left) - 1
    BY <1>2, <1>6, FS_RemoveElement
  <2> QED BY <1>2, <1>3, <2>1
<1>9. Tallied(Swept(state.swept, i), left \ {i}, (inside \ left) \cup {i}, b)
  BY <1>1, <1>2, <1>6, SweptTallies DEF Counting
<1>10. (inside \ left) \cup {i} = inside \ (left \ {i})
  BY <1>2, <1>6
<1> QED BY <1>2, <1>7, <1>8, <1>9, <1>10 DEF Counting

LEMMA SweepChainExists ==
    ASSUME NEW b, NEW inside, NEW k \in Nat
    PROVE  \E g : SweepChain(g, k, b, inside)
<1> DEFINE A == {n \in Nat : \E g : SweepChain(g, n, b, inside)}
<1>1. 0 \in A
  <2>1. SweepChain([n \in 0..0 |-> Unswept(b, inside)], 0, b, inside)
    BY DEF SweepChain
  <2> QED BY <2>1
<1>2. ASSUME NEW n \in Nat, n \in A PROVE n + 1 \in A
  <2>1. PICK g : SweepChain(g, n, b, inside)
    BY <1>2
  <2>2. PICK next : next = Sweeping(g[n])
    OBVIOUS
  <2>3. PICK f : f = [j \in 0..(n + 1) |-> IF j = n + 1 THEN next ELSE g[j]]
    OBVIOUS
  <2>4. ASSUME NEW j \in 0..(n + 1)
        PROVE  f[j] = IF j = 0 THEN Unswept(b, inside) ELSE Sweeping(f[j - 1])
    <3>1. CASE j = n + 1
      <4>1. j # 0 /\ j - 1 = n /\ n \in 0..(n + 1) /\ n # n + 1
        BY <3>1
      <4>2. f[j] = next /\ f[j - 1] = g[n]
        BY <2>3, <3>1, <4>1
      <4> QED BY <2>2, <3>1, <4>1, <4>2
    <3>2. CASE j = 0
      <4>1. f[j] = g[j] /\ j \in 0..n
        BY <2>3, <3>2
      <4> QED BY <2>1, <3>2, <4>1 DEF SweepChain
    <3>3. CASE j # 0 /\ j # n + 1
      <4>1. j \in 0..n /\ j - 1 \in 0..(n + 1) /\ j - 1 # n + 1
        BY <3>3
      <4>2. f[j] = g[j] /\ f[j - 1] = g[j - 1]
        BY <2>3, <3>3, <4>1
      <4>3. g[j] = Sweeping(g[j - 1])
        BY <2>1, <3>3, <4>1 DEF SweepChain
      <4> QED BY <3>3, <4>2, <4>3
    <3> QED BY <3>1, <3>2, <3>3
  <2>5. f = [j \in 0..(n + 1) |-> f[j]]
    BY <2>3
  <2>6. SweepChain(f, n + 1, b, inside)
    BY <2>4, <2>5 DEF SweepChain
  <2> QED BY <2>6
<1> HIDE DEF A
<1>3. k \in A
  BY <1>1, <1>2, InductiveSet
<1> QED BY <1>3 DEF A

(* The sweep counts the moments of a bucket that some interval has.        *)
LEMMA CoveredMoments ==
    ASSUME NEW b, IsInterval(b), NEW intervals, IsFiniteSet(intervals),
           \A i \in intervals : IsInterval(i)
    PROVE  CoveredDuration(intervals, b) = Cardinality(Here(b, intervals))
<1>1. PICK inside : inside = Within(intervals, b)
  OBVIOUS
<1>2. inside \in SUBSET Spans(b) /\ IsFiniteSet(inside) /\ Here(b, inside) = Here(b, intervals)
  BY <1>1, WithinSpans, WithinFinite
<1>3. PICK k \in Nat : k = Cardinality(inside)
  BY <1>2, FS_CardinalityType
<1>4. PICK g : g = CHOOSE h : SweepChain(h, k, b, inside)
  OBVIOUS
<1>5. SweepChain(g, k, b, inside)
  BY <1>4, SweepChainExists
<1>6. CoveredDuration(intervals, b) = g[k].swept.total
  BY <1>1, <1>3, <1>4 DEF CoveredDuration, SweepChain, Unswept
<1> DEFINE A == {n \in Nat : n <= k => Counting(g[n], n, b, inside)}
<1>7. 0 \in A
  <2>1. g[0] = Unswept(b, inside)
    BY <1>5 DEF SweepChain
  <2>2. inside \ inside = {} /\ Here(b, {}) = {}
    BY DEF Here, At
  <2>3. Tallied(g[0].swept, inside, inside \ inside, b)
    <3>1. g[0].swept.cursor = b.from /\ g[0].swept.total = 0 /\ b.from \in Nat
      BY <2>1 DEF Unswept, IsInterval
    <3>2. Cardinality(Here(b, inside \ inside)) = 0
      BY <2>2, FS_EmptySet
    <3> QED BY <2>2, <3>1, <3>2 DEF Tallied
  <2>4. Counting(g[0], 0, b, inside)
    BY <1>3, <2>1, <2>3 DEF Counting, Unswept
  <2> QED BY <2>4
<1>8. ASSUME NEW n \in Nat, n \in A PROVE n + 1 \in A
  <2>1. CASE n + 1 <= k
    <3>1. n + 1 \in 0..k /\ n + 1 # 0 /\ (n + 1) - 1 = n /\ n < k
      BY <2>1
    <3>2. g[n + 1] = Sweeping(g[n])
      BY <1>5, <3>1 DEF SweepChain
    <3>3. Counting(g[n], n, b, inside)
      BY <1>8, <3>1
    <3>4. Counting(g[n + 1], n + 1, b, inside)
      BY <1>2, <1>3, <3>1, <3>2, <3>3, SweepingCounts
    <3> QED BY <3>4
  <2>2. CASE ~(n + 1 <= k)
    BY <2>2
  <2> QED BY <2>1, <2>2
<1> HIDE DEF A
<1>9. k \in A
  BY <1>7, <1>8, InductiveSet
<1>10. Counting(g[k], k, b, inside)
  BY <1>9 DEF A
<1>11. g[k].left = {}
  <2>1. IsFiniteSet(g[k].left) /\ Cardinality(g[k].left) = 0
    BY <1>2, <1>3, <1>10, FS_Subset DEF Counting
  <2> QED BY <2>1, FS_EmptySet
<1>12. inside \ {} = inside
  OBVIOUS
<1> QED BY <1>2, <1>6, <1>10, <1>11, <1>12 DEF Counting, Tallied

(* A sweep that fills a bucket leaves no moment of it out, and one that    *)
(* counts nothing found none.                                              *)
LEMMA CoveredAll ==
    ASSUME NEW b, IsInterval(b), NEW intervals, IsFiniteSet(intervals),
           \A i \in intervals : IsInterval(i)
    PROVE  /\ CoveredDuration(intervals, b) = Duration(b) <=> \A n \in Moments(b) : At(n, intervals)
           /\ CoveredDuration(intervals, b) = 0 <=> \A n \in Moments(b) : ~At(n, intervals)
<1>1. PICK here : here = Here(b, intervals)
  OBVIOUS
<1>2. here \in SUBSET Moments(b) /\ IsFiniteSet(here)
  BY <1>1, HereFinite DEF Here
<1>3. IsFiniteSet(Moments(b)) /\ Cardinality(Moments(b)) = Duration(b)
  <2>1. PICK from \in Int, last \in Int : from = b.from /\ last = b.to - 1
    BY DEF IsInterval
  <2>2. Moments(b) = from..last
    BY <2>1 DEF Moments
  <2>3. IsFiniteSet(from..last) /\ Cardinality(from..last) = IF from > last THEN 0 ELSE last - from + 1
    BY FS_Interval
  <2> QED BY <2>1, <2>2, <2>3 DEF Duration, IsInterval
<1>4. CoveredDuration(intervals, b) = Cardinality(here)
  BY <1>1, CoveredMoments
<1>5. Cardinality(here) = Cardinality(Moments(b)) <=> here = Moments(b)
  BY <1>2, <1>3, FS_Subset
<1>6. Cardinality(here) = 0 <=> here = {}
  BY <1>2, FS_EmptySet
<1>7. here = Moments(b) <=> \A n \in Moments(b) : At(n, intervals)
  BY <1>1 DEF Here
<1>8. here = {} <=> \A n \in Moments(b) : ~At(n, intervals)
  BY <1>1 DEF Here
<1> QED BY <1>3, <1>4, <1>5, <1>6, <1>7, <1>8

LEMMA BucketsAreIntervals == IsFiniteSet(Buckets) /\ \A b \in Buckets : IsInterval(b)
<1>1. PICK K : K = {k \in 0..LectureMs : BucketMs * k < LectureMs}
  OBVIOUS
<1>2. PICK f : f = [n \in K |-> [from |-> BucketMs * n, to |-> Min({LectureMs, BucketMs * (n + 1)})]]
  OBVIOUS
<1>3. IsFiniteSet(K)
  <2>1. LectureMs \in Int /\ 0 \in Int
    BY ReportAssumption
  <2>2. IsFiniteSet(0..LectureMs)
    BY <2>1, FS_Interval
  <2> QED BY <1>1, <2>2, FS_Subset
<1>4. f \in Surjection(K, Buckets)
  BY <1>1, <1>2 DEF Buckets, Surjection
<1>5. ASSUME NEW b \in Buckets PROVE IsInterval(b)
  <2>1. PICK n \in K : b = [from |-> BucketMs * n, to |-> Min({LectureMs, BucketMs * (n + 1)})]
    BY <1>1 DEF Buckets
  <2>2. n \in Nat /\ BucketMs * n < LectureMs
    BY <1>1, ReportAssumption
  <2>3. PICK from \in Nat, to \in Nat : from = BucketMs * n /\ to = BucketMs * (n + 1)
    BY <2>2, ReportAssumption
  <2>4. from < to
    BY <2>2, <2>3, ReportAssumption
  <2>5. Min({LectureMs, to}) = IF LectureMs <= to THEN LectureMs ELSE to
    BY <2>3, ReportAssumption, ExtremeOfTwo
  <2>6. b.from = from /\ b.to = IF LectureMs <= to THEN LectureMs ELSE to
    BY <2>1, <2>3, <2>5
  <2> QED BY <2>2, <2>3, <2>4, <2>6, ReportAssumption DEF IsInterval
<1> QED BY <1>3, <1>4, <1>5, FS_Surjection

(* Who is observed and who is affected, moment by moment.                  *)
LEMMA ObservedThroughout ==
    ASSUME NEW b \in Buckets, NEW own \in Histories
    PROVE  IsObserved(own, b) <=> SeenThroughout(own, b)
<1>1. PICK yes, no : yes = {r \in own : r.ok} /\ no = {r \in own : ~r.ok}
  OBVIOUS
<1>2. /\ IsFiniteSet(yes) /\ \A i \in yes : IsInterval(i)
      /\ IsFiniteSet(no) /\ \A i \in no : IsInterval(i)
  BY <1>1, ReportAssumption, FS_Subset
<1>3. IsInterval(b)
  BY BucketsAreIntervals
<1>4. CoveredDuration(yes, b) = Duration(b) <=> \A n \in Moments(b) : At(n, yes)
  BY <1>2, <1>3, CoveredAll
<1>5. CoveredDuration(no, b) = 0 <=> \A n \in Moments(b) : ~At(n, no)
  BY <1>2, <1>3, CoveredAll
<1> QED BY <1>1, <1>4, <1>5 DEF IsObserved, SeenThroughout

LEMMA AffectedMoments ==
    ASSUME NEW b \in Buckets, NEW sent \in Sent
    PROVE  CoveredDuration({e \in sent : Counts(e)}, b) = Cardinality(MissedIn(sent, b))
<1>1. PICK counted : counted = {e \in sent : Counts(e)}
  OBVIOUS
<1>2. IsFiniteSet(counted) /\ \A i \in counted : IsInterval(i)
  BY <1>1, ReportAssumption, FS_Subset
<1>3. MissedIn(sent, b) = Here(b, counted)
  BY <1>1 DEF MissedIn, Here
<1> QED BY <1>1, <1>2, <1>3, BucketsAreIntervals, CoveredMoments

LEMMA BucketIsSafe ==
    ASSUME NEW students, NEW group \in SUBSET students,
           NEW records \in [students -> Histories], NEW events \in [students -> Sent],
           NEW b \in Buckets, Bucket(group, records, events, b).observed > 0
    PROVE  CountsGroup(Bucket(group, records, events, b), group, records, events, b)
<1>1. PICK bucket : bucket = Bucket(group, records, events, b)
  OBVIOUS
<1>2. PICK seen : seen = {s \in group : SeenThroughout(records[s], b)}
  OBVIOUS
<1>3. ObservedOf(group, records, b) = seen
  BY <1>2, ObservedThroughout DEF ObservedOf
<1>4. PICK shown : shown = Shown(group, seen)
  OBVIOUS
<1>5. PICK missing : missing = {s \in seen : Cardinality(MissedIn(events[s], b))
                                               >= Min({MinSignal, Duration(b)})}
  OBVIOUS
<1>6. PICK available \in BOOLEAN : available = (shown # {} /\ Reaching(MinCoverage, shown, group))
  OBVIOUS
<1>7. /\ bucket.observed = Cardinality(shown)
      /\ bucket.status = IF ~IsGroup(group) THEN "suppressed"
                         ELSE IF available THEN "available" ELSE "insufficient_evidence"
      /\ bucket.affected = IF available THEN Cardinality(AffectedOf(shown, events, b)) ELSE 0
  BY <1>1, <1>3, <1>4, <1>6 DEF Bucket
<1>8. shown # {}
  BY <1>1, <1>7, FS_EmptySet
<1>9. shown = seen /\ IsGroup(seen)
  BY <1>4, <1>8 DEF Shown
<1>10. AffectedOf(seen, events, b) = missing
  BY <1>2, <1>5, AffectedMoments DEF AffectedOf
<1>11. bucket.status = "available" => bucket.affected = Cardinality(missing)
  BY <1>7, <1>9, <1>10
<1> QED BY <1>1, <1>2, <1>5, <1>7, <1>9, <1>11 DEF CountsGroup

LEMMA FindingIsShown ==
    ASSUME NEW report, NEW d \in Findings(report, Deliveries), NEW n \in Moments(d)
    PROVE  At(n, Available(report))
<1>1. d \in Deliveries /\ CoveredDuration(Available(report), d) = Duration(d)
  BY DEF Findings
<1>2. IsFiniteSet(Available(report)) /\ \A i \in Available(report) : IsInterval(i)
  BY BucketsAreIntervals, FS_Subset DEF Available
<1> QED BY <1>1, <1>2, ReportAssumption, CoveredAll

LEMMA EveryReportSafe == ASSUME NEW students PROVE EveryReportIsSafe(students)
<1> SUFFICES ASSUME NEW records \in [students -> Histories], NEW events \in [students -> Sent],
                    NEW group \in SUBSET students
             PROVE  ReportIsSafe(Report(group, records, events), group, records, events)
  BY DEF EveryReportIsSafe
<1>1. PICK report : report = Report(group, records, events)
  OBVIOUS
<1>2. ASSUME NEW b \in Buckets, report[b].observed > 0
      PROVE  CountsGroup(report[b], group, records, events, b)
  <2>1. report[b] = Bucket(group, records, events, b)
    BY <1>1 DEF Report
  <2> QED BY <1>2, <2>1, BucketIsSafe
<1> QED BY <1>1, <1>2, FindingIsShown DEF ReportIsSafe

(* Whatever is recorded and sent of a lecture, a bucket that counts anyone *)
(* counts a group of students who were observed in all of it, and a        *)
(* finding lies within the buckets that are shown.                         *)
THEOREM ReportsCountGroups == Spec => []ReportsAreSafe
<1>1. ReportsAreSafe
  BY EveryReportSafe DEF ReportsAreSafe, Safe
<1> QED BY <1>1, PTL

=============================================================================
