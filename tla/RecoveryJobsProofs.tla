-------------------------- MODULE RecoveryJobsProofs --------------------------
(***************************************************************************)
(* Why recovery jobs answer what was asked, with consent, and once per key.*)
(* execution_lock is the whole argument: a request that runs holds it      *)
(* (Serial), so what a job has read of the consents, the keys and the      *)
(* cards of its session is still so when it writes (Keyed, Stored,         *)
(* Completed, Unrevoked), and a job is attributed to one student before    *)
(* anyone can be answered with it (Attributed). Faults and restarts end    *)
(* the job where it stands, which leaves a card that no job completed and  *)
(* no cache entry names, or a key whose job never finishes, but no wrong   *)
(* answer. What a job is about is the merging of RecoveryContext, whose    *)
(* parts are followed through its recursion (Joined) at the end.           *)
(***************************************************************************)
EXTENDS RecoveryJobs, FiniteSetTheorems, SequenceTheorems, WellFoundedInduction, TLAPS

Generated == {"generating", "caching", "completing"}
Bound == Generated \cup {"reading", "returning"}
Uncarded == {"idle", "waiting", "binding", "reading", "generating"}

(* What a request carries, by where it is.                                 *)
Asking(p) ==
    /\ proc[p].at # "idle" => proc[p].s \in Students /\ proc[p].i \in IntervalsAsked
    /\ proc[p].at \in Generated => proc[p].window \in Windows

(* Who runs holds the lock, has the consent it needs, and owns its job.    *)
Serial(p) ==
    Running(p) =>
        /\ lock = p
        /\ live => proc[p].s \in consent
        /\ jobs[p].by = proc[p].s

(* A key leads to nothing until its job is bound, and to that job then.    *)
KeyOf(p) == <<proc[p].s, proc[p].key>>

Keyed(p) ==
    /\ proc[p].at = "done" => proc[p].answer \in Requests
    /\ proc[p].key # None =>
          /\ proc[p].at = "binding" => bound[KeyOf(p)] = None
          /\ proc[p].at \in Bound => bound[KeyOf(p)] = p
          /\ proc[p].at = "done" => bound[KeyOf(p)] = proc[p].answer

(* A card is stored before the cache or a job names it, and never again.   *)
CardFor(s, window) == [owner |-> s, window |-> window]

Stored(p) ==
    /\ proc[p].at \in Uncarded => cards[p] = NoCard
    /\ proc[p].at \in {"caching", "completing"} =>
          cards[p] = CardFor(proc[p].s, proc[p].window)

Completed(p) ==
    jobs[p].status = "completed" =>
        /\ proc[p].at \in {"returning", "done", "error"}
        /\ jobs[p].by \in Students /\ jobs[p].card \in Requests
        /\ cards[jobs[p].card] = CardFor(jobs[p].by, proc[p].window)

(* What was generated before a revocation is a card that no entry names.   *)
Unrevoked(p) ==
    /\ p \in revoked => cards[p] # NoCard
    /\ proc[p].at = "caching" => p \notin revoked

Sound(p) == Serial(p) /\ Keyed(p) /\ Stored(p) /\ Completed(p) /\ Unrevoked(p)

CachedCards ==
    \A s \in Students, w \in Windows :
        /\ cache[<<s, w>>] # None => cards[cache[<<s, w>>]] = CardFor(s, w)
        /\ cache[<<s, w>>] \notin revoked

Typed == TypeOK /\ \A p \in Requests : Asking(p)
JobsInv == Typed /\ CachedCards /\ \A p \in Requests : Sound(p)

-----------------------------------------------------------------------------
(* Facts about the records of the state.                                   *)
LEMMA IdleTyped == Idle \in ProcType /\ Idle.at = "idle"
BY DEF Idle, ProcType, Points

LEMMA NoneApart ==
    /\ \A s \in Students : s # None
    /\ \A k \in Keys : k # None
    /\ \A p \in Requests : p # None
BY ConstantsAssumption

LEMMA CardTyped ==
    ASSUME NEW s \in Students, NEW w \in Windows
    PROVE  CardFor(s, w) \in CardType /\ CardFor(s, w).owner = s /\ CardFor(s, w) # NoCard
<1>1. CardFor(s, w) \in CardType /\ CardFor(s, w).owner = s
  BY DEF CardFor, CardType
<1>2. NoCard.owner = None
  BY DEF NoCard
<1> QED BY <1>1, <1>2, NoneApart

LEMMA WindowTyped ==
    ASSUME NEW v \in Versions, NEW i \in IntervalsAsked
    PROVE  WindowOf[v][i] \in Windows
BY DEF WindowOf, Windows

LEMMA FirstVersion == 1 \in Versions
BY ConstantsAssumption DEF Versions

LEMMA JobsTyped ==
    ASSUME NEW job \in JobType
    PROVE  /\ NoJob \in JobType
           /\ \A card \in Requests, hit \in BOOLEAN :
                 [job EXCEPT !.status = "completed", !.card = card, !.hit = hit] \in JobType
           /\ \A reason \in {"missing_context", "provider"} :
                 [job EXCEPT !.status = "failed", !.failure = reason] \in JobType
           /\ \A s \in Students, k \in Keys \cup {None} :
                 [NoJob EXCEPT !.status = "queued", !.by = s, !.key = k] \in JobType
           /\ [job EXCEPT !.status = "running"] \in JobType
           /\ [job EXCEPT !.status = @] \in JobType
BY DEF JobType, NoJob, Statuses

LEMMA ProcTyped ==
    ASSUME NEW r \in ProcType
    PROVE  /\ \A at \in Points : [r EXCEPT !.at = at] \in ProcType
           /\ \A at \in Points, w \in Windows :
                 [r EXCEPT !.at = at, !.window = w] \in ProcType
           /\ \A at \in Points, p \in Requests :
                 [r EXCEPT !.at = at, !.answer = p] \in ProcType
BY DEF ProcType

-----------------------------------------------------------------------------
(* A step of one request.                                                  *)
LEMMA OneRequest ==
    ASSUME Typed, NEW p \in Requests, NEW r \in ProcType,
           proc' = [proc EXCEPT ![p] = r],
           r.at # "idle" => r.s \in Students /\ r.i \in IntervalsAsked,
           r.at \in Generated => r.window \in Windows
    PROVE  /\ proc' \in [Requests -> ProcType]
           /\ \A q \in Requests : Asking(q)'
           /\ proc'[p] = r
           /\ \A q \in Requests : q # p => proc'[q] = proc[q]
<1>1. proc \in [Requests -> ProcType]
  BY DEF Typed, TypeOK
<1>2. proc' \in [Requests -> ProcType]
  BY <1>1
<1>3. proc'[p] = r /\ \A q \in Requests : q # p => proc'[q] = proc[q]
  BY <1>1
<1>4. ASSUME NEW q \in Requests PROVE Asking(q)'
  <2>1. CASE q = p
    BY <2>1, <1>3 DEF Asking
  <2>2. CASE q # p
    BY <2>2, <1>3 DEF Asking, Typed
  <2> QED BY <2>1, <2>2
<1> QED BY <1>2, <1>3, <1>4

LEMMA RunsAlone ==
    ASSUME JobsInv, NEW p \in Requests, lock \in {p, None}
    PROVE  \A q \in Requests : q # p => ~Running(q)
BY NoneApart DEF JobsInv, Sound, Serial

(* A request that does not run changes nothing but itself.                 *)
LEMMA OutsideStep ==
    ASSUME JobsInv, NEW p \in Requests, NEW r \in ProcType,
           proc' = [proc EXCEPT ![p] = r],
           UNCHANGED <<durable, live, transcript, consent, jobs, cards, cache, bound,
                       lock, revoked>>,
           owners' \in [Requests -> Students \cup {None}],
           proc[p].at \in {"idle", "waiting"}, r.at \in {"waiting", "refused", "done"},
           r.s \in Students /\ r.i \in IntervalsAsked,
           r.at = "waiting" => proc[p].at = "idle",
           r.at = "done" => /\ r.answer \in Requests
                            /\ r.key # None => bound[<<r.s, r.key>>] = r.answer
    PROVE  JobsInv'
<1> USE DEF JobsInv
<1>1. /\ proc' \in [Requests -> ProcType]
      /\ \A q \in Requests : Asking(q)'
      /\ proc'[p] = r /\ \A q \in Requests : q # p => proc'[q] = proc[q]
  BY OneRequest DEF Generated
<1>2. Typed'
  BY <1>1 DEF Typed, TypeOK, Versions
<1>3. CachedCards'
  BY DEF CachedCards
<1>4. ASSUME NEW q \in Requests, q # p PROVE Sound(q)'
  <2>1. proc'[q] = proc[q] /\ Sound(q)
    BY <1>1, <1>4
  <2> QED BY <2>1 DEF Sound, Serial, Running, Keyed, KeyOf, Stored, Completed, Unrevoked
<1>5. Sound(p)'
  <2>1. Sound(p)
    OBVIOUS
  <2>2. Serial(p)' /\ Keyed(p)'
    BY <1>1 DEF Serial, Running, Keyed, KeyOf, Bound, Generated
  <2>3. Stored(p)' /\ Unrevoked(p)'
    BY <1>1, <2>1 DEF Sound, Stored, Unrevoked, Uncarded
  <2>4. Completed(p)'
    BY <2>1 DEF Sound, Completed
  <2> QED BY <2>2, <2>3, <2>4 DEF Sound
<1> QED BY <1>2, <1>3, <1>4, <1>5

(* A request that runs, or begins to, leaves what holds of the others: it  *)
(* writes its own job, a card that nobody names, and a key of no request.  *)
LEMMA OthersKept ==
    ASSUME JobsInv, NEW p \in Requests, lock \in {p, None},
           UNCHANGED <<live, consent, revoked>>,
           \A q \in Requests : q # p => proc'[q] = proc[q] /\ jobs'[q] = jobs[q],
           cards' = cards \/ cards[p] = NoCard,
           \A q \in Requests : q # p => cards'[q] = cards[q],
           \A s \in Students, k \in Keys :
              bound'[<<s, k>>] = bound[<<s, k>>] \/ bound[<<s, k>>] = None
    PROVE  /\ \A q \in Requests : q # p => Sound(q)'
           /\ cache' = cache => CachedCards'
<1> USE DEF JobsInv
<1>1. \A c \in Requests, s \in Students, w \in Windows :
         cards[c] = CardFor(s, w) => cards'[c] = cards[c]
  BY CardTyped
<1>2. ASSUME NEW q \in Requests, q # p PROVE Sound(q)'
  <2>1. Sound(q) /\ Asking(q) /\ proc'[q] = proc[q] /\ jobs'[q] = jobs[q] /\ cards'[q] = cards[q]
    BY <1>2 DEF Typed
  <2>2. ~Running(q)
    BY <1>2, RunsAlone
  <2>3. proc[q] \in ProcType
    BY DEF Typed, TypeOK
  <2>4. proc[q].at \notin {"binding", "reading", "generating", "caching", "completing", "returning"}
    BY <2>2 DEF Running
  <2>5. Serial(q)'
    BY <2>1, <2>4 DEF Serial, Running
  <2>6. Keyed(q)'
    <3>1. CASE proc[q].at = "done" /\ proc[q].key # None
      <4>1. proc[q].answer \in Requests /\ bound[KeyOf(q)] = proc[q].answer
        BY <2>1, <3>1 DEF Sound, Keyed
      <4>2. proc[q].s \in Students /\ proc[q].key \in Keys
        BY <2>1, <2>3, <3>1 DEF Asking, ProcType
      <4>3. bound'[<<proc[q].s, proc[q].key>>] = bound[<<proc[q].s, proc[q].key>>]
        BY <4>1, <4>2, NoneApart DEF KeyOf
      <4> QED BY <4>1, <4>3, <2>1, <3>1 DEF Keyed, KeyOf, Bound, Generated
    <3>2. CASE ~(proc[q].at = "done" /\ proc[q].key # None)
      BY <3>2, <2>1, <2>4 DEF Sound, Keyed, Bound, Generated
    <3> QED BY <3>1, <3>2
  <2>7. Stored(q)' /\ Unrevoked(q)'
    BY <2>1 DEF Sound, Stored, Unrevoked
  <2>8. Completed(q)'
    <3> SUFFICES ASSUME jobs[q].status = "completed"
                 PROVE  /\ proc[q].at \in {"returning", "done", "error"}
                        /\ jobs[q].by \in Students /\ jobs[q].card \in Requests
                        /\ cards'[jobs[q].card] = CardFor(jobs[q].by, proc[q].window)
      BY <2>1 DEF Completed
    <3>1. /\ proc[q].at \in {"returning", "done", "error"}
          /\ jobs[q].by \in Students /\ jobs[q].card \in Requests
          /\ cards[jobs[q].card] = CardFor(jobs[q].by, proc[q].window)
      BY <2>1 DEF Sound, Completed
    <3>2. CardFor(jobs[q].by, proc[q].window) # NoCard
      BY <3>1, NoneApart DEF CardFor, NoCard
    <3>3. cards'[jobs[q].card] = cards[jobs[q].card]
      BY <3>1, <3>2
    <3> QED BY <3>1, <3>3
  <2> QED BY <2>5, <2>6, <2>7, <2>8 DEF Sound
<1>3. ASSUME cache' = cache PROVE CachedCards'
  <2> SUFFICES ASSUME NEW s \in Students, NEW w \in Windows
               PROVE  /\ cache[<<s, w>>] # None => cards'[cache[<<s, w>>]] = CardFor(s, w)
                      /\ cache[<<s, w>>] \notin revoked
    BY <1>3 DEF CachedCards
  <2>1. cache[<<s, w>>] \in Requests \cup {None}
    BY DEF Typed, TypeOK, Contexts
  <2> QED BY <2>1, <1>1 DEF CachedCards
<1> QED BY <1>2, <1>3

LEMMA RunnerFacts ==
    ASSUME JobsInv, NEW p \in Requests, Running(p)
    PROVE  /\ lock = p /\ proc[p].s \in Students /\ proc[p].i \in IntervalsAsked
           /\ proc[p].key \in Keys \cup {None}
           /\ proc[p] \in ProcType /\ jobs[p] \in JobType
           /\ jobs[p].by = proc[p].s /\ (live => proc[p].s \in consent)
           /\ Sound(p)
           /\ jobs[p].status # "completed" \/ proc[p].at = "returning"
<1>1. proc[p] \in ProcType /\ jobs[p] \in JobType /\ Sound(p) /\ Asking(p)
  BY DEF JobsInv, Typed, TypeOK
<1>2. proc[p].at \in {"binding", "reading", "generating", "caching", "completing", "returning"}
  BY DEF Running
<1>3. proc[p].key \in Keys \cup {None}
  BY <1>1 DEF ProcType
<1>4. proc[p].s \in Students /\ proc[p].i \in IntervalsAsked
  BY <1>1, <1>2 DEF Asking
<1>5. jobs[p].status # "completed" \/ proc[p].at = "returning"
  BY <1>1, <1>2 DEF Sound, Completed
<1> QED BY <1>1, <1>3, <1>4, <1>5 DEF Sound, Serial

LEMMA Advance ==
    ASSUME JobsInv, NEW p \in Requests, NEW at \in Points, proc[p].at # "idle", at # "idle",
           at \in Generated => proc[p].at \in Generated,
           proc' = [proc EXCEPT ![p] = [proc[p] EXCEPT !.at = at]]
    PROVE  /\ proc' \in [Requests -> ProcType]
           /\ \A q \in Requests : Asking(q)'
           /\ \A q \in Requests : q # p => proc'[q] = proc[q]
           /\ proc'[p].at = at /\ proc'[p].s = proc[p].s /\ proc'[p].key = proc[p].key
           /\ proc'[p].window = proc[p].window /\ proc'[p].answer = proc[p].answer
<1> DEFINE r == [proc[p] EXCEPT !.at = at]
<1>1. proc[p] \in ProcType /\ Asking(p)
  BY DEF JobsInv, Typed, TypeOK
<1>2. /\ r \in ProcType /\ r.at = at /\ r.s = proc[p].s /\ r.i = proc[p].i
      /\ r.key = proc[p].key /\ r.window = proc[p].window /\ r.answer = proc[p].answer
  BY <1>1 DEF ProcType
<1>3. proc' = [proc EXCEPT ![p] = r]
  OBVIOUS
<1> HIDE DEF r
<1>4. r.at # "idle" => r.s \in Students /\ r.i \in IntervalsAsked
  BY <1>1, <1>2 DEF Asking
<1>5. r.at \in Generated => r.window \in Windows
  BY <1>1, <1>2 DEF Asking
<1> QED BY <1>2, <1>3, <1>4, <1>5, OneRequest DEF JobsInv

-----------------------------------------------------------------------------
(* The steps that need no lock, or leave it free.                          *)
LEMMA SubmitStep ==
    ASSUME JobsInv, UNCHANGED <<durable, live>>, NEW p \in Requests, NEW s \in Students,
           NEW i \in IntervalsAsked, NEW k \in Keys \cup {None}, Submit(p, s, i, k)
    PROVE  JobsInv'
<1> DEFINE r == [Idle EXCEPT !.at = "waiting", !.s = s, !.i = i, !.key = k]
<1>1. r \in ProcType /\ r.at = "waiting" /\ r.s = s /\ r.i = i
  BY DEF Idle, ProcType, Points
<1>2. /\ proc' = [proc EXCEPT ![p] = r] /\ proc[p].at = "idle"
      /\ UNCHANGED <<transcript, consent, jobs, cards, cache, bound, owners, lock, revoked>>
  BY DEF Submit
<1> HIDE DEF r
<1>3. owners' \in [Requests -> Students \cup {None}]
  BY <1>2 DEF JobsInv, Typed, TypeOK
<1> QED BY <1>1, <1>2, <1>3, OutsideStep

LEMMA RefuseStep ==
    ASSUME JobsInv, UNCHANGED <<durable, live>>, NEW p \in Requests, Refuse(p)
    PROVE  JobsInv'
<1> DEFINE r == [proc[p] EXCEPT !.at = "refused"]
<1>1. proc[p] \in ProcType /\ Asking(p) /\ proc[p].at = "waiting"
  BY DEF JobsInv, Typed, TypeOK, Refuse, MayEnter
<1>2. r \in ProcType /\ r.at = "refused" /\ r.s = proc[p].s /\ r.i = proc[p].i
  BY <1>1 DEF ProcType, Points
<1>3. /\ proc' = [proc EXCEPT ![p] = r]
      /\ UNCHANGED <<transcript, consent, jobs, cards, cache, bound, owners, lock, revoked>>
  BY DEF Refuse
<1> HIDE DEF r
<1>4. r.s \in Students /\ r.i \in IntervalsAsked
  BY <1>1, <1>2 DEF Asking
<1>5. owners' \in [Requests -> Students \cup {None}]
  BY <1>3 DEF JobsInv, Typed, TypeOK
<1> QED BY <1>1, <1>2, <1>3, <1>4, <1>5, OutsideStep

LEMMA ReplayStep ==
    ASSUME JobsInv, UNCHANGED <<durable, live>>, NEW p \in Requests, Replay(p)
    PROVE  JobsInv'
<1> DEFINE j == Earlier(p)
           r == [proc[p] EXCEPT !.at = "done", !.answer = j]
<1>1. proc[p] \in ProcType /\ Asking(p) /\ proc[p].at = "waiting"
  BY DEF JobsInv, Typed, TypeOK, Replay, MayEnter
<1>2. /\ proc' = [proc EXCEPT ![p] = r] /\ owners' = [owners EXCEPT ![j] = proc[p].s]
      /\ j # None
      /\ UNCHANGED <<transcript, consent, jobs, cards, cache, bound, lock, revoked>>
  BY DEF Replay, Owned
<1>3. proc[p].key \in Keys /\ proc[p].s \in Students /\ proc[p].i \in IntervalsAsked
  BY <1>1, <1>2 DEF Earlier, Asking, ProcType
<1>4. j = bound[<<proc[p].s, proc[p].key>>] /\ j \in Requests
  BY <1>2, <1>3, NoneApart DEF Earlier, JobsInv, Typed, TypeOK
<1> HIDE DEF j
<1>5. /\ r \in ProcType /\ r.at = "done" /\ r.s = proc[p].s /\ r.i = proc[p].i
      /\ r.key = proc[p].key /\ r.answer = j
  BY <1>1, <1>4 DEF ProcType, Points
<1> HIDE DEF r
<1>6. owners' \in [Requests -> Students \cup {None}]
  BY <1>2, <1>3, <1>4 DEF JobsInv, Typed, TypeOK
<1> QED BY <1>1, <1>2, <1>3, <1>4, <1>5, <1>6, OutsideStep

-----------------------------------------------------------------------------
(* The steps of a job, under the lock.                                     *)
LEMMA StoreJobStep ==
    ASSUME JobsInv, UNCHANGED <<durable, live>>, NEW p \in Requests, StoreJob(p)
    PROVE  JobsInv'
<1> DEFINE job == [NoJob EXCEPT !.status = "queued", !.by = proc[p].s, !.key = proc[p].key]
<1>1. /\ proc[p] \in ProcType /\ Asking(p) /\ Sound(p) /\ proc[p].at = "waiting" /\ lock = None
      /\ jobs \in [Requests -> JobType]
  BY DEF JobsInv, Typed, TypeOK, StoreJob, MayEnter
<1>2. proc[p].s \in Students /\ proc[p].key \in Keys \cup {None}
  BY <1>1 DEF Asking, ProcType
<1>3. /\ lock' = p /\ jobs' = [jobs EXCEPT ![p] = job]
      /\ proc' = [proc EXCEPT ![p] = [proc[p] EXCEPT !.at = "binding"]]
      /\ UNCHANGED <<transcript, consent, cards, cache, bound, owners, revoked>>
      /\ live => proc[p].s \in consent
      /\ Earlier(p) = None
  BY DEF StoreJob, Permitted
<1>4. job \in JobType /\ job.by = proc[p].s /\ job.status = "queued"
  BY <1>2 DEF NoJob, JobType, Statuses
<1> HIDE DEF job
<1>5. /\ proc' \in [Requests -> ProcType]
      /\ \A q \in Requests : Asking(q)'
      /\ \A q \in Requests : q # p => proc'[q] = proc[q]
      /\ proc'[p].at = "binding" /\ proc'[p].s = proc[p].s /\ proc'[p].key = proc[p].key
  BY <1>1, <1>3, Advance DEF Points, Generated
<1>6. jobs'[p] = job /\ \A q \in Requests : q # p => jobs'[q] = jobs[q]
  BY <1>1, <1>3
<1>7. Typed'
  BY <1>1, <1>3, <1>4, <1>5 DEF JobsInv, Typed, TypeOK, Versions
<1>8. CachedCards' /\ \A q \in Requests : q # p => Sound(q)'
  BY <1>1, <1>3, <1>5, <1>6, OthersKept
<1>9. Serial(p)' /\ Completed(p)'
  BY <1>3, <1>4, <1>5, <1>6 DEF Serial, Completed
<1>10. Keyed(p)'
  BY <1>3, <1>5 DEF Keyed, KeyOf, Bound, Generated, Earlier
<1>11. Stored(p)' /\ Unrevoked(p)'
  BY <1>1, <1>3, <1>5 DEF Sound, Stored, Unrevoked, Uncarded
<1>12. Sound(p)'
  BY <1>9, <1>10, <1>11 DEF Sound
<1> QED BY <1>7, <1>8, <1>12 DEF JobsInv

LEMMA BindKeyStep ==
    ASSUME JobsInv, UNCHANGED <<durable, live>>, NEW p \in Requests, BindKey(p)
    PROVE  JobsInv'
<1> DEFINE job == [jobs[p] EXCEPT !.status = IF durable THEN @ ELSE "running"]
<1>1. proc[p].at = "binding" /\ Running(p)
  BY DEF BindKey, Running
<1>2. /\ lock = p /\ proc[p].s \in Students /\ proc[p].key \in Keys \cup {None}
      /\ proc[p] \in ProcType /\ jobs[p] \in JobType /\ jobs[p].status # "completed"
      /\ jobs[p].by = proc[p].s /\ (live => proc[p].s \in consent) /\ Sound(p)
  BY <1>1, RunnerFacts
<1>3. /\ jobs' = [jobs EXCEPT ![p] = job]
      /\ proc' = [proc EXCEPT ![p] = [proc[p] EXCEPT !.at = "reading"]]
      /\ UNCHANGED <<transcript, consent, cards, cache, owners, lock, revoked>>
      /\ bound' = IF proc[p].key = None THEN bound ELSE [bound EXCEPT ![KeyOf(p)] = p]
  BY DEF BindKey, KeyOf
<1>4. job \in JobType /\ job.by = jobs[p].by /\ job.status # "completed"
  BY <1>2 DEF JobType, Statuses
<1> HIDE DEF job
<1>5. /\ proc' \in [Requests -> ProcType]
      /\ \A q \in Requests : Asking(q)'
      /\ \A q \in Requests : q # p => proc'[q] = proc[q]
      /\ proc'[p].at = "reading" /\ proc'[p].s = proc[p].s /\ proc'[p].key = proc[p].key
  BY <1>1, <1>3, Advance DEF Points, Generated
<1>6. jobs'[p] = job /\ \A q \in Requests : q # p => jobs'[q] = jobs[q]
  BY <1>3 DEF JobsInv, Typed, TypeOK
<1>7. bound \in [Students \X Keys -> Requests \cup {None}]
  BY DEF JobsInv, Typed, TypeOK
<1>8. proc[p].key # None => KeyOf(p) \in Students \X Keys /\ bound[KeyOf(p)] = None
  BY <1>1, <1>2 DEF Sound, Keyed, KeyOf
<1>9. /\ bound' \in [Students \X Keys -> Requests \cup {None}]
      /\ proc[p].key # None => bound'[KeyOf(p)] = p
      /\ \A k \in Students \X Keys : bound'[k] = bound[k] \/ bound[k] = None
  BY <1>3, <1>7, <1>8
<1>10. Typed'
  BY <1>3, <1>4, <1>5, <1>9 DEF JobsInv, Typed, TypeOK, Versions
<1>11. CachedCards' /\ \A q \in Requests : q # p => Sound(q)'
  <2>1. \A s \in Students, k \in Keys :
           bound'[<<s, k>>] = bound[<<s, k>>] \/ bound[<<s, k>>] = None
    BY <1>9
  <2> QED BY <1>2, <1>3, <1>5, <1>6, <2>1, OthersKept
<1>12. Serial(p)' /\ Completed(p)'
  BY <1>2, <1>3, <1>4, <1>5, <1>6 DEF Serial, Completed
<1>13. Keyed(p)'
  BY <1>5, <1>9 DEF Keyed, KeyOf
<1>14. Stored(p)' /\ Unrevoked(p)'
  BY <1>1, <1>2, <1>3, <1>5 DEF Sound, Stored, Unrevoked, Uncarded
<1>15. Sound(p)'
  BY <1>12, <1>13, <1>14 DEF Sound
<1> QED BY <1>10, <1>11, <1>15 DEF JobsInv

(* A step that moves a running request on and leaves the stores alone.     *)
LEMMA MoveKeeps ==
    ASSUME JobsInv, UNCHANGED <<durable, live>>, NEW p \in Requests, Running(p),
           NEW job \in JobType, job.by = jobs[p].by, jobs' = [jobs EXCEPT ![p] = job],
           proc' \in [Requests -> ProcType], \A q \in Requests : Asking(q)',
           \A q \in Requests : q # p => proc'[q] = proc[q],
           UNCHANGED <<transcript, consent, cards, cache, bound, revoked>>,
           owners' \in [Requests -> Students \cup {None}],
           lock' \in {p, None}
    PROVE  /\ Typed' /\ CachedCards' /\ jobs'[p] = job
           /\ \A q \in Requests : q # p => Sound(q)'
<1>1. lock = p
  BY RunnerFacts
<1>2. jobs'[p] = job /\ \A q \in Requests : q # p => jobs'[q] = jobs[q]
  BY DEF JobsInv, Typed, TypeOK
<1>3. Typed'
  BY DEF JobsInv, Typed, TypeOK, Versions
<1> QED BY <1>1, <1>2, <1>3, OthersKept

LEMMA SettleStep ==
    ASSUME JobsInv, UNCHANGED <<durable, live>>, NEW p \in Requests,
           proc[p].at \in {"reading", "generating", "completing"},
           NEW job \in JobType, job.by = jobs[p].by, Settle(p, job),
           job.status = "completed" =>
              job.card \in Requests /\ cards[job.card] = CardFor(proc[p].s, proc[p].window),
           UNCHANGED <<transcript, consent, cards, cache, bound, owners, lock, revoked>>
    PROVE  JobsInv'
<1>1. Running(p)
  BY DEF Running
<1>2. /\ lock = p /\ proc[p].s \in Students /\ proc[p] \in ProcType
      /\ jobs[p].by = proc[p].s /\ (live => proc[p].s \in consent) /\ Sound(p)
  BY <1>1, RunnerFacts
<1>3. /\ jobs' = [jobs EXCEPT ![p] = job]
      /\ proc' = [proc EXCEPT ![p] = [proc[p] EXCEPT !.at = "returning"]]
  BY DEF Settle
<1>4. /\ proc' \in [Requests -> ProcType]
      /\ \A q \in Requests : Asking(q)'
      /\ \A q \in Requests : q # p => proc'[q] = proc[q]
      /\ proc'[p].at = "returning" /\ proc'[p].s = proc[p].s /\ proc'[p].key = proc[p].key
      /\ proc'[p].window = proc[p].window
  BY <1>3, Advance DEF Points, Generated
<1>5. /\ Typed' /\ CachedCards' /\ jobs'[p] = job
      /\ \A q \in Requests : q # p => Sound(q)'
  <2>1. owners' \in [Requests -> Students \cup {None}]
    BY DEF JobsInv, Typed, TypeOK
  <2> QED BY <1>1, <1>2, <1>3, <1>4, <2>1, MoveKeeps
<1>6. Serial(p)' /\ Completed(p)'
  BY <1>2, <1>4, <1>5 DEF Serial, Completed
<1>7. Keyed(p)'
  BY <1>2, <1>4 DEF Sound, Keyed, KeyOf, Bound, Generated
<1>8. Stored(p)' /\ Unrevoked(p)'
  BY <1>2, <1>4 DEF Sound, Stored, Unrevoked, Uncarded
<1>9. Sound(p)'
  BY <1>6, <1>7, <1>8 DEF Sound
<1> QED BY <1>5, <1>9 DEF JobsInv

LEMMA FailedJob ==
    ASSUME JobsInv, NEW p \in Requests, NEW reason \in {"missing_context", "provider"}
    PROVE  /\ FailedFor(p, reason) \in JobType /\ FailedFor(p, reason).by = jobs[p].by
           /\ FailedFor(p, reason).status = "failed"
           /\ FailedFor(p, reason).hit = jobs[p].hit
<1>1. jobs[p] \in JobType
  BY DEF JobsInv, Typed, TypeOK
<1> QED BY <1>1 DEF FailedFor, JobType, Statuses

LEMMA CompletedJob ==
    ASSUME JobsInv, NEW p \in Requests, NEW card \in Requests, NEW hit \in BOOLEAN
    PROVE  /\ CompletedWith(p, card, hit) \in JobType
           /\ CompletedWith(p, card, hit).by = jobs[p].by
           /\ CompletedWith(p, card, hit).card = card
           /\ CompletedWith(p, card, hit).hit = hit
<1>1. jobs[p] \in JobType
  BY DEF JobsInv, Typed, TypeOK
<1> QED BY <1>1 DEF CompletedWith, JobType, Statuses

LEMMA FailureStep ==
    ASSUME JobsInv, UNCHANGED <<durable, live>>, NEW p \in Requests,
           ReadNothing(p) \/ GenerationFails(p)
    PROVE  JobsInv'
<1>1. CASE ReadNothing(p)
  BY <1>1, FailedJob, SettleStep DEF ReadNothing
<1>2. CASE GenerationFails(p)
  BY <1>2, FailedJob, SettleStep DEF GenerationFails
<1> QED BY <1>1, <1>2

(* An entry of the cache leads to a card for this student and this window. *)
LEMMA CachedCard ==
    ASSUME JobsInv, NEW p \in Requests, proc[p].at = "generating", Cached(p) # None
    PROVE  /\ Cached(p) \in Requests /\ Cached(p) \notin revoked
           /\ cards[Cached(p)] = CardFor(proc[p].s, proc[p].window)
<1> DEFINE s == proc[p].s
           w == proc[p].window
           card == cache[<<s, w>>]
<1>1. s \in Students /\ w \in Windows
  <2>1. Asking(p)
    BY DEF JobsInv, Typed
  <2> QED BY <2>1 DEF Asking, Generated
<1>2. Cached(p) = card /\ card # None
  BY DEF Cached, CacheKey, Context
<1>3. card \in Requests \cup {None}
  BY <1>1 DEF JobsInv, Typed, TypeOK, Contexts
<1>4. cards[card] = CardFor(s, w) /\ card \notin revoked
  BY <1>1, <1>2 DEF JobsInv, CachedCards
<1> QED BY <1>2, <1>3, <1>4

LEMMA CacheHitStep ==
    ASSUME JobsInv, UNCHANGED <<durable, live>>, NEW p \in Requests, CacheHit(p)
    PROVE  JobsInv'
<1> DEFINE job == CompletedWith(p, Cached(p), TRUE)
<1>1. /\ proc[p].at = "generating" /\ Cached(p) # None /\ Settle(p, job)
      /\ UNCHANGED <<transcript, consent, cards, cache, bound, owners, lock, revoked>>
  BY DEF CacheHit
<1>2. Cached(p) \in Requests /\ cards[Cached(p)] = CardFor(proc[p].s, proc[p].window)
  BY <1>1, CachedCard
<1>3. job \in JobType /\ job.by = jobs[p].by /\ job.card = Cached(p)
  BY <1>2, CompletedJob
<1> HIDE DEF job
<1> QED BY <1>1, <1>2, <1>3, SettleStep

LEMMA CompleteStep ==
    ASSUME JobsInv, UNCHANGED <<durable, live>>, NEW p \in Requests, Complete(p)
    PROVE  JobsInv'
<1> DEFINE job == CompletedWith(p, p, FALSE)
<1>1. /\ proc[p].at = "completing" /\ Settle(p, job)
      /\ UNCHANGED <<transcript, consent, cards, cache, bound, owners, lock, revoked>>
  BY DEF Complete
<1>2. cards[p] = CardFor(proc[p].s, proc[p].window)
  BY <1>1 DEF JobsInv, Sound, Stored
<1>3. job \in JobType /\ job.by = jobs[p].by /\ job.card = p
  BY CompletedJob
<1> HIDE DEF job
<1> QED BY <1>1, <1>2, <1>3, SettleStep

LEMMA ReadContextStep ==
    ASSUME JobsInv, UNCHANGED <<durable, live>>, NEW p \in Requests, ReadContext(p)
    PROVE  JobsInv'
<1> DEFINE w == WindowNow(p)
           r == [proc[p] EXCEPT !.at = "generating", !.window = w]
<1>1. proc[p].at = "reading" /\ Running(p)
  BY DEF ReadContext, Running
<1>2. /\ lock = p /\ proc[p].s \in Students /\ proc[p].i \in IntervalsAsked
      /\ proc[p] \in ProcType /\ jobs[p] \in JobType /\ jobs[p].status # "completed"
      /\ jobs[p].by = proc[p].s /\ (live => proc[p].s \in consent) /\ Sound(p)
  BY <1>1, RunnerFacts
<1>3. w \in Windows
  BY <1>2, WindowTyped DEF WindowNow, JobsInv, Typed, TypeOK
<1>4. /\ proc' = [proc EXCEPT ![p] = r]
      /\ UNCHANGED <<transcript, consent, jobs, cards, cache, bound, owners, lock, revoked>>
  BY DEF ReadContext
<1> HIDE DEF w
<1>5. /\ r \in ProcType /\ r.at = "generating" /\ r.window = w /\ r.s = proc[p].s
      /\ r.i = proc[p].i /\ r.key = proc[p].key
  BY <1>2, <1>3 DEF ProcType, Points
<1> HIDE DEF r
<1>6. /\ proc' \in [Requests -> ProcType]
      /\ \A q \in Requests : Asking(q)'
      /\ proc'[p] = r /\ \A q \in Requests : q # p => proc'[q] = proc[q]
  BY <1>2, <1>3, <1>4, <1>5, OneRequest DEF JobsInv
<1>7. Typed' /\ CachedCards' /\ \A q \in Requests : q # p => Sound(q)'
  <2>1. jobs' = [jobs EXCEPT ![p] = jobs[p]]
    BY <1>4 DEF JobsInv, Typed, TypeOK
  <2>2. owners' \in [Requests -> Students \cup {None}]
    BY <1>4 DEF JobsInv, Typed, TypeOK
  <2> QED BY <1>1, <1>2, <1>4, <1>6, <2>1, <2>2, MoveKeeps
<1>8. Serial(p)' /\ Completed(p)'
  BY <1>2, <1>4, <1>5, <1>6 DEF Serial, Completed
<1>9. Keyed(p)'
  BY <1>1, <1>2, <1>4, <1>5, <1>6 DEF Sound, Keyed, KeyOf, Bound, Generated
<1>10. Stored(p)' /\ Unrevoked(p)'
  BY <1>1, <1>2, <1>4, <1>5, <1>6 DEF Sound, Stored, Unrevoked, Uncarded
<1>11. Sound(p)'
  BY <1>8, <1>9, <1>10 DEF Sound
<1> QED BY <1>7, <1>11 DEF JobsInv

LEMMA StoreCardStep ==
    ASSUME JobsInv, UNCHANGED <<durable, live>>, NEW p \in Requests, StoreCard(p)
    PROVE  JobsInv'
<1> DEFINE card == CardFor(proc[p].s, proc[p].window)
<1>1. proc[p].at = "generating" /\ Running(p)
  BY DEF StoreCard, Running
<1>2. /\ lock = p /\ proc[p].s \in Students /\ proc[p] \in ProcType
      /\ jobs[p].status # "completed"
      /\ jobs[p].by = proc[p].s /\ (live => proc[p].s \in consent) /\ Sound(p)
  BY <1>1, RunnerFacts
<1>3. proc[p].window \in Windows
  BY <1>1 DEF JobsInv, Typed, Asking, Generated
<1>4. /\ proc' = [proc EXCEPT ![p] = [proc[p] EXCEPT !.at = "caching"]]
      /\ cards' = [cards EXCEPT ![p] = card]
      /\ UNCHANGED <<transcript, consent, jobs, cache, bound, owners, lock, revoked>>
  BY DEF StoreCard, CardFor
<1>5. card \in CardType /\ card # NoCard
  BY <1>2, <1>3, CardTyped
<1> HIDE DEF card
<1>6. cards[p] = NoCard /\ p \notin revoked
  BY <1>1, <1>2 DEF Sound, Stored, Unrevoked, Uncarded
<1>7. /\ proc' \in [Requests -> ProcType]
      /\ \A q \in Requests : Asking(q)'
      /\ \A q \in Requests : q # p => proc'[q] = proc[q]
      /\ proc'[p].at = "caching" /\ proc'[p].s = proc[p].s /\ proc'[p].key = proc[p].key
      /\ proc'[p].window = proc[p].window
  BY <1>1, <1>4, Advance DEF Points, Generated
<1>8. cards'[p] = card /\ \A q \in Requests : q # p => cards'[q] = cards[q]
  BY <1>4 DEF JobsInv, Typed, TypeOK
<1>9. Typed'
  BY <1>4, <1>5, <1>7 DEF JobsInv, Typed, TypeOK, Versions
<1>10. CachedCards' /\ \A q \in Requests : q # p => Sound(q)'
  BY <1>2, <1>4, <1>6, <1>7, <1>8, OthersKept
<1>11. Serial(p)' /\ Completed(p)'
  BY <1>2, <1>4, <1>7 DEF Serial, Completed
<1>12. Keyed(p)'
  BY <1>1, <1>2, <1>4, <1>7 DEF Sound, Keyed, KeyOf, Bound, Generated
<1>13. Stored(p)' /\ Unrevoked(p)'
  <2>1. cards'[p] = CardFor(proc'[p].s, proc'[p].window)
    BY <1>7, <1>8 DEF card
  <2> QED BY <2>1, <1>4, <1>6, <1>7 DEF Stored, Unrevoked, Uncarded
<1>14. Sound(p)'
  BY <1>11, <1>12, <1>13 DEF Sound
<1> QED BY <1>9, <1>10, <1>14 DEF JobsInv

LEMMA CacheCardStep ==
    ASSUME JobsInv, UNCHANGED <<durable, live>>, NEW p \in Requests, CacheCard(p)
    PROVE  JobsInv'
<1> DEFINE s == proc[p].s
           w == proc[p].window
<1>1. proc[p].at = "caching" /\ Running(p)
  BY DEF CacheCard, Running
<1>2. /\ lock = p /\ s \in Students /\ proc[p] \in ProcType
      /\ jobs[p] \in JobType /\ jobs[p].status # "completed"
      /\ jobs[p].by = s /\ (live => s \in consent) /\ Sound(p)
  BY <1>1, RunnerFacts
<1>3. w \in Windows
  BY <1>1 DEF JobsInv, Typed, Asking, Generated
<1>4. /\ proc' = [proc EXCEPT ![p] = [proc[p] EXCEPT !.at = "completing"]]
      /\ cache' = [cache EXCEPT ![<<s, w>>] = p]
      /\ UNCHANGED <<transcript, consent, jobs, cards, bound, owners, lock, revoked>>
  BY DEF CacheCard, CacheKey, Context
<1>5. cards[p] = CardFor(s, w) /\ p \notin revoked
  BY <1>1, <1>2 DEF Sound, Stored, Unrevoked
<1>6. /\ proc' \in [Requests -> ProcType]
      /\ \A q \in Requests : Asking(q)'
      /\ \A q \in Requests : q # p => proc'[q] = proc[q]
      /\ proc'[p].at = "completing" /\ proc'[p].s = s /\ proc'[p].key = proc[p].key
      /\ proc'[p].window = w
  BY <1>1, <1>4, Advance DEF Points, Generated
<1>7. /\ cache \in [Students \X Windows -> Requests \cup {None}]
      /\ cache' \in [Students \X Windows -> Requests \cup {None}]
  BY <1>2, <1>3, <1>4 DEF JobsInv, Typed, TypeOK, Contexts
<1>8. Typed'
  BY <1>4, <1>6, <1>7 DEF JobsInv, Typed, TypeOK, Versions, Contexts
<1>9. \A q \in Requests : q # p => Sound(q)'
  BY <1>2, <1>4, <1>6, OthersKept
<1>10. CachedCards'
  <2> SUFFICES ASSUME NEW t \in Students, NEW v \in Windows
               PROVE  /\ cache'[<<t, v>>] # None => cards[cache'[<<t, v>>]] = CardFor(t, v)
                      /\ cache'[<<t, v>>] \notin revoked
    BY <1>4 DEF CachedCards
  <2>1. CASE <<t, v>> = <<s, w>>
    <3>1. cache'[<<t, v>>] = p /\ t = s /\ v = w
      BY <2>1, <1>2, <1>3, <1>4, <1>7
    <3> QED BY <3>1, <1>5
  <2>2. CASE <<t, v>> # <<s, w>>
    <3>1. cache'[<<t, v>>] = cache[<<t, v>>]
      BY <2>2, <1>4, <1>7
    <3> QED BY <3>1 DEF JobsInv, CachedCards
  <2> QED BY <2>1, <2>2
<1>11. Serial(p)' /\ Completed(p)'
  BY <1>2, <1>4, <1>6 DEF Serial, Completed
<1>12. Keyed(p)'
  BY <1>1, <1>2, <1>4, <1>6 DEF Sound, Keyed, KeyOf, Bound, Generated
<1>13. Stored(p)' /\ Unrevoked(p)'
  BY <1>2, <1>4, <1>5, <1>6 DEF Sound, Stored, Unrevoked, Uncarded
<1>14. Sound(p)'
  BY <1>11, <1>12, <1>13 DEF Sound
<1> QED BY <1>8, <1>9, <1>10, <1>14 DEF JobsInv

(* The lock is released: with an answer, or by an error.                   *)
LEMMA LeaveStep ==
    ASSUME JobsInv, UNCHANGED <<durable, live>>, NEW p \in Requests,
           Return(p) \/ Fault(p)
    PROVE  JobsInv'
<1>1. Running(p) /\ proc[p].at # "idle"
  BY DEF Return, Fault, Running
<1>2. /\ proc[p].s \in Students /\ proc[p].key \in Keys \cup {None}
      /\ proc[p] \in ProcType /\ jobs[p] \in JobType /\ Sound(p) /\ Asking(p)
      /\ jobs[p].status # "completed" \/ proc[p].at = "returning"
  BY <1>1, RunnerFacts DEF JobsInv, Typed
<1>3. /\ lock' = None
      /\ UNCHANGED <<transcript, consent, jobs, cards, cache, bound, revoked>>
  BY DEF Return, Fault, Released
<1>4. owners' \in [Requests -> Students \cup {None}]
  <2>1. owners \in [Requests -> Students \cup {None}]
    BY DEF JobsInv, Typed, TypeOK
  <2> QED BY <2>1, <1>2 DEF Return, Fault, Owned
<1>5. /\ proc' \in [Requests -> ProcType]
      /\ \A q \in Requests : Asking(q)'
      /\ \A q \in Requests : q # p => proc'[q] = proc[q]
      /\ proc'[p].s = proc[p].s /\ proc'[p].key = proc[p].key /\ proc'[p].window = proc[p].window
      /\ \/ proc[p].at = "returning" /\ proc'[p].at = "done" /\ proc'[p].answer = p
         \/ proc'[p].at = "error"
  <2>1. CASE Return(p)
    <3> DEFINE r == [proc[p] EXCEPT !.at = "done", !.answer = p]
    <3>1. /\ r \in ProcType /\ r.at = "done" /\ r.answer = p /\ r.s = proc[p].s /\ r.i = proc[p].i
          /\ r.key = proc[p].key /\ r.window = proc[p].window
      BY <1>2 DEF ProcType, Points
    <3>2. proc' = [proc EXCEPT ![p] = r] /\ proc[p].at = "returning"
      BY <2>1 DEF Return
    <3> HIDE DEF r
    <3>3. r.s \in Students /\ r.i \in IntervalsAsked /\ r.at \notin Generated
      BY <1>1, <1>2, <3>1 DEF Asking, Generated
    <3> QED BY <3>1, <3>2, <3>3, OneRequest DEF JobsInv
  <2>2. CASE Fault(p)
    BY <2>2, <1>1, Advance DEF Fault, Points, Generated
  <2> QED BY <2>1, <2>2
<1>6. Typed' /\ CachedCards' /\ \A q \in Requests : q # p => Sound(q)'
  <2>1. jobs' = [jobs EXCEPT ![p] = jobs[p]]
    BY <1>3 DEF JobsInv, Typed, TypeOK
  <2> QED BY <1>1, <1>2, <1>3, <1>4, <1>5, <2>1, MoveKeeps
<1>7. Serial(p)'
  BY <1>5 DEF Serial, Running
<1>8. Keyed(p)'
  BY <1>2, <1>3, <1>5 DEF Sound, Keyed, KeyOf, Bound, Generated
<1>9. Stored(p)' /\ Unrevoked(p)'
  BY <1>2, <1>3, <1>5 DEF Sound, Stored, Unrevoked, Uncarded
<1>10. Completed(p)'
  BY <1>2, <1>3, <1>5 DEF Sound, Completed
<1>11. Sound(p)'
  BY <1>7, <1>8, <1>9, <1>10 DEF Sound
<1> QED BY <1>6, <1>11 DEF JobsInv

-----------------------------------------------------------------------------
(* The end of the process, the consents and the transcript.                *)
LEMMA RestartStep ==
    ASSUME JobsInv, UNCHANGED <<durable, live>>, Restart
    PROVE  JobsInv'
<1>1. /\ lock' = None /\ consent' = {} /\ owners' \in [Requests -> Students \cup {None}]
     
      /\ UNCHANGED <<transcript, jobs, cards, cache, bound, revoked>>
  BY DEF Restart
<1>2. ASSUME NEW p \in Requests
      PROVE  /\ proc'[p] \in ProcType /\ Asking(p)' /\ Sound(p)'
  <2>1. proc[p] \in ProcType /\ Asking(p) /\ Sound(p)
    BY DEF JobsInv, Typed, TypeOK
  <2>2. CASE Running(p) \/ proc[p].at = "waiting"
    <3>1. proc'[p] = [proc[p] EXCEPT !.at = "error"]
      BY <2>2 DEF Restart
    <3>2. /\ proc'[p] \in ProcType /\ proc'[p].at = "error" /\ proc'[p].s = proc[p].s
          /\ proc'[p].i = proc[p].i /\ proc'[p].window = proc[p].window
      BY <2>1, <3>1 DEF ProcType, Points
    <3>3. Asking(p)'
      BY <2>1, <2>2, <3>2 DEF Asking, Generated, Running
    <3>4. Serial(p)' /\ Keyed(p)' /\ Stored(p)'
      BY <3>2 DEF Serial, Running, Keyed, Bound, Generated, Stored, Uncarded
    <3>5. Completed(p)' /\ Unrevoked(p)'
      BY <2>1, <3>2, <1>1 DEF Sound, Completed, Unrevoked
    <3> QED BY <3>2, <3>3, <3>4, <3>5 DEF Sound
  <2>3. CASE ~(Running(p) \/ proc[p].at = "waiting")
    <3>1. proc'[p] = proc[p]
      BY <2>3 DEF Restart
    <3>2. Serial(p)'
      BY <2>3, <3>1 DEF Serial, Running
    <3>3. Keyed(p)' /\ Stored(p)' /\ Completed(p)' /\ Unrevoked(p)'
      BY <2>1, <3>1, <1>1 DEF Sound, Keyed, KeyOf, Stored, Completed, Unrevoked
    <3> QED BY <2>1, <3>1, <3>2, <3>3 DEF Sound, Asking
  <2> QED BY <2>2, <2>3
<1>3. proc' \in [Requests -> ProcType]
  <2>1. proc' = [p \in Requests |-> proc'[p]]
    BY DEF Restart
  <2> QED BY <2>1, <1>2
<1>4. Typed'
  BY <1>1, <1>2, <1>3 DEF JobsInv, Typed, TypeOK, Versions
<1>5. CachedCards'
  BY <1>1 DEF JobsInv, CachedCards
<1> QED BY <1>2, <1>4, <1>5 DEF JobsInv

(* Only the consents and the transcript change, and none is withdrawn from *)
(* a request that runs.                                                    *)
LEMMA AllowStep ==
    ASSUME JobsInv, UNCHANGED <<durable, live>>,
           (\E s \in Students : Allow(s)) \/ Transcribe
    PROVE  JobsInv'
<1>1. /\ consent \subseteq consent' /\ consent' \in SUBSET Students
      /\ UNCHANGED <<jobs, cards, cache, bound, owners, lock, proc, revoked>>
  BY DEF Allow, Transcribe, JobsInv, Typed, TypeOK
<1>2. transcript' \in Versions'
  BY ConstantsAssumption DEF Allow, Transcribe, JobsInv, Typed, TypeOK, Versions
<1>3. Typed'
  BY <1>1, <1>2 DEF JobsInv, Typed, TypeOK, Asking, Generated
<1>4. ASSUME NEW p \in Requests PROVE Sound(p)'
  <2>1. Serial(p)'
    BY <1>1 DEF JobsInv, Sound, Serial, Running
  <2> QED BY <2>1, <1>1 DEF JobsInv, Sound, Keyed, KeyOf, Stored, Completed, Unrevoked
<1>5. CachedCards'
  BY <1>1 DEF JobsInv, CachedCards
<1> QED BY <1>3, <1>4, <1>5 DEF JobsInv

(* A revocation holds the lock from the withdrawal on, so no request runs. *)
LEMMA NobodyRuns ==
    ASSUME JobsInv, lock \notin Requests
    PROVE  \A p \in Requests : ~Running(p)
BY DEF JobsInv, Sound, Serial

LEMMA RevokerApart == ASSUME NEW s \in Students PROVE s \notin Requests
BY ConstantsAssumption

(* A step with no request running that adds cards to the revoked ones only *)
(* if they exist, and takes entries of the cache away.                     *)
LEMMA RevokingStep ==
    ASSUME JobsInv, UNCHANGED <<durable, live>>, NEW s \in Students, lock \notin Requests,
           UNCHANGED <<transcript, jobs, cards, bound, owners, proc>>,
           consent' \in SUBSET Students, lock' \in Requests \cup Students \cup {None},
           revoked' \subseteq revoked \cup OwnCards(s),
           cache' \in [Contexts -> Requests \cup {None}],
           \A c \in Contexts : cache'[c] \in {cache[c], None} /\ cache'[c] \notin revoked'
    PROVE  JobsInv'
<1>1. \A p \in Requests : ~Running(p)
  BY NobodyRuns
<1>2. \A p \in OwnCards(s) : p \in Requests /\ cards[p] # NoCard
  BY NoneApart DEF OwnCards, NoCard
<1>3. Typed'
  BY <1>2 DEF JobsInv, Typed, TypeOK, Versions, Contexts, Asking
<1>4. ASSUME NEW p \in Requests PROVE Sound(p)'
  <2>1. Sound(p)
    BY DEF JobsInv
  <2>2. Serial(p)'
    BY <1>1 DEF Serial, Running
  <2>3. Keyed(p)' /\ Stored(p)' /\ Completed(p)'
    BY <2>1 DEF Sound, Keyed, KeyOf, Stored, Completed
  <2>4. Unrevoked(p)'
    BY <2>1, <1>1, <1>2 DEF Sound, Unrevoked, Running
  <2> QED BY <2>2, <2>3, <2>4 DEF Sound
<1>5. CachedCards'
  <2> SUFFICES ASSUME NEW t \in Students, NEW w \in Windows
               PROVE  /\ cache'[<<t, w>>] # None => cards[cache'[<<t, w>>]] = CardFor(t, w)
                      /\ cache'[<<t, w>>] \notin revoked'
    BY DEF CachedCards
  <2>1. <<t, w>> \in Contexts
    BY DEF Contexts
  <2>2. cache[<<t, w>>] # None => cards[cache[<<t, w>>]] = CardFor(t, w)
    BY DEF JobsInv, CachedCards
  <2> QED BY <2>1, <2>2
<1> QED BY <1>3, <1>4, <1>5 DEF JobsInv

LEMMA RevokeStep ==
    ASSUME JobsInv, UNCHANGED <<durable, live>>, NEW s \in Students, Revoke(s)
    PROVE  JobsInv'
<1>1. /\ cache \in [Contexts -> Requests \cup {None}] /\ consent \in SUBSET Students
      /\ lock \in Requests \cup Students \cup {None} /\ revoked \subseteq Requests
  BY DEF JobsInv, Typed, TypeOK
<1>2. \A c \in Contexts : cache[c] \notin revoked
  BY DEF JobsInv, CachedCards, Contexts
<1>3. None \notin revoked /\ None \notin Requests /\ s \notin Requests
  BY <1>1, NoneApart, RevokerApart
<1>4. CASE RevokeBegin(s)
  BY <1>1, <1>2, <1>3, <1>4, RevokingStep DEF RevokeBegin, MayRevoke
<1>5. CASE RevokeFault(s)
  BY <1>1, <1>2, <1>3, <1>5, RevokingStep DEF RevokeFault
<1>6. CASE RevokeDone(s)
  <2>1. \A c \in Contexts : cache[c] \notin OwnCards(s)
    BY <1>6 DEF RevokeDone, EntriesOf
  <2>2. /\ lock = s /\ lock' = None /\ revoked' = revoked \cup OwnCards(s)
        /\ UNCHANGED <<transcript, consent, jobs, cards, cache, bound, owners, proc>>
    BY <1>6 DEF RevokeDone
  <2> QED BY <1>1, <1>2, <1>3, <2>1, <2>2, RevokingStep
<1>7. ASSUME NEW c \in Contexts, DropEntry(s, c) PROVE JobsInv'
  <2>1. /\ lock = s /\ cache' = [cache EXCEPT ![c] = None]
        /\ UNCHANGED <<transcript, consent, jobs, cards, bound, owners, lock, proc, revoked>>
    BY <1>7 DEF DropEntry
  <2>2. \A d \in Contexts : cache'[d] \in {cache[d], None} /\ cache'[d] \notin revoked'
    BY <1>1, <1>2, <1>3, <2>1
  <2>3. cache' \in [Contexts -> Requests \cup {None}]
    BY <1>1, <2>1
  <2> QED BY <1>1, <1>3, <2>1, <2>2, <2>3, RevokingStep
<1> QED BY <1>4, <1>5, <1>6, <1>7 DEF Revoke

-----------------------------------------------------------------------------
LEMMA JobsInvInit == Init => JobsInv
<1> SUFFICES ASSUME Init PROVE JobsInv
  OBVIOUS
<1> USE DEF Init
<1>1. NoJob \in JobType /\ NoJob.status = "none"
  BY DEF NoJob, JobType, Statuses
<1>2. NoCard \in CardType
  BY DEF NoCard, CardType
<1>3. TypeOK
  <2>1. durable \in BOOLEAN /\ live \in BOOLEAN
    BY ConstantsAssumption
  <2> QED BY <1>1, <1>2, <2>1, IdleTyped, FirstVersion DEF TypeOK
<1>4. ASSUME NEW p \in Requests PROVE Asking(p) /\ Sound(p)
  <2>1. proc[p].at = "idle" /\ jobs[p].status = "none" /\ cards[p] = NoCard /\ revoked = {}
    BY <1>1, IdleTyped
  <2> QED BY <2>1 DEF Asking, Sound, Serial, Running, Keyed, Bound, Generated, Stored,
                      Completed, Unrevoked
<1>5. CachedCards
  BY DEF CachedCards, Contexts
<1> QED BY <1>3, <1>4, <1>5 DEF JobsInv, Typed

LEMMA JobsInvNext == JobsInv /\ [Next]_vars => JobsInv'
<1> SUFFICES ASSUME JobsInv, [Next]_vars PROVE JobsInv'
  OBVIOUS
<1>1. CASE UNCHANGED vars
  BY <1>1 DEF vars, JobsInv, Typed, TypeOK, Versions, Asking, CachedCards, Sound, Serial,
              Running, Keyed, KeyOf, Stored, Completed, Unrevoked
<1>2. CASE Next
  <2> USE <1>2 DEF Next
  <2>1. ASSUME NEW p \in Requests, NEW s \in Students, NEW i \in IntervalsAsked,
               NEW k \in Keys \cup {None}, Submit(p, s, i, k)
        PROVE  JobsInv'
    BY <2>1, SubmitStep
  <2>2. ASSUME NEW p \in Requests, Enter(p) PROVE JobsInv'
    BY <2>2, RefuseStep, ReplayStep, StoreJobStep DEF Enter
  <2>3. ASSUME NEW p \in Requests, Execute(p) PROVE JobsInv'
    BY <2>3, BindKeyStep, FailureStep, ReadContextStep, CacheHitStep, StoreCardStep,
       CacheCardStep, CompleteStep, LeaveStep DEF Execute
  <2>4. ASSUME NEW p \in Requests, Fault(p) PROVE JobsInv'
    BY <2>4, LeaveStep
  <2>5. ASSUME NEW s \in Students, Allow(s) \/ Revoke(s) PROVE JobsInv'
    BY <2>5, AllowStep, RevokeStep
  <2>6. CASE Transcribe \/ Restart
    BY <2>6, AllowStep, RestartStep
  <2> QED BY <2>1, <2>2, <2>3, <2>4, <2>5, <2>6 DEF Step
<1> QED BY <1>1, <1>2

LEMMA JobsInvAlways == Spec => []JobsInv
BY JobsInvInit, JobsInvNext, PTL DEF Spec

-----------------------------------------------------------------------------
(* Whose job it is: what is bound to the key of a student, recorded as     *)
(* owned or answered is that student's own. A job is attributed once, when *)
(* its request leaves the queue.                                           *)
Fresh == {"idle", "waiting"}

Attributed ==
    /\ \A p \in Requests : proc[p].at \in Fresh => jobs[p].by = None
    /\ \A s \in Students, k \in Keys :
          bound[<<s, k>>] # None => jobs[bound[<<s, k>>]].by = s
    /\ \A p \in Requests : owners[p] # None => jobs[p].by = owners[p]
    /\ \A p \in Requests : proc[p].at = "done" => jobs[proc[p].answer].by = proc[p].s

LEMMA AttributedKept ==
    ASSUME JobsInv, Attributed, UNCHANGED <<durable, live>>,
           \A q \in Requests : jobs'[q].by = jobs[q].by \/ proc[q].at = "waiting",
           \A q \in Requests : proc'[q].at \in Fresh =>
              proc[q].at \in Fresh /\ jobs'[q].by = jobs[q].by,
           \A s \in Students, k \in Keys :
              \/ bound'[<<s, k>>] = bound[<<s, k>>]
              \/ bound'[<<s, k>>] \in Requests /\ jobs[bound'[<<s, k>>]].by = s,
           \A q \in Requests : \/ owners'[q] \in {owners[q], None}
                               \/ owners'[q] = jobs[q].by,
           \A q \in Requests : proc'[q].at = "done" =>
              \/ proc'[q] = proc[q]
              \/ /\ proc'[q].answer \in Requests /\ proc'[q].s \in Students
                 /\ jobs[proc'[q].answer].by = proc'[q].s
    PROVE  Attributed'
<1>1. \A q \in Requests : jobs[q].by # None => jobs'[q].by = jobs[q].by
  BY DEF Attributed, Fresh
<1>2. ASSUME NEW s \in Students, NEW k \in Keys, bound'[<<s, k>>] # None
      PROVE  jobs'[bound'[<<s, k>>]].by = s
  <2>1. bound[<<s, k>>] \in Requests \cup {None}
    BY DEF JobsInv, Typed, TypeOK
  <2>2. bound'[<<s, k>>] \in Requests /\ jobs[bound'[<<s, k>>]].by = s
    BY <1>2, <2>1 DEF Attributed
  <2> QED BY <2>2, <1>1, NoneApart
<1>3. ASSUME NEW q \in Requests, owners'[q] # None PROVE jobs'[q].by = owners'[q]
  BY <1>1, <1>3 DEF Attributed
<1>4. ASSUME NEW q \in Requests, proc'[q].at = "done"
      PROVE  jobs'[proc'[q].answer].by = proc'[q].s
  <2>1. CASE proc'[q] = proc[q]
    <3>1. proc[q].s \in Students /\ proc[q].answer \in Requests
      BY <2>1, <1>4 DEF JobsInv, Typed, Asking, Sound, Keyed
    <3> QED BY <3>1, <2>1, <1>1, <1>4, NoneApart DEF Attributed
  <2> QED BY <2>1, <1>1, <1>4, NoneApart
<1>5. \A q \in Requests : proc'[q].at \in Fresh => jobs'[q].by = None
  BY DEF Attributed
<1> QED BY <1>2, <1>3, <1>4, <1>5 DEF Attributed

(* The steps that attribute nothing: who runs is past the queue, and a     *)
(* restart only forgets the owners.                                        *)
LEMMA RunAttributes ==
    ASSUME JobsInv, Attributed, UNCHANGED <<durable, live>>, NEW p \in Requests,
           Running(p), NEW r, proc' = [proc EXCEPT ![p] = r], r.at \notin Fresh \cup {"done"},
           NEW job,
           (jobs' = [jobs EXCEPT ![p] = job] /\ job.by = jobs[p].by) \/ jobs' = jobs,
           UNCHANGED <<bound, owners>>
    PROVE  Attributed'
<1>1. jobs \in [Requests -> JobType] /\ proc \in [Requests -> ProcType]
  BY DEF JobsInv, Typed, TypeOK
<1>2. \A q \in Requests : jobs'[q].by = jobs[q].by
  BY <1>1
<1>3. \A q \in Requests : q # p => proc'[q] = proc[q]
  BY <1>1
<1>4. proc'[p] = r
  BY <1>1
<1> QED BY <1>2, <1>3, <1>4, AttributedKept DEF Fresh

LEMMA AttributedNext == JobsInv /\ Attributed /\ [Next]_vars => Attributed'
<1> SUFFICES ASSUME JobsInv, Attributed, [Next]_vars PROVE Attributed'
  OBVIOUS
<1>0. jobs \in [Requests -> JobType] /\ proc \in [Requests -> ProcType]
      /\ owners \in [Requests -> Students \cup {None}]
      /\ bound \in [Students \X Keys -> Requests \cup {None}]
  BY DEF JobsInv, Typed, TypeOK
<1>1. CASE UNCHANGED <<durable, live, jobs, bound, owners, proc>>
  BY <1>1, AttributedKept DEF Fresh
<1>2. ASSUME NEW p \in Requests, NEW s \in Students, NEW i \in IntervalsAsked,
             NEW k \in Keys \cup {None}, Submit(p, s, i, k), UNCHANGED <<durable, live>>
      PROVE  Attributed'
  <2>1. \A q \in Requests : q # p => proc'[q] = proc[q]
    BY <1>0, <1>2 DEF Submit
  <2>2. proc[p].at = "idle" /\ proc'[p].at = "waiting" /\ UNCHANGED <<jobs, bound, owners>>
    BY <1>0, <1>2 DEF Submit, Idle
  <2> QED BY <1>2, <2>1, <2>2, AttributedKept DEF Fresh
<1>3. ASSUME NEW p \in Requests, Refuse(p), UNCHANGED <<durable, live>> PROVE Attributed'
  <2>1. \A q \in Requests : q # p => proc'[q] = proc[q]
    BY <1>0, <1>3 DEF Refuse
  <2>2. proc'[p].at = "refused" /\ UNCHANGED <<jobs, bound, owners>>
    BY <1>0, <1>3 DEF Refuse, ProcType
  <2> QED BY <1>3, <2>1, <2>2, AttributedKept DEF Fresh
<1>4. ASSUME NEW p \in Requests, Replay(p), UNCHANGED <<durable, live>> PROVE Attributed'
  <2> DEFINE j == Earlier(p)
  <2>1. proc[p].s \in Students /\ proc[p].key \in Keys \cup {None}
    BY <1>0, <1>4 DEF JobsInv, Typed, Asking, Replay, MayEnter, ProcType
  <2>2. proc[p].key \in Keys /\ j = bound[<<proc[p].s, proc[p].key>>] /\ j # None
    BY <1>4, <2>1 DEF Replay, Earlier
  <2>3. j \in Requests /\ jobs[j].by = proc[p].s
    BY <1>0, <2>1, <2>2 DEF Attributed
  <2>4. /\ owners' = [owners EXCEPT ![j] = proc[p].s]
        /\ proc' = [proc EXCEPT ![p] = [proc[p] EXCEPT !.at = "done", !.answer = j]]
        /\ UNCHANGED <<jobs, bound>>
    BY <1>4 DEF Replay, Owned
  <2> HIDE DEF j
  <2>5. /\ proc'[p].at = "done" /\ proc'[p].answer = j /\ proc'[p].s = proc[p].s
        /\ \A q \in Requests : q # p => proc'[q] = proc[q]
    BY <1>0, <2>4 DEF ProcType
  <2>6. \A q \in Requests : owners'[q] \in {owners[q], None} \/ owners'[q] = jobs[q].by
    BY <1>0, <2>3, <2>4
  <2> QED BY <1>4, <2>1, <2>3, <2>4, <2>5, <2>6, AttributedKept DEF Fresh
<1>5. ASSUME NEW p \in Requests, StoreJob(p), UNCHANGED <<durable, live>> PROVE Attributed'
  <2>1. /\ \A q \in Requests : q # p => proc'[q] = proc[q] /\ jobs'[q] = jobs[q]
        /\ proc[p].at = "waiting" /\ proc'[p].at = "binding" /\ UNCHANGED <<bound, owners>>
    BY <1>0, <1>5 DEF StoreJob, MayEnter, ProcType
  <2> QED BY <1>5, <2>1, AttributedKept DEF Fresh
<1>6. ASSUME NEW p \in Requests, BindKey(p), UNCHANGED <<durable, live>> PROVE Attributed'
  <2>1. Running(p) /\ proc[p].at = "binding"
    BY <1>6 DEF BindKey, Running
  <2>2. proc[p].s \in Students /\ proc[p].key \in Keys \cup {None} /\ jobs[p].by = proc[p].s
    BY <2>1, RunnerFacts
  <2>3. \A q \in Requests : jobs'[q].by = jobs[q].by
    BY <1>0, <1>6 DEF BindKey, JobType
  <2>4. /\ proc'[p].at = "reading" /\ owners' = owners
        /\ \A q \in Requests : q # p => proc'[q] = proc[q]
    BY <1>0, <1>6 DEF BindKey, ProcType
  <2>5. ASSUME NEW s \in Students, NEW k \in Keys, bound'[<<s, k>>] # bound[<<s, k>>]
        PROVE  bound'[<<s, k>>] \in Requests /\ jobs[bound'[<<s, k>>]].by = s
    <3>1. bound' = [bound EXCEPT ![<<proc[p].s, proc[p].key>>] = p]
      BY <1>6, <2>5 DEF BindKey
    <3>2. bound'[<<s, k>>] = p /\ s = proc[p].s
      BY <1>0, <2>5, <3>1
    <3> QED BY <3>2, <2>2
  <2> QED BY <1>6, <2>3, <2>4, <2>5, AttributedKept DEF Fresh
<1>7. ASSUME NEW p \in Requests, UNCHANGED <<durable, live>>,
             \/ ReadNothing(p) \/ GenerationFails(p) \/ CacheHit(p) \/ Complete(p)
      PROVE  Attributed'
  <2>1. Running(p) /\ UNCHANGED <<bound, owners>>
        /\ proc' = [proc EXCEPT ![p] = [proc[p] EXCEPT !.at = "returning"]]
    BY <1>7 DEF ReadNothing, GenerationFails, CacheHit, Complete, Settle, Running
  <2>2. [proc[p] EXCEPT !.at = "returning"].at \notin Fresh \cup {"done"}
    BY <1>0 DEF ProcType, Fresh
  <2>3. PICK job \in {FailedFor(p, "missing_context"), FailedFor(p, "provider"),
                      CompletedWith(p, Cached(p), TRUE), CompletedWith(p, p, FALSE)} :
           jobs' = [jobs EXCEPT ![p] = job]
    BY <1>7 DEF ReadNothing, GenerationFails, CacheHit, Complete, Settle
  <2>4. job.by = jobs[p].by
    BY <1>0, <2>3 DEF FailedFor, CompletedWith, JobType
  <2> QED BY <1>7, <2>1, <2>2, <2>3, <2>4, RunAttributes
<1>8. ASSUME NEW p \in Requests, UNCHANGED <<durable, live>>,
             ReadContext(p) \/ StoreCard(p) \/ CacheCard(p) \/ Fault(p)
      PROVE  Attributed'
  <2>1. Running(p) /\ UNCHANGED <<jobs, bound, owners>>
    BY <1>8 DEF ReadContext, StoreCard, CacheCard, Fault, Running
  <2>2. PICK r \in {[proc[p] EXCEPT !.at = "generating", !.window = WindowNow(p)],
                    [proc[p] EXCEPT !.at = "caching"], [proc[p] EXCEPT !.at = "completing"],
                    [proc[p] EXCEPT !.at = "error"]} :
           proc' = [proc EXCEPT ![p] = r]
    BY <1>8 DEF ReadContext, StoreCard, CacheCard, Fault
  <2>3. r.at \notin Fresh \cup {"done"}
    BY <1>0, <2>2 DEF ProcType, Fresh
  <2> QED BY <1>8, <2>1, <2>2, <2>3, RunAttributes
<1>9. ASSUME NEW p \in Requests, Return(p), UNCHANGED <<durable, live>> PROVE Attributed'
  <2>1. Running(p) /\ owners' = [owners EXCEPT ![p] = proc[p].s]
        /\ proc' = [proc EXCEPT ![p] = [proc[p] EXCEPT !.at = "done", !.answer = p]]
        /\ UNCHANGED <<jobs, bound>>
    BY <1>9 DEF Return, Running, Owned
  <2>2. proc[p].s \in Students /\ jobs[p].by = proc[p].s
    BY <2>1, RunnerFacts
  <2>3. /\ proc'[p].at = "done" /\ proc'[p].answer = p /\ proc'[p].s = proc[p].s
        /\ \A q \in Requests : q # p => proc'[q] = proc[q]
    BY <1>0, <2>1 DEF ProcType
  <2>4. \A q \in Requests : owners'[q] \in {owners[q], None} \/ owners'[q] = jobs[q].by
    BY <1>0, <2>1, <2>2
  <2> QED BY <1>9, <2>1, <2>2, <2>3, <2>4, AttributedKept DEF Fresh
<1>10. ASSUME Restart, UNCHANGED <<durable, live>> PROVE Attributed'
  <2>1. UNCHANGED <<jobs, bound>> /\ \A q \in Requests : owners'[q] = None
    BY <1>10 DEF Restart
  <2>2. ASSUME NEW q \in Requests
        PROVE  proc'[q] = proc[q] \/ proc'[q].at = "error"
    BY <1>0, <1>10 DEF Restart, ProcType
  <2> QED BY <1>10, <2>1, <2>2, AttributedKept DEF Fresh
<1>11. ASSUME UNCHANGED <<durable, live>>,
              Transcribe \/ \E s \in Students : Allow(s) \/ Revoke(s)
       PROVE  UNCHANGED <<durable, live, jobs, bound, owners, proc>>
  BY <1>11 DEF Transcribe, Allow, Revoke, RevokeBegin, DropEntry, RevokeDone, RevokeFault
<1>12. CASE UNCHANGED vars
  BY <1>1, <1>12 DEF vars
<1>13. CASE Next
  <2> USE <1>13 DEF Next
  <2>1. ASSUME NEW p \in Requests, Enter(p) PROVE Attributed'
    BY <2>1, <1>3, <1>4, <1>5 DEF Enter
  <2>2. ASSUME NEW p \in Requests, Execute(p) PROVE Attributed'
    BY <2>2, <1>6, <1>7, <1>8, <1>9 DEF Execute
  <2>3. ASSUME NEW p \in Requests, Fault(p) PROVE Attributed'
    BY <2>3, <1>8
  <2>4. CASE Transcribe \/ \E s \in Students : Allow(s) \/ Revoke(s)
    BY <2>4, <1>1, <1>11
  <2> QED BY <2>1, <2>2, <2>3, <2>4, <1>2, <1>10 DEF Step
<1> QED BY <1>12, <1>13

LEMMA AttributedAlways == Spec => []Attributed
<1>1. Init => Attributed
  <2> SUFFICES ASSUME Init PROVE Attributed
    OBVIOUS
  <2>1. \A p \in Requests : jobs[p].by = None /\ owners[p] = None /\ proc[p].at = "idle"
    BY IdleTyped DEF Init, NoJob
  <2>2. \A s \in Students, k \in Keys : bound[<<s, k>>] = None
    BY DEF Init
  <2> QED BY <2>1, <2>2 DEF Attributed
<1> QED BY <1>1, AttributedNext, JobsInvAlways, PTL DEF Spec

-----------------------------------------------------------------------------
(* Type correctness, for any students, requests, windows and drafts.       *)
THEOREM TypeCorrect == Spec => []TypeOK
<1>1. JobsInv => TypeOK
  BY DEF JobsInv, Typed
<1> QED BY <1>1, JobsInvAlways, PTL

(* Text is with a provider only while its student allows it: running under *)
(* execution_lock keeps the consent that was checked.                      *)
THEOREM ConsentedGeneration == Spec => []GeneratesWithConsent
<1>1. JobsInv => GeneratesWithConsent
  BY DEF JobsInv, Sound, Serial, Running, GeneratesWithConsent
<1> QED BY <1>1, JobsInvAlways, PTL

(* A completed job has a card of its student for the window it has read,   *)
(* out of the cache or generated, across faults and restarts, and of the   *)
(* students only the one who is answered with the job may read either.     *)
THEOREM OwnCard == Spec => []CardsAnswerTheirJob
<1>1. JobsInv /\ Attributed => CardsAnswerTheirJob
  <2> SUFFICES ASSUME JobsInv, Attributed, NEW p \in Requests
               PROVE  /\ jobs[p].status = "completed" =>
                            cards[jobs[p].card] = CardFor(jobs[p].by, proc[p].window)
                      /\ proc[p].at = "done" => \A s \in Students :
                            /\ MayReadJob(s, proc[p].answer) => s = proc[p].s
                            /\ jobs[proc[p].answer].status = "completed" =>
                                  (MayReadCard(s, jobs[proc[p].answer].card) <=> s = proc[p].s)
    BY DEF CardsAnswerTheirJob, CardFor
  <2>1. \A q \in Requests : Completed(q)
    BY DEF JobsInv, Sound
  <2>2. ASSUME proc[p].at = "done", NEW s \in Students
        PROVE  /\ MayReadJob(s, proc[p].answer) => s = proc[p].s
               /\ jobs[proc[p].answer].status = "completed" =>
                     (MayReadCard(s, jobs[proc[p].answer].card) <=> s = proc[p].s)
    <3>1. proc[p].answer \in Requests /\ jobs[proc[p].answer].by = proc[p].s
      BY <2>2 DEF JobsInv, Sound, Keyed, Attributed
    <3>2. MayReadJob(s, proc[p].answer) => s = proc[p].s
      BY <3>1, NoneApart DEF MayReadJob, Attributed
    <3>3. ASSUME jobs[proc[p].answer].status = "completed"
          PROVE  MayReadCard(s, jobs[proc[p].answer].card) <=> s = proc[p].s
      <4>1. \E w : cards[jobs[proc[p].answer].card] = CardFor(proc[p].s, w)
        BY <2>1, <3>1, <3>3 DEF Completed
      <4>2. proc[p].s \in Students
        BY <2>2 DEF JobsInv, Typed, Asking
      <4> QED BY <4>1, <4>2, NoneApart DEF MayReadCard, CardFor, NoCard
    <3> QED BY <3>2, <3>3
  <2> QED BY <2>1, <2>2 DEF Completed
<1> QED BY <1>1, JobsInvAlways, AttributedAlways, PTL

(* Every answer to a key is the job that the store has bound it to.        *)
THEOREM OneJobPerKey == Spec => []OneAnswerPerKey
<1>1. JobsInv => OneAnswerPerKey
  <2> SUFFICES ASSUME JobsInv, NEW p \in Requests, NEW q \in Requests,
                      proc[p].at = "done", proc[q].at = "done",
                      proc[p].key # None, proc[p].key = proc[q].key, proc[p].s = proc[q].s
               PROVE  proc[p].answer = proc[q].answer
    BY DEF OneAnswerPerKey
  <2>1. Keyed(p) /\ Keyed(q)
    BY DEF JobsInv, Sound
  <2>2. bound[KeyOf(p)] = proc[p].answer /\ bound[KeyOf(q)] = proc[q].answer
    BY <2>1 DEF Keyed
  <2> QED BY <2>2 DEF KeyOf
<1> QED BY <1>1, JobsInvAlways, PTL

LEMMA HitStep ==
    ASSUME JobsInv, [Next]_vars, NEW p \in Requests, jobs'[p].hit, ~jobs[p].hit
    PROVE  jobs'[p].card \notin revoked
<1>1. jobs \in [Requests -> JobType]
  BY DEF JobsInv, Typed, TypeOK
<1>2. jobs' # jobs
  OBVIOUS
<1>3. ASSUME NEW q \in Requests, NEW job, jobs' = [jobs EXCEPT ![q] = job],
             job.hit = FALSE \/ job.hit = jobs[q].hit
      PROVE  FALSE
  BY <1>1, <1>3
<1>4. ASSUME NEW q \in Requests, Enter(q) \/ Execute(q)
      PROVE  CacheHit(q)
  <2>1. ASSUME NEW reason \in {"missing_context", "provider"}, Settle(q, FailedFor(q, reason))
        PROVE  FALSE
    BY <2>1, <1>3, FailedJob DEF Settle
  <2>2. ~Complete(q)
    BY <1>3, CompletedJob DEF Complete, Settle
  <2>3. ~StoreJob(q)
    <3> DEFINE job == [NoJob EXCEPT !.status = "queued", !.by = proc[q].s, !.key = proc[q].key]
    <3>1. job.hit = FALSE
      BY DEF NoJob
    <3> HIDE DEF job
    <3>2. StoreJob(q) => jobs' = [jobs EXCEPT ![q] = job]
      BY DEF StoreJob, job
    <3> QED BY <3>1, <3>2, <1>3
  <2>4. ~BindKey(q)
    <3> DEFINE job == [jobs[q] EXCEPT !.status = IF durable THEN @ ELSE "running"]
    <3>1. job.hit = jobs[q].hit
      BY <1>1 DEF JobType
    <3> HIDE DEF job
    <3>2. BindKey(q) => jobs' = [jobs EXCEPT ![q] = job]
      BY DEF BindKey, job
    <3> QED BY <3>1, <3>2, <1>3
  <2>5. ~ReadNothing(q) /\ ~GenerationFails(q)
    BY <2>1 DEF ReadNothing, GenerationFails
  <2>6. ~Refuse(q) /\ ~Replay(q) /\ ~ReadContext(q) /\ ~StoreCard(q) /\ ~CacheCard(q) /\ ~Return(q)
    BY <1>2 DEF Refuse, Replay, ReadContext, StoreCard, CacheCard, Return
  <2> QED BY <1>4, <2>2, <2>3, <2>4, <2>5, <2>6 DEF Enter, Execute
<1>5. \E q \in Requests : CacheHit(q)
  BY <1>2, <1>4 DEF Next, Step, vars, Submit, Fault, Allow, Revoke, RevokeBegin,
                      DropEntry, RevokeDone, RevokeFault, Transcribe, Restart
<1>6. PICK q \in Requests : CacheHit(q)
  BY <1>5
<1> DEFINE job == CompletedWith(q, Cached(q), TRUE)
<1>7. jobs' = [jobs EXCEPT ![q] = job] /\ proc[q].at = "generating" /\ Cached(q) # None
  BY <1>6 DEF CacheHit, Settle
<1>8. Cached(q) \in Requests /\ Cached(q) \notin revoked
  BY <1>7, CachedCard
<1>9. job.card = Cached(q)
  BY <1>8, CompletedJob
<1> HIDE DEF job
<1> QED BY <1>1, <1>7, <1>8, <1>9

(* No job that completes from the cache names a card from before an        *)
(* answered revocation: update_external_consent deletes the entries one by *)
(* one under the lock, and answers when none is left.                      *)
THEOREM RevocationHolds == Spec => RevokedNotReused
<1>1. JobsInv /\ [Next]_vars =>
        [\A p \in Requests : jobs'[p].hit /\ ~jobs[p].hit => jobs'[p].card \notin revoked]_vars
  BY HitStep
<1> QED BY <1>1, JobsInvAlways, PTL DEF Spec, RevokedNotReused

-----------------------------------------------------------------------------
(* The merging of RecoveryContext, for a lecture of any length and any     *)
(* number of events. Numbers first: a set of them has a least one, and one *)
(* that has 0 and the next of each of its members has all.                 *)
LEMMA LeastNatural ==
    ASSUME NEW S \in SUBSET Nat, S # {}
    PROVE  \E m \in S : \A n \in S : m <= n
<1>1. PICK R : R = {pair \in Nat \X Nat : pair[1] < pair[2]}
  OBVIOUS
<1>2. IsWellFoundedOn(R, Nat)
  BY <1>1, NatLessThanWellFounded DEF OpToRel
<1>3. PICK m \in S : \A n \in S : <<n, m>> \notin R
  BY <1>2, WFMin
<1>4. ASSUME NEW n \in S, n < m PROVE FALSE
  <2>1. <<n, m>> \in Nat \X Nat /\ <<n, m>>[1] = n /\ <<n, m>>[2] = m
    OBVIOUS
  <2>2. <<n, m>> \in R
    BY <1>1, <1>4, <2>1
  <2> QED BY <1>3, <2>2
<1> QED BY <1>4

LEMMA InductiveSet ==
    ASSUME NEW A, 0 \in A, \A n \in Nat : n \in A => n + 1 \in A
    PROVE  \A n \in Nat : n \in A
<1> SUFFICES ASSUME NEW n \in Nat \ A PROVE FALSE
  OBVIOUS
<1>1. PICK m \in Nat \ A : \A k \in Nat \ A : m <= k
  BY LeastNatural
<1>2. m # 0 /\ m - 1 \in Nat /\ (m - 1) + 1 = m
  OBVIOUS
<1>3. m - 1 \in A
  BY <1>1, <1>2
<1> QED BY <1>2, <1>3

(* Some interval comes before all others, however many there are.          *)
LEMMA EarliestFirst ==
    ASSUME NEW S \in SUBSET Intervals, S # {}
    PROVE  Earliest(S) \in S /\ \A j \in S : Earliest(S).from <= j.from
<1>1. \A i \in S : i.from \in Nat /\ i.to \in Nat
  BY ContextAssumption DEF Intervals
<1>2. PICK i \in S : \A j \in S : i.from <= j.from
  <2>1. PICK m \in {i.from : i \in S} : \A n \in {i.from : i \in S} : m <= n
    BY <1>1, LeastNatural
  <2> QED BY <2>1
<1>3. PICK T : T = {j \in S : j.from = i.from}
  OBVIOUS
<1>4. PICK k \in T : \A j \in T : k.to <= j.to
  <2>1. PICK m \in {j.to : j \in T} : \A n \in {j.to : j \in T} : m <= n
    <3>1. {j.to : j \in T} \subseteq Nat /\ {j.to : j \in T} # {}
      BY <1>1, <1>2, <1>3
    <3> QED BY <3>1, LeastNatural
  <2> QED BY <2>1
<1>5. ASSUME NEW j \in S PROVE k = j \/ Before(k, j)
  <2>1. k \in Intervals /\ j \in Intervals /\ k.from = i.from /\ k \in S
    BY <1>3, <1>4
  <2>2. CASE j \in T
    <3>1. j.from = k.from /\ (k.to < j.to \/ k.to = j.to)
      BY <1>1, <1>3, <1>4, <2>1, <2>2
    <3>2. k.to = j.to => k = j
      BY <2>1, <3>1 DEF Intervals
    <3> QED BY <3>1, <3>2 DEF Before
  <2>3. CASE j \notin T
    BY <1>1, <1>2, <1>3, <2>1, <2>3 DEF Before
  <2> QED BY <2>2, <2>3
<1>6. Earliest(S) \in S /\ \A j \in S : Earliest(S) = j \/ Before(Earliest(S), j)
  <2>1. k \in S
    BY <1>3
  <2> QED BY <1>5, <2>1 DEF Earliest
<1> QED BY <1>1, <1>6 DEF Before

(* What has been merged when some intervals are left: the parts are apart  *)
(* and in order, whatever is left begins in the last of them or later,     *)
(* each interval taken lies in a part, and the parts are made of them.     *)
Inside(i, part) == part.from <= i.from /\ i.to <= part.to

Apart(parts) == \A m, n \in DOMAIN parts : m < n => parts[m].to < parts[n].from

MadeOf(part, taken) ==
    /\ \A t \in Nat : Within(t, part) => \E i \in taken : Within(t, i)
    /\ \E i \in taken : i.from = part.from
    /\ \E i \in taken : i.to = part.to

Joined(parts, left, taken) ==
    /\ parts \in Seq(Intervals) /\ Apart(parts)
    /\ \A i \in left, n \in DOMAIN parts : parts[n].from <= i.from
    /\ \A i \in taken : \E n \in DOMAIN parts : Inside(i, parts[n])
    /\ \A n \in DOMAIN parts : MadeOf(parts[n], taken)

LEMMA MadeOfMore ==
    ASSUME NEW part, NEW taken, NEW i, MadeOf(part, taken)
    PROVE  MadeOf(part, taken \cup {i})
BY DEF MadeOf

LEMMA ExtendedLast ==
    ASSUME NEW last \in Intervals, NEW i \in Intervals, NEW taken, MadeOf(last, taken),
           last.from <= i.from, Continues(i, last)
    PROVE  /\ Extended(last, i) \in Intervals /\ Extended(last, i).from = last.from
           /\ Inside(i, Extended(last, i)) /\ Inside(last, Extended(last, i))
           /\ MadeOf(Extended(last, i), taken \cup {i})
<1>1. PICK e : e = Extended(last, i)
  OBVIOUS
<1>2. /\ last.from \in Nat /\ last.to \in Nat /\ i.from \in Nat /\ i.to \in Nat
      /\ last.from < last.to /\ i.from < i.to /\ i.from <= last.to
  BY ContextAssumption DEF Intervals, Continues
<1>3. e \in Intervals /\ e.from = last.from /\ e.to = IF i.to > last.to THEN i.to ELSE last.to
  BY <1>1, <1>2 DEF Extended, Intervals
<1>4. Inside(i, e) /\ Inside(last, e)
  BY <1>2, <1>3 DEF Inside
<1>5. MadeOf(e, taken \cup {i})
  <2>1. ASSUME NEW t \in Nat, Within(t, e) PROVE \E j \in taken \cup {i} : Within(t, j)
    <3>1. Within(t, last) \/ Within(t, i)
      BY <1>2, <1>3, <2>1 DEF Within
    <3> QED BY <3>1 DEF MadeOf
  <2>2. \E j \in taken \cup {i} : j.from = e.from
    BY <1>3 DEF MadeOf
  <2>3. \E j \in taken \cup {i} : j.to = e.to
    BY <1>3 DEF MadeOf
  <2> QED BY <2>1, <2>2, <2>3 DEF MadeOf
<1> QED BY <1>1, <1>3, <1>4, <1>5

LEMMA MergingJoins ==
    ASSUME NEW parts, NEW left \in SUBSET Intervals, NEW taken \in SUBSET Intervals,
           Joined(parts, left, taken), NEW i \in left, \A j \in left : i.from <= j.from
    PROVE  Joined(MergedWith(parts, i), left \ {i}, taken \cup {i})
<1>1. PICK new : new = MergedWith(parts, i)
  OBVIOUS
<1>2. parts \in Seq(Intervals) /\ i \in Intervals /\ DOMAIN parts = 1..Len(parts)
  BY DEF Joined
<1>3. \A j \in Intervals : j.from \in Nat /\ j.to \in Nat /\ j.from < j.to
  BY ContextAssumption DEF Intervals
<1>4. CASE parts # <<>> /\ Continues(i, parts[Len(parts)])
  <2>1. PICK k \in 1..Len(parts) : k = Len(parts)
    <3>1. Len(parts) \in 1..Len(parts)
      BY <1>2, <1>4, LenProperties, EmptySeq
    <3> QED BY <3>1
  <2>2. PICK e : e = Extended(parts[k], i)
    OBVIOUS
  <2>3. parts[k] \in Intervals /\ parts[k].from <= i.from /\ MadeOf(parts[k], taken)
    BY <1>2, <2>1 DEF Joined
  <2>4. /\ e \in Intervals /\ e.from = parts[k].from /\ Inside(i, e) /\ Inside(parts[k], e)
        /\ MadeOf(e, taken \cup {i})
    BY <1>2, <1>4, <2>1, <2>2, <2>3, ExtendedLast
  <2>5. new = [parts EXCEPT ![k] = e]
    BY <1>1, <1>4, <2>1, <2>2 DEF MergedWith, Last
  <2>6. /\ new \in Seq(Intervals) /\ DOMAIN new = 1..Len(parts) /\ new[k] = e
        /\ \A n \in DOMAIN new : n # k => new[n] = parts[n] /\ n < k
    BY <1>2, <2>1, <2>4, <2>5
  <2>7. Apart(new)
    BY <1>2, <1>3, <2>1, <2>4, <2>6 DEF Apart, Joined
  <2>8. \A j \in left \ {i}, n \in DOMAIN new : new[n].from <= j.from
    BY <1>2, <2>1, <2>4, <2>6 DEF Joined
  <2>9. ASSUME NEW j \in taken \cup {i} PROVE \E n \in DOMAIN new : Inside(j, new[n])
    <3>1. CASE j = i
      BY <2>1, <2>4, <2>6, <3>1
    <3>2. CASE j \in taken
      <4>1. PICK n \in DOMAIN parts : Inside(j, parts[n])
        BY <3>2 DEF Joined
      <4>2. CASE n # k
        BY <1>2, <2>6, <4>1, <4>2
      <4>3. CASE n = k
        <5>1. Inside(j, e)
          BY <1>3, <2>3, <2>4, <3>2, <4>1, <4>3 DEF Inside
        <5> QED BY <2>1, <2>6, <5>1
      <4> QED BY <4>2, <4>3
    <3> QED BY <3>1, <3>2
  <2>10. \A n \in DOMAIN new : MadeOf(new[n], taken \cup {i})
    BY <1>2, <2>4, <2>6, MadeOfMore DEF Joined
  <2> QED BY <1>1, <2>6, <2>7, <2>8, <2>9, <2>10 DEF Joined
<1>5. CASE ~(parts # <<>> /\ Continues(i, parts[Len(parts)]))
  <2>1. PICK k \in Nat : k = Len(parts)
    <3>1. Len(parts) \in Nat
      BY <1>2, LenProperties
    <3> QED BY <3>1
  <2>2. new = Append(parts, i)
    BY <1>1, <1>5 DEF MergedWith, Last
  <2>3. /\ new \in Seq(Intervals) /\ DOMAIN new = 1..(k + 1) /\ new[k + 1] = i
        /\ \A n \in 1..k : new[n] = parts[n] /\ n \in DOMAIN parts
    BY <1>2, <2>1, <2>2
  <2>4. ASSUME NEW n \in 1..k PROVE parts[n].to < i.from
    <3>1. k \in 1..k /\ parts # <<>> /\ parts[k] \in Intervals /\ parts[n] \in Intervals
      BY <1>2, <2>1, <2>4
    <3>2. parts[k].to < i.from
      BY <1>2, <1>3, <1>5, <2>1, <3>1 DEF Continues
    <3>3. n = k \/ parts[n].to < parts[k].from
      BY <2>1, <3>1, <1>2 DEF Joined, Apart
    <3> QED BY <1>2, <1>3, <3>1, <3>2, <3>3
  <2>5. Apart(new)
    <3> SUFFICES ASSUME NEW m \in 1..(k + 1), NEW n \in 1..(k + 1), m < n
                 PROVE  new[m].to < new[n].from
      BY <2>3 DEF Apart
    <3>1. CASE n = k + 1
      BY <2>1, <2>3, <2>4, <3>1
    <3>2. CASE n # k + 1
      <4>1. m \in 1..k /\ n \in 1..k
        BY <2>1, <3>2
      <4> QED BY <2>3, <4>1 DEF Joined, Apart
    <3> QED BY <3>1, <3>2
  <2>6. ASSUME NEW j \in left \ {i}, NEW n \in DOMAIN new PROVE new[n].from <= j.from
    <3>1. CASE n = k + 1
      BY <2>3, <3>1
    <3>2. CASE n # k + 1
      <4>1. n \in 1..k
        BY <2>1, <2>3, <3>2
      <4> QED BY <2>3, <4>1 DEF Joined
    <3> QED BY <3>1, <3>2
  <2>7. ASSUME NEW j \in taken \cup {i} PROVE \E n \in DOMAIN new : Inside(j, new[n])
    <3>1. CASE j = i
      <4>1. k + 1 \in DOMAIN new
        BY <2>1, <2>3
      <4>2. Inside(i, i)
        BY <1>2, <1>3 DEF Inside
      <4> QED BY <2>3, <3>1, <4>1, <4>2
    <3>2. CASE j \in taken
      <4>1. PICK n \in DOMAIN parts : Inside(j, parts[n])
        BY <3>2 DEF Joined
      <4>2. n \in 1..k /\ n \in DOMAIN new
        BY <1>2, <2>1, <2>3
      <4> QED BY <2>3, <4>1, <4>2
    <3> QED BY <3>1, <3>2
  <2>8. ASSUME NEW n \in DOMAIN new PROVE MadeOf(new[n], taken \cup {i})
    <3>1. CASE n = k + 1
      BY <2>3, <3>1 DEF MadeOf
    <3>2. CASE n # k + 1
      <4>1. n \in 1..k
        BY <2>1, <2>3, <3>2
      <4>2. MadeOf(parts[n], taken) /\ new[n] = parts[n]
        BY <2>3, <4>1 DEF Joined
      <4> QED BY <4>2, MadeOfMore
    <3> QED BY <3>1, <3>2
  <2> QED BY <1>1, <2>3, <2>5, <2>6, <2>7, <2>8 DEF Joined
<1> QED BY <1>4, <1>5

(* The recursion of Merged: what it makes of an initial part of the steps. *)
Taking(state, n, intervals) ==
    /\ state.left \subseteq intervals
    /\ Cardinality(state.left) = Cardinality(intervals) - n
    /\ Joined(state.parts, state.left, intervals \ state.left)

MergeChain(g, k, intervals) ==
    g = [n \in 0..k |-> IF n = 0 THEN [parts |-> <<>>, left |-> intervals] ELSE Merging(g[n - 1])]

LEMMA MergingTakes ==
    ASSUME NEW intervals \in SUBSET Intervals, IsFiniteSet(intervals),
           NEW n \in Nat, n < Cardinality(intervals),
           NEW state, Taking(state, n, intervals)
    PROVE  Taking(Merging(state), n + 1, intervals)
<1>1. PICK left : left = state.left
  OBVIOUS
<1>2. left \in SUBSET intervals /\ IsFiniteSet(left) /\ Cardinality(left) = Cardinality(intervals) - n
  BY <1>1, FS_Subset DEF Taking
<1>3. Cardinality(intervals) \in Nat
  BY FS_CardinalityType
<1>4. left # {}
  BY <1>2, <1>3, FS_EmptySet
<1>5. PICK i : i = Earliest(left)
  OBVIOUS
<1>6. i \in left /\ \A j \in left : i.from <= j.from
  BY <1>2, <1>4, <1>5, EarliestFirst
<1>7. Merging(state).parts = MergedWith(state.parts, i) /\ Merging(state).left = left \ {i}
  BY <1>1, <1>5 DEF Merging
<1>8. Cardinality(left \ {i}) = Cardinality(intervals) - (n + 1)
  <2>1. Cardinality(left \ {i}) = Cardinality(left) - 1
    BY <1>2, <1>6, FS_RemoveElement
  <2>2. PICK c \in Nat : c = Cardinality(intervals)
    BY <1>3
  <2> QED BY <1>2, <2>1, <2>2
<1>9. Joined(MergedWith(state.parts, i), left \ {i}, (intervals \ left) \cup {i})
  BY <1>1, <1>2, <1>6, MergingJoins DEF Taking
<1>10. (intervals \ left) \cup {i} = intervals \ (left \ {i})
  BY <1>2, <1>6
<1> QED BY <1>2, <1>7, <1>8, <1>9, <1>10 DEF Taking

LEMMA MergeChainExists ==
    ASSUME NEW intervals, NEW k \in Nat
    PROVE  \E g : MergeChain(g, k, intervals)
<1> DEFINE A == {n \in Nat : \E g : MergeChain(g, n, intervals)}
<1>1. 0 \in A
  <2>1. MergeChain([n \in 0..0 |-> [parts |-> <<>>, left |-> intervals]], 0, intervals)
    BY DEF MergeChain
  <2> QED BY <2>1
<1>2. ASSUME NEW n \in Nat, n \in A PROVE n + 1 \in A
  <2>1. PICK g : MergeChain(g, n, intervals)
    BY <1>2
  <2>2. PICK next : next = Merging(g[n])
    OBVIOUS
  <2>3. PICK f : f = [j \in 0..(n + 1) |-> IF j = n + 1 THEN next ELSE g[j]]
    OBVIOUS
  <2>4. ASSUME NEW j \in 0..(n + 1)
        PROVE  f[j] = IF j = 0 THEN [parts |-> <<>>, left |-> intervals] ELSE Merging(f[j - 1])
    <3>1. CASE j = n + 1
      <4>1. j # 0 /\ j - 1 = n /\ n \in 0..(n + 1) /\ n # n + 1
        BY <3>1
      <4>2. f[j] = next /\ f[j - 1] = g[n]
        BY <2>3, <3>1, <4>1
      <4> QED BY <2>2, <3>1, <4>1, <4>2
    <3>2. CASE j = 0
      <4>1. f[j] = g[j] /\ j \in 0..n
        BY <2>3, <3>2
      <4> QED BY <2>1, <3>2, <4>1 DEF MergeChain
    <3>3. CASE j # 0 /\ j # n + 1
      <4>1. j \in 0..n /\ j - 1 \in 0..(n + 1) /\ j - 1 # n + 1
        BY <3>3
      <4>2. f[j] = g[j] /\ f[j - 1] = g[j - 1]
        BY <2>3, <3>3, <4>1
      <4>3. g[j] = Merging(g[j - 1])
        BY <2>1, <3>3, <4>1 DEF MergeChain
      <4> QED BY <3>3, <4>2, <4>3
    <3> QED BY <3>1, <3>2, <3>3
  <2>5. f = [j \in 0..(n + 1) |-> f[j]]
    BY <2>3
  <2>6. MergeChain(f, n + 1, intervals)
    BY <2>4, <2>5 DEF MergeChain
  <2> QED BY <2>6
<1> HIDE DEF A
<1>3. k \in A
  BY <1>1, <1>2, InductiveSet
<1> QED BY <1>3 DEF A

LEMMA MergedJoins ==
    ASSUME NEW intervals \in SUBSET Intervals, IsFiniteSet(intervals)
    PROVE  Joined(Merged(intervals), {}, intervals)
<1>1. PICK k \in Nat : k = Cardinality(intervals)
  BY FS_CardinalityType
<1>2. PICK g : g = CHOOSE h : MergeChain(h, k, intervals)
  OBVIOUS
<1>3. MergeChain(g, k, intervals)
  BY <1>2, MergeChainExists
<1>4. Merged(intervals) = g[k].parts
  BY <1>1, <1>2 DEF Merged, MergeChain
<1> DEFINE A == {n \in Nat : n <= k => Taking(g[n], n, intervals)}
<1>5. 0 \in A
  <2>1. g[0] = [parts |-> <<>>, left |-> intervals]
    BY <1>3 DEF MergeChain
  <2>2. Joined(<<>>, intervals, intervals \ intervals)
    <3>1. <<>> \in Seq(Intervals) /\ DOMAIN <<>> = {} /\ intervals \ intervals = {}
      OBVIOUS
    <3> QED BY <3>1 DEF Joined, Apart
  <2>3. Taking(g[0], 0, intervals)
    BY <1>1, <2>1, <2>2 DEF Taking
  <2> QED BY <2>3
<1>6. ASSUME NEW n \in Nat, n \in A PROVE n + 1 \in A
  <2>1. CASE n + 1 <= k
    <3>1. n + 1 \in 0..k /\ n + 1 # 0 /\ (n + 1) - 1 = n /\ n < k
      BY <2>1
    <3>2. g[n + 1] = Merging(g[n])
      BY <1>3, <3>1 DEF MergeChain
    <3>3. Taking(g[n], n, intervals)
      BY <1>6, <3>1
    <3>4. Taking(g[n + 1], n + 1, intervals)
      BY <1>1, <3>1, <3>2, <3>3, MergingTakes
    <3> QED BY <3>4
  <2>2. CASE ~(n + 1 <= k)
    BY <2>2
  <2> QED BY <2>1, <2>2
<1> HIDE DEF A
<1>7. k \in A
  BY <1>5, <1>6, InductiveSet
<1>8. Taking(g[k], k, intervals)
  BY <1>7 DEF A
<1>9. g[k].left = {}
  <2>1. IsFiniteSet(g[k].left) /\ Cardinality(g[k].left) = 0
    BY <1>1, <1>8, FS_Subset DEF Taking
  <2> QED BY <2>1, FS_EmptySet
<1>10. intervals \ {} = intervals
  OBVIOUS
<1> QED BY <1>4, <1>8, <1>9, <1>10 DEF Taking

(* An interval of a finite lecture is a pair of its moments.               *)
LEMMA IntervalsFinite == IsFiniteSet(Intervals)
<1>1. PICK T : T = 0..LectureEnd
  OBVIOUS
<1>2. IsFiniteSet(T)
  BY <1>1, ContextAssumption, FS_Interval
<1>3. IsFiniteSet(T \X T)
  BY <1>2, FS_Product
<1>4. PICK f : f = [i \in Intervals |-> <<i.from, i.to>>]
  OBVIOUS
<1>5. f \in Injection(Intervals, T \X T)
  <2>1. f \in [Intervals -> T \X T]
    BY <1>1, <1>4 DEF Intervals
  <2>2. ASSUME NEW i \in Intervals, NEW j \in Intervals, f[i] = f[j] PROVE i = j
    <3>1. i.from = j.from /\ i.to = j.to
      BY <1>4, <2>2
    <3> QED BY <3>1 DEF Intervals
  <2> QED BY <2>1, <2>2 DEF Injection, IsInjective
<1> QED BY <1>3, <1>5, FS_Injection

LEMMA MergedParts ==
    ASSUME NEW intervals \in SUBSET Intervals
    PROVE  IsPartition(Merged(intervals), intervals)
<1>1. PICK parts : parts = Merged(intervals)
  OBVIOUS
<1>2. Joined(parts, {}, intervals)
  BY <1>1, IntervalsFinite, FS_Subset, MergedJoins
<1>3. parts \in Seq(Intervals) /\ DOMAIN parts = 1..Len(parts) /\ Len(parts) \in Nat
  BY <1>2, LenProperties DEF Joined
<1>4. \A n \in 1..(Len(parts) - 1) : parts[n].to < parts[n + 1].from
  BY <1>2, <1>3 DEF Joined, Apart
<1>5. ASSUME NEW t \in 0..LectureEnd
      PROVE  (\E i \in ToSet(parts) : Within(t, i)) <=> \E i \in intervals : Within(t, i)
  <2>1. ASSUME NEW n \in DOMAIN parts, Within(t, parts[n])
        PROVE  \E i \in intervals : Within(t, i)
    BY <1>2, <2>1, ContextAssumption DEF Joined, MadeOf
  <2>2. ASSUME NEW i \in intervals, Within(t, i)
        PROVE  \E n \in DOMAIN parts : Within(t, parts[n])
    <3>1. PICK n \in DOMAIN parts : Inside(i, parts[n])
      BY <1>2 DEF Joined
    <3>2. parts[n] \in Intervals /\ i \in Intervals
      BY <1>3
    <3>3. Within(t, parts[n])
      BY <2>2, <3>1, <3>2, ContextAssumption DEF Within, Inside, Intervals
    <3> QED BY <3>3
  <2> QED BY <2>1, <2>2 DEF ToSet
<1>6. Spanned(ToSet(parts)) = Spanned(intervals)
  BY <1>5 DEF Spanned
<1> QED BY <1>1, <1>4, <1>6 DEF IsPartition

(* Everything that touches the request is joined to its part.              *)
LEMMA MergedIsOne ==
    ASSUME NEW requested \in Intervals, NEW touching \in SUBSET Intervals,
           \A e \in touching : Touches(e, requested)
    PROVE  LET parts == Merged({requested} \cup touching)
           IN  Len(parts) = 1 /\ IsHull(parts[1], {requested} \cup touching)
<1>1. PICK all : all = {requested} \cup touching
  OBVIOUS
<1>2. PICK parts : parts = Merged(all)
  OBVIOUS
<1>3. all \in SUBSET Intervals /\ requested \in all /\ \A e \in all : Touches(e, requested)
  BY <1>1, ContextAssumption DEF Intervals, Touches
<1>4. Joined(parts, {}, all)
  BY <1>2, <1>3, IntervalsFinite, FS_Subset, MergedJoins
<1>5. parts \in Seq(Intervals) /\ DOMAIN parts = 1..Len(parts) /\ Len(parts) \in Nat
  BY <1>4, LenProperties DEF Joined
<1>6. \A j \in Intervals : j.from \in Nat /\ j.to \in Nat /\ j.from < j.to
  BY ContextAssumption DEF Intervals
<1>7. PICK k \in 1..Len(parts) : Inside(requested, parts[k])
  BY <1>3, <1>4, <1>5 DEF Joined
<1>8. ASSUME NEW n \in 1..Len(parts), n # k PROVE FALSE
  <2>1. parts[n] \in Intervals /\ parts[k] \in Intervals
    BY <1>5
  <2>2. CASE n < k
    <3>1. parts[n].to < parts[k].from
      BY <1>4, <1>5, <2>2 DEF Joined, Apart
    <3>2. PICK e \in all : e.to = parts[n].to
      BY <1>4, <1>5 DEF Joined, MadeOf
    <3> QED BY <1>3, <1>6, <1>7, <2>1, <3>1, <3>2 DEF Touches, Inside
  <2>3. CASE k < n
    <3>1. parts[k].to < parts[n].from
      BY <1>4, <1>5, <2>3 DEF Joined, Apart
    <3>2. PICK e \in all : e.from = parts[n].from
      BY <1>4, <1>5 DEF Joined, MadeOf
    <3> QED BY <1>3, <1>6, <1>7, <2>1, <3>1, <3>2 DEF Touches, Inside
  <2> QED BY <1>8, <2>2, <2>3
<1>9. Len(parts) = 1 /\ k = 1
  BY <1>5, <1>7, <1>8
<1>10. PICK part \in Intervals : part = parts[1]
  BY <1>5, <1>9
<1>11. \A i \in all : Inside(i, part)
  BY <1>4, <1>5, <1>9, <1>10 DEF Joined
<1>12. PICK first \in all : first.from = part.from
  BY <1>4, <1>5, <1>9, <1>10 DEF Joined, MadeOf
<1>13. PICK last \in all : last.to = part.to
  BY <1>4, <1>5, <1>9, <1>10 DEF Joined, MadeOf
<1>14. part.from = Min({x.from : x \in all})
  <2>1. part.from \in {x.from : x \in all} /\ \A y \in {x.from : x \in all} : part.from <= y
    BY <1>11, <1>12 DEF Inside
  <2>2. \A y \in {x.from : x \in all} : y \in Nat
    BY <1>3, <1>6
  <2> QED BY <2>1, <2>2 DEF Min
<1>15. part.to = Max({x.to : x \in all})
  <2>1. part.to \in {x.to : x \in all} /\ \A y \in {x.to : x \in all} : part.to >= y
    BY <1>3, <1>6, <1>11, <1>13 DEF Inside
  <2>2. \A y \in {x.to : x \in all} : y \in Nat
    BY <1>3, <1>6
  <2> QED BY <2>1, <2>2 DEF Max
<1> QED BY <1>1, <1>2, <1>9, <1>10, <1>14, <1>15 DEF IsHull

LEMMA EveryContextIsWhole == ContextIsWhole
<1> SUFFICES ASSUME NEW requested \in Intervals, NEW events \in SUBSET Intervals
             PROVE  /\ IsPartition(Merged({requested} \cup events), {requested} \cup events)
                    /\ Len(MergedContext(requested, events)) = 1
                    /\ IsHull(ContextInterval(requested, events),
                              {requested} \cup Connected(requested, events))
  BY DEF ContextIsWhole
<1>1. IsPartition(Merged({requested} \cup events), {requested} \cup events)
  BY MergedParts
<1>2. /\ Connected(requested, events) \in SUBSET Intervals
      /\ \A e \in Connected(requested, events) : Touches(e, requested)
  BY DEF Connected
<1> QED BY <1>1, <1>2, MergedIsOne DEF MergedContext, ContextInterval

(* A request is about one stretch of the lecture, from the first moment of *)
(* it and of the events that reach it to the last, for any events.         *)
THEOREM ContextsMerge == Spec => []ContextsAreWhole
<1>1. ContextsAreWhole
  BY EveryContextIsWhole DEF ContextsAreWhole
<1> QED BY <1>1, PTL

=============================================================================
