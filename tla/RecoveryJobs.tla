---------------------------- MODULE RecoveryJobs -----------------------------
(***************************************************************************)
(* Recovery jobs of one lecture session: recovery/service.py as extended   *)
(* by recovery/validated.py, the cache of recovery/cache.py and the        *)
(* consent route of recovery/consent_routes.py.                            *)
(*                                                                         *)
(* Handlers run in the threadpool. create_job does everything after its    *)
(* own checks under execution_lock, so what interleaves with a running job *)
(* is the transcript, whose writers take no lock, the requests that wait,  *)
(* and the end of the process. When durable the stores are MongoDB: they   *)
(* survive a restart, which clears the lock, the consents and the job      *)
(* owners, and any access to them may raise.                               *)
(*                                                                         *)
(* A job, and the card it generates, is named by the request that made it. *)
(* The timeline takes a few contents one after the other (RecoveryContext). *)
(***************************************************************************)
EXTENDS RecoveryContext

CONSTANTS
    Students,     \* opted-in members of the session
    Asked,        \* what the students ask for: an interval and source events
    Keys,         \* Idempotency-Key values
    Requests,     \* recovery requests the run may serve (bound)
    Timelines,    \* the contents that the timeline takes one after the other
    Deployments,  \* MongoDB or memory, a provider or the mock
    MaxConsents,  \* LearningState.maximum_records
    Drafts,       \* the facts of what a provider may answer
    None

ASSUME ConstantsAssumption ==
    /\ Timelines \in Seq(SUBSET Chunks) /\ Timelines # <<>>
    /\ Asked \subseteq [interval : Intervals, events : SUBSET Intervals]
    /\ Drafts \subseteq SUBSET Facts
    /\ Deployments \subseteq [durable : BOOLEAN, live : BOOLEAN]
    /\ MaxConsents \in Nat
    /\ None \notin Students \cup Keys \cup Requests
    /\ Students \cap Requests = {}   \* the lock is held by one or the other

VARIABLES
    durable,      \* TRUE: the stores are MongoDB, which may fail and outlives us
    live,         \* TRUE: the provider is not the mock
    transcript,   \* the number of the timeline's contents
    consent,      \* external_consent: who allowed the provider
    jobs,         \* store.recovery_jobs
    cards,        \* store.recovery_cards
    cache,        \* store.recovery_cache: the context each entry stands for
    bound,        \* store.recovery_idempotency
    owners,       \* job_owners, in the process
    lock,         \* who holds execution_lock: a request, or a student's revocation
    proc,         \* the requests
    revoked       \* history: cards generated before their owner's answered revocation

vars == <<durable, live, transcript, consent, jobs, cards, cache, bound, owners, lock,
          proc, revoked>>

Versions == 1..Len(Timelines)

(* What create_job merges, and what it then reads around it.               *)
IntervalOf(asked) == ContextInterval(asked.interval, asked.events)
IntervalsAsked == {IntervalOf(asked) : asked \in Asked}
WindowOf == [v \in Versions |-> [i \in IntervalsAsked |-> ContextWindow(Timelines[v], i)]]
Windows == {WindowOf[v][i] : v \in Versions, i \in IntervalsAsked}
Contexts == Students \X Windows

NoJob == [status |-> "none", by |-> None, key |-> None, failure |-> "none",
          hit |-> FALSE, card |-> None]
NoCard == [owner |-> None, window |-> None]
Idle == [at |-> "idle", s |-> None, i |-> None, key |-> None, window |-> None,
         answer |-> None]

Running(p) == proc[p].at \in {"binding", "reading", "generating", "caching",
                              "completing", "returning"}
Context(p) == <<proc[p].s, proc[p].window>>
WindowNow(p) == WindowOf[transcript][proc[p].i]

-----------------------------------------------------------------------------
(* create_job of validated.py: the checks made before the lock.            *)
Submit(p, s, i, k) ==
    /\ proc[p].at = "idle"
    /\ proc' = [proc EXCEPT ![p] = [Idle EXCEPT !.at = "waiting", !.s = s,
                                                !.i = i, !.key = k]]
    /\ UNCHANGED <<transcript, consent, jobs, cards, cache, bound, owners, lock, revoked>>

MayEnterUnlocked(p) == proc[p].at = "waiting"   \* slip: no execution_lock

MayEnter(p) == proc[p].at = "waiting" /\ lock = None

Permitted(s) == live => s \in consent

Refuse(p) ==
    /\ MayEnter(p)
    /\ ~Permitted(proc[p].s)
    /\ proc' = [proc EXCEPT ![p].at = "refused"]
    /\ UNCHANGED <<transcript, consent, jobs, cards, cache, bound, owners, lock, revoked>>

(* The job an earlier request of this student left under the same key.     *)
EarlierOfAnyone(p) ==   \* slip: a key is that of whoever used it
    IF proc[p].key = None THEN None
    ELSE LET used == {s \in Students : bound[<<s, proc[p].key>>] # None} IN
         IF used = {} THEN None ELSE bound[<<CHOOSE s \in used : TRUE, proc[p].key>>]

Earlier(p) == IF proc[p].key = None THEN None ELSE bound[<<proc[p].s, proc[p].key>>]

Owned(j, s) == [owners EXCEPT ![j] = s]

Replay(p) ==
    /\ MayEnter(p)
    /\ Permitted(proc[p].s)
    /\ Earlier(p) # None
    /\ owners' = Owned(Earlier(p), proc[p].s)
    /\ proc' = [proc EXCEPT ![p].at = "done", ![p].answer = Earlier(p)]
    /\ UNCHANGED <<transcript, consent, jobs, cards, cache, bound, lock, revoked>>

StoreJob(p) ==
    /\ MayEnter(p)
    /\ Permitted(proc[p].s)
    /\ Earlier(p) = None
    /\ lock' = p
    /\ jobs' = [jobs EXCEPT ![p] = [NoJob EXCEPT !.status = "queued",
                                      !.by = proc[p].s, !.key = proc[p].key]]
    /\ proc' = [proc EXCEPT ![p].at = "binding"]
    /\ UNCHANGED <<transcript, consent, cards, cache, bound, owners, revoked>>

(* The key is bound, recovery_job_started is published, and _execute_job   *)
(* marks its own job object RUNNING: MongoDB keeps the queued document.    *)
BindKey(p) ==
    /\ proc[p].at = "binding"
    /\ bound' = IF proc[p].key = None THEN bound
                ELSE [bound EXCEPT ![<<proc[p].s, proc[p].key>>] = p]
    /\ jobs' = [jobs EXCEPT ![p].status = IF durable THEN @ ELSE "running"]
    /\ proc' = [proc EXCEPT ![p].at = "reading"]
    /\ UNCHANGED <<transcript, consent, cards, cache, owners, lock, revoked>>

-----------------------------------------------------------------------------
(* _execute_job *)
Settle(p, job) ==
    /\ jobs' = [jobs EXCEPT ![p] = job]
    /\ proc' = [proc EXCEPT ![p].at = "returning"]

FailedFor(p, reason) ==
    [jobs[p] EXCEPT !.status = "failed", !.failure = reason]

CompletedWith(p, card, hit) ==
    [jobs[p] EXCEPT !.status = "completed", !.card = card, !.hit = hit]

(* Any AppError of _build_context_window is a missing context.             *)
ReadNothing(p) ==
    /\ proc[p].at = "reading"
    /\ ~IsUsable(WindowNow(p))
    /\ Settle(p, FailedFor(p, "missing_context"))
    /\ UNCHANGED <<transcript, consent, cards, cache, bound, owners, lock, revoked>>

ReadContext(p) ==
    /\ proc[p].at = "reading"
    /\ IsUsable(WindowNow(p))
    /\ proc' = [proc EXCEPT ![p].at = "generating", ![p].window = WindowNow(p)]
    /\ UNCHANGED <<transcript, consent, jobs, cards, cache, bound, owners, lock, revoked>>

CacheKeyUnscoped(p) ==   \* slip: the requesting user is not part of the key
    <<CHOOSE s \in Students : TRUE, proc[p].window>>

CacheKey(p) == Context(p)

Cached(p) ==
    LET card == cache[CacheKey(p)] IN
    IF card # None /\ cards[card] # NoCard THEN card ELSE None

CacheHit(p) ==
    /\ proc[p].at = "generating"
    /\ Cached(p) # None
    /\ Settle(p, CompletedWith(p, Cached(p), TRUE))
    /\ UNCHANGED <<transcript, consent, cards, cache, bound, owners, lock, revoked>>

(* The provider refuses, is unavailable, or no fact of its draft is kept.  *)
Answers(window) == IF live THEN Drafts ELSE {Quoting(window)}

IsGrounded(draft, window) == IsLinked(Sources(Kept(draft, window), window), window)

GenerationFails(p) ==
    /\ proc[p].at = "generating"
    /\ Cached(p) = None
    /\ \E draft \in Answers(proc[p].window) : ~IsGrounded(draft, proc[p].window)
    /\ Settle(p, FailedFor(p, "provider"))
    /\ UNCHANGED <<transcript, consent, cards, cache, bound, owners, lock, revoked>>

StoreCard(p) ==
    /\ proc[p].at = "generating"
    /\ Cached(p) = None
    /\ \E draft \in Answers(proc[p].window) : IsGrounded(draft, proc[p].window)
    /\ cards' = [cards EXCEPT ![p] = [owner |-> proc[p].s, window |-> proc[p].window]]
    /\ proc' = [proc EXCEPT ![p].at = "caching"]
    /\ UNCHANGED <<transcript, consent, jobs, cache, bound, owners, lock, revoked>>

CacheCard(p) ==
    /\ proc[p].at = "caching"
    /\ cache' = [cache EXCEPT ![CacheKey(p)] = p]
    /\ proc' = [proc EXCEPT ![p].at = "completing"]
    /\ UNCHANGED <<transcript, consent, jobs, cards, bound, owners, lock, revoked>>

Complete(p) ==
    /\ proc[p].at = "completing"
    /\ Settle(p, CompletedWith(p, p, FALSE))
    /\ UNCHANGED <<transcript, consent, cards, cache, bound, owners, lock, revoked>>

Released(p) == None

Return(p) ==
    /\ proc[p].at = "returning"
    /\ owners' = Owned(p, proc[p].s)
    /\ lock' = Released(p)
    /\ proc' = [proc EXCEPT ![p].at = "done", ![p].answer = p]
    /\ UNCHANGED <<transcript, consent, jobs, cards, cache, bound, revoked>>

-----------------------------------------------------------------------------
(* A store access raises: the error leaves create_job and the lock.        *)
Fault(p) ==
    /\ durable
    /\ Running(p)
    /\ lock' = None
    /\ proc' = [proc EXCEPT ![p].at = "error"]
    /\ UNCHANGED <<transcript, consent, jobs, cards, cache, bound, owners, revoked>>

Restart ==
    /\ durable
    /\ lock' = None
    /\ consent' = {}
    /\ owners' = [p \in Requests |-> None]
    /\ proc' = [p \in Requests |->
                  IF Running(p) \/ proc[p].at = "waiting"
                  THEN [proc[p] EXCEPT !.at = "error"] ELSE proc[p]]
    /\ UNCHANGED <<transcript, jobs, cards, cache, bound, revoked>>

(* get_job and get_card: who is shown a job, and who a card.               *)
MayReadJob(s, j) == jobs[j].status # "none" /\ owners[j] = s
MayReadCard(s, c) == cards[c] # NoCard /\ cards[c].owner = s

(* update_external_consent *)
Allow(s) ==
    /\ lock = None
    /\ Cardinality(consent) < MaxConsents
    /\ consent' = consent \cup {s}
    /\ UNCHANGED <<transcript, jobs, cards, cache, bound, owners, lock, proc, revoked>>

MayRevokeUnlocked == TRUE   \* slip: the revocation does not take the lock

MayRevoke == lock = None

RevokeBegin(s) ==
    /\ MayRevoke
    /\ consent' = consent \ {s}
    /\ lock' = s
    /\ UNCHANGED <<transcript, jobs, cards, cache, bound, owners, proc, revoked>>

OwnCards(s) == {p \in Requests : cards[p].owner = s}

EntriesOfNone(s) == {}   \* slip: the cache is left alone

EntriesOf(s) == {c \in Contexts : cache[c] \in OwnCards(s)}

DropEntry(s, c) ==
    /\ lock = s
    /\ c \in EntriesOf(s)
    /\ cache' = [cache EXCEPT ![c] = None]
    /\ UNCHANGED <<transcript, consent, jobs, cards, bound, owners, lock, proc, revoked>>

RevokeDone(s) ==
    /\ lock = s
    /\ EntriesOf(s) = {}
    /\ lock' = None
    /\ revoked' = revoked \cup OwnCards(s)
    /\ UNCHANGED <<transcript, consent, jobs, cards, cache, bound, owners, proc>>

(* The store raises before all entries are gone: no answer, no consent.    *)
RevokeFault(s) ==
    /\ durable
    /\ lock = s
    /\ lock' = None
    /\ UNCHANGED <<transcript, consent, jobs, cards, cache, bound, owners, proc, revoked>>

Revoke(s) ==
    \/ RevokeBegin(s) \/ RevokeDone(s) \/ RevokeFault(s)
    \/ \E c \in Contexts : DropEntry(s, c)

(* Transcript ingestion, the timeline the window is read from.             *)
Transcribe ==
    /\ transcript < Len(Timelines)
    /\ transcript' = transcript + 1
    /\ UNCHANGED <<consent, jobs, cards, cache, bound, owners, lock, proc, revoked>>

-----------------------------------------------------------------------------
Init ==
    /\ \E d \in Deployments : durable = d.durable /\ live = d.live
    /\ transcript = 1
    /\ consent = {}
    /\ jobs = [p \in Requests |-> NoJob]
    /\ cards = [p \in Requests |-> NoCard]
    /\ cache = [c \in Contexts |-> None]
    /\ bound = [k \in Students \X Keys |-> None]
    /\ owners = [p \in Requests |-> None]
    /\ lock = None
    /\ proc = [p \in Requests |-> Idle]
    /\ revoked = {}

Enter(p) == Refuse(p) \/ Replay(p) \/ StoreJob(p)

Execute(p) ==
    \/ BindKey(p) \/ ReadNothing(p) \/ ReadContext(p) \/ CacheHit(p)
    \/ GenerationFails(p) \/ StoreCard(p) \/ CacheCard(p) \/ Complete(p)
    \/ Return(p)

Step ==
    \/ \E p \in Requests :
         \/ \E s \in Students, i \in IntervalsAsked, k \in Keys \cup {None} :
              Submit(p, s, i, k)
         \/ Enter(p) \/ Execute(p) \/ Fault(p)
    \/ \E s \in Students : Allow(s) \/ Revoke(s)
    \/ Transcribe \/ Restart

Next == Step /\ UNCHANGED <<durable, live>>

Spec == Init /\ [][Next]_vars

-----------------------------------------------------------------------------
Statuses == {"none", "queued", "running", "completed", "failed"}
Points == {"idle", "waiting", "refused", "binding", "reading", "generating",
           "caching", "completing", "returning", "done", "error"}

JobType == [status : Statuses, by : Students \cup {None}, key : Keys \cup {None},
            failure : {"none", "missing_context", "provider"}, hit : BOOLEAN,
            card : Requests \cup {None}]
CardType == [owner : Students \cup {None}, window : Windows \cup {None}]
ProcType == [at : Points, s : Students \cup {None}, i : IntervalsAsked \cup {None},
             key : Keys \cup {None}, window : Windows \cup {None},
             answer : Requests \cup {None}]

TypeOK ==
    /\ durable \in BOOLEAN
    /\ live \in BOOLEAN
    /\ transcript \in Versions
    /\ consent \in SUBSET Students
    /\ jobs \in [Requests -> JobType]
    /\ cards \in [Requests -> CardType]
    /\ cache \in [Contexts -> Requests \cup {None}]
    /\ bound \in [Students \X Keys -> Requests \cup {None}]
    /\ owners \in [Requests -> Students \cup {None}]
    /\ lock \in Requests \cup Students \cup {None}
    /\ proc \in [Requests -> ProcType]
    /\ revoked \in SUBSET Requests

(* A card answers the window that its job has read, whatever corrections   *)
(* land in between and whoever it was generated for; whoever is answered   *)
(* with the job may read the card, and nobody else may read either, also   *)
(* after restarts have forgotten who asked.                                *)
CardsAnswerTheirJob ==
    \A p \in Requests :
        /\ jobs[p].status = "completed" =>
              cards[jobs[p].card] = [owner |-> jobs[p].by, window |-> proc[p].window]
        /\ proc[p].at = "done" => \A s \in Students :
              /\ MayReadJob(s, proc[p].answer) => s = proc[p].s
              /\ jobs[proc[p].answer].status = "completed" =>
                    (MayReadCard(s, jobs[proc[p].answer].card) <=> s = proc[p].s)

(* Merging is right for every request there could be, not only for those   *)
(* asked here: one context, from the first moment of what it is about to   *)
(* the last, and the others left apart (ContextIsWhole).                   *)
ContextsAreWhole == (\E p \in Requests : proc[p].at # "idle") => ContextIsWhole

(* Lecture text is with an external provider only while the student allows *)
(* it: a revocation never lands in the middle of a generation.             *)
GeneratesWithConsent ==
    live => \A p \in Requests :
        proc[p].at \in {"generating", "caching"} => proc[p].s \in consent

(* Once a student has been answered a revocation, no later job reuses a    *)
(* card that was generated before. One that a fault or a restart cuts      *)
(* short is not answered, and may leave cards that the cache still names.  *)
RevokedNotReused ==
    [][\A p \in Requests : jobs'[p].hit /\ ~jobs[p].hit =>
          jobs'[p].card \notin revoked]_vars

(* Across faults and restarts, all the answers to one Idempotency-Key name *)
(* one job.                                                                *)
OneAnswerPerKey ==
    \A p, q \in Requests :
        /\ proc[p].at = "done" /\ proc[q].at = "done"
        /\ proc[p].key # None /\ proc[p].key = proc[q].key
        /\ proc[p].s = proc[q].s
        => proc[p].answer = proc[q].answer
=============================================================================
