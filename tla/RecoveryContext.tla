---------------------------- MODULE RecoveryContext ----------------------------
(***************************************************************************)
(* What a recovery request is about and what its card may say: the merging *)
(* of the requested interval with those of its source events               *)
(* (recovery/intervals.py), the padded and bounded context window          *)
(* (recovery/service.py, recovery/validated.py, transcript/repository.py), *)
(* and the facts of a provider's draft that are kept                       *)
(* (integrations/openai/recovery.py, recovery/evidence_matching.py).       *)
(*                                                                         *)
(* Intervals are half-open, on the lecture clock. Text is its length, and  *)
(* a quote is one that the cited text contains or is not.                  *)
(***************************************************************************)
EXTENDS Naturals, FiniteSets, Sequences, SequencesExt

CONSTANTS
    ChunkIds,
    Padding,         \* the lesser of the configured and the largest padding
    LectureEnd,      \* MAX_LECTURE_MS
    MaxChunks,       \* chunks of a context
    MaxCharacters,   \* MAX_CONTEXT_CHARACTERS
    MaxEvents        \* source events of a request, in ContextIsWhole (bound)

ASSUME ContextAssumption == LectureEnd \in Nat

Intervals == {i \in [from : 0..LectureEnd, to : 0..LectureEnd] : i.from < i.to}
Chunks == [id : ChunkIds, span : Intervals, final : BOOLEAN, revision : Nat, length : Nat]

-----------------------------------------------------------------------------
(* merge_overlapping_intervals: taken in order, and joined from the left.  *)
Before(a, b) == a.from < b.from \/ (a.from = b.from /\ a.to < b.to)

Earliest(intervals) == CHOOSE i \in intervals : \A j \in intervals : i = j \/ Before(i, j)

OverlapsOnly(i, last) == i.from < last.to   \* slip: intervals that meet are kept apart

Continues(i, last) == i.from <= last.to

Extended(last, i) == [last EXCEPT !.to = IF i.to > @ THEN i.to ELSE @]

MergedWith(merged, i) ==
    IF merged # <<>> /\ Continues(i, Last(merged))
    THEN [merged EXCEPT ![Len(merged)] = Extended(@, i)]
    ELSE Append(merged, i)

(* What is merged and what is left when n of the intervals are taken.      *)
Merging(state) ==
    LET i == Earliest(state.left)
    IN [parts |-> MergedWith(state.parts, i), left |-> state.left \ {i}]

Merged(intervals) ==
    LET after[n \in 0..Cardinality(intervals)] ==
            IF n = 0 THEN [parts |-> <<>>, left |-> intervals] ELSE Merging(after[n - 1])
    IN  after[Cardinality(intervals)].parts

(* build_context_interval: events elsewhere in the lecture do not count.   *)
Touches(a, b) == a.from <= b.to /\ b.from <= a.to
Connected(requested, events) == {e \in events : Touches(e, requested)}
MergedContext(requested, events) == Merged({requested} \cup Connected(requested, events))
ContextInterval(requested, events) == MergedContext(requested, events)[1]

-----------------------------------------------------------------------------
(* _build_context_window: padded, read, and cut at what is known.          *)
Padded(i) == [from |-> IF i.from < Padding THEN 0 ELSE i.from - Padding, to |-> i.to + Padding]

Selected(timeline, i) ==
    {chunk \in timeline : chunk.final /\ chunk.span.from < i.to /\ i.from < chunk.span.to}

Horizon(timeline, i) ==
    IF timeline = {} THEN i.to ELSE Max({chunk.span.to : chunk \in timeline})

ContextWindow(timeline, i) ==
    [requested |-> i,
     from |-> Padded(i).from,
     to |-> Min({Padded(i).to, Horizon(timeline, i), LectureEnd}),
     revision |-> Max({0} \cup {chunk.revision : chunk \in timeline}),
     chunks |-> Selected(timeline, Padded(i))]

Characters(chunks) == SumFunctionOnSet([chunk \in chunks |-> chunk.length], chunks)

(* A window is of use when it has chunks, within the limits.               *)
IsUsable(window) ==
    /\ window.chunks # {}
    /\ Cardinality(window.chunks) <= MaxChunks
    /\ Characters(window.chunks) <= MaxCharacters

-----------------------------------------------------------------------------
(* A fact is kept if it cites a chunk of the context and quotes it. Of a   *)
(* refused, incomplete or malformed draft no fact is. The mock cites every *)
(* chunk. A card names the chunks it rests on with their times, and must   *)
(* name some, all of them of the context.                                  *)
Facts == [chunk : ChunkIds, quoted : BOOLEAN]

Quoting(window) == {[chunk |-> chunk.id, quoted |-> TRUE] : chunk \in window.chunks}

Kept(draft, window) ==
    {fact \in draft : fact.quoted /\ \E chunk \in window.chunks : chunk.id = fact.chunk}

Sources(facts, window) ==
    {<<chunk.id, chunk.span>> :
        chunk \in {c \in window.chunks : \E fact \in facts : fact.chunk = c.id}}

IsLinked(sources, window) ==
    /\ sources # {}
    /\ \A source \in sources : \E chunk \in window.chunks : source = <<chunk.id, chunk.span>>

-----------------------------------------------------------------------------
(* What merging is for: the parts are in order and do not meet, each point *)
(* of the lecture is in a part exactly if an interval has it, and the      *)
(* context of a request is one part, from the first to the last moment of  *)
(* the request and of the events that reach it.                            *)
Within(n, i) == i.from <= n /\ n < i.to
Spanned(intervals) == {n \in 0..LectureEnd : \E i \in intervals : Within(n, i)}

IsPartition(parts, intervals) ==
    /\ \A n \in 1..(Len(parts) - 1) : parts[n].to < parts[n + 1].from
    /\ Spanned(ToSet(parts)) = Spanned(intervals)

IsHull(i, intervals) ==
    /\ i.from = Min({x.from : x \in intervals})
    /\ i.to = Max({x.to : x \in intervals})

ContextIsWhole ==
    \A requested \in Intervals, events \in {e \in SUBSET Intervals : Cardinality(e) <= MaxEvents} :
        /\ IsPartition(Merged({requested} \cup events), {requested} \cup events)
        /\ Len(MergedContext(requested, events)) = 1
        /\ IsHull(ContextInterval(requested, events),
                  {requested} \cup Connected(requested, events))

=============================================================================
