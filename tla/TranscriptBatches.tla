-------------------------- MODULE TranscriptBatches --------------------------
(***************************************************************************)
(* Ingestion of transcript chunks into one session's timeline:             *)
(* transcript/service.py over the two stores. Handlers run in the          *)
(* threadpool without a lock. In memory `chunks` is the stored list        *)
(* itself: a handler walks it to learn the revisions and edits it in       *)
(* place, while others do. With MongoDB it is a copy, which replaces the   *)
(* whole document at the end.                                              *)
(*                                                                         *)
(* A chunk is its id and revision; revision 0 stands for a chunk whose     *)
(* text exceeds the limit. Timestamps, text and finality play no part in   *)
(* what is stored. Requests that fail the membership, lecture or size      *)
(* checks change nothing and are left out.                                 *)
(***************************************************************************)
EXTENDS Naturals, Sequences, SequencesExt

CONSTANTS
    Ids,           \* chunk ids
    MaxRevision,   \* revisions (bound)
    Batches,       \* batches that may be uploaded (bound)
    Requests       \* batches the run may receive (bound)

ASSUME ConstantsAssumption ==
    /\ MaxRevision \in Nat \ {0}
    /\ Batches \subseteq Seq([id : Ids, revision : 0..MaxRevision]) \ {<<>>}

VARIABLES
    mongo,      \* TRUE: the timeline is a MongoDB document
    overlapped, \* history: a batch came while another was served
    chunks,     \* store.transcript_chunks[session]
    proc,       \* the requests
    streamed,   \* chunks announced with transcript.chunk.created
    torn        \* history: ids looked up while a text was being replaced

vars == <<mongo, overlapped, chunks, proc, streamed, torn>>

Chunk == [id : Ids, revision : 0..MaxRevision]
Idle == [at |-> "idle", batch |-> <<>>, next |-> 1, known |-> [i \in Ids |-> 0],
         copy |-> <<>>]

Busy(p) == proc[p].at \notin {"idle", "answered"}
Named(batch) == {batch[n].id : n \in DOMAIN batch}

(* A refusal, an error and the answer to a batch that was taken end alike. *)
Answered(p) == [proc EXCEPT ![p] = [Idle EXCEPT !.at = "answered"]]

(* The revision the id has in a list that is read from the left, as the    *)
(* comprehension that fills by_chunk_id does: the last one wins.           *)
LastRevision(list, i) ==
    LET at == {n \in 1..Len(list) : list[n].id = i} IN
    IF at = {} THEN 0 ELSE list[Max(at)].revision

-----------------------------------------------------------------------------
(* The copy is read at once; the shared list is walked, see LookUp.        *)
Begin(p, batch) ==
    /\ proc[p].at = "idle"
    /\ proc' = [proc EXCEPT ![p] =
                  [at |-> IF mongo THEN "loop" ELSE "looking", batch |-> batch, next |-> 1,
                   copy |-> IF mongo THEN chunks ELSE <<>>,
                   known |-> [i \in Ids |-> IF mongo THEN LastRevision(chunks, i) ELSE 0]]]
    /\ overlapped' = (overlapped \/ \E q \in Requests : Busy(q))
    /\ torn' = torn \cup IF \E q \in Requests : proc[q].at = "adding" THEN Named(batch) ELSE {}
    /\ UNCHANGED <<chunks, streamed>>

(* One step of the comprehension that fills by_chunk_id, by position: a    *)
(* chunk that moves to the left meanwhile is not seen.                     *)
LookUp(p) ==
    /\ proc[p].at = "looking"
    /\ proc' = IF proc[p].next <= Len(chunks)
               THEN LET chunk == chunks[proc[p].next] IN
                    [proc EXCEPT ![p].known[chunk.id] = chunk.revision, ![p].next = @ + 1]
               ELSE [proc EXCEPT ![p].at = "loop", ![p].next = 1]
    /\ UNCHANGED <<overlapped, chunks, streamed, torn>>

(* The list the handler edits.                                             *)
Editing(p) == IF mongo THEN proc[p].copy ELSE chunks

Current(p) == proc[p].batch[proc[p].next]
Remaining(p) == proc[p].at = "loop" /\ proc[p].next <= Len(proc[p].batch)
Repeated(p) == \E n \in 1..(proc[p].next - 1) : proc[p].batch[n].id = Current(p).id
PriorUnknown(p) == 0   \* slip: the chunk that the new one replaces is not looked up

Prior(p) == proc[p].known[Current(p).id]

StaleNever(p) == FALSE   \* slip: revisions are not compared

Stale(p) == Prior(p) > 0 /\ Current(p).revision <= Prior(p)

Refused(p) == Current(p).revision = 0 \/ Repeated(p) \/ Stale(p)

RejectChunk(p) ==
    /\ Remaining(p) /\ Refused(p)
    /\ proc' = Answered(p)
    /\ UNCHANGED <<overlapped, chunks, streamed, torn>>

Superseding(p) == [id |-> Current(p).id, revision |-> Prior(p)]

(* list.remove raises when a concurrent batch has superseded the chunk.    *)
LoseRace(p) ==
    /\ Remaining(p) /\ ~Refused(p)
    /\ Prior(p) > 0 /\ ~Contains(Editing(p), Superseding(p))
    /\ proc' = Answered(p)
    /\ UNCHANGED <<overlapped, chunks, streamed, torn>>

Edited(p) ==
    Append(IF Prior(p) = 0 THEN Editing(p)
           ELSE RemoveFirst(Editing(p), Superseding(p)), Current(p))

(* The chunk is appended: by one step unless it replaces another one of    *)
(* the shared list.                                                        *)
Taking(p, job) ==
    [proc EXCEPT ![p] = [job EXCEPT !.at = "loop", !.next = @ + 1,
                                    !.known[Current(p).id] = Current(p).revision]]

TakeChunk(p) ==
    /\ Remaining(p) /\ ~Refused(p)
    /\ Prior(p) = 0 \/ (mongo /\ Contains(Editing(p), Superseding(p)))
    /\ IF mongo
       THEN proc' = Taking(p, [proc[p] EXCEPT !.copy = Edited(p)]) /\ UNCHANGED chunks
       ELSE proc' = Taking(p, proc[p]) /\ chunks' = Edited(p)
    /\ UNCHANGED <<overlapped, streamed, torn>>

(* chunks.remove and chunks.append of the shared list are two steps.       *)
RemovePrior(p) ==
    /\ Remaining(p) /\ ~Refused(p)
    /\ ~mongo /\ Prior(p) > 0 /\ Contains(chunks, Superseding(p))
    /\ chunks' = RemoveFirst(chunks, Superseding(p))
    /\ proc' = [proc EXCEPT ![p].at = "adding"]
    /\ torn' = torn \cup UNION {Named(proc[q].batch) : q \in {r \in Requests : proc[r].at = "looking"}}
    /\ UNCHANGED <<overlapped, streamed>>

AppendChunk(p) ==
    /\ proc[p].at = "adding"
    /\ chunks' = Append(chunks, Current(p))
    /\ proc' = Taking(p, proc[p])
    /\ UNCHANGED <<overlapped, streamed, torn>>

StoredNever(p) == chunks   \* slip: the edited copy is not written back

Stored(p) == Editing(p)

(* The list is written, every chunk announced and the batch answered.      *)
Accept(p) ==
    /\ proc[p].at = "loop" /\ ~Remaining(p)
    /\ chunks' = Stored(p)
    /\ streamed' = streamed \cup ToSet(proc[p].batch)
    /\ proc' = Answered(p)
    /\ UNCHANGED <<overlapped, torn>>

-----------------------------------------------------------------------------
Init ==
    /\ mongo \in BOOLEAN
    /\ overlapped = FALSE
    /\ chunks = <<>>
    /\ proc = [p \in Requests |-> Idle]
    /\ streamed = {}
    /\ torn = {}

Handle(p) ==
    \/ LookUp(p) \/ RejectChunk(p) \/ LoseRace(p) \/ TakeChunk(p)
    \/ RemovePrior(p) \/ AppendChunk(p) \/ Accept(p)

Next ==
    /\ \E p \in Requests : (\E batch \in Batches : Begin(p, batch)) \/ Handle(p)
    /\ UNCHANGED mongo

Spec == Init /\ [][Next]_vars

-----------------------------------------------------------------------------
Newest(list, i) ==
    Max({0} \cup {list[n].revision : n \in {k \in 1..Len(list) : list[k].id = i}})

(* In memory every handler works on the shared list: what the members saw  *)
(* live stays in the timeline until a newer revision of it replaces it,    *)
(* whatever batches overlap, so the two views of the lecture agree; it is  *)
(* missing only while the handler that removed it is about to append.      *)
BeingReplaced(chunk) ==
    \E p \in Requests :
        /\ proc[p].at = "adding"
        /\ Current(p).id = chunk.id /\ Current(p).revision >= chunk.revision

StreamedIsStored ==
    ~mongo => \A chunk \in streamed :
        Newest(chunks, chunk.id) >= chunk.revision \/ BeingReplaced(chunk)

AsFunction(batch) == [i \in Ids |-> Newest(batch, i)]

Abstract == INSTANCE AtomicBatches WITH
    content <- AsFunction(chunks),
    applied <- {<<chunk.id, chunk.revision>> : chunk \in streamed}

(* With MongoDB ingestion implements atomic batches as long as batches come *)
(* one after the other: all of a batch is stored or nothing, a rejection    *)
(* leaves the timeline alone, and every id holds only strictly newer texts. *)
BatchesAreAtomic ==
    /\ Abstract!Init
    /\ [][mongo /\ ~overlapped' => [Abstract!Next]_(Abstract!vars)]_vars
=============================================================================
