---------------------------- MODULE AtomicBatches -----------------------------
(***************************************************************************)
(* What batch ingestion promises, whatever stores the records: a batch is  *)
(* applied as a whole or leaves nothing behind, and a record only ever     *)
(* gives way to a strictly newer revision of itself.                       *)
(***************************************************************************)
EXTENDS Naturals

CONSTANTS Ids, MaxRevision

VARIABLES
    content,    \* the revision held for each record id; 0 is none
    applied     \* the records, with their revisions, that were ever applied

vars == <<content, applied>>

Revisions == 0..MaxRevision
Assignments == {b \in [Ids -> Revisions] : \E i \in Ids : b[i] > 0}

(* The batch gives revision b[i] to every id it names.                     *)
Newer(b) == \A i \in Ids : b[i] > 0 => b[i] > content[i]

Merged(b) == [i \in Ids |-> IF b[i] > 0 THEN b[i] ELSE content[i]]

Apply(b) ==
    /\ Newer(b)
    /\ content' = Merged(b)
    /\ applied' = applied \cup {<<i, b[i]>> : i \in {k \in Ids : b[k] > 0}}

Init ==
    /\ content = [i \in Ids |-> 0]
    /\ applied = {}

Next == \E b \in Assignments : Apply(b)

Spec == Init /\ [][Next]_vars
=============================================================================
