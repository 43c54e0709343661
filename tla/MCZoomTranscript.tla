--------------------------- MODULE MCZoomTranscript ---------------------------
(* Instance of ZoomTranscript for TLC.                                     *)
EXTENDS ZoomTranscript, TLC

Link(room, number) ==
    [https |-> TRUE, plain |-> TRUE, zoom |-> TRUE, room |-> room, number |-> number,
     passcodes |-> 1]
Typed(form, value) == [form |-> form, value |-> value]
Given(typed, link) == [typed |-> typed, link |-> link]

(* A link alone; a number that contradicts it; what cannot be compared.    *)
MCInputs ==
    {Given(None, None), Given(None, Link("meeting", 7)), Given(Typed("number", 8), Link("meeting", 7)),
     Given(Typed("spaced", 8), Link("meeting", 7)), Given(None, Link("other", 7))}

MCOffers ==
    {[signed |-> signed, age |-> age, uuid |-> 1, number |-> 7] :
        signed \in BOOLEAN, age \in {-301, 0, 300}}

Message(start, end, text) ==
    [stream |-> "s", speaker |-> "prof", start |-> start, end |-> end, text |-> text]

(* One straddles the beginning of the lecture, others end before it, say   *)
(* nothing or run backwards.                                               *)
MCMessages ==
    {Message(9, 12, "words"), Message(7, 10, "words"),
     Message(12, 15, "blank"), Message(15, 13, "words")}

MCIds == {<<"upload">>} \cup {ChunkId(m) : m \in {n \in MCMessages : BecomesChunk(n)}}

(* Texts of their own and corrections, in either order; a batch whose      *)
(* second chunk is too long, and one that names an id twice.               *)
Own(revision) == [id |-> <<"upload">>, revision |-> revision]
Corrected(revision) == [id |-> ChunkId(Message(9, 12, "words")), revision |-> revision]

MCBatches ==
    {<<Own(1)>>, <<Own(2)>>, <<Corrected(2)>>, <<Own(1), Corrected(2)>>, <<Corrected(2), Own(2)>>,
     <<Corrected(2), Own(0)>>, <<Own(1), Own(2)>>}
=============================================================================
