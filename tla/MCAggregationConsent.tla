------------------------ MODULE MCAggregationConsent -------------------------
(* Bounds for TLC: requests, students and coverage ids differ only in      *)
(* their names.                                                            *)
EXTENDS AggregationConsent, TLC

Record(id, from, to, ok) == [id |-> id, from |-> from, to |-> to, ok |-> ok]
Event(id, from, to, confirmed, sure) ==
    [id |-> id, from |-> from, to |-> to, approved |-> id # 9, confirmed |-> confirmed,
     sure |-> sure, down |-> id = 8]

MCEvidence ==
    {[from |-> 0, to |-> 6, ok |-> TRUE], [from |-> 0, to |-> 4, ok |-> TRUE],
     [from |-> 3, to |-> 6, ok |-> FALSE]}

(* All of the lecture, parts that overlap, meet, contain each other and    *)
(* leave a moment out, and all of it but for a part that was not available. *)
MCHistories ==
    {{Record(1, 0, 6, TRUE), Record(2, 0, 6, TRUE)},
     {Record(1, 0, 2, TRUE), Record(2, 1, 3, TRUE), Record(3, 3, 6, TRUE)},
     {Record(1, 0, 3, TRUE), Record(2, 1, 2, TRUE), Record(3, 2, 3, TRUE)},
     {Record(1, 0, 6, TRUE), Record(2, 5, 6, FALSE)}}

(* A signal sent twice, a short one with others that do not count.         *)
MCSent ==
    {{Event(1, 1, 3, "unset", TRUE), Event(2, 1, 3, "unset", TRUE)},
     {Event(1, 1, 2, "unset", TRUE), Event(2, 2, 3, "no", TRUE), Event(8, 2, 6, "unset", TRUE)},
     {Event(8, 3, 5, "yes", FALSE), Event(9, 0, 6, "yes", TRUE)}}

MCDeliveries ==
    {[from |-> 1, to |-> 5], [from |-> 2, to |-> 4], [from |-> 4, to |-> 6]}

Interchangeable ==
    Permutations(Requests) \cup Permutations(CoverageIds) \cup Permutations(Students)
=============================================================================
