---------------------------- MODULE MCRecoveryJobs ----------------------------
(* Bounds for TLC: the requests and the students differ only in their names.       *)
EXTENDS RecoveryJobs, TLC

Span(from, to) == [from |-> from, to |-> to]
Chunk(id, span, final, revision) ==
    [id |-> id, span |-> span, final |-> final, revision |-> revision, length |-> revision]

(* Two ways to ask for one context: an event that meets the interval, and  *)
(* one within it beside one elsewhere.                                     *)
MCAsked ==
    {[interval |-> Span(2, 3), events |-> {Span(3, 4)}],
     [interval |-> Span(2, 4), events |-> {Span(2, 3), Span(0, 1)}]}

(* A provisional chunk becomes final, and is corrected.                    *)
MCTimelines ==
    <<{Chunk("c", Span(3, 5), FALSE, 1)}, {Chunk("c", Span(3, 5), TRUE, 1)},
      {Chunk("c", Span(3, 5), TRUE, 2)}>>

MCDrafts ==
    {{}, {[chunk |-> "c", quoted |-> TRUE], [chunk |-> "c", quoted |-> FALSE]},
     {[chunk |-> "d", quoted |-> TRUE]}}

(* A provider on MongoDB, where it may fail, and both kinds in memory.     *)
MCDeployments ==
    {[durable |-> TRUE, live |-> TRUE], [durable |-> FALSE, live |-> TRUE],
     [durable |-> FALSE, live |-> FALSE]}

Interchangeable == Permutations(Requests) \cup Permutations(Students)
=============================================================================
