---------------------------- MODULE MCEventStream -----------------------------
(* Bounds for TLC: threads, connections and users are interchangeable.     *)
EXTENDS EventStream, TLC

Interchangeable ==
    Permutations(Threads) \cup Permutations(Users)
=============================================================================
