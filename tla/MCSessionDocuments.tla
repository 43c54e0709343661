-------------------------- MODULE MCSessionDocuments --------------------------
(* Bounds for TLC: requests, actors and folders are interchangeable.       *)
EXTENDS SessionDocuments, TLC

Interchangeable ==
    Permutations(Requests) \cup Permutations(Folders) \cup Permutations(Actors)
=============================================================================
