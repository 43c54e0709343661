------------------------------ MODULE MCCampus --------------------------------
(* Bounds for TLC: identifiers of one kind are interchangeable.            *)
EXTENDS Campus, TLC

Interchangeable ==
    Permutations(Enrollments) \cup Permutations(Requests)
        \cup Permutations(Sessions) \cup Permutations(Courses)
        \cup Permutations(JoinCodes) \cup Permutations(Students)
=============================================================================
