----------------------------- MODULE AtomicLinks ------------------------------
(***************************************************************************)
(* What linking a course folder promises, whatever the interleaving: a     *)
(* link that is acknowledged took effect once, at one instant, and touched *)
(* nobody else's; a link that is refused left no trace.                    *)
(***************************************************************************)
CONSTANTS Actors, Folders, Requests, None

VARIABLES
    links,     \* the folder of each actor, or None
    asked,     \* the link each request asks for, or None
    answer     \* how each request was answered, or "none"

vars == <<links, asked, answer>>

Link == [actor : Actors, folder : Folders]

Ask(r, l) ==
    /\ asked[r] = None
    /\ asked' = [asked EXCEPT ![r] = l]
    /\ UNCHANGED <<links, answer>>

Pending(r) == asked[r] # None /\ answer[r] = "none"

Acknowledge(r) ==
    /\ Pending(r)
    /\ links' = [links EXCEPT ![asked[r].actor] = asked[r].folder]
    /\ answer' = [answer EXCEPT ![r] = "linked"]
    /\ UNCHANGED asked

Refuse(r) ==
    /\ Pending(r)
    /\ answer' = [answer EXCEPT ![r] = "refused"]
    /\ UNCHANGED <<links, asked>>

Init ==
    /\ links = [a \in Actors |-> None]
    /\ asked = [r \in Requests |-> None]
    /\ answer = [r \in Requests |-> "none"]

Next ==
    \E r \in Requests :
        (\E l \in Link : Ask(r, l)) \/ Acknowledge(r) \/ Refuse(r)

Spec == Init /\ [][Next]_vars
=============================================================================
