------------------------------- MODULE MCInsight -------------------------------
(* Instance of Insight for TLC.                                            *)
EXTENDS Insight, TLC

(* The second batch contradicts the first and brings another event.        *)
MCBatches == {1 :> "dark", (1 :> "small") @@ (2 :> "small")}

(* Requests at will or by turns during a lecture, and with a live provider *)
(* after it.                                                               *)
MCSettings ==
    {s \in AllSettings :
        /\ s.live <=> s.after
        /\ s.mongo <=> s.pace = "serial"
        /\ s.live => s.pace = "calm"}

=============================================================================
