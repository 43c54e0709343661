----------------------------- MODULE DesktopMain ------------------------------
(***************************************************************************)
(* The main process of the desktop (main/index.ts): the live stream of the *)
(* DesktopStream and the overlay of the StudentOverlay. They share the     *)
(* client of the backend and no state, so a behaviour takes place in one   *)
(* of them; where it is the stream, the monitor is switched off.           *)
(***************************************************************************)
EXTENDS DesktopStream, StudentOverlay

VARIABLE part    \* where the behaviour takes place

DesktopInit ==
    /\ Init /\ OverlayInit
    /\ part \in {"stream", "overlay"}
    /\ monitored <=> part = "overlay"
    /\ part = "stream" => calm /\ zoom = "gone"

DesktopNext ==
    /\ UNCHANGED part
    /\ \/ part = "stream" /\ Next /\ UNCHANGED overlayVars
       \/ part = "overlay" /\ OverlayNext /\ UNCHANGED vars

DesktopSpec ==
    /\ DesktopInit /\ [][DesktopNext]_<<part, vars, overlayVars>>
    /\ Fairness /\ OverlayFairness

=============================================================================
