----------------------------- MODULE MCDesktopMain ----------------------------
(* Bounds for TLC are the constants of desktop.cfg. The liveness           *)
(* properties forbid symmetry.                                             *)
EXTENDS DesktopMain
=============================================================================
