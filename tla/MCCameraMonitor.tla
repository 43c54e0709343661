--------------------------- MODULE MCCameraMonitor ----------------------------
(* Bounds for TLC: sessions and monitors are interchangeable.              *)
EXTENDS CameraMonitor, TLC

Interchangeable == Permutations(Joinable) \cup Permutations(Monitors)
=============================================================================
