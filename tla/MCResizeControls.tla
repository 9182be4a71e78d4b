------------------------- MODULE MCResizeControls -------------------------
(* Instances of ResizeControls for TLC. *)
EXTENDS ResizeControls, TLC

CONSTANTS a1, a2, a3, w1, w2

TwoAdders == {a1, a2}
ThreeAdders == {a1, a2, a3}
OneWorker == {w1}
TwoWorkers == {w1, w2}
=============================================================================
