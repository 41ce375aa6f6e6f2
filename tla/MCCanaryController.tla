------------------------- MODULE MCCanaryController -------------------------
(* A finite instance of CanaryController. *)
EXTENDS CanaryController

CONSTANTS w1, w2

OneWorker == {w1}
TwoWorkers == {w1, w2}
\* The generated name, and another prefixed one.
TwoNames == 1..2
OneName == {1}
=============================================================================
