--------------------------- MODULE MCCanarySystem ---------------------------
(* A finite instance of CanarySystem. *)
EXTENDS CanarySystem

CONSTANTS w1, s1

OneWorker == {w1}
OneName == {1}
OneService == {s1}
=============================================================================
