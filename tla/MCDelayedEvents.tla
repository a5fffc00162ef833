-------------------------- MODULE MCDelayedEvents --------------------------
(* Instances of DelayedEvents for TLC. *)
EXTENDS DelayedEvents

CONSTANTS e1, e2, r1, r2
=============================================================================
