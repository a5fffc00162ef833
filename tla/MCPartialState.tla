--------------------------- MODULE MCPartialState ---------------------------
(* Instances of PartialState. *)
EXTENDS PartialState

CONSTANTS l1, l2, r1, r2, o1, j1, j2
=============================================================================
