-------------------------- MODULE MCReconcileQueue --------------------------
(* Instances of ReconcileQueue for TLC. *)
EXTENDS ReconcileQueue, TLC

CONSTANTS r1, r2, p1, p2

\* Two rooms shared with one peer and one of them with a second peer.
ThreePairs == {<<r1, p1>>, <<r2, p1>>, <<r1, p2>>}
TwoPairs == {<<r1, p1>>, <<r2, p1>>}

=============================================================================
