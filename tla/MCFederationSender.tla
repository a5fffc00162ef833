------------------------- MODULE MCFederationSender -------------------------
(* Instances of FederationSender for TLC. *)
EXTENDS FederationSender

CONSTANTS p1, p2, e1, t1

PduRows == {p1, p2}
OnePdu == {p1}
EduRows == {e1}
ReliableRows == {t1}
NoRows == {}
SecondPdu == {p2}

\* Beside the abort, a clear or a flush, not both.
OneCommand == clears + flushes > 0
=============================================================================
