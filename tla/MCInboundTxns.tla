--------------------------- MODULE MCInboundTxns ---------------------------
(* Instances of InboundTxns: two transactions of one origin and one of     *)
(* another that repeats a PDU; one of them also carries an EDU.            *)
EXTENDS InboundTxns, TLC

CONSTANTS k1, k2, k3, a, b, p1, p2, e1

Origin == [k \in Txns |-> IF k = k3 THEN b ELSE a]
Content == [k \in Txns |-> CASE k = k1 -> {p1, e1} [] k = k2 -> {p2, e1} [] OTHER -> {p1}]
AllPdus == {p1, p2}
RequestSymmetry == Permutations(Requests)
=============================================================================
