------------------------------- MODULE Outbox -------------------------------
(***************************************************************************)
(* What the outbound queue of a destination promises: at-least-once        *)
(* delivery of what it accepted, unless it is dropped on purpose. Rows may *)
(* be delivered twice and in any order, and a row that was delivered or    *)
(* dropped may turn up again, but a row leaves the queue only when it was  *)
(* delivered or dropped.                                                   *)
(***************************************************************************)
CONSTANT Rows

VARIABLES accepted, pending, delivered, dropped
outbox == <<accepted, pending, delivered, dropped>>

Init == accepted = {} /\ pending = {} /\ delivered = {} /\ dropped = {}

Accept ==
    \E r \in Rows \ accepted :
        /\ accepted' = accepted \cup {r}
        /\ pending' = pending \cup {r}
        /\ UNCHANGED <<delivered, dropped>>

Deliver ==
    /\ delivered \subseteq delivered' /\ delivered' \subseteq accepted
    /\ UNCHANGED <<accepted, pending, dropped>>

Drop ==
    /\ dropped \subseteq dropped' /\ dropped' \subseteq accepted
    /\ pending' \subseteq pending /\ pending \ pending' \subseteq dropped'
    /\ UNCHANGED <<accepted, delivered>>

Settle ==
    /\ pending' \subseteq pending /\ pending \ pending' \subseteq delivered \cup dropped
    /\ UNCHANGED <<accepted, delivered, dropped>>

Return ==
    /\ pending \subseteq pending' /\ pending' \ pending \subseteq delivered \cup dropped
    /\ UNCHANGED <<accepted, delivered, dropped>>

Next == Accept \/ Deliver \/ Drop \/ Settle \/ Return

Spec == Init /\ [][Next]_outbox
=============================================================================
