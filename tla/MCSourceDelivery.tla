--------------------------- MODULE MCSourceDelivery ---------------------------
(* Instances of SourceDelivery for TLC.                                    *)
EXTENDS SourceDelivery

CONSTANTS e1, e2, e3

\* occurred in this order
MCOccurredAt == [e \in Events |-> CASE e = e1 -> 1 [] e = e2 -> 2 [] e = e3 -> 3]
=============================================================================
