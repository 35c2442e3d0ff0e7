----------------------------- MODULE MCMeasure -----------------------------
(* Instances of Measure for TLC: two destinations behind one address.      *)
EXTENDS Measure

CONSTANTS p1, p2, p3, gateway, other

Gateway == [p \in Places |-> IF p = p3 THEN other ELSE gateway]
=============================================================================
