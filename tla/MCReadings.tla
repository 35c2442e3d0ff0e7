----------------------------- MODULE MCReadings -----------------------------
(* Instances of Readings for TLC.                                          *)
EXTENDS Readings

UpToThree ==
  {s \in UNION {[1 .. n -> Spans] : n \in 1 .. 3} : Sorted(s)}
=============================================================================
