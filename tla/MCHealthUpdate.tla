--------------------------- MODULE MCHealthUpdate ---------------------------
(* Instances of HealthUpdate for TLC.                                      *)
EXTENDS HealthUpdate
=============================================================================
