----------------------------- MODULE MCDevices -----------------------------
(* Instances of Devices for TLC.                                           *)
EXTENDS Devices

CONSTANTS a1, a2

\* A meter on its own, the first slave of a gateway, and one behind a gap.
AloneOrSlave == {<<a1, Standalone>>, <<a2, 1>>}
OneKind == [id \in Ids |-> "meter"]
=============================================================================
