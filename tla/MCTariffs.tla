----------------------------- MODULE MCTariffs -----------------------------
(* Instances of Tariffs, and with it of Processes, for TLC.                *)
EXTENDS Tariffs

CONSTANTS good, other

Executed == <<"poll">>
OneRecord == [list \in Lists |-> 1]
=============================================================================
