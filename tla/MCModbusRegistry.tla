-------------------------- MODULE MCModbusRegistry --------------------------
(* Instances of ModbusRegistry for TLC.                                    *)
EXTENDS ModbusRegistry
=============================================================================
