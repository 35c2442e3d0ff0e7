--------------------------- MODULE MCModbusWorker ---------------------------
(* Instances of ModbusWorker for TLC: requests to good and bad meters      *)
(* behind one address.                                                     *)
EXTENDS ModbusWorker

CONSTANTS read, write, stream, badStream, good, lossy, bad

WriteAndStreams == {write, stream, badStream}
ReadAndStreams == {read, stream, badStream}
MixedKind ==
  [r \in Requests |->
     CASE r = read -> "reads" [] r = write -> "writes" [] OTHER -> "streams"]
OnePart == [r \in Requests |-> 1]
TwoParts == [r \in Requests |-> IF r = badStream THEN 1 ELSE 2]
Meters ==
  [r \in Requests |->
     CASE r = write -> lossy [] r = badStream -> bad [] OTHER -> good]
LossyOrLate == [m \in {good, lossy, bad} |->
  CASE m = good -> {"answer"} [] m = lossy -> {"answer", "silent"} [] m = bad -> {"late"}]
GoodOrDead == [m \in {good, bad} |->
  IF m = good THEN {"answer"} ELSE {"silent"}]
=============================================================================
