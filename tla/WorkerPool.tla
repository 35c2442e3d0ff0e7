----------------------------- MODULE WorkerPool -----------------------------
(***************************************************************************)
(* What the Modbus service promises of its workers (service.rs): each      *)
(* address has at most one, which is started for it, serves it until it is *)
(* released, and is then terminated, once.  No worker serves two addresses *)
(* or serves again.  It is the abstract side of the refinement in          *)
(* ModbusRegistry.                                                         *)
(***************************************************************************)
CONSTANTS Workers,    \* workers that may be started
          Addresses,  \* addresses of Modbus servers
          None        \* no worker

VARIABLES serving,  \* the worker of each address
          leaving,  \* workers released and not yet terminated
          ended     \* workers that were terminated

vars == <<serving, leaving, ended>>

Fresh == Workers \ ({serving[a] : a \in Addresses} \cup leaving \cup ended)

Init ==
  /\ serving = [a \in Addresses |-> None]
  /\ leaving = {}
  /\ ended = {}

Start(a, w) ==
  /\ serving[a] = None
  /\ w \in Fresh
  /\ serving' = [serving EXCEPT ![a] = w]
  /\ UNCHANGED <<leaving, ended>>

Release(a) ==
  /\ serving[a] # None
  /\ leaving' = leaving \cup {serving[a]}
  /\ serving' = [serving EXCEPT ![a] = None]
  /\ UNCHANGED ended

Terminate(w) ==
  /\ w \in leaving
  /\ leaving' = leaving \ {w}
  /\ ended' = ended \cup {w}
  /\ UNCHANGED serving

Next ==
  \/ \E a \in Addresses, w \in Workers : Start(a, w)
  \/ \E a \in Addresses : Release(a)
  \/ \E w \in Workers : Terminate(w)

Spec == Init /\ [][Next]_vars
=============================================================================
