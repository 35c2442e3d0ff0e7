------------------------------- MODULE Tariffs -------------------------------
(***************************************************************************)
(* The daily and nightly processes (process/daily.rs, nightly.rs) among    *)
(* the others: each execution writes, to every device of the database at   *)
(* the same time, the configuration of its kind and then the tariff, each  *)
(* by write_to_id of the Modbus service (service/modbus/service.rs) and    *)
(* each under tariff_timeout.  The workers behind the service are an       *)
(* abstract RequestServer, which ModbusWorker implements.                  *)
(***************************************************************************)
EXTENDS Processes

CONSTANTS Devices,  \* devices of the database with a kind of the configuration
          Good,     \* those that stay bound and whose meters answer in time
          Lengths   \* records of the configuration and of a tariff

Lists == {"configuration", "tariff"}

ASSUME TariffsAssumption ==
  /\ Good \subseteq Devices
  /\ Lengths \in [Lists -> Nat]

VARIABLES
  stage,    \* what each execution does for each of its devices
  bound,    \* devices in the registry
  caller,   \* what write_to_worker knows of each write
  open,     \* writes of which the workers may still send records
  sent,     \* records of each write that were ever sent to its meter
  applied   \* records of each write the meters have executed

processes == <<started, stopped, tasks, at, uses, memory, server>>
workers == <<caller, open, sent, applied>>
tariffs == <<stage, bound, workers>>

-----------------------------------------------------------------------------
(* The writes: one of each list for a device in an execution.              *)
Requests == (1 .. MaxTasks) \X Devices \X Lists

Kind == [r \in Requests |-> "writes"]
Size == [r \in Requests |-> Lengths[r[3]]]

Server == INSTANCE RequestServer

Stages == Lists \cup {"written", "failed"}

(* The devices that get_devices returns and whose kind has a configuration. *)
Known(c) == IF c = Defaults THEN {} ELSE Devices

Tariff(t) == Process(t) \in {"daily", "nightly"}

Running(t, d) ==
  /\ ~stopped
  /\ t \in Tasks \ {0}
  /\ at[t] = "run"
  /\ Tariff(t)
  /\ d \in DOMAIN stage[t]
  /\ stage[t][d] \in Lists

(* The write an execution is at for a device.                              *)
Write(t, d) == <<t, d, stage[t][d]>>

(* Faulty variant of Settled: one failure ends the execution.              *)
SettledFirst(t) ==
  \/ \E d \in DOMAIN stage[t] : stage[t][d] = "failed"
  \/ \A d \in DOMAIN stage[t] : stage[t][d] = "written"

(* join_all waits for every device, whatever became of the others.         *)
Settled(t) == \A d \in DOMAIN stage[t] : stage[t][d] \in {"written", "failed"}

(* Faulty variant of Following: the result of the first write is ignored.  *)
FollowingAnyway(list, ok) == IF list = "configuration" THEN "tariff" ELSE "written"

Following(list, ok) ==
  CASE ~ok -> "failed"
    [] ok /\ list = "configuration" -> "tariff"
    [] ok /\ list = "tariff" -> "written"

-----------------------------------------------------------------------------
(* Good devices are bound by the discover process of startup, before any   *)
(* tick.                                                                   *)
TInit ==
  /\ Init
  /\ stage = [t \in 1 .. MaxTasks |-> << >>]
  /\ bound = Good
  /\ Server!Init

(* get_devices and the lists of each kind.                                 *)
Fetch(t) ==
  /\ ~stopped
  /\ t # 0
  /\ at[t] = "run"
  /\ Tariff(t)
  /\ stage[t] = << >>
  /\ stage' = [stage EXCEPT ![t] = [d \in Known(uses[t]) |-> "configuration"]]
  /\ UNCHANGED <<processes, bound, workers>>

(* execute ends when every device is settled, or at once if get_devices    *)
(* failed.                                                                 *)
EndTariff(t) ==
  /\ Tariff(t) => Settled(t)
  /\ End(t)
  /\ UNCHANGED tariffs

(* write_to_id looks the device up and sends the request to its worker,    *)
(* which may have ended meanwhile.                                         *)
Send(t, d) ==
  /\ Running(t, d)
  /\ d \in bound
  /\ Server!Ask(Write(t, d))
  /\ d \in Good => caller'[Write(t, d)] = "waiting"
  /\ UNCHANGED <<processes, stage, bound>>

(* DeviceNotFound: ping or discover have unbound the device.               *)
NotFound(t, d) ==
  /\ Running(t, d)
  /\ d \notin bound
  /\ caller[Write(t, d)] = "idle"
  /\ stage' = [stage EXCEPT ![t][d] = Following(@, FALSE)]
  /\ UNCHANGED <<processes, bound, workers>>

(* tariff_timeout drops the future of write_to_id.                         *)
TimeOut(t, d) ==
  /\ Running(t, d)
  /\ d \notin Good
  /\ Server!Leave(Write(t, d))
  /\ stage' = [stage EXCEPT ![t][d] = Following(@, FALSE)]
  /\ UNCHANGED <<processes, bound>>

(* The answer of the worker is taken, an error ends the device's writes.   *)
Settle(t, d) ==
  /\ Running(t, d)
  /\ caller[Write(t, d)] \in {"done", "failed"}
  /\ stage' = [stage EXCEPT ![t][d] = Following(@, caller[Write(t, d)] = "done")]
  /\ UNCHANGED <<processes, bound, workers>>

(* ping and discover bind and stop devices at any time.                    *)
Rebind(d) ==
  /\ ~stopped
  /\ d \notin Good
  /\ bound' = IF d \in bound THEN bound \ {d} ELSE bound \cup {d}
  /\ UNCHANGED <<processes, stage, workers>>

(* What the workers do meanwhile; those of good devices drop nothing.  The *)
(* meters execute what was sent to them even when the program has ended.   *)
Work(r) ==
  /\ \/ ~stopped /\ Server!Answer(r)
     \/ \E part \in 1 .. Size[r] :
          (~stopped /\ Server!Forward(r, part)) \/ Server!Execute(r, part)
  /\ workers' # workers
  /\ UNCHANGED <<processes, stage, bound>>

DropWrites(some) ==
  /\ ~stopped
  /\ some # {}
  /\ \A r \in some : r[2] \notin Good
  /\ Server!Drop(some)
  /\ UNCHANGED <<processes, stage, bound>>

RunTask(t) ==
  \/ (Begin(t) \/ Skip(t) \/ Poll(t) \/ Reload(t)) /\ UNCHANGED tariffs
  \/ Fetch(t)
  \/ EndTariff(t)

RunWrite(t, d) == Send(t, d) \/ NotFound(t, d) \/ TimeOut(t, d) \/ Settle(t, d)

RunTasks == \E t \in Tasks : RunTask(t) \/ \E d \in Devices : RunWrite(t, d)

WorkForGood == \E r \in Requests : r[2] \in Good /\ caller[r] = "waiting" /\ Work(r)

TNext ==
  \/ (Change \/ Stop \/ \E p \in Names : Tick(p)) /\ UNCHANGED tariffs
  \/ RunTasks
  \/ \E d \in Devices : Rebind(d)
  \/ \E r \in Requests : Work(r)
  \/ \E some \in SUBSET {r \in open : r[2] \notin Good} : DropWrites(some)

tvars == <<processes, tariffs>>

(* tokio runs the tasks, and the worker of a good device answers, which    *)
(* GoodRequestsAnswered of ModbusWorker shows.                             *)
TFairness == WF_tvars(RunTasks) /\ WF_workers(WorkForGood)

TSpec == TInit /\ [][TNext]_tvars
FairTSpec == TSpec /\ TFairness

-----------------------------------------------------------------------------
TariffsTypeOK ==
  /\ TypeOK
  /\ DOMAIN stage = 1 .. MaxTasks
  /\ \A t \in 1 .. MaxTasks :
       DOMAIN stage[t] \subseteq Devices /\ \A d \in DOMAIN stage[t] : stage[t][d] \in Stages
  /\ bound \subseteq Devices
  /\ caller \in [Requests -> {"idle", "waiting", "done", "failed", "gone"}]
  /\ open \subseteq Requests
  /\ DOMAIN sent = Requests
  /\ DOMAIN applied = Requests
  /\ \A r \in Requests : sent[r] \cup applied[r] \subseteq 1 .. Size[r]

(* A record of a tariff is sent, and executed, only on top of the          *)
(* configuration of the same execution: all of it was executed and none of *)
(* it is sent again, although a write whose caller has given up may still  *)
(* be carried out.  A copy of a record that was sent before a retry may    *)
(* still be executed.                                                      *)
ConfigurationFirst ==
  \A t \in 1 .. MaxTasks, d \in Devices :
    sent[<<t, d, "tariff">>] \cup applied[<<t, d, "tariff">>] # {} =>
      /\ applied[<<t, d, "configuration">>] = 1 .. Lengths["configuration"]
      /\ <<t, d, "configuration">> \notin open

(* When an execution is over, each device of it that stayed bound and whose *)
(* meter answers in time has its tariff, whatever the writes to the other  *)
(* devices came to.                                                        *)
GoodWritten ==
  \A t \in Tasks \ {0}, d \in Good :
    at[t] = "done" /\ d \in DOMAIN stage[t] =>
      applied[<<t, d, "tariff">>] = 1 .. Lengths["tariff"]
=============================================================================
