--------------------------- MODULE ModbusRegistry ---------------------------
(***************************************************************************)
(* The Modbus service (src/cli/src/service/modbus/service.rs): a map of    *)
(* devices by id and a map of servers by address, each behind its own      *)
(* mutex, and one worker per server.  Every operation is a few sections    *)
(* under one of the locks with awaits between them, and the ping and       *)
(* discover processes run many operations at the same time.                *)
(***************************************************************************)
EXTENDS Naturals, FiniteSets

CONSTANTS Ids,         \* device ids
          Addresses,   \* socket addresses of Modbus servers
          Callers,     \* operations that may be under way at the same time
          MaxWorkers,  \* bound: workers ever started
          MaxChanges,  \* bound: devices that move or are stopped
          None         \* no entry

ASSUME RegistryAssumption ==
  /\ MaxWorkers \in Nat
  /\ MaxChanges \in Nat
  /\ None \notin 1 .. MaxWorkers
  /\ None \notin Addresses

VARIABLES
  place,    \* destination of each device in the devices table
  devices,  \* self.devices: worker and address by id
  servers,  \* self.servers: worker by address
  home,     \* history: the address each started worker was started for
  ended,    \* workers that were terminated
  changes,  \* moves and stops so far
  pc,       \* what each caller does next, "idle" outside of an operation
  job       \* the id, address and worker it does it with

vars == <<place, devices, servers, home, ended, changes, pc, job>>

-----------------------------------------------------------------------------
Workers == 1 .. MaxWorkers
Started == {w \in Workers : home[w] # None}
At(address) ==
  {id \in Ids : devices[id] # None /\ devices[id].address = address}

Goto(c, label) == pc' = [pc EXCEPT ![c] = label]

Init ==
  /\ place \in [Ids -> Addresses]
  /\ devices = [id \in Ids |-> None]
  /\ servers = [a \in Addresses |-> None]
  /\ home = [w \in Workers |-> None]
  /\ ended = {}
  /\ changes = 0
  /\ pc = [c \in Callers |-> "idle"]
  /\ job = [c \in Callers |-> None]

(* Faulty variant of GetServer: it does not look for a server that is there. *)
GetServerNew(a, w) ==
  /\ w \in Workers \ Started
  /\ home' = [home EXCEPT ![w] = a]
  /\ servers' = [servers EXCEPT ![a] = w]

(* get_server: the worker of the server, which is started if there is none. *)
GetServer(a, w) ==
  \/ /\ servers[a] # None
     /\ w = servers[a]
     /\ UNCHANGED <<servers, home>>
  \/ /\ servers[a] = None
     /\ w \in Workers \ Started
     /\ \A v \in Workers \ Started : w <= v
     /\ home' = [home EXCEPT ![w] = a]
     /\ servers' = [servers EXCEPT ![a] = w]

(* read_, write_ and stream_from_destination, of discover.                 *)
Scan(a) ==
  /\ \E w \in Workers : GetServer(a, w)
  /\ UNCHANGED <<place, devices, ended, changes, pc, job>>

(* bind of the destination in the devices table: get_server ...            *)
BeginBind(c, id) ==
  /\ pc[c] = "idle"
  /\ \E w \in Workers :
       /\ GetServer(place[id], w)
       /\ job' = [job EXCEPT ![c] = [id |-> id, address |-> place[id], worker |-> w]]
  /\ Goto(c, "insert")
  /\ UNCHANGED <<place, devices, ended, changes>>

(* Faulty variant of InsertDevice: a bound device stays as it is.          *)
InsertDeviceOnce(c) ==
  /\ pc[c] = "insert"
  /\ devices' = [devices EXCEPT ![job[c].id] =
                   IF @ # None THEN @
                   ELSE [worker |-> job[c].worker, address |-> job[c].address]]
  /\ Goto(c, "idle")
  /\ UNCHANGED <<place, servers, home, ended, changes, job>>

(* ... and, under the other lock, the device.                              *)
InsertDevice(c) ==
  /\ pc[c] = "insert"
  /\ devices' = [devices EXCEPT ![job[c].id] =
                   [worker |-> job[c].worker, address |-> job[c].address]]
  /\ Goto(c, "idle")
  /\ UNCHANGED <<place, servers, home, ended, changes, job>>

(* stop_from_id: the last device of an address takes the server with it.   *)
StopFromId(c, id) ==
  /\ pc[c] = "idle"
  /\ devices[id] # None
  /\ changes < MaxChanges
  /\ changes' = changes + 1
  /\ devices' = [devices EXCEPT ![id] = None]
  /\ IF At(devices[id].address) = {id}
     THEN /\ Goto(c, "retain")
          /\ job' = [job EXCEPT ![c] = [id |-> id, address |-> devices[id].address,
                                        worker |-> None]]
     ELSE UNCHANGED <<pc, job>>
  /\ UNCHANGED <<place, servers, home, ended>>

(* stop_from_address: devices bound to the address by now go as well, ...  *)
Retain(c) ==
  /\ pc[c] = "retain"
  /\ devices' = [id \in Ids |->
                   IF id \in At(job[c].address) THEN None ELSE devices[id]]
  /\ Goto(c, "remove")
  /\ UNCHANGED <<place, servers, home, ended, changes, job>>

(* Faulty variants of RemoveServer: the server stays in the map; it is     *)
(* taken to be there.                                                      *)
RemoveServerKeep(c) ==
  /\ pc[c] = "remove"
  /\ job' = [job EXCEPT ![c].worker = servers[job[c].address]]
  /\ Goto(c, IF servers[job[c].address] = None THEN "idle" ELSE "terminate")
  /\ UNCHANGED <<place, devices, servers, home, ended, changes>>
RemoveServerUnchecked(c) ==
  /\ pc[c] = "remove"
  /\ servers' = [servers EXCEPT ![job[c].address] = None]
  /\ job' = [job EXCEPT ![c].worker = servers[job[c].address]]
  /\ Goto(c, "terminate")
  /\ UNCHANGED <<place, devices, home, ended, changes>>

(* ... the server is removed, ...                                          *)
RemoveServer(c) ==
  /\ pc[c] = "remove"
  /\ servers' = [servers EXCEPT ![job[c].address] = None]
  /\ job' = [job EXCEPT ![c].worker = servers[job[c].address]]
  /\ Goto(c, IF servers[job[c].address] = None THEN "idle" ELSE "terminate")
  /\ UNCHANGED <<place, devices, home, ended, changes>>

(* ... and its worker terminated.                                          *)
TerminateWorker(c) ==
  /\ pc[c] = "terminate"
  /\ ended' = ended \cup {job[c].worker}
  /\ Goto(c, "idle")
  /\ UNCHANGED <<place, devices, servers, home, changes, job>>

(* discover found a device elsewhere and updated the devices table.        *)
Move(id, a) ==
  /\ a # place[id]
  /\ changes < MaxChanges
  /\ changes' = changes + 1
  /\ place' = [place EXCEPT ![id] = a]
  /\ UNCHANGED <<devices, servers, home, ended, pc, job>>

Step(c) == InsertDevice(c) \/ Retain(c) \/ RemoveServer(c) \/ TerminateWorker(c)

Next ==
  \/ \E a \in Addresses : Scan(a)
  \/ \E c \in Callers, id \in Ids : BeginBind(c, id) \/ StopFromId(c, id)
  \/ \E c \in Callers : Step(c)
  \/ \E id \in Ids, a \in Addresses : Move(id, a)

(* Operations that began go on, and every ping binds every device.         *)
Fairness ==
  /\ \A c \in Callers : WF_vars(Step(c))
  /\ \A id \in Ids : SF_vars(\E c \in Callers : BeginBind(c, id))

Spec == Init /\ [][Next]_vars
FairSpec == Spec /\ Fairness

-----------------------------------------------------------------------------
Entries == [worker : Workers, address : Addresses]
Jobs == [id : Ids, address : Addresses, worker : Workers \cup {None}]

TypeOK ==
  /\ place \in [Ids -> Addresses]
  /\ devices \in [Ids -> Entries \cup {None}]
  /\ servers \in [Addresses -> Workers \cup {None}]
  /\ home \in [Workers -> Addresses \cup {None}]
  /\ ended \subseteq Started
  /\ changes \in Nat
  /\ pc \in [Callers -> {"idle", "insert", "retain", "remove", "terminate"}]
  /\ job \in [Callers -> Jobs \cup {None}]

(* The worker of a server is for its address and was not terminated.       *)
ServersLive ==
  \A a \in Addresses :
    servers[a] # None => home[servers[a]] = a /\ servers[a] \notin ended

(* A worker that runs is the worker of a server or about to be terminated: *)
(* no worker keeps a meter's connection with nothing left to stop it, and  *)
(* there are never two servers for one address.                            *)
NoOrphanWorkers ==
  \A w \in Started \ ended :
    \/ servers[home[w]] = w
    \/ \E c \in Callers : pc[c] = "terminate" /\ job[c].worker = w

(* A worker is terminated by one operation only.                           *)
TerminatedOnce ==
  \A c, d \in Callers :
    pc[c] = "terminate" /\ pc[d] = "terminate" /\ job[c].worker = job[d].worker
      => c = d

(* Workers taken out of the map by an operation that is to terminate them. *)
Leaving == {job[c].worker : c \in {d \in Callers : pc[d] = "terminate"}}

Pool == INSTANCE WorkerPool WITH serving <- servers, leaving <- Leaving

(* However the sections of binds, stops and scans interleave, workers are  *)
(* those of a pool: one per address, each started, released by one         *)
(* operation and terminated by it.                                         *)
ImplementsPool == Pool!Spec

(* A device is only ever bound to a worker of the address it was bound at: *)
(* no request for it goes to a meter somewhere else, even when the worker  *)
(* was terminated meanwhile and another one serves the address.            *)
EntriesAtHome ==
  \A id \in Ids :
    devices[id] # None => home[devices[id].worker] = devices[id].address

Served(id) ==
  /\ devices[id] # None
  /\ devices[id].address = place[id]
  /\ devices[id].worker = servers[place[id]]

(* However binds and stops overlap, once no device moves or is stopped any *)
(* more, each gets and keeps the worker of the server at its place.        *)
AllServedInTheEnd == \A id \in Ids : <>[]Served(id)
=============================================================================
