------------------------ MODULE ModbusRegistryProofs ------------------------
(***************************************************************************)
(* Proofs about ModbusRegistry for every set of devices, of addresses and  *)
(* of operations that overlap.                                             *)
(***************************************************************************)
EXTENDS ModbusRegistry, TLAPS

(* A bind holds a worker until it has inserted the device; an operation    *)
(* that is not idle knows its address.                                     *)
JobsOK ==
  \A c \in Callers :
    /\ pc[c] # "idle" => job[c] \in Jobs
    /\ pc[c] = "insert" => job[c].worker \in Workers

(* A worker about to be terminated was started, runs, and is the worker of *)
(* no server any more.                                                     *)
PendingOK ==
  \A c \in Callers :
    pc[c] = "terminate" =>
      /\ job[c].worker \in Started \ ended
      /\ servers[home[job[c].worker]] # job[c].worker

Owners == ServersLive /\ NoOrphanWorkers /\ TerminatedOnce /\ PendingOK

IInv == TypeOK /\ JobsOK /\ Owners

-----------------------------------------------------------------------------
(* Started workers have an address.                                        *)
LEMMA StartedHome ==
  ASSUME TypeOK, NEW w \in Started
  PROVE  w \in Workers /\ home[w] \in Addresses /\ w # None
BY RegistryAssumption DEF TypeOK, Started, Workers

(* The worker of a server is a started one.                                *)
LEMMA ServersStarted ==
  ASSUME TypeOK, ServersLive, NEW a \in Addresses, servers[a] # None
  PROVE  servers[a] \in Started \ ended /\ home[servers[a]] = a
<1>1. servers[a] \in Workers
  BY DEF TypeOK
<1>2. home[servers[a]] = a /\ servers[a] \notin ended
  BY DEF ServersLive
<1> QED
  BY <1>1, <1>2, RegistryAssumption DEF Started

(* get_server under its lock: either nothing changes or a worker nobody    *)
(* has heard of becomes that of an address without a server.               *)
LEMMA GetServerStep ==
  ASSUME IInv, NEW a \in Addresses, NEW w \in Workers, GetServer(a, w),
         ended' = ended,
         \A c \in Callers :
           /\ pc'[c] = "terminate" <=> pc[c] = "terminate"
           /\ pc[c] = "terminate" => job'[c] = job[c]
  PROVE  /\ servers' \in [Addresses -> Workers \cup {None}]
         /\ home' \in [Workers -> Addresses \cup {None}]
         /\ ended' \subseteq Started'
         /\ Owners'
<1> USE DEF IInv, Owners
<1>1. CASE UNCHANGED <<servers, home>>
  <2>1. Started' = Started
    BY <1>1 DEF Started
  <2>2. ServersLive'
    BY <1>1 DEF ServersLive
  <2>3. NoOrphanWorkers'
    BY <1>1, <2>1 DEF NoOrphanWorkers
  <2>4. TerminatedOnce' /\ PendingOK'
    BY <1>1, <2>1 DEF TerminatedOnce, PendingOK
  <2> QED
    BY <1>1, <2>1, <2>2, <2>3, <2>4 DEF TypeOK
<1>2. CASE /\ servers[a] = None
           /\ w \in Workers \ Started
           /\ home' = [home EXCEPT ![w] = a]
           /\ servers' = [servers EXCEPT ![a] = w]
  <2>1. /\ servers' \in [Addresses -> Workers \cup {None}]
        /\ home' \in [Workers -> Addresses \cup {None}]
        /\ servers'[a] = w /\ home'[w] = a
        /\ \A b \in Addresses \ {a} : servers'[b] = servers[b]
        /\ \A v \in Workers \ {w} : home'[v] = home[v]
    BY <1>2 DEF TypeOK
  <2>2. Started' = Started \cup {w}
    BY <1>2, <2>1, RegistryAssumption DEF Started
  <2>3. w \notin ended
    BY <1>2 DEF TypeOK
  <2>4. ServersLive'
    <3> SUFFICES ASSUME NEW b \in Addresses, servers'[b] # None
                 PROVE  home'[servers'[b]] = b /\ servers'[b] \notin ended
      BY DEF ServersLive
    <3>1. CASE b = a
      BY <2>1, <2>3, <3>1
    <3>2. CASE b # a
      <4>1. servers[b] \in Started \ ended /\ home[servers[b]] = b
        BY <2>1, <3>2, ServersStarted
      <4> QED
        BY <1>2, <2>1, <3>2, <4>1, StartedHome
    <3> QED
      BY <3>1, <3>2
  <2>5. NoOrphanWorkers'
    <3> SUFFICES ASSUME NEW v \in Started' \ ended'
                 PROVE  \/ servers'[home'[v]] = v
                        \/ \E c \in Callers : pc'[c] = "terminate" /\ job'[c].worker = v
      BY DEF NoOrphanWorkers
    <3>1. CASE v = w
      BY <2>1, <3>1
    <3>2. CASE v # w
      <4>1. v \in Started \ ended /\ v \in Workers /\ home[v] \in Addresses /\ v # None
        BY <2>2, <3>2, StartedHome
      <4>2. CASE servers[home[v]] = v
        BY <1>2, <2>1, <3>2, <4>1, <4>2
      <4>3. CASE \E c \in Callers : pc[c] = "terminate" /\ job[c].worker = v
        BY <4>3
      <4> QED
        BY <4>1, <4>2, <4>3 DEF NoOrphanWorkers
    <3> QED
      BY <3>1, <3>2
  <2>6. TerminatedOnce'
    BY DEF TerminatedOnce
  <2>7. PendingOK'
    <3> SUFFICES ASSUME NEW c \in Callers, pc[c] = "terminate"
                 PROVE  /\ job[c].worker \in Started' \ ended'
                        /\ servers'[home'[job[c].worker]] # job[c].worker
      BY DEF PendingOK
    <3>1. /\ job[c].worker \in Started \ ended
          /\ servers[home[job[c].worker]] # job[c].worker
      BY DEF PendingOK
    <3>2. job[c].worker \in Workers /\ home[job[c].worker] \in Addresses
      BY <3>1, StartedHome
    <3> QED
      BY <1>2, <2>1, <2>2, <3>1, <3>2
  <2> QED
    BY <2>1, <2>2, <2>4, <2>5, <2>6, <2>7 DEF TypeOK
<1> QED
  BY <1>1, <1>2 DEF GetServer

-----------------------------------------------------------------------------
(* Steps that touch neither servers nor workers nor a pending termination. *)
LEMMA OwnersKept ==
  ASSUME Owners, UNCHANGED <<servers, home, ended>>,
         \A c \in Callers :
           /\ pc'[c] = "terminate" <=> pc[c] = "terminate"
           /\ pc[c] = "terminate" => job'[c] = job[c]
  PROVE  Owners'
<1> USE DEF Owners
<1>1. Started' = Started
  BY DEF Started
<1>2. ServersLive'
  BY DEF ServersLive
<1>3. NoOrphanWorkers'
  BY <1>1 DEF NoOrphanWorkers
<1>4. TerminatedOnce' /\ PendingOK'
  BY <1>1 DEF TerminatedOnce, PendingOK
<1> QED
  BY <1>2, <1>3, <1>4

(* A scan only gets a server.                                              *)
LEMMA ScanStep == ASSUME IInv, NEW a \in Addresses, Scan(a) PROVE IInv'
<1>1. PICK w \in Workers : GetServer(a, w)
  BY DEF Scan
<1>2. UNCHANGED <<place, devices, ended, changes, pc, job>>
  BY DEF Scan
<1>3. /\ servers' \in [Addresses -> Workers \cup {None}]
      /\ home' \in [Workers -> Addresses \cup {None}]
      /\ ended' \subseteq Started'
      /\ Owners'
  BY <1>1, <1>2, GetServerStep
<1>4. TypeOK'
  BY <1>2, <1>3 DEF IInv, TypeOK
<1>5. JobsOK'
  BY <1>2 DEF IInv, JobsOK
<1> QED
  BY <1>3, <1>4, <1>5 DEF IInv

(* The first section of bind gets a server and keeps its worker.           *)
LEMMA BeginBindStep ==
  ASSUME IInv, NEW c \in Callers, NEW id \in Ids, BeginBind(c, id)
  PROVE  IInv'
<1> USE DEF IInv, Goto
<1>1. PICK w \in Workers :
        /\ GetServer(place[id], w)
        /\ job' = [job EXCEPT ![c] = [id |-> id, address |-> place[id], worker |-> w]]
  BY DEF BeginBind
<1>2. /\ UNCHANGED <<place, devices, ended, changes>>
      /\ pc' = [pc EXCEPT ![c] = "insert"]
      /\ pc[c] = "idle"
  BY DEF BeginBind
<1>3. place[id] \in Addresses
  BY DEF TypeOK
<1>4. \A d \in Callers : pc'[d] = IF d = c THEN "insert" ELSE pc[d]
  BY <1>2 DEF TypeOK
<1>5. \A d \in Callers \ {c} : job'[d] = job[d]
  BY <1>1 DEF TypeOK
<1>6. /\ servers' \in [Addresses -> Workers \cup {None}]
      /\ home' \in [Workers -> Addresses \cup {None}]
      /\ ended' \subseteq Started'
      /\ Owners'
  <2>1. \A d \in Callers :
          /\ pc'[d] = "terminate" <=> pc[d] = "terminate"
          /\ pc[d] = "terminate" => job'[d] = job[d]
    BY <1>2, <1>4, <1>5
  <2> QED
    BY <1>1, <1>2, <1>3, <2>1, GetServerStep
<1>7. job'[c] = [id |-> id, address |-> place[id], worker |-> w]
  BY <1>1 DEF TypeOK
<1>8. job'[c] \in Jobs /\ job'[c].worker \in Workers
  BY <1>3, <1>7 DEF Jobs
<1>9. TypeOK'
  <2>1. job' \in [Callers -> Jobs \cup {None}]
    BY <1>1, <1>7, <1>8 DEF TypeOK
  <2>2. pc' \in [Callers -> {"idle", "insert", "retain", "remove", "terminate"}]
    BY <1>2 DEF TypeOK
  <2> QED
    BY <1>2, <1>6, <2>1, <2>2 DEF TypeOK
<1>10. JobsOK'
  BY <1>4, <1>5, <1>8 DEF JobsOK
<1> QED
  BY <1>6, <1>9, <1>10

(* The second section inserts the device.                                  *)
LEMMA InsertDeviceStep ==
  ASSUME IInv, NEW c \in Callers, InsertDevice(c)
  PROVE  IInv'
<1> USE DEF IInv, Goto
<1>1. /\ UNCHANGED <<place, servers, home, ended, changes, job>>
      /\ pc' = [pc EXCEPT ![c] = "idle"]
      /\ pc[c] = "insert"
  BY DEF InsertDevice
<1>2. \A d \in Callers : pc'[d] = IF d = c THEN "idle" ELSE pc[d]
  BY <1>1 DEF TypeOK
<1>3. job[c] \in Jobs /\ job[c].worker \in Workers
  BY <1>1 DEF JobsOK
<1>4. [worker |-> job[c].worker, address |-> job[c].address] \in Entries
  BY <1>3 DEF Jobs, Entries
<1>5. devices' \in [Ids -> Entries \cup {None}]
  BY <1>4 DEF InsertDevice, TypeOK
<1>6. TypeOK'
  <2>1. pc' \in [Callers -> {"idle", "insert", "retain", "remove", "terminate"}]
    BY <1>1 DEF TypeOK
  <2>2. Started' = Started
    BY <1>1 DEF Started
  <2> QED
    BY <1>1, <1>5, <2>1, <2>2 DEF TypeOK
<1>7. JobsOK'
  BY <1>1, <1>2 DEF JobsOK
<1>8. Owners'
  BY <1>1, <1>2, OwnersKept
<1> QED
  BY <1>6, <1>7, <1>8
(* The first section of a stop takes the device out of the map.            *)
LEMMA StopFromIdStep ==
  ASSUME IInv, NEW c \in Callers, NEW id \in Ids, StopFromId(c, id)
  PROVE  IInv'
<1> USE DEF IInv, Goto
<1>1. /\ UNCHANGED <<place, servers, home, ended>>
      /\ changes' = changes + 1
      /\ devices' = [devices EXCEPT ![id] = None]
      /\ pc[c] = "idle"
      /\ devices[id] # None
  BY DEF StopFromId
<1>2. devices[id].address \in Addresses
  BY <1>1 DEF TypeOK, Entries
<1>3. \/ UNCHANGED <<pc, job>>
      \/ /\ pc' = [pc EXCEPT ![c] = "retain"]
         /\ job' = [job EXCEPT ![c] = [id |-> id, address |-> devices[id].address,
                                       worker |-> None]]
  BY DEF StopFromId
<1>4. /\ \A d \in Callers \ {c} : pc'[d] = pc[d] /\ job'[d] = job[d]
      /\ pc'[c] \in {"idle", "retain"}
      /\ pc'[c] = "retain" => job'[c] \in Jobs
      /\ pc' \in [Callers -> {"idle", "insert", "retain", "remove", "terminate"}]
      /\ job' \in [Callers -> Jobs \cup {None}]
  <2>1. CASE UNCHANGED <<pc, job>>
    BY <1>1, <2>1 DEF TypeOK
  <2>2. CASE /\ pc' = [pc EXCEPT ![c] = "retain"]
             /\ job' = [job EXCEPT ![c] = [id |-> id, address |-> devices[id].address,
                                           worker |-> None]]
    <3>1. [id |-> id, address |-> devices[id].address, worker |-> None] \in Jobs
      BY <1>2 DEF Jobs
    <3> QED
      BY <2>2, <3>1 DEF TypeOK
  <2> QED
    BY <1>3, <2>1, <2>2
<1>5. TypeOK'
  <2>1. Started' = Started
    BY <1>1 DEF Started
  <2> QED
    BY <1>1, <1>4, <2>1 DEF TypeOK
<1>6. JobsOK'
  BY <1>4 DEF JobsOK
<1>7. Owners'
  BY <1>1, <1>4, OwnersKept
<1> QED
  BY <1>5, <1>6, <1>7

(* The second section takes the other devices of the address out.          *)
LEMMA RetainStep ==
  ASSUME IInv, NEW c \in Callers, Retain(c)
  PROVE  IInv'
<1> USE DEF IInv, Goto
<1>1. /\ UNCHANGED <<place, servers, home, ended, changes, job>>
      /\ pc' = [pc EXCEPT ![c] = "remove"]
      /\ pc[c] = "retain"
  BY DEF Retain
<1>2. \A d \in Callers : pc'[d] = IF d = c THEN "remove" ELSE pc[d]
  BY <1>1 DEF TypeOK
<1>3. devices' \in [Ids -> Entries \cup {None}]
  BY DEF Retain, TypeOK
<1>4. TypeOK'
  <2>1. pc' \in [Callers -> {"idle", "insert", "retain", "remove", "terminate"}]
    BY <1>1 DEF TypeOK
  <2>2. Started' = Started
    BY <1>1 DEF Started
  <2> QED
    BY <1>1, <1>3, <2>1, <2>2 DEF TypeOK
<1>5. JobsOK'
  BY <1>1, <1>2 DEF JobsOK
<1>6. Owners'
  BY <1>1, <1>2, OwnersKept
<1> QED
  BY <1>4, <1>5, <1>6

(* The third section removes the server: from here on its worker belongs   *)
(* to the operation that is to terminate it.                               *)
LEMMA RemoveServerStep ==
  ASSUME IInv, NEW c \in Callers, RemoveServer(c)
  PROVE  IInv'
<1> USE DEF IInv, Goto, Owners
<1> DEFINE a == job[c].address
           w == servers[a]
<1>1. /\ UNCHANGED <<place, devices, home, ended, changes>>
      /\ servers' = [servers EXCEPT ![a] = None]
      /\ job' = [job EXCEPT ![c].worker = w]
      /\ pc' = [pc EXCEPT ![c] = IF w = None THEN "idle" ELSE "terminate"]
      /\ pc[c] = "remove"
  BY DEF RemoveServer
<1>2. job[c] \in Jobs /\ a \in Addresses
  BY <1>1 DEF JobsOK, Jobs
<1>3. w \in Workers \cup {None}
  BY <1>2 DEF TypeOK
<1>4. /\ job'[c] \in Jobs /\ job'[c].worker = w
      /\ job' \in [Callers -> Jobs \cup {None}]
      /\ \A d \in Callers \ {c} : job'[d] = job[d]
  <2>1. [job[c] EXCEPT !.worker = w] \in Jobs /\ [job[c] EXCEPT !.worker = w].worker = w
    BY <1>2, <1>3 DEF Jobs
  <2>2. job' = [job EXCEPT ![c] = [job[c] EXCEPT !.worker = w]]
    BY <1>1
  <2> HIDE DEF w, a
  <2> QED
    BY <2>1, <2>2 DEF TypeOK
<1>5. /\ pc' \in [Callers -> {"idle", "insert", "retain", "remove", "terminate"}]
      /\ pc'[c] = IF w = None THEN "idle" ELSE "terminate"
      /\ \A d \in Callers \ {c} : pc'[d] = pc[d]
  BY <1>1 DEF TypeOK
<1>6. /\ servers' \in [Addresses -> Workers \cup {None}]
      /\ servers'[a] = None
      /\ \A b \in Addresses \ {a} : servers'[b] = servers[b]
  BY <1>1, <1>2 DEF TypeOK
<1>7. Started' = Started
  BY <1>1 DEF Started
<1>8. w # None => w \in Started \ ended /\ home[w] = a
  BY <1>2, ServersStarted
<1> HIDE DEF w
<1>9. TypeOK'
  BY <1>1, <1>4, <1>5, <1>6, <1>7 DEF TypeOK
<1>10. JobsOK'
  BY <1>4, <1>5 DEF JobsOK
<1>11. ServersLive'
  BY <1>1, <1>2, <1>6 DEF ServersLive
<1>12. NoOrphanWorkers'
  <2> SUFFICES ASSUME NEW v \in Started \ ended
               PROVE  \/ servers'[home[v]] = v
                      \/ \E d \in Callers : pc'[d] = "terminate" /\ job'[d].worker = v
    BY <1>1, <1>7 DEF NoOrphanWorkers
  <2>1. home[v] \in Addresses /\ v # None
    BY StartedHome
  <2>2. CASE servers[home[v]] = v
    <3>1. CASE home[v] = a
      BY <1>4, <1>5, <2>1, <2>2, <3>1 DEF w
    <3>2. CASE home[v] # a
      BY <1>6, <2>1, <2>2, <3>2
    <3> QED
      BY <3>1, <3>2
  <2>3. ASSUME NEW d \in Callers, pc[d] = "terminate", job[d].worker = v
        PROVE  pc'[d] = "terminate" /\ job'[d].worker = v
    BY <1>1, <1>4, <1>5, <2>3
  <2> QED
    BY <2>2, <2>3 DEF NoOrphanWorkers
<1>13. \A d \in Callers \ {c} : pc'[d] = "terminate" =>
          /\ job[d].worker \in Started \ ended
          /\ servers[home[job[d].worker]] # job[d].worker
  BY <1>5 DEF PendingOK
<1>14. TerminatedOnce'
  <2> SUFFICES ASSUME NEW d \in Callers \ {c}, pc'[c] = "terminate", pc'[d] = "terminate",
                      job'[c].worker = job'[d].worker
               PROVE  FALSE
    BY <1>4, <1>5 DEF TerminatedOnce
  <2>1. w # None /\ job[d].worker = w
    BY <1>4, <1>5
  <2> QED
    BY <1>8, <1>13, <2>1 DEF w
<1>15. PendingOK'
  <2> SUFFICES ASSUME NEW d \in Callers, pc'[d] = "terminate"
               PROVE  /\ job'[d].worker \in Started \ ended
                      /\ servers'[home[job'[d].worker]] # job'[d].worker
    BY <1>1, <1>7 DEF PendingOK
  <2>1. CASE d = c
    BY <1>4, <1>5, <1>6, <1>8, <2>1
  <2>2. CASE d # c
    <3>1. job'[d] = job[d] /\ job[d].worker \in Started \ ended
          /\ servers[home[job[d].worker]] # job[d].worker
      BY <1>4, <1>13, <2>2
    <3>2. home[job[d].worker] \in Addresses /\ job[d].worker # None
      BY <3>1, StartedHome
    <3> QED
      BY <1>6, <3>1, <3>2
  <2> QED
    BY <2>1, <2>2
<1> QED
  BY <1>9, <1>10, <1>11, <1>12, <1>14, <1>15

(* The worker is terminated by the one operation that owns it.             *)
LEMMA TerminateWorkerStep ==
  ASSUME IInv, NEW c \in Callers, TerminateWorker(c)
  PROVE  IInv'
<1> USE DEF IInv, Goto, Owners
<1> DEFINE w == job[c].worker
<1>1. /\ UNCHANGED <<place, devices, servers, home, changes, job>>
      /\ ended' = ended \cup {w}
      /\ pc' = [pc EXCEPT ![c] = "idle"]
      /\ pc[c] = "terminate"
  BY DEF TerminateWorker
<1>2. w \in Started \ ended /\ servers[home[w]] # w
  BY <1>1 DEF PendingOK
<1>3. \A d \in Callers : pc'[d] = IF d = c THEN "idle" ELSE pc[d]
  BY <1>1 DEF TypeOK
<1>4. Started' = Started
  BY <1>1 DEF Started
<1>5. \A d \in Callers \ {c} : pc[d] = "terminate" => job[d].worker # w
  BY <1>1 DEF TerminatedOnce
<1> HIDE DEF w
<1>6. TypeOK'
  <2>1. pc' \in [Callers -> {"idle", "insert", "retain", "remove", "terminate"}]
    BY <1>1 DEF TypeOK
  <2> QED
    BY <1>1, <1>2, <1>4, <2>1 DEF TypeOK
<1>7. JobsOK'
  BY <1>1, <1>3 DEF JobsOK
<1>8. ServersLive'
  <2>1. ASSUME NEW a \in Addresses, servers[a] # None
        PROVE  servers[a] # w
    <3>1. home[servers[a]] = a
      BY <2>1 DEF ServersLive
    <3> QED
      BY <1>2, <3>1
  <2> QED
    BY <1>1, <2>1 DEF ServersLive
<1>9. NoOrphanWorkers'
  <2> SUFFICES ASSUME NEW v \in Started \ (ended \cup {w})
               PROVE  \/ servers[home[v]] = v
                      \/ \E d \in Callers : pc'[d] = "terminate" /\ job[d].worker = v
    BY <1>1, <1>4 DEF NoOrphanWorkers
  <2>1. ASSUME NEW d \in Callers, pc[d] = "terminate", job[d].worker = v
        PROVE  pc'[d] = "terminate"
    BY <1>3, <2>1 DEF w
  <2> QED
    BY <2>1 DEF NoOrphanWorkers
<1>10. TerminatedOnce'
  BY <1>1, <1>3 DEF TerminatedOnce
<1>11. PendingOK'
  BY <1>1, <1>3, <1>4, <1>5 DEF PendingOK
<1> QED
  BY <1>6, <1>7, <1>8, <1>9, <1>10, <1>11

(* A device that moves changes nothing in the registry.                    *)
LEMMA MoveStep ==
  ASSUME IInv, NEW id \in Ids, NEW a \in Addresses, Move(id, a)
  PROVE  IInv'
<1> USE DEF IInv
<1>1. UNCHANGED <<devices, servers, home, ended, pc, job>> /\ changes' = changes + 1
      /\ place' = [place EXCEPT ![id] = a]
  BY DEF Move
<1>2. Started' = Started
  BY <1>1 DEF Started
<1>3. TypeOK'
  BY <1>1, <1>2 DEF TypeOK
<1>4. JobsOK'
  BY <1>1 DEF JobsOK
<1>5. Owners'
  BY <1>1, OwnersKept
<1> QED
  BY <1>3, <1>4, <1>5

-----------------------------------------------------------------------------
(* Each section of each operation keeps the invariant.                     *)
LEMMA InvStep == IInv /\ [Next]_vars => IInv'
<1> SUFFICES ASSUME IInv, [Next]_vars
             PROVE  IInv'
  OBVIOUS
<1>1. ASSUME NEW a \in Addresses, Scan(a)
      PROVE  IInv'
  BY <1>1, ScanStep
<1>2. ASSUME NEW c \in Callers, NEW id \in Ids, BeginBind(c, id) \/ StopFromId(c, id)
      PROVE  IInv'
  BY <1>2, BeginBindStep, StopFromIdStep
<1>3. ASSUME NEW c \in Callers, Step(c)
      PROVE  IInv'
  BY <1>3, InsertDeviceStep, RetainStep, RemoveServerStep, TerminateWorkerStep DEF Step
<1>4. ASSUME NEW id \in Ids, NEW a \in Addresses, Move(id, a)
      PROVE  IInv'
  BY <1>4, MoveStep
<1>5. CASE UNCHANGED vars
  <2>1. UNCHANGED <<place, devices, servers, home, ended, changes, pc, job>>
    BY <1>5 DEF vars
  <2>2. Started' = Started
    BY <2>1 DEF Started
  <2>3. TypeOK' /\ JobsOK'
    BY <2>1, <2>2 DEF IInv, TypeOK, JobsOK
  <2>4. Owners'
    BY <2>1, OwnersKept DEF IInv
  <2> QED
    BY <2>3, <2>4 DEF IInv
<1> QED
  BY <1>1, <1>2, <1>3, <1>4, <1>5 DEF Next

(* The inductive invariant of the registry.                                *)
THEOREM Invariance == Spec => []IInv
<1>1. Init => IInv
  <2> SUFFICES ASSUME Init
               PROVE  IInv
    OBVIOUS
  <2>1. Started = {}
    BY DEF Init, Started
  <2>2. TypeOK /\ JobsOK
    BY <2>1 DEF Init, TypeOK, JobsOK
  <2>3. Owners
    BY <2>1 DEF Init, Owners, ServersLive, NoOrphanWorkers, TerminatedOnce, PendingOK
  <2> QED
    BY <2>2, <2>3 DEF IInv
<1>2. IInv /\ [Next]_vars => IInv'
  BY InvStep
<1> QED
  BY <1>1, <1>2, PTL DEF Spec

(* The maps and what operations carry keep their types.                    *)
THEOREM TypeCorrect == Spec => []TypeOK
<1>1. IInv => TypeOK
  BY DEF IInv
<1> QED
  BY <1>1, Invariance, PTL

(* The worker of a server is one for its address that runs.                *)
THEOREM ServersAlive == Spec => []ServersLive
<1>1. IInv => ServersLive
  BY DEF IInv, Owners
<1> QED
  BY <1>1, Invariance, PTL

(* Every worker that runs has one owner.                                   *)
THEOREM WorkersOwned == Spec => []NoOrphanWorkers
<1>1. IInv => NoOrphanWorkers
  BY DEF IInv, Owners
<1> QED
  BY <1>1, Invariance, PTL

(* No worker is terminated twice.                                          *)
THEOREM NoneTerminatedTwice == Spec => []TerminatedOnce
<1>1. IInv => TerminatedOnce
  BY DEF IInv, Owners
<1> QED
  BY <1>1, Invariance, PTL

-----------------------------------------------------------------------------
(* Who has yet to terminate a worker is as before.                         *)
LEMMA LeavingKept ==
  ASSUME \A c \in Callers :
           /\ pc'[c] = "terminate" <=> pc[c] = "terminate"
           /\ pc[c] = "terminate" => job'[c] = job[c]
  PROVE  Leaving' = Leaving
BY DEF Leaving

(* get_server starts a worker of the pool that was never heard of.         *)
LEMMA PoolStart ==
  ASSUME IInv, NEW a \in Addresses, NEW w \in Workers, GetServer(a, w),
         ended' = ended, Leaving' = Leaving
  PROVE  Pool!Next \/ UNCHANGED <<servers, Leaving, ended>>
<1> USE DEF IInv, Owners
<1>1. CASE UNCHANGED <<servers, home>>
  BY <1>1
<1>2. CASE /\ servers[a] = None
           /\ w \in Workers \ Started
           /\ servers' = [servers EXCEPT ![a] = w]
  <2>1. \A b \in Addresses : w # servers[b]
    BY <1>2, ServersStarted, RegistryAssumption DEF Workers
  <2>2. w \notin Leaving
    BY <1>2 DEF PendingOK, Leaving
  <2>3. w \notin ended
    BY <1>2 DEF TypeOK
  <2>4. w \in Pool!Fresh
    BY <2>1, <2>2, <2>3 DEF Pool!Fresh
  <2>5. Pool!Start(a, w)
    BY <1>2, <2>4 DEF Pool!Start
  <2> QED
    BY <2>5 DEF Pool!Next
<1> QED
  BY <1>1, <1>2 DEF GetServer

(* Each section of each operation is one step of the pool or none.         *)
LEMMA PoolStep ==
  ASSUME IInv, [Next]_vars
  PROVE  [Pool!Next]_(Pool!vars)
<1> SUFFICES Pool!Next \/ UNCHANGED <<servers, Leaving, ended>>
  BY DEF Pool!vars
<1>0. TypeOK
  BY DEF IInv
<1>1. ASSUME NEW a \in Addresses, Scan(a)
      PROVE  Pool!Next \/ UNCHANGED <<servers, Leaving, ended>>
  <2>1. PICK w \in Workers : GetServer(a, w)
    BY <1>1 DEF Scan
  <2>2. ended' = ended /\ Leaving' = Leaving
    BY <1>1, LeavingKept DEF Scan
  <2> QED
    BY <2>1, <2>2, PoolStart
<1>2. ASSUME NEW c \in Callers, NEW id \in Ids, BeginBind(c, id)
      PROVE  Pool!Next \/ UNCHANGED <<servers, Leaving, ended>>
  <2>1. PICK w \in Workers :
          /\ GetServer(place[id], w)
          /\ job' = [job EXCEPT ![c] =
                       [id |-> id, address |-> place[id], worker |-> w]]
    BY <1>2 DEF BeginBind
  <2>2. pc[c] = "idle" /\ pc' = [pc EXCEPT ![c] = "insert"] /\ ended' = ended
    BY <1>2 DEF BeginBind, Goto
  <2>3. \A d \in Callers \ {c} : pc'[d] = pc[d] /\ job'[d] = job[d]
    BY <1>0, <2>1, <2>2 DEF TypeOK
  <2>4. pc'[c] = "insert"
    BY <1>0, <2>2 DEF TypeOK
  <2>5. Leaving' = Leaving
    BY <2>2, <2>3, <2>4, LeavingKept
  <2>6. place[id] \in Addresses
    BY <1>0 DEF TypeOK
  <2> QED
    BY <2>1, <2>2, <2>5, <2>6, PoolStart
<1>3. ASSUME NEW c \in Callers, NEW id \in Ids,
             StopFromId(c, id)
      PROVE  UNCHANGED <<servers, Leaving, ended>>
  <2>1. UNCHANGED <<servers, ended>>
    BY <1>3 DEF StopFromId
  <2>2. \A d \in Callers \ {c} : pc'[d] = pc[d] /\ job'[d] = job[d]
    BY <1>0, <1>3 DEF StopFromId, Goto, TypeOK
  <2>3. pc[c] # "terminate" /\ pc'[c] # "terminate"
    BY <1>0, <1>3 DEF StopFromId, Goto, TypeOK
  <2> QED
    BY <2>1, <2>2, <2>3, LeavingKept
<1>4. ASSUME NEW c \in Callers, RemoveServer(c)
      PROVE  Pool!Next \/ UNCHANGED <<servers, Leaving, ended>>
  <2> DEFINE a == job[c].address
             w == servers[a]
  <2>1. /\ a \in Addresses
        /\ job[c] \in Jobs
        /\ servers' = [servers EXCEPT ![a] = None]
        /\ ended' = ended
        /\ pc[c] = "remove"
    BY <1>4 DEF RemoveServer, IInv, JobsOK, Jobs
  <2>2. \A d \in Callers \ {c} : pc'[d] = pc[d] /\ job'[d] = job[d]
    BY <1>0, <1>4 DEF RemoveServer, Goto, TypeOK
  <2>3. pc'[c] = IF w = None THEN "idle" ELSE "terminate"
    BY <1>0, <1>4 DEF RemoveServer, Goto, TypeOK
  <2>4. job'[c].worker = w
    <3>1. job' = [job EXCEPT ![c] = [job[c] EXCEPT !.worker = w]]
      BY <1>4 DEF RemoveServer
    <3>2. [job[c] EXCEPT !.worker = w].worker = w
      BY <2>1 DEF Jobs
    <3> HIDE DEF a, w
    <3> QED
      BY <1>0, <3>1, <3>2 DEF TypeOK
  <2> HIDE DEF a
  <2>5. CASE w = None
    <3>1. Leaving' = Leaving
      BY <2>1, <2>2, <2>3, <2>5, LeavingKept
    <3>2. servers' = servers
      BY <1>0, <2>1, <2>5 DEF TypeOK
    <3> QED
      BY <2>1, <3>1, <3>2
  <2>6. CASE w # None
    <3>1. Leaving' = Leaving \cup {w}
      BY <2>1, <2>2, <2>3, <2>4, <2>6 DEF Leaving
    <3>2. Pool!Release(a)
      BY <2>1, <2>6, <3>1 DEF Pool!Release
    <3> QED
      BY <2>1, <3>2 DEF Pool!Next
  <2> QED
    BY <2>5, <2>6
<1>5. ASSUME NEW c \in Callers, TerminateWorker(c)
      PROVE  Pool!Next
  <2> DEFINE w == job[c].worker
  <2>1. /\ UNCHANGED <<servers, job>>
        /\ ended' = ended \cup {w}
        /\ pc[c] = "terminate"
        /\ pc' = [pc EXCEPT ![c] = "idle"]
    BY <1>5 DEF TerminateWorker, Goto
  <2>2. \A d \in Callers : pc'[d] = IF d = c THEN "idle" ELSE pc[d]
    BY <1>0, <2>1 DEF TypeOK
  <2>3. \A d \in Callers \ {c} : pc[d] = "terminate" => job[d].worker # w
    BY <2>1 DEF IInv, Owners, TerminatedOnce
  <2>4. w \in Workers
    BY <2>1 DEF IInv, Owners, PendingOK, Started
  <2>5. w \in Leaving /\ Leaving' = Leaving \ {w}
    BY <2>1, <2>2, <2>3 DEF Leaving
  <2> HIDE DEF w
  <2>6. Pool!Terminate(w)
    BY <2>1, <2>5 DEF Pool!Terminate
  <2> QED
    BY <2>4, <2>6 DEF Pool!Next
<1>6. ASSUME NEW id \in Ids, NEW a \in Addresses, Move(id, a)
      PROVE  UNCHANGED <<servers, Leaving, ended>>
  BY <1>6, LeavingKept DEF Move
<1>7. CASE UNCHANGED vars
  BY <1>7, LeavingKept DEF vars
<1>8. ASSUME NEW c \in Callers, Step(c)
      PROVE  Pool!Next \/ UNCHANGED <<servers, Leaving, ended>>
  <2>1. CASE InsertDevice(c) \/ Retain(c)
    <3>1. UNCHANGED <<servers, ended>>
      BY <2>1 DEF InsertDevice, Retain
    <3>2. \A d \in Callers \ {c} : pc'[d] = pc[d] /\ job'[d] = job[d]
      BY <1>0, <2>1 DEF InsertDevice, Retain, Goto, TypeOK
    <3>3. pc[c] # "terminate" /\ pc'[c] # "terminate"
      BY <1>0, <2>1 DEF InsertDevice, Retain, Goto, TypeOK
    <3> QED
      BY <3>1, <3>2, <3>3, LeavingKept
  <2>2. CASE RemoveServer(c) \/ TerminateWorker(c)
    BY <1>4, <1>5, <2>2
  <2> QED
    BY <1>8, <2>1, <2>2 DEF Step
<1> QED
  BY <1>1, <1>2, <1>3, <1>6, <1>7, <1>8 DEF Next

(* The workers of the registry are those of a pool: one per address, each  *)
(* started once, released by one operation and terminated by that one,     *)
(* however the sections of binds, stops and scans interleave (service.rs,  *)
(* get_server, stop_from_id, stop_from_address).                           *)
THEOREM RegistryImplementsPool == Spec => ImplementsPool
<1>1. Init => Pool!Init
  BY DEF Init, Pool!Init, Leaving
<1>2. IInv /\ [Next]_vars => [Pool!Next]_(Pool!vars)
  BY PoolStep
<1> QED
  BY <1>1, <1>2, Invariance, PTL DEF Spec, ImplementsPool, Pool!Spec

-----------------------------------------------------------------------------
(* A bind carries a worker of the address it is about.                     *)
BindsAtHome ==
  \A c \in Callers : pc[c] = "insert" => home[job[c].worker] = job[c].address

(* What a worker was started for is never changed.                         *)
LEMMA HomeStays ==
  ASSUME IInv, NEW a \in Addresses, NEW w \in Workers, GetServer(a, w)
  PROVE  /\ home'[w] = a
         /\ \A v \in Workers : home[v] # None => home'[v] = home[v]
<1> USE DEF IInv, TypeOK
<1>1. CASE servers[a] # None /\ w = servers[a] /\ UNCHANGED <<servers, home>>
  BY <1>1 DEF Owners, ServersLive
<1>2. CASE w \in Workers \ Started /\ home' = [home EXCEPT ![w] = a]
  <2>1. home[w] = None
    BY <1>2 DEF Started
  <2> QED
    BY <1>2, <2>1
<1> QED
  BY <1>1, <1>2 DEF GetServer

LEMMA AtHomeStep ==
  ASSUME IInv, EntriesAtHome, BindsAtHome, [Next]_vars
  PROVE  EntriesAtHome' /\ BindsAtHome'
<1>0. /\ TypeOK /\ JobsOK
      /\ None \notin Addresses
  BY RegistryAssumption DEF IInv
<1>1. ASSUME NEW id \in Ids, devices[id] # None
      PROVE  /\ devices[id].worker \in Workers
             /\ home[devices[id].worker] = devices[id].address
             /\ home[devices[id].worker] # None
  <2>1. devices[id] \in Entries
    BY <1>0, <1>1 DEF TypeOK
  <2>2. home[devices[id].worker] = devices[id].address
    BY <1>1 DEF EntriesAtHome
  <2> QED
    BY <1>0, <2>1, <2>2 DEF Entries
<1>2. ASSUME NEW c \in Callers, pc[c] = "insert"
      PROVE  /\ job[c].worker \in Workers
             /\ home[job[c].worker] = job[c].address
             /\ home[job[c].worker] # None
  <2>1. job[c] \in Jobs /\ job[c].worker \in Workers
    BY <1>0, <1>2 DEF JobsOK
  <2>2. home[job[c].worker] = job[c].address
    BY <1>2 DEF BindsAtHome
  <2> QED
    BY <1>0, <2>1, <2>2 DEF Jobs
<1>3. ASSUME NEW a \in Addresses, Scan(a)
      PROVE  EntriesAtHome' /\ BindsAtHome'
  <2>1. PICK w \in Workers : GetServer(a, w)
    BY <1>3 DEF Scan
  <2>2. \A v \in Workers : home[v] # None => home'[v] = home[v]
    BY <2>1, HomeStays
  <2>3. UNCHANGED <<devices, pc, job>>
    BY <1>3 DEF Scan
  <2> QED
    BY <1>1, <1>2, <2>2, <2>3 DEF EntriesAtHome, BindsAtHome
<1>4. ASSUME NEW c \in Callers, NEW id \in Ids, BeginBind(c, id)
      PROVE  EntriesAtHome' /\ BindsAtHome'
  <2>1. PICK w \in Workers :
          /\ GetServer(place[id], w)
          /\ job' = [job EXCEPT ![c] =
                       [id |-> id, address |-> place[id], worker |-> w]]
    BY <1>4 DEF BeginBind
  <2>2. /\ place[id] \in Addresses
        /\ devices' = devices
        /\ pc' = [pc EXCEPT ![c] = "insert"]
    BY <1>0, <1>4 DEF BeginBind, Goto, TypeOK
  <2>3. /\ home'[w] = place[id]
        /\ \A v \in Workers : home[v] # None => home'[v] = home[v]
    BY <2>1, <2>2, HomeStays
  <2>4. EntriesAtHome'
    BY <1>1, <2>2, <2>3 DEF EntriesAtHome
  <2>5. job'[c].worker = w /\ job'[c].address = place[id]
    BY <1>0, <2>1 DEF TypeOK
  <2>6. \A d \in Callers \ {c} : pc'[d] = pc[d] /\ job'[d] = job[d]
    BY <1>0, <2>1, <2>2 DEF TypeOK
  <2>7. BindsAtHome'
    BY <1>2, <2>3, <2>5, <2>6 DEF BindsAtHome
  <2> QED
    BY <2>4, <2>7
<1>5. ASSUME NEW c \in Callers, InsertDevice(c)
      PROVE  EntriesAtHome' /\ BindsAtHome'
  <2>1. /\ pc[c] = "insert"
        /\ devices' = [devices EXCEPT ![job[c].id] =
                         [worker |-> job[c].worker, address |-> job[c].address]]
        /\ UNCHANGED <<home, job>>
        /\ pc' = [pc EXCEPT ![c] = "idle"]
    BY <1>5 DEF InsertDevice, Goto
  <2>2. ASSUME NEW id \in Ids, devices'[id] # None
        PROVE  home[devices'[id].worker] = devices'[id].address
    <3>1. CASE id = job[c].id
      <4>1. devices'[id] = [worker |-> job[c].worker, address |-> job[c].address]
        BY <1>0, <2>1, <3>1 DEF TypeOK
      <4> QED
        BY <1>2, <2>1, <4>1
    <3>2. CASE id # job[c].id
      BY <1>0, <1>1, <2>1, <2>2, <3>2 DEF TypeOK
    <3> QED
      BY <3>1, <3>2
  <2>3. EntriesAtHome'
    BY <2>1, <2>2 DEF EntriesAtHome
  <2>4. \A d \in Callers : pc'[d] = "insert" => pc[d] = "insert"
    BY <1>0, <2>1 DEF TypeOK
  <2> QED
    BY <2>1, <2>3, <2>4 DEF BindsAtHome
<1>6. ASSUME UNCHANGED home,
             \A id \in Ids : devices'[id] = devices[id] \/ devices'[id] = None,
             \A c \in Callers : pc'[c] = "insert" => pc[c] = "insert" /\ job'[c] = job[c]
      PROVE  EntriesAtHome' /\ BindsAtHome'
  BY <1>1, <1>2, <1>6 DEF EntriesAtHome, BindsAtHome
<1>7. ASSUME NEW c \in Callers,
             \/ \E id \in Ids : StopFromId(c, id)
             \/ Retain(c) \/ RemoveServer(c) \/ TerminateWorker(c)
      PROVE  EntriesAtHome' /\ BindsAtHome'
  <2>1. UNCHANGED home
    BY <1>7 DEF StopFromId, Retain, RemoveServer, TerminateWorker
  <2>2. \A id \in Ids : devices'[id] = devices[id] \/ devices'[id] = None
    BY <1>0, <1>7 DEF StopFromId, Retain, RemoveServer, TerminateWorker, TypeOK
  <2>3. \A d \in Callers \ {c} : pc'[d] = pc[d] /\ job'[d] = job[d]
    BY <1>0, <1>7 DEF StopFromId, Retain, RemoveServer, TerminateWorker, Goto, TypeOK
  <2>4. pc'[c] # "insert"
    BY <1>0, <1>7 DEF StopFromId, Retain, RemoveServer, TerminateWorker, Goto, TypeOK
  <2> QED
    BY <1>6, <2>1, <2>2, <2>3, <2>4
<1>8. ASSUME \/ \E id \in Ids, a \in Addresses : Move(id, a)
             \/ UNCHANGED vars
      PROVE  EntriesAtHome' /\ BindsAtHome'
  BY <1>6, <1>8 DEF Move, vars
<1> QED
  BY <1>3, <1>4, <1>5, <1>7, <1>8 DEF Next, Step

(* However binds, stops and moves overlap, a device is never bound to a    *)
(* worker of some other address (service.rs, bind).                        *)
THEOREM BoundAtHome == Spec => []EntriesAtHome
<1>1. Init => EntriesAtHome /\ BindsAtHome
  BY DEF Init, EntriesAtHome, BindsAtHome
<1>2. IInv /\ EntriesAtHome /\ BindsAtHome /\ [Next]_vars => EntriesAtHome' /\ BindsAtHome'
  BY AtHomeStep
<1> QED
  BY <1>1, <1>2, Invariance, PTL DEF Spec
=============================================================================
