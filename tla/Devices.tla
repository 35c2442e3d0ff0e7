------------------------------- MODULE Devices -------------------------------
(***************************************************************************)
(* What is known of the meters: the devices and health tables and the      *)
(* devices bound in the Modbus registry, kept up to date by the ping       *)
(* process (src/cli/src/process/ping.rs), which works on a copy of the     *)
(* table, and the discover process (discover.rs), which scans the network  *)
(* (service/network.rs) and tries the slaves of each address in turn.      *)
(* The two run at the same time while meters move, go silent and return.   *)
(* Times are ages in ticks of a clock: seen is kept as how long ago it is. *)
(***************************************************************************)
EXTENDS Naturals, FiniteSets

CONSTANTS Ids,              \* device ids
          Addresses,        \* network.ip_range
          LastSlave,        \* the last slave of slaves_for
          Places,           \* destinations a meter may be at
          Kinds,            \* the kinds of config.modbus.devices
          KindOf,           \* the kind of each meter
          InactiveTimeout,  \* config.modbus.inactive_timeout
          MaxMoves,         \* bound: moves of a meter
          MaxFaults,        \* bound: lost answers, failed queries, crashes
          None              \* no row, no place

Standalone == 0  \* no slave
Statuses == {"healthy", "unreachable", "inactive"}
Rows == [status : Statuses, seen : 0 .. InactiveTimeout + 1, place : Places]

ASSUME DevicesAssumption ==
  /\ LastSlave \in Nat \ {0}
  /\ Places \subseteq Addresses \X (Standalone .. LastSlave)
  /\ KindOf \in [Ids -> Kinds]
  /\ InactiveTimeout \in Nat
  /\ MaxMoves \in Nat
  /\ MaxFaults \in Nat
  /\ None \notin Addresses \X Nat
  /\ None \notin Rows

VARIABLES
  where,    \* the place each meter answers at, None when it does not
  table,    \* rows of the devices table
  bound,    \* destination of each device in the Modbus registry
  told,     \* status in the last health row of each device
  lapsed,   \* history: devices a status of which was never put into health
  ping,     \* where the ping is with each device, "out" outside of one
  copy,     \* row of each device in the ping, as it read or as it wrote it
  phase,    \* of the discovery: "out" of one, "matching" or "joined"
  slave,    \* the slave it tries next at each address
  found,    \* devices it matched, with their places, not consolidated yet
  moves,    \* moves so far
  faults    \* faults so far

world == <<where, moves>>
records == <<table, told, lapsed>>
pinging == <<ping, copy>>
discovery == <<phase, slave, found>>
vars == <<world, records, bound, pinging, discovery, faults>>

-----------------------------------------------------------------------------
Known == {id \in Ids : table[id] # None}

(* Ages are told apart up to the timeout.                                  *)
Older(age) == IF age <= InactiveTimeout THEN age + 1 ELSE age
Aged(row) == IF row = None THEN None ELSE [row EXCEPT !.seen = Older(@)]

Over == LastSlave + 1  \* every slave was tried

Init ==
  /\ where \in [Ids -> Places \cup {None}]
  /\ \A i, j \in Ids : where[i] = where[j] /\ where[i] # None => i = j
  /\ table = [id \in Ids |-> None]
  /\ bound = [id \in Ids |-> None]
  /\ told = [id \in Ids |-> "healthy"]
  /\ lapsed = {}
  /\ ping = [id \in Ids |-> "out"]
  /\ copy = [id \in Ids |-> None]
  /\ phase = "out"
  /\ slave = [a \in Addresses |-> Over]
  /\ found = {}
  /\ moves = 0
  /\ faults = 0

Fault == faults < MaxFaults /\ faults' = faults + 1

Tick ==
  /\ table' = [id \in Ids |-> Aged(table[id])]
  /\ copy' = [id \in Ids |-> Aged(copy[id])]
  /\ UNCHANGED <<world, told, lapsed, bound, ping, discovery, faults>>

(* A meter is moved to a free place, unplugged or plugged in.              *)
Move(id, p) ==
  /\ moves < MaxMoves
  /\ p # where[id]
  /\ p # None => \A j \in Ids : where[j] # p
  /\ where' = [where EXCEPT ![id] = p]
  /\ moves' = moves + 1
  /\ UNCHANGED <<records, bound, pinging, discovery, faults>>

-----------------------------------------------------------------------------
(* execute of ping: get_devices.                                           *)
StartPing ==
  /\ \A id \in Ids : ping[id] = "out"
  /\ Known # {}
  /\ ping' = [id \in Ids |-> IF id \in Known THEN "asking" ELSE "out"]
  /\ copy' = table
  /\ UNCHANGED <<world, records, bound, discovery, faults>>

(* ping_device: the device is asked for its id where it is bound.          *)
Ask(id) ==
  /\ ping[id] = "asking"
  /\ \/ /\ ping' = [ping EXCEPT ![id] =
                      IF bound[id] # None /\ where[id] = bound[id]
                      THEN "alive" ELSE "silent"]
        /\ UNCHANGED faults
     \/ /\ Fault
        /\ ping' = [ping EXCEPT ![id] = "silent"]
  /\ UNCHANGED <<world, records, bound, copy, discovery>>

(* Faulty variant of Status: a silent device is never inactive.            *)
StatusNever(id) == IF ping[id] = "alive" THEN "healthy" ELSE "unreachable"

(* The verdict on a device of the copy.                                    *)
Status(id) ==
  CASE ping[id] = "alive" -> "healthy"
    [] ping[id] # "alive" /\ copy[id].seen > InactiveTimeout -> "inactive"
    [] OTHER -> "unreachable"
Seen(id) == IF ping[id] = "alive" THEN 0 ELSE copy[id].seen

(* Consolidation starts when every device was asked.                       *)
Asked == \A id \in Ids : ping[id] # "asking"

(* consolidate: update_device_status writes the status and a seen that may *)
(* be older than the one in the table by now.  It may fail.                *)
Record(id) ==
  LET row == [copy[id] EXCEPT !.status = Status(id), !.seen = Seen(id)]
  IN  /\ Asked
      /\ ping[id] \in {"alive", "silent"}
      /\ \/ /\ table' = [table EXCEPT ![id].status = row.status, ![id].seen = row.seen]
            /\ copy' = [copy EXCEPT ![id] = row]
            /\ ping' = [ping EXCEPT ![id] =
                          IF row.status = copy[id].status THEN "bind"
                          ELSE IF row.status = "inactive" THEN "stop" ELSE "rebind"]
            /\ UNCHANGED faults
         \/ /\ Fault
            /\ ping' = [ping EXCEPT ![id] = "out"]
            /\ copy' = [copy EXCEPT ![id] = None]
            /\ UNCHANGED table
      /\ UNCHANGED <<world, told, lapsed, bound, discovery>>

Leave(id) ==
  /\ ping' = [ping EXCEPT ![id] = "out"]
  /\ copy' = [copy EXCEPT ![id] = None]

(* A device that has become inactive is stopped, any other is bound to the *)
(* place in the copy; a device of the same status as before is done.       *)
Rebind(id) ==
  \/ /\ ping[id] = "bind"
     /\ bound' = [bound EXCEPT ![id] = copy[id].place]
     /\ Leave(id)
     /\ UNCHANGED <<world, records, discovery, faults>>
  \/ /\ ping[id] \in {"stop", "rebind"}
     /\ bound' = [bound EXCEPT ![id] = IF ping[id] = "stop" THEN None ELSE copy[id].place]
     /\ ping' = [ping EXCEPT ![id] = "report"]
     /\ UNCHANGED <<world, records, copy, discovery, faults>>

(* insert_health of the new status, which may fail.                        *)
Report(id) ==
  /\ ping[id] = "report"
  /\ \/ /\ told' = [told EXCEPT ![id] = copy[id].status]
        /\ lapsed' = lapsed \ {id}
        /\ UNCHANGED faults
     \/ /\ Fault
        /\ lapsed' = lapsed \cup {id}
        /\ UNCHANGED told
  /\ Leave(id)
  /\ UNCHANGED <<world, table, bound, discovery>>

-----------------------------------------------------------------------------
(* scan_modbus: the addresses that take a connection in time, those of     *)
(* meters and perhaps others; a meter's may be missed.                     *)
ScanModbus ==
  /\ phase = "out"
  /\ \E open \in SUBSET Addresses :
       /\ \/ (\A id \in Ids : where[id] # None => where[id][1] \in open) /\ UNCHANGED faults
          \/ Fault
       /\ slave' = [a \in Addresses |-> IF a \in open THEN Standalone ELSE Over]
  /\ phase' = "matching"
  /\ UNCHANGED <<world, records, bound, pinging, found>>

(* match_destination: of the detections of all kinds, the first one to     *)
(* complete decides, and then the id is read; either may come too late.    *)
Matched(place, kind) == {id \in Ids : where[id] = place /\ KindOf[id] = kind}

(* match_address: a standalone device is alone, and the slaves go on up to *)
(* the first one that is not matched.                                      *)
NextSlave(s, matched) ==
  CASE matched /\ s = Standalone -> Over
    [] matched /\ s # Standalone -> s + 1
    [] ~matched /\ s = Standalone -> 1
    [] ~matched /\ s # Standalone -> Over

MatchDestination(a) ==
  /\ phase = "matching"
  /\ slave[a] # Over
  /\ \E kind \in Kinds :
       LET place == <<a, slave[a]>>
           matches == Matched(place, kind)
       IN \/ /\ found' = found \cup [id : matches, place : {place}, step : {"get"}]
             /\ slave' = [slave EXCEPT ![a] = NextSlave(@, matches # {})]
             /\ UNCHANGED faults
          \/ /\ Fault
             /\ slave' = [slave EXCEPT ![a] = NextSlave(@, FALSE)]
             /\ UNCHANGED found
  /\ UNCHANGED <<world, records, bound, pinging, phase>>

JoinMatches ==
  /\ phase = "matching"
  /\ \A a \in Addresses : slave[a] = Over
  /\ phase' = "joined"
  /\ UNCHANGED <<world, records, bound, pinging, slave, found, faults>>

Drop(m) == found' = found \ {m}
Goto(m, step) == found' = (found \ {m}) \cup {[m EXCEPT !.step = step]}

(* Faulty variant of GetDevice: a known device is left as it is.           *)
GetDeviceNew(m) ==
  /\ m.step = "get"
  /\ IF table[m.id] = None THEN Goto(m, "insert") ELSE Drop(m)
  /\ UNCHANGED <<world, records, bound, pinging, phase, slave, faults>>

(* consolidate of discover: get_device, ...                                *)
GetDevice(m) ==
  /\ m.step = "get"
  /\ \/ /\ Goto(m, IF table[m.id] = None THEN "insert" ELSE "update")
        /\ UNCHANGED faults
     \/ /\ Fault
        /\ Drop(m)
  /\ UNCHANGED <<world, records, bound, pinging, phase, slave>>

(* Faulty variant of UpdateDestination: the status is written, too.        *)
UpdateDestinationHealthy(m) ==
  /\ m.step = "update"
  /\ table' = [table EXCEPT ![m.id].place = m.place, ![m.id].seen = 0,
                              ![m.id].status = "healthy"]
  /\ Goto(m, "bind")
  /\ UNCHANGED <<world, told, lapsed, bound, pinging, phase, slave, faults>>

(* ... update_device_destination of a known one, ...                       *)
UpdateDestination(m) ==
  /\ m.step = "update"
  /\ \/ /\ table' = [table EXCEPT ![m.id].place = m.place, ![m.id].seen = 0]
        /\ Goto(m, "bind")
        /\ UNCHANGED faults
     \/ /\ Fault
        /\ Drop(m)
        /\ UNCHANGED table
  /\ UNCHANGED <<world, told, lapsed, bound, pinging, phase, slave>>

(* Faulty variant of InsertDevice: a failure is logged and no more.        *)
InsertDeviceAnyway(m) ==
  /\ m.step = "insert"
  /\ \/ /\ table[m.id] = None
        /\ table' = [table EXCEPT ![m.id] =
                       [status |-> "healthy", seen |-> 0, place |-> m.place]]
        /\ UNCHANGED faults
     \/ /\ \/ table[m.id] # None /\ UNCHANGED faults
           \/ Fault
        /\ UNCHANGED table
  /\ Goto(m, "bind")
  /\ UNCHANGED <<world, told, lapsed, bound, pinging, phase, slave>>

(* ... insert_device of a new one, which fails if it is there by now, ...  *)
InsertDevice(m) ==
  /\ m.step = "insert"
  /\ \/ /\ table[m.id] = None
        /\ table' = [table EXCEPT ![m.id] =
                       [status |-> "healthy", seen |-> 0, place |-> m.place]]
        /\ Goto(m, "bind")
        /\ UNCHANGED faults
     \/ /\ \/ table[m.id] # None /\ UNCHANGED faults
           \/ Fault
        /\ Drop(m)
        /\ UNCHANGED table
  /\ UNCHANGED <<world, told, lapsed, bound, pinging, phase, slave>>

(* ... and bind.                                                           *)
BindMatch(m) ==
  /\ m.step = "bind"
  /\ bound' = [bound EXCEPT ![m.id] = m.place]
  /\ Drop(m)
  /\ UNCHANGED <<world, records, pinging, phase, slave, faults>>

(* Faulty variant of EndDiscover: the matches are not waited for.          *)
EndDiscoverEarly ==
  /\ phase = "joined"
  /\ phase' = "out"
  /\ UNCHANGED <<world, records, bound, pinging, slave, found, faults>>

(* execute returns when every match is consolidated.                       *)
EndDiscover ==
  /\ phase = "joined"
  /\ found = {}
  /\ phase' = "out"
  /\ UNCHANGED <<world, records, bound, pinging, slave, found, faults>>

-----------------------------------------------------------------------------
(* The service restarts: the registry and both executions are gone.        *)
Restart ==
  /\ Fault
  /\ bound' = [id \in Ids |-> None]
  /\ lapsed' = lapsed \cup {id \in Ids : ping[id] \in {"stop", "rebind", "report"}}
  /\ ping' = [id \in Ids |-> "out"]
  /\ copy' = [id \in Ids |-> None]
  /\ phase' = "out"
  /\ slave' = [a \in Addresses |-> Over]
  /\ found' = {}
  /\ UNCHANGED <<world, table, told>>

PingDevice(id) == Ask(id) \/ Record(id) \/ Rebind(id) \/ Report(id)
Consolidate(m) ==
  phase = "joined" /\ (GetDevice(m) \/ UpdateDestination(m) \/ InsertDevice(m) \/ BindMatch(m))
Discover ==
  \/ ScanModbus
  \/ \E a \in Addresses : MatchDestination(a)
  \/ JoinMatches
  \/ \E m \in found : Consolidate(m)
  \/ EndDiscover

Next ==
  \/ Tick
  \/ \E id \in Ids, p \in Places \cup {None} : Move(id, p)
  \/ StartPing
  \/ \E id \in Ids : PingDevice(id)
  \/ Discover
  \/ Restart

(* Cron starts both processes again and again and tokio runs them.         *)
Fairness ==
  /\ WF_vars(Tick)
  /\ WF_vars(StartPing)
  /\ \A id \in Ids : WF_vars(PingDevice(id))
  /\ WF_vars(Discover)

Spec == Init /\ [][Next]_vars
FairSpec == Spec /\ Fairness

-----------------------------------------------------------------------------
(* The types; between two executions of ping and of discover nothing is    *)
(* left of a copy or of a match.                                           *)
TypeOK ==
  /\ where \in [Ids -> Places \cup {None}]
  /\ table \in [Ids -> Rows \cup {None}]
  /\ bound \in [Ids -> Places \cup {None}]
  /\ told \in [Ids -> Statuses]
  /\ lapsed \subseteq Ids
  /\ ping \in [Ids -> {"out", "asking", "alive", "silent", "bind", "stop",
                       "rebind", "report"}]
  /\ copy \in [Ids -> Rows \cup {None}]
  /\ \A id \in Ids : ping[id] = "out" <=> copy[id] = None
  /\ found \subseteq [id : Ids, place : Places, step : {"get", "update", "insert", "bind"}]
  /\ phase \in {"out", "matching", "joined"}
  /\ phase = "out" => found = {}
  /\ slave \in [Addresses -> Standalone .. Over]
  /\ moves \in Nat
  /\ faults \in Nat

(* The last health row of a device shows its status, whatever discover     *)
(* writes meanwhile, but for a ping about to insert it and for one whose   *)
(* insert failed or was cut off: that status is never sent.                *)
HealthFollowsStatus ==
  \A id \in Known :
    \/ told[id] = table[id].status
    \/ id \in lapsed
    \/ ping[id] \in {"stop", "rebind", "report"}

(* Only a device with a row is bound: measurements, which refer to it, and *)
(* pings find every device the registry may keep a worker for.             *)
OnlyKnownBound == \A id \in Ids : bound[id] # None => id \in Known

Found(id, p) ==
  /\ id \in Known
  /\ table[id].status = "healthy"
  /\ table[id].place = p
  /\ bound[id] = p

(* Whether the chain of slaves that discover tries reaches a place.        *)
InChain(p) ==
  /\ p[2] # Standalone => \A id \in Ids : where[id] # <<p[1], Standalone>>
  /\ \A s \in 1 .. p[2] - 1 : \E id \in Ids : where[id] = <<p[1], s>>

(* A meter that stays at a place discover reaches is found there, healthy  *)
(* and bound for good: late answers, copies that are older than what       *)
(* discover wrote, and restarts, even one that lasts longer than the       *)
(* timeout, only delay it.                                                 *)
MeterFound ==
  \A id \in Ids, p \in Places :
    <>[](where[id] = p /\ InChain(p)) => <>[]Found(id, p)

(* A meter that is gone is inactive in the end, whatever answers there.    *)
GoneInactive ==
  \A id \in Ids :
    <>[](where[id] = None) => <>[](id \in Known => table[id].status = "inactive")
=============================================================================
