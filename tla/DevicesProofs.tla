---------------------------- MODULE DevicesProofs ----------------------------
(***************************************************************************)
(* Proofs about Devices for every set of meters, addresses and kinds, any  *)
(* timeout and any number of moves and faults.                             *)
(***************************************************************************)
EXTENDS Devices, TLAPS

(* A device in the ping has a row, whose status nobody else changes.       *)
PingedKnown ==
  \A id \in Ids :
    ping[id] # "out" =>
      /\ table[id] # None
      /\ copy[id] # None
      /\ copy[id].status = table[id].status

(* A device without a row has no health rows.                              *)
UnknownUntold == \A id \in Ids : table[id] = None => told[id] = "healthy"

(* A match that was looked up and found, or written, has a row.            *)
MatchesKnown ==
  \A m \in found : m.step \in {"update", "bind"} => table[m.id] # None

IInv ==
  /\ TypeOK
  /\ PingedKnown
  /\ UnknownUntold
  /\ MatchesKnown
  /\ HealthFollowsStatus
  /\ OnlyKnownBound

-----------------------------------------------------------------------------
(* A place is no None.                                                     *)
LEMMA Constant ==
  /\ None \notin Places
  /\ None \notin Rows
  /\ InactiveTimeout \in Nat
  /\ LastSlave \in Nat
  /\ Over \in Nat
  /\ 1 \in Standalone .. Over
BY DevicesAssumption DEF Over, Standalone

(* Every execution starts from here: nothing is known.                     *)
LEMMA InitInv == Init => IInv
BY Constant DEF Init, IInv, TypeOK, PingedKnown, UnknownUntold, MatchesKnown,
   HealthFollowsStatus, OnlyKnownBound, Known, Statuses, Standalone

(* A row that ages keeps its status.                                       *)
LEMMA AgedRow ==
  ASSUME NEW row \in Rows \cup {None}
  PROVE  /\ Aged(row) \in Rows \cup {None}
         /\ (Aged(row) = None) <=> (row = None)
         /\ row # None => Aged(row).status = row.status
<1>1. CASE row = None
  BY <1>1 DEF Aged
<1>2. CASE row # None
  <2>1. row \in Rows /\ row.seen \in 0 .. InactiveTimeout + 1
    BY <1>2 DEF Rows
  <2>2. Older(row.seen) \in 0 .. InactiveTimeout + 1
    BY <2>1, Constant DEF Older
  <2>3. Aged(row) = [row EXCEPT !.seen = Older(row.seen)]
    BY <1>2 DEF Aged
  <2>4. Aged(row) \in Rows /\ Aged(row).status = row.status
    BY <2>1, <2>2, <2>3 DEF Rows
  <2> QED
    BY <1>2, <2>4, Constant
<1> QED
  BY <1>1, <1>2

(* The clock ticks.                                                        *)
LEMMA TickInv == ASSUME IInv, Tick PROVE IInv'
<1>0. TypeOK /\ PingedKnown /\ UnknownUntold /\ MatchesKnown /\ HealthFollowsStatus
      /\ OnlyKnownBound
  BY DEF IInv
<1>1. \A id \in Ids : /\ table[id] \in Rows \cup {None} /\ copy[id] \in Rows \cup {None}
                      /\ table'[id] = Aged(table[id]) /\ copy'[id] = Aged(copy[id])
  BY <1>0 DEF TypeOK, Tick
<1>2. \A id \in Ids :
        /\ table'[id] \in Rows \cup {None} /\ copy'[id] \in Rows \cup {None}
        /\ (table'[id] = None) <=> (table[id] = None)
        /\ (copy'[id] = None) <=> (copy[id] = None)
        /\ table[id] # None => table'[id].status = table[id].status
        /\ copy[id] # None => copy'[id].status = copy[id].status
  BY <1>1, AgedRow
<1>3. /\ UNCHANGED <<where, moves, told, lapsed, bound, ping, phase, slave, found, faults>>
      /\ table' = [id \in Ids |-> Aged(table[id])]
      /\ copy' = [id \in Ids |-> Aged(copy[id])]
  BY DEF Tick, world, discovery
<1>4. TypeOK'
  BY <1>0, <1>2, <1>3 DEF TypeOK
<1>5. PingedKnown' /\ UnknownUntold' /\ OnlyKnownBound'
  BY <1>0, <1>2, <1>3 DEF PingedKnown, UnknownUntold, OnlyKnownBound, Known
<1>6. HealthFollowsStatus'
  BY <1>0, <1>2, <1>3 DEF HealthFollowsStatus, Known
<1>7. \A m \in found : m.id \in Ids
  BY <1>0 DEF TypeOK
<1>8. MatchesKnown'
  BY <1>0, <1>2, <1>3, <1>7 DEF MatchesKnown
<1> QED
  BY <1>4, <1>5, <1>6, <1>8 DEF IInv

(* A meter moves, or the ping begins or asks.                              *)
LEMMA MoveInv ==
  ASSUME IInv, NEW id \in Ids, NEW p \in Places \cup {None}, Move(id, p) PROVE IInv'
BY DEF IInv, TypeOK, PingedKnown, UnknownUntold, MatchesKnown, HealthFollowsStatus,
   OnlyKnownBound, Known, Move, records, pinging, discovery

LEMMA StartPingInv == ASSUME IInv, StartPing PROVE IInv'
BY DEF IInv, TypeOK, PingedKnown, UnknownUntold, MatchesKnown, HealthFollowsStatus,
   OnlyKnownBound, Known, StartPing, world, records, discovery

LEMMA AskInv == ASSUME IInv, NEW id \in Ids, Ask(id) PROVE IInv'
BY DEF IInv, TypeOK, PingedKnown, UnknownUntold, MatchesKnown, HealthFollowsStatus,
   OnlyKnownBound, Known, Ask, Fault, world, records, discovery

(* The verdict on a device is written, or the write fails.                 *)
LEMMA RecordInv == ASSUME IInv, NEW id \in Ids, Record(id) PROVE IInv'
<1> DEFINE row == [copy[id] EXCEPT !.status = Status(id), !.seen = Seen(id)]
<1>0. /\ TypeOK /\ PingedKnown /\ UnknownUntold /\ MatchesKnown /\ HealthFollowsStatus
      /\ OnlyKnownBound
  BY DEF IInv
<1>1. /\ ping[id] \in {"alive", "silent"}
      /\ UNCHANGED <<where, moves, told, lapsed, bound, phase, slave, found>>
  BY DEF Record, world, discovery
<1>2. /\ copy[id] \in Rows /\ table[id] \in Rows
      /\ copy[id].status = table[id].status
  BY <1>0, <1>1 DEF TypeOK, PingedKnown
<1>3. CASE Fault /\ table' = table
    /\ ping' = [ping EXCEPT ![id] = "out"] /\ copy' = [copy EXCEPT ![id] = None]
  BY <1>0, <1>1, <1>3 DEF IInv, TypeOK, PingedKnown, UnknownUntold, MatchesKnown,
     HealthFollowsStatus, OnlyKnownBound, Known, Fault
<1>4. CASE /\ table' = [table EXCEPT ![id].status = row.status, ![id].seen = row.seen]
           /\ copy' = [copy EXCEPT ![id] = row]
           /\ ping' = [ping EXCEPT ![id] =
                         IF row.status = copy[id].status THEN "bind"
                         ELSE IF row.status = "inactive" THEN "stop" ELSE "rebind"]
           /\ UNCHANGED faults
  <2>1. Status(id) \in Statuses /\ Seen(id) \in 0 .. InactiveTimeout + 1
    BY <1>2, Constant DEF Status, Seen, Statuses, Rows
  <2>2. /\ row \in Rows /\ row.status = Status(id) /\ row.seen = Seen(id)
    BY <1>2, <2>1 DEF Rows
  <2> HIDE DEF row
  <2>3. /\ table'[id] \in Rows
        /\ table'[id].status = row.status
        /\ table' \in [Ids -> Rows \cup {None}]
        /\ \A j \in Ids \ {id} : table'[j] = table[j]
    BY <1>0, <1>2, <1>4, <2>2 DEF TypeOK, Rows
  <2>4. /\ copy'[id] = row
        /\ copy' \in [Ids -> Rows \cup {None}]
        /\ \A j \in Ids \ {id} : copy'[j] = copy[j]
    BY <1>0, <1>4, <2>2 DEF TypeOK
  <2>5. /\ ping'[id] \in {"bind", "stop", "rebind"}
        /\ ping'[id] = "bind" => row.status = table[id].status
        /\ ping' \in [Ids -> {"out", "asking", "alive", "silent", "bind", "stop",
                              "rebind", "report"}]
        /\ \A j \in Ids \ {id} : ping'[j] = ping[j]
    BY <1>0, <1>2, <1>4 DEF TypeOK
  <2>6. TypeOK'
    <3>1. copy'[id] # None /\ ping'[id] # "out"
      BY <2>2, <2>4, <2>5, Constant
    <3>2. \A j \in Ids : ping'[j] = "out" <=> copy'[j] = None
      BY <1>0, <2>4, <2>5, <3>1 DEF TypeOK
    <3> QED
      BY <1>0, <1>1, <1>4, <2>3, <2>4, <2>5, <3>2 DEF TypeOK
  <2>7. PingedKnown'
    BY <1>0, <2>2, <2>3, <2>4, <2>5, Constant DEF PingedKnown
  <2>8. UnknownUntold' /\ OnlyKnownBound'
    BY <1>0, <1>1, <2>3, Constant DEF UnknownUntold, OnlyKnownBound, Known
  <2>9. MatchesKnown'
    BY <1>0, <1>1, <2>3, Constant DEF MatchesKnown, TypeOK
  <2>10. HealthFollowsStatus'
    <3>1. id \in Known /\ (told[id] = table[id].status \/ id \in lapsed)
      BY <1>0, <1>1, <1>2, Constant DEF HealthFollowsStatus, Known
    <3>2. \/ told'[id] = table'[id].status \/ id \in lapsed'
          \/ ping'[id] \in {"stop", "rebind", "report"}
      BY <1>1, <2>3, <2>5, <3>1
    <3>3. \A j \in Ids \ {id} : j \in Known' => j \in Known
      BY <2>3 DEF Known
    <3> QED
      BY <1>0, <1>1, <2>3, <2>5, <3>2, <3>3 DEF HealthFollowsStatus, Known
  <2> QED
    BY <2>6, <2>7, <2>8, <2>9, <2>10 DEF IInv
<1> QED
  BY <1>3, <1>4 DEF Record

(* The device of a verdict is bound or stopped.                            *)
LEMMA RebindInv == ASSUME IInv, NEW id \in Ids, Rebind(id) PROVE IInv'
<1>1. ping[id] # "out" /\ copy[id] \in Rows /\ copy[id].place \in Places
  BY DEF Rebind, IInv, TypeOK, PingedKnown, Rows
<1>2. /\ UNCHANGED <<where, moves, table, told, lapsed, phase, slave, found, faults>>
      /\ bound' \in [Ids -> Places \cup {None}]
      /\ \A j \in Ids : bound'[j] # None => bound[j] # None \/ j = id
  BY <1>1 DEF Rebind, IInv, TypeOK, world, records, discovery
<1>3. CASE ping[id] = "bind"
  BY <1>1, <1>2, <1>3 DEF IInv, TypeOK, PingedKnown, UnknownUntold, MatchesKnown,
     HealthFollowsStatus, OnlyKnownBound, Known, Rebind, Leave
<1>4. CASE ping[id] \in {"stop", "rebind"}
  BY <1>1, <1>2, <1>4 DEF IInv, TypeOK, PingedKnown, UnknownUntold, MatchesKnown,
     HealthFollowsStatus, OnlyKnownBound, Known, Rebind
<1> QED
  BY <1>3, <1>4 DEF Rebind

(* The new status is put into health, or lapses.                           *)
LEMMA ReportInv == ASSUME IInv, NEW id \in Ids, Report(id) PROVE IInv'
<1>1. ping[id] = "report" /\ table[id] # None /\ copy[id] \in Rows
      /\ copy[id].status = table[id].status /\ copy[id].status \in Statuses
  BY DEF Report, IInv, TypeOK, PingedKnown, Rows
<1> QED
  BY <1>1 DEF IInv, TypeOK, PingedKnown, UnknownUntold, MatchesKnown,
     HealthFollowsStatus, OnlyKnownBound, Known, Report, Leave, Fault, world, discovery

-----------------------------------------------------------------------------
(* The scan of the network begins and ends, and the discovery ends.        *)
LEMMA ScanModbusInv == ASSUME IInv, ScanModbus PROVE IInv'
BY Constant DEF IInv, TypeOK, PingedKnown, UnknownUntold, MatchesKnown,
   HealthFollowsStatus, OnlyKnownBound, Known, ScanModbus, Fault, Standalone, Over,
   world, records, pinging

LEMMA JoinMatchesInv == ASSUME IInv, JoinMatches \/ EndDiscover PROVE IInv'
BY DEF IInv, TypeOK, PingedKnown, UnknownUntold, MatchesKnown, HealthFollowsStatus,
   OnlyKnownBound, Known, JoinMatches, EndDiscover, world, records, pinging

(* A destination is tried.                                                 *)
LEMMA MatchDestinationInv ==
  ASSUME IInv, NEW a \in Addresses, MatchDestination(a) PROVE IInv'
<1>0. /\ TypeOK /\ MatchesKnown
      /\ UNCHANGED <<where, moves, table, told, lapsed, bound, ping, copy, phase>>
      /\ phase = "matching" /\ slave[a] # Over /\ slave[a] \in Standalone .. Over
  BY DEF IInv, TypeOK, MatchDestination, world, records, pinging
<1>1. PICK kind \in Kinds :
        LET place == <<a, slave[a]>>
            matches == Matched(place, kind)
        IN \/ /\ found' = found \cup [id : matches, place : {place}, step : {"get"}]
              /\ slave' = [slave EXCEPT ![a] = NextSlave(@, matches # {})]
              /\ UNCHANGED faults
           \/ /\ Fault
              /\ slave' = [slave EXCEPT ![a] = NextSlave(@, FALSE)]
              /\ UNCHANGED found
  BY DEF MatchDestination
<1> DEFINE place == <<a, slave[a]>>
           matches == Matched(place, kind)
<1>2. ASSUME NEW id \in matches
      PROVE  id \in Ids /\ place \in Places
  <2>1. id \in Ids /\ where[id] = place
    BY DEF Matched
  <2>2. place \in Addresses \X Nat
    BY <1>0, Constant DEF Standalone
  <2>3. place # None
    BY <2>2, DevicesAssumption
  <2> QED
    BY <1>0, <2>1, <2>3 DEF TypeOK
<1>3. \A m \in [id : matches, place : {place}, step : {"get"}] :
        /\ m.step = "get"
        /\ m \in [id : Ids, place : Places, step : {"get", "update", "insert", "bind"}]
  BY <1>2
<1>4. NextSlave(slave[a], TRUE) \in Standalone .. Over
      /\ NextSlave(slave[a], FALSE) \in Standalone .. Over
  BY <1>0, Constant DEF NextSlave, Standalone, Over
<1>5. slave' \in [Addresses -> Standalone .. Over]
  <2>1. (matches # {}) \in BOOLEAN
    OBVIOUS
  <2>2. NextSlave(slave[a], matches # {}) \in Standalone .. Over
    <3>1. CASE matches # {}
      BY <1>4, <3>1 DEF NextSlave
    <3>2. CASE ~(matches # {})
      BY <1>4, <3>2 DEF NextSlave
    <3> QED
      BY <3>1, <3>2
  <2> QED
    BY <1>0, <1>1, <1>4, <2>2 DEF TypeOK
<1>6. /\ found' \subseteq [id : Ids, place : Places,
                           step : {"get", "update", "insert", "bind"}]
      /\ \A m \in found' : m \in found \/ m.step = "get"
  BY <1>0, <1>1, <1>3 DEF TypeOK
<1>7. faults' \in Nat
  <2>1. UNCHANGED faults \/ Fault
    BY <1>1
  <2> QED
    BY <1>0, <2>1 DEF TypeOK, Fault
<1>8. TypeOK'
  BY <1>0, <1>5, <1>6, <1>7 DEF TypeOK
<1>9. MatchesKnown'
  BY <1>0, <1>6 DEF MatchesKnown
<1> QED
  BY <1>0, <1>8, <1>9 DEF IInv, PingedKnown, UnknownUntold, HealthFollowsStatus,
     OnlyKnownBound, Known

-----------------------------------------------------------------------------
(* What a match is replaced by.                                            *)
LEMMA FoundAfter ==
  ASSUME TypeOK, NEW m \in found, NEW step \in {"get", "update", "insert", "bind"},
         Goto(m, step) \/ Drop(m)
  PROVE  /\ m.id \in Ids /\ m.place \in Places
         /\ found' \subseteq [id : Ids, place : Places,
                              step : {"get", "update", "insert", "bind"}]
         /\ \A n \in found' : n \in found \/ (n.id = m.id /\ n.step = step)
<1>1. m \in [id : Ids, place : Places, step : {"get", "update", "insert", "bind"}]
  BY DEF TypeOK
<1>2. /\ [m EXCEPT !.step = step] \in
           [id : Ids, place : Places, step : {"get", "update", "insert", "bind"}]
      /\ [m EXCEPT !.step = step].id = m.id
      /\ [m EXCEPT !.step = step].step = step
  BY <1>1
<1> QED
  BY <1>1, <1>2 DEF TypeOK, Goto, Drop

(* A match is looked up.                                                   *)
LEMMA GetDeviceInv == ASSUME IInv, NEW m \in found, GetDevice(m) PROVE IInv'
<1>1. /\ TypeOK /\ MatchesKnown
      /\ UNCHANGED <<where, moves, table, told, lapsed, bound, ping, copy, phase, slave>>
  BY DEF IInv, GetDevice, world, records, pinging
<1> DEFINE step == IF table[m.id] = None THEN "insert" ELSE "update"
<1>2. step \in {"get", "update", "insert", "bind"} /\ (Goto(m, step) \/ Drop(m))
  BY DEF GetDevice
<1>3. /\ found' \subseteq [id : Ids, place : Places,
                           step : {"get", "update", "insert", "bind"}]
      /\ \A n \in found' : n \in found \/ (n.id = m.id /\ n.step = step)
  BY <1>1, <1>2, FoundAfter
<1>4. faults' \in Nat
  BY <1>1 DEF TypeOK, GetDevice, Fault
<1>5. TypeOK'
  BY <1>1, <1>3, <1>4 DEF TypeOK
<1>6. MatchesKnown'
  BY <1>1, <1>3 DEF MatchesKnown
<1> QED
  BY <1>1, <1>5, <1>6 DEF IInv, PingedKnown, UnknownUntold, HealthFollowsStatus,
     OnlyKnownBound, Known


(* A row with a new place.                                                 *)
LEMMA MovedRow ==
  ASSUME NEW row \in Rows, NEW p \in Places
  PROVE  /\ [row EXCEPT !.place = p, !.seen = 0] \in Rows
         /\ [row EXCEPT !.place = p, !.seen = 0].status = row.status
<1>0. \A r \in Rows : [r EXCEPT !.seen = 0] \in Rows
  BY Constant DEF Rows
<1> DEFINE moved == [row EXCEPT !.place = p]
<1>1. moved \in Rows
  BY DEF Rows
<1>2. [moved EXCEPT !.seen = 0] \in Rows
  BY <1>0, <1>1
<1>3. [row EXCEPT !.place = p, !.seen = 0] = [moved EXCEPT !.seen = 0]
  OBVIOUS
<1>4. [row EXCEPT !.place = p, !.seen = 0].status = row.status
  BY DEF Rows
<1> QED
  BY <1>2, <1>3, <1>4

(* A known device gets the place of its match.                             *)
LEMMA UpdateDestinationInv ==
  ASSUME IInv, NEW m \in found, UpdateDestination(m) PROVE IInv'
<1>1. /\ TypeOK /\ MatchesKnown /\ PingedKnown /\ UnknownUntold
      /\ HealthFollowsStatus /\ OnlyKnownBound
      /\ UNCHANGED <<where, moves, told, lapsed, bound, ping, copy, phase, slave>>
      /\ m.step = "update"
  BY DEF IInv, UpdateDestination, world, pinging
<1>2. /\ "bind" \in {"get", "update", "insert", "bind"}
      /\ Goto(m, "bind") \/ Drop(m)
  BY DEF UpdateDestination
<1>3. /\ m.id \in Ids /\ m.place \in Places
      /\ found' \subseteq [id : Ids, place : Places,
                           step : {"get", "update", "insert", "bind"}]
      /\ \A n \in found' : n \in found \/ (n.id = m.id /\ n.step = "bind")
  BY <1>1, <1>2, FoundAfter
<1>4. table[m.id] \in Rows
  BY <1>1, <1>3 DEF MatchesKnown, TypeOK
<1>5. faults' \in Nat
  BY <1>1 DEF TypeOK, UpdateDestination, Fault
<1>6. \/ table' = table
      \/ table' = [table EXCEPT ![m.id].place = m.place, ![m.id].seen = 0]
  BY DEF UpdateDestination
<1>7. /\ table' \in [Ids -> Rows \cup {None}]
      /\ \A id \in Ids : (table'[id] = None) <=> (table[id] = None)
      /\ \A id \in Ids : table[id] # None => table'[id].status = table[id].status
  <2>1. CASE table' = table
    BY <1>1, <2>1 DEF TypeOK
  <2>2. CASE table' = [table EXCEPT ![m.id].place = m.place, ![m.id].seen = 0]
    <3>1. /\ table'[m.id] \in Rows
          /\ table'[m.id].status = table[m.id].status
          /\ \A id \in Ids \ {m.id} : table'[id] = table[id]
      <4> DEFINE i == m.id
                 p == m.place
      <4>1. i \in Ids /\ p \in Places /\ table[i] \in Rows
        BY <1>3, <1>4
      <4>2. table' = [table EXCEPT ![i].place = p, ![i].seen = 0]
        BY <2>2
      <4> HIDE DEF i, p
      <4>3. table \in [Ids -> Rows \cup {None}]
        BY <1>1 DEF TypeOK
      <4>4. table'[i] = [table[i] EXCEPT !.place = p, !.seen = 0]
        BY <4>1, <4>2, <4>3
      <4>5. \A id \in Ids \ {i} : table'[id] = table[id]
        BY <4>1, <4>2, <4>3
      <4>6. table'[i] \in Rows /\ table'[i].status = table[i].status
        BY <4>1, <4>4, MovedRow
      <4> QED
        BY <4>5, <4>6 DEF i
    <3>2. table' \in [Ids -> Rows \cup {None}]
      BY <1>1, <2>2, <3>1 DEF TypeOK
    <3> QED
      BY <1>4, <3>1, <3>2, Constant
  <2> QED
    BY <1>6, <2>1, <2>2
<1>8. TypeOK'
  BY <1>1, <1>3, <1>5, <1>7 DEF TypeOK
<1>9. MatchesKnown'
  <2>1. \A n \in found : n.id \in Ids
    BY <1>1 DEF TypeOK
  <2>2. table[m.id] # None
    BY <1>4, Constant
  <2> QED
    BY <1>1, <1>3, <1>7, <2>1, <2>2 DEF MatchesKnown
<1>10. PingedKnown' /\ UnknownUntold' /\ OnlyKnownBound' /\ HealthFollowsStatus'
  BY <1>1, <1>7 DEF PingedKnown, UnknownUntold, HealthFollowsStatus, OnlyKnownBound, Known
<1> QED
  BY <1>8, <1>9, <1>10 DEF IInv

(* A new device is inserted, unless it is there by now.                    *)
LEMMA InsertDeviceInv == ASSUME IInv, NEW m \in found, InsertDevice(m) PROVE IInv'
<1>1. /\ TypeOK /\ MatchesKnown /\ PingedKnown /\ UnknownUntold
      /\ HealthFollowsStatus /\ OnlyKnownBound
      /\ UNCHANGED <<where, moves, told, lapsed, bound, ping, copy, phase, slave>>
  BY DEF IInv, InsertDevice, world, pinging
<1> DEFINE row == [status |-> "healthy", seen |-> 0, place |-> m.place]
<1>2. \/ /\ table[m.id] = None
         /\ table' = [table EXCEPT ![m.id] = row]
         /\ Goto(m, "bind")
      \/ table' = table /\ Drop(m)
  BY DEF InsertDevice
<1>3. faults' \in Nat
  BY <1>1 DEF TypeOK, InsertDevice, Fault
<1>4. "bind" \in {"get", "update", "insert", "bind"}
  OBVIOUS
<1>5. /\ m.id \in Ids /\ m.place \in Places
      /\ found' \subseteq [id : Ids, place : Places,
                           step : {"get", "update", "insert", "bind"}]
      /\ \A n \in found' : n \in found \/ (n.id = m.id /\ n.step = "bind")
  BY <1>1, <1>2, <1>4, FoundAfter
<1>6. CASE table' = table /\ Drop(m)
  <2>1. TypeOK'
    BY <1>1, <1>3, <1>5, <1>6 DEF TypeOK
  <2>2. found' \subseteq found
    BY <1>6 DEF Drop
  <2> QED
    BY <1>1, <1>6, <2>1, <2>2 DEF IInv, MatchesKnown, PingedKnown, UnknownUntold,
       HealthFollowsStatus, OnlyKnownBound, Known
<1>7. CASE table[m.id] = None /\ table' = [table EXCEPT ![m.id] = row]
  <2>1. row \in Rows /\ row.status = "healthy"
    BY <1>5, Constant DEF Rows, Statuses
  <2>2. row # None
    BY <2>1, Constant
  <2> HIDE DEF row
  <2>3. /\ table' \in [Ids -> Rows \cup {None}]
        /\ table'[m.id] = row
        /\ \A id \in Ids \ {m.id} : table'[id] = table[id]
    BY <1>1, <1>5, <1>7, <2>1 DEF TypeOK
  <2>4. ping[m.id] = "out" /\ told[m.id] = "healthy"
    BY <1>1, <1>5, <1>7 DEF PingedKnown, UnknownUntold
  <2>5. TypeOK'
    BY <1>1, <1>3, <1>5, <2>3 DEF TypeOK
  <2>6. MatchesKnown'
    <3>1. \A n \in found : n.id \in Ids
      BY <1>1 DEF TypeOK
    <3> QED
      BY <1>1, <1>5, <2>2, <2>3, <3>1 DEF MatchesKnown
  <2>7. PingedKnown' /\ UnknownUntold' /\ OnlyKnownBound'
    BY <1>1, <2>2, <2>3, <2>4 DEF PingedKnown, UnknownUntold, OnlyKnownBound, Known
  <2>8. HealthFollowsStatus'
    BY <1>1, <2>1, <2>3, <2>4 DEF HealthFollowsStatus, Known
  <2> QED
    BY <2>5, <2>6, <2>7, <2>8 DEF IInv
<1> QED
  BY <1>2, <1>6, <1>7

(* A match is bound.                                                       *)
LEMMA BindMatchInv == ASSUME IInv, NEW m \in found, BindMatch(m) PROVE IInv'
<1>1. /\ m.id \in Ids /\ m.place \in Places /\ table[m.id] # None
      /\ found' = found \ {m}
  BY DEF IInv, TypeOK, MatchesKnown, BindMatch, Drop
<1> QED
  BY <1>1 DEF IInv, TypeOK, PingedKnown, UnknownUntold, MatchesKnown,
     HealthFollowsStatus, OnlyKnownBound, Known, BindMatch, world, records, pinging

(* The service restarts.                                                   *)
LEMMA RestartInv == ASSUME IInv, Restart PROVE IInv'
<1>1. /\ TypeOK /\ UnknownUntold /\ HealthFollowsStatus
      /\ UNCHANGED <<where, moves, table, told>>
      /\ bound' = [id \in Ids |-> None]
      /\ lapsed' = lapsed \cup {id \in Ids : ping[id] \in {"stop", "rebind", "report"}}
      /\ ping' = [id \in Ids |-> "out"]
      /\ copy' = [id \in Ids |-> None]
      /\ phase' = "out"
      /\ slave' = [a \in Addresses |-> Over]
      /\ found' = {}
      /\ faults' = faults + 1
  BY DEF IInv, Restart, Fault, world
<1>2. Over \in Standalone .. Over
  BY Constant DEF Standalone
<1>3. TypeOK'
  BY <1>1, <1>2 DEF TypeOK
<1>4. PingedKnown' /\ UnknownUntold' /\ MatchesKnown' /\ OnlyKnownBound'
  BY <1>1 DEF PingedKnown, UnknownUntold, MatchesKnown, OnlyKnownBound
<1>5. HealthFollowsStatus'
  BY <1>1 DEF HealthFollowsStatus, Known
<1> QED
  BY <1>3, <1>4, <1>5 DEF IInv

-----------------------------------------------------------------------------
(* Every step keeps the invariant.                                         *)
LEMMA StepInv == IInv /\ [Next]_vars => IInv'
<1> SUFFICES ASSUME IInv, [Next]_vars
             PROVE  IInv'
  OBVIOUS
<1>1. CASE UNCHANGED vars
  BY <1>1 DEF IInv, TypeOK, PingedKnown, UnknownUntold, MatchesKnown, HealthFollowsStatus,
     OnlyKnownBound, Known, vars, world, records, pinging, discovery
<1>2. CASE Next
  BY <1>2, TickInv, MoveInv, StartPingInv, AskInv, RecordInv, RebindInv, ReportInv,
     ScanModbusInv, JoinMatchesInv, MatchDestinationInv, GetDeviceInv,
     UpdateDestinationInv, InsertDeviceInv, BindMatchInv, RestartInv
     DEF Next, PingDevice, Discover, Consolidate
<1> QED
  BY <1>1, <1>2

(* The inductive invariant of discover and ping: what the ping works on    *)
(* and what discover has looked up are devices of the table, with the      *)
(* status they have there.                                                 *)
THEOREM Invariance == Spec => []IInv
BY InitInv, StepInv, PTL DEF Spec

(* The table and the registry keep their types, whatever the ages, copies  *)
(* and scans are, and an execution of ping or discover that is over has    *)
(* left no copy and no match behind.                                       *)
THEOREM TypeCorrect == Spec => []TypeOK
<1>1. IInv => TypeOK
  BY DEF IInv
<1> QED
  BY <1>1, Invariance, PTL

(* The last health row of a device shows its status but for a ping that is *)
(* about to insert it and for an insert that failed or was cut off.        *)
THEOREM HealthTold == Spec => []HealthFollowsStatus
<1>1. IInv => HealthFollowsStatus
  BY DEF IInv
<1> QED
  BY <1>1, Invariance, PTL

(* ping and discover never bind a device the table does not know.          *)
THEOREM BoundKnown == Spec => []OnlyKnownBound
<1>1. IInv => OnlyKnownBound
  BY DEF IInv
<1> QED
  BY <1>1, Invariance, PTL
=============================================================================
