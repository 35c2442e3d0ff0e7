------------------------------- MODULE Measure -------------------------------
(***************************************************************************)
(* The measure process (src/cli/src/process/measure.rs): it keeps a stream *)
(* of readings per device, takes out of them what has come since the last  *)
(* execution, stores what really is of the device, and joins its streams   *)
(* with the rows of the devices table.  Meanwhile workers fill and end     *)
(* streams, meters move, and ping and discover bind and stop devices.      *)
(***************************************************************************)
EXTENDS Integers, Sequences, FiniteSets

CONSTANTS Devices,         \* device ids, numbers for their order as strings
          Places,          \* destinations: an address with a slave
          Address,         \* the address of each destination
          StreamCapacity,  \* capacity of the channel of a stream, 1024
          MaxMoves,        \* bound: moves of a meter
          MaxFaults,       \* bound: stops, failed readings and queries,
                           \* configurations that leave out a device
          None             \* no place

ASSUME MeasureAssumption ==
  /\ Devices \subseteq Nat
  /\ IsFiniteSet(Devices)
  /\ None \notin Places
  /\ DOMAIN Address = Places
  /\ StreamCapacity \in Nat \ {0}
  /\ MaxMoves \in Nat
  /\ MaxFaults \in Nat

(* Results in the channel of a stream besides the readings of meters.      *)
ParseError == -1
ConnectError == -2

VARIABLES
  where,     \* the place of each meter
  rows,      \* ids in the devices table
  bound,     \* destination of each device in the Modbus registry
  streams,   \* self.streams, with the results in the channel of each
  measured,  \* devices with a row in the last insert_measurements
  pc,        \* where the execution is
  taken,     \* measurements taken from the streams: device and meter
  fetched,   \* the rows that have a configuration, in the order they came
  moves,     \* moves so far
  faults     \* faults so far

registry == <<where, rows, bound, moves>>
local == <<pc, taken, fetched>>
vars == <<registry, streams, measured, local, faults>>

-----------------------------------------------------------------------------
Fault == faults < MaxFaults /\ faults' = faults + 1

(* get_devices has no order by: rows come in any order.                    *)
Orders(set) ==
  {s \in [1 .. Cardinality(set) -> set] :
     \A i, j \in DOMAIN s : i # j => s[i] # s[j]}

(* What make_stream is still to be called for.                             *)
New(d) == [id |-> d, place |-> None, queue |-> <<>>, open |-> TRUE]

(* Faulty variants of MergeJoin: nothing is joined; old and new are taken  *)
(* to be of the same devices; every stream is made anew.                   *)
MergeJoinAppend(old, new) == old \o [i \in 1 .. Len(new) |-> New(new[i])]
MergeJoinPairs(old, new) ==
  [i \in 1 .. Len(new) |->
     IF i <= Len(old) THEN old[i] ELSE New(new[i])]
MergeJoinNew(old, new) == [i \in 1 .. Len(new) |-> New(new[i])]

(* merge_join_by with a filter: an old stream with its row or a new row,   *)
(* but no old stream alone; both sides are taken to be in order.           *)
MergeJoin(old, new) ==
  LET Merged[at \in (1 .. Len(old) + 1) \X (1 .. Len(new) + 1)] ==
        LET i == at[1]
            j == at[2]
        IN  IF j > Len(new) THEN <<>>
            ELSE IF i <= Len(old) /\ old[i].id < new[j] THEN Merged[<<i + 1, j>>]
            ELSE IF i <= Len(old) /\ old[i].id = new[j]
                 THEN <<old[i]>> \o Merged[<<i + 1, j + 1>>]
            ELSE <<New(new[j])>> \o Merged[<<i, j + 1>>]
  IN  Merged[<<1, 1>>]

Init ==
  /\ where \in [Devices -> Places]
  /\ \A i, j \in Devices : where[i] = where[j] => i = j
  /\ rows = {}
  /\ bound = [d \in Devices |-> None]
  /\ streams = <<>>
  /\ measured = {}
  /\ pc = "idle"
  /\ taken = {}
  /\ fetched = <<>>
  /\ moves = 0
  /\ faults = 0

-----------------------------------------------------------------------------
(* discover inserts a new device ...                                       *)
Discover(d) ==
  /\ d \notin rows
  /\ rows' = rows \cup {d}
  /\ UNCHANGED <<where, bound, moves, streams, measured, local, faults>>

(* ... and, as ping does, binds a known one to where it is.                *)
Bind(d) ==
  /\ d \in rows
  /\ bound[d] # where[d]
  /\ bound' = [bound EXCEPT ![d] = where[d]]
  /\ UNCHANGED <<where, rows, moves, streams, measured, local, faults>>

(* The worker of the address a device leaves has no other device.          *)
Vacated(d, p) ==
  /\ Address[p] = Address[bound[d]]
  /\ \A e \in Devices \ {d} :
       bound[e] # None => Address[bound[e]] # Address[bound[d]]

(* ping stops a device: a worker without any device is terminated, and all *)
(* its streams end.                                                        *)
Stop(d) ==
  /\ bound[d] # None
  /\ Fault
  /\ bound' = [bound EXCEPT ![d] = None]
  /\ streams' = [i \in 1 .. Len(streams) |->
                   IF streams[i].place # None /\ Vacated(d, streams[i].place)
                   THEN [streams[i] EXCEPT !.open = FALSE]
                   ELSE streams[i]]
  /\ UNCHANGED <<where, rows, moves, measured, local>>

Move(d, p) ==
  /\ moves < MaxMoves
  /\ \A e \in Devices : where[e] # p
  /\ where' = [where EXCEPT ![d] = p]
  /\ moves' = moves + 1
  /\ UNCHANGED <<rows, bound, streams, measured, local, faults>>

(* Faulty variant of Deliver: the channel has no bound.                    *)
DeliverUnbounded(i) ==
  /\ streams[i].open
  /\ \E meter \in Devices :
       /\ where[meter] = streams[i].place
       /\ streams' = [streams EXCEPT ![i].queue = Append(@, meter)]
  /\ UNCHANGED <<registry, measured, local, faults>>

(* The worker of a stream: a reading of whatever meter is at its place; a  *)
(* full channel ends the stream.                                           *)
Deliver(i) ==
  /\ streams[i].open
  /\ \E meter \in Devices :
       /\ where[meter] = streams[i].place
       /\ streams' =
            IF Len(streams[i].queue) < StreamCapacity
            THEN [streams EXCEPT ![i].queue = Append(@, meter)]
            ELSE [streams EXCEPT ![i].open = FALSE]
  /\ UNCHANGED <<registry, measured, local, faults>>

(* A reading that cannot be parsed, or a first connection that fails.      *)
Fail(i) ==
  /\ streams[i].open
  /\ streams[i].place # None
  /\ Len(streams[i].queue) < StreamCapacity
  /\ Fault
  /\ \E error \in {ParseError, ConnectError} :
       streams' = [streams EXCEPT ![i].queue = Append(@, error),
                                  ![i].open = error = ParseError]
  /\ UNCHANGED <<registry, measured, local>>

-----------------------------------------------------------------------------
(* Faulty variant of Retained: a stream that has ended stays.              *)
RetainedAll(stream) == TRUE

(* retain_mut drops a stream that has ended or failed to connect.          *)
Retained(stream) ==
  stream.open /\ \A i \in DOMAIN stream.queue : stream.queue[i] # ConnectError

(* get_unprocessed_measurements.                                           *)
Drain ==
  LET drained == [i \in DOMAIN streams |-> [streams[i] EXCEPT !.queue = <<>>]]
      kept == {i \in DOMAIN streams : Retained(streams[i])}
  IN  /\ pc = "idle"
      /\ taken' =
           UNION {{[device |-> streams[i].id, meter |-> streams[i].queue[k]] :
                     k \in {n \in DOMAIN streams[i].queue :
                              streams[i].queue[n] \in Devices}} : i \in DOMAIN streams}
      /\ streams' =
           [n \in 1 .. Cardinality(kept) |->
              drained[CHOOSE i \in kept : Cardinality({k \in kept : k <= i}) = n]]
      /\ pc' = "store"
      /\ UNCHANGED <<registry, measured, fetched, faults>>

(* The devices with a measurement whose id registers say it is theirs.     *)
Verified == {m.device : m \in {n \in taken : n.meter = n.device}}

(* consolidate: one insert of all of them, whose failure is logged.        *)
Store ==
  /\ pc = "store"
  /\ \/ /\ measured' = Verified
        /\ UNCHANGED faults
     \/ /\ Fault
        /\ measured' = {}
  /\ taken' = {}
  /\ pc' = "fetch"
  /\ UNCHANGED <<registry, streams, fetched>>

(* get_devices_from_db keeps the rows whose kind the configuration has;    *)
(* when the query fails the execution ends.                                *)
Fetch ==
  /\ pc = "fetch"
  /\ \/ /\ fetched' \in Orders(rows)
        /\ pc' = "merge"
        /\ UNCHANGED faults
     \/ /\ Fault
        /\ \E configured \in SUBSET rows : fetched' \in Orders(configured)
        /\ pc' = "merge"
     \/ /\ Fault
        /\ pc' = "idle"
        /\ UNCHANGED fetched
  /\ UNCHANGED <<registry, streams, measured, taken>>

(* merge_devices up to make_stream of the new devices.                     *)
Merge ==
  /\ pc = "merge"
  /\ streams' = MergeJoin(streams, fetched)
  /\ fetched' = <<>>
  /\ pc' = "open"
  /\ UNCHANGED <<registry, measured, taken, faults>>

Unopened == {i \in DOMAIN streams : streams[i].place = None}

(* make_stream: a stream from the worker the device is bound to; a device  *)
(* that is not bound gets none until the next execution.                   *)
Open(i) ==
  /\ pc = "open"
  /\ i \in Unopened
  /\ streams' =
       IF bound[streams[i].id] = None
       THEN SubSeq(streams, 1, i - 1) \o SubSeq(streams, i + 1, Len(streams))
       ELSE [streams EXCEPT ![i].place = bound[streams[i].id]]
  /\ UNCHANGED <<registry, measured, local, faults>>

End ==
  /\ pc = "open"
  /\ Unopened = {}
  /\ pc' = "idle"
  /\ UNCHANGED <<registry, streams, measured, taken, fetched, faults>>

-----------------------------------------------------------------------------
Process ==
  Drain \/ Store \/ Fetch \/ Merge \/ End \/ \E i \in DOMAIN streams : Open(i)

Next ==
  \/ \E d \in Devices : Discover(d) \/ Bind(d) \/ Stop(d)
  \/ \E d \in Devices, p \in Places : Move(d, p)
  \/ \E i \in DOMAIN streams : Deliver(i) \/ Fail(i)
  \/ Process

(* Cron starts the process again and again, discover and ping find and     *)
(* bind devices, and the worker of a stream gets on with it.               *)
Fairness ==
  /\ WF_vars(Process)
  /\ \A d \in Devices :
       /\ WF_vars(Discover(d) \/ Bind(d))
       /\ WF_vars(\E i \in DOMAIN streams : streams[i].id = d /\ Deliver(i))

Spec == Init /\ [][Next]_vars
FairSpec == Spec /\ Fairness

-----------------------------------------------------------------------------
Stream == [id : Devices, place : Places \cup {None},
           queue : Seq(Devices \cup {ParseError, ConnectError}), open : BOOLEAN]

TypeOK ==
  /\ where \in [Devices -> Places]
  /\ rows \subseteq Devices
  /\ bound \in [Devices -> Places \cup {None}]
  /\ streams \in Seq(Stream)
  /\ \A i \in DOMAIN streams : Len(streams[i].queue) <= StreamCapacity
  /\ measured \subseteq rows
  /\ pc \in {"idle", "store", "fetch", "merge", "open"}
  /\ taken \subseteq [device : rows, meter : Devices]
  /\ fetched \in Seq(rows)
  /\ moves \in Nat
  /\ faults \in Nat

(* A device has at most one stream, in whatever order the table comes:     *)
(* no measurement is taken twice.                                          *)
OneStream ==
  \A i, j \in DOMAIN streams : streams[i].id = streams[j].id => i = j

(* The join leaves out no row and adds none, although neither of its sides *)
(* needs to be in the order it takes them to be in.                        *)
EveryRowJoined ==
  [][pc = "merge" /\ pc' = "open" =>
       {streams'[i].id : i \in DOMAIN streams'}
         = {fetched[i] : i \in DOMAIN fetched}]_vars

(* The stream or the row of a device comes behind that of a larger id.     *)
OutOfOrder(d) ==
  \/ \E i \in DOMAIN streams, h \in DOMAIN streams :
       h < i /\ streams[i].id = d /\ streams[h].id > d
  \/ \E j \in DOMAIN fetched, l \in DOMAIN fetched :
       l < j /\ fetched[j] = d /\ fetched[l] > d

(* A stream whose device is among the rows stays, with the results that    *)
(* came since they were last taken, unless it or its row is out of order.  *)
StreamsKept ==
  [][pc = "merge" /\ pc' = "open" =>
       \A i \in DOMAIN streams :
         \/ \A j \in DOMAIN fetched : fetched[j] # streams[i].id
         \/ OutOfOrder(streams[i].id)
         \/ \E j \in DOMAIN streams' : streams'[j] = streams[i]]_vars

(* A device whose meter stays where it is and that is bound there for good *)
(* is measured again and again, whatever streams end or fail and other     *)
(* meters do, unless joins find it out of order again and again, and then  *)
(* replace its stream; the device with the largest id never is.            *)
StillMeasured ==
  \A d \in Devices, p \in Places :
    [](where[d] = p) /\ <>[](bound[d] = p) =>
      \/ []<>(d \in measured)
      \/ /\ []<>(pc = "merge" /\ OutOfOrder(d))
         /\ \E e \in Devices : e > d

(* Workers take measurements all the time (introduction): once every       *)
(* device is bound where it is for good, some of them are measured again   *)
(* and again.  But the stream of a moved meter stays at the old place,     *)
(* whose worker goes on, and is never replaced, while that of a device     *)
(* with a smaller id is replaced by every join that finds its row behind.  *)
SomeMeasured ==
  (\A d \in Devices : \E p \in Places : <>[](where[d] = p /\ bound[d] = p)) =>
    []<>(measured # {})
=============================================================================
