---------------------------- MODULE HealthUpdate ----------------------------
(***************************************************************************)
(* The update process (src/cli/src/process/update.rs) sends the health of  *)
(* the meters to the server, the health process (health.rs) that of the    *)
(* board.  Both write logs of kind update; update alone reads them, for    *)
(* the last health row it sent.  A page is sent as it is or not at all.    *)
(* The ping process inserts health rows over several connections at once,  *)
(* and the page is queried without an order.                               *)
(***************************************************************************)
EXTENDS Integers, FiniteSets

CONSTANTS MessageLimit,  \* config.cloud.message_limit
          MaxId,         \* bound: ids the health table hands out
          MaxReports,    \* bound: executions of the health process
          MaxFaults,     \* bound: failed requests, crashes and clock steps
          MaxOpen        \* inserts that may be under way at the same time

ASSUME HealthUpdateAssumption ==
  /\ MessageLimit \in Nat
  /\ MaxId \in Nat
  /\ MaxReports \in Nat
  /\ MaxFaults \in Nat
  /\ MaxOpen \in Nat

NoLast == -1  \* last of a log of the health process, null

VARIABLES
  rows,      \* ids in the health table
  open,      \* ids of inserts that are not committed yet
  nextId,    \* the bigserial sequence of that table
  logs,      \* update logs: the last id, whether it succeeded, the timestamp
  clock,     \* what chrono::Utc::now() gave the latest log
  reports,   \* executions of the health process so far
  received,  \* ids of the rows the server has stored
  late,      \* history: rows committed after one with a higher id
  left,      \* history: rows left out below a row of a page that was sent
  faults,    \* faults that happened so far
  pc,        \* where the update is, "idle" between two executions
  from,      \* last_pushed_id
  batch      \* ids of health_to_update

tables == <<rows, open, nextId, late>>
local == <<pc, from, batch>>
vars == <<tables, logs, clock, reports, received, left, faults, local>>

-----------------------------------------------------------------------------
Above(id) == {r \in rows : r > id}

(* Faulty variants of Pages: ids are taken to be without gaps; only a full *)
(* page is sent.                                                           *)
PagesGapless(id, n) == {IF Above(id) = {} THEN {} ELSE id + 1 .. id + n}
PagesFull(id, n) ==
  IF Cardinality(Above(id)) < n THEN {{}}
  ELSE {p \in SUBSET Above(id) : Cardinality(p) = n}

(* get_health: where id > from limit n, in whatever order the rows are.    *)
Pages(id, n) ==
  {p \in SUBSET Above(id) :
     /\ Cardinality(p) <= n
     /\ p # Above(id) => Cardinality(p) = n}

(* Faulty variant of Counted: the logs of the health process count too.    *)
CountedNull == {l \in logs : l.ok}

(* get_last_successful_update_log: success, last not null, ...             *)
Counted == {l \in logs : l.ok /\ l.last # NoLast}

(* ... order by timestamp desc limit 1, and 0 when there is none.          *)
LastPushed ==
  IF Counted = {} THEN {0}
  ELSE {l.last : l \in {m \in Counted : \A o \in Counted : o.at <= m.at}}

Settled == {r \in rows : \E l \in logs : l.ok /\ r <= l.last}

Log(last, ok) ==
  /\ logs' = logs \cup {[last |-> last, ok |-> ok, at |-> clock + 1]}
  /\ clock' = clock + 1

-----------------------------------------------------------------------------
Init ==
  /\ rows = {}
  /\ open = {}
  /\ nextId = 1
  /\ logs = {}
  /\ clock = 0
  /\ reports = 0
  /\ received = {}
  /\ late = {}
  /\ left = {}
  /\ faults = 0
  /\ pc = "idle"
  /\ from = 0
  /\ batch = {}

(* insert_health takes an id from the sequence ...                         *)
BeginInsert ==
  /\ nextId <= MaxId
  /\ Cardinality(open) < MaxOpen
  /\ open' = open \cup {nextId}
  /\ nextId' = nextId + 1
  /\ UNCHANGED <<rows, late, logs, clock, reports, received, left, faults, local>>

(* ... and the row is there once it commits; a failed insert leaves a gap. *)
EndInsert(id) ==
  /\ id \in open
  /\ open' = open \ {id}
  /\ \/ /\ rows' = rows \cup {id}
        /\ late' = IF Above(id) = {} THEN late ELSE late \cup {id}
     \/ UNCHANGED <<rows, late>>
  /\ UNCHANGED <<nextId, logs, clock, reports, received, left, faults, local>>

Start ==
  /\ pc = "idle"
  /\ \E last \in LastPushed : from' = last
  /\ pc' = "query"
  /\ UNCHANGED <<tables, logs, clock, reports, received, left, faults, batch>>

Query ==
  /\ pc = "query"
  /\ batch' \in Pages(from, MessageLimit)
  /\ pc' = IF batch' = {} THEN "idle" ELSE "send"
  /\ UNCHANGED <<tables, logs, clock, reports, received, left, faults, from>>

(* The rows that the page at hand leaves out below one of its own.         *)
LeftOut == {r \in Above(from) \ batch : \E b \in batch : r < b}

Confirmed ==
  /\ pc = "send"
  /\ received' = received \cup batch
  /\ left' = left \cup LeftOut
  /\ pc' = "success"
  /\ UNCHANGED <<tables, logs, clock, reports, faults, from, batch>>

Fault ==
  /\ faults < MaxFaults
  /\ faults' = faults + 1

(* The server rejects the page or is away, or only its answer is lost.     *)
Failed ==
  /\ pc = "send"
  /\ Fault
  /\ \/ UNCHANGED received
     \/ received' = received \cup batch
  /\ pc' = "failure"
  /\ UNCHANGED <<tables, logs, clock, reports, left, from, batch>>

(* Faulty variant of LogResult: a failure is logged as a success.          *)
LogResultOk ==
  /\ pc \in {"success", "failure"}
  /\ \E last \in batch :
       /\ \A r \in batch : r <= last
       /\ Log(last, TRUE)
  /\ pc' = "idle"
  /\ UNCHANGED <<tables, reports, received, left, faults, from, batch>>

LogResult ==
  /\ pc \in {"success", "failure"}
  /\ \E last \in batch :
       /\ \A r \in batch : r <= last
       /\ Log(last, pc = "success")
  /\ pc' = "idle"
  /\ UNCHANGED <<tables, reports, received, left, faults, from, batch>>

(* The health process: its log is of the same kind and has no last.        *)
Report(ok) ==
  /\ reports < MaxReports
  /\ reports' = reports + 1
  /\ Log(NoLast, ok)
  /\ UNCHANGED <<tables, received, left, faults, local>>

(* A query fails (the ? operator leaves execute) or the service restarts.  *)
Crash ==
  /\ Fault
  /\ pc # "idle"
  /\ pc' = "idle"
  /\ UNCHANGED <<tables, logs, clock, reports, received, left, from, batch>>

(* The clock of a board without a battery is set back.                     *)
ClockStep ==
  /\ Fault
  /\ \E t \in 0 .. clock - 1 : clock' = t
  /\ UNCHANGED <<tables, logs, reports, received, left, local>>

Process == Start \/ Query \/ Confirmed \/ LogResult

Next ==
  \/ BeginInsert
  \/ \E id \in open : EndInsert(id)
  \/ Process
  \/ Failed
  \/ \E ok \in BOOLEAN : Report(ok)
  \/ Crash
  \/ ClockStep

(* Cron starts the process again and again; an insert ends.                *)
Fairness == WF_vars(Process) /\ WF_vars(\E id \in open : EndInsert(id))

Spec == Init /\ [][Next]_vars
FairSpec == Spec /\ Fairness

-----------------------------------------------------------------------------
TypeOK ==
  /\ rows \subseteq 1 .. nextId - 1
  /\ open \subseteq 1 .. nextId - 1
  /\ nextId \in Nat \ {0}
  /\ logs \subseteq [last : Nat \cup {NoLast}, ok : BOOLEAN, at : Nat]
  /\ clock \in Nat
  /\ reports \in Nat
  /\ received \subseteq rows
  /\ late \subseteq rows
  /\ left \subseteq rows
  /\ faults \in Nat
  /\ pc \in {"idle", "query", "send", "success", "failure"}
  /\ from \in Nat
  /\ batch \subseteq rows

(* The position that is read from the logs never goes back: not because of *)
(* the logs of the health process, a failed request or a stepped clock.    *)
PositionAdvances ==
  [][\A new \in LastPushed' : \E old \in LastPushed : old <= new]_vars

(* What update is done with the server has.                                *)
NothingPassedOver == Settled \subseteq received

(* A row that update is done with and the server has not was committed     *)
(* behind a higher id, or a page that the server took had left it out:     *)
(* failed requests, lost answers, crashes, logs of the health process and  *)
(* a stepped clock pass over nothing.                                      *)
OnlyPassedOver == Settled \subseteq received \cup late \cup left

(* Every row is settled in the end: a failed request or a log of the       *)
(* health process does not hold it up.                                     *)
EveryRowSettled == \A id \in 1 .. MaxId : id \in rows ~> id \in Settled
=============================================================================
