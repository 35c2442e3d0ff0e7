-------------------------------- MODULE Push --------------------------------
(***************************************************************************)
(* The push process (src/cli/src/process/push.rs): it reads the id of the  *)
(* last measurement the server is known to hold from the log table, sends  *)
(* the following page of measurements, halves the page when the server     *)
(* does not confirm it, and steps over one id when even a page of one row  *)
(* fails.  The scheduler's mutex keeps two executions apart, but the       *)
(* measure process inserts rows, the network fails, answers get lost, the  *)
(* process restarts and the clock is corrected while it runs.              *)
(***************************************************************************)
EXTENDS Integers, FiniteSets

CONSTANTS MessageLimit,  \* config.cloud.message_limit
          MaxId,         \* bound: ids the measurements table hands out
          MaxInsert,     \* bound: rows of one insert statement
          MaxFaults,     \* bound: outages, lost answers, crashes, clock steps
          Poison         \* ids of the rows the server rejects every time

ASSUME PushAssumption ==
  /\ MessageLimit \in Nat
  /\ MaxId \in Nat
  /\ MaxInsert \in Nat
  /\ MaxFaults \in Nat
  /\ Poison \subseteq Nat

VARIABLES
  rows,      \* ids in the measurements table
  nextId,    \* the bigserial sequence of that table
  logs,      \* successful push logs: the last id sent and the timestamp
  clock,     \* what chrono::Utc::now() gave the latest log
  received,  \* ids of the rows the server has stored
  refused,   \* history: rows that were stepped over after failing on their own
  online,    \* whether the server can be reached
  faults,    \* faults that happened so far
  pc,        \* where the execution is, "idle" between two executions
  from,      \* last_pushed_id
  limit,     \* limit
  batch      \* ids of measurements_to_push

tables == <<rows, nextId>>
local == <<pc, from, limit, batch>>
vars == <<rows, nextId, logs, clock, received, refused, online, faults, local>>

-----------------------------------------------------------------------------
Above(id) == {r \in rows : r > id}

(* Faulty variants of Page: the newest rows first; ids taken for gapless.  *)
PageNewest(id, n) ==
  {r \in Above(id) : Cardinality({q \in Above(id) : q >= r}) <= n}
PageGapless(id, n) == IF Above(id) = {} THEN {} ELSE id + 1 .. id + n

(* get_measurements: where id > from order by id asc limit n.              *)
Page(id, n) ==
  {r \in Above(id) : Cardinality({q \in Above(id) : q <= r}) <= n}

(* get_last_successful_push_log: order by timestamp desc limit 1, 0 when   *)
(* there is no such log.                                                   *)
LastPushed ==
  IF logs = {} THEN {0}
  ELSE {l.last : l \in {m \in logs : \A o \in logs : o.at <= m.at}}

Settled == {r \in rows : \E l \in logs : r <= l.last}

-----------------------------------------------------------------------------
Init ==
  /\ rows = {}
  /\ nextId = 1
  /\ logs = {}
  /\ clock = 0
  /\ received = {}
  /\ refused = {}
  /\ online = TRUE
  /\ faults = 0
  /\ pc = "idle"
  /\ from = 0
  /\ limit = 0
  /\ batch = {}

(* insert_measurements of the measure process: one statement, consecutive  *)
(* ids; a statement that fails has used its ids up.                        *)
Insert(n) ==
  /\ nextId + n <= MaxId + 1
  /\ nextId' = nextId + n
  /\ \/ rows' = rows \cup (nextId .. nextId + n - 1)
     \/ UNCHANGED rows
  /\ UNCHANGED <<logs, clock, received, refused, online, faults, local>>

(* Faulty variant of Start: the log is ignored after a restart.            *)
StartAnew ==
  /\ pc = "idle"
  /\ from' = 0
  /\ limit' = MessageLimit
  /\ pc' = "query"
  /\ UNCHANGED <<tables, logs, clock, received, refused, online, faults, batch>>

(* execute reads the log and starts with a full page.                      *)
Start ==
  /\ pc = "idle"
  /\ \E last \in LastPushed : from' = last
  /\ limit' = MessageLimit
  /\ pc' = "query"
  /\ UNCHANGED <<tables, logs, clock, received, refused, online, faults, batch>>

(* try_push up to the request: nothing left to send ends the execution.    *)
Query ==
  /\ pc = "query"
  /\ batch' = Page(from, limit)
  /\ pc' = IF batch' = {} THEN "idle" ELSE "send"
  /\ UNCHANGED <<tables, logs, clock, received, refused, online, faults, from,
                 limit>>

(* The server stores the page and its answer arrives.                      *)
Confirmed ==
  /\ pc = "send"
  /\ online
  /\ batch \cap Poison = {}
  /\ received' = received \cup batch
  /\ pc' = "success"
  /\ UNCHANGED <<tables, logs, clock, refused, online, faults, from, limit, batch>>

(* The server rejects the page, or it cannot be reached.                   *)
Rejected ==
  /\ pc = "send"
  /\ \/ ~online
     \/ batch \cap Poison # {}
  /\ pc' = "failure"
  /\ UNCHANGED <<tables, logs, clock, received, refused, online, faults, from, limit, batch>>

(* The server stores the page but the answer does not arrive in time.      *)
AnswerLost ==
  /\ pc = "send"
  /\ online
  /\ faults < MaxFaults
  /\ faults' = faults + 1
  /\ batch \cap Poison = {}
  /\ received' = received \cup batch
  /\ pc' = "failure"
  /\ UNCHANGED <<tables, logs, clock, refused, online, from, limit, batch>>

(* The page is confirmed: its last id is logged and the execution ends.    *)
LogSuccess ==
  /\ pc = "success"
  /\ \E last \in batch :
       /\ \A r \in batch : r <= last
       /\ logs' = logs \cup {[last |-> last, at |-> clock + 1]}
  /\ clock' = clock + 1
  /\ pc' = "idle"
  /\ UNCHANGED <<tables, received, refused, online, faults, from, limit, batch>>

(* Faulty variants of LogFailure: the whole page is stepped over; nothing  *)
(* is ever stepped over.                                                   *)
LogFailureStepPage ==
  /\ pc = "failure"
  /\ from' = from + limit
  /\ limit' = MessageLimit
  /\ pc' = "query"
  /\ UNCHANGED <<tables, logs, clock, received, refused, online, faults, batch>>
LogFailureRepeat ==
  /\ pc = "failure"
  /\ limit' = IF limit \div 2 = 0 THEN MessageLimit ELSE limit \div 2
  /\ refused' = IF limit \div 2 = 0 THEN refused \cup batch ELSE refused
  /\ pc' = "query"
  /\ UNCHANGED <<tables, logs, clock, received, online, faults, from, batch>>

(* The page failed: half of it next, or over one id with a full page.  The *)
(* failure is logged too, but no query of push reads that log.             *)
LogFailure ==
  /\ pc = "failure"
  /\ IF limit \div 2 = 0
     THEN /\ from' = from + 1
          /\ limit' = MessageLimit
          /\ refused' = refused \cup batch
     ELSE /\ limit' = limit \div 2
          /\ UNCHANGED <<from, refused>>
  /\ pc' = "query"
  /\ UNCHANGED <<tables, logs, clock, received, online, faults, batch>>

-----------------------------------------------------------------------------
Fault ==
  /\ faults < MaxFaults
  /\ faults' = faults + 1

(* A query fails (the ? operator leaves execute) or the service restarts.  *)
Crash ==
  /\ Fault
  /\ pc # "idle"
  /\ pc' = "idle"
  /\ UNCHANGED <<tables, logs, clock, received, refused, online, from, limit, batch>>

Disconnect ==
  /\ Fault
  /\ online
  /\ online' = FALSE
  /\ UNCHANGED <<tables, logs, clock, received, refused, local>>

Reconnect ==
  /\ ~online
  /\ online' = TRUE
  /\ UNCHANGED <<tables, logs, clock, received, refused, faults, local>>

(* The clock of a board without a battery is set back.                     *)
ClockStep ==
  /\ Fault
  /\ \E t \in 0 .. clock - 1 : clock' = t
  /\ UNCHANGED <<tables, logs, received, refused, online, local>>

Process == Start \/ Query \/ Confirmed \/ Rejected \/ LogSuccess \/ LogFailure

Next ==
  \/ \E n \in 1 .. MaxInsert : Insert(n)
  \/ Process
  \/ AnswerLost
  \/ Crash
  \/ Disconnect
  \/ Reconnect
  \/ ClockStep

(* Cron starts the process again and again and tokio runs it; an outage of *)
(* the network ends.                                                       *)
Fairness == WF_vars(Process) /\ WF_vars(Reconnect)

Spec == Init /\ [][Next]_vars
FairSpec == Spec /\ Fairness

-----------------------------------------------------------------------------
TypeOK ==
  /\ rows \subseteq 1 .. nextId - 1
  /\ nextId \in Nat \ {0}
  /\ logs \subseteq [last : Nat, at : Nat]
  /\ clock \in Nat
  /\ received \subseteq rows
  /\ refused \subseteq rows
  /\ online \in BOOLEAN
  /\ faults \in Nat
  /\ pc \in {"idle", "query", "send", "success", "failure"}
  /\ from \in Nat
  /\ limit \in Nat
  /\ batch \subseteq rows

(* No measurement behind the logged position is missing on the server      *)
(* unless the server failed to confirm it when it was sent alone: halving, *)
(* stepping over an id, lost answers, crashes, inserts between two queries *)
(* and a clock that steps back never drop a row that could be sent.        *)
NoSilentLoss == Settled \subseteq received \cup refused

(* What the outbox of the introduction asks for: an outage of the network  *)
(* costs no row.  The code steps over rows while the server is away.       *)
OutageLosesNothing == Settled \subseteq received \cup Poison

(* The logged position never goes back, not even when the clock does and   *)
(* the log it is read from is no longer the last one written.              *)
PositionAdvances ==
  [][\A new \in LastPushed' : \E old \in LastPushed : old <= new]_vars

(* Every row the server accepts is settled in the end, and with it every   *)
(* row stored before it: a row that is always rejected, a gap in the ids,  *)
(* an outage or a stepped clock holds the outbox up only for a while.      *)
EveryGoodRowSettled ==
  \A id \in (1 .. MaxId) \ Poison : id \in rows ~> id \in Settled

OutboxView == INSTANCE Outbox WITH Ids <- 1 .. MaxId, settled <- Settled

(* The push process implements the outbox.                                 *)
ImplementsOutbox == OutboxView!Spec
=============================================================================
