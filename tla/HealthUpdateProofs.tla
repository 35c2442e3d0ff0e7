------------------------- MODULE HealthUpdateProofs -------------------------
(***************************************************************************)
(* Proofs about HealthUpdate for every message limit, any number of open   *)
(* inserts, reports and faults.                                            *)
(***************************************************************************)
EXTENDS HealthUpdate, TLAPS

(* Everything at or below id was received, committed late or left out.     *)
DoneUpTo(id) == \A r \in rows : r <= id => r \in received \cup late \cup left

(* An insert under way has no row yet.                                     *)
OpenOK == nextId <= MaxId + 1 /\ open \cap rows = {}

(* A logged position is that of a row, and all below it is done; a log of  *)
(* the health process has none.                                            *)
LogsOK ==
  \A l \in logs :
    /\ l.last = NoLast \/ l.last \in rows
    /\ l.ok => DoneUpTo(l.last)

(* So is the position of the execution, which started at a logged one.     *)
FromOK ==
  pc # "idle" =>
    /\ from = 0 \/ from \in rows
    /\ DoneUpTo(from)
    /\ \E last \in LastPushed : last <= from

(* A page holds rows above the position.                                   *)
IsPage(page, id) == page # {} /\ page \subseteq Above(id)

BatchOK == pc \in {"send", "success", "failure"} => IsPage(batch, from)

(* A confirmed page was received, and what it left out below is noted.     *)
ConfirmedOK ==
  pc = "success" =>
    /\ batch \subseteq received
    /\ \A b \in batch, r \in Above(from) : r <= b => r \in batch \cup late \cup left

IInv == TypeOK /\ OpenOK /\ LogsOK /\ FromOK /\ BatchOK /\ ConfirmedOK

-----------------------------------------------------------------------------
(* Rows have ids of the sequence.                                          *)
LEMMA RowsType ==
  ASSUME TypeOK
  PROVE  /\ rows \subseteq Nat
         /\ \A r \in rows : r >= 1 /\ r < nextId
         /\ nextId \in Nat
         /\ LastPushed \subseteq Nat
<1>1. \A l \in logs : l.last \in Nat \cup {NoLast}
  BY DEF TypeOK
<1>2. LastPushed \subseteq Nat
  BY <1>1 DEF LastPushed, Counted
<1> QED
  BY <1>2 DEF TypeOK

(* Every step keeps the variables in their types.                          *)
LEMMA TypeStep == TypeOK /\ [Next]_vars => TypeOK'
<1> SUFFICES ASSUME TypeOK, [Next]_vars
             PROVE  TypeOK'
  OBVIOUS
<1> USE DEF TypeOK, tables, local
<1>1. CASE BeginInsert
  <2>1. nextId' = nextId + 1 /\ nextId' \in Nat \ {0}
    BY <1>1 DEF BeginInsert
  <2>2. 1 .. nextId - 1 \subseteq 1 .. nextId' - 1 /\ nextId \in 1 .. nextId' - 1
    BY <2>1
  <2> QED
    BY <1>1, <2>1, <2>2 DEF BeginInsert
<1>2. ASSUME NEW id \in open, EndInsert(id) PROVE TypeOK'
  BY <1>2 DEF EndInsert
<1>3. CASE Start
  BY <1>3, RowsType DEF Start
<1>4. CASE Query
  <2>1. batch' \subseteq rows
    BY <1>4 DEF Query, Pages, Above
  <2> QED
    BY <1>4, <2>1 DEF Query
<1>5. CASE Confirmed \/ Failed
  <2>1. faults' \in Nat
    BY <1>5 DEF Confirmed, Failed, Fault
  <2>2. received' \subseteq rows /\ left' \subseteq rows /\ pc' \in {"success", "failure"}
    BY <1>5 DEF Confirmed, Failed, LeftOut, Above
  <2>3. UNCHANGED <<rows, open, nextId, late, logs, clock, reports, from, batch>>
    BY <1>5 DEF Confirmed, Failed
  <2> QED
    BY <2>1, <2>2, <2>3
<1>6. CASE LogResult
  <2> DEFINE ok == pc = "success"
  <2>1. PICK last \in batch :
          logs' = logs \cup {[last |-> last, ok |-> ok, at |-> clock + 1]}
    BY <1>6 DEF LogResult, Log
  <2>2. last \in Nat /\ clock + 1 \in Nat /\ ok \in BOOLEAN
    OBVIOUS
  <2>3. /\ clock' = clock + 1 /\ pc' = "idle"
        /\ UNCHANGED <<tables, reports, received, left, faults, from, batch>>
    BY <1>6 DEF LogResult, Log
  <2> HIDE DEF ok
  <2>4. [last |-> last, ok |-> ok, at |-> clock + 1] \in
          [last : Nat \cup {NoLast}, ok : BOOLEAN, at : Nat]
    BY <2>2
  <2>5. logs' \subseteq [last : Nat \cup {NoLast}, ok : BOOLEAN, at : Nat]
    BY <2>1, <2>4
  <2> QED
    BY <2>2, <2>3, <2>5
<1>7. ASSUME NEW ok \in BOOLEAN, Report(ok) PROVE TypeOK'
  <2>1. logs' = logs \cup {[last |-> NoLast, ok |-> ok, at |-> clock + 1]} /\ clock' = clock + 1
    BY <1>7 DEF Report, Log
  <2>2. logs' \subseteq [last : Nat \cup {NoLast}, ok : BOOLEAN, at : Nat]
    BY <2>1
  <2> QED
    BY <1>7, <2>1, <2>2 DEF Report
<1>8. CASE Crash \/ ClockStep
  <2>1. faults' \in Nat
    BY <1>8 DEF Crash, ClockStep, Fault
  <2>2. clock' \in Nat /\ pc' \in {pc, "idle"}
    BY <1>8 DEF Crash, ClockStep
  <2>3. UNCHANGED <<rows, open, nextId, late, left, logs, reports, received, from, batch>>
    BY <1>8 DEF Crash, ClockStep
  <2> QED
    BY <2>1, <2>2, <2>3
<1>9. CASE UNCHANGED vars
  BY <1>9 DEF vars
<1> QED
  BY <1>1, <1>2, <1>3, <1>4, <1>5, <1>6, <1>7, <1>8, <1>9 DEF Next, Process

-----------------------------------------------------------------------------
(* The steps of other actors that change neither rows nor positions.       *)
LEMMA BystanderStep ==
  ASSUME IInv, TypeOK', OpenOK',
         UNCHANGED <<rows, late, left, logs, from, batch>>,
         received \subseteq received',
         pc' \in {pc, "idle"}
  PROVE  IInv'
<1>1. LogsOK'
  BY DEF IInv, LogsOK, DoneUpTo
<1>2. FromOK'
  BY DEF IInv, FromOK, DoneUpTo, LastPushed, Counted
<1>3. BatchOK'
  BY DEF IInv, BatchOK, IsPage, Above
<1>4. ConfirmedOK'
  BY DEF IInv, ConfirmedOK, Above
<1> QED
  BY <1>1, <1>2, <1>3, <1>4 DEF IInv

(* A row that is committed at or below a position is behind a row there.   *)
LEMMA EndInsertStep ==
  ASSUME IInv, TypeOK', NEW id \in open, EndInsert(id)
  PROVE  IInv'
<1> USE DEF IInv, tables, local
<1>1. /\ UNCHANGED <<nextId, logs, received, left, pc, from, batch>>
      /\ open' = open \ {id}
      /\ id \notin rows /\ id \in Nat /\ id >= 1
  BY DEF EndInsert, OpenOK, TypeOK
<1>2. CASE UNCHANGED <<rows, late>>
  <2>1. OpenOK'
    BY <1>1, <1>2 DEF OpenOK
  <2> QED
    BY <1>1, <1>2, <2>1, BystanderStep
<1>3. CASE /\ rows' = rows \cup {id}
           /\ late' = IF Above(id) = {} THEN late ELSE late \cup {id}
  <2>1. OpenOK'
    BY <1>1, <1>3 DEF OpenOK
  <2>2. ASSUME NEW r \in rows, id <= r PROVE id \in late'
    <3>1. r \in Above(id)
      BY <1>1, <2>2, RowsType DEF Above
    <3> QED
      BY <1>3, <3>1
  <2>3. late \subseteq late' /\ rows \subseteq rows'
    BY <1>3
  <2>4. ASSUME NEW q, q = NoLast \/ q = 0 \/ q \in rows, DoneUpTo(q)
        PROVE  DoneUpTo(q)'
    <3>1. id <= q => id \in late'
      <4>1. CASE q \in rows
        BY <2>2, <4>1
      <4>2. CASE q = NoLast \/ q = 0
        BY <1>1, <4>2 DEF NoLast
      <4> QED
        BY <2>4, <4>1, <4>2
    <3> QED
      BY <1>1, <1>3, <2>3, <2>4, <3>1 DEF DoneUpTo
  <2>5. LogsOK'
    BY <1>1, <2>3, <2>4 DEF LogsOK
  <2>6. FromOK'
    BY <1>1, <2>3, <2>4 DEF FromOK, LastPushed, Counted
  <2>7. Above(from)' \subseteq Above(from) \cup {id} /\ Above(from) \subseteq Above(from)'
    BY <1>1, <1>3 DEF Above
  <2>8. BatchOK'
    BY <1>1, <2>7 DEF BatchOK, IsPage
  <2>9. ConfirmedOK'
    <3>1. \A b \in batch : id <= b => id \in late'
      BY <2>2 DEF TypeOK
    <3> QED
      BY <1>1, <2>3, <2>7, <3>1 DEF ConfirmedOK
  <2> QED
    BY <2>1, <2>5, <2>6, <2>8, <2>9
<1> QED
  BY <1>2, <1>3 DEF EndInsert

(* An execution starts at a logged position, or at 0.                      *)
LEMMA StartStep == ASSUME IInv, TypeOK', Start PROVE IInv'
<1> USE DEF IInv, tables
<1>1. UNCHANGED <<rows, open, nextId, late, left, logs, received, batch>> /\ pc' = "query"
  BY DEF Start
<1>2. PICK last \in LastPushed : from' = last
  BY DEF Start
<1>3. (last = 0 \/ last \in rows) /\ DoneUpTo(last) /\ last \in Nat
  <2>1. CASE Counted = {}
    <3>1. last = 0
      BY <1>2, <2>1 DEF LastPushed
    <3>2. DoneUpTo(0)
      BY RowsType DEF DoneUpTo
    <3> QED
      BY <3>1, <3>2
  <2>2. CASE Counted # {}
    <3>1. PICK l \in Counted : last = l.last
      BY <1>2, <2>2 DEF LastPushed
    <3> QED
      BY <3>1, RowsType DEF Counted, LogsOK
  <2> QED
    BY <2>1, <2>2
<1>4. LastPushed' = LastPushed
  BY <1>1 DEF LastPushed, Counted
<1>5. FromOK'
  BY <1>1, <1>2, <1>3, <1>4 DEF FromOK, DoneUpTo
<1>6. LogsOK' /\ OpenOK'
  BY <1>1 DEF LogsOK, DoneUpTo, OpenOK
<1> QED
  BY <1>1, <1>5, <1>6 DEF BatchOK, ConfirmedOK

(* A page is some of the rows that follow.                                 *)
LEMMA QueryStep == ASSUME IInv, TypeOK', Query PROVE IInv'
<1> USE DEF IInv, tables
<1>1. UNCHANGED <<rows, open, nextId, late, left, logs, received, from>>
  BY DEF Query
<1>2. /\ pc = "query" /\ batch' \in Pages(from, MessageLimit)
      /\ pc' = IF batch' = {} THEN "idle" ELSE "send"
  BY DEF Query
<1>3. LogsOK' /\ OpenOK'
  BY <1>1 DEF LogsOK, DoneUpTo, OpenOK
<1>4. FromOK'
  BY <1>1, <1>2 DEF FromOK, DoneUpTo, LastPushed, Counted
<1>5. BatchOK'
  <2> SUFFICES ASSUME pc' = "send"
               PROVE  IsPage(batch, from)'
    BY <1>2 DEF BatchOK
  <2>1. batch' # {} /\ batch' \subseteq Above(from)
    BY <1>2 DEF Pages
  <2> QED
    BY <1>1, <2>1 DEF IsPage, Above
<1>6. ConfirmedOK'
  BY <1>2 DEF ConfirmedOK
<1> QED
  BY <1>3, <1>4, <1>5, <1>6

(* A confirmed page continues what is done below it up to its last row.    *)
LEMMA PageDone ==
  ASSUME TypeOK, DoneUpTo(from), ConfirmedOK, pc = "success", NEW last \in batch
  PROVE  DoneUpTo(last)
<1> SUFFICES ASSUME NEW r \in rows, r <= last
             PROVE  r \in received \cup late \cup left
  BY DEF DoneUpTo
<1>1. r \in Nat /\ from \in Nat
  BY RowsType DEF TypeOK
<1>2. CASE r <= from
  BY <1>2 DEF DoneUpTo
<1>3. CASE r > from
  BY <1>3 DEF ConfirmedOK, Above
<1> QED
  BY <1>1, <1>2, <1>3

(* A position is logged for a confirmed page, none for a failed one.       *)
LEMMA LogStep ==
  ASSUME IInv, TypeOK', NEW last, NEW ok \in BOOLEAN,
         logs' = logs \cup {[last |-> last, ok |-> ok, at |-> clock + 1]},
         UNCHANGED <<tables, received, left, from, batch>>,
         last = NoLast \/ last \in rows,
         ok => DoneUpTo(last),
         pc' = "idle" \/ (pc' = pc /\ last = NoLast)
  PROVE  IInv'
<1> USE DEF IInv
<1>1. UNCHANGED <<rows, open, nextId, late>>
  BY DEF tables
<1>2. LogsOK'
  <2>1. ASSUME NEW l \in logs' PROVE /\ l.last = NoLast \/ l.last \in rows'
                                     /\ l.ok => DoneUpTo(l.last)'
    <3>1. CASE l \in logs
      BY <1>1, <3>1 DEF LogsOK, DoneUpTo
    <3>2. CASE l = [last |-> last, ok |-> ok, at |-> clock + 1]
      <4>1. l.last = last /\ l.ok = ok
        BY <3>2
      <4>2. DoneUpTo(last)' <=> DoneUpTo(last)
        BY <1>1 DEF DoneUpTo
      <4> QED
        BY <1>1, <4>1, <4>2
    <3> QED
      BY <2>1, <3>1, <3>2
  <2> QED
    BY <2>1 DEF LogsOK
<1>3. OpenOK'
  BY <1>1 DEF OpenOK
<1>4. FromOK'
  <2>1. CASE pc' = "idle"
    BY <2>1 DEF FromOK
  <2>2. CASE pc' = pc /\ last = NoLast
    <3>1. Counted' = Counted
      BY <2>2 DEF Counted
    <3>2. LastPushed' = LastPushed
      BY <3>1 DEF LastPushed
    <3> QED
      BY <1>1, <2>2, <3>2 DEF FromOK, DoneUpTo
  <2> QED
    BY <2>1, <2>2
<1>5. BatchOK' /\ ConfirmedOK'
  BY <1>1 DEF BatchOK, ConfirmedOK, IsPage, Above
<1> QED
  BY <1>2, <1>3, <1>4, <1>5

(* Every step of every actor keeps the inductive invariant.                *)
LEMMA InvStep == IInv /\ [Next]_vars => IInv'
<1> SUFFICES ASSUME IInv, [Next]_vars
             PROVE  IInv'
  OBVIOUS
<1>0. TypeOK /\ TypeOK' /\ OpenOK
  BY TypeStep DEF IInv
<1>1. CASE BeginInsert
  <2>1. /\ UNCHANGED <<rows, late, left, logs, from, batch, received, pc>>
        /\ open' = open \cup {nextId} /\ nextId' = nextId + 1 /\ nextId <= MaxId
    BY <1>1 DEF BeginInsert, local
  <2>2. nextId \notin rows /\ nextId' <= MaxId + 1
    BY <1>0, <2>1, RowsType, HealthUpdateAssumption
  <2>3. OpenOK'
    BY <1>0, <2>1, <2>2 DEF OpenOK
  <2> QED
    BY <1>0, <2>1, <2>3, BystanderStep
<1>2. ASSUME NEW id \in open, EndInsert(id) PROVE IInv'
  BY <1>0, <1>2, EndInsertStep
<1>3. CASE Start
  BY <1>0, <1>3, StartStep
<1>4. CASE Query
  BY <1>0, <1>4, QueryStep
<1>5. CASE Confirmed \/ Failed
  <2>1. /\ UNCHANGED <<rows, open, nextId, late, logs, from, batch>>
        /\ received \subseteq received' /\ left \subseteq left'
        /\ pc = "send" /\ pc' \in {"success", "failure"}
    BY <1>5 DEF Confirmed, Failed, Fault, tables
  <2>2. LogsOK' /\ OpenOK'
    BY <2>1 DEF IInv, LogsOK, DoneUpTo, OpenOK
  <2>3. FromOK'
    BY <2>1 DEF IInv, FromOK, DoneUpTo, LastPushed, Counted
  <2>4. BatchOK'
    BY <2>1 DEF IInv, BatchOK, IsPage, Above
  <2>5. ConfirmedOK'
    <3> SUFFICES ASSUME Confirmed
                 PROVE  ConfirmedOK'
      BY <1>5 DEF Failed, ConfirmedOK
    <3>1. batch \subseteq received' /\ left' = left \cup LeftOut
      BY DEF Confirmed
    <3>2. ASSUME NEW b \in batch, NEW r \in Above(from), r <= b
          PROVE  r \in batch \cup left'
      <4>1. CASE r \in batch
        BY <4>1
      <4>2. CASE r \notin batch
        <5>1. r \in Nat /\ b \in Nat /\ r # b
          BY <1>0, <4>2, RowsType DEF TypeOK, Above
        <5>2. r < b
          BY <3>2, <5>1
        <5> QED
          BY <3>1, <4>2, <5>2 DEF LeftOut
      <4> QED
        BY <4>1, <4>2
    <3> QED
      BY <2>1, <3>1, <3>2 DEF ConfirmedOK, Above
  <2> QED
    BY <1>0, <2>2, <2>3, <2>4, <2>5 DEF IInv
<1>6. CASE LogResult
  <2>1. PICK last \in batch :
          logs' = logs \cup {[last |-> last, ok |-> pc = "success", at |-> clock + 1]}
    BY <1>6 DEF LogResult, Log
  <2>2. /\ UNCHANGED <<tables, received, left, from, batch>>
        /\ pc \in {"success", "failure"} /\ pc' = "idle"
    BY <1>6 DEF LogResult
  <2>3. last \in rows
    BY <1>0 DEF TypeOK
  <2>4. pc = "success" => DoneUpTo(last)
    BY PageDone DEF IInv, FromOK
  <2> DEFINE ok == pc = "success"
  <2>5. ok \in BOOLEAN /\ (ok => DoneUpTo(last))
    BY <2>4
  <2>6. logs' = logs \cup {[last |-> last, ok |-> ok, at |-> clock + 1]}
    BY <2>1
  <2> HIDE DEF ok
  <2> QED
    BY <1>0, <2>2, <2>3, <2>5, <2>6, LogStep
<1>7. ASSUME NEW ok \in BOOLEAN, Report(ok) PROVE IInv'
  <2>1. /\ logs' = logs \cup {[last |-> NoLast, ok |-> ok, at |-> clock + 1]}
        /\ UNCHANGED <<tables, received, left, from, batch>> /\ pc' = pc
    BY <1>7 DEF Report, Log, local
  <2>2. DoneUpTo(NoLast)
    BY <1>0, RowsType DEF DoneUpTo, NoLast
  <2> QED
    BY <1>0, <2>1, <2>2, LogStep
<1>8. CASE Crash \/ ClockStep \/ UNCHANGED vars
  <2>1. /\ UNCHANGED <<rows, open, nextId, late, left, logs, from, batch, received>>
        /\ pc' \in {pc, "idle"}
    BY <1>8 DEF Crash, ClockStep, tables, local, vars
  <2>2. OpenOK'
    BY <1>0, <2>1 DEF OpenOK
  <2> QED
    BY <1>0, <2>1, <2>2, BystanderStep
<1> QED
  BY <1>1, <1>2, <1>3, <1>4, <1>5, <1>6, <1>7, <1>8 DEF Next, Process

-----------------------------------------------------------------------------
(* The types hold in every reachable state, for all values of the          *)
(* constants.                                                              *)
THEOREM TypeCorrect == Spec => []TypeOK
<1>1. Init => TypeOK
  BY DEF Init, TypeOK
<1>2. TypeOK /\ [Next]_vars => TypeOK'
  BY TypeStep
<1> QED
  BY <1>1, <1>2, PTL DEF Spec

(* The inductive invariant: what is done at a logged position, at the      *)
(* position of the execution and on its page.                              *)
THEOREM Invariance == Spec => []IInv
<1>1. Init => IInv
  BY HealthUpdateAssumption
     DEF Init, IInv, TypeOK, OpenOK, LogsOK, FromOK, BatchOK, ConfirmedOK
<1>2. IInv /\ [Next]_vars => IInv'
  BY InvStep
<1> QED
  BY <1>1, <1>2, PTL DEF Spec

-----------------------------------------------------------------------------
(* A log with a new timestamp that counts is the only one that is new.     *)
LEMMA NewPosition ==
  ASSUME NEW log, logs' = logs \cup {log}, NEW new \in LastPushed',
         new # log.last, log.ok /\ log.last # NoLast
  PROVE  new \in LastPushed
<1>1. Counted' = Counted \cup {log}
  BY DEF Counted
<1>2. PICK l \in Counted' : new = l.last /\ \A o \in Counted' : o.at <= l.at
  BY <1>1 DEF LastPushed
<1>3. l \in Counted /\ \A o \in Counted : o.at <= l.at
  BY <1>1, <1>2
<1> QED
  BY <1>2, <1>3 DEF LastPushed

(* The position that is read from the logs never goes back: in whatever    *)
(* order the rows come, whatever fails and whatever the clock does.        *)
THEOREM PositionNeverGoesBack == Spec => PositionAdvances
<1> DEFINE Advance == \A new \in LastPushed' : \E old \in LastPushed : old <= new
<1>1. ASSUME IInv, [Next]_vars
      PROVE  Advance
  <2>0. TypeOK /\ LastPushed \subseteq Nat
    BY <1>1, RowsType DEF IInv
  <2>1. CASE Counted' = Counted
    <3>1. LastPushed' = LastPushed
      BY <2>1 DEF LastPushed
    <3> QED
      BY <2>0, <3>1
  <2>2. CASE LogResult /\ pc = "success"
    <3>1. PICK last \in batch :
            logs' = logs \cup {[last |-> last, ok |-> TRUE, at |-> clock + 1]}
      BY <2>2 DEF LogResult, Log
    <3>2. PICK p \in LastPushed : p <= from
      BY <1>1, <2>2 DEF IInv, FromOK
    <3>3. last \in Above(from) /\ last \in rows /\ from \in Nat
      BY <1>1, <2>0, <2>2 DEF IInv, BatchOK, IsPage, TypeOK
    <3>4. last \in Nat /\ p \in Nat /\ p <= last /\ last # NoLast
      BY <2>0, <3>2, <3>3, RowsType DEF Above, NoLast
    <3>5. ASSUME NEW new \in LastPushed', new # last PROVE new \in LastPushed
      <4> DEFINE log == [last |-> last, ok |-> TRUE, at |-> clock + 1]
      <4>1. log.last = last /\ log.ok /\ logs' = logs \cup {log}
        BY <3>1
      <4> HIDE DEF log
      <4> QED
        BY <3>4, <3>5, <4>1, NewPosition
    <3> SUFFICES ASSUME NEW new \in LastPushed'
                 PROVE  \E old \in LastPushed : old <= new
      OBVIOUS
    <3>6. CASE new = last
      BY <3>4, <3>6
    <3>7. CASE new # last
      <4>1. new \in LastPushed /\ new \in Nat
        BY <2>0, <3>5, <3>7
      <4>2. new <= new
        BY <4>1
      <4> QED
        BY <4>1, <4>2
    <3> QED
      BY <3>6, <3>7
  <2>3. CASE LogResult /\ pc = "failure"
    <3>1. PICK last \in batch :
            logs' = logs \cup {[last |-> last, ok |-> FALSE, at |-> clock + 1]}
      BY <2>3 DEF LogResult, Log
    <3>2. Counted' = Counted
      BY <3>1 DEF Counted
    <3> QED
      BY <2>1, <3>2
  <2>4. ASSUME NEW ok \in BOOLEAN, Report(ok) PROVE Advance
    <3>1. logs' = logs \cup {[last |-> NoLast, ok |-> ok, at |-> clock + 1]}
      BY <2>4 DEF Report, Log
    <3>2. Counted' = Counted
      BY <3>1 DEF Counted
    <3> QED
      BY <2>1, <3>2
  <2>5. CASE UNCHANGED logs
    BY <2>1, <2>5 DEF Counted
  <2>6. LogResult => pc = "success" \/ pc = "failure"
    BY DEF LogResult
  <2> HIDE DEF Advance
  <2> QED
    BY <1>1, <2>2, <2>3, <2>4, <2>5, <2>6 DEF Next, Process, BeginInsert, EndInsert,
       Start, Query, Confirmed, Failed, Crash, ClockStep, tables, local, vars
<1>2. IInv /\ [Next]_vars => [Advance]_vars
  BY <1>1
<1> QED
  BY <1>2, Invariance, PTL DEF Spec, PositionAdvances

-----------------------------------------------------------------------------
(* What update has logged as sent the server has, but for rows committed   *)
(* behind a higher id and rows that a page it took had left out: nothing   *)
(* else is passed over (update.rs, execute), whatever fails.               *)
THEOREM NoOtherPassedOver == Spec => []OnlyPassedOver
<1>1. ASSUME IInv, NEW r \in Settled
      PROVE  r \in received \cup late \cup left
  <2>1. PICK l \in logs : l.ok /\ r <= l.last /\ r \in rows
    BY DEF Settled
  <2>2. DoneUpTo(l.last)
    BY <1>1, <2>1 DEF IInv, LogsOK
  <2> QED
    BY <2>1, <2>2 DEF DoneUpTo
<1>2. IInv => OnlyPassedOver
  BY <1>1 DEF OnlyPassedOver
<1> QED
  BY <1>2, Invariance, PTL
=============================================================================
