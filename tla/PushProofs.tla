----------------------------- MODULE PushProofs -----------------------------
(***************************************************************************)
(* Proofs about Push for every message limit, every set of rejected rows,  *)
(* every number of rows and every number of faults.                        *)
(***************************************************************************)
EXTENDS Push, FiniteSetTheorems, TLAPS

(* Everything at or below id was received, or refused when sent alone.     *)
DoneUpTo(id) == \A r \in rows : r <= id => r \in received \cup refused

(* A logged position is an id that was handed out, and all below is done.  *)
LogsOK == \A l \in logs : l.last < nextId /\ DoneUpTo(l.last)

(* So is the position of the execution, and it started at a logged one.    *)
FromOK ==
  pc # "idle" =>
    /\ from < nextId
    /\ DoneUpTo(from)
    /\ \E last \in LastPushed : last <= from

(* A page is the lower end of the rows above from; with limit 1 it is one  *)
(* row.                                                                    *)
IsPage(page, id, n) ==
  /\ page # {}
  /\ n >= 1
  /\ page \subseteq Above(id)
  /\ \A b \in page, r \in Above(id) : r <= b => r \in page
  /\ n = 1 => \A a, b \in page : a = b

BatchOK == pc \in {"send", "success", "failure"} => IsPage(batch, from, limit)

ConfirmedOK == pc = "success" => batch \subseteq received

IInv == TypeOK /\ LogsOK /\ FromOK /\ BatchOK /\ ConfirmedOK

-----------------------------------------------------------------------------
(* What get_measurements returns: unless it is empty, the lower end of the *)
(* rows above id (db.rs, order by id asc limit n).                         *)
LEMMA PageIsPage ==
  ASSUME TypeOK, NEW id \in Nat, NEW n \in Nat, Page(id, n) # {}
  PROVE  IsPage(Page(id, n), id, n)
<1> DEFINE Below(r) == {q \in Above(id) : q <= r}
<1>1. ASSUME NEW r \in Above(id)
      PROVE  IsFiniteSet(Below(r)) /\ Cardinality(Below(r)) \in Nat
  <2>1. Below(r) \subseteq 1 .. nextId - 1
    BY DEF Above, TypeOK
  <2>2. IsFiniteSet(1 .. nextId - 1)
    BY FS_Interval DEF TypeOK
  <2> QED
    BY <2>1, <2>2, FS_Subset, FS_CardinalityType
<1>2. Page(id, n) \subseteq Above(id)
  BY DEF Page
<1>3. Above(id) \subseteq Nat
  <2>1. \A r \in rows : r \in Nat
    BY DEF TypeOK
  <2> QED
    BY <2>1 DEF Above
<1>4. ASSUME NEW b \in Page(id, n), NEW r \in Above(id), r <= b
      PROVE  r \in Page(id, n)
  <2>1. Below(r) \subseteq Below(b)
    BY <1>2, <1>3, <1>4
  <2>2. Cardinality(Below(r)) <= Cardinality(Below(b))
    BY <1>1, <1>2, <2>1, FS_Subset
  <2>3. Cardinality(Below(b)) <= n
    BY DEF Page
  <2>4. Cardinality(Below(b)) \in Nat /\ Cardinality(Below(r)) \in Nat
    BY <1>1, <1>2, <1>4
  <2>5. Cardinality(Below(r)) <= n
    BY <2>2, <2>3, <2>4
  <2> QED
    BY <1>4, <2>5 DEF Page
<1>5. n >= 1
  <2>1. PICK b \in Page(id, n) : TRUE
    OBVIOUS
  <2>2. b \in Below(b)
    BY <1>2, <1>3
  <2>3. Cardinality(Below(b)) # 0
    BY <1>1, <1>2, <2>2, FS_EmptySet
  <2>4. Cardinality(Below(b)) <= n
    BY DEF Page
  <2> QED
    BY <1>1, <1>2, <2>3, <2>4
<1>6. ASSUME n = 1, NEW a \in Page(id, n), NEW b \in Page(id, n), a < b
      PROVE  FALSE
  <2>1. {a, b} \subseteq Below(b)
    BY <1>2, <1>3, <1>6
  <2>2. Cardinality({a, b}) = 2
    <3>1. Cardinality({a}) = 1 /\ IsFiniteSet({a})
      BY FS_Singleton
    <3>2. b \notin {a}
      BY <1>2, <1>3, <1>6
    <3>3. Cardinality({a} \cup {b}) = 2
      BY <3>1, <3>2, FS_AddElement
    <3>4. {a} \cup {b} = {a, b}
      OBVIOUS
    <3> QED
      BY <3>3, <3>4
  <2>3. Cardinality({a, b}) <= Cardinality(Below(b))
    BY <1>1, <1>2, <2>1, FS_Subset
  <2>4. Cardinality(Below(b)) <= 1
    BY <1>6 DEF Page
  <2> QED
    BY <1>1, <1>2, <2>2, <2>3, <2>4
<1> QED
  BY <1>2, <1>3, <1>4, <1>5, <1>6 DEF IsPage

-----------------------------------------------------------------------------
(* Every step keeps the variables in their types: pages hold only stored   *)
(* rows and ids stay below the sequence.                                   *)
LEMMA TypeStep == TypeOK /\ [Next]_vars => TypeOK'
<1> SUFFICES ASSUME TypeOK, [Next]_vars
             PROVE  TypeOK'
  OBVIOUS
<1> USE DEF TypeOK, tables, local
<1>1. ASSUME NEW n \in 1 .. MaxInsert, Insert(n)
      PROVE  TypeOK'
  <2>1. nextId' \in Nat \ {0} /\ nextId' = nextId + n /\ n \in Nat
    BY <1>1, PushAssumption DEF Insert
  <2>2. rows \subseteq 1 .. nextId' - 1
    BY <2>1
  <2>3. nextId .. nextId + n - 1 \subseteq 1 .. nextId' - 1
    BY <2>1
  <2>4. rows' \subseteq 1 .. nextId' - 1 /\ rows \subseteq rows'
    BY <1>1, <2>2, <2>3 DEF Insert
  <2> QED
    BY <1>1, <2>1, <2>4 DEF Insert
<1>2. CASE Start
  <2>1. LastPushed \subseteq Nat
    BY DEF LastPushed
  <2> QED
    BY <1>2, <2>1, PushAssumption DEF Start
<1>3. CASE Query
  BY <1>3 DEF Query, Page, Above
<1>4. CASE Confirmed
  BY <1>4 DEF Confirmed
<1>5. CASE Rejected
  BY <1>5 DEF Rejected
<1>6. CASE LogSuccess
  <2>1. PICK last \in batch : logs' = logs \cup {[last |-> last, at |-> clock + 1]}
    BY <1>6 DEF LogSuccess
  <2>2. last \in Nat
    BY DEF TypeOK
  <2>3. logs' \subseteq [last : Nat, at : Nat]
    BY <2>1, <2>2
  <2> QED
    BY <1>6, <2>3 DEF LogSuccess
<1>7. CASE LogFailure
  <2>1. from' \in Nat /\ limit' \in Nat
    BY <1>7, PushAssumption DEF LogFailure
  <2> QED
    BY <1>7, <2>1 DEF LogFailure
<1>8. CASE AnswerLost
  BY <1>8 DEF AnswerLost
<1>9. CASE Crash
  BY <1>9 DEF Crash, Fault
<1>10. CASE Disconnect
  <2>1. online' \in BOOLEAN
    BY <1>10 DEF Disconnect
  <2>2. faults' \in Nat /\ UNCHANGED <<tables, logs, clock, received, refused, local>>
    BY <1>10 DEF Disconnect, Fault
  <2> QED
    BY <2>1, <2>2
<1>11. CASE Reconnect
  BY <1>11 DEF Reconnect
<1>12. CASE ClockStep
  BY <1>12 DEF ClockStep, Fault
<1>13. CASE UNCHANGED vars
  BY <1>13 DEF vars
<1> QED
  BY <1>1, <1>2, <1>3, <1>4, <1>5, <1>6, <1>7, <1>8, <1>9, <1>10, <1>11, <1>12,
     <1>13 DEF Next, Process

(* The types hold in every reachable state, for all values of the          *)
(* constants.                                                              *)
THEOREM TypeCorrect == Spec => []TypeOK
<1>1. Init => TypeOK
  BY DEF Init, TypeOK
<1>2. TypeOK /\ [Next]_vars => TypeOK'
  BY TypeStep
<1> QED
  BY <1>1, <1>2, PTL DEF Spec

-----------------------------------------------------------------------------
(* The steps of other actors leave the execution and its page alone, and   *)
(* what was done stays done: used for every step but those of Process.     *)
LEMMA BystanderStep ==
  ASSUME IInv, TypeOK',
         UNCHANGED <<rows, nextId, logs, from, limit, batch>>,
         received \subseteq received', refused \subseteq refused',
         pc' \in {pc, "idle"}
  PROVE  IInv'
<1>1. LogsOK'
  BY DEF IInv, LogsOK, DoneUpTo
<1>2. FromOK'
  BY DEF IInv, FromOK, DoneUpTo, LastPushed
<1>3. BatchOK'
  BY DEF IInv, BatchOK, IsPage, Above
<1>4. ConfirmedOK'
  BY DEF IInv, ConfirmedOK
<1> QED
  BY <1>1, <1>2, <1>3, <1>4 DEF IInv

(* New rows get ids above every logged position, every page and the        *)
(* position of the execution.                                              *)
LEMMA InsertStep ==
  ASSUME IInv, TypeOK', NEW n \in 1 .. MaxInsert, Insert(n)
  PROVE  IInv'
<1> USE DEF IInv, tables, local
<1>1. \A r \in rows' \ rows : nextId <= r /\ r \in Nat
  BY PushAssumption DEF Insert, TypeOK
<1>2. rows \subseteq rows' /\ nextId <= nextId' /\ nextId \in Nat /\ nextId' \in Nat
  BY PushAssumption DEF Insert, TypeOK
<1>3. UNCHANGED <<logs, received, refused, pc, from, limit, batch>>
  BY DEF Insert
<1>4. ASSUME NEW id \in Nat, id < nextId, DoneUpTo(id)
      PROVE  DoneUpTo(id)'
  BY <1>1, <1>2, <1>3, <1>4 DEF DoneUpTo
<1>5. LogsOK'
  BY <1>2, <1>3, <1>4 DEF LogsOK, TypeOK
<1>6. FromOK'
  BY <1>2, <1>3, <1>4 DEF FromOK, TypeOK, LastPushed
<1>7. BatchOK'
  <2> SUFFICES ASSUME pc \in {"send", "success", "failure"}
               PROVE  IsPage(batch, from, limit)'
    BY <1>3 DEF BatchOK
  <2>1. IsPage(batch, from, limit)
    BY DEF BatchOK
  <2>2. \A b \in batch : b < nextId /\ b \in Nat
    BY DEF TypeOK
  <2>3. Above(from) \subseteq Above(from)'
    BY <1>2, <1>3 DEF Above
  <2>4. ASSUME NEW b \in batch, NEW r \in Above(from)', r <= b
        PROVE  r \in batch
    <3>1. r \in rows
      BY <1>1, <1>2, <2>2, <2>4 DEF Above
    <3>2. r \in Above(from)
      BY <1>3, <3>1 DEF Above
    <3> QED
      BY <2>1, <2>4, <3>2 DEF IsPage
  <2> QED
    BY <1>3, <2>1, <2>3, <2>4 DEF IsPage
<1>8. ConfirmedOK'
  BY <1>3 DEF ConfirmedOK
<1> QED
  BY <1>5, <1>6, <1>7, <1>8

(* An execution starts at a logged position, or at 0, where all is done.   *)
LEMMA StartStep == ASSUME IInv, TypeOK', Start PROVE IInv'
<1> USE DEF IInv, tables
<1>1. UNCHANGED <<rows, nextId, logs, received, refused>> /\ pc' = "query"
  BY DEF Start
<1>2. PICK last \in LastPushed : from' = last
  BY DEF Start
<1>3. last < nextId /\ DoneUpTo(last)
  <2>1. CASE logs = {}
    BY <2>1 DEF LastPushed, DoneUpTo, TypeOK
  <2>2. CASE logs # {}
    BY <2>2 DEF LastPushed, LogsOK
  <2> QED
    BY <2>1, <2>2
<1>4. last \in Nat /\ LastPushed' = LastPushed
  BY <1>1 DEF LastPushed, TypeOK
<1>5. FromOK'
  BY <1>1, <1>2, <1>3, <1>4 DEF FromOK, DoneUpTo
<1>6. LogsOK'
  BY <1>1 DEF LogsOK, DoneUpTo
<1> QED
  BY <1>1, <1>5, <1>6 DEF BatchOK, ConfirmedOK

(* A query gives the lower end of the rows that follow.                    *)
LEMMA QueryStep == ASSUME IInv, TypeOK', Query PROVE IInv'
<1> USE DEF IInv, tables
<1>1. UNCHANGED <<rows, nextId, logs, received, refused, from, limit>>
  BY DEF Query
<1>2. pc = "query" /\ batch' = Page(from, limit)
      /\ pc' = IF batch' = {} THEN "idle" ELSE "send"
  BY DEF Query
<1>3. LogsOK'
  BY <1>1 DEF LogsOK, DoneUpTo
<1>4. FromOK'
  BY <1>1, <1>2 DEF FromOK, DoneUpTo, LastPushed
<1>5. BatchOK'
  <2> SUFFICES ASSUME pc' = "send"
               PROVE  IsPage(batch, from, limit)'
    BY <1>2 DEF BatchOK
  <2>1. Page(from, limit) # {}
    BY <1>2
  <2>2. from \in Nat /\ limit \in Nat
    BY DEF TypeOK
  <2>3. IsPage(Page(from, limit), from, limit)
    BY <2>1, <2>2, PageIsPage
  <2> QED
    BY <1>1, <1>2, <2>3 DEF IsPage, Above
<1>6. ConfirmedOK'
  BY <1>2 DEF ConfirmedOK
<1> QED
  BY <1>3, <1>4, <1>5, <1>6

(* A confirmed page continues what is done below it up to its last row.    *)
LEMMA PageDone ==
  ASSUME TypeOK, DoneUpTo(from), IsPage(batch, from, limit),
         batch \subseteq received, NEW last \in batch
  PROVE  DoneUpTo(last)
<1> SUFFICES ASSUME NEW r \in rows, r <= last
             PROVE  r \in received \cup refused
  BY DEF DoneUpTo
<1>1. r \in Nat /\ from \in Nat
  BY DEF TypeOK
<1>2. CASE r <= from
  BY <1>2 DEF DoneUpTo
<1>3. CASE r > from
  <2>1. r \in batch
    BY <1>3 DEF IsPage, Above
  <2> QED
    BY <2>1
<1> QED
  BY <1>1, <1>2, <1>3

(* The logged position is the last row of a confirmed page.                *)
LEMMA LogSuccessStep == ASSUME IInv, TypeOK', LogSuccess PROVE IInv'
<1> USE DEF IInv, tables
<1>1. UNCHANGED <<rows, nextId, received, refused>> /\ pc = "success" /\ pc' = "idle"
  BY DEF LogSuccess
<1>2. PICK last \in batch : logs' = logs \cup {[last |-> last, at |-> clock + 1]}
  BY DEF LogSuccess
<1>3. DoneUpTo(last)
  BY <1>1, PageDone DEF FromOK, BatchOK, ConfirmedOK
<1>4. last < nextId
  BY DEF TypeOK
<1>5. LogsOK'
  BY <1>1, <1>2, <1>3, <1>4 DEF LogsOK, DoneUpTo
<1> QED
  BY <1>1, <1>5 DEF FromOK, BatchOK, ConfirmedOK

(* With limit 1 the failed page was one row and the only one the position  *)
(* steps over; with more, the position stays.                              *)
LEMMA LogFailureStep == ASSUME IInv, TypeOK', LogFailure PROVE IInv'
<1> USE DEF IInv, tables
<1>1. UNCHANGED <<rows, nextId, logs, received>> /\ pc = "failure" /\ pc' = "query"
  BY DEF LogFailure
<1>2. refused \subseteq refused'
  BY DEF LogFailure
<1>3. LogsOK'
  BY <1>1, <1>2 DEF LogsOK, DoneUpTo
<1>4. \E last \in LastPushed' : last <= from
  BY <1>1 DEF FromOK, LastPushed
<1>5. IsPage(batch, from, limit) /\ from < nextId /\ DoneUpTo(from)
  BY <1>1 DEF BatchOK, FromOK
<1>6. FromOK'
  <2>1. CASE from' = from
    BY <1>1, <1>2, <1>4, <1>5, <2>1 DEF FromOK, DoneUpTo
  <2>2. CASE from' = from + 1 /\ refused' = refused \cup batch
    <3>1. PICK b \in batch : TRUE
      BY <1>5 DEF IsPage
    <3>2. b > from /\ b < nextId /\ b \in Nat /\ from \in Nat /\ nextId \in Nat
      BY <1>5 DEF IsPage, Above, TypeOK
    <3>3. ASSUME NEW r \in rows, r <= from + 1
          PROVE  r \in received \cup refused'
      <4>1. CASE r <= from
        BY <1>2, <1>5, <4>1 DEF DoneUpTo
      <4>2. CASE r = from + 1
        <5>1. r \in Above(from) /\ r <= b
          BY <3>2, <4>2 DEF Above
        <5>2. r \in batch
          BY <1>5, <5>1 DEF IsPage
        <5> QED
          BY <2>2, <5>2
      <4>3. r \in Nat
        BY DEF TypeOK
      <4> QED
        BY <3>2, <3>3, <4>1, <4>2, <4>3
    <3>4. DoneUpTo(from)'
      BY <1>1, <2>2, <3>3 DEF DoneUpTo
    <3>5. \E last \in LastPushed' : last <= from'
      <4>1. PICK last \in LastPushed' : last <= from
        BY <1>4
      <4>2. last \in Nat
        BY <1>1 DEF LastPushed, TypeOK
      <4> QED
        BY <2>2, <3>2, <4>1, <4>2
    <3>6. from' < nextId'
      BY <1>1, <2>2, <3>2
    <3> QED
      BY <3>4, <3>5, <3>6 DEF FromOK
  <2> QED
    BY <2>1, <2>2 DEF LogFailure
<1> QED
  BY <1>1, <1>3, <1>6 DEF BatchOK, ConfirmedOK

(* Every step of every actor keeps the inductive invariant.                *)
LEMMA InvStep == IInv /\ [Next]_vars => IInv'
<1> SUFFICES ASSUME IInv, [Next]_vars
             PROVE  IInv'
  OBVIOUS
<1>0. TypeOK /\ TypeOK'
  BY TypeStep DEF IInv
<1> USE DEF tables, local
<1>1. ASSUME NEW n \in 1 .. MaxInsert, Insert(n)
      PROVE  IInv'
  BY <1>0, <1>1, InsertStep
<1>2. CASE Start
  BY <1>0, <1>2, StartStep
<1>3. CASE Query
  BY <1>0, <1>3, QueryStep
<1>4. CASE Confirmed \/ AnswerLost \/ Rejected
  <2>1. /\ UNCHANGED <<rows, nextId, logs, from, limit, batch, refused>>
        /\ received \subseteq received' /\ pc = "send"
        /\ pc' \in {"success", "failure"}
        /\ pc' = "success" => batch \subseteq received'
    BY <1>4 DEF Confirmed, AnswerLost, Rejected
  <2>2. LogsOK'
    BY <2>1 DEF IInv, LogsOK, DoneUpTo
  <2>3. FromOK'
    BY <2>1 DEF IInv, FromOK, DoneUpTo, LastPushed
  <2>4. BatchOK'
    BY <2>1 DEF IInv, BatchOK, IsPage, Above
  <2>5. ConfirmedOK'
    BY <2>1 DEF ConfirmedOK
  <2> QED
    BY <1>0, <2>2, <2>3, <2>4, <2>5 DEF IInv
<1>5. CASE LogSuccess
  BY <1>0, <1>5, LogSuccessStep
<1>6. CASE LogFailure
  BY <1>0, <1>6, LogFailureStep
<1>7. CASE Crash \/ Disconnect \/ Reconnect \/ ClockStep
  <2>1. UNCHANGED <<rows, nextId, logs, from, limit, batch, received, refused>>
        /\ pc' \in {pc, "idle"}
    BY <1>7 DEF Crash, Disconnect, Reconnect, ClockStep
  <2> QED
    BY <1>0, <2>1, BystanderStep
<1>8. CASE UNCHANGED vars
  <2>1. UNCHANGED <<rows, nextId, logs, from, limit, batch, received, refused, pc>>
    BY <1>8 DEF vars
  <2> QED
    BY <1>0, <2>1, BystanderStep
<1> QED
  BY <1>1, <1>2, <1>3, <1>4, <1>5, <1>6, <1>7, <1>8 DEF Next, Process

(* The inductive invariant: what is done at a logged position, at the      *)
(* position of the execution and on its page.                              *)
THEOREM Invariance == Spec => []IInv
<1>1. Init => IInv
  BY DEF Init, IInv, TypeOK, LogsOK, FromOK, BatchOK, ConfirmedOK
<1>2. IInv /\ [Next]_vars => IInv'
  BY InvStep
<1> QED
  BY <1>1, <1>2, PTL DEF Spec

(* Whatever fails, no row behind a logged position is missing on the       *)
(* server unless it failed when it was sent alone.                         *)
THEOREM NothingLostSilently == Spec => []NoSilentLoss
<1>1. IInv => NoSilentLoss
  BY DEF IInv, LogsOK, DoneUpTo, NoSilentLoss, Settled
<1> QED
  BY <1>1, Invariance, PTL

(* The logged position never goes back, whatever happens to the clock.     *)
THEOREM PositionNeverGoesBack == Spec => PositionAdvances
<1> DEFINE Advance == \A new \in LastPushed' : \E old \in LastPushed : old <= new
<1>1. ASSUME IInv, [Next]_vars
      PROVE  Advance
  <2>1. \A l \in LastPushed : l \in Nat
    BY <1>1 DEF IInv, TypeOK, LastPushed
  <2>2. CASE UNCHANGED logs
    <3>1. LastPushed' = LastPushed
      BY <2>2 DEF LastPushed
    <3> QED
      BY <2>1, <3>1
  <2>3. CASE LogSuccess
    <3>1. PICK last \in batch : logs' = logs \cup {[last |-> last, at |-> clock + 1]}
      BY <2>3 DEF LogSuccess
    <3>2. PICK p \in LastPushed : p <= from
      BY <1>1, <2>3 DEF IInv, FromOK, LogSuccess
    <3>3. from < last /\ last \in Nat /\ from \in Nat /\ p \in Nat
      BY <1>1, <2>1, <2>3 DEF IInv, BatchOK, IsPage, Above, TypeOK, LogSuccess
    <3>4. ASSUME NEW new \in LastPushed', new # last
          PROVE  new \in LastPushed
      <4>1. PICK l \in logs' : new = l.last /\ \A o \in logs' : o.at <= l.at
        BY <3>1 DEF LastPushed
      <4>2. l \in logs
        BY <3>1, <3>4, <4>1
      <4> QED
        BY <3>1, <4>1, <4>2 DEF LastPushed
    <3> QED
      <4> SUFFICES ASSUME NEW new \in LastPushed'
                   PROVE  \E old \in LastPushed : old <= new
        OBVIOUS
      <4>1. CASE new = last
        BY <3>2, <3>3, <4>1
      <4>2. CASE new # last
        BY <2>1, <3>4, <4>2
      <4> QED
        BY <4>1, <4>2
  <2> QED
    BY <1>1, <2>2, <2>3 DEF Next, Process, Insert, Start, Query, Confirmed,
       Rejected, LogFailure, AnswerLost, Crash, Disconnect, Reconnect, ClockStep,
       tables, local, vars
<1>2. IInv /\ [Next]_vars => [Advance]_vars
  BY <1>1
<1> QED
  BY <1>2, Invariance, PTL DEF Spec, PositionAdvances

-----------------------------------------------------------------------------
(* The rows settled after a step depend on the rows and the logs alone.    *)
LEMMA SettledStays ==
  ASSUME UNCHANGED <<rows, logs>> PROVE Settled' = Settled
BY DEF Settled

(* Each step of push is one step of the outbox or none.                    *)
LEMMA OutboxStep ==
  ASSUME IInv, [Next]_vars
  PROVE  [OutboxView!Next]_(OutboxView!vars)
<1> DEFINE View == <<rows, received, refused, Settled>>
<1> SUFFICES OutboxView!Next \/ UNCHANGED View
  BY DEF OutboxView!vars
<1> USE DEF tables, local
<1>0. TypeOK
  BY DEF IInv
<1>1. ASSUME NEW n \in 1 .. MaxInsert, Insert(n)
      PROVE  OutboxView!Next \/ UNCHANGED View
  <2> DEFINE new == nextId .. nextId + n - 1
  <2>1. UNCHANGED <<logs, received, refused>> /\ nextId + n <= MaxId + 1
        /\ (rows' = rows \cup new \/ rows' = rows)
    BY <1>1 DEF Insert
  <2>2. CASE rows' = rows
    BY <2>1, <2>2, SettledStays
  <2>3. CASE rows' = rows \cup new
    <3>1. new \in SUBSET (1 .. MaxId) /\ \A m \in new, r \in rows : r < m
      BY <1>0, <2>1, PushAssumption DEF TypeOK
    <3>2. \A m \in new, l \in logs : ~(m <= l.last)
      BY <1>0, PushAssumption DEF IInv, LogsOK, TypeOK
    <3>3. Settled' = Settled
      BY <2>1, <2>3, <3>2 DEF Settled
    <3>4. OutboxView!Store(new)
      BY <2>1, <2>3, <3>1, <3>3 DEF OutboxView!Store
    <3> QED
      BY <3>1, <3>4 DEF OutboxView!Next
  <2> QED
    BY <2>1, <2>2, <2>3
<1>2. CASE Confirmed \/ AnswerLost
  <2>1. /\ UNCHANGED <<rows, logs, refused>>
        /\ received' = received \cup batch
        /\ batch \in SUBSET rows
    BY <1>0, <1>2 DEF Confirmed, AnswerLost, TypeOK
  <2>2. OutboxView!Receive(batch)
    BY <2>1, SettledStays DEF OutboxView!Receive
  <2> QED
    BY <2>1, <2>2 DEF OutboxView!Next
<1>3. CASE LogSuccess
  <2>1. UNCHANGED <<rows, received, refused>> /\ pc = "success"
    BY <1>3 DEF LogSuccess
  <2>2. PICK last \in batch : logs' = logs \cup {[last |-> last, at |-> clock + 1]}
    BY <1>3 DEF LogSuccess
  <2>3. DoneUpTo(last) /\ last \in rows
    BY <2>1, PageDone DEF IInv, FromOK, BatchOK, ConfirmedOK, TypeOK
  <2>4. Settled' = Settled \cup {r \in rows : r <= last}
    <3>0. PICK log : log.last = last /\ logs' = logs \cup {log}
      BY <2>2
    <3>1. ASSUME NEW r \in rows
          PROVE  (\E l \in logs' : r <= l.last) <=> (\E l \in logs : r <= l.last) \/ r <= last
      BY <3>0
    <3> QED
      BY <2>1, <3>1 DEF Settled
  <2>5. OutboxView!Settle(last)
    BY <2>1, <2>3, <2>4 DEF OutboxView!Settle, DoneUpTo
  <2> QED
    BY <2>3, <2>5 DEF OutboxView!Next
<1>4. CASE LogFailure
  <2>1. UNCHANGED <<rows, received, logs>> /\ pc = "failure"
    BY <1>4 DEF LogFailure
  <2>2. IsPage(batch, from, limit) /\ limit \in Nat
    BY <1>0, <2>1 DEF IInv, BatchOK, TypeOK
  <2>3. CASE limit \div 2 = 0
    <3>1. limit = 1
      BY <2>2, <2>3 DEF IsPage
    <3>2. PICK r \in batch : batch = {r}
      BY <2>2, <3>1 DEF IsPage
    <3>3. refused' = refused \cup {r} /\ r \in rows
      BY <1>0, <1>4, <2>3, <3>2 DEF LogFailure, TypeOK
    <3>4. OutboxView!Refuse(r)
      BY <2>1, <3>3, SettledStays DEF OutboxView!Refuse
    <3> QED
      BY <3>3, <3>4 DEF OutboxView!Next
  <2>4. CASE limit \div 2 # 0
    BY <1>4, <2>1, <2>4, SettledStays DEF LogFailure
  <2> QED
    BY <2>3, <2>4
<1>5. CASE \/ Start \/ Query \/ Rejected \/ Crash \/ Disconnect \/ Reconnect
           \/ ClockStep \/ UNCHANGED vars
  <2>1. UNCHANGED <<rows, received, refused, logs>>
    BY <1>5 DEF Start, Query, Rejected, Crash, Disconnect, Reconnect, ClockStep, vars
  <2> QED
    BY <2>1, SettledStays
<1> QED
  BY <1>1, <1>2, <1>3, <1>4, <1>5 DEF Next, Process

(* Push implements the outbox: rows are settled in id order, and only once *)
(* they were received or refused alone.                                    *)
THEOREM PushImplementsOutbox == Spec => ImplementsOutbox
<1>1. Init => OutboxView!Init
  BY DEF Init, OutboxView!Init, Settled
<1>2. IInv /\ [Next]_vars => [OutboxView!Next]_(OutboxView!vars)
  BY OutboxStep
<1> QED
  BY <1>1, <1>2, Invariance, PTL DEF Spec, ImplementsOutbox, OutboxView!Spec

=============================================================================
