--------------------------- MODULE ReadingsProofs ---------------------------
(***************************************************************************)
(* Proofs about BatchSpans for every width of addresses, every threshold   *)
(* and every list of spans, and about Readings, which reads its batches,   *)
(* for any number of moments.                                              *)
(***************************************************************************)
EXTENDS Readings, TLAPS

-----------------------------------------------------------------------------
(* Batching.                                                               *)

(* The current batch ends where its last span does.                        *)
EndsWithLast == End(current) = End(spans[index])

IInv ==
  /\ TypeOK
  /\ Partition
  /\ SpansInside
  /\ EndsWithLast
  /\ PanicsOnlyOnOverlap

-----------------------------------------------------------------------------
(* The spans are a list of spans that is not empty.                        *)
LEMMA SpansType ==
  ASSUME TypeOK
  PROVE  /\ spans \in Seq(Spans)
         /\ Len(spans) \in Nat
         /\ DOMAIN spans = 1 .. Len(spans)
         /\ index \in 1 .. Len(spans)
         /\ MaxAddress \in Nat
         /\ Threshold \in Nat
         /\ \A i \in 1 .. Len(spans) :
              spans[i].address \in Words /\ spans[i].quantity \in Words
<1>1. spans \in Seq(Spans)
  BY BatchAssumption DEF TypeOK
<1>2. MaxAddress \in Nat /\ Threshold \in Nat
  BY BatchAssumption DEF Words
<1>3. \A i \in 1 .. Len(spans) : spans[i] \in Spans
  BY <1>1
<1> QED
  BY <1>1, <1>2, <1>3 DEF TypeOK, Spans

(* The batches and the current one behind them.                            *)
LEMMA AllType ==
  ASSUME TypeOK
  PROVE  /\ Len(batches) \in Nat
         /\ DOMAIN batches = 1 .. Len(batches)
         /\ DOMAIN All = 1 .. Len(batches) + 1
         /\ \A b \in 1 .. Len(batches) : All[b] = batches[b] /\ All[b] \in Batch
         /\ All[Len(batches) + 1] = current
         /\ current \in Batch
         /\ \A b \in 1 .. Len(batches) + 1 : All[b] \in Batch
<1>1. batches \in Seq(Batch) /\ current \in Batch
  BY DEF TypeOK
<1> QED
  BY <1>1 DEF All

(* The fields of a batch.                                                  *)
LEMMA BatchType ==
  ASSUME TypeOK, NEW b \in Batch
  PROVE  /\ b.address \in Words
         /\ b.quantity \in Words
         /\ b.first \in 1 .. Len(spans)
         /\ b.last \in 1 .. Len(spans)
BY SpansType DEF Batch

(* A batch of one span.                                                    *)
LEMMA SingleType ==
  ASSUME TypeOK, NEW i \in 1 .. Len(spans)
  PROVE  /\ Single(i) \in Batch
         /\ Single(i).first = i
         /\ Single(i).last = i
         /\ Single(i).address = spans[i].address
         /\ Single(i).quantity = spans[i].quantity
BY SpansType DEF Single, Batch

(* The quantity of a batch that is widened to the end of a span behind it. *)
LEMMA Widened ==
  ASSUME NEW m \in Nat, NEW a \in 0 .. m, NEW q \in 0 .. m,
         NEW address \in 0 .. m, NEW quantity \in 0 .. m,
         address >= a + q, address + quantity <= m
  PROVE  /\ (address + quantity) - a \in 0 .. m
         /\ (address + quantity) - a >= q
         /\ address >= a
         /\ a + ((address + quantity) - a) = address + quantity
OBVIOUS

-----------------------------------------------------------------------------
(* What a step of Join does to the current batch.                          *)
LEMMA JoinEffect ==
  ASSUME IInv, Join
  PROVE  /\ index + 1 \in 1 .. Len(spans)
         /\ current' \in Batch
         /\ current'.address = current.address
         /\ current'.address + current'.quantity = End(spans[index + 1])
         /\ current'.first = current.first
         /\ current'.last = index + 1
         /\ current'.quantity >= current.quantity
         /\ spans[index + 1].address >= current.address
<1> USE DEF IInv
<1> DEFINE size == (spans[index + 1].address + spans[index + 1].quantity) - current.address
<1>1. index + 1 \in 1 .. Len(spans)
  BY SpansType DEF Join, Going
<1>2. spans[index + 1].address \in Words /\ spans[index + 1].quantity \in Words
      /\ MaxAddress \in Nat
  BY <1>1, SpansType
<1>3. current \in Batch /\ current.address \in Words /\ current.quantity \in Words
      /\ current.first \in 1 .. Len(spans)
  BY AllType, BatchType
<1>4. spans[index + 1].address >= current.address + current.quantity
      /\ spans[index + 1].address + spans[index + 1].quantity <= MaxAddress
  BY DEF Join, Fits, End
<1>5. size \in Words /\ size >= current.quantity
      /\ spans[index + 1].address >= current.address
      /\ current.address + size = spans[index + 1].address + spans[index + 1].quantity
  <2> DEFINE a == current.address
             q == current.quantity
             na == spans[index + 1].address
             nq == spans[index + 1].quantity
  <2>1. a \in 0 .. MaxAddress /\ q \in 0 .. MaxAddress /\ MaxAddress \in Nat
        /\ na \in 0 .. MaxAddress /\ nq \in 0 .. MaxAddress
        /\ na >= a + q /\ na + nq <= MaxAddress
    BY <1>2, <1>3, <1>4 DEF Words
  <2> HIDE DEF a, q, na, nq
  <2>2. (na + nq) - a \in 0 .. MaxAddress /\ (na + nq) - a >= q /\ na >= a
        /\ a + ((na + nq) - a) = na + nq
    BY <2>1, Widened
  <2> QED
    BY <2>2 DEF a, q, na, nq, Words
<1>6. current' = [current EXCEPT !.quantity = size, !.last = index + 1]
  BY DEF Join, End
<1>7. current' = [address |-> current.address, quantity |-> size,
                  first |-> current.first, last |-> index + 1]
  BY <1>3, <1>6 DEF Batch
<1>8. DOMAIN spans = 1 .. Len(spans)
  BY SpansType
<1>9. End(spans[index + 1]) = current.address + size
  BY <1>5 DEF End
<1> HIDE DEF size
<1>10. current' \in Batch
  BY <1>1, <1>3, <1>5, <1>7, <1>8 DEF Batch
<1> QED
  BY <1>1, <1>5, <1>7, <1>9, <1>10

(* Every step keeps the types: no sum or difference leaves the 16 bits.    *)
LEMMA TypeStep == IInv /\ [Next]_vars => TypeOK'
<1> SUFFICES ASSUME IInv, [Next]_vars
             PROVE  TypeOK'
  OBVIOUS
<1>0. TypeOK
  BY DEF IInv
<1>1. CASE Join
  <2>1. UNCHANGED <<spans, batches, panicked>> /\ index' = index + 1
    BY <1>1 DEF Join
  <2>2. index' \in DOMAIN spans /\ current' \in Batch
    BY <1>0, <1>1, <2>1, JoinEffect, SpansType
  <2>3. Batch' = Batch
    BY <2>1 DEF Batch
  <2> QED
    BY <1>0, <2>1, <2>2, <2>3 DEF TypeOK
<1>2. CASE Close
  <2>1. UNCHANGED <<spans, panicked>> /\ index' = index + 1
        /\ batches' = Append(batches, current) /\ current' = Single(index + 1)
    BY <1>2 DEF Close
  <2>2. index + 1 \in 1 .. Len(spans)
    BY <1>0, <1>2, SpansType DEF Close, Going
  <2>3. current' \in Batch
    BY <1>0, <2>1, <2>2, SingleType
  <2>4. batches' \in Seq(Batch)
    BY <1>0, <2>1 DEF TypeOK
  <2>5. Batch' = Batch
    BY <2>1 DEF Batch
  <2>6. index' \in DOMAIN spans
    BY <1>0, <2>1, <2>2, SpansType
  <2> QED
    BY <1>0, <2>1, <2>3, <2>4, <2>5, <2>6 DEF TypeOK
<1>3. CASE Panic \/ UNCHANGED vars
  <2>1. UNCHANGED <<spans, batches, current, index>> /\ panicked' \in BOOLEAN
    BY <1>0, <1>3 DEF Panic, vars, TypeOK
  <2>2. Batch' = Batch
    BY <2>1 DEF Batch
  <2> QED
    BY <1>0, <2>1, <2>2 DEF TypeOK
<1> QED
  BY <1>1, <1>2, <1>3 DEF Next
-----------------------------------------------------------------------------
(* Append to a sequence, element by element.                               *)
LEMMA AppendElements ==
  ASSUME NEW B, NEW s \in Seq(B), NEW e \in B
  PROVE  /\ Len(s) \in Nat
         /\ DOMAIN s = 1 .. Len(s)
         /\ Append(s, e) \in Seq(B)
         /\ Len(Append(s, e)) = Len(s) + 1
         /\ DOMAIN Append(s, e) = 1 .. Len(s) + 1
         /\ \A b \in 1 .. Len(s) : Append(s, e)[b] = s[b]
         /\ Append(s, e)[Len(s) + 1] = e
OBVIOUS

(* Join changes the last batch alone.                                      *)
LEMMA AllAfterJoin ==
  ASSUME IInv, Join
  PROVE  /\ DOMAIN All' = 1 .. Len(batches) + 1
         /\ \A b \in 1 .. Len(batches) : All'[b] = All[b]
         /\ All'[Len(batches) + 1] = current'
<1>1. batches' = batches /\ All' = Append(batches, current')
  BY DEF Join, All
<1>2. batches \in Seq(Batch) /\ current' \in Batch /\ current \in Batch
  BY JoinEffect DEF IInv, TypeOK
<1> QED
  BY <1>1, <1>2, AppendElements DEF All

(* Close appends one batch of one span.                                    *)
LEMMA AllAfterClose ==
  ASSUME IInv, Close
  PROVE  /\ index + 1 \in 1 .. Len(spans)
         /\ Len(batches) \in Nat
         /\ Len(batches') = Len(batches) + 1
         /\ DOMAIN batches' = 1 .. Len(batches) + 1
         /\ DOMAIN All' = 1 .. Len(batches) + 2
         /\ \A b \in 1 .. Len(batches) + 1 : All'[b] = All[b]
         /\ All'[Len(batches) + 2] = Single(index + 1)
         /\ current' = Single(index + 1)
<1>1. batches' = All /\ current' = Single(index + 1) /\ All' = Append(All, current')
  BY DEF Close, All
<1>2. index + 1 \in 1 .. Len(spans)
  BY SpansType DEF IInv, Close, Going
<1>3. batches \in Seq(Batch) /\ current \in Batch /\ current' \in Batch
  BY <1>1, <1>2, SingleType DEF IInv, TypeOK
<1>4. /\ Len(batches) \in Nat
      /\ All \in Seq(Batch)
      /\ Len(All) = Len(batches) + 1
      /\ DOMAIN All = 1 .. Len(batches) + 1
  BY <1>3, AppendElements DEF All
<1>5. /\ DOMAIN All' = 1 .. Len(All) + 1
      /\ \A b \in 1 .. Len(All) : All'[b] = All[b]
      /\ All'[Len(All) + 1] = current'
  BY <1>1, <1>3, <1>4, AppendElements
<1> QED
  BY <1>1, <1>2, <1>4, <1>5

-----------------------------------------------------------------------------
(* Every span stays in exactly one batch, in order.                        *)
LEMMA PartitionStep == ASSUME IInv, [Next]_vars PROVE Partition'
<1> USE DEF IInv
<1> DEFINE n == Len(batches)
<1>0. /\ n \in Nat
      /\ DOMAIN batches = 1 .. n
      /\ DOMAIN All = 1 .. n + 1
      /\ All[n + 1] = current
      /\ index \in Nat
  BY AllType, SpansType
<1>1. CASE Join
  <2>1. /\ DOMAIN All' = 1 .. n + 1
        /\ \A b \in 1 .. n : All'[b] = All[b]
        /\ All'[n + 1] = current'
        /\ batches' = batches /\ index' = index + 1
    BY <1>1, AllAfterJoin DEF Join
  <2>2. current'.first = current.first /\ current'.last = index + 1
    BY <1>1, JoinEffect
  <2>3. current.first <= current.last /\ current.last = index /\ current.first \in Nat
    BY <1>0, AllType, BatchType DEF Partition
  <2>4. \A b \in 1 .. n + 1 : All'[b].first = All[b].first
    BY <1>0, <2>1, <2>2
  <2>5. \A b \in 1 .. n + 1 : All'[b].first <= All'[b].last
    <3> SUFFICES ASSUME NEW b \in 1 .. n + 1
                 PROVE  All'[b].first <= All'[b].last
      OBVIOUS
    <3>1. CASE b \in 1 .. n
      BY <1>0, <2>1, <3>1 DEF Partition
    <3>2. CASE b = n + 1
      BY <1>0, <2>1, <2>2, <2>3, <3>2
    <3> QED
      BY <1>0, <3>1, <3>2
  <2>6. \A b \in 1 .. n : All'[b + 1].first = All'[b].last + 1
    BY <1>0, <2>1, <2>4 DEF Partition
  <2>7. All'[1].first = 1
    BY <1>0, <2>4 DEF Partition
  <2> QED
    BY <1>0, <2>1, <2>2, <2>5, <2>6, <2>7 DEF Partition
<1>2. CASE Close
  <2>1. /\ n' = n + 1
        /\ DOMAIN batches' = 1 .. n + 1
        /\ DOMAIN All' = 1 .. n + 2
        /\ \A b \in 1 .. n + 1 : All'[b] = All[b]
        /\ All'[n + 2] = current'
        /\ index' = index + 1
    BY <1>2, AllAfterClose DEF Close
  <2>2. current'.first = index + 1 /\ current'.last = index + 1
    BY <1>2, AllAfterClose, SingleType
  <2>3. \A b \in 1 .. n + 2 : All'[b].first <= All'[b].last
    <3> SUFFICES ASSUME NEW b \in 1 .. n + 2
                 PROVE  All'[b].first <= All'[b].last
      OBVIOUS
    <3>1. CASE b \in 1 .. n + 1
      BY <1>0, <2>1, <3>1 DEF Partition
    <3>2. CASE b = n + 2
      BY <1>0, <2>1, <2>2, <3>2
    <3> QED
      BY <1>0, <3>1, <3>2
  <2>4. \A b \in 1 .. n + 1 : All'[b + 1].first = All'[b].last + 1
    <3> SUFFICES ASSUME NEW b \in 1 .. n + 1
                 PROVE  All'[b + 1].first = All'[b].last + 1
      OBVIOUS
    <3>1. CASE b \in 1 .. n
      BY <1>0, <2>1, <3>1 DEF Partition
    <3>2. CASE b = n + 1
      BY <1>0, <2>1, <2>2, <3>2 DEF Partition
    <3> QED
      BY <1>0, <3>1, <3>2
  <2>5. All'[1].first = 1
    BY <1>0, <2>1 DEF Partition
  <2> QED
    BY <2>1, <2>2, <2>3, <2>4, <2>5 DEF Partition
<1>3. CASE Panic \/ UNCHANGED vars
  BY <1>3 DEF Panic, vars, Partition, All
<1> QED
  BY <1>1, <1>2, <1>3 DEF Next
-----------------------------------------------------------------------------
(* Span i lies inside of batch b.                                          *)
Inside(b, i) ==
  /\ b.address <= spans[i].address
  /\ spans[i].address + spans[i].quantity <= b.address + b.quantity

(* A slice is inside of an answer when its span is inside of the batch.    *)
LEMMA SliceInside ==
  ASSUME NEW a \in Nat, NEW q \in Nat, NEW address \in Nat, NEW quantity \in Nat
  PROVE  /\ address - a >= 0 <=> a <= address
         /\ (address - a) + quantity <= q <=> address + quantity <= a + q
OBVIOUS

(* The same for the slices of batch b.                                     *)
LEMMA SliceOfBatch ==
  ASSUME TypeOK, NEW b \in DOMAIN All, NEW i \in 1 .. Len(spans)
  PROVE  (SliceStart(b, i) >= 0 /\ SliceEnd(b, i) <= All[b].quantity)
           <=> Inside(All[b], i)
<1>1. All[b].address \in Nat /\ All[b].quantity \in Nat
  BY AllType, BatchType, SpansType DEF Words
<1>2. spans[i].address \in Nat /\ spans[i].quantity \in Nat
  BY SpansType DEF Words
<1> QED
  BY <1>1, <1>2, SliceInside DEF SliceStart, SliceEnd, Inside

(* The spans of a batch are spans.                                         *)
LEMMA SpansOfBatch ==
  ASSUME TypeOK, NEW b \in DOMAIN All, NEW i \in All[b].first .. All[b].last
  PROVE  i \in 1 .. Len(spans)
BY AllType, BatchType, SpansType

(* Spans are inside of their batches, said without the slices.             *)
LEMMA InsideMeans ==
  TypeOK => (SpansInside <=>
    \A b \in DOMAIN All : \A i \in All[b].first .. All[b].last : Inside(All[b], i))
BY SliceOfBatch, SpansOfBatch DEF SpansInside

(* A span that joins a batch lies in it, and so do those before it.        *)
LEMMA InsideStep == ASSUME IInv, TypeOK', [Next]_vars PROVE SpansInside'
<1> USE DEF IInv
<1> DEFINE n == Len(batches)
<1>0. /\ n \in Nat
      /\ DOMAIN All = 1 .. n + 1
      /\ All[n + 1] = current
  BY AllType
<1>1. \A b \in 1 .. n + 1 : \A i \in All[b].first .. All[b].last : Inside(All[b], i)
  BY <1>0, InsideMeans
<1>2. (\A b \in DOMAIN All' : \A i \in All'[b].first .. All'[b].last :
         /\ All'[b].address <= spans'[i].address
         /\ spans'[i].address + spans'[i].quantity
              <= All'[b].address + All'[b].quantity)
      => SpansInside'
  <2>1. (TypeOK => (SpansInside <=>
          \A b \in DOMAIN All : \A i \in All[b].first .. All[b].last : Inside(All[b], i)))'
    BY InsideMeans, PTL
  <2> QED
    BY <2>1 DEF Inside
<1> SUFFICES ASSUME NEW b \in DOMAIN All', NEW i \in All'[b].first .. All'[b].last
             PROVE  /\ All'[b].address <= spans'[i].address
                    /\ spans'[i].address + spans'[i].quantity
                         <= All'[b].address + All'[b].quantity
  BY <1>2
<1>3. spans' = spans
  BY DEF Next, Join, Close, Panic, vars
<1>4. CASE Join
  <2>1. /\ DOMAIN All' = 1 .. n + 1
        /\ \A c \in 1 .. n : All'[c] = All[c]
        /\ All'[n + 1] = current'
    BY <1>4, AllAfterJoin
  <2>2. CASE b \in 1 .. n
    BY <1>0, <1>1, <1>3, <2>1, <2>2 DEF Inside
  <2>3. CASE b = n + 1
    <3>1. /\ current'.address = current.address
          /\ current'.first = current.first
          /\ current'.last = index + 1
          /\ current'.quantity >= current.quantity
          /\ current'.address + current'.quantity = End(spans[index + 1])
          /\ spans[index + 1].address >= current.address
          /\ current' \in Batch
      BY <1>4, JoinEffect
    <3>2. current.last = index /\ index \in Nat
      BY SpansType DEF Partition
    <3>0. All'[b] = current' /\ spans' = spans
      BY <1>3, <2>1, <2>3
    <3>3. CASE i = index + 1
      <4>1. /\ current'.address <= spans[i].address
            /\ spans[i].address + spans[i].quantity = current'.address + current'.quantity
        BY <3>1, <3>3, AllType, BatchType, SpansType DEF End
      <4>2. spans[i].address \in Nat /\ spans[i].quantity \in Nat
        BY <1>4, <3>3, JoinEffect, SpansType DEF Words
      <4> HIDE DEF n
      <4> QED
        BY <3>0, <4>1, <4>2
    <3>4. CASE i \in current.first .. current.last
      <4>1. i \in 1 .. Len(spans)
        BY <3>4, AllType, BatchType, SpansType
      <4>2. Inside(current, i)
        BY <1>0, <1>1, <3>4
      <4>3. spans[i].address + spans[i].quantity <= current.address + current.quantity
            /\ current.address <= spans[i].address
        BY <4>2 DEF Inside
      <4>4. spans[i].address \in Nat /\ spans[i].quantity \in Nat
        BY <4>1, SpansType DEF Words
      <4>5. current.address \in Nat /\ current.quantity \in Nat
            /\ current'.quantity \in Nat
        BY <3>1, AllType, BatchType, SpansType DEF Words
      <4> QED
        <5>1. /\ current'.address <= spans[i].address
              /\ spans[i].address + spans[i].quantity
                   <= current'.address + current'.quantity
          BY <3>1, <4>3, <4>4, <4>5
        <5> HIDE DEF n
        <5> QED
          BY <3>0, <5>1
    <3>5. i \in current.first .. index + 1 /\ current.first \in Nat
      BY <2>1, <2>3, <3>1, AllType, BatchType
    <3> QED
      BY <3>2, <3>3, <3>4, <3>5
  <2> QED
    BY <1>0, <2>1, <2>2, <2>3
<1>5. CASE Close
  <2>1. /\ DOMAIN All' = 1 .. n + 2
        /\ \A c \in 1 .. n + 1 : All'[c] = All[c]
        /\ All'[n + 2] = Single(index + 1)
        /\ index + 1 \in 1 .. Len(spans)
    BY <1>5, AllAfterClose
  <2>2. CASE b \in 1 .. n + 1
    BY <1>1, <1>3, <2>1, <2>2 DEF Inside
  <2>3. CASE b = n + 2
    <3>1. /\ All'[b].address = spans[index + 1].address
          /\ All'[b].quantity = spans[index + 1].quantity
          /\ All'[b].first = index + 1
          /\ All'[b].last = index + 1
      BY <2>1, <2>3, SingleType
    <3>2. i = index + 1
      BY <2>1, <3>1
    <3>3. spans[index + 1].address \in Nat /\ spans[index + 1].quantity \in Nat
      BY <2>1, SpansType DEF Words
    <3> QED
      BY <1>3, <3>1, <3>2, <3>3
  <2> QED
    BY <1>0, <2>1, <2>2, <2>3
<1>6. CASE Panic \/ UNCHANGED vars
  <2>1. All' = All
    BY <1>6 DEF Panic, vars, All
  <2> QED
    BY <1>0, <1>1, <1>3, <2>1 DEF Inside
<1> QED
  BY <1>4, <1>5, <1>6 DEF Next

(* The current batch still ends where its last span does.                  *)
LEMMA EndStep == ASSUME IInv, [Next]_vars PROVE EndsWithLast'
<1>1. CASE Join
  <2>1. current'.address + current'.quantity = End(spans[index + 1])
    BY <1>1, JoinEffect
  <2>2. spans' = spans /\ index' = index + 1
    BY <1>1 DEF Join
  <2> QED
    BY <2>1, <2>2 DEF EndsWithLast, End
<1>2. CASE Close
  <2>1. current' = Single(index + 1) /\ spans' = spans /\ index' = index + 1
    BY <1>2 DEF Close
  <2> QED
    BY <2>1 DEF EndsWithLast, End, Single
<1>3. CASE Panic \/ UNCHANGED vars
  BY <1>3 DEF IInv, EndsWithLast, Panic, vars
<1> QED
  BY <1>1, <1>2, <1>3 DEF Next

(* The loop stops at a span that does not fit behind the last span of the  *)
(* current batch: both are spans of the list.                              *)
LEMMA PanicStep == ASSUME IInv, [Next]_vars PROVE PanicsOnlyOnOverlap'
<1> USE DEF IInv
<1>1. CASE Panic
  <2>1. index \in 1 .. Len(spans) /\ index + 1 \in 1 .. Len(spans)
        /\ DOMAIN spans = 1 .. Len(spans)
    BY <1>1, SpansType DEF Panic, Going
  <2>2. spans' = spans
    BY <1>1 DEF Panic
  <2>3. /\ End(spans[index]) \in Nat /\ End(spans[index + 1]) \in Nat
        /\ spans[index + 1].address \in Nat /\ MaxAddress \in Nat
    BY <2>1, SpansType DEF End, Words
  <2>4. End(current) = End(spans[index])
    BY DEF EndsWithLast
  <2>5. \/ End(spans[index]) > spans[index + 1].address
        \/ End(spans[index]) > MaxAddress
        \/ End(spans[index + 1]) > MaxAddress
    BY <1>1, <2>3, <2>4 DEF Panic, Fits
  <2>6. \E i \in DOMAIN spans :
          \/ End(spans[i]) > MaxAddress
          \/ \E j \in DOMAIN spans : j < i /\ End(spans[j]) > spans[i].address
    BY <2>1, <2>5
  <2> QED
    BY <2>2, <2>6 DEF PanicsOnlyOnOverlap, End
<1>2. CASE Join \/ Close \/ UNCHANGED vars
  <2>1. UNCHANGED <<spans, panicked>>
    BY <1>2 DEF Join, Close, vars
  <2> QED
    BY <2>1 DEF PanicsOnlyOnOverlap, End
<1> QED
  BY <1>1, <1>2 DEF Next

-----------------------------------------------------------------------------
(* The loop starts with a batch of the first span.                         *)
LEMMA InitInv == Init => IInv
<1> SUFFICES ASSUME Init
             PROVE  IInv
  OBVIOUS
<1>1. spans \in Seq(Spans) /\ spans # <<>>
  BY BatchAssumption DEF Init
<1>2. 1 \in 1 .. Len(spans) /\ DOMAIN spans = 1 .. Len(spans)
  BY <1>1
<1>3. spans[1] \in Spans
  BY <1>1, <1>2
<1>4. Single(1) \in Batch
  BY <1>2, <1>3 DEF Single, Batch, Spans
<1>5. TypeOK
  <2>1. batches \in Seq(Batch)
    BY DEF Init
  <2>2. spans \in Inputs /\ index \in DOMAIN spans /\ current \in Batch
        /\ panicked \in BOOLEAN
    BY <1>2, <1>4 DEF Init
  <2> QED
    BY <2>1, <2>2 DEF TypeOK
<1>6. batches = <<>> /\ All = <<current>> /\ current = Single(1) /\ index = 1
  BY DEF Init, All
<1>7. current.first = 1 /\ current.last = 1 /\ current.address = spans[1].address
      /\ current.quantity = spans[1].quantity
  BY <1>6 DEF Single
<1>8. DOMAIN All = 1 .. 1 /\ DOMAIN batches = {} /\ All[1] = current
  BY <1>6
<1>9. Partition
  BY <1>6, <1>7, <1>8 DEF Partition
<1>10. SpansInside
  <2>1. \A b \in DOMAIN All : \A i \in All[b].first .. All[b].last : Inside(All[b], i)
    BY <1>3, <1>7, <1>8 DEF Inside, Spans, Words
  <2> QED
    BY <1>5, <2>1, InsideMeans
<1>11. EndsWithLast
  BY <1>6, <1>7 DEF EndsWithLast, End
<1>12. PanicsOnlyOnOverlap
  BY DEF Init, PanicsOnlyOnOverlap
<1> QED
  BY <1>5, <1>9, <1>10, <1>11, <1>12 DEF IInv

(* The invariant of the loop, for every list of spans.                     *)
THEOREM Invariance == Spec => []IInv
<1>1. IInv /\ [Next]_vars => IInv'
  BY TypeStep, PartitionStep, InsideStep, EndStep, PanicStep DEF IInv
<1> QED
  BY <1>1, InitInv, PTL DEF Spec

(* Addresses and quantities of batches keep to 16 bits.                    *)
THEOREM TypeCorrect == Spec => []TypeOK
<1>1. IInv => TypeOK
  BY DEF IInv
<1> QED
  BY <1>1, Invariance, PTL

(* Every span is in exactly one batch.                                     *)
THEOREM SpansPartitioned == Spec => []Partition
<1>1. IInv => Partition
  BY DEF IInv
<1> QED
  BY <1>1, Invariance, PTL

(* Every slice parse_batch cuts out of an answer is inside of it.          *)
THEOREM SlicesInside == Spec => []SpansInside
<1>1. IInv => SpansInside
  BY DEF IInv
<1> QED
  BY <1>1, Invariance, PTL

(* The loop stops early only at spans that overlap or run over the end.    *)
THEOREM PanicsExplained == Spec => []PanicsOnlyOnOverlap
<1>1. IInv => PanicsOnlyOnOverlap
  BY DEF IInv
<1> QED
  BY <1>1, Invariance, PTL

-----------------------------------------------------------------------------
(* Reading the batches.                                                    *)

(* Every span the loop is done with is in a batch.                         *)
Covered ==
  \A i \in 1 .. index : \E b \in DOMAIN All : All[b].first <= i /\ i <= All[b].last

(* The worker is asked for all of the batches, and stamps what came.       *)
AnswersOK ==
  answers # <<>> =>
    /\ index = Len(spans)
    /\ answers \in [DOMAIN All -> Answers \cup {None}]
    /\ \A b \in DOMAIN All :
         answers[b] # None => 0 <= answers[b].taken /\ answers[b].taken <= answers[b].stamp

RInv ==
  /\ IInv
  /\ Covered
  /\ now \in 0 .. MaxTime
  /\ AnswersOK

-----------------------------------------------------------------------------
(* A step of the loop puts the next span into the last batch or a new one. *)
LEMMA CoveredStep == ASSUME IInv, Covered, [Next]_vars PROVE Covered'
<1> DEFINE n == Len(batches)
<1>0. /\ n \in Nat
      /\ DOMAIN All = 1 .. n + 1
      /\ All[n + 1] = current
      /\ index \in Nat
      /\ current.last = index
      /\ current.first \in Nat
      /\ current.first <= current.last
  BY AllType, SpansType, BatchType DEF IInv, Partition
<1>1. \A i \in 1 .. index :
        \E b \in 1 .. n + 1 : All[b].first <= i /\ i <= All[b].last
  BY <1>0 DEF Covered
<1>2. CASE Join
  <2>1. /\ DOMAIN All' = 1 .. n + 1
        /\ \A b \in 1 .. n : All'[b] = All[b]
        /\ All'[n + 1] = current'
    BY <1>2, AllAfterJoin
  <2>2. current'.first = current.first /\ current'.last = index + 1 /\ index' = index + 1
    BY <1>2, JoinEffect DEF Join
  <2>3. ASSUME NEW i \in 1 .. index'
        PROVE  \E b \in DOMAIN All' : All'[b].first <= i /\ i <= All'[b].last
    <3>1. CASE i = index + 1
      BY <1>0, <2>1, <2>2, <3>1
    <3>2. CASE i \in 1 .. index
      <4>1. PICK b \in 1 .. n + 1 : All[b].first <= i /\ i <= All[b].last
        BY <1>1, <3>2
      <4>2. CASE b = n + 1
        BY <1>0, <2>1, <2>2, <3>2, <4>1, <4>2
      <4>3. CASE b \in 1 .. n
        BY <2>1, <4>1, <4>3
      <4> QED
        BY <1>0, <4>2, <4>3
    <3> QED
      BY <1>0, <2>2, <3>1, <3>2
  <2> QED
    BY <2>3 DEF Covered
<1>3. CASE Close
  <2>1. /\ DOMAIN All' = 1 .. n + 2
        /\ \A b \in 1 .. n + 1 : All'[b] = All[b]
        /\ All'[n + 2] = Single(index + 1)
    BY <1>3, AllAfterClose
  <2>2. index' = index + 1
    BY <1>3 DEF Close
  <2>3. Single(index + 1).first = index + 1 /\ Single(index + 1).last = index + 1
    BY DEF Single
  <2>4. ASSUME NEW i \in 1 .. index'
        PROVE  \E b \in DOMAIN All' : All'[b].first <= i /\ i <= All'[b].last
    <3>1. CASE i = index + 1
      BY <1>0, <2>1, <2>3, <3>1
    <3>2. CASE i \in 1 .. index
      <4>1. PICK b \in 1 .. n + 1 : All[b].first <= i /\ i <= All[b].last
        BY <1>1, <3>2
      <4> QED
        BY <1>0, <2>1, <4>1
    <3> QED
      BY <1>0, <2>2, <3>1, <3>2
  <2> QED
    BY <2>4 DEF Covered
<1>4. CASE Panic \/ UNCHANGED vars
  BY <1>4 DEF Panic, vars, Covered, All
<1> QED
  BY <1>2, <1>3, <1>4 DEF Next

(* The first span is in the first batch.                                   *)
LEMMA InitCovered == ASSUME Init PROVE Covered
<1>1. index = 1 /\ batches = <<>> /\ current = Single(1)
  BY DEF Init
<1>2. DOMAIN All = {1} /\ All[1] = Single(1)
  BY <1>1 DEF All
<1>3. Single(1).first = 1 /\ Single(1).last = 1
  BY DEF Single
<1> QED
  BY <1>1, <1>2, <1>3 DEF Covered

(* No span is added once the worker was asked.                             *)
LEMMA AskedIsOver ==
  ASSUME RInv, answers # <<>> PROVE ~Next \/ UNCHANGED <<spans, index, batches, current>>
BY SpansType DEF RInv, IInv, AnswersOK, Next, Join, Close, Panic, Going

(* Every step keeps the invariant.                                         *)
LEMMA RInvStep == RInv /\ [RNext]_readingVars => RInv'
<1> SUFFICES ASSUME RInv, [RNext]_readingVars
             PROVE  RInv'
  OBVIOUS
<1>0. IInv /\ Covered /\ now \in 0 .. MaxTime /\ AnswersOK /\ MaxTime \in Nat
  BY ReadingsAssumption DEF RInv
<1>1. [Next]_vars
  BY DEF RNext, Ask, Exchange, Elapse, Restart, readingVars
<1>2. IInv' /\ Covered'
  BY <1>0, <1>1, CoveredStep, TypeStep, PartitionStep, InsideStep, EndStep, PanicStep
     DEF IInv
<1>3. CASE UNCHANGED vars
  <2>1. UNCHANGED <<spans, index, batches, current>> /\ All' = All
    BY <1>3 DEF vars, All
  <2>2. CASE Ask
    <3>1. /\ answers' = [b \in DOMAIN All |-> None]
          /\ index = Len(spans)
          /\ now' = now
      BY <2>2 DEF Ask
    <3>2. AnswersOK'
      BY <2>1, <3>1 DEF AnswersOK
    <3> QED
      BY <1>0, <1>2, <3>1, <3>2 DEF RInv
  <2>3. ASSUME NEW b \in DOMAIN answers, Exchange(b)
        PROVE  RInv'
    <3>1. /\ now' \in now .. MaxTime
          /\ answers' = [answers EXCEPT ![b] = [taken |-> now, stamp |-> now']]
      BY <2>3 DEF Exchange
    <3>2. now' \in 0 .. MaxTime /\ now <= now'
      BY <1>0, <3>1
    <3>3. [taken |-> now, stamp |-> now'] \in Answers
      BY <1>0, <3>2 DEF Answers
    <3>4. AnswersOK'
      BY <1>0, <2>1, <3>1, <3>2, <3>3 DEF AnswersOK
    <3> QED
      BY <1>2, <3>2, <3>4 DEF RInv
  <2>4. CASE Elapse
    <3>1. now' = now + 1 /\ now < MaxTime /\ answers' = answers
      BY <2>4 DEF Elapse
    <3>2. AnswersOK'
      BY <1>0, <2>1, <3>1 DEF AnswersOK
    <3> QED
      BY <1>0, <1>2, <3>1, <3>2 DEF RInv
  <2>5. CASE Restart
    <3>1. /\ answers # <<>>
          /\ answers' = [b \in DOMAIN answers |-> None]
          /\ now' = now
      BY <2>5 DEF Restart
    <3>2. AnswersOK'
      BY <1>0, <2>1, <3>1 DEF AnswersOK
    <3> QED
      BY <1>0, <1>2, <3>1, <3>2 DEF RInv
  <2>6. CASE UNCHANGED <<now, answers>>
    BY <1>0, <1>2, <2>1, <2>6 DEF RInv, AnswersOK
  <2> QED
    BY <2>2, <2>3, <2>4, <2>5, <2>6 DEF RNext, readingVars
<1>4. CASE Next /\ UNCHANGED <<now, answers>>
  <2>1. CASE answers = <<>>
    BY <1>0, <1>2, <1>4, <2>1 DEF RInv, AnswersOK
  <2>2. CASE answers # <<>>
    <3>1. UNCHANGED <<spans, index, batches, current>> /\ All' = All
      BY <1>4, <2>2, AskedIsOver DEF All
    <3> QED
      BY <1>0, <1>2, <1>4, <3>1 DEF RInv, AnswersOK
  <2> QED
    BY <2>1, <2>2
<1> QED
  BY <1>3, <1>4 DEF RNext, Ask, Exchange, Elapse, Restart, readingVars

(* Readings starts with nothing asked.                                     *)
LEMMA InitRInv == RInit => RInv
BY InitInv, InitCovered, ReadingsAssumption DEF RInit, RInv, AnswersOK

(* The inductive invariant of Readings: every span is in a batch, and an   *)
(* answer is stamped after it was taken.                                   *)
THEOREM RInvariance == RSpec => []RInv
BY InitRInv, RInvStep, PTL DEF RSpec

-----------------------------------------------------------------------------
(* Bytes of a word in the middle of a sequence of them.                    *)
LEMMA Halves ==
  ASSUME NEW n \in Nat
  PROVE  /\ (2 * n) \div 2 = n /\ (2 * n + 1) \div 2 = n
         /\ (2 * n) % 2 = 0 /\ (2 * n + 1) % 2 = 1
OBVIOUS

(* decode_numeric_bytes puts the word with the lowest address highest.     *)
LEMMA NumericBytesOf ==
  ASSUME NEW S, NEW words \in Seq(S), NEW j \in 1 .. Len(words)
  PROVE  /\ NumericBytes(words)[2 * (Len(words) - j) + 1] = Lo(words[j])
         /\ NumericBytes(words)[2 * (Len(words) - j) + 2] = Hi(words[j])
<1> DEFINE m == Len(words) - j
<1>1. m \in Nat /\ m < Len(words) /\ Len(words) - m = j /\ Len(words) \in Nat
  OBVIOUS
<1> HIDE DEF m
<1>2. /\ ((2 * m + 1) - 1) \div 2 = m /\ ((2 * m + 2) - 1) \div 2 = m
      /\ (2 * m + 1) % 2 = 1 /\ (2 * m + 2) % 2 = 0
  BY <1>1, Halves
<1>3. 2 * m + 1 \in 1 .. 2 * Len(words) /\ 2 * m + 2 \in 1 .. 2 * Len(words)
  BY <1>1
<1>4. /\ NumericBytes(words)[2 * m + 1] = Lo(words[Len(words) - m])
      /\ NumericBytes(words)[2 * m + 2] = Hi(words[Len(words) - m])
  BY <1>2, <1>3 DEF NumericBytes
<1> QED
  BY <1>1, <1>4 DEF m

(* decode_string_bytes keeps the order.                                    *)
LEMMA StringBytesOf ==
  ASSUME NEW S, NEW words \in Seq(S), NEW j \in 1 .. Len(words)
  PROVE  /\ StringBytes(words)[2 * j - 1] = Hi(words[j])
         /\ StringBytes(words)[2 * j] = Lo(words[j])
<1> DEFINE m == j - 1
<1>1. m \in Nat /\ j = m + 1 /\ m < Len(words) /\ Len(words) \in Nat
  OBVIOUS
<1> HIDE DEF m
<1>2. /\ ((2 * m + 1) + 1) \div 2 = m + 1 /\ ((2 * m + 2) + 1) \div 2 = m + 1
      /\ (2 * m + 1) % 2 = 1 /\ (2 * m + 2) % 2 = 0
  BY <1>1, Halves
<1>3. 2 * m + 1 \in 1 .. 2 * Len(words) /\ 2 * m + 2 \in 1 .. 2 * Len(words)
  BY <1>1
<1>4. /\ StringBytes(words)[2 * m + 1] = Hi(words[m + 1])
      /\ StringBytes(words)[2 * m + 2] = Lo(words[m + 1])
  BY <1>2, <1>3 DEF StringBytes
<1>5. 2 * j - 1 = 2 * m + 1 /\ 2 * j = 2 * m + 2
  BY <1>1
<1> QED
  BY <1>1, <1>4, <1>5

(* The slice of a span holds its registers at the moment of the answer.    *)
LEMMA SliceIs ==
  ASSUME RInv, NEW i \in DOMAIN spans, Answered(i)
  PROVE  /\ BatchOf(i) \in DOMAIN All
         /\ spans[i].quantity \in Nat
         /\ Slice(i) = [k \in 1 .. spans[i].quantity |->
                          Register(spans[i].address + k - 1, answers[BatchOf(i)].taken)]
<1> DEFINE b == BatchOf(i)
<1>0. TypeOK /\ Covered /\ SpansInside /\ Partition
  BY DEF RInv, IInv
<1>1. i \in 1 .. index
  BY <1>0, SpansType DEF RInv, AnswersOK, Answered
<1>2. b \in DOMAIN All /\ All[b].first <= i /\ i <= All[b].last
  BY <1>0, <1>1 DEF Covered, BatchOf
<1> HIDE DEF b
<1>3. /\ All[b].address \in Nat /\ All[b].quantity \in Nat
      /\ All[b].first \in Nat /\ All[b].last \in Nat
      /\ spans[i].address \in Nat /\ spans[i].quantity \in Nat
  BY <1>0, <1>2, AllType, BatchType, SpansType DEF Words
<1>4. i \in All[b].first .. All[b].last
  BY <1>0, <1>1, <1>2, <1>3, SpansType
<1>5. SliceStart(b, i) >= 0 /\ SliceEnd(b, i) <= All[b].quantity
  BY <1>0, <1>2, <1>4 DEF SpansInside
<1>6. /\ SliceStart(b, i) = spans[i].address - All[b].address
      /\ SliceEnd(b, i) = SliceStart(b, i) + spans[i].quantity
  BY DEF SliceStart, SliceEnd
<1>7. Data(b) = [k \in 1 .. All[b].quantity |->
                   Register(All[b].address + k - 1, answers[b].taken)]
  BY DEF Data
<1>8. Len(Data(b)) = All[b].quantity
  BY <1>3, <1>7
<1>9. Slice(i) = [k \in 1 .. spans[i].quantity |-> Data(b)[SliceStart(b, i) + k]]
  BY <1>5, <1>8 DEF Slice, b
<1>10. ASSUME NEW k \in 1 .. spans[i].quantity
       PROVE  Data(b)[SliceStart(b, i) + k]
                = Register(spans[i].address + k - 1, answers[b].taken)
  <2>1. SliceStart(b, i) + k \in 1 .. All[b].quantity
    BY <1>3, <1>5, <1>6
  <2>2. All[b].address + (SliceStart(b, i) + k) - 1 = spans[i].address + k - 1
    BY <1>3, <1>6
  <2> QED
    BY <1>7, <2>1, <2>2
<1> QED
  BY <1>2, <1>3, <1>9, <1>10 DEF b

(* Registers are never torn.                                               *)
LEMMA Whole == RInv => RegistersWhole
<1> SUFFICES ASSUME RInv, NEW i \in DOMAIN spans, Answered(i)
             PROVE  \E t \in 0 .. Timestamp(i) :
                      \A j \in 1 .. spans[i].quantity :
                        LET word == Register(spans[i].address + j - 1, t)
                            low == 2 * (spans[i].quantity - j) + 1
                        IN /\ Number(i)[low] = Lo(word) /\ Number(i)[low + 1] = Hi(word)
                           /\ Text(i)[2 * j - 1] = Hi(word) /\ Text(i)[2 * j] = Lo(word)
                           /\ Raw(i)[j] = word
  BY DEF RegistersWhole
<1> DEFINE t == answers[BatchOf(i)].taken
           q == spans[i].quantity
<1>1. /\ BatchOf(i) \in DOMAIN All
      /\ q \in Nat
      /\ Slice(i) = [k \in 1 .. q |-> Register(spans[i].address + k - 1, t)]
  BY SliceIs
<1>2. t \in 0 .. Timestamp(i)
  <2>1. answers # <<>> /\ answers[BatchOf(i)] # None
    BY DEF Answered
  <2>2. /\ answers[BatchOf(i)] \in Answers
        /\ 0 <= t /\ t <= answers[BatchOf(i)].stamp
    BY <1>1, <2>1 DEF RInv, AnswersOK
  <2> QED
    BY <2>2, ReadingsAssumption DEF Answers, Timestamp
<1> HIDE DEF t, q
<1> DEFINE S == {Register(spans[i].address + k - 1, t) : k \in 1 .. q}
<1>3. Len(Slice(i)) = q /\ Slice(i) \in Seq(S)
  <2> DEFINE f == [k \in 1 .. q |-> Register(spans[i].address + k - 1, t)]
  <2>1. \A k \in 1 .. q : Register(spans[i].address + k - 1, t) \in S
    OBVIOUS
  <2> HIDE DEF S
  <2>2. f \in [1 .. q -> S]
    BY <2>1
  <2>3. f \in Seq(S) /\ Len(f) = q
    BY <1>1, <2>2
  <2> QED
    BY <1>1, <2>3
<1> SUFFICES ASSUME NEW j \in 1 .. q
             PROVE  LET word == Register(spans[i].address + j - 1, t)
                        low == 2 * (q - j) + 1
                    IN /\ Number(i)[low] = Lo(word) /\ Number(i)[low + 1] = Hi(word)
                       /\ Text(i)[2 * j - 1] = Hi(word) /\ Text(i)[2 * j] = Lo(word)
                       /\ Raw(i)[j] = word
  BY <1>2 DEF q
<1> HIDE DEF S
<1> DEFINE w == Register(spans[i].address + j - 1, t)
<1>4. Slice(i)[j] = w
  BY <1>1
<1> HIDE DEF w
<1>5. /\ NumericBytes(Slice(i))[2 * (q - j) + 1] = Lo(w)
      /\ NumericBytes(Slice(i))[2 * (q - j) + 2] = Hi(w)
  BY <1>3, <1>4, NumericBytesOf
<1>6. /\ StringBytes(Slice(i))[2 * j - 1] = Hi(w)
      /\ StringBytes(Slice(i))[2 * j] = Lo(w)
  BY <1>3, <1>4, StringBytesOf
<1>7. (2 * (q - j) + 1) + 1 = 2 * (q - j) + 2
  BY <1>1
<1> QED
  BY <1>4, <1>5, <1>6, <1>7 DEF Number, Text, Raw, w

(* A value a caller gets back is the one the registers of the span held at *)
(* one moment before its timestamp.                                        *)
THEOREM ReadingsWhole == RSpec => []RegistersWhole
BY RInvariance, Whole, PTL

(* The invariant holds what the runs check of the loop as well.            *)
LEMMA RInvImplies == RInv => ReadingsTypeOK /\ Partition /\ PanicsOnlyOnOverlap
BY DEF RInv, IInv, AnswersOK, ReadingsTypeOK

(* The types of the whole reading.                                         *)
THEOREM ReadingsTypeCorrect == RSpec => []ReadingsTypeOK
BY RInvariance, RInvImplies, PTL

(* The batches of a reading hold every span once and in order, and the     *)
(* loop stops early only for spans that overlap or leave the addresses.    *)
THEOREM ReadingsBatches == RSpec => [](Partition /\ PanicsOnlyOnOverlap)
BY RInvariance, RInvImplies, PTL
=============================================================================
