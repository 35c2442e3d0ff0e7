----------------------------- MODULE BatchSpans -----------------------------
(***************************************************************************)
(* batch_spans (src/cli/src/service/modbus/batch.rs): the registers a      *)
(* caller wants are sorted by address and put together into batches, each  *)
(* one request to the meter, and parse_batch cuts the answer of a batch    *)
(* up again.  Addresses and quantities are 16 bits wide and the code stops *)
(* at a result that is not.                                                *)
(***************************************************************************)
EXTENDS Integers, Sequences

CONSTANTS MaxAddress,  \* u16::MAX
          Threshold,   \* config.modbus.batch_threshold
          Inputs       \* the spans of callers after sort_by_key

Words == 0 .. MaxAddress
Spans == [address : Words, quantity : Words]

Sorted(s) ==
  \A i, j \in DOMAIN s : i <= j => s[i].address <= s[j].address

ASSUME BatchAssumption ==
  /\ MaxAddress \in Nat
  /\ Threshold \in Words
  /\ \A s \in Inputs : s \in Seq(Spans) /\ s # <<>> /\ Sorted(s)

VARIABLES spans,    \* the spans after sort_by_key
          index,    \* how many of them the loop is done with
          batches,  \* batches, all but the last
          current,  \* the last batch, with its spans as first and last index
          panicked  \* a checked operation had no result

vars == <<spans, index, batches, current, panicked>>

-----------------------------------------------------------------------------
(* A batch of the span with this index.                                    *)
Single(i) ==
  [address |-> spans[i].address, quantity |-> spans[i].quantity,
   first |-> i, last |-> i]

End(span) == span.address + span.quantity

Init ==
  /\ spans \in Inputs
  /\ index = 1
  /\ batches = <<>>
  /\ current = Single(1)
  /\ panicked = FALSE

Going == ~panicked /\ index < Len(spans)

(* Faulty variant of Fits: a span right behind the batch does not fit.     *)
FitsBehind == spans[index + 1].address > End(current) /\ End(current) <= MaxAddress

(* The next span starts behind the batch, and both fit into the addresses. *)
Fits == spans[index + 1].address >= End(current) /\ End(current) <= MaxAddress

Gap == spans[index + 1].address - End(current)

(* Faulty variant of Join: the end is not checked.                         *)
JoinUnchecked ==
  /\ Going
  /\ Fits
  /\ Gap < Threshold
  /\ current' = [current EXCEPT !.quantity = End(spans[index + 1]) - current.address,
                                !.last = index + 1]
  /\ index' = index + 1
  /\ UNCHANGED <<spans, batches, panicked>>

(* A span less than the threshold away joins the batch.                    *)
Join ==
  /\ Going
  /\ Fits
  /\ Gap < Threshold
  /\ End(spans[index + 1]) <= MaxAddress
  /\ current' = [current EXCEPT !.quantity = End(spans[index + 1]) - current.address,
                                !.last = index + 1]
  /\ index' = index + 1
  /\ UNCHANGED <<spans, batches, panicked>>

(* Faulty variant of Close: the finished batch is not pushed.              *)
CloseLost ==
  /\ Going
  /\ Fits
  /\ Gap >= Threshold
  /\ current' = Single(index + 1)
  /\ index' = index + 1
  /\ UNCHANGED <<spans, batches, panicked>>

(* Any other span starts a batch of its own.                               *)
Close ==
  /\ Going
  /\ Fits
  /\ Gap >= Threshold
  /\ batches' = Append(batches, current)
  /\ current' = Single(index + 1)
  /\ index' = index + 1
  /\ UNCHANGED <<spans, panicked>>

(* checked_add and checked_sub: spans that overlap or run over the end.    *)
Panic ==
  /\ Going
  /\ \/ ~Fits
     \/ Gap < Threshold /\ End(spans[index + 1]) > MaxAddress
  /\ panicked' = TRUE
  /\ UNCHANGED <<spans, index, batches, current>>

Next == Join \/ Close \/ Panic

Spec == Init /\ [][Next]_vars

All == Append(batches, current)

(* parse_batch: the slice of the answer to batch b that is for span i.     *)
SliceStart(b, i) == spans[i].address - All[b].address
SliceEnd(b, i) == SliceStart(b, i) + spans[i].quantity

-----------------------------------------------------------------------------

Batch == [address : Words, quantity : Words, first : DOMAIN spans, last : DOMAIN spans]

TypeOK ==
  /\ spans \in Inputs
  /\ index \in DOMAIN spans
  /\ batches \in Seq(Batch)
  /\ current \in Batch
  /\ panicked \in BOOLEAN

(* The batches hold every span up to index once, in order.                 *)
Partition ==
  /\ All[1].first = 1
  /\ \A b \in DOMAIN All : All[b].first <= All[b].last
  /\ \A b \in DOMAIN batches : All[b + 1].first = All[b].last + 1
  /\ current.last = index

(* The answer to a batch holds the registers of each of its spans, and the *)
(* slice parse_batch cuts out of it for a span is inside of it.            *)
SpansInside ==
  \A b \in DOMAIN All : \A i \in All[b].first .. All[b].last :
    /\ SliceStart(b, i) >= 0
    /\ SliceEnd(b, i) <= All[b].quantity

(* The comments on unwrap want it to fail; it does only for spans that     *)
(* overlap or run over the last address.                                   *)
PanicsOnlyOnOverlap ==
  panicked =>
    \E i \in DOMAIN spans :
      \/ End(spans[i]) > MaxAddress
      \/ \E j \in DOMAIN spans : j < i /\ End(spans[j]) > spans[i].address
=============================================================================
