------------------------------ MODULE Readings ------------------------------
(***************************************************************************)
(* A read or a stream of the Modbus service (service/modbus/service.rs)    *)
(* around the worker: the spans of the caller are put into batches, the    *)
(* worker reads each batch at a moment of its own while the registers of   *)
(* the meter change, and the answers are cut up and decoded again          *)
(* (batch.rs, register.rs, encoding.rs).                                   *)
(***************************************************************************)
EXTENDS BatchSpans

CONSTANT MaxTime  \* bound: moments at which the registers differ

ASSUME ReadingsAssumption == MaxTime \in Nat

None == [taken |-> -1, stamp |-> -1]

VARIABLES
  now,      \* the present moment
  answers   \* of each batch: when the meter took it and the worker stamped it

readingVars == <<vars, now, answers>>

-----------------------------------------------------------------------------
(* The register at an address, as it is at a moment, and its two bytes.    *)
Register(a, t) == <<a, t>>
Hi(word) == <<"hi", word>>
Lo(word) == <<"lo", word>>

(* A meter answers with the registers of a batch at one moment.            *)
Data(b) ==
  [k \in 1 .. All[b].quantity |-> Register(All[b].address + k - 1, answers[b].taken)]

BatchOf(i) == CHOOSE b \in DOMAIN All : All[b].first <= i /\ i <= All[b].last

Answered(i) == answers # <<>> /\ answers[BatchOf(i)] # None

(* The slice of an answer for a span; a slice outside of it panics.        *)
Slice(i) ==
  LET b == BatchOf(i)
  IN IF 0 <= SliceStart(b, i) /\ SliceEnd(b, i) <= Len(Data(b))
     THEN [k \in 1 .. spans[i].quantity |-> Data(b)[SliceStart(b, i) + k]]
     ELSE <<"panic">>

(* Faulty variant of NumericBytes: the words are not reversed.             *)
NumericBytesForward(words) ==
  [k \in 1 .. 2 * Len(words) |->
     LET word == words[(k + 1) \div 2] IN IF k % 2 = 1 THEN Lo(word) ELSE Hi(word)]

(* decode_numeric_bytes: the last word first, the low byte of each first;  *)
(* from_ne_bytes takes the first byte for the lowest of the number.        *)
NumericBytes(words) ==
  [k \in 1 .. 2 * Len(words) |->
     LET word == words[Len(words) - (k - 1) \div 2]
     IN IF k % 2 = 1 THEN Lo(word) ELSE Hi(word)]

(* decode_string_bytes: the high byte of each word first.                  *)
StringBytes(words) ==
  [k \in 1 .. 2 * Len(words) |->
     LET word == words[(k + 1) \div 2] IN IF k % 2 = 1 THEN Hi(word) ELSE Lo(word)]

(* The value of the register with index i, of each kind.                   *)
Number(i) == NumericBytes(Slice(i))
Text(i) == StringBytes(Slice(i))
Raw(i) == Slice(i)

(* Each register keeps the timestamp of the answer to its batch.           *)
Timestamp(i) == answers[BatchOf(i)].stamp

-----------------------------------------------------------------------------
RInit ==
  /\ Init
  /\ now = 0
  /\ answers = <<>>

(* The batches are sent to the worker, which has read none of them.        *)
Ask ==
  /\ index = Len(spans)
  /\ ~panicked
  /\ answers = <<>>
  /\ answers' = [b \in DOMAIN All |-> None]
  /\ UNCHANGED <<vars, now>>

(* A pass tries the batches without an answer one after the other, and any *)
(* of them may fail: one batch is answered, and stamped when it came.      *)
Exchange(b) ==
  /\ answers[b] = None
  /\ now' \in now .. MaxTime
  /\ answers' = [answers EXCEPT ![b] = [taken |-> now, stamp |-> now']]
  /\ UNCHANGED vars

(* The registers of the meter change.                                      *)
Elapse ==
  /\ now < MaxTime
  /\ now' = now + 1
  /\ UNCHANGED <<vars, answers>>

(* A stream was delivered or given up and starts over.                     *)
Restart ==
  /\ answers # <<>>
  /\ answers' = [b \in DOMAIN answers |-> None]
  /\ UNCHANGED <<vars, now>>

RNext ==
  \/ Next /\ UNCHANGED <<now, answers>>
  \/ Ask
  \/ \E b \in DOMAIN answers : Exchange(b)
  \/ Elapse
  \/ Restart

RSpec == RInit /\ [][RNext]_readingVars

-----------------------------------------------------------------------------
Answers == [taken : 0 .. MaxTime, stamp : 0 .. MaxTime]

ReadingsTypeOK ==
  /\ TypeOK
  /\ now \in 0 .. MaxTime
  /\ answers = <<>> \/ answers \in [DOMAIN All -> Answers \cup {None}]

(* A register of several words is never torn: whatever passes its batches  *)
(* needed, it is decoded from the words at its own addresses, all of one   *)
(* moment before its timestamp, the lowest address the most significant.   *)
RegistersWhole ==
  \A i \in DOMAIN spans :
    Answered(i) =>
      \E t \in 0 .. Timestamp(i) :
        \A j \in 1 .. spans[i].quantity :
          LET word == Register(spans[i].address + j - 1, t)
              low == 2 * (spans[i].quantity - j) + 1
          IN /\ Number(i)[low] = Lo(word) /\ Number(i)[low + 1] = Hi(word)
             /\ Text(i)[2 * j - 1] = Hi(word) /\ Text(i)[2 * j] = Lo(word)
             /\ Raw(i)[j] = word
=============================================================================
