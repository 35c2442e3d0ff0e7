------------------------- MODULE ModbusWorkerProofs -------------------------
(***************************************************************************)
(* Proofs about ModbusWorker for every set of requests, every size of      *)
(* them, every behaviour of the meters and all limits.                     *)
(***************************************************************************)
EXTENDS ModbusWorker, FiniteSetTheorems, TLAPS

(* The types of what a request has read and of what a meter was sent and   *)
(* has executed.                                                           *)
PartialType ==
  /\ DOMAIN partial = Requests
  /\ \A r \in Requests : partial[r] \in [Spans(r) -> {None} \cup 0 .. MaxGeneration]
MeterType ==
  /\ DOMAIN sent = Requests
  /\ DOMAIN applied = Requests
  /\ \A r \in Requests : sent[r] \cup applied[r] \subseteq Spans(r)
StorageType ==
  /\ PartialType
  /\ retries \in [Requests -> 0 .. MaxRetries]
  /\ generation \in [Requests -> 0 .. MaxGeneration]
CallersType ==
  /\ caller \in [Requests -> {"idle", "waiting", "done", "failed", "gone"}]
  /\ queued \in [Requests -> 0 .. StreamCapacity]
  /\ owned \in BOOLEAN
  /\ terminator \in {"none", "joining", "joined", "timedOut"}
LoopType ==
  /\ phase \in Kinds \cup {"receive"}
  /\ visited \subseteq Requests
  /\ leaving \subseteq visited
  /\ span \in Nat
  /\ asking \in BOOLEAN
  /\ pass \in 0 .. MaxGeneration
TaskType ==
  /\ inbox \in Seq(Requests \cup {Terminate})
  /\ task \in {"running", "returned", "aborted"}
  /\ terminate \in BOOLEAN
  /\ held \subseteq Requests
  /\ ticket \in [Requests -> Nat]
  /\ conn \in {"absent", "down", "up", "clogged"}

(* The type invariant by the parts that steps change together.             *)
LEMMA TypeParts ==
  TypeOK <=> CallersType /\ TaskType /\ LoopType /\ StorageType /\ MeterType
BY DEF TypeOK, CallersType, TaskType, LoopType, StorageType, MeterType, PartialType

-----------------------------------------------------------------------------
(* A saturating counter stays between 0 and its maximum.                   *)
LEMMA SaturateType ==
  ASSUME NEW max \in Nat, NEW n \in 0 .. max
  PROVE  /\ Saturate(n, max) \in 0 .. max
         /\ Saturate(n, max) \in {n, n + 1}
BY DEF Saturate

(* Dropping senders keeps the types of the callers.                        *)
LEMMA CloseType ==
  ASSUME CallersType, NEW some, Close(some), UNCHANGED <<queued, owned, terminator>>
  PROVE  CallersType'
BY DEF CallersType, Close

(* A stream that starts over keeps the types of its storage.               *)
LEMMA NextReadingType ==
  ASSUME StorageType, NEW r \in Requests, NextReading(r)
  PROVE  StorageType'
<1>1. MaxGeneration \in Nat /\ MaxRetries \in Nat
  BY WorkerAssumption
<1>2. Nothing(r) \in [Spans(r) -> {None} \cup 0 .. MaxGeneration]
  BY DEF Nothing
<1>3. PartialType'
  BY <1>2 DEF StorageType, PartialType, NextReading
<1>4. retries' \in [Requests -> 0 .. MaxRetries]
  BY <1>1 DEF StorageType, NextReading
<1>5. generation' \in [Requests -> 0 .. MaxGeneration]
  <2>1. Saturate(generation[r], MaxGeneration) \in 0 .. MaxGeneration
    BY <1>1, SaturateType DEF StorageType
  <2> QED
    BY <2>1 DEF StorageType, NextReading
<1> QED
  BY <1>3, <1>4, <1>5 DEF StorageType

(* Sending a record of a write remembers it.                               *)
LEMMA PostType ==
  ASSUME TypeOK, NEW r \in Requests, Post(r)
  PROVE  TypeOK'
<1> USE DEF callers, storage
<1>0. CallersType /\ TaskType /\ LoopType /\ StorageType /\ MeterType
  BY TypeParts
<1>1. /\ span \in Spans(r) /\ asking' = TRUE
      /\ conn' = IF conn = "down" THEN "up" ELSE conn
      /\ sent' = IF Kind[r] = "writes" THEN [sent EXCEPT ![r] = @ \cup {span}] ELSE sent
      /\ UNCHANGED <<callers, inbox, task, terminate, held, ticket, phase, visited,
                     leaving, span, pass, storage, applied>>
  BY DEF Post, AtSpan
<1>2. CallersType' /\ TaskType' /\ LoopType' /\ StorageType'
  BY <1>0, <1>1 DEF CallersType, TaskType, LoopType, StorageType, PartialType
<1>3. MeterType'
  <2>1. \A q \in Requests : sent'[q] \subseteq sent[q] \cup {span} /\ (q # r => sent'[q] = sent[q])
    BY <1>0, <1>1 DEF MeterType
  <2>2. DOMAIN sent' = Requests
    BY <1>0, <1>1 DEF MeterType
  <2>3. \A q \in Requests : Spans(q)' = Spans(q)
    BY DEF Spans
  <2> QED
    BY <1>0, <1>1, <2>1, <2>2, <2>3 DEF MeterType
<1> QED
  BY <1>2, <1>3, TypeParts, PTL

(* An answer stores a generation at a span, an error and a timeout do not. *)
LEMMA AnsweredType ==
  ASSUME TypeOK, NEW r \in Requests, Respond(r) \/ TimeOut(r) \/ Fail(r)
  PROVE  TypeOK'
<1> USE DEF callers, storage, meter
<1>0. CallersType /\ TaskType /\ LoopType /\ StorageType /\ MeterType
  BY TypeParts
<1>1. /\ span \in Spans(r)
      /\ asking' = FALSE /\ span' = span + 1
      /\ conn' \in {conn, "clogged", "down"}
      /\ partial' \in {partial, [partial EXCEPT ![r][span] = generation[r]]}
      /\ UNCHANGED <<callers, inbox, task, terminate, held, ticket, phase, visited,
                     leaving, pass, retries, generation, meter>>
  BY DEF Respond, TimeOut, Fail, Awaiting, AtSpan, Answered
<1>2. CallersType' /\ TaskType' /\ MeterType'
  BY <1>0, <1>1 DEF CallersType, TaskType, MeterType
<1>3. LoopType'
  <2>1. asking' \in BOOLEAN
    BY <1>1
  <2>2. span' \in Nat
    BY <1>0, <1>1 DEF LoopType
  <2> QED
    BY <1>0, <1>1, <2>1, <2>2 DEF LoopType
<1>4. StorageType'
  <2>1. [partial[r] EXCEPT ![span] = generation[r]]
          \in [Spans(r) -> {None} \cup 0 .. MaxGeneration]
    BY <1>0, <1>1 DEF StorageType, PartialType
  <2>2. PartialType'
    BY <1>0, <1>1, <2>1 DEF StorageType, PartialType
  <2> QED
    BY <1>0, <1>1, <2>2 DEF StorageType
<1> QED
  BY <1>2, <1>3, <1>4, TypeParts, PTL

(* A meter executes what it was sent.                                      *)
LEMMA ApplyType ==
  ASSUME TypeOK, NEW r \in Requests, NEW k, Apply(r, k)
  PROVE  TypeOK'
<1> USE DEF callers, loop, storage
<1>0. CallersType /\ TaskType /\ LoopType /\ StorageType /\ MeterType
  BY TypeParts
<1>1. /\ k \in sent[r]
      /\ applied' = [applied EXCEPT ![r] = @ \cup {k}]
      /\ UNCHANGED <<callers, inbox, task, terminate, held, ticket, loop, storage,
                     conn, sent>>
  BY DEF Apply
<1>2. CallersType' /\ TaskType' /\ LoopType' /\ StorageType'
  BY <1>0, <1>1 DEF CallersType, TaskType, LoopType, StorageType, PartialType
<1>3. MeterType'
  BY <1>0, <1>1 DEF MeterType, Spans
<1> QED
  BY <1>2, <1>3, TypeParts, PTL

-----------------------------------------------------------------------------
(* The type of the inbox of a task that takes its head.                    *)
LEMMA InboxType ==
  ASSUME TaskType, inbox # <<>>
  PROVE  /\ Head(inbox) \in Requests \cup {Terminate}
         /\ Tail(inbox) \in Seq(Requests \cup {Terminate})
BY DEF TaskType

(* Each way of taking a request keeps the types.                           *)
LEMMA TakeType == ASSUME TypeOK, Take PROVE TypeOK'
<1> USE TypeParts DEF Take, callers, loop, storage, meter
<1>1. /\ UNCHANGED <<queued, owned, terminator, task, phase, visited, leaving, span,
                     asking, pass, partial, retries, conn, meter>>
      /\ inbox' \in Seq(Requests \cup {Terminate})
      /\ Head(inbox) \in Requests \cup {Terminate}
  BY InboxType
<1>2. LoopType' /\ MeterType' /\ PartialType'
  BY <1>1 DEF LoopType, MeterType, StorageType, PartialType
<1>3. CASE TakeTerminate
  <2>1. CallersType'
    BY <1>1, <1>3, CloseType DEF TakeTerminate
  <2>2. TaskType' /\ StorageType'
    BY <1>1, <1>2, <1>3 DEF TakeTerminate, TaskType, StorageType
  <2> QED
    BY <1>2, <2>1, <2>2, PTL
<1>4. CASE TakeLate
  <2>1. CallersType'
    BY <1>1, <1>4, CloseType DEF TakeLate
  <2>2. TaskType' /\ StorageType'
    BY <1>1, <1>2, <1>4 DEF TakeLate, TaskType, StorageType
  <2> QED
    BY <1>2, <2>1, <2>2, PTL
<1>5. CASE TakeRequest
  <2>1. CallersType'
    BY <1>1, <1>5 DEF TakeRequest, CallersType
  <2>2. Head(inbox) \in Requests
    BY <1>1, <1>5 DEF TakeRequest
  <2>3. TaskType'
    <3>1. Cardinality({r \in Requests : ticket[r] > 0}) \in Nat
      BY WorkerAssumption, FS_Subset, FS_CardinalityType
    <3>2. ticket' \in [Requests -> Nat]
      BY <1>5, <2>2, <3>1 DEF TakeRequest, TaskType
    <3>3. held' \subseteq Requests
      BY <1>5, <2>2 DEF TakeRequest, TaskType
    <3> QED
      BY <1>1, <1>5, <3>2, <3>3 DEF TakeRequest, TaskType
  <2>4. Newest \subseteq 0 .. MaxGeneration
    <3>1. Generations \subseteq 0 .. MaxGeneration
      BY DEF Generations, Vector, StorageType, TaskType
    <3>2. 0 \in 0 .. MaxGeneration
      BY WorkerAssumption
    <3> QED
      BY <3>1, <3>2 DEF Newest
  <2>5. StorageType'
    BY <1>1, <1>2, <1>5, <2>2, <2>4 DEF TakeRequest, StorageType
  <2> QED
    BY <1>2, <2>1, <2>3, <2>5, PTL
<1> QED
  BY <1>3, <1>4, <1>5

(* The types follow from those of the parts, after a step as before it.    *)
LEMMA TypePartsNext ==
  ASSUME CallersType', TaskType', LoopType', StorageType', MeterType'
  PROVE  TypeOK'
BY TypeParts, PTL

(* Serving the request whose turn it is keeps the types.                   *)
LEMMA ServeType == ASSUME TypeOK, NEW r \in Requests, Serve(r) PROVE TypeOK'
<1> USE DEF callers, loop, storage, meter
<1>0. CallersType /\ TaskType /\ LoopType /\ StorageType /\ MeterType
  BY TypeParts
<1>1. CASE DropCancelled(r) \/ SkipStream(r)
  <2>1. UNCHANGED <<callers, inbox, task, terminate, held, ticket, phase, asking, pass, storage,
                    conn, meter>>
        /\ Done(r) /\ leaving' \in {leaving, leaving \cup {r}}
    BY <1>1 DEF DropCancelled, SkipStream
  <2>2. CallersType' /\ TaskType' /\ MeterType'
    BY <1>0, <2>1 DEF CallersType, TaskType, MeterType
  <2>3. StorageType'
    BY <1>0, <2>1 DEF StorageType, PartialType
  <2>4. LoopType'
    BY <1>0, <2>1 DEF LoopType, Done
  <2> QED
    BY <2>2, <2>3, <2>4, TypePartsNext
<1>2. CASE GiveUp(r)
  <2>1. UNCHANGED <<callers, inbox, task, terminate, held, ticket, phase, leaving,
                    asking, pass, conn, meter>>
        /\ Done(r) /\ NextReading(r)
    BY <1>2 DEF GiveUp
  <2>2. CallersType' /\ TaskType' /\ MeterType'
    BY <1>0, <2>1 DEF CallersType, TaskType, MeterType
  <2>3. StorageType'
    BY <1>0, <2>1, NextReadingType
  <2>4. LoopType'
    BY <1>0, <2>1 DEF LoopType, Done
  <2> QED
    BY <2>2, <2>3, <2>4, TypePartsNext
<1>3. CASE Connect(r)
  <2>1. UNCHANGED <<queued, owned, terminator, inbox, task, terminate, held, ticket, phase,
                    asking, pass, storage, meter>>
    BY <1>3 DEF Connect
  <2>2. \/ /\ conn' = "up"
           /\ span' = 1
           /\ UNCHANGED <<caller, visited, leaving>>
        \/ /\ Close({r})
           /\ Done(r)
           /\ leaving' = leaving \cup {r}
           /\ UNCHANGED conn
    BY <1>3 DEF Connect
  <2>3. CallersType'
    BY <1>0, <2>1, <2>2, CloseType DEF CallersType
  <2>4. TaskType' /\ MeterType' /\ StorageType'
    BY <1>0, <2>1, <2>2 DEF TaskType, MeterType, StorageType, PartialType
  <2>5. LoopType'
    BY <1>0, <2>1, <2>2 DEF LoopType, Done
  <2> QED
    BY <2>3, <2>4, <2>5, TypePartsNext
<1>4. CASE Resume(r) \/ Keep(r) \/ Reconnect(r)
  <2>1. UNCHANGED <<callers, inbox, task, terminate, held, ticket, phase, visited, leaving,
                    asking, pass, storage, conn, meter>>
        /\ span' \in {1, span + 1}
    BY <1>4 DEF Resume, Keep, Reconnect
  <2>2. CallersType' /\ TaskType' /\ MeterType' /\ StorageType'
    BY <1>0, <2>1 DEF CallersType, TaskType, MeterType, StorageType, PartialType
  <2>3. LoopType'
    BY <1>0, <2>1 DEF LoopType
  <2> QED
    BY <2>2, <2>3, TypePartsNext
<1>5. CASE Post(r) \/ Respond(r) \/ TimeOut(r) \/ Fail(r)
  BY <1>5, PostType, AnsweredType
<1>6. CASE Incomplete(r)
  <2>1. UNCHANGED <<callers, inbox, task, terminate, held, ticket, phase, leaving,
                    asking, pass, partial, generation, conn, meter>>
        /\ Done(r) /\ retries' = [retries EXCEPT ![r] = Saturate(@, MaxRetries)]
    BY <1>6 DEF Incomplete
  <2>2. Saturate(retries[r], MaxRetries) \in 0 .. MaxRetries
    BY <1>0, WorkerAssumption, SaturateType DEF StorageType
  <2>3. StorageType'
    BY <1>0, <2>1, <2>2 DEF StorageType, PartialType
  <2>4. CallersType' /\ TaskType' /\ MeterType'
    BY <1>0, <2>1 DEF CallersType, TaskType, MeterType
  <2>5. LoopType'
    BY <1>0, <2>1 DEF LoopType, Done
  <2> QED
    BY <2>3, <2>4, <2>5, TypePartsNext
<1>7. CASE Answer(r)
  <2>1. UNCHANGED <<queued, owned, terminator, inbox, task, terminate, held, ticket, phase,
                    asking, pass, storage, conn, meter>>
        /\ caller' = [caller EXCEPT ![r] = IF @ = "waiting" THEN "done" ELSE @]
        /\ Done(r) /\ leaving' = leaving \cup {r}
    BY <1>7 DEF Answer
  <2>2. CallersType'
    BY <1>0, <2>1 DEF CallersType
  <2>3. TaskType' /\ MeterType' /\ StorageType'
    BY <1>0, <2>1 DEF TaskType, MeterType, StorageType, PartialType
  <2>4. LoopType'
    BY <1>0, <2>1 DEF LoopType, Done
  <2> QED
    BY <2>2, <2>3, <2>4, TypePartsNext
<1>8. CASE Deliver(r)
  <2>1. UNCHANGED <<caller, owned, terminator, inbox, task, terminate, held, ticket, phase,
                    asking, pass, conn, meter>>
        /\ Done(r)
    BY <1>8 DEF Deliver
  <2>2. \/ /\ queued[r] < StreamCapacity
           /\ queued' = [queued EXCEPT ![r] = @ + 1]
           /\ NextReading(r)
           /\ UNCHANGED leaving
        \/ /\ leaving' = leaving \cup {r}
           /\ UNCHANGED <<queued, storage>>
    BY <1>8 DEF Deliver
  <2>3. queued' \in [Requests -> 0 .. StreamCapacity]
    BY <1>0, <2>2, WorkerAssumption DEF CallersType
  <2>4. StorageType'
    BY <1>0, <2>2, NextReadingType DEF StorageType, PartialType
  <2>5. LoopType'
    BY <1>0, <2>1, <2>2 DEF LoopType, Done
  <2>6. CallersType' /\ TaskType' /\ MeterType'
    BY <1>0, <2>1, <2>3 DEF CallersType, TaskType, MeterType
  <2> QED
    BY <2>4, <2>5, <2>6, TypePartsNext
<1> QED
  BY <1>1, <1>2, <1>3, <1>4, <1>5, <1>6, <1>7, <1>8 DEF Serve

(* A task whose loop goes on or ends keeps the types.                      *)
LEMMA LoopStepType ==
  ASSUME TypeOK, Return \/ BeginPass \/ EndPhase PROVE TypeOK'
<1> USE DEF callers, loop, storage, meter
<1>0. CallersType /\ TaskType /\ LoopType /\ StorageType /\ MeterType
  BY TypeParts
<1>1. CASE Return
  <2>1. UNCHANGED <<queued, inbox, owned, terminator, terminate, ticket, loop, storage,
                    conn, meter>>
        /\ task' = "returned" /\ held' = {} /\ Close(held)
    BY <1>1 DEF Return
  <2>2. CallersType'
    BY <1>0, <2>1, CloseType
  <2>3. TaskType' /\ MeterType' /\ StorageType' /\ LoopType'
    BY <1>0, <2>1 DEF TaskType, MeterType, StorageType, PartialType, LoopType
  <2> QED
    BY <2>2, <2>3, TypePartsNext
<1>2. CASE BeginPass
  <2>1. UNCHANGED <<callers, inbox, task, terminate, held, ticket, visited, leaving, span,
                    asking, pass, storage, conn, meter>>
        /\ phase' = "reads"
    BY <1>2 DEF BeginPass
  <2>2. LoopType'
    BY <1>0, <2>1 DEF LoopType, Kinds
  <2>3. CallersType' /\ TaskType' /\ MeterType' /\ StorageType'
    BY <1>0, <2>1 DEF CallersType, TaskType, MeterType, StorageType, PartialType
  <2> QED
    BY <2>2, <2>3, TypePartsNext
<1>3. CASE EndPhase
  <2>1. UNCHANGED <<queued, owned, terminator, inbox, task, terminate, ticket, span,
                    asking, storage, conn, meter>>
        /\ held' = held \ leaving /\ Close(leaving)
        /\ visited' = {} /\ leaving' = {}
    BY <1>3 DEF EndPhase
  <2>2. phase' \in {"writes", "streams", "receive"} /\ pass' \in {pass} \cup Generations
    BY <1>3 DEF EndPhase
  <2>3. Generations \subseteq 0 .. MaxGeneration
    BY <1>0 DEF Generations, Vector, StorageType, TaskType
  <2>4. LoopType'
    BY <1>0, <2>1, <2>2, <2>3 DEF LoopType, Kinds
  <2>5. CallersType'
    BY <1>0, <2>1, CloseType
  <2>6. TaskType' /\ MeterType' /\ StorageType'
    BY <1>0, <2>1 DEF TaskType, MeterType, StorageType, PartialType
  <2> QED
    BY <2>4, <2>5, <2>6, TypePartsNext
<1> QED
  BY <1>1, <1>2, <1>3

(* A step of a caller or of the registry keeps the types.                  *)
LEMMA CallerStepType ==
  ASSUME TypeOK,
         \/ \E r \in Requests : Send(r) \/ Cancel(r) \/ Consume(r)
         \/ StartTerminate \/ Release \/ Join
  PROVE  TypeOK'
<1> USE DEF callers, loop, storage, meter
<1>0. CallersType /\ TaskType /\ LoopType /\ StorageType /\ MeterType
  BY TypeParts
<1>1. ASSUME NEW r \in Requests, Send(r)
      PROVE  TypeOK'
  <2>1. UNCHANGED <<queued, owned, terminator, task, terminate, held, ticket, loop,
                    storage, conn, meter>>
        /\ inbox' \in {inbox, Append(inbox, r)}
        /\ \E value \in {"waiting", "failed"} : caller' = [caller EXCEPT ![r] = value]
    BY <1>1 DEF Send
  <2>2. inbox' \in Seq(Requests \cup {Terminate})
    BY <1>0, <2>1 DEF TaskType
  <2>3. CallersType' /\ TaskType' /\ MeterType' /\ StorageType' /\ LoopType'
    BY <1>0, <2>1, <2>2
       DEF CallersType, TaskType, MeterType, StorageType, PartialType, LoopType
  <2> QED
    BY <2>3, TypePartsNext
<1>2. ASSUME NEW r \in Requests, Cancel(r) \/ Consume(r)
      PROVE  TypeOK'
  <2>1. UNCHANGED <<owned, terminator, inbox, task, terminate, held, ticket, loop,
                    storage, conn, meter>>
    BY <1>2 DEF Cancel, Consume
  <2>2. CallersType'
    <3>1. CASE Cancel(r)
      BY <1>0, <3>1 DEF Cancel, CallersType
    <3>2. CASE Consume(r)
      <4>1. queued[r] - 1 \in 0 .. StreamCapacity
        BY <1>0, <3>2, WorkerAssumption DEF Consume, CallersType
      <4> QED
        BY <1>0, <3>2, <4>1 DEF Consume, CallersType
    <3> QED
      BY <1>2, <3>1, <3>2
  <2>3. TaskType' /\ MeterType' /\ StorageType' /\ LoopType'
    BY <1>0, <2>1 DEF TaskType, MeterType, StorageType, PartialType, LoopType
  <2> QED
    BY <2>2, <2>3, TypePartsNext
<1>3. CASE StartTerminate \/ Release
  <2>1. UNCHANGED <<caller, queued, task, terminate, held, ticket, loop, storage, conn,
                    meter>>
        /\ inbox' \in {inbox, Append(inbox, Terminate)}
        /\ owned' = FALSE /\ terminator' \in {terminator, "joining"}
    BY <1>3 DEF StartTerminate, Release
  <2>2. inbox' \in Seq(Requests \cup {Terminate})
    BY <1>0, <2>1 DEF TaskType
  <2>3. CallersType' /\ TaskType' /\ MeterType' /\ StorageType' /\ LoopType'
    BY <1>0, <2>1, <2>2
       DEF CallersType, TaskType, MeterType, StorageType, PartialType, LoopType
  <2> QED
    BY <2>3, TypePartsNext
<1>4. CASE Join
  <2>1. UNCHANGED <<queued, inbox, owned, terminate, ticket, loop, storage, conn, meter>>
    BY <1>4 DEF Join
  <2>2. \/ terminator' = "timedOut" /\ task' = "aborted" /\ held' = {} /\ Close(held)
        \/ terminator' = "joined" /\ UNCHANGED <<task, held, caller>>
    BY <1>4 DEF Join
  <2>3. caller' \in [Requests -> {"idle", "waiting", "done", "failed", "gone"}]
    BY <1>0, <2>2 DEF CallersType, Close
  <2>4. CallersType' /\ TaskType'
    BY <1>0, <2>1, <2>2, <2>3 DEF CallersType, TaskType
  <2>5. MeterType' /\ StorageType' /\ LoopType'
    BY <1>0, <2>1 DEF MeterType, StorageType, PartialType, LoopType
  <2> QED
    BY <2>4, <2>5, TypePartsNext
<1> QED
  BY <1>1, <1>2, <1>3, <1>4

(* Every step keeps the types.                                             *)
LEMMA TypeStep == TypeOK /\ [Next]_vars => TypeOK'
<1> SUFFICES ASSUME TypeOK, [Next]_vars
             PROVE  TypeOK'
  OBVIOUS
<1>1. CASE UNCHANGED vars
  BY <1>1 DEF TypeOK, vars, callers, loop, storage, meter
<1>2. CASE Execute
  BY <1>2, TakeType, LoopStepType, ServeType DEF Execute
<1>3. ASSUME NEW r \in Requests, NEW k \in Spans(r), Apply(r, k)
      PROVE  TypeOK'
  BY <1>3, ApplyType
<1> QED
  BY <1>1, <1>2, <1>3, CallerStepType DEF Next

(* All starts with nothing held, read or executed.                         *)
LEMMA InitType == Init => TypeOK
<1> SUFFICES ASSUME Init
             PROVE  TypeOK
  OBVIOUS
<1>1. /\ MaxRetries \in Nat /\ MaxGeneration \in Nat /\ StreamCapacity \in Nat
      /\ Size \in [Requests -> Nat]
  BY WorkerAssumption
<1>2. CallersType
  BY <1>1 DEF Init, CallersType
<1>3. inbox \in Seq(Requests \cup {Terminate})
  BY DEF Init
<1>4. TaskType
  BY <1>3 DEF Init, TaskType
<1>5. LoopType
  <2>1. asking \in BOOLEAN
    BY DEF Init
  <2> QED
    BY <1>1, <2>1 DEF Init, LoopType
<1>6. PartialType
  BY DEF Init, PartialType, Nothing
<1>7. StorageType
  BY <1>1, <1>6 DEF Init, StorageType
<1>8. MeterType
  BY DEF Init, MeterType
<1> QED
  BY <1>2, <1>4, <1>5, <1>7, <1>8, TypeParts

(* The types hold whatever callers, meters and the registry do.            *)
THEOREM TypeCorrect == Spec => []TypeOK
  BY InitType, TypeStep, PTL DEF Spec
-----------------------------------------------------------------------------
(* x is in a sequence; what it holds of some set it holds once.            *)
In(x, s) == \E i \in 1 .. Len(s) : s[i] = x
Once(s, some) == \A i, j \in 1 .. Len(s) : s[i] = s[j] /\ s[i] \in some => i = j

(* A request in the channel, and one that was never taken out of it.       *)
InInbox(r) == In(r, inbox)
Fresh(r) == r \notin held /\ ticket[r] = 0 /\ partial[r] = Nothing(r)

(* A caller makes one request, which is in the channel once and fresh.     *)
InboxOK ==
  /\ Once(inbox, Requests)
  /\ \A r \in Requests : InInbox(r) => Fresh(r)
  /\ \A r \in Requests : caller[r] = "idle" => Fresh(r) /\ ~InInbox(r)

(* Requests are taken with growing tickets.                                *)
Taken == {r \in Requests : ticket[r] > 0}
TicketsOK ==
  /\ held \subseteq Taken
  /\ \A r, q \in Taken : ticket[r] = ticket[q] => r = q
  /\ \A r \in Requests : ticket[r] <= Cardinality(Taken)

(* The task is inside of a request only while it has one whose turn it is, *)
(* and it is inside of a stream only at the generation of the pass.        *)
TurnOK ==
  /\ task = "running" /\ span # 0 => phase \in Kinds /\ ~(Vector(phase) \subseteq visited)
  /\ span # 0 /\ phase = "streams" =>
       \A r \in Requests : Turn(r) => generation[r] = pass

(* The pass over the streams is at the lowest generation or just above it. *)
PassOK ==
  phase = "streams" =>
    \A s \in Vector("streams") : generation[s] \in {pass, pass + 1}

(* What a write has read back was executed.                                *)
AppliedOK ==
  \A r \in Requests :
    Kind[r] = "writes" =>
      \A k \in Spans(r) : partial[r][k] # None => k \in applied[r]

StreamsInv ==
  InboxOK /\ TicketsOK /\ TurnOK /\ PassOK /\ GenerationSpread /\ OneGeneration
IInv ==
  TypeOK /\ NobodyForgotten /\ AppliedOK /\ AnsweredIsApplied /\ StreamsInv
-----------------------------------------------------------------------------
(* Sending adds one member.                                                *)
LEMMA AppendMembers ==
  ASSUME NEW S, NEW s \in Seq(S), NEW e \in S
  PROVE  \A x : In(x, Append(s, e)) <=> x = e \/ In(x, s)
<1>1. /\ Len(s) \in Nat /\ Len(Append(s, e)) = Len(s) + 1
      /\ \A i \in 1 .. Len(s) : Append(s, e)[i] = s[i]
      /\ Append(s, e)[Len(s) + 1] = e
  OBVIOUS
<1> QED
  BY <1>1 DEF In

(* Taking the head leaves the other members.                               *)
LEMMA TailMembers ==
  ASSUME NEW S, NEW s \in Seq(S), s # <<>>
  PROVE  \A x : In(x, s) <=> x = Head(s) \/ In(x, Tail(s))
<1>1. /\ Len(s) \in Nat /\ Len(s) > 0 /\ Len(Tail(s)) = Len(s) - 1
      /\ \A i \in 1 .. Len(s) - 1 : Tail(s)[i] = s[i + 1]
      /\ Head(s) = s[1]
  OBVIOUS
<1>2. ASSUME NEW x, In(x, s)
      PROVE  x = Head(s) \/ In(x, Tail(s))
  <2>1. PICK i \in 1 .. Len(s) : s[i] = x
    BY <1>2 DEF In
  <2>2. CASE i = 1
    BY <1>1, <2>1, <2>2
  <2>3. CASE i # 1
    <3>1. i - 1 \in 1 .. Len(Tail(s)) /\ Tail(s)[i - 1] = x
      BY <1>1, <2>1, <2>3
    <3> QED
      BY <3>1 DEF In
  <2> QED
    BY <2>2, <2>3
<1>3. ASSUME NEW x, In(x, Tail(s))
      PROVE  In(x, s)
  BY <1>1, <1>3 DEF In
<1>4. In(Head(s), s)
  BY <1>1 DEF In
<1> QED
  BY <1>2, <1>3, <1>4

(* What is sent once is held once.                                         *)
LEMMA AppendOnce ==
  ASSUME NEW S, NEW s \in Seq(S), NEW e \in S, NEW some, Once(s, some),
         e \notin some \/ ~In(e, s)
  PROVE  Once(Append(s, e), some)
<1>1. /\ Len(s) \in Nat /\ Len(Append(s, e)) = Len(s) + 1
      /\ \A i \in 1 .. Len(s) : Append(s, e)[i] = s[i]
      /\ Append(s, e)[Len(s) + 1] = e
  OBVIOUS
<1> SUFFICES ASSUME NEW i \in 1 .. Len(s) + 1, NEW j \in 1 .. Len(s) + 1,
                    Append(s, e)[i] = Append(s, e)[j], Append(s, e)[i] \in some
             PROVE  i = j
  BY <1>1 DEF Once
<1>2. CASE i \in 1 .. Len(s) /\ j \in 1 .. Len(s)
  BY <1>1, <1>2 DEF Once
<1>3. CASE i = Len(s) + 1 /\ j \in 1 .. Len(s)
  BY <1>1, <1>3 DEF In
<1>4. CASE j = Len(s) + 1 /\ i \in 1 .. Len(s)
  BY <1>1, <1>4 DEF In
<1> QED
  BY <1>1, <1>2, <1>3, <1>4

(* What is held once is gone when it is taken.                             *)
LEMMA TailOnce ==
  ASSUME NEW S, NEW s \in Seq(S), NEW some, Once(s, some), s # <<>>
  PROVE  /\ Once(Tail(s), some)
         /\ Head(s) \in some => ~In(Head(s), Tail(s))
<1>1. /\ Len(s) \in Nat /\ Len(s) > 0 /\ Len(Tail(s)) = Len(s) - 1
      /\ \A i \in 1 .. Len(s) - 1 : Tail(s)[i] = s[i + 1]
      /\ Head(s) = s[1]
  OBVIOUS
<1>2. ASSUME NEW i \in 1 .. Len(Tail(s)), NEW j \in 1 .. Len(Tail(s)),
             Tail(s)[i] = Tail(s)[j], Tail(s)[i] \in some
      PROVE  i = j
  <2>1. i + 1 \in 1 .. Len(s) /\ j + 1 \in 1 .. Len(s) /\ s[i + 1] = s[j + 1]
        /\ s[i + 1] \in some
    BY <1>1, <1>2
  <2> QED
    BY <1>1, <2>1 DEF Once
<1>3. ASSUME Head(s) \in some, NEW i \in 1 .. Len(Tail(s)), Tail(s)[i] = Head(s)
      PROVE  FALSE
  <2>1. i + 1 \in 1 .. Len(s) /\ 1 \in 1 .. Len(s) /\ s[i + 1] = s[1] /\ i + 1 # 1
    BY <1>1, <1>3
  <2> QED
    BY <1>1, <1>3, <2>1 DEF Once
<1> QED
  BY <1>2, <1>3 DEF Once, In

-----------------------------------------------------------------------------
(* What serving a request leaves alone, and whom it answers.               *)
LEMMA ServeEffect ==
  ASSUME TypeOK, NEW r \in Requests, Serve(r)
  PROVE  /\ Turn(r)
         /\ UNCHANGED <<inbox, held, ticket, task, terminate, phase, pass, owned,
                        terminator>>
         /\ \A q \in Requests : caller'[q] \in {"waiting", "idle"} => caller'[q] = caller[q]
         /\ \A q \in Requests \ {r} :
              partial'[q] = partial[q] /\ generation'[q] = generation[q]
<1> USE DEF callers, loop, storage, meter
<1>0. /\ caller \in [Requests -> {"idle", "waiting", "done", "failed", "gone"}]
      /\ DOMAIN partial = Requests
      /\ DOMAIN generation = Requests
  BY DEF TypeOK
<1>1. CASE DropCancelled(r) \/ SkipStream(r)
  BY <1>1 DEF DropCancelled, SkipStream
<1>2. CASE GiveUp(r)
  BY <1>0, <1>2 DEF GiveUp, NextReading
<1>3. CASE Connect(r)
  BY <1>0, <1>3 DEF Connect, Close, Due
<1>4. CASE Resume(r) \/ Keep(r) \/ Reconnect(r)
  BY <1>4 DEF Resume, Keep, Reconnect, Due, AtSpan
<1>5. CASE Post(r) \/ Respond(r) \/ TimeOut(r) \/ Fail(r)
  <2>1. \A q \in Requests \ {r} : partial'[q] = partial[q]
    BY <1>0, <1>5 DEF Post, Respond, TimeOut, Fail
  <2> QED
    BY <1>5, <2>1 DEF Post, Respond, TimeOut, Fail, Awaiting, Answered, AtSpan
<1>6. CASE Incomplete(r)
  BY <1>6 DEF Incomplete, AtEnd
<1>7. CASE Answer(r)
  BY <1>0, <1>7 DEF Answer, AtEnd
<1>8. CASE Deliver(r)
  BY <1>0, <1>8 DEF Deliver, AtEnd, NextReading
<1> QED
  BY <1>1, <1>2, <1>3, <1>4, <1>5, <1>6, <1>7, <1>8 DEF Serve

(* A meter that executes a record changes nothing at the worker.           *)
LEMMA ApplyEffect ==
  ASSUME TypeOK, NEW r \in Requests, NEW k \in Spans(r), Apply(r, k)
  PROVE  /\ UNCHANGED <<callers, inbox, task, terminate, held, ticket, loop, storage, conn,
                        sent>>
         /\ \A q \in Requests : /\ applied[q] \subseteq applied'[q]
                               /\ applied'[q] \subseteq Spans(q)
<1>1. /\ DOMAIN applied = Requests
      /\ \A q \in Requests : applied[q] \subseteq Spans(q)
  BY DEF TypeOK
<1>2. applied' = [applied EXCEPT ![r] = @ \cup {k}]
  BY DEF Apply
<1> QED
  BY <1>1, <1>2 DEF Apply

(* Return, the end of process_* and an aborted task drop requests and tell *)
(* their callers; nothing is taken meanwhile.                              *)
LEMMA DropEffect ==
  ASSUME TypeOK, Return \/ EndPhase \/ Join
  PROVE  /\ UNCHANGED <<inbox, ticket, partial, generation, meter, terminate, span>>
         /\ held' \subseteq held
         /\ \A r \in Requests :
              /\ caller'[r] \in {"waiting", "idle", "done"} => caller'[r] = caller[r]
              /\ caller'[r] = "waiting" /\ r \in held => r \in held'
<1> USE DEF callers, loop, storage, meter
<1>0. caller \in [Requests -> {"idle", "waiting", "done", "failed", "gone"}]
  BY DEF TypeOK
<1>1. CASE Return
  BY <1>0, <1>1 DEF Return, Close
<1>2. CASE EndPhase
  <2>1. held' = held \ leaving /\ Close(leaving)
        /\ UNCHANGED <<inbox, ticket, partial, generation, meter, terminate, span>>
    BY <1>2 DEF EndPhase
  <2> QED
    BY <1>0, <2>1 DEF Close
<1>3. CASE Join
  <2>1. UNCHANGED <<inbox, ticket, partial, generation, meter, terminate, span>>
    BY <1>3 DEF Join
  <2>2. \/ held' = {} /\ Close(held)
        \/ UNCHANGED <<held, caller>>
    BY <1>3 DEF Join
  <2> QED
    BY <1>0, <2>1, <2>2 DEF Close
<1> QED
  BY <1>1, <1>2, <1>3
-----------------------------------------------------------------------------
(* A waiting caller's request is dropped only together with its sender.    *)
LEMMA ForgottenStep == ASSUME TypeOK, NobodyForgotten, [Next]_vars PROVE NobodyForgotten'
<1> USE DEF callers, loop, storage, meter
<1> DEFINE Known(r) == caller[r] = "waiting" => r \in held \/ InInbox(r)
<1>0. /\ inbox \in Seq(Requests \cup {Terminate})
      /\ caller \in [Requests -> {"idle", "waiting", "done", "failed", "gone"}]
      /\ \A r \in Requests : Known(r)
  BY DEF TypeOK, NobodyForgotten, InInbox, In
<1> SUFFICES ASSUME NEW r \in Requests
             PROVE  caller'[r] = "waiting" => r \in held' \/ In(r, inbox')
  BY DEF NobodyForgotten, In
<1>1. CASE /\ UNCHANGED <<inbox, held>>
           /\ caller'[r] = "waiting" => caller[r] = "waiting"
  BY <1>0, <1>1 DEF InInbox
<1>2. CASE Execute
  <2>1. CASE Take
    <3>1. /\ inbox # <<>> /\ inbox' = Tail(inbox)
          /\ Head(inbox) = r \/ ~InInbox(r) \/ In(r, inbox')
      BY <1>0, <2>1, TailMembers DEF Take, InInbox
    <3>2. CASE TakeTerminate
      <4>1. caller'[r] = "waiting" => caller[r] = "waiting" /\ r \notin Vector("streams")
        BY <1>0, <3>2 DEF TakeTerminate, Close
      <4>2. r # Head(inbox) /\ held' = held \ Vector("streams")
        BY <3>2, WorkerAssumption DEF TakeTerminate, Terminate
      <4> QED
        BY <1>0, <3>1, <4>1, <4>2
    <3>3. CASE TakeLate
      <4>1. caller'[r] = "waiting" => caller[r] = "waiting" /\ r # Head(inbox)
        BY <1>0, <3>3 DEF TakeLate, Close
      <4> QED
        BY <1>0, <3>1, <3>3, <4>1 DEF TakeLate
    <3>4. CASE TakeRequest
      BY <1>0, <3>1, <3>4 DEF TakeRequest
    <3> QED
      BY <2>1, <3>2, <3>3, <3>4 DEF Take
  <2>2. CASE Return \/ EndPhase
    BY <1>0, <2>2, DropEffect DEF InInbox
  <2>3. CASE BeginPass
    BY <1>1, <2>3 DEF BeginPass
  <2>4. CASE \E q \in Requests : Serve(q)
    BY <1>1, <2>4, ServeEffect
  <2> QED
    BY <1>2, <2>1, <2>2, <2>3, <2>4 DEF Execute
<1>3. CASE Join
  BY <1>0, <1>3, DropEffect DEF InInbox
<1>4. ASSUME NEW q \in Requests, Send(q)
      PROVE  caller'[r] = "waiting" => r \in held' \/ In(r, inbox')
  <2>1. CASE task = "running"
    <3>1. inbox' = Append(inbox, q) /\ caller' = [caller EXCEPT ![q] = "waiting"]
          /\ held' = held
      BY <1>4, <2>1 DEF Send
    <3>2. In(r, inbox') <=> r = q \/ InInbox(r)
      BY <1>0, <3>1, AppendMembers DEF InInbox
    <3> QED
      BY <1>0, <3>1, <3>2
  <2>2. CASE task # "running"
    BY <1>0, <1>1, <1>4, <2>2 DEF Send
  <2> QED
    BY <2>1, <2>2
<1>5. CASE \E q \in Requests : Cancel(q) \/ Consume(q)
  BY <1>0, <1>1, <1>5 DEF Cancel, Consume
<1>6. CASE StartTerminate
  <2>1. inbox' \in {inbox, Append(inbox, Terminate)} /\ UNCHANGED <<caller, held>>
    BY <1>6 DEF StartTerminate
  <2>2. InInbox(r) => In(r, inbox')
    <3>1. Terminate \in Requests \cup {Terminate}
      OBVIOUS
    <3>2. In(r, Append(inbox, Terminate)) <=> r = Terminate \/ In(r, inbox)
      BY <1>0, <3>1, AppendMembers
    <3> QED
      BY <2>1, <3>2 DEF InInbox
  <2> QED
    BY <1>0, <2>1, <2>2
<1>7. CASE Release \/ UNCHANGED vars
  BY <1>1, <1>7 DEF Release, vars
<1>8. CASE \E q \in Requests : \E k \in Spans(q) : Apply(q, k)
  BY <1>1, <1>8, ApplyEffect
<1> QED
  BY <1>2, <1>3, <1>4, <1>5, <1>6, <1>7, <1>8 DEF Next

(* A span of a write is read back only after its execution, and a write is *)
(* answered only when all its spans are read back.                         *)
LEMMA AppliedStep ==
  ASSUME TypeOK, AppliedOK, AnsweredIsApplied, [Next]_vars
  PROVE  AppliedOK' /\ AnsweredIsApplied'
<1> USE DEF callers, loop, storage, meter
<1>0. /\ caller \in [Requests -> {"idle", "waiting", "done", "failed", "gone"}]
      /\ PartialType /\ MeterType
  BY DEF TypeOK, PartialType, MeterType
<1>1. CASE /\ UNCHANGED <<partial, applied>>
           /\ \A r \in Requests : caller'[r] = "done" => caller[r] = "done"
  BY <1>1 DEF AppliedOK, AnsweredIsApplied
<1>2. ASSUME NEW r \in Requests, NextReading(r), phase = "streams", r \in Vector(phase),
             UNCHANGED <<caller, applied>>
      PROVE  AppliedOK' /\ AnsweredIsApplied'
  <2>1. Kind[r] # "writes"
    BY <1>2 DEF Vector
  <2>2. \A q \in Requests \ {r} : partial'[q] = partial[q]
    BY <1>0, <1>2 DEF NextReading, PartialType
  <2> QED
    BY <1>2, <2>1, <2>2 DEF AppliedOK, AnsweredIsApplied
<1>3. ASSUME NEW r \in Requests, Serve(r)
      PROVE  AppliedOK' /\ AnsweredIsApplied'
  <2>1. CASE DropCancelled(r) \/ SkipStream(r) \/ Resume(r) \/ Keep(r) \/ Reconnect(r)
             \/ Incomplete(r)
    BY <1>1, <2>1 DEF DropCancelled, SkipStream, Resume, Keep, Reconnect, Incomplete
  <2>2. CASE GiveUp(r)
    BY <1>2, <2>2 DEF GiveUp, Turn
  <2>3. CASE Connect(r)
    BY <1>0, <1>1, <2>3 DEF Connect, Close
  <2>4. CASE Post(r) \/ TimeOut(r) \/ Fail(r)
    BY <1>1, <2>4 DEF Post, TimeOut, Fail, Answered
  <2>5. CASE Respond(r)
    <3>1. /\ span \in Spans(r)
          /\ UNCHANGED <<caller, applied>>
          /\ Kind[r] = "writes" => span \in applied[r]
          /\ partial' = [partial EXCEPT ![r][span] = generation[r]]
      BY <2>5 DEF Respond, Awaiting, Answered, AtSpan
    <3>2. \A q \in Requests \ {r} : partial'[q] = partial[q]
      BY <1>0, <3>1 DEF PartialType
    <3>3. \A k \in Spans(r) : k # span => partial'[r][k] = partial[r][k]
      BY <1>0, <3>1 DEF PartialType
    <3> QED
      BY <3>1, <3>2, <3>3 DEF AppliedOK, AnsweredIsApplied
  <2>6. CASE Answer(r)
    <3>1. /\ Complete(r)
          /\ UNCHANGED <<partial, applied>>
          /\ \A q \in Requests \ {r} : caller'[q] = caller[q]
      BY <1>0, <2>6 DEF Answer
    <3>2. Kind[r] = "writes" => applied[r] = Spans(r)
      BY <1>0, <3>1 DEF Complete, AppliedOK, MeterType
    <3> QED
      BY <3>1, <3>2 DEF AppliedOK, AnsweredIsApplied
  <2>7. CASE Deliver(r)
    <3>1. phase = "streams" /\ r \in Vector(phase) /\ UNCHANGED <<caller, applied>>
          /\ (NextReading(r) \/ UNCHANGED partial)
      BY <2>7 DEF Deliver, AtEnd, Turn
    <3> QED
      BY <1>1, <1>2, <3>1
  <2> QED
    BY <1>3, <2>1, <2>2, <2>3, <2>4, <2>5, <2>6, <2>7 DEF Serve
<1>4. CASE Return \/ EndPhase \/ Join
  BY <1>1, <1>4, DropEffect
<1>5. CASE Take
  <2>1. \A r \in Requests : caller'[r] = "done" => caller[r] = "done"
    BY <1>0, <1>5 DEF Take, TakeTerminate, TakeLate, TakeRequest, Close
  <2> QED
    BY <1>1, <1>5, <2>1 DEF Take
<1>6. CASE BeginPass \/ StartTerminate \/ Release \/ UNCHANGED vars
  BY <1>1, <1>6 DEF BeginPass, StartTerminate, Release, vars
<1>7. CASE \E r \in Requests : Send(r) \/ Cancel(r) \/ Consume(r)
  <2>1. \A r \in Requests : caller'[r] = "done" => caller[r] = "done"
    BY <1>0, <1>7 DEF Send, Cancel, Consume
  <2> QED
    BY <1>1, <1>7, <2>1 DEF Send, Cancel, Consume
<1>8. ASSUME NEW r \in Requests, NEW k \in Spans(r), Apply(r, k)
      PROVE  AppliedOK' /\ AnsweredIsApplied'
  <2>1. /\ UNCHANGED <<caller, partial>>
        /\ \A q \in Requests : /\ applied[q] \subseteq applied'[q]
                              /\ applied'[q] \subseteq Spans(q)
    BY <1>8, ApplyEffect
  <2> QED
    BY <2>1 DEF AppliedOK, AnsweredIsApplied, Spans
<1> QED
  BY <1>3, <1>4, <1>5, <1>6, <1>7, <1>8 DEF Next, Execute
-----------------------------------------------------------------------------
(* A request that is taken was in the channel, and is in it no more.       *)
LEMMA HeadTaken ==
  ASSUME TypeOK, InboxOK, inbox # <<>>
  PROVE  /\ Once(Tail(inbox), Requests)
         /\ \A r \in Requests : In(r, Tail(inbox)) => InInbox(r) /\ r # Head(inbox)
         /\ Head(inbox) \in Requests => Fresh(Head(inbox))
<1>1. inbox \in Seq(Requests \cup {Terminate})
  BY DEF TypeOK
<1>2. /\ Once(Tail(inbox), Requests)
      /\ Head(inbox) \in Requests => ~In(Head(inbox), Tail(inbox))
  BY <1>1, TailOnce DEF InboxOK
<1>3. \A x : In(x, inbox) <=> x = Head(inbox) \/ In(x, Tail(inbox))
  BY <1>1, TailMembers
<1> QED
  BY <1>2, <1>3 DEF InboxOK, InInbox

(* Steps that leave the channel alone and take up no request.              *)
LEMMA InboxKept ==
  ASSUME InboxOK, UNCHANGED <<inbox, ticket>>, held' \subseteq held,
         \A r \in Requests : caller'[r] = "idle" => caller[r] = "idle",
         \A r \in Requests : r \in held \/ partial'[r] = partial[r]
  PROVE  InboxOK'
<1>1. \A r \in Requests : InInbox(r)' <=> InInbox(r)
  BY DEF InInbox
<1>2. \A r \in Requests : Fresh(r) => Fresh(r)'
  BY DEF Fresh, Nothing, Spans
<1> QED
  BY <1>1, <1>2 DEF InboxOK

(* Requests are sent once and stay fresh until they are taken.             *)
LEMMA InboxStep == ASSUME TypeOK, InboxOK, [Next]_vars PROVE InboxOK'
<1> USE DEF callers, loop, storage, meter
<1>0. /\ inbox \in Seq(Requests \cup {Terminate})
      /\ caller \in [Requests -> {"idle", "waiting", "done", "failed", "gone"}]
      /\ ticket \in [Requests -> Nat]
  BY DEF TypeOK
<1>1. CASE Take
  <2>1. inbox # <<>> /\ inbox' = Tail(inbox) /\ partial' = partial
    BY <1>1 DEF Take
  <2>2. \A r \in Requests : caller'[r] = "idle" => caller[r] = "idle"
    BY <1>0, <1>1 DEF Take, TakeTerminate, TakeLate, TakeRequest, Close
  <2>3. ASSUME NEW r \in Requests, r # Head(inbox), Fresh(r)
        PROVE  Fresh(r)'
    <3>1. r \notin held'
      BY <1>1, <2>3 DEF Take, TakeTerminate, TakeLate, TakeRequest, Fresh
    <3>2. ticket'[r] = ticket[r]
      BY <1>0, <1>1, <2>3 DEF Take, TakeTerminate, TakeLate, TakeRequest
    <3> QED
      BY <2>1, <2>3, <3>1, <3>2 DEF Fresh, Nothing, Spans
  <2>4. InInbox(Head(inbox))
    BY <1>0, <2>1, TailMembers DEF InInbox
  <2>5. \A r \in Requests : InInbox(r)' => InInbox(r) /\ r # Head(inbox)
    BY <2>1, HeadTaken DEF InInbox
  <2>6. Once(inbox', Requests)
    BY <2>1, HeadTaken
  <2>7. \A r \in Requests : InInbox(r)' => Fresh(r)'
    BY <2>3, <2>5 DEF InboxOK
  <2>8. \A r \in Requests : caller'[r] = "idle" => Fresh(r)' /\ ~InInbox(r)'
    BY <2>2, <2>3, <2>4, <2>5 DEF InboxOK
  <2> QED
    BY <2>6, <2>7, <2>8 DEF InboxOK
<1>2. ASSUME NEW r \in Requests, Send(r)
      PROVE  InboxOK'
  <2>1. /\ caller[r] = "idle"
        /\ UNCHANGED <<held, ticket, partial>>
        /\ caller'[r] # "idle"
        /\ \A q \in Requests \ {r} : caller'[q] = caller[q]
    BY <1>0, <1>2 DEF Send
  <2>2. CASE inbox' = inbox
    BY <2>1, <2>2, InboxKept
  <2>3. CASE inbox' = Append(inbox, r)
    <3>1. \A x : In(x, inbox') <=> x = r \/ In(x, inbox)
      BY <1>0, <2>3, AppendMembers
    <3>2. Once(inbox', Requests)
      BY <1>0, <2>1, <2>3, AppendOnce DEF InboxOK, InInbox
    <3>3. \A q \in Requests : Fresh(q)' <=> Fresh(q)
      BY <2>1 DEF Fresh, Nothing, Spans
    <3>4. \A q \in Requests : InInbox(q)' <=> q = r \/ InInbox(q)
      BY <3>1 DEF InInbox
    <3> QED
      BY <2>1, <3>2, <3>3, <3>4 DEF InboxOK
  <2> QED
    BY <1>2, <2>2, <2>3 DEF Send
<1>3. CASE StartTerminate
  <2>1. UNCHANGED <<caller, held, ticket, partial>>
    BY <1>3 DEF StartTerminate
  <2>2. CASE inbox' = inbox
    BY <2>1, <2>2, InboxKept
  <2>3. CASE inbox' = Append(inbox, Terminate)
    <3>0. Terminate \in Requests \cup {Terminate} /\ Terminate \notin Requests
      BY WorkerAssumption DEF Terminate
    <3>1. \A x : In(x, inbox') <=> x = Terminate \/ In(x, inbox)
      BY <1>0, <2>3, <3>0, AppendMembers
    <3>2. Once(inbox, Requests)
      BY DEF InboxOK
    <3>3. Once(inbox', Requests)
      BY <1>0, <2>3, <3>0, <3>2, AppendOnce
    <3>4. \A q \in Requests : Fresh(q)' <=> Fresh(q)
      BY <2>1 DEF Fresh, Nothing, Spans
    <3>5. \A q \in Requests : InInbox(q)' <=> InInbox(q)
      BY <3>0, <3>1 DEF InInbox
    <3> QED
      BY <2>1, <3>3, <3>4, <3>5 DEF InboxOK
  <2> QED
    BY <1>3, <2>2, <2>3 DEF StartTerminate
<1>4. ASSUME NEW r \in Requests, Serve(r)
      PROVE  InboxOK'
  <2>1. r \in held
    BY <1>4, ServeEffect DEF Turn, Vector
  <2>2. /\ UNCHANGED <<inbox, held, ticket>>
        /\ \A q \in Requests : caller'[q] = "idle" => caller[q] = "idle"
        /\ \A q \in Requests \ {r} : partial'[q] = partial[q]
    BY <1>4, ServeEffect
  <2> QED
    BY <2>1, <2>2, InboxKept
<1>5. CASE Return \/ EndPhase \/ Join
  BY <1>5, DropEffect, InboxKept
<1>6. CASE BeginPass \/ Release \/ UNCHANGED vars
  BY <1>6, InboxKept DEF BeginPass, Release, vars
<1>7. CASE \E r \in Requests : Cancel(r) \/ Consume(r)
  <2>1. UNCHANGED <<inbox, ticket, held, partial>>
        /\ \A r \in Requests : caller'[r] = "idle" => caller[r] = "idle"
    BY <1>0, <1>7 DEF Cancel, Consume
  <2> QED
    BY <2>1, InboxKept
<1>8. CASE \E r \in Requests : \E k \in Spans(r) : Apply(r, k)
  BY <1>8, ApplyEffect, InboxKept
<1> QED
  BY <1>1, <1>2, <1>3, <1>4, <1>5, <1>6, <1>7, <1>8 DEF Next, Execute

-----------------------------------------------------------------------------
(* Only a request that is taken gets a ticket, and only it is held anew.   *)
LEMMA TicketsKept ==
  ASSUME TicketsOK, UNCHANGED ticket, held' \subseteq held
  PROVE  TicketsOK'
BY DEF TicketsOK, Taken

(* What is taken was not taken before, so its ticket is a new one.         *)
LEMMA TicketsStep ==
  ASSUME TypeOK, InboxOK, TicketsOK, [Next]_vars PROVE TicketsOK'
<1> USE DEF callers, loop, storage, meter
<1>1. CASE UNCHANGED ticket /\ held' \subseteq held
  BY <1>1, TicketsKept
<1>2. CASE Take /\ TakeRequest
  <2> DEFINE h == Head(inbox)
             n == Cardinality(Taken)
  <2>1. /\ inbox \in Seq(Requests \cup {Terminate})
        /\ ticket \in [Requests -> Nat]
    BY DEF TypeOK
  <2>2. inbox # <<>> /\ h # Terminate /\ held' = held \cup {h}
        /\ ticket' = [ticket EXCEPT ![h] = 1 + n]
    BY <1>2 DEF Take, TakeRequest, Taken
  <2>3. h \in Requests
    BY <2>1, <2>2
  <2>4. h \notin Taken
    BY <2>1, <2>2, <2>3, HeadTaken DEF Fresh, Taken
  <2>5. IsFiniteSet(Taken) /\ n \in Nat
    <3>1. IsFiniteSet(Requests) /\ Taken \subseteq Requests
      BY WorkerAssumption DEF Taken
    <3> QED
      BY <3>1, FS_Subset, FS_CardinalityType
  <2>6. /\ \A r \in Requests \ {h} : ticket'[r] = ticket[r]
        /\ ticket'[h] = n + 1
    <3> HIDE DEF h, n
    <3>1. ticket'[h] = 1 + n
      BY <2>1, <2>2, <2>3
    <3> QED
      BY <2>1, <2>2, <2>3, <2>5, <3>1
  <2>7. Taken' = Taken \cup {h}
    BY <2>1, <2>3, <2>5, <2>6 DEF Taken
  <2>8. Cardinality(Taken') = n + 1
    BY <2>4, <2>5, <2>7, FS_AddElement
  <2>9. \A r \in Requests : ticket[r] <= n /\ ticket[r] \in Nat
    BY <2>1 DEF TicketsOK
  <2>10. held' \subseteq Taken'
    BY <2>2, <2>7 DEF TicketsOK
  <2>11. ASSUME NEW r \in Taken', NEW q \in Taken', ticket'[r] = ticket'[q]
         PROVE  r = q
    <3>1. r \in Requests /\ q \in Requests
      BY <2>11 DEF Taken
    <3> HIDE DEF h, n
    <3>2. CASE r = h \/ q = h
      BY <2>5, <2>6, <2>9, <2>11, <3>1, <3>2
    <3>3. CASE r # h /\ q # h
      BY <2>6, <2>7, <2>11, <3>1, <3>3 DEF TicketsOK
    <3> QED
      BY <3>2, <3>3
  <2>12. \A r \in Requests : ticket'[r] <= Cardinality(Taken')
    <3> HIDE DEF h, n
    <3> QED
      BY <2>5, <2>6, <2>8, <2>9
  <2>13. \A r, q \in Taken' : ticket'[r] = ticket'[q] => r = q
    BY <2>11
  <2> QED
    BY <2>10, <2>12, <2>13 DEF TicketsOK
<1>3. CASE Take
  BY <1>1, <1>2, <1>3 DEF Take, TakeTerminate, TakeLate
<1>4. CASE Return \/ EndPhase \/ Join
  BY <1>1, <1>4, DropEffect
<1>5. CASE \E r \in Requests : Serve(r)
  BY <1>1, <1>5, ServeEffect
<1>6. CASE BeginPass \/ StartTerminate \/ Release \/ UNCHANGED vars
  BY <1>1, <1>6 DEF BeginPass, StartTerminate, Release, vars
<1>7. CASE \E r \in Requests : Send(r) \/ Cancel(r) \/ Consume(r)
  BY <1>1, <1>7 DEF Send, Cancel, Consume
<1>8. CASE \E r \in Requests : \E k \in Spans(r) : Apply(r, k)
  BY <1>1, <1>8, ApplyEffect
<1> QED
  BY <1>3, <1>4, <1>5, <1>6, <1>7, <1>8 DEF Next, Execute

(* It is the turn of one request at most.                                  *)
LEMMA OneTurn ==
  ASSUME TypeOK, TicketsOK, NEW r \in Requests, NEW q \in Requests, Turn(r), Turn(q)
  PROVE  r = q
<1>1. r \in Taken /\ q \in Taken
  BY DEF Turn, Vector, TicketsOK
<1>2. ticket[r] <= ticket[q] /\ ticket[q] <= ticket[r]
  BY DEF Turn
<1>3. ticket[r] \in Nat /\ ticket[q] \in Nat
  BY DEF TypeOK
<1> QED
  BY <1>1, <1>2, <1>3 DEF TicketsOK

(* Steps that end no request and leave the order of those held alone.      *)
LEMMA TurnKept ==
  ASSUME TurnOK, UNCHANGED <<phase, visited, span, pass, held, ticket, generation>>,
         task' = "running" => task = "running"
  PROVE  TurnOK'
BY DEF TurnOK, Turn, Vector

(* The task enters a stream at the generation of the pass and leaves it     *)
(* only by being done with it.                                             *)
LEMMA TurnStep ==
  ASSUME TypeOK, TicketsOK, TurnOK, [Next]_vars PROVE TurnOK'
<1> USE DEF callers, loop, storage, meter
<1>1. CASE Take
  <2>1. phase = "receive" /\ task = "running" /\ UNCHANGED <<phase, span>>
    BY <1>1 DEF Take
  <2>2. phase \notin Kinds /\ phase # "streams"
    BY <2>1 DEF Kinds
  <2> QED
    BY <2>1, <2>2 DEF TurnOK
<1>2. CASE Return \/ Join
  <2>1. CASE task' # "running"
    BY <2>1 DEF TurnOK, Turn
  <2>2. CASE task' = "running"
    <3>1. FALSE
      BY <1>2, <2>2 DEF Return, Join
    <3> QED
      BY <3>1
  <2> QED
    BY <2>1, <2>2
<1>3. CASE BeginPass
  <2>1. phase = "receive" /\ task = "running" /\ UNCHANGED span
    BY <1>3 DEF BeginPass
  <2>2. span = 0
    BY <2>1 DEF TurnOK, Kinds
  <2> QED
    BY <2>1, <2>2 DEF TurnOK
<1>4. CASE EndPhase
  <2>1. span' = 0
    BY <1>4 DEF EndPhase, TurnOK
  <2> QED
    BY <2>1 DEF TurnOK
<1>5. ASSUME NEW r \in Requests, Serve(r)
      PROVE  TurnOK'
  <2>1. /\ Turn(r) /\ UNCHANGED <<held, ticket, task, phase, pass>>
    BY <1>5, ServeEffect
  <2>2. \/ span' = 0
        \/ /\ UNCHANGED <<visited, generation>>
           /\ phase = "streams" => generation[r] = pass
    <3>1. CASE Due(r) /\ UNCHANGED <<visited, generation>>
      BY <3>1 DEF Due
    <3>2. CASE AtSpan(r) /\ UNCHANGED <<visited, generation>>
      <4>1. span # 0
        BY <3>2, WorkerAssumption DEF AtSpan, Spans
      <4> QED
        BY <2>1, <3>2, <4>1 DEF TurnOK
    <3>3. CASE Done(r)
      BY <3>3 DEF Done
    <3> QED
      BY <1>5, <3>1, <3>2, <3>3 DEF Serve, DropCancelled, SkipStream, GiveUp, Connect, Resume,
         Keep, Reconnect, Post, Respond, TimeOut, Fail, Awaiting, Answered, Incomplete,
         Answer, Deliver
  <2>3. CASE span' = 0
    BY <2>3 DEF TurnOK
  <2>4. CASE /\ UNCHANGED <<visited, generation>>
             /\ phase = "streams" => generation[r] = pass
    <3>1. phase \in Kinds /\ ~(Vector(phase) \subseteq visited)
      BY <2>1 DEF Turn
    <3>2. \A q \in Requests : Turn(q)' <=> Turn(q)
      BY <2>1, <2>4 DEF Turn, Vector
    <3>3. \A q \in Requests : Turn(q)' => q = r
      BY <2>1, <3>2, OneTurn
    <3>4. ~(Vector(phase) \subseteq visited)'
      BY <2>1, <2>4, <3>1 DEF Vector
    <3> QED
      BY <2>1, <2>4, <3>1, <3>3, <3>4 DEF TurnOK
  <2> QED
    BY <2>2, <2>3, <2>4
<1>6. CASE StartTerminate \/ Release \/ UNCHANGED vars
  BY <1>6, TurnKept DEF StartTerminate, Release, vars
<1>7. CASE \E r \in Requests : Send(r) \/ Cancel(r) \/ Consume(r)
  BY <1>7, TurnKept DEF Send, Cancel, Consume
<1>8. CASE \E r \in Requests : \E k \in Spans(r) : Apply(r, k)
  BY <1>8, ApplyEffect, TurnKept
<1> QED
  BY <1>1, <1>2, <1>3, <1>4, <1>5, <1>6, <1>7, <1>8 DEF Next, Execute

-----------------------------------------------------------------------------
(* Steps that neither add a stream nor touch what one has read.            *)
LEMMA StreamsKept ==
  ASSUME PassOK, GenerationSpread, OneGeneration,
         UNCHANGED <<phase, pass, partial, generation>>, held' \subseteq held
  PROVE  PassOK' /\ GenerationSpread' /\ OneGeneration'
<1>1. Vector("streams")' \subseteq Vector("streams")
  BY DEF Vector
<1>2. PassOK'
  BY <1>1 DEF PassOK
<1>3. GenerationSpread'
  BY <1>1 DEF GenerationSpread
<1>4. OneGeneration'
  BY <1>1 DEF OneGeneration, Spans
<1> QED
  BY <1>2, <1>3, <1>4

(* Within a pass a spread of one generation is what PassOK says.           *)
LEMMA PassSpread == TypeOK /\ PassOK /\ phase = "streams" => GenerationSpread
<1> SUFFICES ASSUME TypeOK, PassOK, phase = "streams"
             PROVE  GenerationSpread
  OBVIOUS
<1>1. pass \in Nat /\ \A s \in Vector("streams") : generation[s] \in {pass, pass + 1}
  BY DEF TypeOK, PassOK
<1> QED
  BY <1>1 DEF GenerationSpread

(* A stream that starts over moves from the generation of the pass.        *)
LEMMA NextReadingStep ==
  ASSUME TypeOK, TypeOK', PassOK, OneGeneration, NEW r \in Requests, NextReading(r),
         phase = "streams", generation[r] = pass, UNCHANGED <<phase, pass, held>>
  PROVE  PassOK' /\ GenerationSpread' /\ OneGeneration'
<1>1. /\ generation'[r] = Saturate(generation[r], MaxGeneration)
      /\ partial'[r] = Nothing(r)
      /\ \A q \in Requests \ {r} :
           partial'[q] = partial[q] /\ generation'[q] = generation[q]
  BY DEF NextReading, TypeOK
<1>2. generation'[r] \in {pass, pass + 1}
  <2>1. MaxGeneration \in Nat /\ generation[r] \in 0 .. MaxGeneration
    BY WorkerAssumption DEF TypeOK
  <2> QED
    BY <1>1, <2>1, SaturateType
<1>3. Vector("streams")' = Vector("streams") /\ Vector("streams") \subseteq Requests
  BY DEF Vector, TypeOK
<1>4. PassOK'
  BY <1>1, <1>2, <1>3 DEF PassOK
<1>5. OneGeneration'
  <2>1. ASSUME NEW s \in Vector("streams"), NEW k \in Spans(s)
        PROVE  partial'[s][k] \in {None, generation'[s]}
    <3>1. CASE s = r
      BY <1>1, <2>1, <3>1 DEF Nothing
    <3>2. CASE s # r
      BY <1>1, <1>3, <2>1, <3>2 DEF OneGeneration
    <3> QED
      BY <3>1, <3>2
  <2>2. \A s : Spans(s)' = Spans(s)
    BY DEF Spans
  <2> QED
    BY <1>3, <2>1, <2>2 DEF OneGeneration
<1>6. GenerationSpread'
  <2>1. (phase = "streams")'
    OBVIOUS
  <2> QED
    BY <1>4, <2>1, PassSpread, PTL
<1> QED
  BY <1>4, <1>5, <1>6

(* A new stream joins at the highest generation and has read nothing.      *)
LEMMA JoinStep ==
  ASSUME TypeOK, InboxOK, GenerationSpread, OneGeneration, Take, TakeRequest
  PROVE  GenerationSpread' /\ OneGeneration'
<1> DEFINE h == Head(inbox)
<1>0. /\ generation \in [Requests -> 0 .. MaxGeneration]
      /\ inbox \in Seq(Requests \cup {Terminate})
      /\ MaxGeneration \in Nat
  BY WorkerAssumption DEF TypeOK
<1>1. /\ inbox # <<>> /\ h # Terminate /\ held' = held \cup {h} /\ partial' = partial
      /\ \E g \in Newest : generation' = [generation EXCEPT ![h] = g]
  BY DEF Take, TakeRequest
<1>2. h \in Requests /\ h \notin held /\ partial[h] = Nothing(h)
  <2>1. h \in Requests
    BY <1>0, <1>1
  <2> QED
    BY <1>1, <2>1, HeadTaken DEF Fresh
<1>3. PICK g \in Newest : generation' = [generation EXCEPT ![h] = g]
  BY <1>1
<1> HIDE DEF h
<1>4. /\ generation'[h] = g
      /\ \A s \in Requests \ {h} : generation'[s] = generation[s]
  BY <1>0, <1>2, <1>3
<1>5. /\ Vector("streams") \subseteq Requests \ {h}
      /\ Vector("streams")' \subseteq Vector("streams") \cup {h}
  BY <1>1, <1>2 DEF Vector, TypeOK
<1>6. \A s \in Vector("streams") : generation[s] <= g /\ g <= generation[s] + 1
  <2>1. CASE Generations = {}
    BY <2>1 DEF Generations
  <2>2. CASE Generations # {}
    <3>1. g \in Generations /\ \A other \in Generations : other <= g
      BY <2>2 DEF Newest
    <3>2. PICK t \in Vector("streams") : g = generation[t]
      BY <3>1 DEF Generations
    <3> QED
      BY <3>1, <3>2 DEF Generations, GenerationSpread
  <2> QED
    BY <2>1, <2>2
<1>7. g \in Nat /\ \A s \in Vector("streams") : generation[s] \in Nat
  <2>1. Generations \subseteq Nat
    BY <1>0, <1>5 DEF Generations
  <2>2. g \in Nat
    BY <2>1 DEF Newest
  <2> QED
    BY <1>0, <1>5, <2>2
<1>8. ASSUME NEW s \in Vector("streams")', NEW t \in Vector("streams")'
      PROVE  generation'[s] <= generation'[t] + 1
  <2>1. CASE s # h /\ t # h
    BY <1>4, <1>5, <1>8, <2>1 DEF GenerationSpread
  <2>2. CASE s = h /\ t # h
    BY <1>4, <1>5, <1>6, <1>8, <2>2
  <2>3. CASE s # h /\ t = h
    <3>1. generation'[s] = generation[s] /\ generation[s] <= g
      BY <1>4, <1>5, <1>6, <1>8, <2>3
    <3>2. generation[s] \in Nat
      BY <1>5, <1>7, <1>8, <2>3
    <3> QED
      BY <1>4, <1>7, <2>3, <3>1, <3>2
  <2>4. CASE s = h /\ t = h
    BY <1>4, <1>7, <2>4
  <2> QED
    BY <2>1, <2>2, <2>3, <2>4
<1>9. ASSUME NEW s \in Vector("streams")', NEW k \in Spans(s)
      PROVE  partial'[s][k] \in {None, generation'[s]}
  <2>1. CASE s = h
    BY <1>1, <1>2, <1>9, <2>1 DEF Nothing
  <2>2. CASE s # h
    BY <1>1, <1>4, <1>5, <1>9, <2>2 DEF OneGeneration
  <2> QED
    BY <2>1, <2>2
<1>10. \A s : Spans(s)' = Spans(s)
  BY DEF Spans
<1>11. GenerationSpread'
  BY <1>8 DEF GenerationSpread
<1>12. OneGeneration'
  BY <1>9, <1>10 DEF OneGeneration
<1> QED
  BY <1>11, <1>12

(* What is read of a stream is marked with its generation.                 *)
LEMMA RespondStep ==
  ASSUME TypeOK, PassOK, GenerationSpread, OneGeneration, NEW r \in Requests, Respond(r)
  PROVE  PassOK' /\ GenerationSpread' /\ OneGeneration'
<1>1. UNCHANGED <<held, phase, pass, generation>>
  BY DEF Respond, Answered
<1>2. Vector("streams")' = Vector("streams") /\ Vector("streams") \subseteq Requests
  BY <1>1 DEF Vector, TypeOK
<1>3. PassOK' /\ GenerationSpread'
  BY <1>1, <1>2 DEF PassOK, GenerationSpread
<1>4. partial' = [partial EXCEPT ![r][span] = generation[r]]
  BY DEF Respond
<1>5. ASSUME NEW s \in Vector("streams"), NEW k \in Spans(s)
      PROVE  partial'[s][k] \in {None, generation[s]}
  <2>1. partial[s][k] \in {None, generation[s]}
    BY DEF OneGeneration
  <2>2. partial'[s][k] = partial[s][k] \/ (s = r /\ partial'[s][k] = generation[r])
    <3>1. DOMAIN partial = Requests /\ partial[s] \in [Spans(s) -> {None} \cup 0 .. MaxGeneration]
      BY <1>2 DEF TypeOK
    <3> QED
      BY <1>2, <1>4, <3>1
  <2> QED
    BY <2>1, <2>2
<1>6. \A s : Spans(s)' = Spans(s)
  BY DEF Spans
<1>7. OneGeneration'
  BY <1>1, <1>2, <1>5, <1>6 DEF OneGeneration
<1> QED
  BY <1>3, <1>7

(* The pass over the streams starts at the lowest of their generations.    *)
LEMMA PassStart ==
  ASSUME TypeOK, PassOK, GenerationSpread, OneGeneration, EndPhase
  PROVE  PassOK' /\ GenerationSpread' /\ OneGeneration'
<1>1. UNCHANGED <<partial, generation>> /\ held' \subseteq held
  BY DEF EndPhase, storage
<1>2. Vector("streams")' \subseteq Vector("streams")
  BY <1>1 DEF Vector
<1>3. GenerationSpread'
  BY <1>1, <1>2 DEF GenerationSpread
<1>4. OneGeneration'
  BY <1>1, <1>2 DEF OneGeneration, Spans
<1>5. CASE phase' # "streams"
  BY <1>3, <1>4, <1>5 DEF PassOK
<1>6. CASE phase' = "streams"
  <2>1. pass' \in Generations /\ \A g \in Generations : pass' <= g
    BY <1>6 DEF EndPhase
  <2>2. PICK t \in Vector("streams") : pass' = generation[t]
    BY <2>1 DEF Generations
  <2>3. \A s \in Vector("streams") : generation[s] \in Nat
    BY WorkerAssumption DEF Vector, TypeOK
  <2>4. \A s \in Vector("streams") : pass' <= generation[s] /\ generation[s] <= pass' + 1
    BY <2>1, <2>2 DEF Generations, GenerationSpread
  <2>5. \A s \in Vector("streams") : generation[s] \in {pass', pass' + 1}
    BY <2>2, <2>3, <2>4
  <2>6. PassOK'
    BY <1>1, <1>2, <2>5 DEF PassOK
  <2> QED
    BY <1>3, <1>4, <2>6
<1> QED
  BY <1>5, <1>6

(* A step of the loop at the request whose turn it is.                     *)
LEMMA ServeStep ==
  ASSUME TypeOK, TypeOK', TurnOK, PassOK, GenerationSpread, OneGeneration,
         NEW r \in Requests, Serve(r)
  PROVE  PassOK' /\ GenerationSpread' /\ OneGeneration'
<1> USE DEF callers, loop, storage, meter
<1>0. Turn(r) /\ UNCHANGED <<held, phase, pass>>
  BY ServeEffect
<1>1. CASE UNCHANGED <<partial, generation>>
  BY <1>0, <1>1, StreamsKept
<1>2. CASE GiveUp(r)
  BY <1>0, <1>2, NextReadingStep DEF GiveUp
<1>3. CASE Deliver(r)
  <2>1. span # 0 /\ phase = "streams"
    <3>1. span = Size[r] + 1 /\ phase = "streams"
      BY <1>3 DEF Deliver, AtEnd
    <3>2. Size[r] \in Nat
      BY WorkerAssumption
    <3> QED
      BY <3>1, <3>2
  <2>2. generation[r] = pass
    BY <1>0, <2>1 DEF TurnOK
  <2>3. NextReading(r) \/ UNCHANGED <<partial, generation>>
    BY <1>3 DEF Deliver
  <2> QED
    BY <1>0, <1>1, <2>1, <2>2, <2>3, NextReadingStep
<1>4. CASE Respond(r)
  BY <1>4, RespondStep
<1> QED
  BY <1>1, <1>2, <1>3, <1>4 DEF Serve, DropCancelled, SkipStream, Connect, Resume, Keep,
     Reconnect, Post, TimeOut, Fail, Answered, Incomplete, Answer

(* The streams of a worker stay together and each reading in one generation. *)
LEMMA StreamsStep ==
  ASSUME TypeOK, TypeOK', InboxOK, TurnOK, PassOK, GenerationSpread, OneGeneration,
         [Next]_vars
  PROVE  PassOK' /\ GenerationSpread' /\ OneGeneration'
<1> USE DEF callers, loop, storage, meter
<1>1. CASE Take
  <2>1. phase' # "streams"
    BY <1>1 DEF Take
  <2>2. PassOK'
    BY <2>1 DEF PassOK
  <2>3. CASE TakeRequest
    BY <1>1, <2>2, <2>3, JoinStep
  <2>4. CASE TakeTerminate \/ TakeLate
    <3>1. UNCHANGED <<phase, pass, partial, generation>> /\ held' \subseteq held
      BY <1>1, <2>4 DEF Take, TakeTerminate, TakeLate
    <3> QED
      BY <3>1, StreamsKept
  <2> QED
    BY <1>1, <2>3, <2>4 DEF Take
<1>2. CASE EndPhase
  BY <1>2, PassStart
<1>3. CASE BeginPass
  <2>1. phase' # "streams" /\ UNCHANGED <<held, partial, generation>>
    BY <1>3 DEF BeginPass
  <2>2. PassOK'
    BY <2>1 DEF PassOK
  <2>3. GenerationSpread'
    BY <2>1 DEF GenerationSpread, Vector
  <2>4. OneGeneration'
    BY <2>1 DEF OneGeneration, Vector, Spans
  <2> QED
    BY <2>2, <2>3, <2>4
<1>4. CASE \E r \in Requests : Serve(r)
  BY <1>4, ServeStep
<1>5. CASE Return \/ Join \/ StartTerminate \/ Release \/ UNCHANGED vars
  <2>1. UNCHANGED <<phase, pass, partial, generation>> /\ held' \subseteq held
    BY <1>5 DEF Return, Join, StartTerminate, Release, vars
  <2> QED
    BY <2>1, StreamsKept
<1>6. CASE \E r \in Requests : Send(r) \/ Cancel(r) \/ Consume(r)
  BY <1>6, StreamsKept DEF Send, Cancel, Consume
<1>7. CASE \E r \in Requests : \E k \in Spans(r) : Apply(r, k)
  BY <1>7, ApplyEffect, StreamsKept
<1> QED
  BY <1>1, <1>2, <1>3, <1>4, <1>5, <1>6, <1>7 DEF Next, Execute

-----------------------------------------------------------------------------
(* A worker that starts holds nothing, and nobody has asked it.            *)
LEMMA InitInv == Init => IInv
<1> SUFFICES ASSUME Init
             PROVE  IInv
  OBVIOUS
<1>0. inbox = <<>> /\ held = {} /\ span = 0 /\ phase = "receive"
      /\ \A r \in Requests :
           caller[r] = "idle" /\ ticket[r] = 0 /\ partial[r] = Nothing(r)
  BY DEF Init
<1>1. TypeOK
  BY InitType
<1>2. NobodyForgotten /\ AppliedOK /\ AnsweredIsApplied
  <2>1. \A r \in Requests : \A k \in Spans(r) : partial[r][k] = None
    BY <1>0 DEF Nothing
  <2> QED
    BY <1>0, <2>1 DEF NobodyForgotten, AppliedOK, AnsweredIsApplied
<1>3. InboxOK
  <2>1. \A x : ~In(x, <<>>)
    BY DEF In
  <2>2. Once(<<>>, Requests)
    BY DEF Once
  <2> QED
    BY <1>0, <2>1, <2>2 DEF InboxOK, Fresh, InInbox
<1>4. TicketsOK
  <2>1. Taken = {}
    BY <1>0 DEF Taken
  <2>2. Cardinality(Taken) = 0
    BY <2>1, FS_EmptySet
  <2> QED
    BY <1>0, <2>1, <2>2 DEF TicketsOK
<1>5. TurnOK /\ PassOK /\ GenerationSpread /\ OneGeneration
  BY <1>0 DEF TurnOK, PassOK, GenerationSpread, OneGeneration, Vector
<1> QED
  BY <1>1, <1>2, <1>3, <1>4, <1>5 DEF IInv, StreamsInv

(* Every step of a caller, the registry and the task keeps the invariant.  *)
LEMMA InvStep == IInv /\ [Next]_vars => IInv'
<1> SUFFICES ASSUME IInv, [Next]_vars
             PROVE  IInv'
  OBVIOUS
<1>0. TypeOK /\ NobodyForgotten /\ AppliedOK /\ AnsweredIsApplied /\ InboxOK /\ TicketsOK
      /\ TurnOK /\ PassOK /\ GenerationSpread /\ OneGeneration
  BY DEF IInv, StreamsInv
<1>1. TypeOK'
  BY <1>0, TypeStep
<1>2. NobodyForgotten'
  BY <1>0, ForgottenStep
<1>3. AppliedOK' /\ AnsweredIsApplied'
  BY <1>0, AppliedStep
<1>4. InboxOK'
  BY <1>0, InboxStep
<1>5. TicketsOK'
  BY <1>0, TicketsStep
<1>6. TurnOK'
  BY <1>0, TurnStep
<1>7. PassOK' /\ GenerationSpread' /\ OneGeneration'
  BY <1>0, <1>1, StreamsStep
<1> QED
  BY <1>1, <1>2, <1>3, <1>4, <1>5, <1>6, <1>7 DEF IInv, StreamsInv

(* The inductive invariant of the worker.                                  *)
THEOREM Invariance == Spec => []IInv
  BY InitInv, InvStep, PTL DEF Spec

(* Worker::execute drops no request whose caller waits without telling it. *)
THEOREM NobodyLost == Spec => []NobodyForgotten
<1>1. IInv => NobodyForgotten
  BY DEF IInv
<1> QED
  BY <1>1, Invariance, PTL

(* process_writes answers a write only when the meter executed all of it.  *)
THEOREM AnswersAreTrue == Spec => []AnsweredIsApplied
<1>1. IInv => AnsweredIsApplied
  BY DEF IInv
<1> QED
  BY <1>1, Invariance, PTL

(* Worker::execute and process_streams keep the generations of the streams *)
(* of a worker within one of each other.                                   *)
THEOREM StreamsTogether == Spec => []GenerationSpread
<1>1. IInv => GenerationSpread
  BY DEF IInv, StreamsInv
<1> QED
  BY <1>1, Invariance, PTL

(* process_streams puts no reading together from two generations.          *)
THEOREM ReadingsWhole == Spec => []OneGeneration
<1>1. IInv => OneGeneration
  BY DEF IInv, StreamsInv
<1> QED
  BY <1>1, Invariance, PTL

(* A worker that has received Terminate takes up no request any more.      *)
THEOREM TerminateIsFinal == Spec => NothingTakenUpAfterTerminate
<1>1. ASSUME TypeOK, [Next]_vars, terminate
      PROVE  held' \subseteq held
  <2> USE DEF callers, loop, storage, meter
  <2>1. CASE Take
    BY <1>1, <2>1 DEF Take, TakeTerminate, TakeLate, TakeRequest
  <2>2. CASE \E r \in Requests : Serve(r)
    BY <1>1, <2>2, ServeEffect
  <2>3. CASE Return \/ EndPhase \/ Join
    BY <1>1, <2>3, DropEffect
  <2>4. CASE BeginPass \/ StartTerminate \/ Release \/ UNCHANGED vars
    BY <2>4 DEF BeginPass, StartTerminate, Release, vars
  <2>5. CASE \E r \in Requests : Send(r) \/ Cancel(r) \/ Consume(r)
    BY <2>5 DEF Send, Cancel, Consume
  <2>6. CASE \E r \in Requests : \E k \in Spans(r) : Apply(r, k)
    BY <1>1, <2>6, ApplyEffect
  <2> QED
    BY <1>1, <2>1, <2>2, <2>3, <2>4, <2>5, <2>6 DEF Next, Execute
<1>2. TypeOK /\ [Next]_vars => [terminate => held' \subseteq held]_vars
  BY <1>1
<1> QED
  BY <1>2, TypeCorrect, PTL DEF Spec, NothingTakenUpAfterTerminate

(* A request that may still be sent has a caller that was told nothing.    *)
LiveOK ==
  \A r \in Requests :
    r \in held \ leaving \/ InInbox(r) => caller[r] \in {"waiting", "gone"}

(* The requests a pass is done with are still held.                        *)
VisitedOK ==
  task = "running" =>
    /\ visited \subseteq held
    /\ phase = "receive" => visited = {}

ServerInv == IInv /\ LiveOK /\ VisitedOK

(* Open without its quantifier over the channel.                           *)
LEMMA OpenMeans ==
  \A r : r \in Open <=> /\ r \in Requests
                        /\ r \in held \/ In(r, inbox)
                        /\ caller[r] \in {"waiting", "gone"}
BY DEF Open, In

(* The same, before and after a step.                                      *)
LEMMA OpenMeansBoth ==
  /\ \A r : r \in Open <=> /\ r \in Requests
                           /\ r \in held \/ In(r, inbox)
                           /\ caller[r] \in {"waiting", "gone"}
  /\ \A r : r \in Open' <=> /\ r \in Requests
                            /\ r \in held' \/ In(r, inbox')
                            /\ caller'[r] \in {"waiting", "gone"}
<1>1. (\A r : r \in Open <=> /\ r \in Requests
                             /\ r \in held \/ In(r, inbox)
                             /\ caller[r] \in {"waiting", "gone"})'
  BY OpenMeans, PTL
<1> QED
  BY <1>1, OpenMeans

(* A pass is done with a request only when it was its turn.                *)
LEMMA VisitedStep ==
  ASSUME TypeOK, VisitedOK, [Next]_vars PROVE VisitedOK'
<1> USE DEF callers, loop, storage, meter
<1>1. CASE Take
  <2>1. task = "running" /\ phase = "receive" /\ UNCHANGED <<visited, phase>>
    BY <1>1 DEF Take
  <2> QED
    BY <2>1 DEF VisitedOK
<1>2. ASSUME NEW r \in Requests, Serve(r)
      PROVE  VisitedOK'
  <2>1. Turn(r) /\ UNCHANGED <<held, task, phase>>
    BY <1>2, ServeEffect
  <2>2. visited' \in {visited, visited \cup {r}}
    BY <1>2 DEF Serve, DropCancelled, SkipStream, GiveUp, Connect, Resume, Keep, Reconnect,
      Post, Respond, TimeOut, Fail, Answered, Incomplete, Answer, Deliver, Done
  <2>3. r \in held /\ phase \in Kinds
    BY <2>1 DEF Turn, Vector
  <2> QED
    BY <2>1, <2>2, <2>3 DEF VisitedOK, Kinds
<1>3. CASE EndPhase
  BY <1>3 DEF EndPhase, VisitedOK
<1>4. CASE Return \/ Join
  BY <1>4 DEF Return, Join, VisitedOK
<1>5. CASE BeginPass
  BY <1>5 DEF BeginPass, VisitedOK
<1>6. CASE StartTerminate \/ Release \/ UNCHANGED vars
  BY <1>6 DEF StartTerminate, Release, vars, VisitedOK
<1>7. CASE \E r \in Requests : Send(r) \/ Cancel(r) \/ Consume(r)
  BY <1>7 DEF Send, Cancel, Consume, VisitedOK
<1>8. CASE \E r \in Requests : \E k \in Spans(r) : Apply(r, k)
  BY <1>8, ApplyEffect DEF VisitedOK
<1> QED
  BY <1>1, <1>2, <1>3, <1>4, <1>5, <1>6, <1>7, <1>8 DEF Next, Execute

(* Closing requests that are dropped is a Drop of those still open.        *)
LEMMA CloseDrops ==
  ASSUME NEW some, Close(some), UNCHANGED meter,
         \A r \in some : r \in Requests /\ caller[r] = "waiting" => r \in Open,
         \A r : r \in Open' <=> r \in Open /\ r \notin some
  PROVE  Server!Next
<1> DEFINE dropped == some \cap Open
<1>1. dropped \in SUBSET Open /\ Open' = Open \ dropped
  OBVIOUS
<1>2. caller' = [r \in Requests |->
                   IF r \in dropped /\ caller[r] = "waiting" THEN "failed" ELSE caller[r]]
  BY DEF Close
<1> HIDE DEF dropped
<1>3. Server!Drop(dropped)
  BY <1>1, <1>2 DEF Server!Drop, meter
<1> QED
  BY <1>1, <1>3 DEF Server!Next

(* What each step of the task and its callers is to a RequestServer.       *)
LEMMA TakeServes ==
  ASSUME IInv, LiveOK, VisitedOK, Take
  PROVE  LiveOK' /\ (Server!Next \/ UNCHANGED Server!vars)
<1> USE DEF callers, loop, storage, meter
<1> DEFINE h == Head(inbox)
<1>0. /\ TypeOK /\ InboxOK
      /\ inbox \in Seq(Requests \cup {Terminate})
      /\ caller \in [Requests -> {"idle", "waiting", "done", "failed", "gone"}]
      /\ held \subseteq Requests
  BY DEF IInv, StreamsInv, TypeOK
<1>1. /\ inbox # <<>> /\ inbox' = Tail(inbox) /\ UNCHANGED <<leaving, meter>>
      /\ task = "running" /\ phase = "receive"
  BY DEF Take
<1>2. \A x : In(x, inbox) <=> x = h \/ In(x, inbox')
  BY <1>0, <1>1, TailMembers
<1>3. ~(h \in Requests /\ In(h, inbox'))
  BY <1>0, <1>1, HeadTaken
<1>4. \A r \in Requests :
        In(r, inbox) => r \notin held /\ caller[r] \in {"waiting", "gone"}
  BY <1>0 DEF InboxOK, Fresh, LiveOK, InInbox
<1>5. \A r \in held : caller[r] \in {"waiting", "gone"}
  BY <1>0, <1>1 DEF LiveOK, VisitedOK, TypeOK
<1>6. Terminate \notin Requests
  BY WorkerAssumption DEF Terminate
<1>7. ASSUME \A r \in Requests : r \in held' \/ In(r, inbox') => caller'[r] \in {"waiting", "gone"}
      PROVE  LiveOK'
  BY <1>7 DEF LiveOK, InInbox
<1> HIDE DEF h
<1>8. CASE TakeTerminate
  <2> DEFINE S == Vector("streams")
  <2>1. h = Terminate /\ held' = held \ S /\ Close(S)
    BY <1>8 DEF TakeTerminate, h
  <2>2. S \subseteq held
    BY DEF Vector
  <2> HIDE DEF S
  <2>3. \A r \in Requests \ S : caller'[r] = caller[r]
    BY <2>1 DEF Close
  <2>4. \A r : r \in Open' <=> r \in Open /\ r \notin S
    BY <1>0, <1>2, <1>4, <1>5, <1>6, <2>1, <2>2, <2>3, OpenMeansBoth
  <2>5. \A r \in S : r \in Requests /\ caller[r] = "waiting" => r \in Open
    BY <2>2, OpenMeansBoth
  <2>6. Server!Next
    BY <1>1, <2>1, <2>4, <2>5, CloseDrops
  <2>7. LiveOK'
    BY <1>0, <1>2, <1>4, <1>5, <1>7, <2>1, <2>2, <2>3
  <2> QED
    BY <2>6, <2>7
<1>9. CASE TakeLate
  <2>1. h # Terminate /\ held' = held /\ Close({h})
    BY <1>9 DEF TakeLate, h
  <2>2. h \in Requests
    BY <1>0, <1>1, <2>1 DEF h
  <2>3. \A r \in Requests \ {h} : caller'[r] = caller[r]
    BY <2>1 DEF Close
  <2>4. h \notin held /\ ~In(h, inbox') /\ In(h, inbox)
    BY <1>2, <1>3, <1>4, <2>2
  <2>5. \A r : r \in Open' <=> r \in Open /\ r \notin {h}
    BY <1>0, <1>2, <2>1, <2>2, <2>3, <2>4, OpenMeansBoth
  <2>6. \A r \in {h} : r \in Requests /\ caller[r] = "waiting" => r \in Open
    BY <2>4, OpenMeansBoth
  <2>7. Server!Next
    BY <1>1, <2>1, <2>5, <2>6, CloseDrops
  <2>8. LiveOK'
    BY <1>0, <1>2, <1>4, <1>5, <1>7, <2>1, <2>2, <2>3, <2>4
  <2> QED
    BY <2>7, <2>8
<1>10. CASE TakeRequest
  <2>1. h # Terminate /\ held' = held \cup {h} /\ caller' = caller
    BY <1>10 DEF TakeRequest, h
  <2>2. h \in Requests
    BY <1>0, <1>1, <2>1 DEF h
  <2>3. \A r : r \in Open' <=> r \in Open
    BY <1>2, <2>1, <2>2, OpenMeansBoth
  <2>4. Open' = Open
    BY <2>3
  <2>5. UNCHANGED Server!vars
    BY <1>1, <2>1, <2>4 DEF Server!vars
  <2>6. LiveOK'
    BY <1>0, <1>2, <1>4, <1>5, <1>7, <2>1, <2>2
  <2> QED
    BY <2>5, <2>6
<1> QED
  BY <1>8, <1>9, <1>10 DEF Take

(* A request that is served may be sent, answered or refused.              *)
LEMMA ServeServes ==
  ASSUME IInv, LiveOK, VisitedOK, NEW r \in Requests, Serve(r)
  PROVE  LiveOK' /\ (Server!Next \/ UNCHANGED Server!vars)
<1> USE DEF callers, loop, storage, meter
<1>0. /\ TypeOK /\ AppliedOK
      /\ caller \in [Requests -> {"idle", "waiting", "done", "failed", "gone"}]
      /\ leaving \subseteq visited
      /\ MeterType
  BY DEF IInv, TypeOK, MeterType
<1>1. /\ Turn(r) /\ UNCHANGED <<inbox, held>>
  BY <1>0, ServeEffect
<1>2. /\ r \in held \ leaving
      /\ caller[r] \in {"waiting", "gone"}
      /\ r \in Open
      /\ ~InInbox(r)
  <2>1. r \in held \ leaving
    BY <1>0, <1>1 DEF Turn, Vector
  <2>2. ~InInbox(r)
    BY <2>1 DEF IInv, StreamsInv, InboxOK, Fresh
  <2>3. caller[r] \in {"waiting", "gone"}
    BY <2>1 DEF LiveOK
  <2> QED
    BY <2>1, <2>2, <2>3, OpenMeans
<1>3. ASSUME caller' = caller
      PROVE  Open' = Open
  BY <1>1, <1>3 DEF Open
<1>4. ASSUME \A q \in Requests \ {r} : caller'[q] = caller[q],
             caller'[r] \notin {"waiting", "gone"}
      PROVE  Open' = Open \ {r}
  <2>1. \A q : q \in Open' <=> q \in Open /\ q # r
    BY <1>1, <1>4, OpenMeansBoth
  <2> QED
    BY <2>1
<1>5. ASSUME leaving' \in {leaving, leaving \cup {r}}, caller' = caller
      PROVE  LiveOK'
  BY <1>1, <1>5 DEF LiveOK, InInbox
<1>6. ASSUME leaving' = leaving \cup {r}, \A q \in Requests \ {r} : caller'[q] = caller[q]
      PROVE  LiveOK'
  BY <1>1, <1>2, <1>6 DEF LiveOK, InInbox
<1>7. CASE leaving' \in {leaving, leaving \cup {r}} /\ UNCHANGED <<caller, meter>>
  BY <1>3, <1>5, <1>7 DEF Server!vars
<1>8. CASE DropCancelled(r) \/ SkipStream(r) \/ GiveUp(r) \/ Resume(r) \/ Keep(r)
           \/ Reconnect(r) \/ Incomplete(r)
  BY <1>7, <1>8 DEF DropCancelled, SkipStream, GiveUp, Resume, Keep, Reconnect, Incomplete
<1>9. CASE Deliver(r)
  BY <1>7, <1>9 DEF Deliver
<1>10. CASE Connect(r)
  <2>1. CASE Close({r}) /\ leaving' = leaving \cup {r} /\ UNCHANGED meter
    <3>1. \A q \in Requests \ {r} : caller'[q] = caller[q]
      BY <2>1 DEF Close
    <3>2. CASE caller[r] = "waiting"
      <4>1. caller'[r] = "failed"
        BY <2>1, <3>2 DEF Close
      <4>2. Open' = Open \ {r}
        BY <1>4, <3>1, <4>1
      <4>3. Server!Next
        BY <1>2, <2>1, <4>2, CloseDrops
      <4> QED
        BY <1>6, <2>1, <3>1, <4>3
    <3>3. CASE caller[r] = "gone"
      <4>1. caller' = caller
        BY <1>0, <2>1, <3>3 DEF Close
      <4> QED
        BY <1>7, <2>1, <4>1
    <3> QED
      BY <1>2, <3>2, <3>3
  <2>2. CASE UNCHANGED <<caller, leaving, meter>>
    BY <1>7, <2>2
  <2> QED
    BY <1>10, <2>1, <2>2 DEF Connect
<1>11. CASE Post(r)
  <2>1. /\ span \in 1 .. Size[r]
        /\ UNCHANGED <<caller, leaving, applied>>
        /\ sent' = IF Kind[r] = "writes" THEN [sent EXCEPT ![r] = @ \cup {span}] ELSE sent
    BY <1>11 DEF Post, AtSpan, Spans
  <2>2. CASE Kind[r] = "writes"
    <3>1. Server!Forward(r, span)
      BY <1>2, <1>3, <2>1, <2>2 DEF Server!Forward
    <3> QED
      BY <1>5, <2>1, <3>1 DEF Server!Next
  <2>3. CASE Kind[r] # "writes"
    BY <1>7, <2>1, <2>3
  <2> QED
    BY <2>2, <2>3
<1>12. CASE Respond(r) \/ TimeOut(r) \/ Fail(r)
  BY <1>7, <1>12 DEF Respond, TimeOut, Fail, Answered
<1>13. CASE Answer(r)
  <2>1. /\ Complete(r)
        /\ Kind[r] # "streams"
        /\ caller' = [caller EXCEPT ![r] = IF @ = "waiting" THEN "done" ELSE @]
        /\ leaving' = leaving \cup {r}
        /\ UNCHANGED meter
    BY <1>1, <1>13 DEF Answer, Turn, Vector
  <2>2. \A q \in Requests \ {r} : caller'[q] = caller[q]
    BY <1>0, <2>1
  <2>3. CASE caller[r] = "gone"
    <3>1. caller' = caller
      BY <1>0, <2>1, <2>3
    <3> QED
      BY <1>7, <2>1, <3>1
  <2>4. CASE caller[r] = "waiting"
    <3>1. Kind[r] = "writes" => applied[r] = 1 .. Size[r]
      BY <1>0, <2>1 DEF Complete, AppliedOK, MeterType, Spans
    <3>2. caller' = [caller EXCEPT ![r] = "done"]
      BY <2>1, <2>4
    <3>3. caller'[r] = "done"
      BY <1>0, <3>2
    <3>4. Open' = Open \ {r}
      BY <1>4, <2>2, <3>3
    <3>5. Server!Answer(r)
      BY <1>2, <2>1, <2>4, <3>1, <3>2, <3>4 DEF Server!Answer
    <3> QED
      BY <1>6, <2>1, <2>2, <3>5 DEF Server!Next
  <2> QED
    BY <1>2, <2>3, <2>4
<1> QED
  BY <1>8, <1>9, <1>10, <1>11, <1>12, <1>13 DEF Serve

(* The end of a pass, of the task and of terminate drop requests.          *)
LEMMA DropServes ==
  ASSUME IInv, LiveOK, VisitedOK, Return \/ EndPhase \/ Join
  PROVE  LiveOK' /\ (Server!Next \/ UNCHANGED Server!vars)
<1> USE DEF callers, loop, storage, meter
<1>0. /\ TypeOK
      /\ caller \in [Requests -> {"idle", "waiting", "done", "failed", "gone"}]
      /\ held \subseteq Requests
      /\ leaving \subseteq visited
  BY DEF IInv, TypeOK
<1>1. UNCHANGED <<inbox, meter>>
  BY <1>0, DropEffect
<1>2. \A r \in Requests :
        In(r, inbox) => r \notin held /\ caller[r] \in {"waiting", "gone"}
  BY DEF IInv, StreamsInv, InboxOK, Fresh, LiveOK, InInbox
<1>3. ASSUME NEW some \in SUBSET held, held' = held \ some, Close(some),
             leaving \subseteq some \/ leaving' = leaving
      PROVE  LiveOK' /\ Server!Next
  <2>1. \A r \in Requests \ some : caller'[r] = caller[r]
    BY <1>3 DEF Close
  <2>2. \A r : r \in Open' <=> r \in Open /\ r \notin some
    BY <1>0, <1>1, <1>2, <1>3, <2>1, OpenMeansBoth
  <2>3. \A r \in some : r \in Requests /\ caller[r] = "waiting" => r \in Open
    BY <1>3, OpenMeansBoth
  <2>4. Server!Next
    BY <1>1, <1>3, <2>2, <2>3, CloseDrops
  <2>5. \A r \in Requests : In(r, inbox') => caller'[r] \in {"waiting", "gone"}
    BY <1>1, <1>2, <1>3, <2>1
  <2>6. \A r \in Requests : r \in held' \ leaving' => caller'[r] \in {"waiting", "gone"}
    BY <1>3, <2>1 DEF LiveOK
  <2>7. LiveOK'
    BY <2>5, <2>6 DEF LiveOK, InInbox
  <2> QED
    BY <2>4, <2>7
<1>4. CASE Return
  <2>1. held' = held \ held /\ Close(held) /\ leaving' = leaving
    BY <1>4 DEF Return
  <2> QED
    BY <1>3, <2>1
<1>5. CASE EndPhase
  <2>1. held' = held \ leaving /\ Close(leaving) /\ task = "running"
    BY <1>5 DEF EndPhase
  <2>2. leaving \in SUBSET held
    BY <1>0, <2>1 DEF VisitedOK
  <2> QED
    BY <1>3, <2>1, <2>2
<1>6. CASE Join
  <2>1. CASE held' = {} /\ Close(held)
    <3>1. leaving' = leaving
      BY <1>6 DEF Join
    <3> QED
      BY <1>3, <2>1, <3>1
  <2>2. CASE UNCHANGED <<held, caller>>
    <3>1. leaving' = leaving
      BY <1>6 DEF Join
    <3>2. Open' = Open
      BY <1>1, <2>2 DEF Open
    <3> QED
      BY <1>1, <2>2, <3>1, <3>2 DEF LiveOK, InInbox, Server!vars
  <2> QED
    BY <1>6, <2>1, <2>2 DEF Join
<1> QED
  BY <1>4, <1>5, <1>6

(* Callers ask and give up; the rest is not seen by a RequestServer.       *)
LEMMA CallersServe ==
  ASSUME IInv, LiveOK, NEW q \in Requests, Send(q) \/ Cancel(q) \/ Consume(q)
  PROVE  LiveOK' /\ (Server!Next \/ UNCHANGED Server!vars)
<1> USE DEF callers, loop, storage, meter
<1>0. /\ inbox \in Seq(Requests \cup {Terminate})
      /\ caller \in [Requests -> {"idle", "waiting", "done", "failed", "gone"}]
  BY DEF IInv, TypeOK
<1>1. UNCHANGED <<held, leaving, meter>>
  BY DEF Send, Cancel, Consume
<1>2. CASE Send(q)
  <2>1. caller[q] = "idle" /\ q \notin held /\ ~In(q, inbox)
    BY <1>2 DEF Send, IInv, StreamsInv, InboxOK, Fresh, InInbox
  <2>2. CASE inbox' = Append(inbox, q) /\ caller' = [caller EXCEPT ![q] = "waiting"]
    <3>1. \A x : In(x, inbox') <=> x = q \/ In(x, inbox)
      BY <1>0, <2>2, AppendMembers
    <3>2. \A r : r \in Open' <=> r \in Open \/ r = q
      BY <1>0, <1>1, <2>2, <3>1, OpenMeansBoth
    <3>3. Open' = Open \cup {q}
      BY <3>2
    <3>4. Server!Ask(q)
      BY <1>1, <2>1, <2>2, <3>3 DEF Server!Ask
    <3>5. LiveOK'
      BY <1>0, <1>1, <2>2, <3>1 DEF LiveOK, InInbox
    <3> QED
      BY <3>4, <3>5 DEF Server!Next
  <2>3. CASE inbox' = inbox /\ caller' = [caller EXCEPT ![q] = "failed"]
    <3>1. \A r : r \in Open' <=> r \in Open
      BY <1>0, <1>1, <2>1, <2>3, OpenMeansBoth
    <3>2. Open' = Open
      BY <3>1
    <3>3. Server!Ask(q)
      BY <1>1, <2>1, <2>3, <3>2 DEF Server!Ask
    <3>4. LiveOK'
      BY <1>0, <1>1, <2>1, <2>3 DEF LiveOK, InInbox
    <3> QED
      BY <3>3, <3>4 DEF Server!Next
  <2> QED
    BY <1>2, <2>2, <2>3 DEF Send
<1>3. CASE Cancel(q)
  <2>1. /\ caller[q] \in {"idle", "waiting"} /\ inbox' = inbox
        /\ caller' = [caller EXCEPT ![q] = "gone"]
    BY <1>3 DEF Cancel
  <2>2. caller[q] = "idle" => q \notin held /\ ~In(q, inbox)
    BY DEF IInv, StreamsInv, InboxOK, Fresh, InInbox
  <2>3. \A r : r \in Open' <=> r \in Open
    BY <1>0, <1>1, <2>1, <2>2, OpenMeansBoth
  <2>4. Open' = Open
    BY <2>3
  <2>5. Server!Leave(q)
    BY <1>1, <2>1, <2>4 DEF Server!Leave
  <2>6. LiveOK'
    BY <1>0, <1>1, <2>1 DEF LiveOK, InInbox
  <2> QED
    BY <2>5, <2>6 DEF Server!Next
<1>4. CASE Consume(q)
  <2>1. UNCHANGED <<caller, inbox>>
    BY <1>4 DEF Consume
  <2>2. Open' = Open
    BY <1>1, <2>1 DEF Open
  <2> QED
    BY <1>1, <2>1, <2>2 DEF LiveOK, InInbox, Server!vars
<1> QED
  BY <1>2, <1>3, <1>4

(* Every step of the worker is one of a RequestServer, or none.            *)
LEMMA ServerStep ==
  ServerInv /\ [Next]_vars => ServerInv' /\ [Server!Next]_(Server!vars)
<1> SUFFICES ASSUME ServerInv, [Next]_vars
             PROVE  ServerInv' /\ (Server!Next \/ UNCHANGED Server!vars)
  OBVIOUS
<1> USE DEF callers, loop, storage, meter
<1>0. IInv /\ LiveOK /\ VisitedOK
  BY DEF ServerInv
<1>1. IInv'
  BY <1>0, InvStep
<1>2. VisitedOK'
  BY <1>0, VisitedStep DEF IInv
<1>3. LiveOK' /\ (Server!Next \/ UNCHANGED Server!vars)
  <2>1. CASE Take
    BY <1>0, <2>1, TakeServes
  <2>2. CASE \E r \in Requests : Serve(r)
    BY <1>0, <2>2, ServeServes
  <2>3. CASE Return \/ EndPhase \/ Join
    BY <1>0, <2>3, DropServes
  <2>4. CASE \E r \in Requests : Send(r) \/ Cancel(r) \/ Consume(r)
    BY <1>0, <2>4, CallersServe
  <2>5. CASE UNCHANGED <<caller, meter, inbox, held, leaving>>
    <3>1. Open' = Open
      BY <2>5 DEF Open
    <3> QED
      BY <1>0, <2>5, <3>1 DEF LiveOK, InInbox, Server!vars
  <2>6. CASE BeginPass \/ Release \/ UNCHANGED vars
    BY <2>5, <2>6 DEF BeginPass, Release, vars
  <2>7. CASE StartTerminate
    <3>1. UNCHANGED <<caller, meter, held, leaving>>
      BY <2>7 DEF StartTerminate
    <3>2. CASE inbox' = inbox
      BY <2>5, <3>1, <3>2
    <3>3. CASE inbox' = Append(inbox, Terminate)
      <4>1. inbox \in Seq(Requests \cup {Terminate}) /\ Terminate \notin Requests
        BY <1>0, WorkerAssumption DEF IInv, TypeOK, Terminate
      <4>2. \A x \in Requests : In(x, inbox') <=> In(x, inbox)
        BY <3>3, <4>1, AppendMembers
      <4>3. \A r : r \in Open' <=> r \in Open
        BY <3>1, <4>2, OpenMeansBoth
      <4>4. Open' = Open
        BY <4>3
      <4> QED
        BY <1>0, <3>1, <4>2, <4>4 DEF LiveOK, InInbox, Server!vars
    <3> QED
      BY <2>7, <3>2, <3>3 DEF StartTerminate
  <2>8. ASSUME NEW r \in Requests, NEW k \in Spans(r), Apply(r, k)
        PROVE  LiveOK' /\ Server!Next
    <3>1. k \in 1 .. Size[r] /\ UNCHANGED <<caller, inbox, held, leaving, sent>>
      BY <2>8 DEF Apply, Spans
    <3>2. Open' = Open
      BY <3>1 DEF Open
    <3>3. Server!Execute(r, k)
      BY <2>8, <3>1, <3>2 DEF Apply, Server!Execute
    <3> QED
      BY <1>0, <3>1, <3>3 DEF LiveOK, InInbox, Server!Next
  <2> QED
    BY <2>1, <2>2, <2>3, <2>4, <2>6, <2>7, <2>8 DEF Next, Execute
<1> QED
  BY <1>1, <1>2, <1>3 DEF ServerInv

(* The worker and its connection implement the abstract server: whatever   *)
(* meters, callers and the registry do, Worker::execute sends nothing of a *)
(* write that was answered, failed or dropped, answers a write only after  *)
(* it was executed, and tells whoever waits for a request it drops.        *)
THEOREM WorkerImplementsServer == Spec => ImplementsServer
<1>1. Init => ServerInv /\ Server!Init
  <2> SUFFICES ASSUME Init
               PROVE  ServerInv /\ Server!Init
    OBVIOUS
  <2>1. IInv
    BY InitInv
  <2>2. /\ inbox = <<>> /\ held = {} /\ visited = {} /\ leaving = {}
        /\ caller = [r \in Requests |-> "idle"]
        /\ sent = [r \in Requests |-> {}]
        /\ applied = [r \in Requests |-> {}]
    BY DEF Init
  <2>3. \A r \in Requests : ~InInbox(r)
    BY <2>2 DEF InInbox, In
  <2>4. Open = {}
    BY <2>2, OpenMeans
  <2>5. LiveOK /\ VisitedOK
    BY <2>2, <2>3 DEF LiveOK, VisitedOK
  <2> QED
    BY <2>1, <2>2, <2>4, <2>5 DEF ServerInv, Server!Init
<1> QED
  BY <1>1, ServerStep, PTL DEF Spec, ImplementsServer, Server!Spec

(* What a caller was told by the worker is final: after an answer or an    *)
(* error no record of its write is sent, not by a retry either, and only   *)
(* records that were sent by then may be executed later (worker.rs,        *)
(* Task::execute, terminate and its abort).                                *)
THEOREM AnswersAreFinal == Spec => Server!ToldIsFinal
<1> DEFINE FinalFor(r) == /\ caller'[r] = caller[r]
                          /\ sent'[r] = sent[r]
                          /\ applied'[r] \subseteq applied[r] \cup sent[r]
           Final ==
             \A r \in Requests : caller[r] \in {"done", "failed"} => FinalFor(r)
<1>1. ASSUME TypeOK, Server!Next PROVE Final
  <2> SUFFICES ASSUME NEW r \in Requests, caller[r] \in {"done", "failed"}
               PROVE  FinalFor(r)
    OBVIOUS
  <2>1. r \notin Open
    BY DEF Open
  <2>2. /\ caller \in [Requests -> {"idle", "waiting", "done", "failed", "gone"}]
        /\ DOMAIN sent = Requests
        /\ DOMAIN applied = Requests
    BY <1>1 DEF TypeOK
  <2>3. ASSUME NEW q \in Requests, Server!Ask(q) \/ Server!Leave(q) \/ Server!Answer(q)
        PROVE  FinalFor(r)
    BY <2>2, <2>3 DEF Server!Ask, Server!Leave, Server!Answer
  <2>4. ASSUME NEW q \in Requests, NEW part \in 1 .. Size[q], Server!Forward(q, part)
        PROVE  FinalFor(r)
    BY <2>1, <2>2, <2>4 DEF Server!Forward
  <2>5. ASSUME NEW q \in Requests, NEW part \in 1 .. Size[q], Server!Execute(q, part)
        PROVE  FinalFor(r)
    BY <2>2, <2>5 DEF Server!Execute
  <2>6. ASSUME NEW some \in SUBSET Open, Server!Drop(some)
        PROVE  FinalFor(r)
    BY <2>1, <2>6 DEF Server!Drop
  <2> QED
    BY <1>1, <2>3, <2>4, <2>5, <2>6 DEF Server!Next
<1>2. TypeOK /\ [Server!Next]_(Server!vars) => [Final]_(Server!vars)
  <2> HIDE DEF Final
  <2> QED
    BY <1>1
<1> QED
  BY <1>2, TypeCorrect, WorkerImplementsServer, PTL
     DEF ImplementsServer, Server!Spec, Server!ToldIsFinal
=============================================================================
