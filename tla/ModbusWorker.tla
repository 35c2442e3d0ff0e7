---------------------------- MODULE ModbusWorker ----------------------------
(***************************************************************************)
(* One Modbus worker (src/cli/src/service/modbus/worker.rs) and its        *)
(* connection (connection.rs): a task that owns the TCP connection to one  *)
(* address and serves the reads, writes and streams of any number of       *)
(* callers, span after span, pass after pass.  Callers send requests into  *)
(* an unbounded channel and may stop listening at any time; the registry   *)
(* terminates the worker; meters answer, stay silent, answer late or       *)
(* refuse, and connections fail.  While the task waits for the answer to   *)
(* what it sent, anything else may happen: a timeout, an abort, the        *)
(* meter's execution of this record or of one sent long before.            *)
(***************************************************************************)
EXTENDS Integers, Sequences, FiniteSets

CONSTANTS
  Requests,         \* the requests callers may make, one caller each
  Kind,             \* the vector of the task a request belongs to
  Size,             \* number of spans (records, for a write) of a request
  Target,           \* the meter (slave) a request is for
  Impatient,        \* the requests whose callers may give up
  Outcomes,         \* what may become of a request sent to a meter
  MayRefuse,        \* whether connecting may fail
  PartialRetries,   \* partial_retries
  MaxRetries,       \* u32::MAX, where the retry counter saturates
  MaxGeneration,    \* u64::MAX, where the generation saturates
  StreamCapacity    \* capacity of the channel of a stream, 1024

Kinds == {"reads", "writes", "streams"}

ASSUME WorkerAssumption ==
  /\ IsFiniteSet(Requests)
  /\ "terminate" \notin Requests
  /\ Kind \in [Requests -> Kinds]
  /\ Size \in [Requests -> Nat]
  /\ \A r \in Requests :
       Outcomes[Target[r]] \subseteq {"answer", "silent", "late", "exception"}
  /\ MayRefuse \in BOOLEAN
  /\ PartialRetries \in Nat
  /\ MaxRetries \in Nat
  /\ PartialRetries < MaxRetries
  /\ MaxGeneration \in Nat
  /\ StreamCapacity \in Nat \ {0}

Terminate == "terminate"
None == -1

VARIABLES
  caller,      \* what each caller knows of its request
  queued,      \* readings in the channel of each stream
  inbox,       \* the request channel
  owned,       \* whether the registry holds the worker
  terminator,  \* where the call of terminate is
  task,        \* whether the task runs, has returned or was aborted
  terminate,   \* self.terminate
  held,        \* requests in the vectors reads, writes and streams
  ticket,      \* the order in which they were pushed
  phase,       \* the part of the loop the task is in
  visited,     \* requests the current process_* call is done with
  leaving,     \* *_to_remove
  span,        \* span the current request is at, 0 before the first
  asking,      \* whether an answer for that span is awaited
  pass,        \* the generation process_streams was called with
  partial,     \* generation at which each span was read, None before
  retries,     \* partial.retries
  generation,  \* generation
  conn,        \* the connection: absent from the map, down, up or clogged
  sent,        \* records of a write that were ever sent to the meter
  applied      \* records of a write the meter has executed

callers == <<caller, queued, owned, terminator>>
loop == <<phase, visited, leaving, span, asking, pass>>
storage == <<partial, retries, generation>>
meter == <<sent, applied>>
vars == <<callers, inbox, task, terminate, held, ticket, loop, storage, conn, meter>>

-----------------------------------------------------------------------------
Spans(r) == 1 .. Size[r]
Vector(k) == {r \in held : Kind[r] = k}
Generations == {generation[s] : s \in Vector("streams")}
Nothing(r) == [k \in Spans(r) |-> None]

(* Faulty variant of Complete: one span is enough.                         *)
CompleteSome(r) == \E k \in Spans(r) : partial[r][k] # None

Complete(r) == \A k \in Spans(r) : partial[r][k] # None

(* Faulty variant of Newest: a new stream starts from the beginning.       *)
NewestZero == {0}

(* The generation a new request joins at, 0 without streams.               *)
Newest ==
  IF Generations = {} THEN {0}
  ELSE {g \in Generations : \A h \in Generations : h <= g}

(* saturating_add(1) of the counters.                                      *)
Saturate(n, max) == IF n < max THEN n + 1 ELSE max

(* A worker is cloned for every call, and a call of read or write keeps    *)
(* its clone until it is answered: the channel is open while one is left.  *)
Reachable ==
  \/ owned
  \/ terminator = "joining"
  \/ \E r \in Requests : \/ caller[r] = "idle"
                         \/ caller[r] = "waiting" /\ Kind[r] # "streams"

(* Faulty variant of Close: another clone of the sender is left.           *)
CloseNot(some) == UNCHANGED caller

(* Dropping the sender of a request closes the channel its caller waits on. *)
Close(some) ==
  caller' = [r \in Requests |->
               IF r \in some /\ caller[r] = "waiting" THEN "failed" ELSE caller[r]]

Init ==
  /\ caller = [r \in Requests |-> "idle"]
  /\ queued = [r \in Requests |-> 0]
  /\ inbox = <<>>
  /\ owned = TRUE
  /\ terminator = "none"
  /\ task = "running"
  /\ terminate = FALSE
  /\ held = {}
  /\ ticket = [r \in Requests |-> 0]
  /\ phase = "receive"
  /\ visited = {}
  /\ leaving = {}
  /\ span = 0
  /\ asking = FALSE
  /\ pass = 0
  /\ partial = [r \in Requests |-> Nothing(r)]
  /\ retries = [r \in Requests |-> 0]
  /\ generation = [r \in Requests |-> 0]
  /\ conn = "absent"
  /\ sent = [r \in Requests |-> {}]
  /\ applied = [r \in Requests |-> {}]

-----------------------------------------------------------------------------
(* Worker::read, write and stream up to the answer; a channel whose        *)
(* receiver is gone refuses the request.                                   *)
Send(r) ==
  /\ caller[r] = "idle"
  /\ IF task = "running"
     THEN /\ inbox' = Append(inbox, r)
          /\ caller' = [caller EXCEPT ![r] = "waiting"]
     ELSE /\ caller' = [caller EXCEPT ![r] = "failed"]
          /\ UNCHANGED inbox
  /\ UNCHANGED <<queued, owned, terminator, task, terminate, held, ticket, loop,
                 storage, conn, meter>>

(* The caller drops its future or its stream: timeouts of the processes.   *)
Cancel(r) ==
  /\ r \in Impatient
  /\ caller[r] \in {"idle", "waiting"}
  /\ caller' = [caller EXCEPT ![r] = "gone"]
  /\ UNCHANGED <<queued, inbox, owned, terminator, task, terminate, held, ticket,
                 loop, storage, conn, meter>>

(* The measure process takes a reading out of the channel of its stream.   *)
Consume(r) ==
  /\ queued[r] > 0
  /\ queued' = [queued EXCEPT ![r] = @ - 1]
  /\ UNCHANGED <<caller, inbox, owned, terminator, task, terminate, held, ticket,
                 loop, storage, conn, meter>>

(* The registry removes the worker and calls terminate.                    *)
StartTerminate ==
  /\ owned
  /\ owned' = FALSE
  /\ terminator' = "joining"
  /\ inbox' = IF task = "running" THEN Append(inbox, Terminate) ELSE inbox
  /\ UNCHANGED <<caller, queued, task, terminate, held, ticket, loop, storage,
                 conn, meter>>

(* The services are dropped when the process exits.                        *)
Release ==
  /\ owned
  /\ owned' = FALSE
  /\ UNCHANGED <<caller, queued, inbox, terminator, task, terminate, held, ticket,
                 loop, storage, conn, meter>>

(* terminate waits for the task until termination_timeout and aborts it;   *)
(* a request still in the channel keeps its sender (flume).                *)
Join ==
  /\ terminator = "joining"
  /\ IF task = "running"
     THEN /\ terminator' = "timedOut"
          /\ task' = "aborted"
          /\ held' = {}
          /\ Close(held)
     ELSE /\ terminator' = "joined"
          /\ UNCHANGED <<task, held, caller>>
  /\ UNCHANGED <<queued, inbox, owned, terminate, ticket, loop, storage, conn,
                 meter>>

-----------------------------------------------------------------------------
(* recv_async_new_request and try_recv_new_request: after Terminate the    *)
(* streams are dropped and so is every request still to come.              *)
TakeTerminate ==
  /\ Head(inbox) = Terminate
  /\ terminate' = TRUE
  /\ held' = held \ Vector("streams")
  /\ Close(Vector("streams"))
  /\ UNCHANGED <<ticket, generation>>

TakeLate ==
  /\ terminate
  /\ Head(inbox) # Terminate
  /\ Close({Head(inbox)})
  /\ UNCHANGED <<terminate, held, ticket, generation>>

(* add_new_read_request, add_new_write_request: a request joins at the     *)
(* highest generation of the streams.                                      *)
TakeRequest ==
  /\ ~terminate
  /\ Head(inbox) # Terminate
  /\ held' = held \cup {Head(inbox)}
  /\ ticket' = [ticket EXCEPT ![Head(inbox)] =
                  1 + Cardinality({r \in Requests : ticket[r] > 0})]
  /\ \E g \in Newest : generation' = [generation EXCEPT ![Head(inbox)] = g]
  /\ UNCHANGED <<caller, terminate>>

Take ==
  /\ task = "running"
  /\ phase = "receive"
  /\ inbox # <<>>
  /\ inbox' = Tail(inbox)
  /\ TakeTerminate \/ TakeLate \/ TakeRequest
  /\ UNCHANGED <<queued, owned, terminator, task, loop, partial, retries, conn,
                 meter>>

(* The channel is empty and closed: execute returns and drops all it holds. *)
Return ==
  /\ task = "running"
  /\ phase = "receive"
  /\ inbox = <<>>
  /\ ~Reachable
  /\ task' = "returned"
  /\ held' = {}
  /\ Close(held)
  /\ UNCHANGED <<queued, inbox, owned, terminator, terminate, ticket, loop,
                 storage, conn, meter>>

(* Faulty variant of BeginPass: the channel is not emptied first.          *)
BeginPassEager ==
  /\ task = "running"
  /\ phase = "receive"
  /\ held # {}
  /\ phase' = "reads"
  /\ UNCHANGED <<callers, inbox, task, terminate, held, ticket, visited, leaving,
                 span, asking, pass, storage, conn, meter>>

(* With nothing held the task waits for a request instead.                 *)
BeginPass ==
  /\ task = "running"
  /\ phase = "receive"
  /\ inbox = <<>>
  /\ Reachable
  /\ held # {}
  /\ phase' = "reads"
  /\ UNCHANGED <<callers, inbox, task, terminate, held, ticket, visited, leaving,
                 span, asking, pass, storage, conn, meter>>

-----------------------------------------------------------------------------
(* The vectors are walked in the order requests were pushed.               *)
Turn(r) ==
  /\ task = "running"
  /\ phase \in Kinds
  /\ r \in Vector(phase) \ visited
  /\ \A q \in Vector(phase) \ visited : ticket[r] <= ticket[q]

Done(r) == visited' = visited \cup {r} /\ span' = 0

(* Faulty variant of DropCancelled: the request is skipped, not removed.   *)
SkipCancelled(r) ==
  /\ Turn(r)
  /\ span = 0
  /\ caller[r] = "gone"
  /\ Done(r)
  /\ UNCHANGED <<callers, inbox, task, terminate, held, ticket, phase, leaving,
                 asking, pass, storage, conn, meter>>

DropCancelled(r) ==
  /\ Turn(r)
  /\ span = 0
  /\ caller[r] = "gone"
  /\ Done(r)
  /\ leaving' = leaving \cup {r}
  /\ UNCHANGED <<callers, inbox, task, terminate, held, ticket, phase, asking, pass,
                 storage, conn, meter>>

SkipStream(r) ==
  /\ Turn(r)
  /\ span = 0
  /\ phase = "streams"
  /\ caller[r] # "gone"
  /\ generation[r] # pass
  /\ Done(r)
  /\ UNCHANGED <<callers, inbox, task, terminate, held, ticket, phase, leaving,
                 asking, pass, storage, conn, meter>>

(* Faulty variants of NextReading: overflow, spans of the last reading     *)
(* left in place, the generation left as it is.                            *)
NextReadingOverflow(r) ==
  /\ partial' = [partial EXCEPT ![r] = Nothing(r)]
  /\ retries' = [retries EXCEPT ![r] = 0]
  /\ generation' = [generation EXCEPT ![r] = @ + 1]
NextReadingOld(r) ==
  /\ retries' = [retries EXCEPT ![r] = 0]
  /\ generation' = [generation EXCEPT ![r] = Saturate(@, MaxGeneration)]
  /\ UNCHANGED partial
NextReadingStay(r) ==
  /\ partial' = [partial EXCEPT ![r] = Nothing(r)]
  /\ retries' = [retries EXCEPT ![r] = 0]
  /\ UNCHANGED generation

(* The next reading of a stream starts from nothing.                       *)
NextReading(r) ==
  /\ partial' = [partial EXCEPT ![r] = Nothing(r)]
  /\ retries' = [retries EXCEPT ![r] = 0]
  /\ generation' = [generation EXCEPT ![r] = Saturate(@, MaxGeneration)]


(* A stream that failed too often lets the others go on.                   *)
GiveUp(r) ==
  /\ Turn(r)
  /\ span = 0
  /\ phase = "streams"
  /\ caller[r] # "gone"
  /\ generation[r] = pass
  /\ retries[r] > PartialRetries
  /\ Done(r)
  /\ NextReading(r)
  /\ UNCHANGED <<callers, inbox, task, terminate, held, ticket, phase, leaving,
                 asking, pass, conn, meter>>

Due(r) ==
  /\ Turn(r)
  /\ span = 0
  /\ caller[r] # "gone"
  /\ phase = "streams" => generation[r] = pass /\ retries[r] <= PartialRetries

(* attempt_connection: a failure answers the request that met it.          *)
Connect(r) ==
  /\ Due(r)
  /\ conn = "absent"
  /\ \/ /\ conn' = "up"
        /\ span' = 1
        /\ UNCHANGED <<caller, visited, leaving>>
     \/ /\ MayRefuse
        /\ Close({r})
        /\ Done(r)
        /\ leaving' = leaving \cup {r}
        /\ UNCHANGED conn
  /\ UNCHANGED <<queued, owned, terminator, inbox, task, terminate, held, ticket,
                 phase, asking, pass, storage, meter>>

Resume(r) ==
  /\ Due(r)
  /\ conn # "absent"
  /\ span' = 1
  /\ UNCHANGED <<callers, inbox, task, terminate, held, ticket, phase, visited,
                 leaving, asking, pass, storage, conn, meter>>

-----------------------------------------------------------------------------
AtSpan(r) == Turn(r) /\ span \in Spans(r)

(* A span read in an earlier pass is kept.                                 *)
Keep(r) ==
  /\ AtSpan(r)
  /\ partial[r][span] # None
  /\ span' = span + 1
  /\ UNCHANGED <<callers, inbox, task, terminate, held, ticket, phase, visited,
                 leaving, asking, pass, storage, conn, meter>>

(* ensure_connected before a span fails.                                   *)
Reconnect(r) ==
  /\ AtSpan(r)
  /\ ~asking
  /\ partial[r][span] = None
  /\ conn = "down"
  /\ MayRefuse
  /\ span' = span + 1
  /\ UNCHANGED <<callers, inbox, task, terminate, held, ticket, phase, visited,
                 leaving, asking, pass, storage, conn, meter>>

(* One request is sent on the connection, which is opened if need be.      *)
Post(r) ==
  /\ AtSpan(r)
  /\ ~asking
  /\ partial[r][span] = None
  /\ asking' = TRUE
  /\ conn' = IF conn = "down" THEN "up" ELSE conn
  /\ sent' = IF Kind[r] = "writes" THEN [sent EXCEPT ![r] = @ \cup {span}] ELSE sent
  /\ UNCHANGED <<callers, inbox, task, terminate, held, ticket, phase, visited,
                 leaving, span, pass, storage, applied>>

(* A meter executes a record that was sent, at any later time and in any   *)
(* order: after the timeout, on a connection dropped since, when the task  *)
(* has ended.  One that is lost or refused is never executed.              *)
Apply(r, k) ==
  /\ k \in sent[r]
  /\ applied' = [applied EXCEPT ![r] = @ \cup {k}]
  /\ UNCHANGED <<callers, inbox, task, terminate, held, ticket, loop, storage, conn,
                 sent>>

Awaiting(r) == AtSpan(r) /\ asking

(* The await for the answer is over, and the loop goes on to the next span. *)
Answered(r) ==
  /\ asking' = FALSE
  /\ span' = span + 1
  /\ UNCHANGED <<callers, inbox, task, terminate, held, ticket, phase, visited,
                 leaving, pass, retries, generation, meter>>

(* Faulty variant of Respond: a late answer is taken for this request's.   *)
RespondAny(r) ==
  /\ Awaiting(r)
  /\ "answer" \in Outcomes[Target[r]]
  /\ Kind[r] = "writes" /\ conn = "up" => span \in applied[r]
  /\ partial' = [partial EXCEPT ![r][span] = generation[r]]
  /\ conn' = "up"
  /\ Answered(r)

Respond(r) ==
  /\ Awaiting(r)
  /\ conn = "up"
  /\ "answer" \in Outcomes[Target[r]]
  /\ Kind[r] = "writes" => span \in applied[r]
  /\ partial' = [partial EXCEPT ![r][span] = generation[r]]
  /\ Answered(r)
  /\ UNCHANGED conn

(* A timeout keeps the connection, on which the answer may still come.     *)
TimeOut(r) ==
  /\ Awaiting(r)
  /\ \E o \in Outcomes[Target[r]] \cap {"silent", "late"} :
       conn' = IF o = "late" THEN "clogged" ELSE conn
  /\ Answered(r)
  /\ UNCHANGED partial

(* An error drops the connection: the meter refuses, or the answer that    *)
(* came too late for an earlier request is taken for the answer to this    *)
(* one and its header does not match.                                      *)
Fail(r) ==
  /\ Awaiting(r)
  /\ conn = "clogged" \/ "exception" \in Outcomes[Target[r]]
  /\ conn' = "down"
  /\ Answered(r)
  /\ UNCHANGED partial

AtEnd(r) == Turn(r) /\ span = Size[r] + 1

(* Some spans are missing: the request stays for the next pass.            *)
Incomplete(r) ==
  /\ AtEnd(r)
  /\ ~Complete(r)
  /\ retries' = [retries EXCEPT ![r] = Saturate(@, MaxRetries)]
  /\ Done(r)
  /\ UNCHANGED <<callers, inbox, task, terminate, held, ticket, phase, leaving,
                 asking, pass, partial, generation, conn, meter>>

Answer(r) ==
  /\ AtEnd(r)
  /\ phase # "streams"
  /\ Complete(r)
  /\ caller' = [caller EXCEPT ![r] = IF @ = "waiting" THEN "done" ELSE @]
  /\ Done(r)
  /\ leaving' = leaving \cup {r}
  /\ UNCHANGED <<queued, owned, terminator, inbox, task, terminate, held, ticket,
                 phase, asking, pass, storage, conn, meter>>

(* try_send on the channel of a stream: full or closed, the stream goes.   *)
Deliver(r) ==
  /\ AtEnd(r)
  /\ phase = "streams"
  /\ Complete(r)
  /\ Done(r)
  /\ IF caller[r] = "waiting" /\ queued[r] < StreamCapacity
     THEN /\ queued' = [queued EXCEPT ![r] = @ + 1]
          /\ NextReading(r)
          /\ UNCHANGED leaving
     ELSE /\ leaving' = leaving \cup {r}
          /\ UNCHANGED <<queued, storage>>
  /\ UNCHANGED <<caller, owned, terminator, inbox, task, terminate, held, ticket,
                 phase, asking, pass, conn, meter>>

(* retain at the end of process_reads, process_writes, process_streams;    *)
(* streams follow only if there are any, at their lowest generation.       *)
EndPhase ==
  /\ task = "running"
  /\ phase \in Kinds
  /\ Vector(phase) \subseteq visited
  /\ held' = held \ leaving
  /\ Close(leaving)
  /\ visited' = {}
  /\ leaving' = {}
  /\ \/ /\ phase = "reads"
        /\ phase' = "writes"
        /\ UNCHANGED pass
     \/ /\ phase = "writes"
        /\ Vector("streams") # {}
        /\ phase' = "streams"
        /\ pass' \in Generations
        /\ \A g \in Generations : pass' <= g
     \/ /\ phase = "writes"
        /\ Vector("streams") = {}
        /\ phase' = "receive"
        /\ UNCHANGED pass
     \/ /\ phase = "streams"
        /\ phase' = "receive"
        /\ UNCHANGED pass
  /\ UNCHANGED <<queued, owned, terminator, inbox, task, terminate, ticket, span,
                 asking, storage, conn, meter>>

Serve(r) ==
  \/ DropCancelled(r)
  \/ SkipStream(r)
  \/ GiveUp(r)
  \/ Connect(r)
  \/ Resume(r)
  \/ Keep(r)
  \/ Reconnect(r)
  \/ Post(r)
  \/ Respond(r)
  \/ TimeOut(r)
  \/ Fail(r)
  \/ Incomplete(r)
  \/ Answer(r)
  \/ Deliver(r)

Execute == Take \/ Return \/ BeginPass \/ EndPhase \/ \E r \in Requests : Serve(r)

Next ==
  \/ \E r \in Requests : Send(r) \/ Cancel(r) \/ Consume(r)
  \/ StartTerminate
  \/ Release
  \/ Join
  \/ Execute
  \/ \E r \in Requests : \E k \in Spans(r) : Apply(r, k)

(* tokio runs the task and the call of terminate; a meter that answers     *)
(* every request executes every record.                                    *)
Fairness ==
  /\ WF_vars(Execute)
  /\ WF_vars(Join)
  /\ \A r \in Requests :
       Outcomes[Target[r]] = {"answer"} =>
         \A k \in Spans(r) : WF_vars(Apply(r, k))

Spec == Init /\ [][Next]_vars
FairSpec == Spec /\ Fairness

-----------------------------------------------------------------------------
TypeOK ==
  /\ caller \in [Requests -> {"idle", "waiting", "done", "failed", "gone"}]
  /\ queued \in [Requests -> 0 .. StreamCapacity]
  /\ inbox \in Seq(Requests \cup {Terminate})
  /\ owned \in BOOLEAN
  /\ terminator \in {"none", "joining", "joined", "timedOut"}
  /\ task \in {"running", "returned", "aborted"}
  /\ terminate \in BOOLEAN
  /\ held \subseteq Requests
  /\ ticket \in [Requests -> Nat]
  /\ phase \in Kinds \cup {"receive"}
  /\ visited \subseteq Requests
  /\ leaving \subseteq visited
  /\ span \in Nat
  /\ asking \in BOOLEAN
  /\ pass \in 0 .. MaxGeneration
  /\ DOMAIN partial = Requests
  /\ \A r \in Requests : partial[r] \in [Spans(r) -> {None} \cup 0 .. MaxGeneration]
  /\ retries \in [Requests -> 0 .. MaxRetries]
  /\ generation \in [Requests -> 0 .. MaxGeneration]
  /\ conn \in {"absent", "down", "up", "clogged"}
  /\ DOMAIN sent = Requests
  /\ DOMAIN applied = Requests
  /\ \A r \in Requests : sent[r] \cup applied[r] \subseteq Spans(r)

(* No two streams of a worker drift apart by more than one reading, however *)
(* they fail, come and go.                                                 *)
GenerationSpread ==
  \A s, t \in Vector("streams") : generation[s] <= generation[t] + 1

(* A reading of a stream is put together from one generation only: nothing *)
(* read before the worker gave up, or delivered, is part of it.            *)
OneGeneration ==
  \A s \in Vector("streams") :
    \A k \in Spans(s) : partial[s][k] \in {None, generation[s]}

(* A write is answered only after the meter executed each of its records.  *)
AnsweredIsApplied ==
  \A r \in Requests :
    Kind[r] = "writes" /\ caller[r] = "done" => applied[r] = Spans(r)

(* Nobody waits for a request that the running task has lost: it is in the *)
(* channel or in one of the vectors.  After the task has ended only a      *)
(* request left in the channel keeps its caller waiting.                   *)
NobodyForgotten ==
  \A r \in Requests :
    caller[r] = "waiting" =>
      r \in held \/ \E i \in 1 .. Len(inbox) : inbox[i] = r

(* Once Terminate was received no request is taken up any more.            *)
NothingTakenUpAfterTerminate == [][terminate => held' \subseteq held]_vars

(* Requests in the channel or in one of the vectors that were not answered. *)
Open ==
  {r \in Requests : /\ r \in held \/ \E i \in 1 .. Len(inbox) : inbox[i] = r
                    /\ caller[r] \in {"waiting", "gone"}}

Server == INSTANCE RequestServer WITH open <- Open

(* The worker is a RequestServer, whatever fails, comes late, gives up and *)
(* terminates: no record of a write is sent to a meter after its caller    *)
(* was answered or told of a failure, nor once it was dropped, no write is *)
(* answered early or by the answer to another request, and nobody is left  *)
(* waiting for a request that was dropped.                                 *)
ImplementsServer == Server!Spec


(* A read or a write whose meter answers is answered while the task runs,  *)
(* whatever requests to dead meters and streams are waiting with it.       *)
GoodRequestsAnswered ==
  \A r \in Requests :
    Kind[r] # "streams" /\ Outcomes[Target[r]] = {"answer"} =>
      (caller[r] = "waiting" ~> caller[r] # "waiting" \/ task # "running")

(* A request whose caller has given up is dropped in the end.              *)
CancelledDropped ==
  \A r \in Requests : caller[r] = "gone" /\ r \in held ~> r \notin held
=============================================================================
