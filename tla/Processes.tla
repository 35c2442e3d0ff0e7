------------------------------ MODULE Processes ------------------------------
(***************************************************************************)
(* How the processes are started and run (src/cli/src/process/mod.rs) and  *)
(* how the configuration they read changes under them: the poll process    *)
(* (poll.rs) puts what the server answers into config::Manager             *)
(* (config/mod.rs).  Cron spawns a task per tick; the tasks of one process *)
(* exclude each other with its mutex, those of different processes do not. *)
(***************************************************************************)
EXTENDS Integers, Sequences, FiniteSets

CONSTANTS Names,       \* the processes
          Startup,     \* those executed before the scheduler starts, in order
          MaxTasks,    \* bound: ticks of cron
          MaxVersion   \* bound: configurations the server has had, after the first

ASSUME ProcessesAssumption ==
  /\ "poll" \in Names
  /\ Startup \in Seq(Names)
  /\ MaxTasks \in Nat
  /\ MaxVersion \in Nat

File == -1      \* the configuration that was read from the file
Defaults == -2  \* what a JSON object without any of its fields is parsed to
Unparsed == -3  \* a body that is not such an object, nor a configuration
Versions == 0 .. MaxVersion
Bodies == Versions \cup {Defaults, Unparsed}

VARIABLES
  started,  \* how many of Startup have been executed
  stopped,  \* whether main has returned
  tasks,    \* the tasks cron has spawned: their processes
  at,       \* where each task is; task 0 is startup
  uses,     \* the configuration an execution works with, the reply for poll;
            \* File before and after it
  memory,   \* from_file of config::Manager
  server    \* the configuration the server would answer with

vars == <<started, stopped, tasks, at, uses, memory, server>>

-----------------------------------------------------------------------------
Tasks == 0 .. Len(tasks)

Process(t) ==
  IF t > 0 THEN tasks[t]
  ELSE IF started < Len(Startup) THEN Startup[started + 1] ELSE "none"

(* Faulty variant of Locked: the guard of the mutex is never dropped.      *)
LockedForever(p) ==
  \E t \in Tasks : at[t] # "lock" /\ Process(t) = p

Locked(p) ==
  \E t \in Tasks : at[t] \in {"run", "reload"} /\ Process(t) = p

Goto(t, label) == at' = [at EXCEPT ![t] = label]

Init ==
  /\ started = 0
  /\ stopped = FALSE
  /\ tasks = <<>>
  /\ at = [t \in {0} |-> "lock"]
  /\ uses = [t \in {0} |-> File]
  /\ memory = File
  /\ server = 0

(* Cron spawns a task once startup has started the scheduler.              *)
Tick(p) ==
  /\ ~stopped
  /\ started = Len(Startup)
  /\ Len(tasks) < MaxTasks
  /\ tasks' = Append(tasks, p)
  /\ at' = [t \in 0 .. Len(tasks) + 1 |-> IF t \in Tasks THEN at[t] ELSE "lock"]
  /\ uses' = [t \in 0 .. Len(tasks) + 1 |-> IF t \in Tasks THEN uses[t] ELSE File]
  /\ UNCHANGED <<started, stopped, memory, server>>

(* Faulty variant of Begin: the mutex is not taken.                        *)
BeginUnlocked(t) ==
  /\ ~stopped
  /\ at[t] = "lock"
  /\ Process(t) # "none"
  /\ uses' = [uses EXCEPT ![t] = memory]
  /\ Goto(t, "run")
  /\ UNCHANGED <<started, stopped, tasks, memory, server>>

(* A task gets the mutex of its process and calls execute, which reads the *)
(* configuration once; a task of cron calls it when the scheduler knows    *)
(* the next tick of the job.                                               *)
Begin(t) ==
  /\ ~stopped
  /\ at[t] = "lock"
  /\ Process(t) # "none"
  /\ ~Locked(Process(t))
  /\ uses' = [uses EXCEPT ![t] = memory]
  /\ Goto(t, "run")
  /\ UNCHANGED <<started, stopped, tasks, memory, server>>

(* The scheduler does not tell the next tick: the task gets the mutex and  *)
(* gives it back without an execution, and a line on stdout is all.        *)
Skip(t) ==
  /\ ~stopped
  /\ t # 0
  /\ at[t] = "lock"
  /\ ~Locked(Process(t))
  /\ Goto(t, "done")
  /\ UNCHANGED <<started, stopped, tasks, uses, memory, server>>

Leave(t) ==
  /\ uses' = [uses EXCEPT ![t] = File]
  /\ IF t = 0
     THEN /\ Goto(t, IF started + 1 = Len(Startup) THEN "done" ELSE "lock")
          /\ started' = started + 1
     ELSE /\ Goto(t, "done")
          /\ UNCHANGED started

(* The execution of any other process ends, or cloud.poll fails: an error  *)
(* is logged and no more.                                                  *)
End(t) ==
  /\ ~stopped
  /\ at[t] = "run"
  /\ Leave(t)
  /\ UNCHANGED <<stopped, tasks, memory, server>>

(* cloud.poll: a success with the configuration of the server, or some     *)
(* other status, whose body may happen to be an object.                    *)
Poll(t) ==
  /\ ~stopped
  /\ at[t] = "run"
  /\ Process(t) = "poll"
  /\ \E body \in {server, Defaults, Unparsed} : uses' = [uses EXCEPT ![t] = body]
  /\ Goto(t, "reload")
  /\ UNCHANGED <<started, stopped, tasks, memory, server>>

(* Faulty variant of Reload: what cannot be parsed resets the configuration. *)
ReloadAny(t) ==
  /\ ~stopped
  /\ at[t] = "reload"
  /\ memory' = uses[t]
  /\ Leave(t)
  /\ UNCHANGED <<stopped, tasks, server>>

(* reload_json under the lock, whatever the status of the answer was.      *)
Reload(t) ==
  /\ ~stopped
  /\ at[t] = "reload"
  /\ memory' = IF uses[t] = Unparsed THEN memory ELSE uses[t]
  /\ Leave(t)
  /\ UNCHANGED <<stopped, tasks, server>>

(* Someone changes the configuration on the server.                        *)
Change ==
  /\ server < MaxVersion
  /\ server' = server + 1
  /\ UNCHANGED <<started, stopped, tasks, at, uses, memory>>

(* A signal after startup ends main, and with it every task.               *)
Stop ==
  /\ started = Len(Startup)
  /\ stopped' = TRUE
  /\ UNCHANGED <<started, tasks, at, uses, memory, server>>

Run(t) == Begin(t) \/ Skip(t) \/ End(t) \/ Poll(t) \/ Reload(t)

Next ==
  \/ \E p \in Names : Tick(p)
  \/ \E t \in Tasks : Run(t)
  \/ Change
  \/ Stop

(* tokio runs every task; executions end, as requests and queries time out. *)
Fairness == \A t \in 0 .. MaxTasks : WF_vars(t \in Tasks /\ Run(t))

Spec == Init /\ [][Next]_vars
FairSpec == Spec /\ Fairness

-----------------------------------------------------------------------------
TypeOK ==
  /\ started \in 0 .. Len(Startup)
  /\ stopped \in BOOLEAN
  /\ tasks \in Seq(Names)
  /\ at \in [Tasks -> {"lock", "run", "reload", "done"}]
  /\ uses \in [Tasks -> Bodies \cup {File}]
  /\ memory \in Versions \cup {File, Defaults}
  /\ server \in Versions

(* A configuration of the server is never replaced by an older one, nor by *)
(* one that cannot be parsed, however long polls take and however often    *)
(* they start.                                                             *)
NeverOlder ==
  [][{memory, memory'} \subseteq Versions => memory' >= memory]_vars

(* Again and again everything that was started is done: every tick gets    *)
(* its turn at the mutex of its process, behind ticks that are executed    *)
(* and ticks that are skipped.                                             *)
TicksServed == []<>(stopped \/ \A t \in Tasks : at[t] = "done")
=============================================================================
