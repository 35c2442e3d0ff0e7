---------------------------- MODULE TariffsProofs ----------------------------
(***************************************************************************)
(* Proofs about Processes and Tariffs for any processes, devices, lengths  *)
(* of their lists, ticks and configurations.                               *)
(***************************************************************************)
EXTENDS Tariffs, TLAPS

Active(t) == at[t] \in {"run", "reload"}

(* Startup has a process left as long as it executes one.                  *)
StartupGoing == Active(0) => started < Len(Startup)

(* The mutex of a process is held once.                                    *)
Excluded ==
  \A s, t \in Tasks : Active(s) /\ Active(t) /\ Process(s) = Process(t) => s = t

(* The reply in the hands of a poll is no older than the configuration.    *)
Reloading ==
  \A t \in Tasks :
    at[t] = "reload" =>
      /\ Process(t) = "poll"
      /\ uses[t] \in Versions =>
           uses[t] <= server /\ (memory \in Versions => memory <= uses[t])

PInv ==
  /\ TypeOK
  /\ Len(tasks) <= MaxTasks
  /\ StartupGoing
  /\ Excluded
  /\ Reloading
  /\ memory \in Versions => memory <= server

-----------------------------------------------------------------------------
(* The types of the constants.                                             *)
LEMMA ProcessConstants ==
  /\ Startup \in Seq(Names)
  /\ Len(Startup) \in Nat
  /\ MaxTasks \in Nat
  /\ MaxVersion \in Nat
  /\ 0 \in Versions
  /\ Versions \subseteq Nat
  /\ File \notin Versions /\ Defaults \notin Versions /\ Unparsed \notin Versions
BY ProcessesAssumption DEF Versions, File, Defaults, Unparsed

(* Startup comes first.                                                    *)
LEMMA ProcessInit == Init => PInv
<1> SUFFICES ASSUME Init PROVE PInv
  OBVIOUS
<1>1. Len(tasks) = 0 /\ Tasks = {0} /\ tasks \in Seq(Names)
  BY DEF Init, Tasks
<1>2. at[0] = "lock" /\ uses[0] = File
  BY DEF Init
<1>3. TypeOK
  <2>1. at \in [Tasks -> {"lock", "run", "reload", "done"}]
    BY <1>1 DEF Init
  <2>2. uses \in [Tasks -> Bodies \cup {File}]
    BY <1>1 DEF Init
  <2>3. started \in 0 .. Len(Startup) /\ stopped \in BOOLEAN
    BY ProcessConstants DEF Init
  <2> QED
    BY <1>1, <2>1, <2>2, <2>3, ProcessConstants DEF Init, TypeOK
<1> QED
  BY <1>1, <1>2, <1>3, ProcessConstants
     DEF Init, PInv, StartupGoing, Excluded, Reloading, Active

(* The tasks are numbered on.                                              *)
LEMMA TasksType ==
  ASSUME PInv
  PROVE  /\ Len(tasks) \in Nat
         /\ Len(tasks) <= MaxTasks
         /\ Tasks = 0 .. Len(tasks)
         /\ 0 \in Tasks
         /\ \A t \in Tasks : t \in Nat /\ (t # 0 => t \in 1 .. MaxTasks)
BY ProcessConstants DEF PInv, TypeOK, Tasks

(* A tick of cron.                                                         *)
LEMMA TickStep == ASSUME PInv, NEW p \in Names, Tick(p) PROVE PInv'
<1> DEFINE n == Len(tasks)
<1>1. /\ n \in Nat /\ Tasks = 0 .. n /\ n < MaxTasks
      /\ tasks' = Append(tasks, p) /\ tasks \in Seq(Names)
      /\ UNCHANGED <<started, stopped, memory, server>>
      /\ TypeOK /\ StartupGoing /\ Excluded /\ Reloading
      /\ MaxTasks \in Nat
  BY TasksType, ProcessConstants DEF PInv, TypeOK, Tick
<1>2. /\ tasks' \in Seq(Names) /\ Len(tasks') = n + 1 /\ Tasks' = 0 .. n + 1
      /\ \A i \in 1 .. n : tasks'[i] = tasks[i]
  BY <1>1 DEF Tasks
<1>3. /\ at' = [t \in 0 .. n + 1 |-> IF t \in Tasks THEN at[t] ELSE "lock"]
      /\ uses' = [t \in 0 .. n + 1 |-> IF t \in Tasks THEN uses[t] ELSE File]
  BY DEF Tick
<1> HIDE DEF n
<1>4. /\ \A t \in Tasks : at'[t] = at[t] /\ uses'[t] = uses[t]
      /\ at'[n + 1] = "lock" /\ n + 1 \notin Tasks
      /\ \A t \in Tasks' : t \in Tasks \/ t = n + 1
      /\ 0 \in Tasks
  BY <1>1, <1>2, <1>3
<1>5. TypeOK'
  <2>1. at' \in [Tasks' -> {"lock", "run", "reload", "done"}]
    BY <1>1, <1>2, <1>3 DEF TypeOK
  <2>2. uses' \in [Tasks' -> Bodies \cup {File}]
    BY <1>1, <1>2, <1>3 DEF TypeOK, Bodies
  <2> QED
    BY <1>1, <1>2, <2>1, <2>2 DEF TypeOK
<1>6. \A t \in Tasks : Process(t)' = Process(t)
  BY <1>1, <1>2 DEF Process
<1>7. \A t \in Tasks' : Active(t)' => t \in Tasks /\ Active(t)
  BY <1>4 DEF Active
<1>8. StartupGoing'
  BY <1>1, <1>4 DEF StartupGoing, Active
<1>9. Excluded'
  BY <1>1, <1>6, <1>7 DEF Excluded
<1>10. Reloading'
  BY <1>1, <1>4, <1>6 DEF Reloading
<1> QED
  BY <1>1, <1>2, <1>5, <1>8, <1>9, <1>10 DEF PInv

(* A task gets the mutex.                                                  *)
LEMMA BeginStep == ASSUME PInv, NEW t \in Tasks, Begin(t) PROVE PInv'
<1>1. /\ UNCHANGED <<started, stopped, tasks, memory, server>>
      /\ Tasks' = Tasks
      /\ at[t] = "lock" /\ ~Locked(Process(t)) /\ Process(t) # "none"
      /\ uses' = [uses EXCEPT ![t] = memory]
      /\ at' = [at EXCEPT ![t] = "run"]
      /\ TypeOK /\ StartupGoing /\ Excluded /\ Reloading
  BY DEF PInv, Begin, Goto, Tasks
<1>2. TypeOK'
  BY <1>1 DEF TypeOK, Bodies
<1>3. /\ at'[t] = "run" /\ \A s \in Tasks \ {t} : at'[s] = at[s] /\ uses'[s] = uses[s]
  BY <1>1 DEF TypeOK
<1>4. \A s : Process(s)' = Process(s)
  BY <1>1 DEF Process
<1>5. \A s \in Tasks : Active(s) => Process(s) # Process(t)
  BY <1>1 DEF Locked, Active
<1>6. Excluded'
  BY <1>1, <1>3, <1>4, <1>5 DEF Excluded, Active
<1>7. Reloading'
  BY <1>1, <1>3, <1>4 DEF Reloading
<1>8. StartupGoing'
  <2>1. CASE t = 0
    <3>1. started < Len(Startup) \/ Process(t) = "none"
      BY <2>1 DEF Process
    <3> QED
      BY <1>1, <3>1 DEF StartupGoing
  <2>2. CASE t # 0
    BY <1>1, <1>3, <2>2, TasksType DEF StartupGoing, Active
  <2> QED
    BY <2>1, <2>2
<1> QED
  BY <1>1, <1>2, <1>6, <1>7, <1>8 DEF PInv

(* A task gives the mutex back without an execution.                       *)
LEMMA SkipStep == ASSUME PInv, NEW t \in Tasks, Skip(t) PROVE PInv'
<1>1. /\ UNCHANGED <<started, stopped, tasks, uses, memory, server>>
      /\ Tasks' = Tasks
      /\ t # 0
      /\ at' = [at EXCEPT ![t] = "done"]
      /\ TypeOK /\ StartupGoing /\ Excluded /\ Reloading
  BY DEF PInv, Skip, Goto, Tasks
<1>2. TypeOK'
  BY <1>1 DEF TypeOK
<1>3. at'[t] = "done" /\ \A s \in Tasks \ {t} : at'[s] = at[s]
  BY <1>1 DEF TypeOK
<1>4. \A s : Process(s)' = Process(s)
  BY <1>1 DEF Process
<1>5. Excluded' /\ Reloading'
  BY <1>1, <1>3, <1>4 DEF Excluded, Reloading, Active
<1>6. StartupGoing'
  BY <1>1, <1>3, TasksType DEF StartupGoing, Active
<1> QED
  BY <1>1, <1>2, <1>5, <1>6 DEF PInv

(* A task leaves its execution.                                            *)
LEMMA LeaveEffect ==
  ASSUME PInv, NEW t \in Tasks, Active(t), Leave(t), UNCHANGED tasks
  PROVE  /\ started' \in 0 .. Len(Startup)
         /\ at' \in [Tasks -> {"lock", "run", "reload", "done"}]
         /\ uses' \in [Tasks -> Bodies \cup {File}]
         /\ \A s \in Tasks \ {t} : uses'[s] = uses[s]
         /\ at'[t] \in {"lock", "done"}
         /\ t # 0 => at'[t] = "done" /\ started' = started
         /\ \A s \in Tasks \ {t} : at'[s] = at[s] /\ Process(s)' = Process(s)
         /\ t # 0 => Process(t)' = Process(t)
         /\ Tasks' = Tasks
<1>1. /\ started \in 0 .. Len(Startup) /\ Len(Startup) \in Nat
      /\ at \in [Tasks -> {"lock", "run", "reload", "done"}]
      /\ uses \in [Tasks -> Bodies \cup {File}]
      /\ uses' = [uses EXCEPT ![t] = File]
      /\ Active(0) => started < Len(Startup)
  BY ProcessConstants DEF PInv, TypeOK, StartupGoing, Leave
<1>2. \A s \in Tasks : s \in Nat
  BY TasksType
<1>3. CASE t = 0
  BY <1>1, <1>2, <1>3 DEF Leave, Goto, Process, Tasks
<1>4. CASE t # 0
  BY <1>1, <1>2, <1>4 DEF Leave, Goto, Process, Tasks
<1> QED
  BY <1>3, <1>4

(* An execution ends.                                                      *)
LEMMA EndStep == ASSUME PInv, NEW t \in Tasks, End(t) PROVE PInv'
<1>1. /\ UNCHANGED <<stopped, tasks, memory, server>>
      /\ at[t] = "run" /\ Leave(t) /\ Active(t)
      /\ TypeOK /\ Len(tasks) <= MaxTasks /\ StartupGoing /\ Excluded /\ Reloading
      /\ memory \in Versions => memory <= server
  BY DEF PInv, End, Active
<1>2. /\ started' \in 0 .. Len(Startup)
      /\ at' \in [Tasks -> {"lock", "run", "reload", "done"}]
      /\ uses' \in [Tasks -> Bodies \cup {File}]
      /\ \A s \in Tasks \ {t} : uses'[s] = uses[s]
      /\ at'[t] \in {"lock", "done"}
      /\ t # 0 => at'[t] = "done" /\ started' = started
      /\ \A s \in Tasks \ {t} : at'[s] = at[s] /\ Process(s)' = Process(s)
      /\ Tasks' = Tasks
  BY <1>1, LeaveEffect
<1>3. TypeOK'
  BY <1>1, <1>2 DEF TypeOK
<1>4. \A s \in Tasks : Active(s)' => s # t /\ Active(s)
  BY <1>2 DEF Active
<1>5. StartupGoing'
  BY <1>1, <1>2, <1>4, TasksType DEF StartupGoing
<1>6. Excluded'
  BY <1>1, <1>2, <1>4 DEF Excluded
<1>7. Reloading'
  BY <1>1, <1>2 DEF Reloading
<1> QED
  BY <1>1, <1>3, <1>5, <1>6, <1>7 DEF PInv

(* The server answers a poll.                                              *)
LEMMA PollStep == ASSUME PInv, NEW t \in Tasks, Poll(t) PROVE PInv'
<1>1. PICK body \in {server, Defaults, Unparsed} : uses' = [uses EXCEPT ![t] = body]
  BY DEF Poll
<1>2. /\ UNCHANGED <<started, stopped, tasks, memory, server>>
      /\ Tasks' = Tasks
      /\ at[t] = "run" /\ Process(t) = "poll"
      /\ at' = [at EXCEPT ![t] = "reload"]
      /\ TypeOK /\ Len(tasks) <= MaxTasks /\ StartupGoing /\ Excluded /\ Reloading
      /\ memory \in Versions => memory <= server
      /\ server \in Versions
  BY DEF PInv, TypeOK, Poll, Goto, Tasks
<1>3. TypeOK'
  BY <1>1, <1>2 DEF TypeOK, Bodies
<1>4. /\ at'[t] = "reload" /\ uses'[t] = body
      /\ \A s \in Tasks \ {t} : at'[s] = at[s] /\ uses'[s] = uses[s]
  BY <1>1, <1>2 DEF TypeOK
<1>5. \A s : Process(s)' = Process(s)
  BY <1>2 DEF Process
<1>6. \A s \in Tasks : Active(s)' <=> Active(s)
  BY <1>2, <1>4 DEF Active
<1>7. body \in Versions => body = server /\ server <= server
  BY <1>2, ProcessConstants
<1>8. Reloading'
  BY <1>2, <1>4, <1>5, <1>7 DEF Reloading
<1>9. Excluded' /\ StartupGoing'
  BY <1>2, <1>5, <1>6, TasksType DEF Excluded, StartupGoing
<1> QED
  BY <1>2, <1>3, <1>8, <1>9 DEF PInv

(* The reply is put into memory.                                           *)
LEMMA ReloadStep ==
  ASSUME PInv, NEW t \in Tasks, Reload(t)
  PROVE  /\ PInv'
         /\ memory \in Versions /\ memory' \in Versions => memory <= memory'
<1>1. /\ UNCHANGED <<stopped, tasks, server>>
      /\ at[t] = "reload" /\ Leave(t) /\ Active(t)
      /\ memory' = IF uses[t] = Unparsed THEN memory ELSE uses[t]
      /\ TypeOK /\ Len(tasks) <= MaxTasks /\ StartupGoing /\ Excluded /\ Reloading
      /\ memory \in Versions => memory <= server
  BY DEF PInv, Reload, Active
<1>2. /\ started' \in 0 .. Len(Startup)
      /\ at' \in [Tasks -> {"lock", "run", "reload", "done"}]
      /\ uses' \in [Tasks -> Bodies \cup {File}]
      /\ \A s \in Tasks \ {t} : uses'[s] = uses[s]
      /\ at'[t] \in {"lock", "done"}
      /\ \A s \in Tasks \ {t} : at'[s] = at[s] /\ Process(s)' = Process(s)
      /\ t # 0 => started' = started
      /\ Tasks' = Tasks
  BY <1>1, LeaveEffect
<1>3. uses[t] \in Bodies \cup {File} /\ server \in Versions
  BY <1>1 DEF TypeOK
<1>4. TypeOK'
  BY <1>1, <1>2, <1>3 DEF TypeOK, Bodies
<1>5. \A s \in Tasks : Active(s)' => s # t /\ Active(s)
  BY <1>2 DEF Active
<1>6. Process(t) = "poll"
  BY <1>1 DEF Reloading
<1>7. \A s \in Tasks : at'[s] # "reload"
  BY <1>1, <1>2, <1>6 DEF Reloading, Excluded, Active
<1>8. Reloading' /\ Excluded' /\ StartupGoing'
  BY <1>1, <1>2, <1>5, <1>7, TasksType DEF Reloading, Excluded, StartupGoing
<1>9. memory' \in Versions => memory' <= server /\ (memory \in Versions => memory <= memory')
  <2>1. CASE uses[t] = Unparsed
    <3>1. memory' = memory /\ server' = server
      BY <1>1, <2>1
    <3>2. memory \in Versions => memory \in Nat
      BY ProcessConstants
    <3>3. memory \in Versions => memory <= server
      BY <1>1
    <3>4. memory \in Nat => memory <= memory
      OBVIOUS
    <3> QED
      BY <3>1, <3>2, <3>3, <3>4
  <2>2. CASE uses[t] # Unparsed
    BY <1>1, <2>2 DEF Reloading
  <2> QED
    BY <2>1, <2>2
<1> QED
  BY <1>1, <1>4, <1>8, <1>9 DEF PInv

(* The configuration on the server changes, or the program ends.           *)
LEMMA ChangeStep == ASSUME PInv, Change \/ Stop PROVE PInv'
<1>1. /\ UNCHANGED <<started, tasks, at, uses, memory>>
      /\ Tasks' = Tasks
      /\ TypeOK /\ Len(tasks) <= MaxTasks /\ StartupGoing /\ Excluded /\ Reloading
      /\ memory \in Versions => memory <= server
      /\ server \in Versions
  BY DEF PInv, TypeOK, Change, Stop, Tasks
<1>2. server' \in Versions /\ server <= server'
  BY <1>1, ProcessConstants DEF Change, Stop, Versions
<1>3. TypeOK'
  BY <1>1, <1>2 DEF TypeOK, Change, Stop
<1>4. \A s : (Process(s)' = Process(s)) /\ (Active(s)' <=> Active(s))
  BY <1>1 DEF Process, Active
<1>5. Excluded' /\ StartupGoing'
  BY <1>1, <1>4 DEF Excluded, StartupGoing
<1>6. \A v \in Versions : v <= server => v <= server'
  BY <1>1, <1>2, ProcessConstants
<1>7. Reloading'
  BY <1>1, <1>4, <1>6 DEF Reloading
<1> QED
  BY <1>1, <1>3, <1>5, <1>6, <1>7 DEF PInv

(* Every step of the processes keeps the invariant and no configuration is *)
(* replaced by an older one.                                               *)
LEMMA ProcessStep ==
  ASSUME PInv, [Next]_vars
  PROVE  /\ PInv'
         /\ vars' # vars /\ {memory, memory'} \subseteq Versions => memory' >= memory
<1>0. memory \in Versions => memory <= memory
  BY ProcessConstants
<1>1. CASE UNCHANGED vars
  BY <1>1 DEF vars, PInv, TypeOK, StartupGoing, Excluded, Reloading, Active, Process, Tasks
<1>2. ASSUME NEW p \in Names, Tick(p) PROVE PInv' /\ memory' = memory
  BY <1>2, TickStep DEF Tick
<1>3. ASSUME NEW t \in Tasks, Begin(t) \/ Skip(t) \/ End(t) \/ Poll(t)
      PROVE  PInv' /\ memory' = memory
  BY <1>3, BeginStep, SkipStep, EndStep, PollStep DEF Begin, Skip, End, Poll
<1>4. ASSUME NEW t \in Tasks, Reload(t)
      PROVE  PInv' /\ (memory \in Versions /\ memory' \in Versions => memory <= memory')
  BY <1>4, ReloadStep
<1>5. ASSUME Change \/ Stop PROVE PInv' /\ memory' = memory
  BY <1>5, ChangeStep DEF Change, Stop
<1>6. PInv' /\ (memory \in Versions /\ memory' \in Versions => vars' = vars \/ memory <= memory')
  BY <1>0, <1>1, <1>2, <1>3, <1>4, <1>5 DEF Next, Run, Change, Stop
<1> QED
  BY <1>6, ProcessConstants


-----------------------------------------------------------------------------
Configuration(t, d) == <<t, d, "configuration">>
TariffOf(t, d) == <<t, d, "tariff">>

(* A write is sent and executed only when it was asked, wholly executed    *)
(* once answered, and not sent again.                                      *)
AnswersTrue ==
  \A r \in Requests :
    /\ caller[r] = "idle" => sent[r] = {} /\ applied[r] = {} /\ r \notin open
    /\ caller[r] = "done" => applied[r] = 1 .. Size[r] /\ r \notin open
    /\ r[2] \in Good => caller[r] \in {"idle", "waiting", "done"}

(* Only an execution of daily or nightly has devices.                      *)
StagesStarted ==
  \A t \in 1 .. MaxTasks :
    DOMAIN stage[t] # {} => t \in Tasks /\ at[t] \in {"run", "done"} /\ Tariff(t)

(* How far the writes of a device have come.                               *)
StagesReached ==
  \A t \in 1 .. MaxTasks, d \in Devices :
    /\ caller[TariffOf(t, d)] # "idle" => caller[Configuration(t, d)] = "done"
    /\ d \in DOMAIN stage[t] =>
         /\ stage[t][d] \in {"tariff", "written"} => caller[Configuration(t, d)] = "done"
         /\ stage[t][d] = "written" => caller[TariffOf(t, d)] = "done"
         /\ d \in Good => stage[t][d] # "failed"

(* An execution is over when all of its devices are settled.               *)
OverSettled == \A t \in Tasks \ {0} : at[t] = "done" => Settled(t)

WInv ==
  /\ AnswersTrue
  /\ Good \subseteq bound

SInv ==
  /\ StagesStarted
  /\ StagesReached
  /\ OverSettled

TInv ==
  /\ PInv
  /\ TariffsTypeOK
  /\ WInv
  /\ SInv

Stagings ==
  /\ DOMAIN stage = 1 .. MaxTasks
  /\ \A t \in 1 .. MaxTasks :
       DOMAIN stage[t] \subseteq Devices /\ \A d \in DOMAIN stage[t] : stage[t][d] \in Stages

Workers ==
  /\ caller \in [Requests -> {"idle", "waiting", "done", "failed", "gone"}]
  /\ open \subseteq Requests
  /\ DOMAIN sent = Requests
  /\ DOMAIN applied = Requests
  /\ \A r \in Requests : sent[r] \cup applied[r] \subseteq 1 .. Size[r]

-----------------------------------------------------------------------------
(* TypeOK by its parts.                                                    *)
LEMMA TypeParts ==
  TariffsTypeOK <=> TypeOK /\ Stagings /\ bound \subseteq Devices /\ Workers
BY DEF TariffsTypeOK, Stagings, Workers

(* The writes.                                                             *)
LEMMA RequestTypes ==
  ASSUME NEW t \in 1 .. MaxTasks, NEW d \in Devices
  PROVE  /\ Configuration(t, d) \in Requests
         /\ TariffOf(t, d) \in Requests
         /\ Configuration(t, d)[2] = d /\ TariffOf(t, d)[2] = d
         /\ Size[Configuration(t, d)] = Lengths["configuration"]
         /\ Size[TariffOf(t, d)] = Lengths["tariff"]
         /\ \A i \in 1 .. MaxTasks, e \in Devices :
              /\ Configuration(i, e) # TariffOf(t, d)
              /\ Configuration(i, e) = Configuration(t, d) => i = t /\ e = d
              /\ TariffOf(i, e) = TariffOf(t, d) => i = t /\ e = d
<1>1. Configuration(t, d) \in Requests /\ TariffOf(t, d) \in Requests
  BY DEF Configuration, TariffOf, Requests, Lists
<1>2. Configuration(t, d)[3] = "configuration" /\ TariffOf(t, d)[3] = "tariff"
  BY DEF Configuration, TariffOf
<1> QED
  BY <1>1, <1>2 DEF Configuration, TariffOf, Size

(* The write at hand.                                                      *)
LEMMA WriteIs ==
  ASSUME Stagings, PInv, NEW t \in Tasks, NEW d \in Devices, Running(t, d)
  PROVE  /\ t \in 1 .. MaxTasks
         /\ d \in DOMAIN stage[t]
         /\ Write(t, d) \in Requests /\ Write(t, d)[2] = d
         /\ \/ stage[t][d] = "configuration" /\ Write(t, d) = Configuration(t, d)
            \/ stage[t][d] = "tariff" /\ Write(t, d) = TariffOf(t, d)
<1>1. t \in 1 .. MaxTasks /\ d \in DOMAIN stage[t] /\ stage[t][d] \in Lists
  BY TasksType DEF Running
<1> QED
  BY <1>1, RequestTypes DEF Write, Lists, Configuration, TariffOf

-----------------------------------------------------------------------------
(* The workers answer what they executed, and good devices.                *)
LEMMA WorkInv ==
  ASSUME Workers, AnswersTrue, NEW r \in Requests, Work(r)
  PROVE  Workers' /\ AnswersTrue'
<1>1. CASE Server!Answer(r)
  <2>1. /\ caller[r] = "waiting"
        /\ caller' = [caller EXCEPT ![r] = "done"]
        /\ open' = open \ {r}
        /\ UNCHANGED <<sent, applied>>
        /\ applied[r] = 1 .. Size[r]
    BY <1>1 DEF Server!Answer, Kind
  <2> QED
    BY <2>1 DEF Workers, AnswersTrue
<1>2. ASSUME NEW part \in 1 .. Size[r], Server!Execute(r, part)
      PROVE  Workers' /\ AnswersTrue'
  <2>1. /\ part \in sent[r]
        /\ applied' = [applied EXCEPT ![r] = @ \cup {part}]
        /\ UNCHANGED <<caller, open, sent>>
    BY <1>2 DEF Server!Execute
  <2>2. /\ DOMAIN applied' = Requests
        /\ applied'[r] = applied[r] \cup {part}
        /\ \A q \in Requests \ {r} : applied'[q] = applied[q]
    BY <2>1 DEF Workers
  <2>3. Workers'
    BY <2>1, <2>2 DEF Workers
  <2>4. caller[r] = "done" => applied'[r] = 1 .. Size[r]
    BY <2>2 DEF AnswersTrue
  <2>5. caller[r] # "idle"
    BY <2>1 DEF AnswersTrue
  <2>6. AnswersTrue'
    BY <2>1, <2>2, <2>4, <2>5 DEF AnswersTrue
  <2> QED
    BY <2>3, <2>6
<1>3. ASSUME NEW part \in 1 .. Size[r], Server!Forward(r, part)
      PROVE  Workers' /\ AnswersTrue'
  <2>1. /\ r \in open
        /\ sent' = [sent EXCEPT ![r] = @ \cup {part}]
        /\ UNCHANGED <<caller, open, applied>>
    BY <1>3 DEF Server!Forward
  <2>2. /\ DOMAIN sent' = Requests
        /\ sent'[r] = sent[r] \cup {part}
        /\ \A q \in Requests \ {r} : sent'[q] = sent[q]
    BY <2>1 DEF Workers
  <2> QED
    BY <2>1, <2>2 DEF Workers, AnswersTrue
<1> QED
  BY <1>1, <1>2, <1>3 DEF Work

(* The workers of other devices drop writes.                               *)
LEMMA DropInv ==
  ASSUME Workers, AnswersTrue, NEW some \in SUBSET open, DropWrites(some)
  PROVE  Workers' /\ AnswersTrue'
<1>1. /\ caller' = [r \in Requests |->
                      IF r \in some /\ caller[r] = "waiting" THEN "failed" ELSE caller[r]]
      /\ open' = open \ some
      /\ UNCHANGED <<sent, applied>>
      /\ \A r \in some : r[2] \notin Good
  BY DEF DropWrites, Server!Drop
<1> QED
  BY <1>1 DEF Workers, AnswersTrue

(* A write is sent.                                                        *)
LEMMA SendInv ==
  ASSUME Workers, AnswersTrue, NEW r \in Requests, Server!Ask(r),
         r[2] \in Good => caller'[r] = "waiting"
  PROVE  /\ Workers' /\ AnswersTrue'
         /\ caller[r] = "idle"
         /\ \A q \in Requests \ {r} : caller'[q] = caller[q]
<1>1. CASE caller' = [caller EXCEPT ![r] = "waiting"] /\ open' = open \cup {r}
  BY <1>1 DEF Workers, AnswersTrue, Server!Ask
<1>2. CASE caller' = [caller EXCEPT ![r] = "failed"] /\ open' = open
  BY <1>2 DEF Workers, AnswersTrue, Server!Ask
<1> QED
  BY <1>1, <1>2 DEF Server!Ask

(* A write is left.                                                        *)
LEMMA LeaveInv ==
  ASSUME Workers, AnswersTrue, NEW r \in Requests, Server!Leave(r), r[2] \notin Good
  PROVE  /\ Workers' /\ AnswersTrue'
         /\ caller[r] \in {"idle", "waiting"}
         /\ \A q \in Requests \ {r} : caller'[q] = caller[q]
<1>1. /\ caller[r] \in {"idle", "waiting"}
      /\ caller' = [caller EXCEPT ![r] = "gone"]
      /\ UNCHANGED <<open, sent, applied>>
  BY DEF Server!Leave
<1> QED
  BY <1>1 DEF Workers, AnswersTrue


-----------------------------------------------------------------------------
(* The devices of an execution go on, one write at a time.                 *)
LEMMA FollowingIs ==
  /\ Following("configuration", TRUE) = "tariff"
  /\ Following("tariff", TRUE) = "written"
  /\ \A list \in Lists : Following(list, FALSE) = "failed"
BY DEF Following, Lists

(* A device is staged anew.                                                *)
LEMMA StageAfter ==
  ASSUME Stagings, NEW t \in 1 .. MaxTasks, NEW d \in DOMAIN stage[t],
         NEW next \in Stages, stage' = [stage EXCEPT ![t][d] = next]
  PROVE  /\ Stagings'
         /\ DOMAIN stage'[t] = DOMAIN stage[t]
         /\ stage'[t][d] = next
         /\ \A e \in DOMAIN stage[t] \ {d} : stage'[t][e] = stage[t][e]
         /\ \A i \in (1 .. MaxTasks) \ {t} : stage'[i] = stage[i]
<1>1. stage'[t] = [stage[t] EXCEPT ![d] = next]
  BY DEF Stagings
<1>2. /\ DOMAIN stage' = 1 .. MaxTasks
      /\ \A i \in (1 .. MaxTasks) \ {t} : stage'[i] = stage[i]
  BY DEF Stagings
<1>3. /\ DOMAIN stage'[t] = DOMAIN stage[t]
      /\ stage'[t][d] = next
      /\ \A e \in DOMAIN stage[t] \ {d} : stage'[t][e] = stage[t][e]
  BY <1>1
<1>4. \A e \in DOMAIN stage[t] : stage'[t][e] \in Stages
  BY <1>3 DEF Stagings
<1> QED
  BY <1>2, <1>3, <1>4 DEF Stagings

(* The first write of every device is at hand.                             *)
LEMMA FetchInv ==
  ASSUME PInv, Stagings, SInv, NEW t \in Tasks, Fetch(t)
  PROVE  Stagings' /\ SInv'
<1>1. /\ t \in 1 .. MaxTasks /\ at[t] = "run" /\ Tariff(t)
      /\ stage' = [stage EXCEPT ![t] = [d \in Known(uses[t]) |-> "configuration"]]
      /\ UNCHANGED <<processes, workers>>
  BY TasksType DEF Fetch
<1>2. UNCHANGED <<started, stopped, tasks, at, uses, memory, server, caller>>
  BY <1>1 DEF processes, workers
<1>3. /\ DOMAIN stage' = 1 .. MaxTasks
      /\ stage'[t] = [d \in Known(uses[t]) |-> "configuration"]
      /\ \A i \in (1 .. MaxTasks) \ {t} : stage'[i] = stage[i]
  BY <1>1 DEF Stagings
<1>4. /\ DOMAIN stage'[t] \subseteq Devices
      /\ \A d \in DOMAIN stage'[t] : stage'[t][d] = "configuration"
  BY <1>3 DEF Known
<1>5. Stagings'
  BY <1>3, <1>4 DEF Stagings, Stages, Lists
<1>6. /\ Tasks' = Tasks
      /\ \A i : Process(i)' = Process(i) /\ (Tariff(i)' <=> Tariff(i))
  BY <1>2 DEF Tasks, Process, Tariff
<1>7. StagesStarted'
  BY <1>1, <1>2, <1>3, <1>6 DEF SInv, StagesStarted
<1>8. StagesReached'
  BY <1>2, <1>3, <1>4 DEF SInv, StagesReached
<1>9. OverSettled'
  <2>1. \A i \in Tasks \ {0} : i \in 1 .. MaxTasks
    BY TasksType
  <2> QED
    BY <1>1, <1>2, <1>3, <1>6, <2>1 DEF SInv, OverSettled, Settled
<1> QED
  BY <1>5, <1>7, <1>8, <1>9 DEF SInv

(* A device is settled or goes on to its tariff: only an answer lets it.   *)
LEMMA StageInv ==
  ASSUME PInv, Stagings, Workers, AnswersTrue, SInv,
         NEW t \in Tasks, NEW d \in Devices, Running(t, d), NEW ok \in BOOLEAN,
         stage' = [stage EXCEPT ![t][d] = Following(@, ok)],
         ok => caller'[Write(t, d)] = "done",
         ok \/ d \notin Good,
         UNCHANGED processes,
         \A q \in Requests \ {Write(t, d)} : caller'[q] = caller[q],
         caller'[Write(t, d)] \in {caller[Write(t, d)], "gone"},
         caller[Write(t, d)] = "done" => caller'[Write(t, d)] = "done"
  PROVE  Stagings' /\ SInv'
<1>1. /\ t \in 1 .. MaxTasks
      /\ d \in DOMAIN stage[t]
      /\ Write(t, d) \in Requests
      /\ \/ stage[t][d] = "configuration" /\ Write(t, d) = Configuration(t, d)
         \/ stage[t][d] = "tariff" /\ Write(t, d) = TariffOf(t, d)
  BY WriteIs
<1> DEFINE next == Following(stage[t][d], ok)
<1>2. /\ next \in Stages \ {"configuration"}
      /\ ~ok => next = "failed"
      /\ ok /\ stage[t][d] = "configuration" => next = "tariff"
      /\ ok /\ stage[t][d] = "tariff" => next = "written"
  <2>1. ok = TRUE \/ ok = FALSE
    OBVIOUS
  <2> QED
    BY <1>1, <2>1, FollowingIs DEF Stages, Lists
<1>3. stage' = [stage EXCEPT ![t][d] = next]
  OBVIOUS
<1> HIDE DEF next
<1>4. /\ Stagings'
      /\ DOMAIN stage'[t] = DOMAIN stage[t]
      /\ stage'[t][d] = next
      /\ \A e \in DOMAIN stage[t] \ {d} : stage'[t][e] = stage[t][e]
      /\ \A i \in (1 .. MaxTasks) \ {t} : stage'[i] = stage[i]
  <2>1. t \in 1 .. MaxTasks /\ d \in DOMAIN stage[t] /\ next \in Stages
    BY <1>1, <1>2
  <2>2. Stagings
    OBVIOUS
  <2> QED
    BY ONLY <1>3, <2>1, <2>2, StageAfter
<1>5. UNCHANGED <<started, stopped, tasks, at, uses, memory, server>>
  BY DEF processes
<1>6. /\ Tasks' = Tasks
      /\ \A i : Process(i)' = Process(i) /\ (Tariff(i)' <=> Tariff(i))
  BY <1>5 DEF Tasks, Process, Tariff
<1>7. StagesStarted'
  BY <1>1, <1>4, <1>5, <1>6 DEF SInv, StagesStarted
<1>8. OverSettled'
  <2>1. at[t] = "run" /\ \A i \in Tasks \ {0} : i \in 1 .. MaxTasks
    BY TasksType DEF Running
  <2> QED
    BY <1>4, <1>5, <1>6, <2>1 DEF SInv, OverSettled, Settled
<1>9. \A q \in Requests : caller[q] = "done" => caller'[q] = "done"
  OBVIOUS
<1>10. ASSUME NEW i \in 1 .. MaxTasks, NEW e \in Devices
       PROVE  /\ caller'[TariffOf(i, e)] # "idle" => caller'[Configuration(i, e)] = "done"
              /\ e \in DOMAIN stage'[i] =>
                   /\ stage'[i][e] \in {"tariff", "written"}
                        => caller'[Configuration(i, e)] = "done"
                   /\ stage'[i][e] = "written" => caller'[TariffOf(i, e)] = "done"
                   /\ e \in Good => stage'[i][e] # "failed"
  <2>1. /\ TariffOf(i, e) \in Requests /\ Configuration(i, e) \in Requests
        /\ TariffOf(i, e) # Write(t, d) \/ stage[t][d] = "tariff"
    BY <1>1, RequestTypes
  <2>2. /\ caller[TariffOf(i, e)] # "idle" => caller[Configuration(i, e)] = "done"
        /\ e \in DOMAIN stage[i] =>
             /\ stage[i][e] \in {"tariff", "written"} => caller[Configuration(i, e)] = "done"
             /\ stage[i][e] = "written" => caller[TariffOf(i, e)] = "done"
             /\ e \in Good => stage[i][e] # "failed"
    BY DEF SInv, StagesReached
  <2>3. CASE i = t /\ e = d
    BY <1>1, <1>2, <1>4, <1>9, <2>1, <2>2, <2>3
  <2>4. CASE ~(i = t /\ e = d)
    <3>1. TariffOf(i, e) # Write(t, d) /\ Configuration(i, e) # Write(t, d)
      BY <1>1, <2>4, RequestTypes
    <3>2. /\ caller'[TariffOf(i, e)] = caller[TariffOf(i, e)]
          /\ caller'[Configuration(i, e)] = caller[Configuration(i, e)]
      BY <2>1, <3>1
    <3>3. e \in DOMAIN stage'[i] => e \in DOMAIN stage[i] /\ stage'[i][e] = stage[i][e]
      BY <1>4, <2>4
    <3> QED
      BY <2>2, <3>2, <3>3
  <2> QED
    BY <2>3, <2>4
<1>11. StagesReached'
  BY <1>10 DEF StagesReached, TariffOf, Configuration
<1> QED
  BY <1>4, <1>7, <1>8, <1>11 DEF SInv
(* The workers answer, or a write is sent.                                 *)
LEMMA CallerInv ==
  ASSUME PInv, Stagings, SInv, UNCHANGED <<processes, stage>>,
         \A q \in Requests : caller[q] = "done" => caller'[q] = "done",
         \A i \in 1 .. MaxTasks, e \in Devices :
           caller'[TariffOf(i, e)] # "idle" =>
             caller[TariffOf(i, e)] # "idle" \/ caller[Configuration(i, e)] = "done"
  PROVE  SInv'
<1>1. UNCHANGED <<started, stopped, tasks, at, uses, memory, server, stage>>
  BY DEF processes
<1>2. /\ Tasks' = Tasks
      /\ \A i : Process(i)' = Process(i) /\ (Tariff(i)' <=> Tariff(i))
  BY <1>1 DEF Tasks, Process, Tariff
<1>3. StagesStarted' /\ OverSettled'
  BY <1>1, <1>2 DEF SInv, StagesStarted, OverSettled, Settled
<1>4. ASSUME NEW i \in 1 .. MaxTasks, NEW e \in Devices
      PROVE  /\ caller'[TariffOf(i, e)] # "idle" => caller'[Configuration(i, e)] = "done"
             /\ e \in DOMAIN stage'[i] =>
                  /\ stage'[i][e] \in {"tariff", "written"}
                       => caller'[Configuration(i, e)] = "done"
                  /\ stage'[i][e] = "written" => caller'[TariffOf(i, e)] = "done"
                  /\ e \in Good => stage'[i][e] # "failed"
  <2>1. TariffOf(i, e) \in Requests /\ Configuration(i, e) \in Requests
    BY RequestTypes
  <2>2. /\ caller[TariffOf(i, e)] # "idle" => caller[Configuration(i, e)] = "done"
        /\ e \in DOMAIN stage[i] =>
             /\ stage[i][e] \in {"tariff", "written"} => caller[Configuration(i, e)] = "done"
             /\ stage[i][e] = "written" => caller[TariffOf(i, e)] = "done"
             /\ e \in Good => stage[i][e] # "failed"
    BY DEF SInv, StagesReached
  <2> QED
    BY <1>1, <2>1, <2>2
<1>5. StagesReached'
  BY <1>4 DEF StagesReached, TariffOf, Configuration
<1> QED
  BY <1>3, <1>5 DEF SInv

(* The processes go on without a step of the writes.                       *)
LEMMA QuietInv ==
  ASSUME PInv, SInv, UNCHANGED tariffs,
         \A i \in Tasks \ {0} :
           /\ i \in Tasks'
           /\ Process(i)' = Process(i)
           /\ DOMAIN stage[i] # {} => at'[i] \in {"run", "done"},
         \A i \in Tasks' \ {0} :
           at'[i] = "done" => Settled(i) \/ (i \in Tasks /\ at[i] = "done")
  PROVE  SInv'
<1>1. UNCHANGED <<stage, caller>>
  BY DEF tariffs, workers
<1>2. \A i \in Tasks \ {0} : Tariff(i)' <=> Tariff(i)
  BY DEF Tariff
<1>3. StagesReached'
  BY <1>1 DEF SInv, StagesReached
<1>4. StagesStarted'
  <2>1. \A i \in 1 .. MaxTasks : i # 0
    BY ProcessConstants
  <2> QED
    BY <1>1, <1>2, <2>1 DEF SInv, StagesStarted
<1>5. OverSettled'
  BY <1>1 DEF SInv, OverSettled, Settled
<1> QED
  BY <1>3, <1>4, <1>5 DEF SInv

(* Tasks that have no devices are settled.                                 *)
LEMMA EmptySettled ==
  ASSUME PInv, SInv, NEW t \in Tasks \ {0}, at[t] \notin {"run", "done"} \/ ~Tariff(t)
  PROVE  DOMAIN stage[t] = {} /\ Settled(t)
BY TasksType DEF SInv, StagesStarted, Settled

(* The processes' own steps.                                               *)
LEMMA ProcessesInv ==
  ASSUME PInv, SInv, UNCHANGED tariffs,
         \/ Change \/ Stop \/ \E p \in Names : Tick(p)
         \/ \E t \in Tasks : Begin(t) \/ Skip(t) \/ Poll(t) \/ Reload(t)
         \/ \E t \in Tasks : End(t) /\ (Tariff(t) => Settled(t))
  PROVE  SInv'
<1>0. /\ \A i \in Tasks \ {0} : DOMAIN stage[i] # {} => at[i] \in {"run", "done"}
      /\ at \in [Tasks -> {"lock", "run", "reload", "done"}]
  BY TasksType DEF SInv, StagesStarted, PInv, TypeOK
<1>1. CASE Change \/ Stop
  <2>1. UNCHANGED <<started, tasks, at>>
    BY <1>1 DEF Change, Stop
  <2> QED
    BY <1>0, <2>1, QuietInv DEF Tasks, Process
<1>2. ASSUME NEW p \in Names, Tick(p) PROVE SInv'
  <2> DEFINE n == Len(tasks)
  <2>1. /\ n \in Nat /\ Tasks = 0 .. n /\ tasks \in Seq(Names)
        /\ tasks' = Append(tasks, p)
    BY <1>2, TasksType DEF PInv, TypeOK, Tick
  <2>2. /\ Tasks' = 0 .. n + 1
        /\ \A i \in 1 .. n : tasks'[i] = tasks[i]
    BY <2>1 DEF Tasks
  <2>3. at' = [t \in 0 .. n + 1 |-> IF t \in Tasks THEN at[t] ELSE "lock"]
    BY <1>2 DEF Tick
  <2> HIDE DEF n
  <2>4. /\ \A i \in Tasks : i \in Tasks' /\ at'[i] = at[i]
        /\ \A i \in Tasks' : i \in Tasks \/ at'[i] = "lock"
    BY <2>1, <2>2, <2>3
  <2>5. \A i \in Tasks \ {0} : Process(i)' = Process(i)
    <3>1. \A i \in Tasks \ {0} : i \in 1 .. n /\ i > 0
      BY <2>1
    <3>2. \A i \in Tasks \ {0} : tasks'[i] = tasks[i]
      BY <2>2, <3>1
    <3> QED
      BY <3>1, <3>2 DEF Process
  <2> QED
    BY <1>0, <2>4, <2>5, QuietInv
<1>3. ASSUME NEW t \in Tasks, Begin(t) \/ Poll(t) PROVE SInv'
  <2>1. /\ UNCHANGED <<started, tasks>> /\ Tasks' = Tasks
        /\ at[t] \in {"lock", "run"}
        /\ \/ at[t] = "lock" /\ at' = [at EXCEPT ![t] = "run"]
           \/ Process(t) = "poll" /\ at' = [at EXCEPT ![t] = "reload"]
    BY <1>3 DEF Begin, Poll, Goto, Tasks
  <2>2. \A i : Process(i)' = Process(i)
    BY <2>1 DEF Process
  <2>3. t # 0 => DOMAIN stage[t] = {}
    BY <2>1, EmptySettled DEF Tariff
  <2>4. /\ at'[t] \in {"run", "reload"}
        /\ \A i \in Tasks \ {t} : at'[i] = at[i]
    BY <1>0, <2>1
  <2> QED
    BY <1>0, <2>1, <2>2, <2>3, <2>4, QuietInv
<1>4. ASSUME NEW t \in Tasks, Reload(t) \/ (End(t) /\ (Tariff(t) => Settled(t)))
      PROVE  SInv'
  <2>1. Leave(t) /\ UNCHANGED tasks /\ Active(t) /\ (Reload(t) => at[t] = "reload")
    BY <1>4 DEF Reload, End, Active
  <2>2. /\ at'[t] \in {"lock", "done"}
        /\ t # 0 => at'[t] = "done"
        /\ \A i \in Tasks \ {t} : at'[i] = at[i] /\ Process(i)' = Process(i)
        /\ t # 0 => Process(t)' = Process(t)
        /\ Tasks' = Tasks
    BY <2>1, LeaveEffect
  <2>3. t # 0 => Settled(t)
    <3>1. CASE Reload(t)
      BY <2>1, <3>1, EmptySettled
    <3>2. CASE End(t) /\ (Tariff(t) => Settled(t))
      BY <3>2, EmptySettled
    <3> QED
      BY <1>4, <3>1, <3>2
  <2> QED
    BY <1>0, <2>2, <2>3, QuietInv
<1>5. ASSUME NEW t \in Tasks, Skip(t) PROVE SInv'
  <2>1. /\ UNCHANGED <<started, tasks>> /\ Tasks' = Tasks
        /\ t # 0 /\ at[t] = "lock" /\ at' = [at EXCEPT ![t] = "done"]
    BY <1>5 DEF Skip, Goto, Tasks
  <2>2. \A i : Process(i)' = Process(i)
    BY <2>1 DEF Process
  <2>3. DOMAIN stage[t] = {} /\ Settled(t)
    BY <2>1, EmptySettled
  <2>4. at'[t] = "done" /\ \A i \in Tasks \ {t} : at'[i] = at[i]
    BY <1>0, <2>1
  <2> QED
    BY <1>0, <2>1, <2>2, <2>3, <2>4, QuietInv
<1> QED
  BY <1>1, <1>2, <1>3, <1>4, <1>5

-----------------------------------------------------------------------------
(* A write is sent to the worker of a device.                              *)
LEMMA SendStep ==
  ASSUME TInv, NEW t \in Tasks, NEW d \in Devices, Send(t, d)
  PROVE  Workers' /\ AnswersTrue' /\ SInv'
<1>1. /\ PInv /\ Stagings /\ Workers /\ AnswersTrue /\ SInv
      /\ Running(t, d) /\ Server!Ask(Write(t, d))
      /\ d \in Good => caller'[Write(t, d)] = "waiting"
      /\ UNCHANGED <<processes, stage>>
  BY TypeParts DEF TInv, WInv, Send
<1>2. /\ t \in 1 .. MaxTasks
      /\ d \in DOMAIN stage[t]
      /\ Write(t, d) \in Requests /\ Write(t, d)[2] = d
      /\ \/ stage[t][d] = "configuration" /\ Write(t, d) = Configuration(t, d)
         \/ stage[t][d] = "tariff" /\ Write(t, d) = TariffOf(t, d)
  BY <1>1, WriteIs
<1>3. /\ Workers' /\ AnswersTrue'
      /\ caller[Write(t, d)] = "idle"
      /\ \A q \in Requests \ {Write(t, d)} : caller'[q] = caller[q]
  BY <1>1, <1>2, SendInv
<1>4. \A q \in Requests : caller[q] = "done" => caller'[q] = "done"
  BY <1>3
<1>5. ASSUME NEW i \in 1 .. MaxTasks, NEW e \in Devices, caller'[TariffOf(i, e)] # "idle"
      PROVE  caller[TariffOf(i, e)] # "idle" \/ caller[Configuration(i, e)] = "done"
  <2>1. CASE TariffOf(i, e) # Write(t, d)
    BY <1>3, <1>5, <2>1, RequestTypes
  <2>2. CASE TariffOf(i, e) = Write(t, d)
    <3>1. i = t /\ e = d /\ stage[t][d] = "tariff"
      BY <1>2, <2>2, RequestTypes
    <3> QED
      BY <1>1, <1>2, <3>1 DEF SInv, StagesReached
  <2> QED
    BY <2>1, <2>2
<1>6. SInv'
  BY <1>1, <1>4, <1>5, CallerInv
<1> QED
  BY <1>3, <1>6

(* A write fails, or its answer is taken.                                  *)
LEMMA SettleStep ==
  ASSUME TInv, NEW t \in Tasks, NEW d \in Devices,
         NotFound(t, d) \/ TimeOut(t, d) \/ Settle(t, d)
  PROVE  Stagings' /\ Workers' /\ AnswersTrue' /\ SInv'
<1>1. /\ PInv /\ Stagings /\ Workers /\ AnswersTrue /\ SInv /\ Good \subseteq bound
      /\ Running(t, d) /\ UNCHANGED processes
  BY TypeParts DEF TInv, WInv, NotFound, TimeOut, Settle
<1>2. Write(t, d) \in Requests /\ Write(t, d)[2] = d
  BY <1>1, WriteIs
<1>3. CASE NotFound(t, d)
  <2>1. /\ stage' = [stage EXCEPT ![t][d] = Following(@, FALSE)]
        /\ d \notin Good /\ UNCHANGED <<caller, open, sent, applied>>
    BY <1>1, <1>3 DEF NotFound, workers
  <2>2. Stagings' /\ SInv'
    BY <1>1, <2>1, StageInv
  <2> QED
    BY <1>1, <2>1, <2>2 DEF Workers, AnswersTrue
<1>4. CASE TimeOut(t, d)
  <2>1. /\ stage' = [stage EXCEPT ![t][d] = Following(@, FALSE)]
        /\ d \notin Good /\ Server!Leave(Write(t, d))
    BY <1>4 DEF TimeOut
  <2>2. /\ Workers' /\ AnswersTrue'
        /\ caller[Write(t, d)] \in {"idle", "waiting"}
        /\ \A q \in Requests \ {Write(t, d)} : caller'[q] = caller[q]
    BY <1>1, <1>2, <2>1, LeaveInv
  <2>3. caller'[Write(t, d)] = "gone"
    BY <1>1, <1>2, <2>1 DEF Server!Leave, Workers
  <2>4. Stagings' /\ SInv'
    BY <1>1, <2>1, <2>2, <2>3, StageInv
  <2> QED
    BY <2>2, <2>4
<1>5. CASE Settle(t, d)
  <2> DEFINE ok == caller[Write(t, d)] = "done"
  <2>1. /\ stage' = [stage EXCEPT ![t][d] = Following(@, ok)]
        /\ caller[Write(t, d)] \in {"done", "failed"}
        /\ UNCHANGED <<caller, open, sent, applied>>
    BY <1>5 DEF Settle, workers
  <2>2. d \in Good => ok
    BY <1>1, <1>2, <2>1 DEF AnswersTrue
  <2>3. ok \in BOOLEAN /\ (ok => caller'[Write(t, d)] = "done")
    BY <2>1
  <2>4. /\ caller'[Write(t, d)] \in {caller[Write(t, d)], "gone"}
        /\ caller[Write(t, d)] = "done" => caller'[Write(t, d)] = "done"
        /\ \A q \in Requests \ {Write(t, d)} : caller'[q] = caller[q]
    BY <2>1
  <2> HIDE DEF ok
  <2>5. Stagings' /\ SInv'
    BY <1>1, <2>1, <2>2, <2>3, <2>4, StageInv
  <2> QED
    BY <1>1, <2>1, <2>5 DEF Workers, AnswersTrue
<1> QED
  BY <1>3, <1>4, <1>5

(* The workers go on, and devices come and go.                             *)
LEMMA OthersStep ==
  ASSUME TInv,
         \/ \E d \in Devices : Rebind(d)
         \/ \E r \in Requests : Work(r)
         \/ \E some \in SUBSET {r \in open : r[2] \notin Good} : DropWrites(some)
  PROVE  Stagings' /\ Workers' /\ AnswersTrue' /\ SInv'
<1>1. /\ PInv /\ Stagings /\ Workers /\ AnswersTrue /\ SInv
      /\ UNCHANGED <<processes, stage>>
  BY TypeParts DEF TInv, WInv, Rebind, Work, DropWrites
<1>2. Stagings'
  BY <1>1 DEF Stagings
<1>3. ASSUME NEW d \in Devices, Rebind(d) PROVE Workers' /\ AnswersTrue' /\ caller' = caller
  BY <1>1, <1>3 DEF Rebind, workers, Workers, AnswersTrue
<1>4. ASSUME NEW r \in Requests, Work(r)
      PROVE  /\ Workers' /\ AnswersTrue'
             /\ \A q \in Requests : caller'[q] = caller[q] \/ caller[q] = "waiting"
  <2>1. Workers' /\ AnswersTrue'
    BY <1>1, <1>4, WorkInv
  <2>2. \A q \in Requests : caller'[q] = caller[q] \/ caller[q] = "waiting"
    BY <1>1, <1>4 DEF Work, Server!Answer, Server!Forward, Server!Execute, Workers
  <2> QED
    BY <2>1, <2>2
<1>5. ASSUME NEW some \in SUBSET open, DropWrites(some)
      PROVE  /\ Workers' /\ AnswersTrue'
             /\ \A q \in Requests : caller'[q] = caller[q] \/ caller[q] = "waiting"
  <2>1. Workers' /\ AnswersTrue'
    BY <1>1, <1>5, DropInv
  <2>2. \A q \in Requests : caller'[q] = caller[q] \/ caller[q] = "waiting"
    BY <1>1, <1>5 DEF DropWrites, Server!Drop, Workers
  <2> QED
    BY <2>1, <2>2
<1>6. /\ Workers' /\ AnswersTrue'
      /\ \A q \in Requests : caller'[q] = caller[q] \/ caller[q] = "waiting"
  BY <1>3, <1>4, <1>5
<1>7. \A i \in 1 .. MaxTasks, e \in Devices : TariffOf(i, e) \in Requests
  BY RequestTypes
<1>8. SInv'
  BY <1>1, <1>6, <1>7, CallerInv
<1> QED
  BY <1>2, <1>6, <1>8

-----------------------------------------------------------------------------
(* What the steps do to the processes.                                     *)
LEMMA TNextIsNext == ASSUME [TNext]_tvars PROVE [Next]_vars
<1>1. CASE UNCHANGED tvars
  BY <1>1 DEF tvars, processes, vars
<1>2. CASE (Change \/ Stop \/ \E p \in Names : Tick(p)) /\ UNCHANGED tariffs
  BY <1>2 DEF Next
<1>3. ASSUME NEW t \in Tasks, RunTask(t) PROVE [Next]_vars
  BY <1>3 DEF RunTask, Fetch, EndTariff, Next, Run, vars, processes
<1>4. ASSUME NEW t \in Tasks, NEW d \in Devices, RunWrite(t, d) PROVE UNCHANGED vars
  BY <1>4 DEF RunWrite, Send, NotFound, TimeOut, Settle, vars, processes
<1>5. CASE (\E d \in Devices : Rebind(d)) \/ (\E r \in Requests : Work(r))
            \/ \E some \in SUBSET {r \in open : r[2] \notin Good} : DropWrites(some)
  BY <1>5 DEF Rebind, Work, DropWrites, vars, processes
<1> QED
  BY <1>1, <1>2, <1>3, <1>4, <1>5 DEF TNext, RunTasks
(* Startup begins with nothing staged.                                     *)
LEMMA TariffsInit == TInit => TInv
<1> SUFFICES ASSUME TInit PROVE TInv
  OBVIOUS
<1>1. PInv /\ TypeOK
  BY ProcessInit DEF TInit, PInv
<1>2. /\ stage = [t \in 1 .. MaxTasks |-> << >>]
      /\ bound = Good
      /\ caller = [r \in Requests |-> "idle"]
      /\ open = {}
      /\ sent = [r \in Requests |-> {}]
      /\ applied = [r \in Requests |-> {}]
  BY DEF TInit, Server!Init
<1>3. Workers /\ AnswersTrue
  BY <1>2 DEF Workers, AnswersTrue
<1>4. /\ DOMAIN stage = 1 .. MaxTasks
      /\ \A t \in 1 .. MaxTasks : stage[t] = << >>
  BY <1>2
<1>5. \A t \in 1 .. MaxTasks : DOMAIN stage[t] = {}
  BY <1>4
<1>6. Stagings
  BY <1>4, <1>5 DEF Stagings
<1>7. \A t \in 1 .. MaxTasks, d \in Devices : caller[TariffOf(t, d)] = "idle"
  BY <1>2, RequestTypes
<1>8. Tasks = {0}
  BY DEF TInit, Init, Tasks
<1>9. SInv
  BY <1>5, <1>7, <1>8 DEF SInv, StagesStarted, StagesReached, OverSettled
<1> QED
  BY <1>1, <1>2, <1>3, <1>6, <1>9, TypeParts, TariffsAssumption DEF TInv, WInv

(* Every step keeps the invariant.                                         *)
LEMMA TariffsStep == ASSUME TInv, [TNext]_tvars PROVE TInv'
<1>1. /\ PInv /\ Stagings /\ Workers /\ AnswersTrue /\ SInv
      /\ bound \subseteq Devices /\ Good \subseteq bound
  BY TypeParts DEF TInv, WInv
<1>2. PInv' /\ TypeOK'
  BY <1>1, TNextIsNext, ProcessStep DEF PInv
<1>3. bound' \subseteq Devices /\ Good \subseteq bound'
  <2>1. bound' = bound \/ \E d \in Devices : Rebind(d)
    BY DEF TNext, tvars, tariffs, RunTasks, RunTask, Fetch, EndTariff, RunWrite, Send,
           NotFound, TimeOut, Settle, Work, DropWrites
  <2> QED
    BY <1>1, <2>1 DEF Rebind
<1>4. ASSUME UNCHANGED tvars
      PROVE  Stagings' /\ Workers' /\ AnswersTrue' /\ SInv'
  <2>1. /\ UNCHANGED <<started, stopped, tasks, at, uses, memory, server>>
        /\ UNCHANGED <<stage, caller, open, sent, applied>>
    BY <1>4 DEF tvars, processes, tariffs, workers
  <2>2. Stagings' /\ Workers' /\ AnswersTrue'
    BY <1>1, <2>1 DEF Stagings, Workers, AnswersTrue
  <2>3. \A q \in Requests : caller[q] = "done" => caller'[q] = "done"
    BY <2>1
  <2>4. SInv'
    BY <1>1, <2>1, <2>3, CallerInv DEF processes
  <2> QED
    BY <2>2, <2>4
<1>5. ASSUME UNCHANGED tariffs, SInv' PROVE Stagings' /\ Workers' /\ AnswersTrue' /\ SInv'
  BY <1>1, <1>5 DEF tariffs, workers, Stagings, Workers, AnswersTrue
<1>6. ASSUME (Change \/ Stop \/ \E p \in Names : Tick(p)) /\ UNCHANGED tariffs
      PROVE  Stagings' /\ Workers' /\ AnswersTrue' /\ SInv'
  BY <1>1, <1>5, <1>6, ProcessesInv
<1>7. ASSUME NEW t \in Tasks, RunTask(t)
      PROVE  Stagings' /\ Workers' /\ AnswersTrue' /\ SInv'
  <2>1. CASE (Begin(t) \/ Skip(t) \/ Poll(t) \/ Reload(t)) /\ UNCHANGED tariffs
    BY <1>1, <1>5, <2>1, ProcessesInv
  <2>2. CASE EndTariff(t)
    BY <1>1, <1>5, <2>2, ProcessesInv DEF EndTariff
  <2>3. CASE Fetch(t)
    <3>1. UNCHANGED <<caller, open, sent, applied>>
      BY <2>3 DEF Fetch, workers
    <3> QED
      BY <1>1, <2>3, <3>1, FetchInv DEF Workers, AnswersTrue
  <2> QED
    BY <1>7, <2>1, <2>2, <2>3 DEF RunTask
<1>8. ASSUME NEW t \in Tasks, NEW d \in Devices, RunWrite(t, d)
      PROVE  Stagings' /\ Workers' /\ AnswersTrue' /\ SInv'
  <2>1. CASE Send(t, d)
    <3>1. stage' = stage
      BY <2>1 DEF Send
    <3> QED
      BY <1>1, <2>1, <3>1, SendStep DEF Stagings
  <2>2. CASE NotFound(t, d) \/ TimeOut(t, d) \/ Settle(t, d)
    BY <2>2, SettleStep
  <2> QED
    BY <1>8, <2>1, <2>2 DEF RunWrite
<1>9. ASSUME \/ \E d \in Devices : Rebind(d)
             \/ \E r \in Requests : Work(r)
             \/ \E some \in SUBSET {r \in open : r[2] \notin Good} : DropWrites(some)
      PROVE  Stagings' /\ Workers' /\ AnswersTrue' /\ SInv'
  BY <1>9, OthersStep
<1>10. Stagings' /\ Workers' /\ AnswersTrue' /\ SInv'
  BY <1>4, <1>6, <1>7, <1>8, <1>9 DEF TNext, RunTasks
<1>11. TariffsTypeOK'
  BY <1>2, <1>3, <1>10 DEF TariffsTypeOK, Stagings, Workers
<1> QED
  BY <1>2, <1>3, <1>10, <1>11 DEF TInv, WInv

(* The strengthened invariant holds throughout.                            *)
THEOREM TariffsInvariance == TSpec => []TInv
BY TariffsInit, TariffsStep, PTL DEF TSpec

(* Processes, devices and writes keep their types.                         *)
THEOREM TariffsTypeCorrect == TSpec => []TariffsTypeOK
<1>1. TInv => TariffsTypeOK
  BY DEF TInv
<1> QED
  BY <1>1, TariffsInvariance, PTL

(* A tariff is sent and executed only on top of its whole configuration.   *)
THEOREM TariffsInOrder == TSpec => []ConfigurationFirst
<1>1. ASSUME TInv, NEW t \in 1 .. MaxTasks, NEW d \in Devices,
             sent[TariffOf(t, d)] \cup applied[TariffOf(t, d)] # {}
      PROVE  /\ applied[Configuration(t, d)] = 1 .. Lengths["configuration"]
             /\ Configuration(t, d) \notin open
  <2>1. AnswersTrue /\ StagesReached
    BY <1>1 DEF TInv, WInv, SInv
  <2>2. caller[TariffOf(t, d)] # "idle"
    BY <1>1, <2>1, RequestTypes DEF AnswersTrue
  <2>3. caller[Configuration(t, d)] = "done"
    BY <2>1, <2>2 DEF StagesReached
  <2> QED
    BY <2>1, <2>3, RequestTypes DEF AnswersTrue
<1>2. TInv => ConfigurationFirst
  BY <1>1 DEF ConfigurationFirst, TariffOf, Configuration
<1> QED
  BY <1>2, TariffsInvariance, PTL

(* An execution that is over has written every good device.                *)
THEOREM TariffsWritten == TSpec => []GoodWritten
<1>1. ASSUME TInv, NEW t \in Tasks \ {0}, NEW d \in Good, at[t] = "done",
             d \in DOMAIN stage[t]
      PROVE  applied[TariffOf(t, d)] = 1 .. Lengths["tariff"]
  <2>1. /\ PInv /\ AnswersTrue /\ StagesReached /\ OverSettled
        /\ d \in Devices
    BY <1>1, TariffsAssumption DEF TInv, WInv, SInv
  <2>2. t \in 1 .. MaxTasks
    BY <2>1, TasksType
  <2>3. stage[t][d] = "written"
    BY <1>1, <2>1, <2>2 DEF OverSettled, Settled, StagesReached
  <2>4. caller[TariffOf(t, d)] = "done"
    BY <1>1, <2>1, <2>2, <2>3 DEF StagesReached
  <2> QED
    BY <2>1, <2>2, <2>4, RequestTypes DEF AnswersTrue
<1>2. TInv => GoodWritten
  BY <1>1 DEF GoodWritten, TariffOf
<1> QED
  BY <1>2, TariffsInvariance, PTL

(* The processes keep their types and never take an older configuration,   *)
(* alone and among the writes of tariffs.                                  *)
THEOREM ProcessInvariance == Spec => []PInv
BY ProcessInit, ProcessStep, PTL DEF Spec

(* Types of the processes.                                                 *)
THEOREM ProcessTypeCorrect == Spec => []TypeOK
<1>1. PInv => TypeOK
  BY DEF PInv
<1> QED
  BY <1>1, ProcessInvariance, PTL

(* No step of the writes replaces a configuration by an older one.         *)
THEOREM TariffsNeverOlder == TSpec => NeverOlder
<1>1. ASSUME TInv, [TNext]_tvars
      PROVE  [{memory, memory'} \subseteq Versions => memory' >= memory]_vars
  BY <1>1, TNextIsNext, ProcessStep DEF TInv
<1> QED
  BY <1>1, TariffsInvariance, PTL DEF TSpec, NeverOlder

(* Two executions of one process never overlap, however many ticks pile up *)
(* and however long an execution takes (process/mod.rs, the mutex).        *)
THEOREM ExecutionsExclude == Spec => []Excluded
<1>1. PInv => Excluded
  BY DEF PInv
<1> QED
  BY <1>1, ProcessInvariance, PTL

-----------------------------------------------------------------------------
(* Tariffs composes the processes with the workers: neither does a step    *)
(* that it could not do by itself.                                         *)
THEOREM TariffsImplementProcesses == TSpec => Spec
<1>1. TInit => Init
  BY DEF TInit
<1>2. [TNext]_tvars => [Next]_vars
  BY TNextIsNext
<1> QED
  BY <1>1, <1>2, PTL DEF TSpec, Spec

(* A write that is sent, left, worked on or dropped.                       *)
LEMMA ServerSteps ==
  ASSUME TInv, [TNext]_tvars
  PROVE  [Server!Next]_(Server!vars)
<1> SUFFICES Server!Next \/ UNCHANGED workers
  BY DEF Server!vars, workers
<1>0. PInv /\ Stagings
  BY TypeParts DEF TInv
<1>1. ASSUME NEW t \in Tasks, NEW d \in Devices, RunWrite(t, d)
      PROVE  Server!Next \/ UNCHANGED workers
  <2>1. Running(t, d) => Write(t, d) \in Requests
    BY <1>0, <1>1, WriteIs
  <2>2. CASE Send(t, d)
    BY <2>1, <2>2 DEF Send, Server!Next
  <2>3. CASE TimeOut(t, d)
    BY <2>1, <2>3 DEF TimeOut, Server!Next
  <2>4. CASE NotFound(t, d) \/ Settle(t, d)
    BY <2>4 DEF NotFound, Settle
  <2> QED
    BY <1>1, <2>2, <2>3, <2>4 DEF RunWrite
<1>2. ASSUME NEW t \in Tasks, RunTask(t)
      PROVE  UNCHANGED workers
  BY <1>2 DEF RunTask, Fetch, EndTariff, tariffs
<1>3. ASSUME NEW r \in Requests, Work(r)
      PROVE  Server!Next
  BY <1>3 DEF Work, Server!Next
<1>4. ASSUME NEW some \in SUBSET open, DropWrites(some)
      PROVE  Server!Next
  BY <1>4 DEF DropWrites, Server!Next
<1>5. ASSUME NEW d \in Devices, Rebind(d)
      PROVE  UNCHANGED workers
  BY <1>5 DEF Rebind
<1>6. CASE (Change \/ Stop \/ \E p \in Names : Tick(p)) /\ UNCHANGED tariffs
  BY <1>6 DEF tariffs
<1>7. CASE UNCHANGED tvars
  BY <1>7 DEF tvars, tariffs
<1> QED
  BY <1>1, <1>2, <1>3, <1>4, <1>5, <1>6, <1>7 DEF TNext, RunTasks

(* The writes of daily and nightly are requests as the workers serve them: *)
(* each is asked for once, and left or answered once (service.rs,          *)
(* write_to_worker).                                                       *)
THEOREM TariffsImplementServer == TSpec => Server!Spec
<1>1. TInit => Server!Init
  BY DEF TInit
<1>2. TInv /\ [TNext]_tvars => [Server!Next]_(Server!vars)
  BY ServerSteps
<1> QED
  BY <1>1, <1>2, TariffsInvariance, PTL DEF TSpec, Server!Spec

(* An open write has a caller that was told nothing.                       *)
OpenUntold == \A r \in open : caller[r] \in {"waiting", "gone"}

LEMMA UntoldStep ==
  ASSUME Workers, OpenUntold, [Server!Next]_(Server!vars)
  PROVE  /\ OpenUntold'
         /\ \A r \in Requests :
              caller[r] \in {"done", "failed"} =>
                /\ caller'[r] = caller[r]
                /\ sent'[r] = sent[r]
                /\ applied'[r] \subseteq applied[r] \cup sent[r]
<1> DEFINE Final ==
      \A r \in Requests :
        caller[r] \in {"done", "failed"} =>
          /\ caller'[r] = caller[r]
          /\ sent'[r] = sent[r]
          /\ applied'[r] \subseteq applied[r] \cup sent[r]
<1> USE DEF Workers, OpenUntold
<1>1. ASSUME NEW q \in Requests, Server!Ask(q)
      PROVE  OpenUntold' /\ Final
  BY <1>1 DEF Server!Ask
<1>2. ASSUME NEW q \in Requests, Server!Leave(q)
      PROVE  OpenUntold' /\ Final
  BY <1>2 DEF Server!Leave
<1>3. ASSUME NEW q \in Requests, Server!Answer(q)
      PROVE  OpenUntold' /\ Final
  BY <1>3 DEF Server!Answer
<1>4. ASSUME NEW q \in Requests, NEW part \in 1 .. Size[q], Server!Execute(q, part)
      PROVE  OpenUntold' /\ Final
  BY <1>4 DEF Server!Execute
<1>5. ASSUME NEW some \in SUBSET open, Server!Drop(some)
      PROVE  OpenUntold' /\ Final
  BY <1>5 DEF Server!Drop
<1>6. ASSUME NEW q \in Requests, NEW part \in 1 .. Size[q], Server!Forward(q, part)
      PROVE  OpenUntold' /\ Final
  BY <1>6 DEF Server!Forward
<1>7. CASE UNCHANGED Server!vars
  BY <1>7 DEF Server!vars
<1> QED
  BY <1>1, <1>2, <1>3, <1>4, <1>5, <1>6, <1>7 DEF Server!Next

(* What daily and nightly are told of a write is final for the worker: a   *)
(* write that was answered or came back with an error is told nothing else *)
(* and no record of it is sent any more.  Records that were sent by then   *)
(* may still be executed, after an answer as after an error, and of a      *)
(* write that timed out records may still be sent.                         *)
THEOREM WritesAreFinal == TSpec => Server!ToldIsFinal
<1> DEFINE Final ==
      \A r \in Requests :
        caller[r] \in {"done", "failed"} =>
          /\ caller'[r] = caller[r]
          /\ sent'[r] = sent[r]
          /\ applied'[r] \subseteq applied[r] \cup sent[r]
<1>1. TInit => OpenUntold
  BY DEF TInit, Server!Init, OpenUntold
<1>2. TInv => Workers
  BY TypeParts DEF TInv
<1>3. Workers /\ OpenUntold /\ [Server!Next]_(Server!vars) => OpenUntold' /\ [Final]_(Server!vars)
  BY UntoldStep
<1> HIDE DEF Final
<1>4. TSpec => [](Workers /\ OpenUntold)
  BY <1>1, <1>2, <1>3, TariffsInvariance, TariffsImplementServer, PTL DEF TSpec, Server!Spec
<1>5. TSpec => [][Final]_(Server!vars)
  BY <1>3, <1>4, TariffsImplementServer, PTL DEF Server!Spec
<1> QED
  BY <1>5 DEF Server!ToldIsFinal, Final
=============================================================================
