----------------------------- MODULE SharedServices -----------------------------
(***************************************************************************)
(* What the tasks of the UUT share beside their queues: the processor, the *)
(* CRC unit behind crcMutex, and the log - newlib's stdout on USART3 -     *)
(* behind logMutex.  FreeRTOS runs the ready task of the highest priority, *)
(* and a task that holds a mutex with the priority of those that wait for  *)
(* it.  The first task to run, defaultTask, creates the mutexes.           *)
(*                                                                         *)
(* A task is reduced to its calls of these services: a job is the sequence *)
(* of them that it makes for one message, and each is a few actions, since *)
(* the task may be preempted anywhere in between.                          *)
(***************************************************************************)
EXTENDS Naturals, Sequences

CONSTANTS
  Task,     \* the tasks of this instance
  MaxJobs   \* bound: the number of jobs of each task

Boot == "default"

Names == {"default", "listener", "responder", "dispatcher", "uart", "i2c", "spi", "adc", "tim"}

\* Mutant: all tasks have the priority of the test tasks.
PriorityFlat == [t \in Names |-> 24]

Priority ==
  [default |-> 35, listener |-> 34, responder |-> 34, dispatcher |-> 32,
   uart |-> 24, i2c |-> 24, spi |-> 24, adc |-> 24, tim |-> 24]

ASSUME TaskAssumption == Boot \in Task /\ Task \subseteq Names
ASSUME JobsAssumption == MaxJobs \in Nat

Mutex == {"crc", "log"}
NoTask == "none"

\* The calls of the services.
Service == {"compare",   \* Match_CRC
            "log",       \* LOG_INFO, LOG_WARN, LOG_ERR: safe_printf
            "print",     \* printf without safe_printf and without a newline
            "compute"}   \* neither

\* A piece of a buffer that the CRC unit is fed with: a preemption may fall between the two.
Piece == [task : Task, buf : {1, 2}, part : {"head", "tail"}]
OwnBuffer(t, b) == {[task |-> t, buf |-> b, part |-> part] : part \in {"head", "tail"}}

VARIABLES
  at,        \* where each task is
  todo,      \* the services its job still asks for
  jobs,      \* how many jobs it will still get
  lwip,      \* is lwIP initialised?
  exists,    \* the mutexes that are created
  holder,    \* who holds each mutex
  retrying,  \* the tasks in Match_CRC that log a timeout before they try again
  unit,      \* the pieces the CRC unit has been fed with since its reset
  sums,      \* the results of the two HAL_CRC_Calculate of each task: the pieces in them
  stdout,    \* the tasks whose stdout has its buffer
  bare,      \* ... and those in whose buffer text without a newline waits
  sender,    \* who is in HAL_UART_Transmit: gState is BUSY
  lost,      \* has a line been refused with HAL_BUSY?
  halted     \* Error_Handler or an assertion: interrupts off, for ever

mutexes == <<exists, holder>>
crcUnit == <<unit, sums>>
log == <<stdout, bare, sender, lost>>
vars == <<at, todo, jobs, lwip, exists, holder, retrying, unit, sums, stdout, bare, sender, lost, halted>>

-----------------------------------------------------------------------------
\* The scheduler.

WaitsFor(t, m) == at[t] = IF m = "crc" THEN "crc_wait" ELSE "log_wait"
Waits(t) == \E m \in Mutex : WaitsFor(t, m)
Ready(t) == ~Waits(t) /\ at[t] \notin {"idle", "gone"}

\* Mutant: a binary semaphore, without priority inheritance.
WeightsPlain(t) == {Priority[t]}

\* The priority of t is the highest of its own and those of the tasks that wait for a mutex of t.
Weights(t) == {Priority[t]} \cup {Priority[w] : w \in {v \in Task : \E m \in Mutex : WaitsFor(v, m) /\ holder[m] = t}}

Outranks(u, t) == \E p \in Weights(u) : \A q \in Weights(t) : q < p

\* t has the processor; ready tasks of the same priority share it, from tick to tick.
Runs(t) == ~halted /\ Ready(t) /\ \A u \in Task : Ready(u) => ~Outranks(u, t)

At(t, a) == at[t] = a /\ Runs(t)
Goto(t, a) == at' = [at EXCEPT ![t] = a]

-----------------------------------------------------------------------------
Init ==
  /\ at = [t \in Task |-> IF t = Boot THEN "lwip_init" ELSE "start"]
  /\ todo = [t \in Task |-> << >>]
  /\ jobs = [t \in Task |-> IF t = Boot THEN 0 ELSE MaxJobs]
  /\ lwip = FALSE
  /\ exists = [m \in Mutex |-> FALSE]
  /\ holder = [m \in Mutex |-> NoTask]
  /\ retrying = {}
  /\ unit = {}
  /\ sums = [t \in Task |-> [b \in {1, 2} |-> {}]]
  /\ stdout = {} /\ bare = {} /\ sender = NoTask /\ lost = FALSE
  /\ halted = FALSE

-----------------------------------------------------------------------------
\* StartDefaultTask.

InitLwip(t) ==
  /\ At(t, "lwip_init")
  /\ lwip' = TRUE
  /\ Goto(t, "crc_init")
  /\ UNCHANGED <<todo, jobs, mutexes, retrying, crcUnit, log, halted>>

\* Init_CRC, init_log_mtx: m is created and the task goes on to a, or there is no memory for
\* it and the system halts: the log of Init_CRC has no mutex yet, which ends in Error_Handler too.
Create(t, m, a) ==
  /\ \/ exists' = [exists EXCEPT ![m] = TRUE] /\ Goto(t, a) /\ UNCHANGED halted
     \/ halted' = TRUE /\ UNCHANGED <<at, exists>>
  /\ UNCHANGED <<todo, jobs, lwip, holder, retrying, crcUnit, log>>

Init_CRC(t) == At(t, "crc_init") /\ Create(t, "crc", "log_init")
Init_Log_Mtx(t) == At(t, "log_init") /\ Create(t, "log", "gone")

-----------------------------------------------------------------------------
\* The other tasks.

\* What a task does before its loop: the UDP tasks open a connection, which asserts that lwIP is
\* there and may fail; the UART task logs when a semaphore of its own cannot be created.
Start(t) ==
  /\ At(t, "start")
  /\ IF t \in {"listener", "responder"} /\ ~lwip
     THEN halted' = TRUE /\ UNCHANGED <<at, todo>>
     ELSE /\ \E js \in {<< >>} \cup (IF t \in {"listener", "responder", "uart"} THEN {<<"log">>} ELSE {}) :
               todo' = [todo EXCEPT ![t] = js]
          /\ Goto(t, "next")
          /\ UNCHANGED halted
  /\ UNCHANGED <<jobs, lwip, mutexes, retrying, crcUnit, log>>

\* The calls that a task makes for one message, whose test may succeed or fail early or late.
Job ==
  [uart |-> {<<"compare", "log">>, <<"log", "log">>},
   i2c |-> {<<"compare", "log">>, <<"log", "log">>, <<"print", "log">>},
   spi |-> {<<"compare">>, <<"compute">>},
   adc |-> {<<"log", "log">>, <<"log", "log", "log">>},
   tim |-> {<<"log">>},
   listener |-> {<<"log">>},
   responder |-> {<<"compute">>, <<"log">>},
   dispatcher |-> {<<"compute">>}]

\* Mutant: the number of jobs is not looked at.
ArriveUnbounded(t) ==
  /\ ~halted
  /\ at[t] = "idle"
  /\ jobs' = [jobs EXCEPT ![t] = @ - 1]
  /\ \E js \in Job[t] : todo' = [todo EXCEPT ![t] = js]
  /\ Goto(t, "next")
  /\ UNCHANGED <<lwip, mutexes, retrying, crcUnit, log, halted>>

\* An interrupt or another task gives t, which is blocked in its loop, something to do.
Arrive(t) ==
  /\ ~halted
  /\ at[t] = "idle" /\ jobs[t] > 0
  /\ jobs' = [jobs EXCEPT ![t] = @ - 1]
  /\ \E js \in Job[t] : todo' = [todo EXCEPT ![t] = js]
  /\ Goto(t, "next")
  /\ UNCHANGED <<lwip, mutexes, retrying, crcUnit, log, halted>>

Entry == [compare |-> "crc_check", log |-> "log_take", print |-> "print", compute |-> "next"]

\* On to the next service, or back to the blocking call of the loop.
NextService(t) ==
  /\ At(t, "next")
  /\ IF todo[t] = << >>
     THEN Goto(t, "idle") /\ UNCHANGED todo
     ELSE Goto(t, Entry[Head(todo[t])]) /\ todo' = [todo EXCEPT ![t] = Tail(@)]
  /\ UNCHANGED <<jobs, lwip, mutexes, retrying, crcUnit, log, halted>>

-----------------------------------------------------------------------------
\* osMutexAcquire and osMutexRelease.

\* Mutant: the mutex is not looked at.
TakeUnchecked(t, m, a) ==
  /\ holder' = [holder EXCEPT ![m] = t]
  /\ Goto(t, a)

Take(t, m, a) ==
  /\ holder[m] = NoTask
  /\ holder' = [holder EXCEPT ![m] = t]
  /\ Goto(t, a)

Block(t, m, a) ==
  /\ holder[m] # NoTask
  /\ Goto(t, a)
  /\ UNCHANGED holder

\* Mutant: any waiter is woken.
AnyWaiters(m) == {w \in Task : WaitsFor(w, m)}

\* The tasks of the highest priority among those that wait for m.
FirstWaiters(m) ==
  {w \in Task : WaitsFor(w, m) /\ \A v \in Task : WaitsFor(v, m) => Priority[v] <= Priority[w]}

\* The mutex is free, and one waiter is woken to try again: t itself goes on to a.
Give(t, m, a) ==
  /\ holder' = [holder EXCEPT ![m] = NoTask]
  /\ IF FirstWaiters(m) = {} THEN Goto(t, a)
     ELSE \E w \in FirstWaiters(m) :
            at' = [at EXCEPT ![t] = a, ![w] = IF m = "crc" THEN "crc_take" ELSE "log_take"]

-----------------------------------------------------------------------------
\* Match_CRC.

\* The mutex is missing: that is logged, which halts the system, see LogTake.
CrcCheck(t) ==
  /\ At(t, "crc_check")
  /\ Goto(t, IF exists["crc"] THEN "crc_take" ELSE "log_take")
  /\ UNCHANGED <<todo, jobs, lwip, mutexes, retrying, crcUnit, log, halted>>

CrcTake(t) ==
  /\ At(t, "crc_take")
  /\ Take(t, "crc", "crc_feed1") \/ Block(t, "crc", "crc_wait")
  /\ UNCHANGED <<todo, jobs, lwip, exists, retrying, crcUnit, log, halted>>

\* The tick ends the wait; the task looks at the mutex once more ...
CrcTick(t) ==
  /\ ~halted /\ WaitsFor(t, "crc")
  /\ Goto(t, "crc_take")
  /\ UNCHANGED <<todo, jobs, lwip, mutexes, retrying, crcUnit, log, halted>>

\* ... and gives up.  It logs a warning and tries again.
CrcTimeout(t) ==
  /\ At(t, "crc_take") /\ holder["crc"] # NoTask
  /\ retrying' = retrying \cup {t}
  /\ Goto(t, "log_take")
  /\ UNCHANGED <<todo, jobs, lwip, mutexes, crcUnit, log, halted>>

FeedAt == <<"crc_feed1", "crc_feed2">>
ReadAt == <<"crc_read1", "crc_read2">>

\* HAL_CRC_Calculate: the unit is reset and fed, and in the end its register is read.
CrcFeed(t, b) ==
  /\ At(t, FeedAt[b])
  /\ unit' = {[task |-> t, buf |-> b, part |-> "head"]}
  /\ Goto(t, ReadAt[b])
  /\ UNCHANGED <<todo, jobs, lwip, mutexes, retrying, sums, log, halted>>

CrcRead(t, b) ==
  /\ At(t, ReadAt[b])
  /\ unit' = unit \cup {[task |-> t, buf |-> b, part |-> "tail"]}
  /\ sums' = [sums EXCEPT ![t][b] = unit']
  /\ Goto(t, IF b = 1 THEN "crc_feed2" ELSE "crc_give")
  /\ UNCHANGED <<todo, jobs, lwip, mutexes, retrying, log, halted>>

\* Mutant: the function returns before it has released the mutex.
CrcGiveSkipped(t) ==
  /\ At(t, "crc_give")
  /\ Goto(t, "crc_verdict")
  /\ UNCHANGED <<todo, jobs, lwip, mutexes, retrying, crcUnit, log, halted>>

CrcGive(t) ==
  /\ At(t, "crc_give")
  /\ Give(t, "crc", "crc_verdict")
  /\ UNCHANGED <<todo, jobs, lwip, exists, retrying, crcUnit, log, halted>>

\* The two results are compared and forgotten.
CrcVerdict(t) ==
  /\ At(t, "crc_verdict")
  /\ sums' = [sums EXCEPT ![t] = [b \in {1, 2} |-> {}]]
  /\ Goto(t, "next")
  /\ UNCHANGED <<todo, jobs, lwip, mutexes, retrying, unit, log, halted>>

-----------------------------------------------------------------------------
\* safe_printf and printf.

\* Mutant: the mutex is tried once, and its status is not looked at.
LogTakeUnchecked(t) ==
  /\ At(t, "log_take")
  /\ Goto(t, "log_print")
  /\ holder' = [holder EXCEPT !["log"] = IF @ = NoTask THEN t ELSE @]
  /\ UNCHANGED <<todo, jobs, lwip, exists, retrying, crcUnit, log, halted>>

\* osMutexAcquire refuses a mutex that is NULL, and safe_printf calls Error_Handler.
LogTake(t) ==
  /\ At(t, "log_take")
  /\ IF ~exists["log"] THEN halted' = TRUE /\ UNCHANGED <<at, holder>>
     ELSE /\ Take(t, "log", "log_print") \/ Block(t, "log", "log_wait")
          /\ UNCHANGED halted
  /\ UNCHANGED <<todo, jobs, lwip, exists, retrying, crcUnit, log>>

\* The first text of a task: newlib allocates the buffer of its stdout.
LogBuffer(t) ==
  /\ At(t, "log_print")
  /\ t \notin stdout
  /\ stdout' = stdout \cup {t}
  /\ Goto(t, "log_malloc")
  /\ UNCHANGED <<todo, jobs, lwip, mutexes, retrying, crcUnit, bare, sender, lost, halted>>

\* The newline ends the line: _write transmits the buffer, and a busy UART refuses it.
LogTransmit(t) ==
  /\ \/ At(t, "log_print") /\ t \in stdout
     \/ At(t, "log_malloc")
  /\ IF sender = NoTask
     THEN sender' = t /\ UNCHANGED lost /\ Goto(t, "log_sending")
     ELSE lost' = TRUE /\ UNCHANGED sender /\ Goto(t, "log_give")
  /\ bare' = bare \ {t}
  /\ UNCHANGED <<todo, jobs, lwip, mutexes, retrying, crcUnit, stdout, halted>>

LogTransmitted(t) ==
  /\ At(t, "log_sending")
  /\ sender' = NoTask
  /\ Goto(t, "log_give")
  /\ UNCHANGED <<todo, jobs, lwip, mutexes, retrying, crcUnit, stdout, bare, lost, halted>>

\* Back to the caller: Match_CRC when it warned of a timeout.
LogGive(t) ==
  /\ At(t, "log_give")
  /\ Give(t, "log", IF t \in retrying THEN "crc_take" ELSE "next")
  /\ retrying' = retrying \ {t}
  /\ UNCHANGED <<todo, jobs, lwip, exists, crcUnit, log, halted>>

\* printf without a newline: the text stays in the buffer, which the task may have to get first.
Printf(t) ==
  /\ At(t, "print")
  /\ stdout' = stdout \cup {t}
  /\ bare' = bare \cup {t}
  /\ Goto(t, IF t \in stdout THEN "next" ELSE "print_malloc")
  /\ UNCHANGED <<todo, jobs, lwip, mutexes, retrying, crcUnit, sender, lost, halted>>

PrintBuffer(t) ==
  /\ At(t, "print_malloc")
  /\ Goto(t, "next")
  /\ UNCHANGED <<todo, jobs, lwip, mutexes, retrying, crcUnit, log, halted>>

-----------------------------------------------------------------------------
MatchStep(t) ==
  \/ CrcCheck(t) \/ CrcTake(t) \/ CrcTimeout(t)
  \/ \E b \in {1, 2} : CrcFeed(t, b) \/ CrcRead(t, b)
  \/ CrcGive(t) \/ CrcVerdict(t)

LogStep(t) ==
  \/ LogTake(t) \/ LogBuffer(t) \/ LogTransmit(t) \/ LogTransmitted(t) \/ LogGive(t)
  \/ Printf(t) \/ PrintBuffer(t)

\* A step that t makes on the processor.
Step(t) ==
  \/ InitLwip(t) \/ Init_CRC(t) \/ Init_Log_Mtx(t)
  \/ Start(t) \/ NextService(t)
  \/ MatchStep(t)
  \/ LogStep(t)

Next == \E t \in Task : Step(t) \/ CrcTick(t) \/ Arrive(t)

Spec == Init /\ [][Next]_vars

\* Tasks of the same priority are time-sliced.
FairSpec == Spec /\ \A t \in Task : WF_vars(Step(t))

-----------------------------------------------------------------------------
TypeOK ==
  /\ at \in [Task -> {"lwip_init", "crc_init", "log_init", "gone", "start", "next", "idle",
                      "crc_check", "crc_take", "crc_wait", "crc_feed1", "crc_read1", "crc_feed2",
                      "crc_read2", "crc_give", "crc_verdict", "log_take", "log_wait", "log_print",
                      "log_malloc", "log_sending", "log_give", "print", "print_malloc"}]
  /\ todo \in [Task -> Seq(Service)]
  /\ jobs \in [Task -> 0..MaxJobs]
  /\ exists \in [Mutex -> BOOLEAN] /\ holder \in [Mutex -> Task \cup {NoTask}]
  /\ unit \in SUBSET Piece /\ sums \in [Task -> [{1, 2} -> SUBSET Piece]]
  /\ retrying \subseteq Task /\ stdout \subseteq Task /\ bare \subseteq Task
  /\ sender \in Task \cup {NoTask}
  /\ {lwip, lost, halted} \subseteq BOOLEAN

\* What Match_CRC compares are the CRCs of the two buffers of its caller, whole and unmixed,
\* whatever other tasks have done with the CRC unit meanwhile.
ComparesOwnBuffers ==
  \A t \in Task : at[t] \in {"crc_give", "crc_verdict"} =>
    \A b \in {1, 2} : sums[t][b] = OwnBuffer(t, b)

\* No line of the log is refused by the UART, and the text of the bare printf of the I2C test
\* leaves with the next line of the task, before it waits for the next message.
LogComplete == ~lost /\ \A t \in Task : at[t] = "idle" => t \notin bare

Allocates(t) == at[t] \in {"log_malloc", "print_malloc"}

\* newlib's allocator has no lock of its own.  Whenever two tasks get the buffers of their stdouts at
\* the same time, one of them is the I2C test in its bare printf: no two lines of safe_printf meet
\* there, and no other printf does.
AllocatorGuarded ==
  \A t, u \in Task : (t # u /\ Allocates(t) /\ Allocates(u)) =>
    \E w \in {t, u} : w = "i2c" /\ at[w] = "print_malloc"

\* No task halts the system: nothing is used before defaultTask has made it, and only the
\* creation of a mutex may fail.
HaltsAtBootOnly == halted => at[Boot] \in {"crc_init", "log_init"}

\* A task does not hold one mutex while it waits for the other.
NoNesting == \A t \in Task : Waits(t) => \A m \in Mutex : holder[m] # t

\* Whoever waits for a mutex is either behind a holder, or the mutex is free and a task that is at
\* least as urgent has been woken and is about to take it.
WaiterServed ==
  \A w \in Task, m \in Mutex : WaitsFor(w, m) =>
    \/ holder[m] # NoTask
    \/ \E v \in Task : at[v] = (IF m = "crc" THEN "crc_take" ELSE "log_take") /\ Priority[v] >= Priority[w]

\* t makes a step on the processor.
Acts(t) == Ready(t) /\ at'[t] # at[t]

\* No priority inversion: while w waits for a mutex, a less urgent task runs only if it holds a
\* mutex for which a task at least as urgent as w waits.  In particular, the dispatcher does not
\* keep the listener waiting for a test task that is in the middle of a log line.
NoInversion ==
  [][\A t, w \in Task : (Acts(t) /\ Waits(w) /\ Priority[t] < Priority[w]) =>
       \E m \in Mutex, v \in Task : holder[m] = t /\ WaitsFor(v, m) /\ Priority[v] >= Priority[w]]_vars

\* Every job comes to its end: no task waits for ever for the CRC unit or for the log.
EveryJobEnds == \A t \in Task \ {Boot} : at[t] # "idle" ~> (at[t] = "idle" \/ halted)
=============================================================================
