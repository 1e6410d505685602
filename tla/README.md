# FreeRTOS hardware verification: TLA+ models and proofs

The repository is a system that tests the peripherals of an STM32F756 board. The board, the
*unit under test* (UUT), runs FreeRTOS firmware that listens for test requests on UDP, runs
each request on up to five peripherals (UART, I2C, SPI, ADC, timer) and answers with one
result per peripheral. Command line programs on a PC send the requests, wait for the results
and log them in a SQLite database. This directory models the system in TLA+, checks the
models with TLC and proves theorems about them with TLAPS.

## 1. Inventory

`P` stands for `src/STM32CUBE_project`, `PC` for `src/FILES_FOR_PC`.

| Component | Source | State it keeps | Operations |
|---|---|---|---|
| UDP listener | `P/UUT/Src/hw_verif_udp.c` `UDP_Listen` | `conn_recv`, the message being read, a netbuf | start, receive, validate, put into `inMsgQueue`, free the netbuf |
| Dispatcher | `P/UUT/Src/dispatcher.c` | the message being dispatched | get from `inMsgQueue`, put into the queue of each peripheral asked for, in a fixed order |
| Test tasks (5) | `P/UUT/Src/*_test.c` | the request, the loop counter, the last result | get, iterate until `n_iter` or the first failure, put the result |
| Test drivers (5) | `P/UUT/Src/*_test.c` `*_Test_Perform`, HAL callbacks | HAL and DMA state, binary semaphores, buffers | start transfers, wait with a timeout, complete in an interrupt, compare |
| CRC comparison | `P/UUT/Src/hw_verif_crc.c` | `crcMutex`, the CRC unit | `Init_CRC`, `Match_CRC` |
| Logging | `P/UUT/Src/log.c` | `logMutex` | `safe_printf`, halting when the mutex cannot be taken |
| UDP responder | `P/UUT/Src/hw_verif_udp.c` `UDP_Response` | `conn_send`, the result being sent, a netbuf | start, get from `outMsgQueue`, allocate, send, free |
| RTOS objects, start-up | `P/Core/Src/freertos.c`, `main.c` | queues, threads, priorities | `MX_FREERTOS_Init`, `StartDefaultTask` |
| LWIP glue | `P/LWIP`, lwIP's `recv_udp` | mailbox of `conn_recv`, pool of netbufs | deliver or drop a datagram |
| Multithreaded client | `PC/multi_threaded/main.c` | threads, `results[]`, a semaphore | parse, get an id, send, receive on one thread per peripheral, log |
| Single-threaded client | `PC/single_threaded/main.c` | `out_msg`, `in_msg` | the same, one peripheral at a time |
| Tests database | `PC/*/tests_db.c` | table `test_logs` | init, next id, log, print |
| Argument parser | `PC/*/main.c` | flags, messages | parse or refuse a command line |
| Kernel queues | `P/Middlewares/.../FreeRTOS/Source/queue.c`, `tasks.c`, `CMSIS_RTOS_V2/cmsis_os2.c` | ring buffer, lock counts, event lists; suspension of the scheduler, list of pending tasks | send, receive, send from an interrupt, lock and unlock, resume, tick |
| Dummy server | `PC/debug_tools/dummy_server.c` | none | answer every request with success |

Components meet in four ways. Inside the firmware: seven bounded message queues (one for
requests, one per peripheral, one for results), one pool of netbufs that listener,
responder and lwIP share, and the CRC unit and the log behind a mutex each. Between a driver and its interrupt: semaphores and the state of the
HAL. Between PC and UUT: UDP datagrams, which may be lost, duplicated or reordered. Between
client processes: the database.

What is hard: nine tasks interleave and block on full queues; a message is copied into several
queues; the result variable of a task outlives the request; netbufs must be returned on every
path; interrupts race with timeouts; a lost or duplicated datagram meets a client that never
times out; ids are chosen long before they are stored; a queue is locked, not closed, while a
task decides to wait on it, and interrupts go on sending. `PROJECT.json` lists each hazard at its
line with the properties that cover it, or the reason why none does.

What makes each component correct:

* listener, dispatcher, test tasks, responder (together, the *pipeline*): no accepted request
  is lost, repeated, misrouted or overtaken by a younger one for the same peripheral; the
  verdict that leaves is the one its own iterations earned; netbufs are neither leaked nor freed
  twice; full queues delay but never jam;
* drivers: success is reported only if the data of this very test made it through; a call always
  returns; one failing test does not spoil the next ones; a callback never halts the system;
* CRC, log: a comparison reads the sums of its own buffers and a line of the log is complete,
  whoever is preempted; nothing is used before it is created; urgent tasks are not kept waiting by
  less urgent ones that do not hold what they wait for; every job ends;
* kernel queues: calls take effect at once and in order, no wake-up is lost, time-outs end;
* clients: what is logged is what the UUT concluded for this request; every run ends; ids are
  unique; every result that was waited for was written;
* parser: the request that is sent is the one the documentation promises for the command line.

## 2. Plan

The order in which the modules were written, the most important behaviour first. All of it is
done.

1. The pipeline: `TestService`, `UutPipeline`, `UutPipelineInv`, `MCUutPipeline`,
   `UutPipelineProofs`.
2. The clients: `TestsDb`, `TestBench`, `HwTester`, `MtHwTester` and their `MC` modules.
3. The drivers: `PeripheralDriver`.
4. What tasks share beside their queues (`Match_CRC`, `safe_printf`, the processor) and the
   start-up: `SharedServices`, `SharedServicesProofs`.
5. The argument parser of the clients, against the rules of the documentation: `ArgParser`,
   `MCArgParser`.
6. The queues of the kernel, on which 1 and 3 stand: `BoundedQueue`, `KernelQueue`,
   `MCKernelQueue`, `KernelQueueProofs`.
7. Theorems about the clients: `TestBenchProofs`, `HwTesterProofs`, `MtHwTesterProofs`.
8. Theorems about the parser and the drivers: `ArgParserProofs`, `PeripheralDriverProofs`.

How the modules stand on one another. `UutPipeline` takes a queue for a sequence with blocking
puts and gets: that is what `BoundedQueue` says, which `KernelQueue` is proved to implement.
`TestBench` takes the UUT for `TestService`, which `UutPipeline` is proved to implement;
`HwTester` and `MtHwTester` are composed with `TestBench` and `TestsDb`. `PeripheralDriver` is one
iteration of `TestIterate`; `SharedServices` is the same tasks seen from the processor.

## 3. The pipeline

### Modules

`UutPipeline.tla` models the firmware from the arrival of a datagram to the response. A task's
code between two calls that other tasks can observe is one action:

| Actions | Code |
|---|---|
| `Deliver`, `Drop` | lwIP's `recv_udp`: a netbuf and room in the mailbox, or the datagram is gone |
| `ListenerStart`, `ListenerRecv`, `ListenerPut`, `ListenerFree` | `UDP_Listen`; receiving, parsing and `validate_data` are one action, the blocking put and `netbuf_delete` one each |
| `DispatcherGet`, `DispatcherPut(p)` | `TestDispatcherTask`; `dispatcherLeft` is the rest of its chain of `if`s, worked off in the order `DispatchRank` |
| `TestGet(p)`, `TestIterate(p)`, `TestLeaveLoop(p)`, `TestPut(p)` | the loop of the task of `p`. The five loops are the same text, so each action is mapped to the lines of a different one of them |
| `ResponderStart`, `ResponderGet`, `ResponderNew`, `ResponderAlloc`, `ResponderSend`, `ResponderFree` | `UDP_Response` with its failure paths |

A datagram is a record of the three fields the control flow reads, `peripheral`, `n_iter` and
`p_len`; sender, test id and payload are its identity. `Datagram` is the set of datagrams that
will ever arrive, each once: two equal requests differ in their identity. One iteration of a
test on the hardware is abstracted to its verdict, any of the two.

History variables, which no guard reads: `accepted` (the messages put into `inMsgQueue`),
`concluded` (the results the responder is done with), and the fields `runs` and `peri` that
travel with a result. A result is *concluded* when the responder has handed it to lwIP or given
up on it; whether lwIP could send it is the field `sent`.

Left out, because the code cannot get there: a failing put or get with `osWaitForever` on an
existing queue, and the error of `netbuf_data` on a netbuf that `recv_udp` built. Logging is left
out of this model; it neither changes the state nor decides anything here.

`TestService.tla` is what the testers may rely on: a request is accepted at most once, each
peripheral it names concludes exactly once with one proper verdict, and in the order of
acceptance among the requests for that peripheral. `UutPipeline` instantiates it as `Service`
with a mapping that forgets the history (`ImplementsService`).

`UutPipelineInv.tla` holds the inductive invariant `IInv`, `MCUutPipeline.tla` the instances,
`UutPipelineProofs.tla` the proofs.

### Properties

* `TypeOK`: types and queue capacities; loop counters stay a byte.
* `FlowConserved`: for each peripheral, what is under way, read from the responder back to
  `inMsgQueue`, is exactly the youngest part of what was accepted for it, and the concluded
  requests are exactly the older part. This is loss, duplication, misrouting and reordering in
  one formula.
* `VerdictEarned`: a verdict under way or concluded is that of the iterations run for its own
  request: success after all `n_iter` succeeded, failure after the first failure.
* `NetbufsBalanced`: the netbufs out of the pool are those in the mailbox and in the hands of the
  two UDP tasks. `NetbufsSuffice`: with the firmware's 32 netbufs for a mailbox of 6 the pool
  never runs dry.
* `ImplementsService`: refinement of `TestService`.
* `EveryRequestConcluded`: a valid datagram that reached the mailbox is concluded for each
  peripheral it names, unless the responder could not start.

### Runs

| Run | Instance | Shows |
|---|---|---|
| `uut_mixed` | 2 valid requests for one peripheral, one of them with 2 iterations and for another peripheral too, one with an unknown bit, and 2 invalid ones (no payload; neither a known peripheral nor iterations); all queues of length 1; 2 netbufs | the safety invariants and the refinement, with queues full and the pool dry; 418404 states |
| `uut_live` | 3 requests for one peripheral, one of them also for the last one in the dispatcher's order; all queues of length 1; 4 netbufs | liveness and the supply of netbufs in a jam; 298256 states |

Bounds. In `uut_live` three requests for one peripheral are one more than the test task and its queue of
length 1 hold, so the dispatcher blocks in the middle of a message, the listener behind it, and
the mailbox overflows. Two iterations are the least for which a failure can come first, last or not
at all. With 2 netbufs a received and a sent message can starve each other, which the
responder's failure paths need; 4 is `MailboxSize + 3`, the premise of `NetbufsSuffice`. The
theorems carry the safety results to all sizes. Deadlock is not checked: when all datagrams have
arrived and are answered the model stops, as it does when a UDP task has given up at start-up.

Fairness. `FairSpec` assumes weak fairness of each task. FreeRTOS runs a ready task of the
highest priority; the tasks above the others (listener, responder, dispatcher) work only on
messages, each of which is used up, and the network of the model sends finitely many, so they
cannot keep the test tasks from running for ever. The five test tasks share a priority and are
time-sliced. Arrival of datagrams is not fair: the network promises nothing. That one iteration
of a test returns is assumed here; every wait in the drivers has a timeout.

### Proofs

`UutPipelineProofs.tla` proves, for every set of datagrams and every size from 1 on (the
assumptions `DatagramAssumption` and `SizeAssumption`, the latter because FreeRTOS creates no
empty queue and the firmware uses 6, 8, 16 and 32):

| Theorem | Statement |
|---|---|
| `Invariance` | `Spec => []IInv` |
| `TypeCorrect`, `NetbufAccount`, `NetbufSupply`, `Verdicts` | `TypeOK`, `NetbufsBalanced`, `NetbufsSuffice`, `VerdictEarned` are invariants |
| `Flow`, `Conservation` | `FlowInv`, `FlowConserved` are invariants |
| `Refinement` | `Spec => ImplementsService` |

The argument. `TypeOK` and `NetbufsBalanced` support each other: that a freed netbuf fits into the
pool follows from the account. For the flow, a *test* is a pair of an accepted datagram and a
peripheral it names, and `At(k, d, p)` says that it is at stage `k`, from `inMsgQueue` (0) to
concluded (6). `FlowInv` says that no test is nowhere (`NothingLost`), none is anywhere that was not
asked for (`OnlyRequested`), and that of two tests of one peripheral the one further along is the
older (`InOrder`), inside a queue too (`QueuesInOrder`). Since no test is older than itself, a test is at
one stage only. It is this order, not the lengths of sequences, that makes the invariant
inductive without induction over sequences: a step moves one test by one stage (`MoveOne`), and the
head of a queue is the oldest in it. `LoopInv` ties the loop counter to the iterations run, from which
`VerdictEarned` follows when the result is put; it needs `FlowInv` for `n_iter > 0`. For the
refinement, `RespondingIsNext` shows that the test in the responder's hands is the oldest that is
not concluded: an older one would be at an earlier stage, against `InOrder`.

`FlowConserved` says in terms of sequences what `FlowInv` says of single tests: what is in flight, read
from the responder back to `inMsgQueue`, is the tail of what was accepted, in its order. The
subsequence of one peripheral (`For`) is not defined by recursion but by its places: the `n`th
element is at the place that has `n - 1` chosen places before it (`SelectAt`, `Places`). So what is needed of it
can be had from cardinalities: that it is sorted by age (`SelectedSorted`) and holds just the
tests of its queue (`RequestsHold`). Two sorted sequences without repetition that hold the
same things are equal (`SortedOnce`): at the first place where they differ each
would have the test of the other further on, and so each test would be the older one. That every set of numbers has a least one (`Least`) is the well-foundedness of `<`, which
takes the place of induction throughout.

Liveness is model-checked only, since the prover has no `ENABLED`.

## 4. The clients

### Modules

`TestsDb.tla` models `tests_db.c` (the two clients have the same copy): each function as the steps in
which it touches the file. SQLite is external: a process that commits has the file to itself and
cannot commit while another has a `SELECT` open; a call that meets a lock fails at once, since no
busy timeout is set. `Call` is a call whose failure ends the program with `SQLITE_ERROR`. Two
failures do not: `StepId` takes a failing step for an empty table (id 0), and `StepLog` reports a
failing insert as a success. The table exists already; SQLite's own errors other than locks are
left out.

`TestBench.tla` adds the UUT and the network. The UUT is `TestService`, the specification that
`UutPipeline` is proved to implement; requests that `validate_data` refuses vanish (`UutReceive`). The
network reorders always; a lossy one (`network`) also loses datagrams, a duplicating one delivers answers
twice. An
answer carries its request as history; the programs read only the result from it.

`HwTester.tla` and `MtHwTester.tla` are the two programs from the end of the argument parsing to the exit,
each as several processes with command lines from `Argument`. `pc` is where the main thread is, with the
exits `"success"`, `"sqlite_error"` and `"udp_error"`.

| Actions | Code |
|---|---|
| `Database` with `InitDb`, `PrepareId`, `CloseId`, `PrepareLog`, `StepLog`, `CommitLog`, `StepPrint`, `ClosePrint` | the calls of `main`, `proccess_test` and `run_parallel_tests` to `tests_db.c` |
| `LoadMessage` | the step of `get_next_id` and the assignments to `out_msg` |
| `Send` | `udp_send_data`, and `sem_init` in the multithreaded client |
| `Receive`, `NextTest` (`HwTester`) | `udp_receive_data`; the chain of `if`s in `main`, `todo` being the rest of it |
| `Create`, `Wait`, `Join` (`MtHwTester`) | the three loops over the threads |
| `Receive`, `Post`, `Exit` (`MtHwTester`) | `recv_thread` |

A message is abstracted to its length, converted to `uint8_t` as in the assignment to `p_len`.
`sendto` may fail, which ends the program (`SendMessage`, `"udp_error"`). Timestamps and durations are
left out. So are the exits on an error of `recvfrom` and on an answer of the wrong size, which nothing the
programs and the UUT do brings about, and a failure of `pthread_create`, whose result the code ignores. `recvfrom` has no
timeout: a client that gets no answer waits for ever.

### Properties

* `TypeOK`.
* `LoggedVerdictTrue`: a row says success if and only if the UUT concluded success for every
  peripheral of the request that the row is about, unless the network duplicates. It relates the end of a client's run with what
  another machine did.
* `Collected`: when the multithreaded client computes its verdict no thread of it is left, the
  semaphore is down, and no answer to its request is still to come.
* `SequentialIdsAreKey`, `SequentialSuccessIsLogged`: as long as no two processes have run at the same
  time (`overlapped`), no two rows have the same id, and a client that exits with 0 has logged all its
  tests. Without that premise both are refuted, see the disagreements.
* `EveryRunEnds`: on a network that loses nothing a client whose request the UUT accepts comes to
  an end. On a lossy one it does not: no client has a timeout.

### Runs

| Run | Instance | Shows |
|---|---|---|
| `st_two` | 2 clients with 2 tests each, the second test possibly rejected; reliable or lossy | all five properties, with every collision in the database and clients one after the other; 654828 states |
| `mt_two` | 2 clients with 2 threads each; reliable, lossy or duplicating; where the network misbehaves the request of one of them is rejected | `TypeOK`, `LoggedVerdictTrue`, `Collected`, `EveryRunEnds`; 644668 states |

Bounds. Two clients meet in every way the database knows: reader with writer, writer with writer,
two readers. Two threads are the least that can finish in another order than they started, and
that leave one behind when the other has its answer. A program runs once, so the numbers of ids,
requests and answers are bounded by the clients. Deadlock is not checked: the programs end.

Fairness. `FairSpec` assumes weak fairness of each thread of the clients, which Linux schedules
fairly, and of the UUT, which is what `EveryRequestConcluded` says of the firmware. The network is
not fair, but one that is not lossy loses nothing, and then `recvfrom` returns once an answer is there.

### Proofs

For every set of clients and every set of command lines, on the assumptions `ClientAssumption`,
`NetworkAssumption` and `ArgumentAssumption` (a message has at most 256 bytes; a client is asked for
one peripheral at least, or it ends before it does anything):

| Theorem | Statement |
|---|---|
| `HwTesterProofs`: `Invariance` | `Spec => []IInv` |
| `TypeCorrect`, `LoggedTrue`, `SequentialKey`, `SequentialLogged` | `TypeOK`, `LoggedVerdictTrue`, `SequentialIdsAreKey`, `SequentialSuccessIsLogged` are invariants |
| `MtHwTesterProofs`: `Invariance` | `Spec => []IInv` |
| `TypeCorrect`, `CollectedAlways`, `LoggedTrue` | `TypeOK`, `Collected`, `LoggedVerdictTrue` are invariants |

`TestBenchProofs` holds what both need of the UUT, the network and the database: the next id is a
number, since one of the rows has the greatest (`GreatestId`), and a row that is true stays true,
since the UUT concludes each test once (`RowStays`).

The single-threaded client. An answer is taken without a look at its id. It is the right one because a
client is about one request at a time (`OneAtATime`): what is on its way to or from it is
about the request it waits for, and its earlier requests have all been answered. That the new request is
none of the earlier ones follows from their tests: they are no longer in `todo`. For the ids, `FileUsed` says
that without overlap one client at a time is between its first and its last call to the
database; then no row can appear between the reading of the id and the insertion (`NewId`), and the
insertion meets no lock (`LoggedOf`).

The multithreaded client. Its threads take the answers in any order, so that no statement about one
thread is inductive; two counts are. `ThreadsCounted`: in each of the three loops the posts, the
counter and the threads that have ended add up; so all are joined at the end and the semaphore is
down. `AnswersCounted`: of each verdict, the answers on their way and those taken are no more than
the conclusions. When all threads have an answer, as many are taken as there are peripherals, and the
conclusions are no more than those; so nothing is on its way, everything has concluded, and the threads hold
as many successes as there were (`AllTaken`).

### Disagreements with the documentation

Each is a run that TLC refutes.

| Run | What is said | What happens |
|---|---|---|
| `st_exit` | exit 0 on success, else an error code | the insert fails on a lock, the exit code is 0, the result is lost |
| `st_nomessage` | `./hw_tester -a -t` is an example | the UUT rejects the empty payload silently, the client hangs |
| `tim_stale` | a successful timer test has sampled its timers | section 5 |
| `mt_message` | `mthw_verif -uit -s "SPI"` runs SPI with the message `SPI` | section 7 |

`-n 0` ends like `st_nomessage`: the client accepts it and the UUT rejects it silently.

The premise `~overlapped` of `SequentialIdsAreKey` is needed: TLC refutes `TestIdIsKey`, the same without it,
so no property here excludes the race. The id is read before the test and stored after it, in a column without a
constraint, though `PC/single_threaded/README.md:194` calls it a primary key.

A client does not compare the id in an answer with that of its request: on a network that duplicates, the
second copy of an answer counts for a later test, which is why `LoggedVerdictTrue` leaves such a network
out, as `EveryRunEnds` leaves out one that loses. What a loss or a duplicate does to a client no property catches,
and no document promises anything about it.

## 5. The drivers

### Module

`PeripheralDriver.tla` models `XXX_Test_Perform` of the five test drivers and their interrupt callbacks.
The five have the same shape, a straight line of operations that returns early on failure. So the line is
data, `Program["UART"]` to `Program["TIM"]`, one entry for each call in the source and in its order,
and the actions are the operations:

| Actions | Code |
|---|---|
| `Call` | the task loop calls `XXX_Test_Perform`, for the next iteration or the next message |
| `DrainSemaphore` | `osSemaphoreAcquire(sem, 0)`, one action for each semaphore |
| `AbortDevice` | `HAL_UART_Abort`, `HAL_SPI_Abort`: both directions of a device. A DMA stream may resist; nobody looks at the result |
| `StartTransfer(c)`, `StartRefused` | `HAL_..._DMA`, `HAL_UART_Transmit_IT`, `HAL_DMA_Start_IT`; refused when the HAL is busy (`Busy`) or the hardware reports an error |
| `Acquire(c)`, `AcquireTimeout(c)` | `osSemaphoreAcquire(sem, timeout)` |
| `SwitchTimers` | `HAL_TIM_Base_Start`, `HAL_TIM_Base_Stop` of both timers |
| `CompareData` | `Match_CRC`, the limit of the ADC value, the intervals of the samples; either outcome |
| `Complete(c)` | the interrupt and the callback: the HAL is ready, the semaphore is released; in the UART and the ADC a semaphore that is up already leads to `LOG_ERR`, to `osMutexAcquire` in an interrupt and to `Error_Handler` |
| `BreakOff(c)` | external: an error of bus or DMA ends the transfer without a callback |

An abort that fails. `HAL_DMA_Abort` may run out of time, `AbortDevice` chooses for which streams. Such a stream is
`hung`: the HAL does not start it again, so the transfers that need it (`Streams`) are refused. After it
`HAL_UART_Abort` returns before it has set the device ready, which leaves what was going on there
`"abandoned"`: without interrupts, busy until an abort that finds no DMA to stop. `HAL_SPI_Abort` sets the
device ready in any case.

After a timeout of the timer test the two timers are still stopped, which is the next operation
of its program; then the call returns.

A channel is one direction of a device. A transfer is `armed` until the other end of the wire is
started too, then `running`; a sampling of the timer proceeds only while the timers run. It may
complete at any moment or never, and it does not end with the call that started it. `HAL_ADC_Start_DMA`
is one action, but an interrupt inside it, where it holds the lock of the handle, is allowed for
(`MayMeetLock`). History: the transfers a call started (`mine`) and has seen complete (`done`), whether an
old transfer ended after its semaphore was drained (`late`), whether any call was refused or timed out
(`disturbed`). To the pipeline a call is the verdict of one `TestIterate`.

Left out: bytes and buffers. A receive buffer is a local array of a function that may have returned while
the DMA still fills it, and an array that was not filled may hold the message of the last iteration; so
the outcome of the comparison is left open, and the properties are about completions.

### Properties

* `TypeOK`.
* `SuccessIsEarned`: a call succeeds only if every transfer it waits for has completed in this call, on
  two conditions. For the drivers that drain (UART, SPI, I2C): no old transfer has ended in this call after the drain
  of its semaphore (`~late`). For ADC and timer: no call so far was refused or timed out (`~disturbed`).
  Without them it is false, see `tim_stale` below.
* `CallsLeaveNothingBehind`: until then every call, also one with a mismatch, leaves no token and no transfer it
  should have waited for; no start finds the HAL busy and no callback halts the system.
* `AbortRecovers`: UART and SPI, which abort, find the HAL ready at every start, but at a device of which
  an abort could not stop a DMA stream. The UART callback halts the system only in a call in which an
  old transfer ended between drain and abort.
* `TimersStopped`: between calls the timers run only after a refused start.
* `EveryCallReturns`.

### Runs

`drivers` checks all of them; the driver is chosen in the initial state. There is no bound: the
model is finite as it is (4891 states), calls and interrupts come any number of times. Deadlock is not
checked, because `Error_Handler` really stops the system. `FairSpec` assumes weak fairness of the
driver's task, which includes that the tick ends its waits; the hardware promises nothing.
What the proofs below add to an exhaustive run is the reason: the properties of the five programs on
which it hangs that nothing goes wrong.

`tim_stale` refutes, for the timer, that success always means that the own sampling is done
(`SuccessMeansDone`, what `timer_test.c:41` and the description of the timer test in `src/README.md` say):
after one timeout the old sampling ends in a later call, and its token lets a call after it succeed on old samples
while its own sampling goes on, whose token is left to the next. The ADC does the same in fewer steps (the instance `{"ADC"}` refutes
`SuccessMeansDone` too): the next call after the timeout succeeds on the old value. Besides, a
callback of the ADC halts the system when it comes while the old token is still there. UART, SPI and I2C succeed
on an old token only if an old transfer ends in the window between drain and start.

Two more things happen after a timeout that no document excludes and no property catches. The I2C driver never
aborts: a slave that was left armed is addressed by no one, and later calls are refused. And the callback
of an old ADC conversion that interrupts `HAL_ADC_Start_DMA` meets its lock and halts the system. The
premise `~disturbed` of `CallsLeaveNothingBehind` leaves both out.

### Proofs

`PeripheralDriverProofs.tla` proves for every set of drivers (`DriverAssumption`):

| Theorem | Statement |
|---|---|
| `Invariance` | `Spec => []IInv` |
| `TypeCorrect`, `Earned`, `NothingLeftBehind` | `TypeOK`, `SuccessIsEarned`, `CallsLeaveNothingBehind` are invariants |
| `AbortsRecover`, `TimersStop` | `AbortRecovers`, `TimersStopped` are invariants |

The argument has two halves. The first looks at the programs only: each is `WellMade`, that is,
the comparison comes last (`Final`); a channel is started and awaited once (`Once`), in this order
(`StartedFirst`), and drained before where there are drains (`DrainedFirst`); before a start whatever could
make the HAL busy has been reset and not started again, or, in the drivers that never abort, has been waited for
(`Readied`); the UART starts each receiver while its sender is reset, and awaits it as soon as the sender
is started (`LinkedLast`); an abort meets no transfer of this call that is still to be waited for (`AbortedIdle`);
the streams of a channel are of its own device (`Streamed`); timers switched on are
switched off, right after the wait whose timeout the call survives (`TimersPaired`). Each driver
has a lemma of its own for this (`UartWellMade` to `TimWellMade`), read off its list of operations.

The second half holds for any well-made program, so for a sixth driver too. What the call
has behind it (`HasStarted`, `HasAwaited`, `HasReset`) and ahead (`ToDrain`, `ToStop`) is read off
`pc`. After its drain a full semaphore means a completed transfer of this call, unless one was late
(`DrainedInv`); until a call is refused or times out, what is not outstanding is clean
(`UndisturbedInv`); what is reset and not started is idle, or at a device with a hung stream (`ResetInv`, `Hung`);
timers that run are stopped further on, also in a call that has timed out (`TimersInv`). A full semaphore of
the UART whose transfer is running is the one thing that could halt a call that was not late: `HaltInv` says
that the task is then awaiting that very semaphore, takes the token before anything can end the
call, and so leaves no such pair to the next call. This is where `LinkedLast` is needed.

## 6. The processor, the CRC unit and the log

### Module

`SharedServices.tla` takes the tasks of the firmware as sequences of calls to what they share. It
models the scheduler: `Runs(t)` says that `t` is ready and no ready task outranks it, where the
rank of a task is the highest of its own priority and those of the tasks that wait for a mutex of it
(`Weights`; every mutex of FreeRTOS inherits). Equal ranks are time-sliced. Every step
of a task needs the processor, so a preemption is possible between any two actions, and only those
preemptions that the priorities allow occur.

| Actions | Code |
|---|---|
| `InitLwip`, `Init_CRC`, `Init_Log_Mtx` | `StartDefaultTask`; creating a mutex may fail, which halts the system |
| `Start` | what the tasks do before their loops; `netconn_new` asserts that lwIP is initialised |
| `Arrive`, `NextService` | the loop of a task gets a message; the services its job asks for |
| `CrcCheck`, `CrcTake`, `CrcTick`, `CrcTimeout`, `CrcFeed`, `CrcRead`, `CrcGive`, `CrcVerdict` | `Match_CRC`: the mutex with its time-out, log and retry; the two calculations, each a reset with the first words and the rest with the read of the register |
| `LogTake`, `LogBuffer`, `LogTransmit`, `LogTransmitted`, `LogGive` | `safe_printf` and `_write` |
| `Printf`, `PrintBuffer` | the bare `printf` of the I2C test |

A job is one of the sequences of calls in `Job`, read off each task's loop: which branch it takes is
left open. External, from how newlib-nano and FreeRTOS are configured: each task has its own `stdout`, which
is line-buffered and gets its buffer from `malloc` at its first use; `malloc` takes no lock. Which of
several waiting tasks of one priority is woken is left open (the kernel takes the oldest). Logs from
interrupts are part of `PeripheralDriver`.

### Properties

* `TypeOK`.
* `ComparesOwnBuffers`: the two sums that are compared are those of the two whole buffers of the
  caller, and of nothing else.
* `LogComplete`: no line is refused by a busy UART; a text without a newline leaves with the next line
  of its task.
* `AllocatorGuarded`: whenever two tasks are in `malloc` for the buffers of their `stdout`, one of them is the
  I2C test in its bare `printf` (`print_malloc`), which is outside the mutex. There they
  do meet: the I2C test reports one of its timeouts by `printf` itself (`i2c_test.c:143`), and the first use of it
  takes the task into `malloc` while another may be in the `malloc` of its first `safe_printf`.
* `HaltsAtBootOnly`: nothing halts the system but a creation that fails at boot. All tasks are created
  before `defaultTask`'s first step; only its priority puts it first.
* `WaiterServed`: a task that waits for a mutex has a holder before it or a woken task of at least its
  priority.
* `NoInversion` (an action property): while a task waits for a mutex, a less urgent task makes a step only if it
  holds a mutex for which somebody at least as urgent waits.
* `EveryJobEnds`.

`NoNesting` (no task waits for one mutex while it holds the other) is proved only.

### Run and proofs

`services` has `defaultTask`, the listener, the dispatcher and two test tasks (UART and I2C), one job
each: three levels of priority, two tasks of the lowest that compare, log and print, one above them that logs,
and one in between that only computes, which is what an inversion takes. 107136 states. One job
each is enough for every pair of jobs to meet; a second one differs only in the buffer of `stdout`
being there. Deadlock is not checked: when all jobs are done the model stops. Fairness: weak fairness
of each task's steps, all of which require that the task has the processor. A more urgent task
could keep others from running only by endless work; jobs are bounded, as the pipeline's work is.

`SharedServicesProofs` proves all of these but `EveryJobEnds`, for every set of the firmware's
nine tasks and any number of jobs: `Invariance`, `TypeCorrect`, `Comparison`, `LogLines`,
`Allocator`, `StartUp`, `Nesting`, `Waiters`, `Inversion`. The inductive invariant adds to the
properties: `BootFirst` (until `defaultTask` is gone nobody else has made a step, because it outranks
all), `HolderInside` (a mutex is held exactly by the task inside its section), `UnitInv`, `SenderInv`
and `BareInv` (what unit, UART and buffers contain, from where the holder is), and `PrintInv` (only the I2C
test prints without `safe_printf`, which the exception of `AllocatorGuarded` rests on).

## 7. The argument parser

`ArgParser.tla` is `main` of the two clients from its first line to the requests; the text is the
same in both except for the end. One action is one round of the loop with all its checks: `Command`,
`Get`, `Help`, `All`, `Iterations`, `StackedFlags`, `Unexpected`, then `Parsed`. The end is `RunSingle`, one
request after the other in the fixed order of the tests (`Place`, `First`), or `RunMulti`, one request for all. An argument is
a name; what the parser reads of its characters is given by the constants `Stack` (the letters
after the dash), `Number` (what `strtol` reads, where it reads to the end) and `Word` (no dash in front).
`IdRange` stands for 2^32, to which an id is cut.

The reference is not the loop but the rules of the documentation
(`PC/single_threaded/README.md:113-125`), stated over the whole command line: `Role`, `Wrong`,
`Helped`, `Legal`, `Wanted`, `Promised`.

* `TypeOK`: among other things, the number of iterations stays a byte.
* `FollowsTheRules`: the parser refuses exactly the lines that break a rule, wherever it is broken, and sends
  nothing then.
* `DoesThePromised`: what is sent is what the line asks for, each test once, with the iterations and
  (`hw_tester`) the message given for it; `get` prints the ids in their order, up to the first that is none.
* `EveryLineEnds`, under fairness of the program.

Run `parser` enumerates every line of up to 4 of 15 arguments for both programs (363401 states):
overlapping, repeating and unknown letters, words that are numbers, out of range or the name of a
command, the empty argument. Four arguments fit two flags with a value each, and `-n` or a stack in
last place.

Run `mt_message` refutes `OwnMessage` for `mthw_tester`: the documented line
`mthw_verif -uit -s "SPI"` (`src/README.md:118`) gives SPI its own message, but the request has one
message for all tests, that of the first peripheral in the fixed order.

### Proofs

`ArgParserProofs.tla` proves for every command line, of any length and over any arguments, stacks and
numbers (the assumption only says that they are told apart as the constants name them: for instance, a
word is no `-n`):

| Theorem | Statement |
|---|---|
| `Invariance` | `Spec => []IInv` |
| `TypeCorrect`, `Rules`, `Promises` | `TypeOK`, `FollowsTheRules`, `DoesThePromised` are invariants |

The argument. The loop knows only what it has passed, the rules speak of the whole line. The
invariant of the loop (`ParseInv`) says of the arguments before `idx` that none is wrong and none
asks for help (`Clean`), and that the flags and tables hold what these arguments mean, with the last message
given for a test where there are several (`Collected`). `Boundary` is what makes this inductive: the
parser has never stopped between an option and its value, so that the argument at `idx` plays
the role for the parser that `Role` gives it. A step then passes one argument (`PastOne`) or two
(`PastTwo`), or meets a wrong one, and then the line is not legal, whatever follows (`RefusedHere`). `SentInv` says
the same of the requests that `CommandInv` says of the ids `get` prints: those so far are right.

`Role` is a recursive function. That it exists at all, that is, satisfies its equation
(`RoleDef`), is proved from the well-foundedness of `<` (`AllNumbers`, `RoleExists`).

## 8. The queues of the kernel

### Modules

`KernelQueue.tla` models a queue of FreeRTOS 10.2.1 at the grain at which interrupts and tasks can
interleave: one action per critical section (`taskENTER_CRITICAL`), and one per step of the code that runs with
the scheduler suspended, between any two of which an interrupt may come.

| Actions | Code (`queue.c`, `tasks.c`) |
|---|---|
| `Call` | a task calls, with any time-out |
| `Send`, `Receive`, `LeaveNow`, `SetTimeOut` | the critical section at the top of the loop of `xQueueGenericSend`, `xQueueReceive` and `xQueueSemaphoreTake`, by its outcome |
| `SuspendAll`, `LockQueue` | `vTaskSuspendAll`, `prvLockQueue` |
| `CheckForTimeOut`, `Recheck`, `PlaceOnEventList` | `xTaskCheckForTimeOut`, `prvIsQueueFull` and `prvIsQueueEmpty`, `vTaskPlaceOnEventList` |
| `UnlockTx`, `UnlockRx` | the two critical sections of `prvUnlockQueue` |
| `ResumeAll` | `xTaskResumeAll`: pending tasks, then pended ticks |
| `GiveUp` | out of time; a receive looks once more |
| `SendFromISR` | `xQueueGenericSendFromISR`, `xQueueGiveFromISR` |
| `Tick` | `xTaskIncrementTick`, counted only while the scheduler is suspended |

`BoundedQueue.tla` is what the rest of the firmware expects: calls that take effect at once on a
bounded FIFO, calls with a time-out that may give up, and calls without that return only with what they
asked for. `KernelQueue` instantiates it as `Fifo`, with `Content` (the ring buffer, read from the
oldest item) for the queue.

Abstracted: which waiting task is woken and which ready task runs (by priority, then age) are left
open, so every order is allowed for; the tick count is the remaining time of each call, and does not overflow.
A semaphore is a queue with items of size zero. Left out, since the firmware does not use them on these queues:
sending to the front, overwriting, peeking, receiving in an interrupt (so `cRxLock` never counts), queue
sets. Mutexes with their inheritance are in section 6.

### Properties

* `TypeOK`: the places stay in the storage, the counts in an `int8_t`.
* `NoLostWakeup`: while a task waits to receive, there is for every item in the queue a receiver that
  was woken and has not looked yet, or a count that will wake one at the unlocking; likewise for senders
  and room.
* `ListsConsistent`: each task that is blocked, or just blocking, is on one list, nobody else is on
  any; outside a suspension nothing is pending and the queue is unlocked.
* `ImplementsFifo`: refinement of `BoundedQueue`.
* `TimedCallsReturn`, `NobodyWaitsForNothing`: liveness.

### Run

`queue` has three tasks and a queue of length 2, in one of two uses: a sender, a receiver and an
interrupt with two kinds of items; or a third task that sends and receives, with one kind. 368074
states. A length of 2 makes the pointers wrap and distinguishes the order of items; three tasks are the
least with two waiting on one list while a third has the queue locked; one pended tick and time-outs
of at most one tick let a time-out run out before, during and after a suspension. Deadlock is not
checked: tasks need not call, and then nothing but the tick is left.

Fairness. Weak fairness of the tick, strong fairness of each task's progress: a ready task loses its
turn whenever another one suspends the scheduler, and gets it back each time. That is what the kernel gives tasks of
one priority, and to others as long as the more urgent ones block.

### Proofs

`KernelQueueProofs.tla` proves for every finite set of tasks, every use, every time-out and every length
from 1 to 127, which is what an `int8_t` can count and more than the firmware's 32:

| Theorem | Statement |
|---|---|
| `Invariance` | `Spec => []IInv` |
| `TypeCorrect`, `WakeupsKept`, `ListsAgree` | `TypeOK`, `NoLostWakeup`, `ListsConsistent` are invariants |
| `Refinement` | `Spec => ImplementsFifo` |

The argument. `NoLostWakeup` can break where a task puts itself on an event list, long after it looked
at the queue. `NothingMissed` says of that moment that whatever came since is counted in
`cTxLock`; it holds because the lock was taken before the last look (`LocksHeld`, `SuspenderInside`).
Unlocking turns the count into as many woken tasks, or empties the list. A woken task that takes an item
lowers both sides by one; one that runs out of time is no longer waiting, and looks once more
(`CallsTimed` has it that only a call out of time gives up, which the refinement needs for calls that
wait for ever). `RingClosed` ties the two pointers to the count, from which follows that a send appends to
`Content` and a receive takes its head; every other step stutters.

## 9. What is proved and what is only checked

Proved for all values of the constants: every safety property that a passing run checks, of the pipeline, the
clients, the drivers, the shared services, the parser and the kernel queue, and the refinements
`ImplementsService` and `ImplementsFifo` (eight modules of proofs, 38 theorems a reader should know
of).

Model-checked only: liveness, that is `EveryRequestConcluded`, `EveryCallReturns`, `EveryJobEnds`,
`TimedCallsReturn`, `NobodyWaitsForNothing`, `EveryRunEnds` and `EveryLineEnds`. It rests on
fairness, whose meaning is `ENABLED`, and the prover has no rules for that.

The proofs do without induction over data, for which the library's theorems cannot be used here. Where
a definition was recursive (`For` in the pipeline) it is stated by what it returns, and where it has to be
(`Role` in the parser) the argument is by the least counterexample.

## 10. What is not modelled

* The dummy server is a debugging aid without state. It answers `sizeof(struct InMsg)`, 8 bytes,
  where the clients accept answers of 5, so that a client that meets it ends with `UDP_ERROR`.
* HAL, CMSIS, lwIP and the rest of FreeRTOS are vendored; they appear through the calls the
  project makes. They are more than nine tenths of the lines of the repository, register
  definitions for the most part. Of FreeRTOS the queues are modelled, since every hand-over of the
  firmware rests on them.
* The generated initialisation has no control flow of its own.
* In the clients: errors of `socket` and `recvfrom` and answers of the wrong size, which nothing the programs and the
  UUT do brings about, timestamps, and the layout of what is printed.
