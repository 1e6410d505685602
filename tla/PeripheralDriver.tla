---------------------------- MODULE PeripheralDriver ----------------------------
(***************************************************************************)
(* The five test drivers of the UUT: what one call of XXX_Test_Perform     *)
(* does with its peripheral, and what the interrupts do meanwhile and      *)
(* after it has returned.                                                  *)
(*                                                                         *)
(* A driver is a straight line of operations, Program[d]; the actions are  *)
(* the operations.  A transfer that was started belongs to the HAL and the *)
(* hardware: it completes, breaks off or stays, whether or not the call    *)
(* that started it is still there.  Bytes, samples and CRCs are reduced to *)
(* whether the final comparison holds.                                     *)
(***************************************************************************)
EXTENDS Naturals, Sequences

CONSTANT Driver   \* the drivers to choose from

ASSUME DriverAssumption == Driver \subseteq {"UART", "SPI", "I2C", "ADC", "TIM"}

\* A channel is one direction of one device, and what a transfer runs on.
Chan(dev, dir) == [dev |-> dev, dir |-> dir]
Both(dev) == {Chan(dev, "rx"), Chan(dev, "tx")}

Drain(c) == [op |-> "drain", chans |-> {c}]      \* osSemaphoreAcquire(sem of c, 0)
Abort(dev) == [op |-> "abort", chans |-> Both(dev)]
Start(c) == [op |-> "start", chans |-> {c}]
Await(c) == [op |-> "await", chans |-> {c}]      \* osSemaphoreAcquire with a timeout
TimersOn == [op |-> "timers_on", chans |-> {}]
TimersOff == [op |-> "timers_off", chans |-> {}]
Compare == [op |-> "compare", chans |-> {}]

\* Mutant: the semaphores are not drained.
UART_Undrained ==
  LET rx4 == Chan("uart4", "rx")  tx4 == Chan("uart4", "tx")
      rx5 == Chan("uart5", "rx")  tx5 == Chan("uart5", "tx")
  IN <<Abort("uart4"), Abort("uart5"),
       Start(rx5), Start(tx4), Await(rx5), Abort("uart4"), Abort("uart5"),
       Start(rx4), Start(tx5), Await(rx4), Compare>>

UART_Test_Perform ==
  LET rx4 == Chan("uart4", "rx")  tx4 == Chan("uart4", "tx")
      rx5 == Chan("uart5", "rx")  tx5 == Chan("uart5", "tx")
  IN <<Drain(rx4), Drain(rx5), Abort("uart4"), Abort("uart5"),
       Start(rx5), Start(tx4), Await(rx5), Abort("uart4"), Abort("uart5"),
       Start(rx4), Start(tx5), Await(rx4), Compare>>

\* Mutant: only the master is reset before the first transfer.
SPI_HalfReset ==
  LET rx1 == Chan("spi1", "rx")  tx1 == Chan("spi1", "tx")
      rx4 == Chan("spi4", "rx")  tx4 == Chan("spi4", "tx")
  IN <<Drain(tx1), Drain(rx4), Drain(tx4), Drain(rx1), Abort("spi1"),
       Start(rx4), Start(tx1), Await(tx1), Await(rx4), Abort("spi1"), Abort("spi4"),
       Start(tx4), Start(rx1), Await(tx4), Await(rx1), Compare>>

SPI_Test_Perform ==
  LET rx1 == Chan("spi1", "rx")  tx1 == Chan("spi1", "tx")
      rx4 == Chan("spi4", "rx")  tx4 == Chan("spi4", "tx")
  IN <<Drain(tx1), Drain(rx4), Drain(tx4), Drain(rx1), Abort("spi1"), Abort("spi4"),
       Start(rx4), Start(tx1), Await(tx1), Await(rx4), Abort("spi1"), Abort("spi4"),
       Start(tx4), Start(rx1), Await(tx4), Await(rx1), Compare>>

\* Mutant: only the master is waited for.
I2C_MasterOnly ==
  LET rx1 == Chan("i2c1", "rx")  tx1 == Chan("i2c1", "tx")
      rx2 == Chan("i2c2", "rx")  tx2 == Chan("i2c2", "tx")
  IN <<Drain(tx1), Drain(rx1), Drain(tx2), Drain(rx2),
       Start(rx2), Start(tx1), Await(tx1),
       Start(rx1), Start(tx2), Await(rx1), Compare>>

I2C_Test_Perform ==
  LET rx1 == Chan("i2c1", "rx")  tx1 == Chan("i2c1", "tx")
      rx2 == Chan("i2c2", "rx")  tx2 == Chan("i2c2", "tx")
  IN <<Drain(tx1), Drain(rx1), Drain(tx2), Drain(rx2),
       Start(rx2), Start(tx1), Await(tx1), Await(rx2),
       Start(rx1), Start(tx2), Await(tx2), Await(rx1), Compare>>

ADC_Test_Perform ==
  LET conversion == Chan("adc1", "rx")
  IN <<Start(conversion), Await(conversion), Compare>>

TIM_Test_Perform ==
  LET sampling == Chan("tim6_dma", "rx")
  IN <<TimersOn, Start(sampling), Await(sampling), TimersOff, Compare>>

Program ==
  [UART |-> UART_Test_Perform, SPI |-> SPI_Test_Perform, I2C |-> I2C_Test_Perform,
   ADC |-> ADC_Test_Perform, TIM |-> TIM_Test_Perform]

Uses(d, op) == UNION {Program[d][n].chans : n \in {m \in DOMAIN Program[d] : Program[d][m].op = op}}
Started(d) == Uses(d, "start")
Awaited(d) == Uses(d, "await")      \* the channels with a semaphore

VARIABLES
  driver,      \* the driver of this behaviour
  pc,          \* the operation the task is at; 0 while it is not in XXX_Test_Perform
  transfer,    \* for each channel: none, armed, running once both ends are started, or
               \* abandoned: its interrupts are off, but the HAL has not become ready again
  hung,        \* the DMA streams an abort could not stop: the HAL starts none of them again
  token,       \* the binary semaphores the callbacks release
  timersOn,    \* TIM2 and TIM6
  halted,      \* Error_Handler: interrupts off, for ever
  result,      \* the return statement of the last call; all but "success" return TEST_FAILED
  mine,        \* history: the channels the current or last call has started ...
  done,        \* ... and those of them that have completed
  late,        \* history: a transfer of an earlier call completed after its drain
  disturbed    \* history: a call was refused by the HAL or ran into a timeout

vars == <<driver, pc, transfer, hung, token, timersOn, halted, result, mine, done, late, disturbed>>

-----------------------------------------------------------------------------
Step == Program[driver][pc]
At(op) == pc # 0 /\ ~halted /\ Step.op = op
AtChan(op, c) == At(op) /\ c \in Step.chans

Live(c) == transfer[c] \in {"armed", "running"}

\* The DMA streams under a transfer, each named for its channel: a UART sends by interrupts, and
\* the master of the SPI has to send in order to receive.
Streams(c) ==
  IF driver = "UART" /\ c.dir = "tx" THEN {}
  ELSE IF c = Chan("spi1", "rx") THEN Both("spi1") ELSE {c}

\* c would be refused: a stream of it has hung, or the HAL is not ready. The UART keeps one state
\* for each direction, the others one for the device.
Busy(c) ==
  \/ Streams(c) \cap hung # {}
  \/ \E d \in Started(driver) :
       /\ transfer[d] # "none"
       /\ d.dev = c.dev
       /\ driver = "UART" => d.dir = c.dir

\* The other end of the wire; ADC and timer have none.
Ends(c) == {d \in Started(driver) : d.dev # c.dev /\ d.dir # c.dir}

Init ==
  /\ driver \in Driver
  /\ pc = 0
  /\ transfer = [c \in Started(driver) |-> "none"]
  /\ hung = {}
  /\ token = [c \in Awaited(driver) |-> 0]
  /\ timersOn = FALSE /\ halted = FALSE
  /\ result = "none"
  /\ mine = {} /\ done = {} /\ late = FALSE /\ disturbed = FALSE

-----------------------------------------------------------------------------
\* The task.

Advance == pc' = pc + 1
Return(r) == pc' = 0 /\ result' = r

\* The task loop calls XXX_Test_Perform: for the next iteration or the next message.
Call ==
  /\ pc = 0 /\ ~halted
  /\ pc' = 1 /\ result' = "none"
  /\ mine' = {} /\ done' = {} /\ late' = FALSE
  /\ UNCHANGED <<driver, transfer, hung, token, timersOn, halted, disturbed>>

DrainSemaphore ==
  /\ At("drain")
  /\ token' = [c \in DOMAIN token |-> IF c \in Step.chans THEN 0 ELSE token[c]]
  /\ Advance
  /\ UNCHANGED <<driver, transfer, hung, timersOn, halted, result, mine, done, late, disturbed>>

\* HAL_UART_Abort, HAL_SPI_Abort: both directions are ready again, no callback is made. HAL_DMA_Abort
\* may run out of time for a stream; the UART then returns before it is ready. No driver looks
\* at the result.
AbortDevice ==
  /\ At("abort")
  /\ LET streams == {s \in Started(driver) : \E c \in Step.chans \cap Started(driver) :
                                              Live(c) /\ s \in Streams(c)}
     IN \E stuck \in SUBSET streams :
          /\ hung' = hung \cup stuck
          /\ transfer' = [c \in DOMAIN transfer |->
                            IF c \notin Step.chans THEN transfer[c]
                            ELSE IF driver = "UART" /\ stuck # {} /\ transfer[c] # "none"
                            THEN "abandoned" ELSE "none"]
  /\ Advance
  /\ UNCHANGED <<driver, token, timersOn, halted, result, mine, done, late, disturbed>>

StartTransfer(c) ==
  /\ AtChan("start", c)
  /\ ~Busy(c)
  /\ LET linked == \A d \in Ends(c) : Live(d)
     IN transfer' = [d \in DOMAIN transfer |->
                       IF d = c THEN IF linked THEN "running" ELSE "armed"
                       ELSE IF linked /\ d \in Ends(c) THEN "running" ELSE transfer[d]]
  /\ mine' = mine \cup {c}
  /\ Advance
  /\ UNCHANGED <<driver, hung, token, timersOn, halted, result, done, late, disturbed>>

\* The HAL is busy with an earlier transfer, or reports an error of the hardware.
StartRefused ==
  /\ At("start")
  /\ Return("refused")
  /\ disturbed' = TRUE
  /\ UNCHANGED <<driver, transfer, hung, token, timersOn, halted, mine, done, late>>

Acquire(c) ==
  /\ AtChan("await", c)
  /\ token[c] = 1
  /\ token' = [token EXCEPT ![c] = 0]
  /\ Advance
  /\ UNCHANGED <<driver, transfer, hung, timersOn, halted, result, mine, done, late, disturbed>>

\* Mutant: the call returns at once, as the other drivers do.
AcquireTimeoutRunning(c) ==
  /\ AtChan("await", c)
  /\ token[c] = 0
  /\ Return("timeout")
  /\ disturbed' = TRUE
  /\ UNCHANGED <<driver, transfer, hung, token, timersOn, halted, mine, done, late>>

\* Mutant: the wait is for ever.
AcquireForever(c) == FALSE /\ UNCHANGED vars

\* The wait ends without a token, and the call with it; nothing stops the transfer. The timer driver
\* first stops its timers, which is its next operation.
AcquireTimeout(c) ==
  /\ AtChan("await", c)
  /\ token[c] = 0
  /\ pc' = IF driver = "TIM" THEN pc + 1 ELSE 0
  /\ result' = "timeout"
  /\ disturbed' = TRUE
  /\ UNCHANGED <<driver, transfer, hung, token, timersOn, halted, mine, done, late>>

\* HAL_TIM_Base_Start and HAL_TIM_Base_Stop of both timers; their results are not looked at. After
\* a failed wait the call returns.
SwitchTimers ==
  /\ At("timers_on") \/ At("timers_off")
  /\ timersOn' = At("timers_on")
  /\ pc' = IF result = "timeout" THEN 0 ELSE pc + 1
  /\ UNCHANGED <<driver, transfer, hung, token, halted, result, mine, done, late, disturbed>>

\* Match_CRC, or the limits for the value or the samples.
CompareData ==
  /\ At("compare")
  /\ \E r \in {"success", "mismatch"} : Return(r)
  /\ UNCHANGED <<driver, transfer, hung, token, timersOn, halted, mine, done, late, disturbed>>

-----------------------------------------------------------------------------
\* The interrupts.

\* The callback finds its semaphore released already.  The UART and the ADC log that, but
\* safe_printf cannot take a mutex in an interrupt and calls Error_Handler.
HaltsOnFullSemaphore == driver \in {"UART", "ADC"}

\* HAL_ADC_Stop_DMA, called by the callback, meets the lock of the HAL_ADC_Start_DMA it
\* interrupts; then the callback calls Error_Handler.
MayMeetLock(c) == driver = "ADC" /\ AtChan("start", c)

\* Is c no longer to be drained by the call that is running?
Drained(c) == pc # 0 /\ \A n \in pc..Len(Program[driver]) : Program[driver][n] # Drain(c)

\* Mutant: the semaphores count, as with osSemaphoreNew(2, 0, NULL).
CompleteCounting(c) ==
  /\ ~halted
  /\ transfer[c] = "running"
  /\ driver = "TIM" => timersOn
  /\ transfer' = [transfer EXCEPT ![c] = "none"]
  /\ token' = [d \in DOMAIN token |-> IF d = c THEN token[d] + 1 ELSE token[d]]
  /\ done' = IF c \in mine THEN done \cup {c} ELSE done
  /\ late' = (late \/ (c \notin mine /\ Drained(c)))
  /\ UNCHANGED <<driver, pc, hung, timersOn, halted, result, mine, disturbed>>

\* The last byte, word or sample has arrived: the HAL is ready again and makes the callback.
Complete(c) ==
  /\ ~halted
  /\ transfer[c] = "running"
  /\ driver = "TIM" => timersOn
  /\ transfer' = [transfer EXCEPT ![c] = "none"]
  /\ token' = [d \in DOMAIN token |-> IF d = c THEN 1 ELSE token[d]]
  /\ \/ halted' = (HaltsOnFullSemaphore /\ c \in DOMAIN token /\ token[c] = 1)
     \/ MayMeetLock(c) /\ halted' = TRUE
  /\ done' = IF c \in mine THEN done \cup {c} ELSE done
  /\ late' = (late \/ (c \notin mine /\ Drained(c)))
  /\ UNCHANGED <<driver, pc, hung, timersOn, result, mine, disturbed>>

\* The HAL ends a transfer after an error of the bus or the DMA; the drivers have no error callbacks.
BreakOff(c) ==
  /\ ~halted
  /\ Live(c)
  /\ transfer' = [transfer EXCEPT ![c] = "none"]
  /\ UNCHANGED <<driver, pc, hung, token, timersOn, halted, result, mine, done, late, disturbed>>

-----------------------------------------------------------------------------
TaskStep ==
  \/ DrainSemaphore
  \/ AbortDevice
  \/ \E c \in Started(driver) : StartTransfer(c)
  \/ StartRefused
  \/ \E c \in Awaited(driver) : Acquire(c) \/ AcquireTimeout(c)
  \/ SwitchTimers
  \/ CompareData

Interrupt == \E c \in Started(driver) : Complete(c) \/ BreakOff(c)

Next == Call \/ TaskStep \/ Interrupt

Spec == Init /\ [][Next]_vars

\* The driver's task is scheduled, and the tick ends its waits.
FairSpec == Spec /\ WF_vars(TaskStep)

-----------------------------------------------------------------------------
TypeOK ==
  /\ driver \in Driver
  /\ pc \in 0..Len(Program[driver])
  /\ transfer \in [Started(driver) -> {"none", "armed", "running", "abandoned"}]
  /\ hung \subseteq Started(driver)
  /\ token \in [Awaited(driver) -> {0, 1}]
  /\ {timersOn, halted, late, disturbed} \subseteq BOOLEAN
  /\ result \in {"none", "refused", "timeout", "mismatch", "success"}
  /\ done \subseteq mine /\ mine \subseteq Started(driver)

\* A test succeeds only if everything it waited for has happened in this very call: whatever
\* earlier calls have left behind, for the drivers that drain their semaphores - unless an
\* old transfer ends between the drain and the start -, and as long as no call was refused
\* or timed out for the ADC and the timers, which do not drain.
SuccessIsEarned ==
  (result = "success" /\ IF driver \in {"ADC", "TIM"} THEN ~disturbed ELSE ~late)
    => Awaited(driver) \subseteq done

\* Until a call is refused or times out, each call finds the peripheral as it needs it: no
\* start finds the HAL busy, no token is left from an earlier transfer, and no callback halts.
CallsLeaveNothingBehind ==
  ~disturbed =>
    /\ ~halted
    /\ \A c \in Started(driver) : AtChan("start", c) => ~Busy(c)
    /\ pc = 0 => \A c \in Awaited(driver) : token[c] = 0 /\ transfer[c] = "none"

\* The UART and the SPI recover from any call: whatever was left running, the HAL is ready
\* at every start, but at a device of which an abort could not stop a DMA stream, and no callback
\* of a call halts the system, unless an old transfer completes between the drain and the abort.
AbortRecovers ==
  driver \in {"UART", "SPI"} =>
    /\ \A c \in Started(driver) : AtChan("start", c) /\ Busy(c) => \E s \in hung : s.dev = c.dev
    /\ halted => late

\* Between calls the timers run only if the last call was refused by the DMA.
TimersStopped == (pc = 0 /\ timersOn) => result = "refused"

\* Every call of XXX_Test_Perform returns, unless the system halts.
EveryCallReturns == pc # 0 ~> (pc = 0 \/ halted)

\* Whenever a test succeeds its own sampling, conversion or transfers are done.  This is what
\* the comments at the semaphores and the description of the timer test say.
SuccessMeansDone == result = "success" => Awaited(driver) \subseteq done
=============================================================================
