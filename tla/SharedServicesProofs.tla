-------------------------- MODULE SharedServicesProofs --------------------------
(***************************************************************************)
(* Theorems about SharedServices, for every set of tasks of the firmware   *)
(* and every number of jobs.                                               *)
(***************************************************************************)
EXTENDS SharedServices, TLAPS

-----------------------------------------------------------------------------
\* The inductive invariant.

BootPlaces == {"lwip_init", "crc_init", "log_init", "gone"}

\* Until defaultTask is gone no other task has made a step, and what it has passed is there.
BootFirst ==
  /\ at[Boot] \in BootPlaces
  /\ \A t \in Task \ {Boot} : at[t] \notin BootPlaces /\ (at[Boot] # "gone" => at[t] = "start")
  /\ at[Boot] # "lwip_init" => lwip
  /\ at[Boot] \in {"log_init", "gone"} => exists["crc"]
  /\ at[Boot] = "gone" => exists["log"]

\* Where a task has a mutex.
CrcPlaces == {"crc_feed1", "crc_read1", "crc_feed2", "crc_read2", "crc_give"}
LogPlaces == {"log_print", "log_malloc", "log_sending", "log_give"}

HolderInside ==
  \A t \in Task :
    /\ at[t] \in CrcPlaces <=> holder["crc"] = t
    /\ at[t] \in LogPlaces <=> holder["log"] = t

\* While a task has a result to compute the unit holds its pieces only.
UnitInv ==
  \A t \in Task :
    /\ at[t] = "crc_read1" => unit = {[task |-> t, buf |-> 1, part |-> "head"]}
    /\ at[t] = "crc_read2" => unit = {[task |-> t, buf |-> 2, part |-> "head"]}
    /\ at[t] \in {"crc_feed2", "crc_read2", "crc_give", "crc_verdict"} => sums[t][1] = OwnBuffer(t, 1)
    /\ at[t] \in {"crc_give", "crc_verdict"} => sums[t][2] = OwnBuffer(t, 2)

SenderInv == ~lost /\ \A t \in Task : sender = t => at[t] = "log_sending"

Lines == {<< >>, <<"log">>, <<"log", "log">>, <<"log", "log", "log">>,
          <<"compare">>, <<"compare", "log">>, <<"print", "log">>, <<"compute">>}

\* Behind a bare text comes a line.
BareInv ==
  \A t \in Task :
    /\ todo[t] \in Lines
    /\ at[t] \in {"print", "print_malloc"} => todo[t] = <<"log">>
    /\ t \in bare => \/ at[t] \in {"print_malloc", "next"} /\ todo[t] = <<"log">>
                     \/ at[t] \in {"log_take", "log_wait", "log_print", "log_malloc"}

PrintLine == <<"print", "log">>

\* Only the I2C test has a bare text to print.
PrintInv ==
  \A t \in Task :
    /\ todo[t] = PrintLine => t = "i2c"
    /\ at[t] \in {"print", "print_malloc"} => t = "i2c"

IInv ==
  /\ TypeOK
  /\ BootFirst
  /\ HolderInside
  /\ UnitInv
  /\ SenderInv
  /\ BareInv
  /\ PrintInv
  /\ WaiterServed
  /\ HaltsAtBootOnly
-----------------------------------------------------------------------------
\* Facts about single steps.

USE DEF mutexes, crcUnit, log

Places == {"lwip_init", "crc_init", "log_init", "gone", "start", "next", "idle",
           "crc_check", "crc_take", "crc_wait", "crc_feed1", "crc_read1", "crc_feed2",
           "crc_read2", "crc_give", "crc_verdict", "log_take", "log_wait", "log_print",
           "log_malloc", "log_sending", "log_give", "print", "print_malloc"}

\* defaultTask is a task, no task is NoTask, and priorities are numbers.
LEMMA TaskFacts ==
  /\ Boot \in Task /\ NoTask \notin Task
  /\ Priority[Boot] = 35
  /\ \A t \in Task : Priority[t] \in Nat /\ (t # Boot => Priority[t] < 35)
<1>1. /\ \A t \in Names : Priority[t] \in Nat /\ (t # Boot => Priority[t] < 35)
      /\ Priority["default"] = 35
  BY DEF Priority, Names, Boot
<1> QED BY <1>1, TaskAssumption DEF Names, NoTask, Boot

\* A job is a line of services, and only a job of the I2C test begins with the bare printf.
LEMMA Jobs ==
  ASSUME NEW t \in Task, NEW js \in Job[t], t # Boot
  PROVE  js \in Lines /\ (js = PrintLine => t = "i2c")
BY TaskAssumption, SMTT(30) DEF Job, Lines, Names, Boot, PrintLine

\* The jobs of the tasks are sequences of services.
LEMMA LinesTyped == Lines \subseteq Seq(Service)
<1>1. "log" \in Service /\ "compare" \in Service /\ "print" \in Service /\ "compute" \in Service
  BY DEF Service
<1> QED BY <1>1, SMTT(30) DEF Lines

\* What is left of a job whose first service is begun; only a log line follows a bare printf.
LEMMA LinesBegun ==
  ASSUME NEW js \in Lines, js # << >>
  PROVE  /\ Tail(js) \in Lines /\ Head(js) \in Service
         /\ Tail(js) # PrintLine
         /\ Head(js) = "print" => js = PrintLine /\ Tail(js) = <<"log">>
         /\ js = <<"log">> => Head(js) = "log"
<1>1. Tail(<<"log">>) = << >> /\ Tail(<<"compare">>) = << >> /\ Tail(<<"compute">>) = << >>
  OBVIOUS
<1>2. Tail(<<"log", "log">>) = <<"log">> /\ Tail(<<"compare", "log">>) = <<"log">>
      /\ Tail(<<"print", "log">>) = <<"log">>
  OBVIOUS
<1>3. Tail(<<"log", "log", "log">>) = <<"log", "log">>
  OBVIOUS
<1>4. Tail(js) \in Lines
  BY <1>1, <1>2, <1>3, Zenon DEF Lines
<1>5. Head(js) = js[1]
  BY SMT DEF Lines
<1>6. Head(js) \in Service
  BY <1>5, SMT DEF Lines, Service
<1>7. Head(js) = "print" => js = PrintLine
  BY <1>5, SMT DEF Lines, PrintLine
<1>8. js = <<"log">> => Head(js) = "log"
  BY <1>5, SMT
<1>9. Tail(js) \in {<< >>, <<"log">>, <<"log", "log">>}
  BY <1>1, <1>2, <1>3, Zenon DEF Lines
<1>10. Tail(js) # PrintLine
  BY <1>9, SMT DEF PrintLine
<1> QED BY <1>2, <1>4, <1>6, <1>7, <1>8, <1>10 DEF PrintLine

\* Whom a release wakes, and that it moves no one else.
LEMMA GiveMoves ==
  ASSUME TypeOK, NEW t \in Task, NEW m \in Mutex, NEW a \in Places, Give(t, m, a), ~Waits(t)
  PROVE  /\ at' \in [Task -> Places]
         /\ at'[t] = a
         /\ holder' = [holder EXCEPT ![m] = NoTask]
         /\ \A u \in Task \ {t} :
              \/ at'[u] = at[u]
              \/ /\ u \in FirstWaiters(m)
                 /\ at'[u] = IF m = "crc" THEN "crc_take" ELSE "log_take"
<1>1. CASE FirstWaiters(m) = {}
  BY <1>1 DEF Give, Goto, TypeOK, Places
<1>2. CASE FirstWaiters(m) # {}
  <2>1. PICK w \in FirstWaiters(m) :
          at' = [at EXCEPT ![t] = a, ![w] = IF m = "crc" THEN "crc_take" ELSE "log_take"]
    BY <1>2 DEF Give
  <2>2. w \in Task /\ w # t
    BY DEF FirstWaiters, Waits
  <2> QED BY <2>1, <2>2, <1>2 DEF Give, TypeOK, Places
<1> QED BY <1>1, <1>2
-----------------------------------------------------------------------------
\* Type correctness.

\* Every step preserves the types.
LEMMA TypeStep == IInv /\ [Next]_vars => TypeOK'
<1> SUFFICES ASSUME IInv, [Next]_vars PROVE TypeOK'
  OBVIOUS
<1>t. TypeOK /\ \A t \in Task : todo[t] \in Lines
  BY DEF IInv, BareInv
<1> USE DEF Goto, At, Runs, Places
<1>1. ASSUME NEW t \in Task, InitLwip(t) \/ Init_CRC(t) \/ Init_Log_Mtx(t) PROVE TypeOK'
  BY <1>t, <1>1 DEF TypeOK, InitLwip, Init_CRC, Init_Log_Mtx, Create, Mutex
<1>2. ASSUME NEW t \in Task, Start(t) PROVE TypeOK'
  <2>1. << >> \in Seq(Service) /\ <<"log">> \in Seq(Service)
    BY LinesTyped DEF Lines
  <2>2. todo' = todo \/ \E js \in {<< >>, <<"log">>} : todo' = [todo EXCEPT ![t] = js]
    BY <1>2, Zenon DEF Start
  <2>3. todo' \in [Task -> Seq(Service)]
    BY <1>t, <2>1, <2>2 DEF TypeOK
  <2> QED BY <1>t, <1>2, <2>3 DEF TypeOK, Start
<1>3. ASSUME NEW t \in Task, NextService(t) PROVE TypeOK'
  <2>1. CASE todo[t] = << >>
    BY <1>t, <1>3, <2>1 DEF TypeOK, NextService
  <2>2. CASE todo[t] # << >>
    <3>1. Head(todo[t]) \in Service /\ Tail(todo[t]) \in Seq(Service)
      BY <1>t, <2>2, LinesBegun, LinesTyped
    <3>2. Entry[Head(todo[t])] \in Places
      BY <3>1 DEF Entry, Service
    <3> QED BY <1>t, <1>3, <2>2, <3>1, <3>2 DEF TypeOK, NextService
  <2> QED BY <2>1, <2>2
<1>4. ASSUME NEW t \in Task, Arrive(t) PROVE TypeOK'
  <2>1. t # Boot
    BY <1>4 DEF IInv, BootFirst, BootPlaces, Arrive
  <2>2. \A js \in Job[t] : js \in Seq(Service)
    BY <2>1, Jobs, LinesTyped
  <2> QED BY <1>t, <1>4, <2>2, JobsAssumption DEF TypeOK, Arrive
<1>5. ASSUME NEW t \in Task, CrcCheck(t) \/ CrcTake(t) \/ CrcTimeout(t) \/ CrcTick(t) PROVE TypeOK'
  BY <1>t, <1>5 DEF TypeOK, CrcCheck, CrcTake, CrcTimeout, CrcTick, Take, Block
<1>6. ASSUME NEW t \in Task, NEW b \in {1, 2}, CrcFeed(t, b) PROVE TypeOK'
  BY <1>t, <1>6 DEF TypeOK, CrcFeed, FeedAt, ReadAt, Piece
<1>7. ASSUME NEW t \in Task, NEW b \in {1, 2}, CrcRead(t, b) PROVE TypeOK'
  <2>1. unit' \in SUBSET Piece
    BY <1>t, <1>7 DEF TypeOK, CrcRead, Piece
  <2>2. sums' = [sums EXCEPT ![t] = [sums[t] EXCEPT ![b] = unit']]
    BY <1>t, <1>7 DEF TypeOK, CrcRead
  <2>3. sums' \in [Task -> [{1, 2} -> SUBSET Piece]]
    BY <1>t, <2>1, <2>2 DEF TypeOK
  <2> QED BY <1>t, <1>7, <2>1, <2>3 DEF TypeOK, CrcRead
<1>8. ASSUME NEW t \in Task, CrcVerdict(t) PROVE TypeOK'
  BY <1>t, <1>8 DEF TypeOK, CrcVerdict
<1>9. ASSUME NEW t \in Task, CrcGive(t) \/ LogGive(t) PROVE TypeOK'
  <2> DEFINE m == IF CrcGive(t) THEN "crc" ELSE "log"
             a == IF CrcGive(t) THEN "crc_verdict" ELSE IF t \in retrying THEN "crc_take" ELSE "next"
  <2>1. Give(t, m, a) /\ ~Waits(t) /\ m \in Mutex /\ a \in Places
    BY <1>9 DEF CrcGive, LogGive, Waits, WaitsFor, Mutex
  <2>2. at' \in [Task -> Places] /\ holder' = [holder EXCEPT ![m] = NoTask]
    BY <1>t, <2>1, GiveMoves
  <2> QED BY <1>t, <1>9, <2>1, <2>2 DEF TypeOK, CrcGive, LogGive
<1>10. ASSUME NEW t \in Task, LogTake(t) PROVE TypeOK'
  BY <1>t, <1>10 DEF TypeOK, LogTake, Take, Block
<1>11. ASSUME NEW t \in Task,
              LogBuffer(t) \/ LogTransmit(t) \/ LogTransmitted(t) \/ Printf(t) \/ PrintBuffer(t)
       PROVE  TypeOK'
  BY <1>t, <1>11 DEF TypeOK, LogBuffer, LogTransmit, LogTransmitted, Printf, PrintBuffer
<1>12. CASE UNCHANGED vars
  BY <1>t, <1>12 DEF TypeOK, vars
<1> QED
  BY <1>1, <1>2, <1>3, <1>4, <1>5, <1>6, <1>7, <1>8, <1>9, <1>10, <1>11, <1>12
     DEF Next, Step, MatchStep, LogStep

\* Only one task moves on its own; another moves only when it is woken.
LEMMA OthersStay ==
  ASSUME TypeOK, NEW t \in Task, Step(t) \/ CrcTick(t) \/ Arrive(t)
  PROVE  \A u \in Task \ {t} :
           \/ at'[u] = at[u]
           \/ at[u] = "crc_wait" /\ at'[u] = "crc_take" /\ CrcGive(t) /\ u \in FirstWaiters("crc")
           \/ at[u] = "log_wait" /\ at'[u] = "log_take" /\ LogGive(t) /\ u \in FirstWaiters("log")
<1> USE DEF Goto, At, Runs
<1>1. CASE CrcGive(t)
  <2>1. Give(t, "crc", "crc_verdict") /\ ~Waits(t) /\ "crc" \in Mutex /\ "crc_verdict" \in Places
    BY <1>1 DEF CrcGive, Waits, WaitsFor, Mutex, Places
  <2> QED BY <1>1, <2>1, GiveMoves DEF FirstWaiters, WaitsFor
<1>2. CASE LogGive(t)
  <2> DEFINE a == IF t \in retrying THEN "crc_take" ELSE "next"
  <2>1. Give(t, "log", a) /\ ~Waits(t) /\ "log" \in Mutex /\ a \in Places
    BY <1>2 DEF LogGive, Waits, WaitsFor, Mutex, Places
  <2> QED BY <1>2, <2>1, GiveMoves DEF FirstWaiters, WaitsFor
<1>3. CASE CrcTick(t) \/ Arrive(t)
  BY <1>3 DEF TypeOK, CrcTick, Arrive
<1>4. CASE Step(t) /\ ~CrcGive(t) /\ ~LogGive(t)
  <2>1. \/ UNCHANGED at
        \/ \E a : Goto(t, a)
    BY <1>4, Zenon DEF Step, InitLwip, Init_CRC, Init_Log_Mtx, Create, Start, NextService, MatchStep, LogStep,
         CrcCheck, CrcTake, CrcTimeout, CrcFeed, CrcRead, CrcVerdict, LogTake, LogBuffer, LogTransmit,
         LogTransmitted, Printf, PrintBuffer, Take, Block
  <2> QED BY <2>1 DEF TypeOK
<1> QED BY <1>1, <1>2, <1>3, <1>4

-----------------------------------------------------------------------------
\* Start-up.

\* As long as defaultTask is there, no other task has the processor.
LEMMA BootOutranks == ASSUME IInv, NEW t \in Task \ {Boot}, Runs(t) PROVE at[Boot] = "gone"
<1> SUFFICES ASSUME at[Boot] # "gone" PROVE FALSE
  OBVIOUS
<1>1. at[Boot] \in {"lwip_init", "crc_init", "log_init"} /\ \A u \in Task \ {Boot} : at[u] = "start"
  BY DEF IInv, BootFirst, BootPlaces
<1>2. \A u \in Task, m \in Mutex : ~WaitsFor(u, m)
  BY <1>1 DEF WaitsFor
<1>3. Ready(Boot)
  BY <1>1, <1>2, TaskFacts DEF Ready, Waits
<1>4. Weights(t) = {Priority[t]}
  BY <1>2 DEF Weights
<1>5. 35 \in Weights(Boot)
  BY TaskFacts DEF Weights
<1>6. Outranks(Boot, t)
  BY <1>4, <1>5, TaskFacts DEF Outranks
<1> QED BY <1>3, <1>6, TaskFacts DEF Runs

\* Every step preserves that defaultTask runs first, and alone can halt the system.
LEMMA BootStep == IInv /\ [Next]_vars => BootFirst' /\ HaltsAtBootOnly'
<1> SUFFICES ASSUME IInv, [Next]_vars PROVE BootFirst' /\ HaltsAtBootOnly'
  OBVIOUS
<1>t. TypeOK /\ BootFirst /\ HaltsAtBootOnly /\ Boot \in Task
  BY TaskFacts DEF IInv
<1> USE DEF Goto, At, BootPlaces
<1>1. ASSUME NEW t \in Task, InitLwip(t) \/ Init_CRC(t) \/ Init_Log_Mtx(t)
      PROVE  BootFirst' /\ HaltsAtBootOnly'
  <2>1. t = Boot
    BY <1>t, <1>1 DEF BootFirst, InitLwip, Init_CRC, Init_Log_Mtx
  <2>2. ~halted
    BY <1>1 DEF Runs, InitLwip, Init_CRC, Init_Log_Mtx
  <2>3. BootFirst'
    BY <1>t, <1>1, <2>1 DEF BootFirst, TypeOK, InitLwip, Init_CRC, Init_Log_Mtx, Create, Mutex
  <2> QED BY <1>t, <1>1, <2>1, <2>2, <2>3 DEF HaltsAtBootOnly, InitLwip, Init_CRC, Init_Log_Mtx, Create
<1>2. ASSUME NEW t \in Task, Step(t) \/ CrcTick(t) \/ Arrive(t),
             ~InitLwip(t), ~Init_CRC(t), ~Init_Log_Mtx(t)
      PROVE  BootFirst' /\ HaltsAtBootOnly'
  <2>1. ~halted /\ t # Boot
    BY <1>t, <1>2 DEF BootFirst, Runs, Step, Start, NextService, MatchStep, LogStep, CrcCheck, CrcTake,
         CrcTimeout, CrcFeed, CrcRead, CrcGive, CrcVerdict, LogTake, LogBuffer, LogTransmit,
         LogTransmitted, LogGive, Printf, PrintBuffer, CrcTick, Arrive, WaitsFor, FeedAt, ReadAt
  <2>2. at[Boot] = "gone"
    <3>1. CASE Runs(t)
      BY <2>1, <3>1, BootOutranks
    <3>2. CASE CrcTick(t) \/ Arrive(t)
      BY <1>t, <2>1, <3>2 DEF BootFirst, CrcTick, Arrive, WaitsFor
    <3> QED BY <1>2, <3>1, <3>2 DEF Step, Start, NextService, MatchStep, LogStep, CrcCheck, CrcTake,
         CrcTimeout, CrcFeed, CrcRead, CrcGive, CrcVerdict, LogTake, LogBuffer, LogTransmit,
         LogTransmitted, LogGive, Printf, PrintBuffer
  <2>3. lwip /\ exists["crc"] /\ exists["log"]
    BY <1>t, <2>2 DEF BootFirst
  <2>4. UNCHANGED <<lwip, exists, halted>>
    BY <1>2, <2>3 DEF Step, Start, NextService, MatchStep, LogStep, CrcCheck, CrcTake,
         CrcTimeout, CrcFeed, CrcRead, CrcGive, CrcVerdict, LogTake, LogBuffer, LogTransmit,
         LogTransmitted, LogGive, Printf, PrintBuffer, CrcTick, Arrive
  <2>5. at'[Boot] = "gone"
    BY <1>t, <1>2, <2>1, <2>2, OthersStay
  <2>6. at'[t] \notin BootPlaces
    <3>1. CASE CrcGive(t) \/ LogGive(t)
      <4>1. TypeOK /\ ~Waits(t)
        BY <1>t, <3>1 DEF CrcGive, LogGive, Waits, WaitsFor
      <4>2. CASE CrcGive(t)
        BY <4>1, <4>2, GiveMoves DEF CrcGive, Mutex, Places
      <4>3. CASE LogGive(t)
        BY <4>1, <4>3, GiveMoves DEF LogGive, Mutex, Places
      <4> QED BY <3>1, <4>2, <4>3
    <3>2. CASE NextService(t)
      <4>1. CASE todo[t] = << >>
        BY <1>t, <3>2, <4>1 DEF TypeOK, NextService
      <4>2. CASE todo[t] # << >>
        <5>1. Head(todo[t]) \in Service
          BY <4>2, LinesBegun DEF IInv, BareInv
        <5>2. Entry[Head(todo[t])] \notin BootPlaces
          BY <5>1 DEF Entry, Service
        <5> QED BY <1>t, <3>2, <4>2, <5>2 DEF TypeOK, NextService
      <4> QED BY <4>1, <4>2
    <3>3. CASE ~CrcGive(t) /\ ~LogGive(t) /\ ~NextService(t)
      <4>1. ASSUME NEW b \in {1, 2}, CrcFeed(t, b) \/ CrcRead(t, b) PROVE at'[t] \notin BootPlaces
        BY <1>t, <4>1 DEF TypeOK, CrcFeed, CrcRead, ReadAt
      <4>2. CASE CrcTick(t) \/ Arrive(t) \/ CrcCheck(t) \/ CrcTake(t) \/ CrcTimeout(t) \/ CrcVerdict(t)
        BY <1>t, <4>2 DEF TypeOK, CrcTick, Arrive, CrcCheck, CrcTake, CrcTimeout, CrcVerdict, Take, Block
      <4>3. CASE Start(t)
        BY <1>t, <2>3, <4>3 DEF TypeOK, Start
      <4>4. CASE LogTake(t) \/ LogBuffer(t) \/ LogTransmit(t) \/ LogTransmitted(t) \/ Printf(t) \/ PrintBuffer(t)
        BY <1>t, <2>3, <4>4 DEF TypeOK, LogTake, LogBuffer, LogTransmit, LogTransmitted, Printf, PrintBuffer,
           Take, Block
      <4> QED BY <1>2, <3>3, <4>1, <4>2, <4>3, <4>4 DEF Step, MatchStep, LogStep
    <3> QED BY <3>1, <3>2, <3>3
  <2>7. \A u \in Task \ {Boot} : at'[u] \notin BootPlaces
    BY <1>t, <1>2, <2>6, OthersStay DEF BootFirst
  <2> QED BY <2>1, <2>3, <2>4, <2>5, <2>7 DEF BootFirst, HaltsAtBootOnly
<1>3. CASE UNCHANGED vars
  BY <1>t, <1>3 DEF BootFirst, HaltsAtBootOnly, vars
<1> QED BY <1>1, <1>2, <1>3 DEF Next

-----------------------------------------------------------------------------
\* Mutual exclusion: a task has a mutex exactly where the code between acquire and release is.

\* The services begin outside both mutexes.
LEMMA EntryOutside ==
  ASSUME NEW js \in Lines, js # << >>
  PROVE  Entry[Head(js)] \in {"crc_check", "log_take", "print", "next"}
<1>1. Head(js) \in Service
  BY LinesBegun
<1> QED BY <1>1 DEF Entry, Service

\* A step that takes or gives no mutex does not enter or leave the code behind one.
LEMMA StaysInside ==
  ASSUME IInv, NEW t \in Task, Step(t) \/ CrcTick(t) \/ Arrive(t),
         ~CrcTake(t), ~LogTake(t), ~CrcGive(t), ~LogGive(t)
  PROVE  /\ UNCHANGED holder
         /\ at'[t] \in CrcPlaces <=> at[t] \in CrcPlaces
         /\ at'[t] \in LogPlaces <=> at[t] \in LogPlaces
<1>t. TypeOK
  BY DEF IInv
<1> USE DEF Goto, At, CrcPlaces, LogPlaces
<1>1. CASE InitLwip(t) \/ Init_CRC(t) \/ Init_Log_Mtx(t) \/ Start(t) \/ CrcTick(t) \/ Arrive(t)
  BY <1>t, <1>1 DEF TypeOK, InitLwip, Init_CRC, Init_Log_Mtx, Create, Start, CrcTick, Arrive, WaitsFor
<1>2. CASE NextService(t)
  <2>1. CASE todo[t] = << >>
    BY <1>t, <1>2, <2>1 DEF TypeOK, NextService
  <2>2. CASE todo[t] # << >>
    BY <1>t, <1>2, <2>2, EntryOutside DEF TypeOK, NextService, IInv, BareInv
  <2> QED BY <2>1, <2>2
<1>3. ASSUME NEW b \in {1, 2}, CrcFeed(t, b) \/ CrcRead(t, b)
      PROVE  /\ UNCHANGED holder
             /\ at'[t] \in CrcPlaces /\ at[t] \in CrcPlaces
             /\ at'[t] \notin LogPlaces /\ at[t] \notin LogPlaces
  BY <1>t, <1>3 DEF TypeOK, CrcFeed, CrcRead, FeedAt, ReadAt
<1>4. CASE CrcCheck(t) \/ CrcTimeout(t) \/ CrcVerdict(t)
  BY <1>t, <1>4 DEF TypeOK, CrcCheck, CrcTimeout, CrcVerdict
<1>5. CASE LogBuffer(t) \/ LogTransmit(t) \/ LogTransmitted(t) \/ Printf(t) \/ PrintBuffer(t)
  BY <1>t, <1>5 DEF TypeOK, LogBuffer, LogTransmit, LogTransmitted, Printf, PrintBuffer
<1> QED BY <1>1, <1>2, <1>3, <1>4, <1>5 DEF Step, MatchStep, LogStep

\* Every step preserves that the holder of a mutex is inside the code that it guards.
LEMMA HolderStep == IInv /\ [Next]_vars => HolderInside'
<1> SUFFICES ASSUME IInv, [Next]_vars PROVE HolderInside'
  OBVIOUS
<1>t. TypeOK /\ HolderInside /\ NoTask \notin Task
  BY TaskFacts DEF IInv
<1>1. ASSUME NEW t \in Task, Step(t) \/ CrcTick(t) \/ Arrive(t) PROVE HolderInside'
  <2>1. \A u \in Task \ {t} : /\ at'[u] \in CrcPlaces <=> at[u] \in CrcPlaces
                              /\ at'[u] \in LogPlaces <=> at[u] \in LogPlaces
    BY <1>t, <1>1, OthersStay DEF CrcPlaces, LogPlaces
  <2>2. CASE CrcTake(t)
    BY <1>t, <2>1, <2>2 DEF TypeOK, HolderInside, CrcTake, At, Goto, Take, Block, CrcPlaces, LogPlaces, Mutex
  <2>3. CASE LogTake(t)
    BY <1>t, <2>1, <2>3 DEF TypeOK, HolderInside, LogTake, At, Goto, Take, Block, CrcPlaces, LogPlaces, Mutex
  <2>4. CASE CrcGive(t)
    <3>1. at[t] = "crc_give" /\ ~Waits(t) /\ Give(t, "crc", "crc_verdict")
      BY <2>4 DEF CrcGive, At, Waits, WaitsFor
    <3>2. at'[t] = "crc_verdict" /\ holder' = [holder EXCEPT !["crc"] = NoTask]
      BY <1>t, <3>1, GiveMoves DEF Mutex, Places
    <3>3. holder["crc"] = t /\ at[t] \notin LogPlaces /\ at'[t] \notin CrcPlaces \cup LogPlaces
      BY <1>t, <3>1, <3>2 DEF HolderInside, CrcPlaces, LogPlaces
    <3>4. holder'["crc"] = NoTask /\ holder'["log"] = holder["log"]
      BY <1>t, <3>2 DEF TypeOK, Mutex
    <3>5. ASSUME NEW u \in Task
          PROVE  /\ at'[u] \in CrcPlaces <=> holder'["crc"] = u
                 /\ at'[u] \in LogPlaces <=> holder'["log"] = u
      <4>1. CASE u = t
        BY <1>t, <3>3, <3>4, <4>1 DEF HolderInside
      <4>2. CASE u # t
        BY <1>t, <2>1, <3>3, <3>4, <4>2 DEF HolderInside
      <4> QED BY <4>1, <4>2
    <3> QED BY <3>5 DEF HolderInside
  <2>5. CASE LogGive(t)
    <3> DEFINE a == IF t \in retrying THEN "crc_take" ELSE "next"
    <3>1. at[t] = "log_give" /\ ~Waits(t) /\ Give(t, "log", a) /\ a \in Places
      BY <2>5 DEF LogGive, At, Waits, WaitsFor, Places
    <3>2. at'[t] = a /\ holder' = [holder EXCEPT !["log"] = NoTask]
      BY <1>t, <3>1, GiveMoves DEF Mutex
    <3>3. holder["log"] = t /\ at[t] \notin CrcPlaces /\ at'[t] \notin CrcPlaces \cup LogPlaces
      BY <1>t, <3>1, <3>2 DEF HolderInside, CrcPlaces, LogPlaces
    <3>4. holder'["log"] = NoTask /\ holder'["crc"] = holder["crc"]
      BY <1>t, <3>2 DEF TypeOK, Mutex
    <3>5. ASSUME NEW u \in Task
          PROVE  /\ at'[u] \in CrcPlaces <=> holder'["crc"] = u
                 /\ at'[u] \in LogPlaces <=> holder'["log"] = u
      <4>1. CASE u = t
        BY <1>t, <3>3, <3>4, <4>1 DEF HolderInside
      <4>2. CASE u # t
        BY <1>t, <2>1, <3>3, <3>4, <4>2 DEF HolderInside
      <4> QED BY <4>1, <4>2
    <3> QED BY <3>5 DEF HolderInside
  <2>6. CASE ~CrcTake(t) /\ ~LogTake(t) /\ ~CrcGive(t) /\ ~LogGive(t)
    <3>1. /\ UNCHANGED holder
          /\ at'[t] \in CrcPlaces <=> at[t] \in CrcPlaces
          /\ at'[t] \in LogPlaces <=> at[t] \in LogPlaces
      BY <1>1, <2>6, StaysInside
    <3>2. ASSUME NEW u \in Task
          PROVE  /\ at'[u] \in CrcPlaces <=> holder'["crc"] = u
                 /\ at'[u] \in LogPlaces <=> holder'["log"] = u
      <4>1. CASE u = t
        BY <1>t, <3>1, <4>1 DEF HolderInside
      <4>2. CASE u # t
        BY <1>t, <2>1, <3>1, <4>2 DEF HolderInside
      <4> QED BY <4>1, <4>2
    <3> QED BY <3>2 DEF HolderInside
  <2> QED BY <2>2, <2>3, <2>4, <2>5, <2>6
<1>2. CASE UNCHANGED vars
  BY <1>t, <1>2 DEF HolderInside, vars
<1> QED BY <1>1, <1>2 DEF Next

\* The code between acquire and release is never entered by two tasks.
LEMMA Exclusion ==
  ASSUME HolderInside, NEW t \in Task, NEW u \in Task, t # u
  PROVE  /\ at[t] \in CrcPlaces => at[u] \notin CrcPlaces
         /\ at[t] \in LogPlaces => at[u] \notin LogPlaces
BY DEF HolderInside

-----------------------------------------------------------------------------
\* The CRC unit.

\* Every step preserves what is in the CRC unit.
LEMMA UnitStep == IInv /\ [Next]_vars => UnitInv'
<1> SUFFICES ASSUME IInv, [Next]_vars PROVE UnitInv'
  OBVIOUS
<1>t. TypeOK /\ HolderInside /\ UnitInv
  BY DEF IInv
<1>1. ASSUME NEW t \in Task, Step(t) \/ CrcTick(t) \/ Arrive(t) PROVE UnitInv'
  <2> DEFINE Fed == {"crc_feed2", "crc_read1", "crc_read2", "crc_give", "crc_verdict"}
  <2>1. \A u \in Task \ {t} : at'[u] \in Fed \/ at[u] \in Fed => at'[u] = at[u]
    BY <1>t, <1>1, OthersStay
  <2>2. CASE \E b \in {1, 2} : CrcFeed(t, b)
    <3>1. PICK b \in {1, 2} : CrcFeed(t, b)
      BY <2>2
    <3>2. at[t] = FeedAt[b] /\ at'[t] = ReadAt[b] /\ unit' = {[task |-> t, buf |-> b, part |-> "head"]}
          /\ sums' = sums
      BY <1>t, <3>1 DEF CrcFeed, At, Goto, TypeOK
    <3>3. \A u \in Task \ {t} : at[u] \notin CrcPlaces
      BY <1>t, <3>2, Exclusion DEF CrcPlaces, FeedAt
    <3> QED BY <1>t, <2>1, <3>2, <3>3 DEF UnitInv, CrcPlaces, FeedAt, ReadAt
  <2>3. CASE \E b \in {1, 2} : CrcRead(t, b)
    <3>1. PICK b \in {1, 2} : CrcRead(t, b)
      BY <2>3
    <3>2. /\ at[t] = ReadAt[b] /\ at'[t] = IF b = 1 THEN "crc_feed2" ELSE "crc_give"
          /\ unit' = unit \cup {[task |-> t, buf |-> b, part |-> "tail"]}
          /\ sums' = [sums EXCEPT ![t] = [sums[t] EXCEPT ![b] = unit']]
      BY <1>t, <3>1 DEF CrcRead, At, Goto, TypeOK
    <3>3. unit = {[task |-> t, buf |-> b, part |-> "head"]}
      BY <1>t, <3>2 DEF UnitInv, ReadAt
    <3>4. unit' = OwnBuffer(t, b)
      <4>1. OwnBuffer(t, b) = {[task |-> t, buf |-> b, part |-> "head"],
                               [task |-> t, buf |-> b, part |-> "tail"]}
        BY DEF OwnBuffer
      <4> QED BY <3>2, <3>3, <4>1
    <3>5. /\ sums'[t][b] = OwnBuffer(t, b)
          /\ \A c \in {1, 2} \ {b} : sums'[t][c] = sums[t][c]
          /\ \A u \in Task \ {t} : sums'[u] = sums[u]
      BY <1>t, <3>2, <3>4 DEF TypeOK
    <3>6. \A u \in Task \ {t} : at[u] \notin CrcPlaces
      BY <1>t, <3>2, Exclusion DEF CrcPlaces, ReadAt
    <3>7. CASE b = 1
      BY <1>t, <2>1, <3>2, <3>5, <3>6, <3>7 DEF UnitInv, CrcPlaces, ReadAt
    <3>8. CASE b = 2
      BY <1>t, <2>1, <3>2, <3>5, <3>6, <3>8 DEF UnitInv, CrcPlaces, ReadAt
    <3> QED BY <3>7, <3>8
  <2>4. CASE CrcGive(t)
    <3>1. at[t] = "crc_give" /\ ~Waits(t) /\ Give(t, "crc", "crc_verdict") /\ UNCHANGED crcUnit
      BY <2>4 DEF CrcGive, At, Waits, WaitsFor
    <3>2. at'[t] = "crc_verdict"
      BY <1>t, <3>1, GiveMoves DEF Mutex, Places
    <3> QED BY <1>t, <2>1, <3>1, <3>2 DEF UnitInv
  <2>5. CASE CrcVerdict(t)
    BY <1>t, <2>1, <2>5 DEF TypeOK, UnitInv, CrcVerdict, At, Goto
  <2>6. CASE CrcTake(t)
    BY <1>t, <2>1, <2>6 DEF TypeOK, UnitInv, CrcTake, Take, Block, At, Goto
  <2>7. CASE LogGive(t)
    <3> DEFINE a == IF t \in retrying THEN "crc_take" ELSE "next"
    <3>1. at[t] = "log_give" /\ ~Waits(t) /\ Give(t, "log", a) /\ a \in Places /\ UNCHANGED crcUnit
      BY <2>7 DEF LogGive, At, Waits, WaitsFor, Places
    <3>2. at'[t] = a
      BY <1>t, <3>1, GiveMoves DEF Mutex
    <3> QED BY <1>t, <2>1, <3>1, <3>2 DEF UnitInv
  <2>8. CASE NextService(t)
    <3>1. at'[t] \in {"idle", "crc_check", "log_take", "print", "next"}
      <4>1. CASE todo[t] = << >>
        BY <1>t, <2>8, <4>1 DEF TypeOK, NextService, Goto
      <4>2. CASE todo[t] # << >>
        BY <1>t, <2>8, <4>2, EntryOutside DEF TypeOK, NextService, Goto, IInv, BareInv
      <4> QED BY <4>1, <4>2
    <3> QED BY <1>t, <2>1, <2>8, <3>1 DEF UnitInv, NextService
  <2>9. CASE CrcTick(t) \/ Arrive(t) \/ InitLwip(t) \/ Init_CRC(t) \/ Init_Log_Mtx(t) \/ Start(t)
             \/ CrcCheck(t) \/ CrcTimeout(t)
    BY <1>t, <2>1, <2>9 DEF TypeOK, UnitInv, CrcTick, Arrive, InitLwip, Init_CRC, Init_Log_Mtx, Create, Start,
       CrcCheck, CrcTimeout, At, Goto
  <2>10. CASE LogTake(t) \/ LogBuffer(t) \/ LogTransmit(t) \/ LogTransmitted(t) \/ Printf(t) \/ PrintBuffer(t)
    BY <1>t, <2>1, <2>10 DEF TypeOK, UnitInv, LogTake, LogBuffer, LogTransmit, LogTransmitted, Printf, PrintBuffer,
       Take, Block, At, Goto
  <2> QED BY <1>1, <2>2, <2>3, <2>4, <2>5, <2>6, <2>7, <2>8, <2>9, <2>10 DEF Step, MatchStep, LogStep
<1>2. CASE UNCHANGED vars
  BY <1>t, <1>2 DEF UnitInv, vars
<1> QED BY <1>1, <1>2 DEF Next

-----------------------------------------------------------------------------
\* The log.

\* Where the task of a step comes from and goes to, as far as the log is concerned.
LEMMA SenderStep == IInv /\ [Next]_vars => SenderInv'
<1> SUFFICES ASSUME IInv, [Next]_vars PROVE SenderInv'
  OBVIOUS
<1>t. TypeOK /\ HolderInside /\ SenderInv /\ NoTask \notin Task
  BY TaskFacts DEF IInv
<1>1. ASSUME NEW t \in Task, Step(t) \/ CrcTick(t) \/ Arrive(t) PROVE SenderInv'
  <2>1. \A u \in Task \ {t} : at[u] = "log_sending" => at'[u] = "log_sending"
    BY <1>t, <1>1, OthersStay
  <2>2. CASE LogTransmit(t)
    <3>1. at[t] \in {"log_print", "log_malloc"}
      BY <2>2 DEF LogTransmit, At
    <3>2. \A u \in Task : at[u] # "log_sending"
      BY <1>t, <3>1, Exclusion DEF LogPlaces
    <3>3. sender \notin Task
      BY <1>t, <3>2 DEF SenderInv
    <3>4. sender = NoTask
      BY <1>t, <3>3 DEF TypeOK
    <3> QED BY <1>t, <2>2, <3>4 DEF TypeOK, SenderInv, LogTransmit, Goto
  <2>3. CASE LogTransmitted(t)
    BY <1>t, <2>3 DEF TypeOK, SenderInv, LogTransmitted
  <2>4. CASE ~LogTransmit(t) /\ ~LogTransmitted(t)
    <3>1. UNCHANGED <<sender, lost>>
      BY <1>1, <2>4 DEF Step, InitLwip, Init_CRC, Init_Log_Mtx, Create, Start, NextService, MatchStep, LogStep,
         CrcCheck, CrcTake, CrcTimeout, CrcFeed, CrcRead, CrcGive, CrcVerdict, LogTake, LogBuffer,
         LogGive, Printf, PrintBuffer, CrcTick, Arrive
    <3>2. at[t] # "log_sending"
      BY <1>1, <2>4 DEF Step, InitLwip, Init_CRC, Init_Log_Mtx, Start, NextService, MatchStep, LogStep,
         CrcCheck, CrcTake, CrcTimeout, CrcFeed, CrcRead, CrcGive, CrcVerdict, LogTake, LogBuffer,
         LogGive, Printf, PrintBuffer, CrcTick, Arrive, At, WaitsFor, FeedAt, ReadAt
    <3> QED BY <1>t, <2>1, <3>1, <3>2 DEF SenderInv
  <2> QED BY <2>2, <2>3, <2>4
<1>2. CASE UNCHANGED vars
  BY <1>t, <1>2 DEF SenderInv, vars
<1> QED BY <1>1, <1>2 DEF Next

\* Every step preserves where the bare printf of the I2C test can be.
LEMMA BareStep == IInv /\ [Next]_vars => BareInv'
<1> SUFFICES ASSUME IInv, [Next]_vars PROVE BareInv'
  OBVIOUS
<1>t. TypeOK /\ BareInv
  BY DEF IInv
<1>1. ASSUME NEW t \in Task, Step(t) \/ CrcTick(t) \/ Arrive(t) PROVE BareInv'
  <2> DEFINE Good(u) ==
        /\ todo'[u] \in Lines
        /\ at'[u] \in {"print", "print_malloc"} => todo'[u] = <<"log">>
        /\ u \in bare' => \/ at'[u] \in {"print_malloc", "next"} /\ todo'[u] = <<"log">>
                          \/ at'[u] \in {"log_take", "log_wait", "log_print", "log_malloc"}
  <2>1. ASSUME NEW u \in Task \ {t} PROVE Good(u)
    <3>1. todo'[u] = todo[u]
      BY <1>t, <1>1 DEF TypeOK, Step, InitLwip, Init_CRC, Init_Log_Mtx, Create, Start, NextService, MatchStep, LogStep,
         CrcCheck, CrcTake, CrcTimeout, CrcFeed, CrcRead, CrcGive, CrcVerdict, LogTake, LogBuffer,
         LogTransmit, LogTransmitted, LogGive, Printf, PrintBuffer, CrcTick, Arrive
    <3>2. u \in bare' <=> u \in bare
      BY <1>1 DEF Step, InitLwip, Init_CRC, Init_Log_Mtx, Create, Start, NextService, MatchStep, LogStep,
         CrcCheck, CrcTake, CrcTimeout, CrcFeed, CrcRead, CrcGive, CrcVerdict, LogTake, LogBuffer,
         LogTransmit, LogTransmitted, LogGive, Printf, PrintBuffer, CrcTick, Arrive
    <3>3. at'[u] = at[u] \/ (at[u] = "crc_wait" /\ at'[u] = "crc_take")
             \/ (at[u] = "log_wait" /\ at'[u] = "log_take")
      BY <1>t, <1>1, OthersStay
    <3> QED BY <1>t, <3>1, <3>2, <3>3 DEF BareInv
  <2>2. Good(t)
    <3>1. CASE InitLwip(t) \/ Init_CRC(t) \/ Init_Log_Mtx(t)
      BY <1>t, <3>1 DEF TypeOK, BareInv, InitLwip, Init_CRC, Init_Log_Mtx, Create, At, Goto
    <3>2. CASE Start(t)
      <4>1. << >> \in Lines /\ <<"log">> \in Lines
        BY Zenon DEF Lines
      <4>2. todo' = todo \/ \E js \in {<< >>, <<"log">>} : todo' = [todo EXCEPT ![t] = js]
        BY <3>2, Zenon DEF Start
      <4>3. todo'[t] \in Lines
        BY <1>t, <4>1, <4>2 DEF TypeOK, BareInv
      <4>4. at[t] = "start" /\ bare' = bare /\ at'[t] \in {"start", "next"}
        BY <1>t, <3>2 DEF Start, At, Goto, TypeOK
      <4> QED BY <1>t, <4>3, <4>4 DEF BareInv
    <3>3. CASE NextService(t)
      <4>1. CASE todo[t] = << >>
        <5>1. todo[t] # <<"log">>
          BY <4>1
        <5> QED BY <1>t, <3>3, <4>1, <5>1 DEF TypeOK, BareInv, NextService, At, Goto
      <4>2. CASE todo[t] # << >>
        <5>1. /\ todo'[t] = Tail(todo[t]) /\ at'[t] = Entry[Head(todo[t])]
              /\ at[t] = "next" /\ bare' = bare
          BY <1>t, <3>3, <4>2 DEF TypeOK, NextService, At, Goto
        <5>2. /\ Tail(todo[t]) \in Lines /\ Head(todo[t]) \in Service
              /\ Head(todo[t]) = "print" => Tail(todo[t]) = <<"log">>
              /\ todo[t] = <<"log">> => Head(todo[t]) = "log"
          BY <1>t, <4>2, LinesBegun DEF BareInv
        <5>3. /\ at'[t] \in {"print", "print_malloc"} => Head(todo[t]) = "print"
              /\ Head(todo[t]) = "log" => at'[t] = "log_take"
          BY <5>1, <5>2 DEF Entry, Service
        <5>4. t \in bare => todo[t] = <<"log">>
          BY <1>t, <5>1 DEF BareInv
        <5> QED BY <5>1, <5>2, <5>3, <5>4
      <4> QED BY <4>1, <4>2
    <3>4. CASE Arrive(t)
      <4>1. t # Boot
        BY <3>4 DEF IInv, BootFirst, BootPlaces, Arrive
      <4>2. todo'[t] \in Lines
        BY <1>t, <3>4, <4>1, Jobs DEF TypeOK, Arrive
      <4>3. at'[t] = "next" /\ bare' = bare /\ t \notin bare
        BY <1>t, <3>4 DEF TypeOK, BareInv, Arrive, Goto
      <4> QED BY <4>2, <4>3
    <3>5. CASE CrcGive(t)
      <4>1. at[t] = "crc_give" /\ ~Waits(t) /\ Give(t, "crc", "crc_verdict")
        BY <3>5 DEF CrcGive, At, Waits, WaitsFor
      <4>2. at'[t] = "crc_verdict"
        BY <1>t, <4>1, GiveMoves DEF Mutex, Places
      <4> QED BY <1>t, <3>5, <4>1, <4>2 DEF BareInv, CrcGive
    <3>6. CASE LogGive(t)
      <4> DEFINE a == IF t \in retrying THEN "crc_take" ELSE "next"
      <4>1. at[t] = "log_give" /\ ~Waits(t) /\ Give(t, "log", a) /\ a \in Places
        BY <3>6 DEF LogGive, At, Waits, WaitsFor, Places
      <4>2. at'[t] = a
        BY <1>t, <4>1, GiveMoves DEF Mutex
      <4> QED BY <1>t, <3>6, <4>1, <4>2 DEF BareInv, LogGive
    <3>7. CASE CrcTick(t) \/ CrcCheck(t) \/ CrcTake(t) \/ CrcTimeout(t) \/ CrcVerdict(t)
      BY <1>t, <3>7 DEF TypeOK, BareInv, CrcTick, CrcCheck, CrcTake, CrcTimeout, CrcVerdict, Take, Block,
         WaitsFor, At, Goto
    <3>8. ASSUME NEW b \in {1, 2}, CrcFeed(t, b) \/ CrcRead(t, b) PROVE Good(t)
      <4>1. at[t] \in CrcPlaces /\ at'[t] \in CrcPlaces /\ todo' = todo /\ bare' = bare
        BY <1>t, <3>8 DEF TypeOK, CrcFeed, CrcRead, At, Goto, FeedAt, ReadAt, CrcPlaces
      <4> QED BY <1>t, <4>1 DEF BareInv, CrcPlaces
    <3>9. CASE LogTake(t) \/ LogBuffer(t) \/ LogTransmit(t) \/ LogTransmitted(t) \/ Printf(t) \/ PrintBuffer(t)
      BY <1>t, <3>9 DEF TypeOK, BareInv, LogTake, LogBuffer, LogTransmit, LogTransmitted, Printf, PrintBuffer,
         Take, Block, At, Goto
    <3> QED BY <1>1, <3>1, <3>2, <3>3, <3>4, <3>5, <3>6, <3>7, <3>8, <3>9 DEF Step, MatchStep, LogStep
  <2>3. \A u \in Task : Good(u)
    BY <2>1, <2>2
  <2> QED BY <2>3 DEF BareInv, Lines
<1>2. CASE UNCHANGED vars
  BY <1>t, <1>2 DEF BareInv, vars, Lines
<1> QED BY <1>1, <1>2 DEF Next

\* Every step preserves that only the I2C test prints without safe_printf.
LEMMA PrintStep == IInv /\ [Next]_vars => PrintInv'
<1> SUFFICES ASSUME IInv, [Next]_vars PROVE PrintInv'
  OBVIOUS
<1>t. TypeOK /\ BareInv /\ PrintInv
  BY DEF IInv
<1>1. ASSUME NEW t \in Task, Step(t) \/ CrcTick(t) \/ Arrive(t) PROVE PrintInv'
  <2> DEFINE Own(u) == /\ todo'[u] = PrintLine => u = "i2c"
                       /\ at'[u] \in {"print", "print_malloc"} => u = "i2c"
  <2>1. ASSUME NEW u \in Task \ {t} PROVE Own(u)
    <3>1. todo'[u] = todo[u]
      BY <1>t, <1>1 DEF TypeOK, Step, InitLwip, Init_CRC, Init_Log_Mtx, Create, Start, NextService, MatchStep, LogStep,
         CrcCheck, CrcTake, CrcTimeout, CrcFeed, CrcRead, CrcGive, CrcVerdict, LogTake, LogBuffer,
         LogTransmit, LogTransmitted, LogGive, Printf, PrintBuffer, CrcTick, Arrive
    <3>2. at'[u] \in {"print", "print_malloc"} => at'[u] = at[u]
      BY <1>t, <1>1, OthersStay
    <3> QED BY <1>t, <3>1, <3>2 DEF PrintInv
  <2>2. Own(t)
    <3>1. CASE Start(t)
      <4>1. << >> # PrintLine /\ <<"log">> # PrintLine
        BY SMT DEF PrintLine
      <4>2. todo' = todo \/ \E js \in {<< >>, <<"log">>} : todo' = [todo EXCEPT ![t] = js]
        BY <3>1, Zenon DEF Start
      <4>3. todo'[t] = PrintLine => t = "i2c"
        BY <1>t, <4>1, <4>2 DEF TypeOK, PrintInv
      <4>4. at'[t] \in {"start", "next"}
        BY <1>t, <3>1 DEF Start, At, Goto, TypeOK
      <4> QED BY <4>3, <4>4
    <3>2. CASE NextService(t)
      <4>1. CASE todo[t] = << >>
        BY <1>t, <3>2, <4>1 DEF TypeOK, PrintInv, NextService, At, Goto
      <4>2. CASE todo[t] # << >>
        <5>1. todo'[t] = Tail(todo[t]) /\ at'[t] = Entry[Head(todo[t])]
          BY <1>t, <3>2, <4>2 DEF TypeOK, NextService, At, Goto
        <5>2. /\ Head(todo[t]) \in Service /\ Tail(todo[t]) # PrintLine
              /\ Head(todo[t]) = "print" => todo[t] = PrintLine
          BY <1>t, <4>2, LinesBegun DEF BareInv
        <5>3. at'[t] \in {"print", "print_malloc"} => Head(todo[t]) = "print"
          BY <5>1, <5>2 DEF Entry, Service
        <5> QED BY <1>t, <5>1, <5>2, <5>3 DEF PrintInv
      <4> QED BY <4>1, <4>2
    <3>3. CASE Arrive(t)
      <4>1. t # Boot
        BY <3>3 DEF IInv, BootFirst, BootPlaces, Arrive
      <4>2. PICK js \in Job[t] : todo' = [todo EXCEPT ![t] = js]
        BY <3>3 DEF Arrive
      <4>3. js = PrintLine => t = "i2c"
        BY <4>1, Jobs
      <4>4. at'[t] = "next"
        BY <1>t, <3>3 DEF TypeOK, Arrive, Goto
      <4> QED BY <1>t, <4>2, <4>3, <4>4 DEF TypeOK
    <3>4. CASE CrcGive(t) \/ LogGive(t)
      <4>1. ~Waits(t) /\ todo' = todo
        BY <3>4 DEF CrcGive, LogGive, At, Waits, WaitsFor
      <4>2. at'[t] \in {"crc_verdict", "crc_take", "next"}
        <5>1. CASE CrcGive(t)
          BY <1>t, <4>1, <5>1, GiveMoves DEF CrcGive, Mutex, Places
        <5>2. CASE LogGive(t)
          BY <1>t, <4>1, <5>2, GiveMoves DEF LogGive, Mutex, Places
        <5> QED BY <3>4, <5>1, <5>2
      <4> QED BY <1>t, <4>1, <4>2 DEF PrintInv
    <3>5. CASE ~Start(t) /\ ~NextService(t) /\ ~Arrive(t) /\ ~CrcGive(t) /\ ~LogGive(t)
      <4>1. todo' = todo
        BY <1>1, <3>5 DEF Step, InitLwip, Init_CRC, Init_Log_Mtx, Create, MatchStep, LogStep,
           CrcCheck, CrcTake, CrcTimeout, CrcFeed, CrcRead, CrcVerdict, LogTake, LogBuffer,
           LogTransmit, LogTransmitted, Printf, PrintBuffer, CrcTick
      <4>2. at'[t] \in {"print", "print_malloc"} => at[t] \in {"print", "print_malloc"}
        BY <1>t, <1>1, <3>5 DEF TypeOK, Step, InitLwip, Init_CRC, Init_Log_Mtx, Create, MatchStep, LogStep,
           CrcCheck, CrcTake, CrcTimeout, CrcFeed, CrcRead, CrcVerdict, LogTake, LogBuffer,
           LogTransmit, LogTransmitted, Printf, PrintBuffer, CrcTick, Take, Block, At, Goto, ReadAt, WaitsFor
      <4> QED BY <1>t, <4>1, <4>2 DEF PrintInv
    <3> QED BY <3>1, <3>2, <3>3, <3>4, <3>5
  <2>3. \A u \in Task : Own(u)
    BY <2>1, <2>2
  <2> QED BY <2>3 DEF PrintInv
<1>2. CASE UNCHANGED vars
  BY <1>t, <1>2 DEF PrintInv, vars
<1> QED BY <1>1, <1>2 DEF Next

-----------------------------------------------------------------------------
\* The waiters of a mutex.

TakeAt(m) == IF m = "crc" THEN "crc_take" ELSE "log_take"
WaitAt(m) == IF m = "crc" THEN "crc_wait" ELSE "log_wait"

\* Among waiting tasks there is one of the highest priority.
LEMMA MostUrgent ==
  ASSUME NEW S \in SUBSET Task, S # {}
  PROVE  \E w \in S : \A v \in S : Priority[v] <= Priority[w]
<1>1. \A t \in Task : Priority[t] \in {24, 32, 34, 35}
  <2>1. \A t \in Names : Priority[t] \in {24, 32, 34, 35}
    BY DEF Priority, Names
  <2> QED BY <2>1, TaskAssumption
<1>2. CASE \E w \in S : Priority[w] = 35
  BY <1>1, <1>2
<1>3. CASE (\E w \in S : Priority[w] = 34) /\ \A w \in S : Priority[w] # 35
  BY <1>1, <1>3
<1>4. CASE (\E w \in S : Priority[w] = 32) /\ \A w \in S : Priority[w] \notin {34, 35}
  BY <1>1, <1>4
<1>5. CASE \A w \in S : Priority[w] \notin {32, 34, 35}
  BY <1>1, <1>5
<1> QED BY <1>2, <1>3, <1>4, <1>5

\* A release for which somebody waits wakes a task that is as urgent as any of them.
LEMMA GiveWakes ==
  ASSUME TypeOK, NEW t \in Task, NEW m \in Mutex, NEW a \in Places, Give(t, m, a),
         NEW w \in Task, WaitsFor(w, m)
  PROVE  \E v \in Task : at'[v] = TakeAt(m) /\ Priority[v] >= Priority[w]
<1>1. FirstWaiters(m) # {}
  <2> DEFINE S == {v \in Task : WaitsFor(v, m)}
  <2>1. PICK v \in S : \A u \in S : Priority[u] <= Priority[v]
    BY MostUrgent
  <2> QED BY <2>1 DEF FirstWaiters
<1>2. PICK v \in FirstWaiters(m) : at' = [at EXCEPT ![t] = a, ![v] = TakeAt(m)]
  BY <1>1 DEF Give, TakeAt
<1>3. v \in Task /\ Priority[w] <= Priority[v]
  BY DEF FirstWaiters
<1>4. Priority[v] >= Priority[w]
  BY <1>3, TaskFacts
<1> QED BY <1>2, <1>3, <1>4 DEF TypeOK

\* Every step preserves that a waiting task is served.
LEMMA WaiterStep == IInv /\ [Next]_vars => WaiterServed'
<1> SUFFICES ASSUME IInv, [Next]_vars PROVE WaiterServed'
  OBVIOUS
<1>t. TypeOK /\ HolderInside /\ WaiterServed /\ NoTask \notin Task
  BY TaskFacts DEF IInv
<1>1. ASSUME NEW t \in Task, Step(t) \/ CrcTick(t) \/ Arrive(t),
             NEW w \in Task, NEW m \in Mutex, at'[w] = WaitAt(m), holder'[m] = NoTask
      PROVE  \E v \in Task : at'[v] = TakeAt(m) /\ Priority[v] >= Priority[w]
  <2>1. CASE CrcGive(t)
    <3>1. ~Waits(t) /\ Give(t, "crc", "crc_verdict") /\ "crc" \in Mutex /\ "crc_verdict" \in Places
      BY <2>1 DEF CrcGive, At, Waits, WaitsFor, Mutex, Places
    <3>2. at'[t] = "crc_verdict" /\ holder' = [holder EXCEPT !["crc"] = NoTask]
      BY <1>t, <3>1, GiveMoves
    <3>3. at[w] = WaitAt(m) /\ w # t
      BY <1>t, <1>1, <3>2, OthersStay DEF WaitAt
    <3>4. CASE m = "crc"
      BY <1>t, <3>1, <3>3, <3>4, GiveWakes DEF WaitsFor, WaitAt
    <3>5. CASE m = "log"
      <4>1. holder[m] = NoTask
        BY <1>t, <1>1, <3>2, <3>5 DEF TypeOK, Mutex
      <4>2. PICK v \in Task : at[v] = TakeAt(m) /\ Priority[v] >= Priority[w]
        BY <1>t, <3>3, <4>1 DEF WaiterServed, WaitsFor, WaitAt, TakeAt
      <4>3. at'[v] = at[v]
        BY <1>t, <1>1, <2>1, <3>5, <4>2, OthersStay DEF TakeAt, CrcGive, At
      <4> QED BY <4>2, <4>3
    <3> QED BY <3>4, <3>5 DEF Mutex
  <2>2. CASE LogGive(t)
    <3> DEFINE a == IF t \in retrying THEN "crc_take" ELSE "next"
    <3>1. ~Waits(t) /\ Give(t, "log", a) /\ "log" \in Mutex /\ a \in Places
      BY <2>2 DEF LogGive, At, Waits, WaitsFor, Mutex, Places
    <3>2. at'[t] = a /\ holder' = [holder EXCEPT !["log"] = NoTask]
      BY <1>t, <3>1, GiveMoves
    <3>3. at[w] = WaitAt(m) /\ w # t
      BY <1>t, <1>1, <3>2, OthersStay DEF WaitAt
    <3>4. CASE m = "log"
      BY <1>t, <3>1, <3>3, <3>4, GiveWakes DEF WaitsFor, WaitAt
    <3>5. CASE m = "crc"
      <4>1. holder[m] = NoTask
        BY <1>t, <1>1, <3>2, <3>5 DEF TypeOK, Mutex
      <4>2. PICK v \in Task : at[v] = TakeAt(m) /\ Priority[v] >= Priority[w]
        BY <1>t, <3>3, <3>5, <4>1 DEF WaiterServed, WaitsFor, WaitAt, TakeAt
      <4>3. at'[v] = at[v]
        BY <1>t, <1>1, <2>2, <3>5, <4>2, OthersStay DEF TakeAt, LogGive, At
      <4> QED BY <4>2, <4>3
    <3> QED BY <3>4, <3>5 DEF Mutex
  <2>3. CASE ~CrcGive(t) /\ ~LogGive(t)
    <3>1. \A u \in Task \ {t} : at'[u] = at[u]
      BY <1>t, <1>1, <2>3, OthersStay
    <3>2. holder[m] = NoTask
      <4>1. holder' = holder \/ \E n \in Mutex : holder' = [holder EXCEPT ![n] = t]
        BY <1>1, <2>3 DEF Step, InitLwip, Init_CRC, Init_Log_Mtx, Create, Start, NextService, MatchStep, LogStep,
           CrcCheck, CrcTake, CrcTimeout, CrcFeed, CrcRead, CrcVerdict, LogTake, LogBuffer,
           LogTransmit, LogTransmitted, Printf, PrintBuffer, CrcTick, Arrive, Take, Block, Mutex
      <4> QED BY <1>t, <1>1, <4>1 DEF TypeOK
    <3>3. at[w] = WaitAt(m)
      <4>1. CASE w # t
        BY <1>1, <3>1, <4>1
      <4>2. CASE w = t
        <5>1. CASE CrcTake(t)
          BY <1>t, <1>1, <3>2, <4>2, <5>1 DEF TypeOK, CrcTake, At, Goto, Take, Block, WaitAt, Mutex
        <5>2. CASE LogTake(t)
          BY <1>t, <1>1, <3>2, <4>2, <5>2 DEF TypeOK, LogTake, At, Goto, Take, Block, WaitAt, Mutex
        <5>3. CASE InitLwip(t) \/ Init_CRC(t) \/ Init_Log_Mtx(t) \/ Start(t) \/ CrcTick(t) \/ Arrive(t)
                   \/ CrcCheck(t) \/ CrcTimeout(t) \/ CrcVerdict(t)
          BY <1>t, <1>1, <4>2, <5>3 DEF TypeOK, InitLwip, Init_CRC, Init_Log_Mtx, Create, Start, CrcTick, Arrive,
             CrcCheck, CrcTimeout, CrcVerdict, At, Goto, WaitAt
        <5>4. CASE NextService(t)
          <6>1. at'[t] \in {"idle", "crc_check", "log_take", "print", "next"}
            BY <1>t, <5>4, EntryOutside DEF TypeOK, NextService, At, Goto, IInv, BareInv
          <6> QED BY <1>1, <4>2, <6>1 DEF WaitAt
        <5>5. ASSUME NEW b \in {1, 2}, CrcFeed(t, b) \/ CrcRead(t, b) PROVE FALSE
          BY <1>t, <1>1, <4>2, <5>5 DEF TypeOK, CrcFeed, CrcRead, At, Goto, ReadAt, WaitAt
        <5>6. CASE LogBuffer(t) \/ LogTransmit(t) \/ LogTransmitted(t) \/ Printf(t) \/ PrintBuffer(t)
          BY <1>t, <1>1, <4>2, <5>6 DEF TypeOK, LogBuffer, LogTransmit, LogTransmitted, Printf, PrintBuffer,
             At, Goto, WaitAt
        <5> QED BY <1>1, <2>3, <5>1, <5>2, <5>3, <5>4, <5>5, <5>6 DEF Step, MatchStep, LogStep
      <4> QED BY <4>1, <4>2
    <3>4. PICK v \in Task : at[v] = TakeAt(m) /\ Priority[v] >= Priority[w]
      BY <1>t, <3>2, <3>3 DEF WaiterServed, WaitsFor, WaitAt, TakeAt
    <3>5. CASE v # t
      BY <3>1, <3>4, <3>5
    <3>6. CASE v = t
      <4>1. CASE at'[t] = at[t]
        BY <3>4, <3>6, <4>1
      <4>2. CASE at'[t] # at[t]
        <5>1. CASE CrcTake(t)
          BY <1>t, <1>1, <3>2, <3>4, <3>6, <5>1 DEF TypeOK, CrcTake, At, Goto, Take, Block, TakeAt, Mutex
        <5>2. CASE CrcTimeout(t)
          BY <3>2, <3>4, <3>6, <5>2 DEF CrcTimeout, At, TakeAt, Mutex
        <5>3. CASE LogTake(t)
          BY <1>t, <1>1, <3>2, <3>4, <3>6, <4>2, <5>3 DEF TypeOK, LogTake, At, Goto, Take, Block, TakeAt, Mutex
        <5>4. CASE ~CrcTake(t) /\ ~CrcTimeout(t) /\ ~LogTake(t)
          <6>1. at[t] \notin {"crc_take", "log_take"}
            BY <1>1, <2>3, <5>4 DEF Step, InitLwip, Init_CRC, Init_Log_Mtx, Start, NextService, MatchStep, LogStep,
               CrcCheck, CrcFeed, CrcRead, CrcVerdict, LogBuffer, LogTransmit, LogTransmitted,
               Printf, PrintBuffer, CrcTick, Arrive, At, WaitsFor, FeedAt, ReadAt
          <6> QED BY <3>4, <3>6, <6>1 DEF TakeAt
        <5> QED BY <5>1, <5>2, <5>3, <5>4
      <4> QED BY <4>1, <4>2
    <3> QED BY <3>5, <3>6
  <2> QED BY <2>1, <2>2, <2>3
<1>2. ASSUME NEW t \in Task, Step(t) \/ CrcTick(t) \/ Arrive(t) PROVE WaiterServed'
  BY <1>1, <1>2 DEF WaiterServed, WaitsFor, WaitAt, TakeAt
<1>3. CASE UNCHANGED vars
  BY <1>t, <1>3 DEF WaiterServed, WaitsFor, vars
<1> QED BY <1>2, <1>3 DEF Next

-----------------------------------------------------------------------------
\* The theorems.

\* The invariant holds initially.
LEMMA InitInv == Init => IInv
<1> SUFFICES ASSUME Init PROVE IInv
  OBVIOUS
<1>1. << >> \in Lines /\ << >> \in Seq(Service)
  BY LinesTyped, Zenon DEF Lines
<1>2. TypeOK
  <2>1. /\ exists \in [Mutex -> BOOLEAN] /\ holder \in [Mutex -> Task \cup {NoTask}]
        /\ unit \in SUBSET Piece /\ sums \in [Task -> [{1, 2} -> SUBSET Piece]]
    BY DEF Init
  <2>2. todo \in [Task -> Seq(Service)] /\ jobs \in [Task -> 0..MaxJobs]
    BY <1>1, JobsAssumption DEF Init
  <2> QED BY <2>1, <2>2 DEF Init, TypeOK
<1>3. BootFirst
  BY TaskFacts DEF Init, BootFirst, BootPlaces
<1>4. HolderInside
  BY TaskFacts DEF Init, HolderInside, CrcPlaces, LogPlaces, Mutex
<1>5. UnitInv /\ SenderInv /\ WaiterServed /\ HaltsAtBootOnly
  BY TaskFacts DEF Init, UnitInv, SenderInv, WaiterServed, WaitsFor, HaltsAtBootOnly
<1>6. BareInv
  BY <1>1 DEF Init, BareInv
<1>7. PrintInv
  <2>1. << >> # PrintLine
    BY SMT DEF PrintLine
  <2> QED BY <2>1 DEF Init, PrintInv
<1> QED BY <1>2, <1>3, <1>4, <1>5, <1>6, <1>7 DEF IInv

\* The invariant that all others follow from.
THEOREM Invariance == Spec => []IInv
<1>1. Init => IInv
  BY InitInv
<1>2. IInv /\ [Next]_vars => IInv'
  BY TypeStep, BootStep, HolderStep, UnitStep, SenderStep, BareStep, PrintStep, WaiterStep, Zenon DEF IInv
<1> QED BY <1>1, <1>2, PTL DEF Spec

\* The variables stay in their types.
THEOREM TypeCorrect == Spec => []TypeOK
<1>1. IInv => TypeOK
  BY DEF IInv
<1> QED BY <1>1, Invariance, PTL

\* Match_CRC compares the CRCs of its caller's two buffers, whole and unmixed.
THEOREM Comparison == Spec => []ComparesOwnBuffers
<1>1. IInv => ComparesOwnBuffers
  BY DEF IInv, UnitInv, ComparesOwnBuffers
<1> QED BY <1>1, Invariance, PTL

\* No line of the log is refused, and no text stays behind in the buffer of a task.
THEOREM LogLines == Spec => []LogComplete
<1>1. IInv => LogComplete
  BY DEF IInv, SenderInv, BareInv, LogComplete
<1> QED BY <1>1, Invariance, PTL

\* Two tasks get stdout buffers from newlib's allocator at the same time only while one of them is
\* the I2C test in its bare printf; safe_printf keeps all others apart.
THEOREM Allocator == Spec => []AllocatorGuarded
<1>1. ASSUME IInv, NEW t \in Task, NEW u \in Task, t # u, Allocates(t), Allocates(u)
      PROVE  \E w \in {t, u} : w = "i2c" /\ at[w] = "print_malloc"
  <2>1. at[t] # "log_malloc" \/ at[u] # "log_malloc"
    BY <1>1, Exclusion DEF IInv, LogPlaces
  <2>2. \A w \in {t, u} : at[w] = "print_malloc" => w = "i2c"
    BY <1>1 DEF IInv, PrintInv
  <2> QED BY <1>1, <2>1, <2>2 DEF Allocates
<1>2. IInv => AllocatorGuarded
  BY <1>1 DEF AllocatorGuarded
<1> QED BY <1>2, Invariance, PTL

\* Once defaultTask is through no task halts the system by using what does not exist.
THEOREM StartUp == Spec => []HaltsAtBootOnly
<1>1. IInv => HaltsAtBootOnly
  BY DEF IInv
<1> QED BY <1>1, Invariance, PTL

\* A task does not hold one mutex while it waits for the other, so they cannot be waited for in a circle.
THEOREM Nesting == Spec => []NoNesting
<1>1. IInv => NoNesting
  BY DEF IInv, HolderInside, NoNesting, Waits, WaitsFor, Mutex, CrcPlaces, LogPlaces
<1> QED BY <1>1, Invariance, PTL

\* Nobody waits for a free mutex that no one as urgent is about to take.
THEOREM Waiters == Spec => []WaiterServed
<1>1. IInv => WaiterServed
  BY DEF IInv
<1> QED BY <1>1, Invariance, PTL

\* While w waits, whoever has the processor is as urgent as w, or has a mutex that such a task waits for.
LEMMA Urgency ==
  ASSUME IInv, NEW t \in Task, NEW w \in Task, Runs(t), Waits(w), Priority[t] < Priority[w]
  PROVE  \E m \in Mutex, v \in Task : holder[m] = t /\ WaitsFor(v, m) /\ Priority[v] >= Priority[w]
<1> DEFINE Urgent(q) == q \in Nat /\ q >= Priority[w]
<1>p. \A u \in Task : Priority[u] \in Nat
  BY TaskFacts
<1>1. PICK m \in Mutex : WaitsFor(w, m)
  BY DEF Waits
<1>2. \E u \in Task : Ready(u) /\ \E p \in Weights(u) : Urgent(p)
  <2>1. CASE holder[m] = NoTask
    <3>1. PICK v \in Task : at[v] = TakeAt(m) /\ Priority[v] >= Priority[w]
      BY <1>1, <2>1 DEF IInv, WaiterServed, TakeAt
    <3>2. Ready(v)
      BY <3>1 DEF Ready, Waits, WaitsFor, TakeAt
    <3>3. Priority[v] \in Weights(v)
      BY DEF Weights
    <3> QED BY <1>p, <3>1, <3>2, <3>3
  <2>2. CASE holder[m] # NoTask
    <3>1. holder[m] \in Task
      BY <2>2 DEF IInv, TypeOK
    <3>2. at[holder[m]] \in CrcPlaces \cup LogPlaces
      BY <3>1 DEF IInv, HolderInside, Mutex
    <3>3. Ready(holder[m])
      BY <3>2 DEF Ready, Waits, WaitsFor, CrcPlaces, LogPlaces
    <3>4. Priority[w] \in Weights(holder[m])
      BY <1>1 DEF Weights
    <3>5. Priority[w] >= Priority[w]
      BY <1>p
    <3> QED BY <1>p, <3>1, <3>3, <3>4, <3>5
  <2> QED BY <2>1, <2>2
<1>u. PICK u \in Task : Ready(u) /\ \E p \in Weights(u) : Urgent(p)
  BY <1>2
<1>3. PICK p \in Weights(u) : Urgent(p)
  BY <1>u
<1>4. ~Outranks(u, t)
  BY <1>u DEF Runs
<1>5. PICK q \in Weights(t) : ~(q < p)
  BY <1>4 DEF Outranks
<1>6. q \in Nat
  BY <1>p DEF Weights
<1>7. q >= Priority[w] /\ q # Priority[t]
  BY <1>p, <1>3, <1>5, <1>6
<1>8. PICK v \in Task : q = Priority[v] /\ \E n \in Mutex : WaitsFor(v, n) /\ holder[n] = t
  BY <1>7 DEF Weights
<1> QED BY <1>7, <1>8

\* Whoever makes a step on the processor has it.
LEMMA Actor == ASSUME IInv, Next, NEW t \in Task, Acts(t) PROVE Runs(t)
<1>1. PICK s \in Task : Step(s) \/ CrcTick(s) \/ Arrive(s)
  BY DEF Next
<1>2. s = t
  <2> SUFFICES ASSUME s # t PROVE FALSE
    OBVIOUS
  <2>1. at[t] \in {"crc_wait", "log_wait"}
    BY <1>1, OthersStay DEF Acts, IInv
  <2> QED BY <2>1 DEF Acts, Ready, Waits, WaitsFor, Mutex
<1>3. Step(t)
  BY <1>1, <1>2 DEF Acts, Ready, Waits, CrcTick, Arrive, Mutex
<1> QED
  BY <1>3 DEF Step, InitLwip, Init_CRC, Init_Log_Mtx, Start, NextService, MatchStep, LogStep, CrcCheck, CrcTake,
     CrcTimeout, CrcFeed, CrcRead, CrcGive, CrcVerdict, LogTake, LogBuffer, LogTransmit,
     LogTransmitted, LogGive, Printf, PrintBuffer, At

\* Priority inheritance works: no task of a priority in between keeps an urgent one waiting.
THEOREM Inversion == Spec => NoInversion
<1> DEFINE Fair ==
      \A t, w \in Task : (Acts(t) /\ Waits(w) /\ Priority[t] < Priority[w]) =>
        \E m \in Mutex, v \in Task : holder[m] = t /\ WaitsFor(v, m) /\ Priority[v] >= Priority[w]
<1>1. IInv /\ [Next]_vars => [Fair]_vars
  <2> SUFFICES ASSUME IInv, Next, NEW t \in Task, NEW w \in Task,
                      Acts(t), Waits(w), Priority[t] < Priority[w]
               PROVE  \E m \in Mutex, v \in Task :
                        holder[m] = t /\ WaitsFor(v, m) /\ Priority[v] >= Priority[w]
    BY Zenon
  <2>1. Runs(t)
    BY Actor
  <2> QED BY <2>1, Urgency
<1> QED BY <1>1, Invariance, PTL DEF Spec, NoInversion
=============================================================================
