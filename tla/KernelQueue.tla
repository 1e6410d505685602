-------------------------------- MODULE KernelQueue --------------------------------
(***************************************************************************)
(* A message queue of FreeRTOS 10.2.1, on which the message queues of the  *)
(* firmware and, with items of size zero, its semaphores are built.        *)
(* Interrupts are disabled only for a few instructions: a task that has to *)
(* wait suspends the scheduler and locks the queue, and interrupts that    *)
(* send meanwhile leave the waiting tasks to it.  Each critical section is *)
(* one action, and between any two of them an interrupt may come.          *)
(*                                                                         *)
(* Which waiting task is woken first (by priority, then by age) and which  *)
(* ready task runs is left open.                                           *)
(***************************************************************************)
EXTENDS Integers, Sequences, FiniteSets

CONSTANTS
  Task, Item, NoTask,
  Uses,         \* who does what with the queue, and the items that are sent
  Length,       \* uxLength
  MaxTicks,     \* bound: the longest time-out
  MaxPended     \* bound: ticks while the scheduler is suspended

ASSUME TaskAssumption == IsFiniteSet(Task) /\ NoTask \notin Task
ASSUME LengthAssumption == Length \in 1..127
ASSUME BoundAssumption == MaxTicks \in Nat /\ MaxPended \in Nat

Operation == {"send", "receive"}
ASSUME UsesAssumption == Uses \subseteq [does : [Task -> SUBSET Operation], items : SUBSET Item]

queueUNLOCKED == -1
queueLOCKED_UNMODIFIED == 0
portMAX_DELAY == -1       \* 0xffffffff
Wait == {portMAX_DELAY} \cup 0..MaxTicks

VARIABLES
  use,                  \* the use of this run, for ever
  \* Queue_t
  storage, pcWriteTo, pcReadFrom, uxMessagesWaiting,
  cRxLock, cTxLock,
  xTasksWaitingToSend, xTasksWaitingToReceive,
  \* the scheduler
  suspender,            \* the task that has uxSchedulerSuspended up
  xPendingReadyList, uxPendedTicks,
  \* the tasks
  pc, op,
  xTicksToWait,         \* what is left of it
  plan,                 \* of the suspender: the branch it is in
  received              \* the item handed out last

ring == <<use, storage, pcWriteTo, pcReadFrom, uxMessagesWaiting, received>>
locks == <<cRxLock, cTxLock>>
lists == <<xTasksWaitingToSend, xTasksWaitingToReceive, xPendingReadyList>>
calls == <<op, xTicksToWait>>
scheduler == <<suspender, plan, uxPendedTicks>>
vars == <<ring, locks, lists, scheduler, pc, calls>>

\* The storage comes from the heap as it is.
Init ==
  /\ use \in Uses
  /\ storage \in [0..Length - 1 -> use.items]
  /\ pcWriteTo = 0 /\ pcReadFrom = Length - 1 /\ uxMessagesWaiting = 0
  /\ cRxLock = queueUNLOCKED /\ cTxLock = queueUNLOCKED
  /\ xTasksWaitingToSend = {} /\ xTasksWaitingToReceive = {}
  /\ suspender = NoTask /\ xPendingReadyList = {} /\ uxPendedTicks = 0
  /\ pc = [t \in Task |-> "idle"]
  /\ op = [t \in Task |-> "none"]
  /\ xTicksToWait = [t \in Task |-> 0]
  /\ plan = "none"
  /\ received \in use.items

-----------------------------------------------------------------------------
(* Helpers *)

\* Mutant: the end of the storage is taken for a place in it.
NextPlaceBeyond(k) == IF k >= Length THEN 0 ELSE k + 1

NextPlace(k) == IF k + 1 >= Length THEN 0 ELSE k + 1

CopyDataToQueue(v) ==
  /\ storage' = [storage EXCEPT ![pcWriteTo] = v]
  /\ pcWriteTo' = NextPlace(pcWriteTo)
  /\ uxMessagesWaiting' = uxMessagesWaiting + 1
  /\ UNCHANGED <<use, pcReadFrom, received>>

CopyDataFromQueue ==
  /\ pcReadFrom' = NextPlace(pcReadFrom)
  /\ received' = storage[NextPlace(pcReadFrom)]
  /\ uxMessagesWaiting' = uxMessagesWaiting - 1
  /\ UNCHANGED <<use, storage, pcWriteTo>>

\* How many wake-ups a lock has counted.
Counted(lock) == IF lock > queueLOCKED_UNMODIFIED THEN lock ELSE 0

\* The sets of tasks that n calls of xTaskRemoveFromEventList may take from a list.
Woken(list, n) ==
  {W \in SUBSET list : Cardinality(W) = n \/ (W = list /\ Cardinality(W) < n)}

\* The tasks of W go on at the top of their loop.
Ready(W, where) == [u \in Task |-> IF u \in W THEN "check" ELSE where[u]]

GoTo(t, a) == pc' = [pc EXCEPT ![t] = a]

\* The call returns, and the tasks of W are ready.
Return(t, W) ==
  /\ pc' = Ready(W, [pc EXCEPT ![t] = "idle"])
  /\ op' = [op EXCEPT ![t] = "none"]
  /\ xTicksToWait' = [xTicksToWait EXCEPT ![t] = 0]

Stuck(t) == IF op[t] = "send" THEN uxMessagesWaiting = Length ELSE uxMessagesWaiting = 0

-----------------------------------------------------------------------------
(* xQueueGenericSend, xQueueReceive, xQueueSemaphoreTake *)

Call(t) ==
  /\ pc[t] = "idle" /\ suspender = NoTask
  /\ \E o \in use.does[t], n \in Wait :
       op' = [op EXCEPT ![t] = o] /\ xTicksToWait' = [xTicksToWait EXCEPT ![t] = n]
  /\ GoTo(t, "enter")
  /\ UNCHANGED <<ring, locks, lists, scheduler>>

AtTop(t) == pc[t] \in {"enter", "check"} /\ suspender = NoTask

Send(t) ==
  /\ AtTop(t) /\ op[t] = "send" /\ uxMessagesWaiting < Length
  /\ \E v \in use.items, W \in Woken(xTasksWaitingToReceive, 1) :
       /\ CopyDataToQueue(v)
       /\ xTasksWaitingToReceive' = xTasksWaitingToReceive \ W
       /\ Return(t, W)
  /\ UNCHANGED <<locks, xTasksWaitingToSend, xPendingReadyList, scheduler>>

Receive(t) ==
  /\ AtTop(t) /\ op[t] = "receive" /\ uxMessagesWaiting > 0
  /\ CopyDataFromQueue
  /\ \E W \in Woken(xTasksWaitingToSend, 1) :
       xTasksWaitingToSend' = xTasksWaitingToSend \ W /\ Return(t, W)
  /\ UNCHANGED <<locks, xTasksWaitingToReceive, xPendingReadyList, scheduler>>

\* xTicksToWait is 0: of the caller, or because the time-out has run out (xTaskCheckForTimeOut).
LeaveNow(t) ==
  /\ AtTop(t) /\ Stuck(t) /\ pc[t] = "enter" /\ xTicksToWait[t] = 0
  /\ Return(t, {})
  /\ UNCHANGED <<ring, locks, lists, scheduler>>

\* From the first pass on the time-out runs.  Whether it has run out is not looked at here.
SetTimeOut(t) ==
  /\ AtTop(t) /\ Stuck(t) /\ (pc[t] = "enter" => xTicksToWait[t] # 0)
  /\ GoTo(t, "suspend")
  /\ UNCHANGED <<ring, locks, lists, scheduler, calls>>

SuspendAll(t) ==
  /\ pc[t] = "suspend" /\ suspender = NoTask
  /\ suspender' = t
  /\ GoTo(t, "lock")
  /\ UNCHANGED <<ring, locks, lists, plan, uxPendedTicks, calls>>

\* Mutant: the queue is left unlocked.
LockNothing(t) ==
  /\ pc[t] = "lock"
  /\ GoTo(t, "time_out")
  /\ UNCHANGED <<ring, locks, lists, scheduler, calls>>

LockQueue(t) ==
  /\ pc[t] = "lock"
  /\ cRxLock' = IF cRxLock = queueUNLOCKED THEN queueLOCKED_UNMODIFIED ELSE cRxLock
  /\ cTxLock' = IF cTxLock = queueUNLOCKED THEN queueLOCKED_UNMODIFIED ELSE cTxLock
  /\ GoTo(t, "time_out")
  /\ UNCHANGED <<ring, lists, scheduler, calls>>

Unlock(t, p) == GoTo(t, "unlock_tx") /\ plan' = p

CheckForTimeOut(t) ==
  /\ pc[t] = "time_out"
  /\ IF xTicksToWait[t] = 0 THEN Unlock(t, "give_up") ELSE GoTo(t, "recheck") /\ UNCHANGED plan
  /\ UNCHANGED <<ring, locks, lists, suspender, uxPendedTicks, calls>>

\* prvIsQueueFull, prvIsQueueEmpty
Recheck(t) ==
  /\ pc[t] = "recheck"
  /\ IF Stuck(t) THEN GoTo(t, "place") /\ UNCHANGED plan ELSE Unlock(t, "retry")
  /\ UNCHANGED <<ring, locks, lists, suspender, uxPendedTicks, calls>>

PlaceOnEventList(t) ==
  /\ pc[t] = "place"
  /\ IF op[t] = "send"
     THEN xTasksWaitingToSend' = xTasksWaitingToSend \cup {t} /\ UNCHANGED xTasksWaitingToReceive
     ELSE xTasksWaitingToReceive' = xTasksWaitingToReceive \cup {t} /\ UNCHANGED xTasksWaitingToSend
  /\ Unlock(t, "block")
  /\ UNCHANGED <<ring, locks, xPendingReadyList, suspender, uxPendedTicks, calls>>

\* Mutant: one task is woken, however many items have come.
UnlockTxOnce(t) ==
  /\ pc[t] = "unlock_tx"
  /\ \E W \in Woken(xTasksWaitingToReceive, IF cTxLock > 0 THEN 1 ELSE 0) :
       /\ xTasksWaitingToReceive' = xTasksWaitingToReceive \ W
       /\ xPendingReadyList' = xPendingReadyList \cup W
  /\ cTxLock' = queueUNLOCKED
  /\ GoTo(t, "unlock_rx")
  /\ UNCHANGED <<ring, cRxLock, xTasksWaitingToSend, scheduler, calls>>

\* prvUnlockQueue: what was sent while the queue was locked wakes the tasks now.
UnlockTx(t) ==
  /\ pc[t] = "unlock_tx"
  /\ \E W \in Woken(xTasksWaitingToReceive, Counted(cTxLock)) :
       /\ xTasksWaitingToReceive' = xTasksWaitingToReceive \ W
       /\ xPendingReadyList' = xPendingReadyList \cup W
  /\ cTxLock' = queueUNLOCKED
  /\ GoTo(t, "unlock_rx")
  /\ UNCHANGED <<ring, cRxLock, xTasksWaitingToSend, scheduler, calls>>

UnlockRx(t) ==
  /\ pc[t] = "unlock_rx"
  /\ \E W \in Woken(xTasksWaitingToSend, Counted(cRxLock)) :
       /\ xTasksWaitingToSend' = xTasksWaitingToSend \ W
       /\ xPendingReadyList' = xPendingReadyList \cup W
  /\ cRxLock' = queueUNLOCKED
  /\ GoTo(t, "resume")
  /\ UNCHANGED <<ring, cTxLock, xTasksWaitingToReceive, scheduler, calls>>

-----------------------------------------------------------------------------
(* Time *)

\* What is left of the time-outs that run, n ticks later.
Left(n) ==
  [u \in Task |->
     IF pc[u] \in {"idle", "enter"} \/ xTicksToWait[u] = portMAX_DELAY THEN xTicksToWait[u]
     ELSE IF xTicksToWait[u] > n THEN xTicksToWait[u] - n ELSE 0]

\* xTaskIncrementTick, n times: blocked tasks whose time is up are ready and on no list.
IncrementTick(n, where) ==
  LET Expired == {u \in Task : where[u] = "blocked" /\ Left(n)[u] = 0}
  IN /\ xTicksToWait' = Left(n)
     /\ pc' = Ready(Expired, where)
     /\ xTasksWaitingToSend' = xTasksWaitingToSend \ Expired
     /\ xTasksWaitingToReceive' = xTasksWaitingToReceive \ Expired

Tick ==
  /\ IF suspender = NoTask
     THEN IncrementTick(1, pc) /\ UNCHANGED uxPendedTicks
     ELSE /\ uxPendedTicks < MaxPended
          /\ uxPendedTicks' = uxPendedTicks + 1
          /\ UNCHANGED <<pc, xTicksToWait, xTasksWaitingToSend, xTasksWaitingToReceive>>
  /\ UNCHANGED <<ring, locks, xPendingReadyList, suspender, plan, op>>

\* Where the task goes on that resumes the scheduler: it is blocked unless it was woken
\* meanwhile, tries again, or has run out of time.
Branch == IF plan = "block" THEN "blocked" ELSE IF plan = "retry" THEN "check" ELSE "last_look"

\* Mutant: only the suspender itself is taken from the list of ready tasks.
ResumeSelf(t) ==
  /\ pc[t] = "resume"
  /\ IncrementTick(uxPendedTicks, Ready(xPendingReadyList \cap {t}, [pc EXCEPT ![t] = Branch]))
  /\ xPendingReadyList' = {} /\ uxPendedTicks' = 0
  /\ suspender' = NoTask /\ plan' = "none"
  /\ UNCHANGED <<ring, locks, op>>

\* xTaskResumeAll: first the tasks that were woken meanwhile, then the ticks that have passed.
ResumeAll(t) ==
  /\ pc[t] = "resume"
  /\ IncrementTick(uxPendedTicks, Ready(xPendingReadyList, [pc EXCEPT ![t] = Branch]))
  /\ xPendingReadyList' = {} /\ uxPendedTicks' = 0
  /\ suspender' = NoTask /\ plan' = "none"
  /\ UNCHANGED <<ring, locks, op>>

\* Mutant: a receive that ran out of time fails, whatever has come.
GiveUpBlindly(t) ==
  /\ pc[t] = "last_look" /\ suspender = NoTask
  /\ Return(t, {})
  /\ UNCHANGED <<ring, locks, lists, scheduler>>

\* Mutant: a call that ran out of time is made again.
GiveUpNever(t) ==
  /\ pc[t] = "last_look" /\ suspender = NoTask
  /\ GoTo(t, "check")
  /\ UNCHANGED <<ring, locks, lists, scheduler, calls>>

\* Out of time: a send fails, a receive only if there is still nothing.
GiveUp(t) ==
  /\ pc[t] = "last_look" /\ suspender = NoTask
  /\ IF op[t] = "send" \/ uxMessagesWaiting = 0 THEN Return(t, {})
     ELSE GoTo(t, "enter") /\ UNCHANGED calls
  /\ UNCHANGED <<ring, locks, lists, scheduler>>

-----------------------------------------------------------------------------
(* Interrupts *)

\* xQueueGenericSendFromISR, xQueueGiveFromISR: on a locked queue only the count goes up.
SendFromISR ==
  /\ uxMessagesWaiting < Length
  /\ \E v \in use.items : CopyDataToQueue(v)
  /\ IF cTxLock = queueUNLOCKED
     THEN /\ \E W \in Woken(xTasksWaitingToReceive, 1) :
               /\ xTasksWaitingToReceive' = xTasksWaitingToReceive \ W
               /\ IF suspender = NoTask
                  THEN pc' = Ready(W, pc) /\ UNCHANGED xPendingReadyList
                  ELSE xPendingReadyList' = xPendingReadyList \cup W /\ UNCHANGED pc
          /\ UNCHANGED cTxLock
     ELSE /\ cTxLock' = cTxLock + 1
          /\ UNCHANGED <<pc, xTasksWaitingToReceive, xPendingReadyList>>
  /\ UNCHANGED <<cRxLock, xTasksWaitingToSend, scheduler, calls>>

-----------------------------------------------------------------------------
Progress(t) ==
  \/ Send(t) \/ Receive(t) \/ LeaveNow(t) \/ SetTimeOut(t)
  \/ SuspendAll(t) \/ LockQueue(t) \/ CheckForTimeOut(t) \/ Recheck(t) \/ PlaceOnEventList(t)
  \/ UnlockTx(t) \/ UnlockRx(t) \/ ResumeAll(t) \/ GiveUp(t)

Next ==
  \/ \E t \in Task : Call(t) \/ Progress(t)
  \/ SendFromISR
  \/ Tick

Spec == Init /\ [][Next]_vars

\* Time passes, and a ready task gets its turn, although it loses it whenever another one
\* suspends the scheduler.
Fairness == WF_vars(Tick) /\ \A t \in Task : SF_vars(Progress(t))
FairSpec == Spec /\ Fairness

-----------------------------------------------------------------------------
Point == {"idle", "enter", "check", "suspend", "lock", "time_out", "recheck", "place",
          "unlock_tx", "unlock_rx", "resume", "blocked", "last_look"}

TypeOK ==
  /\ use \in Uses
  /\ storage \in [0..Length - 1 -> Item]
  /\ pcWriteTo \in 0..Length - 1 /\ pcReadFrom \in 0..Length - 1
  /\ uxMessagesWaiting \in 0..Length
  /\ cRxLock \in -1..127 /\ cTxLock \in -1..127        \* int8_t
  /\ xTasksWaitingToSend \subseteq Task /\ xTasksWaitingToReceive \subseteq Task
  /\ suspender \in Task \cup {NoTask}
  /\ xPendingReadyList \subseteq Task /\ uxPendedTicks \in 0..MaxPended
  /\ pc \in [Task -> Point]
  /\ op \in [Task -> Operation \cup {"none"}]
  /\ xTicksToWait \in [Task -> Wait]
  /\ plan \in {"none", "block", "retry", "give_up"}
  /\ received \in Item

WillRecheck(o) == {t \in Task : op[t] = o /\ (pc[t] = "check" \/ t \in xPendingReadyList)}

ReceiversServed ==
  xTasksWaitingToReceive # {} =>
    uxMessagesWaiting <= Cardinality(WillRecheck("receive")) + Counted(cTxLock)

SendersServed ==
  xTasksWaitingToSend # {} =>
    Length - uxMessagesWaiting <= Cardinality(WillRecheck("send")) + Counted(cRxLock)

\* No wake-up is lost: while a task waits to receive, for every item in the queue there is a
\* receiver that has been woken and not looked yet, or a count that will wake one; likewise for
\* the senders and the room.
NoLostWakeup == ReceiversServed /\ SendersServed

\* A task is on one list at most, on an event list only for what it waits for, and the tasks on
\* lists are those that are blocked or just blocking.  Outside a call that suspends the scheduler
\* nothing is pending and the queue is unlocked.
ListsConsistent ==
  /\ xPendingReadyList \cap (xTasksWaitingToSend \cup xTasksWaitingToReceive) = {}
  /\ \A t \in xTasksWaitingToSend : op[t] = "send"
  /\ \A t \in xTasksWaitingToReceive : op[t] = "receive"
  /\ \A t \in Task :
       t \in xPendingReadyList \cup xTasksWaitingToSend \cup xTasksWaitingToReceive
         <=> pc[t] = "blocked" \/ (t = suspender /\ plan = "block")
  /\ suspender = NoTask =>
       /\ xPendingReadyList = {} /\ uxPendedTicks = 0 /\ plan = "none"
       /\ cTxLock = queueUNLOCKED /\ cRxLock = queueUNLOCKED

-----------------------------------------------------------------------------
(* The inductive invariant *)

Locking == {"time_out", "recheck", "place", "unlock_tx"}
Unlocking == {"unlock_tx", "unlock_rx", "resume"}
Suspended == {"lock"} \cup Locking \cup Unlocking

\* The scheduler is suspended by the task that is in the middle of it.
SuspenderInside ==
  \A t \in Task :
    /\ pc[t] \in Suspended <=> suspender = t
    /\ pc[t] \in Unlocking => plan # "none"
    /\ suspender = t /\ plan # "none" => pc[t] \in Unlocking

\* The counts are those of a lock that is held, and what they count is in the queue.
LocksHeld ==
  /\ cTxLock # queueUNLOCKED <=> \E t \in Task : pc[t] \in Locking
  /\ cRxLock # queueUNLOCKED <=> \E t \in Task : pc[t] \in Locking \cup {"unlock_rx"}
  /\ cTxLock <= uxMessagesWaiting /\ cRxLock <= queueLOCKED_UNMODIFIED

\* Only a call that has run out of time gives up.
CallsTimed ==
  \A t \in Task :
    /\ pc[t] = "idle" <=> op[t] = "none"
    /\ pc[t] = "idle" => xTicksToWait[t] = 0
    /\ (pc[t] = "last_look" \/ (suspender = t /\ plan = "give_up")) => xTicksToWait[t] = 0

\* A task that is about to be put on an event list has missed nothing that is not counted.
NothingMissed ==
  \A t \in Task :
    pc[t] = "place" => IF op[t] = "send" THEN uxMessagesWaiting = Length
                       ELSE uxMessagesWaiting <= cTxLock

\* The items in the ring buffer, the oldest first.
Place(k) == IF pcReadFrom + k >= Length THEN pcReadFrom + k - Length ELSE pcReadFrom + k
Content == [k \in 1..uxMessagesWaiting |-> storage[Place(k)]]

RingClosed == pcWriteTo = NextPlace(Place(uxMessagesWaiting))

IInv == /\ TypeOK /\ ListsConsistent /\ SuspenderInside /\ LocksHeld /\ CallsTimed
        /\ NothingMissed /\ NoLostWakeup /\ RingClosed

-----------------------------------------------------------------------------
Called == [t \in Task |-> [op |-> op[t], forever |-> xTicksToWait[t] = portMAX_DELAY]]

Fifo == INSTANCE BoundedQueue WITH content <- Content, calls <- Called

\* However the interrupts and the steps of the tasks meet, the queue is a bounded FIFO whose calls
\* take effect at once, and a call that waits for ever never fails.
ImplementsFifo == Fifo!Spec

\* A call with a time-out returns.
TimedCallsReturn ==
  \A t \in Task : pc[t] # "idle" /\ xTicksToWait[t] # portMAX_DELAY ~> pc[t] = "idle"

\* Tasks do not wait for ever for what is there.
NobodyWaitsForNothing ==
  /\ []<>(xTasksWaitingToReceive = {} \/ uxMessagesWaiting = 0)
  /\ []<>(xTasksWaitingToSend = {} \/ uxMessagesWaiting = Length)
=============================================================================
