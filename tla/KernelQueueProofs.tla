------------------------------ MODULE KernelQueueProofs ------------------------------
(***************************************************************************)
(* Theorems about KernelQueue, for every finite set of tasks, every use of *)
(* the queue and every length an int8_t can count.                         *)
(***************************************************************************)
EXTENDS KernelQueue, FiniteSetTheorems, SequenceTheorems, TLAPS

-----------------------------------------------------------------------------
(* Counting tasks *)

\* Sets of tasks are finite.
LEMMA Finite ==
  \A S \in SUBSET Task : IsFiniteSet(S) /\ Cardinality(S) \in Nat
BY TaskAssumption, FS_Subset, FS_CardinalityType

\* A larger set of tasks has no fewer members.
LEMMA Monotone ==
  ASSUME NEW S \in SUBSET Task, NEW T \in SUBSET Task, S \subseteq T
  PROVE  Cardinality(S) <= Cardinality(T)
BY Finite, FS_Subset

\* Two disjoint sets of tasks add up within one that contains both.
LEMMA Joined ==
  ASSUME NEW S \in SUBSET Task, NEW W \in SUBSET Task, NEW T \in SUBSET Task,
         S \cap W = {}, S \subseteq T, W \subseteq T
  PROVE  Cardinality(S) + Cardinality(W) <= Cardinality(T)
<1>1. IsFiniteSet(S) /\ IsFiniteSet(W) /\ S \cup W \in SUBSET Task
  BY Finite
<1>2. Cardinality(S \cup W) = Cardinality(S) + Cardinality(W) - Cardinality({})
  BY <1>1, FS_Union
<1>3. Cardinality(S \cup W) <= Cardinality(T)
  BY <1>1, Monotone
<1>4. Cardinality({}) = 0
  BY FS_EmptySet
<1> QED
  BY <1>1, <1>2, <1>3, <1>4, Finite

\* Without one of its tasks a set has at most one member less.
LEMMA OneLess ==
  ASSUME NEW S \in SUBSET Task, NEW t \in Task, NEW T \in SUBSET Task, S \ {t} \subseteq T
  PROVE  Cardinality(S) - 1 <= Cardinality(T)
<1>1. IsFiniteSet(S) /\ S \ {t} \in SUBSET Task
  BY Finite
<1>2. Cardinality(S \ {t}) = IF t \in S THEN Cardinality(S) - 1 ELSE Cardinality(S)
  BY <1>1, FS_RemoveElement
<1>3. Cardinality(S \ {t}) <= Cardinality(T)
  BY <1>1, Monotone
<1> QED
  BY <1>1, <1>2, <1>3, Finite

\* A list from which n tasks are to be woken loses n of them or all.
LEMMA WokenAll ==
  ASSUME NEW list \in SUBSET Task, NEW n \in Nat, NEW W \in Woken(list, n)
  PROVE  /\ W \subseteq list
         /\ list \ W # {} => Cardinality(W) = n
BY DEF Woken

-----------------------------------------------------------------------------
(* The shape of a step *)

\* Those who will look at the queue again are tasks.
LEMMA RecheckersAreTasks ==
  ASSUME NEW o
  PROVE  WillRecheck(o) \in SUBSET Task /\ WillRecheck(o)' \in SUBSET Task
BY DEF WillRecheck

\* A step that puts no task on a list, and takes no wake-up back, loses none.
LEMMA ReceiversUndisturbed ==
  ASSUME TypeOK, ReceiversServed,
         WillRecheck("receive") \subseteq WillRecheck("receive")',
         xTasksWaitingToReceive' \subseteq xTasksWaitingToReceive,
         uxMessagesWaiting' = uxMessagesWaiting, Counted(cTxLock') = Counted(cTxLock)
  PROVE  ReceiversServed'
<1>1. Cardinality(WillRecheck("receive")) <= Cardinality(WillRecheck("receive")')
  BY Monotone, RecheckersAreTasks
<1>2. Cardinality(WillRecheck("receive")) \in Nat /\ Cardinality(WillRecheck("receive")') \in Nat
  BY Finite, RecheckersAreTasks
<1>3. uxMessagesWaiting \in Int /\ Counted(cTxLock) \in Int
  BY LengthAssumption DEF TypeOK, Counted, queueLOCKED_UNMODIFIED
<1> QED
  BY <1>1, <1>2, <1>3 DEF ReceiversServed

\* The same for the senders.
LEMMA SendersUndisturbed ==
  ASSUME TypeOK, SendersServed,
         WillRecheck("send") \subseteq WillRecheck("send")',
         xTasksWaitingToSend' \subseteq xTasksWaitingToSend,
         uxMessagesWaiting' = uxMessagesWaiting, Counted(cRxLock') = Counted(cRxLock)
  PROVE  SendersServed'
<1>1. Cardinality(WillRecheck("send")) <= Cardinality(WillRecheck("send")')
  BY Monotone, RecheckersAreTasks
<1>2. Cardinality(WillRecheck("send")) \in Nat /\ Cardinality(WillRecheck("send")') \in Nat
  BY Finite, RecheckersAreTasks
<1>3. uxMessagesWaiting \in Int /\ Counted(cRxLock) \in Int /\ Length \in Int
  BY LengthAssumption DEF TypeOK, Counted, queueLOCKED_UNMODIFIED
<1> QED
  BY <1>1, <1>2, <1>3 DEF SendersServed

\* Nothing is lost for a list while there is nothing for it.
LEMMA NothingToServe ==
  ASSUME TypeOK'
  PROVE  /\ uxMessagesWaiting' <= Counted(cTxLock)' => ReceiversServed'
         /\ uxMessagesWaiting' = Length => SendersServed'
<1>1. Cardinality(WillRecheck("receive")') \in Nat /\ Cardinality(WillRecheck("send")') \in Nat
  BY Finite, RecheckersAreTasks
<1>2. /\ uxMessagesWaiting' \in Int /\ Length \in Int
      /\ Counted(cTxLock)' \in Nat /\ Counted(cRxLock)' \in Nat
  BY LengthAssumption DEF TypeOK, Counted, queueLOCKED_UNMODIFIED
<1> QED
  BY <1>1, <1>2 DEF ReceiversServed, SendersServed
-----------------------------------------------------------------------------
(* Types *)

\* What Ready does to the place of a task.
LEMMA ReadyAt ==
  ASSUME NEW W \in SUBSET Task, NEW where \in [Task -> Point]
  PROVE  /\ Ready(W, where) \in [Task -> Point]
         /\ \A u \in Task : Ready(W, where)[u] = IF u \in W THEN "check" ELSE where[u]
BY DEF Ready, Point

\* The places of the ring buffer follow each other within its storage.
LEMMA Places ==
  \A k \in 0..Length - 1 : NextPlace(k) \in 0..Length - 1
BY LengthAssumption DEF NextPlace

\* The time a task has left is a time, and one that waits for ever keeps doing so.
LEMMA LeftType ==
  ASSUME TypeOK, NEW n \in Nat
  PROVE  /\ Left(n) \in [Task -> Wait]
         /\ \A u \in Task : /\ Left(n)[u] = portMAX_DELAY <=> xTicksToWait[u] = portMAX_DELAY
                            /\ xTicksToWait[u] = 0 => Left(n)[u] = 0
BY BoundAssumption DEF TypeOK, Left, Wait, portMAX_DELAY

\* A call with one of the operators that return, block or wake leaves the types alone.
LEMMA CallTypes ==
  ASSUME TypeOK, NEW t \in Task,
         Call(t) \/ LeaveNow(t) \/ SetTimeOut(t) \/ GiveUp(t)
  PROVE  TypeOK'
<1> USE DEF TypeOK, Point
<1>1. CASE Call(t)
  <2>1. PICK o \in use.does[t], n \in Wait :
          op' = [op EXCEPT ![t] = o] /\ xTicksToWait' = [xTicksToWait EXCEPT ![t] = n]
    BY <1>1 DEF Call
  <2>2. o \in Operation
    BY <2>1, UsesAssumption
  <2> QED
    BY <1>1, <2>1, <2>2 DEF Call, GoTo, ring, locks, lists, scheduler
<1>2. ASSUME NEW W \in SUBSET Task, Return(t, W)
      PROVE  /\ pc' \in [Task -> Point]
             /\ op' \in [Task -> Operation \cup {"none"}]
             /\ xTicksToWait' \in [Task -> Wait]
  BY <1>2, BoundAssumption DEF Return, Ready, Wait
<1>3. CASE LeaveNow(t)
  BY <1>2, <1>3 DEF LeaveNow, ring, locks, lists, scheduler
<1>4. CASE SetTimeOut(t)
  BY <1>4 DEF SetTimeOut, GoTo, ring, locks, lists, scheduler, calls
<1>5. CASE GiveUp(t)
  BY <1>2, <1>5 DEF GiveUp, GoTo, ring, locks, lists, scheduler, calls
<1> QED
  BY <1>1, <1>3, <1>4, <1>5

\* The steps of a call on its way to being blocked keep the types.
LEMMA WaitingTypes ==
  ASSUME TypeOK, NEW t \in Task,
         \/ SuspendAll(t) \/ LockQueue(t) \/ CheckForTimeOut(t) \/ Recheck(t)
         \/ PlaceOnEventList(t) \/ UnlockTx(t) \/ UnlockRx(t)
  PROVE  TypeOK'
<1> USE DEF TypeOK, Point
<1>1. CASE SuspendAll(t)
  BY <1>1 DEF SuspendAll, GoTo, ring, locks, lists, calls
<1>2. CASE LockQueue(t)
  BY <1>2 DEF LockQueue, GoTo, ring, lists, scheduler, calls, queueLOCKED_UNMODIFIED
<1>3. CASE CheckForTimeOut(t)
  BY <1>3 DEF CheckForTimeOut, Unlock, GoTo, ring, locks, lists, calls
<1>4. CASE Recheck(t)
  BY <1>4 DEF Recheck, Unlock, GoTo, ring, locks, lists, calls
<1>5. CASE PlaceOnEventList(t)
  BY <1>5 DEF PlaceOnEventList, Unlock, GoTo, ring, locks, calls
<1>6. CASE UnlockTx(t)
  BY <1>6 DEF UnlockTx, Woken, GoTo, ring, scheduler, calls, queueUNLOCKED
<1>7. CASE UnlockRx(t)
  BY <1>7 DEF UnlockRx, Woken, GoTo, ring, scheduler, calls, queueUNLOCKED
<1> QED
  BY <1>1, <1>2, <1>3, <1>4, <1>5, <1>6, <1>7

\* A tick keeps the types.
LEMMA TickType ==
  ASSUME TypeOK, NEW n \in Nat, NEW where \in [Task -> Point],
         IncrementTick(n, where)
  PROVE  /\ xTicksToWait' \in [Task -> Wait]
         /\ pc' \in [Task -> Point]
         /\ xTasksWaitingToSend' \subseteq Task /\ xTasksWaitingToReceive' \subseteq Task
BY LeftType, ReadyAt DEF IncrementTick, TypeOK, Point

\* So do the tick interrupt and xTaskResumeAll, which makes up for missed ticks.
LEMMA TimeTypes ==
  ASSUME TypeOK, Tick \/ \E t \in Task : ResumeAll(t)
  PROVE  TypeOK'
<1>1. CASE Tick
  <2>1. CASE suspender = NoTask
    <3>1. IncrementTick(1, pc) /\ pc \in [Task -> Point]
      BY <1>1, <2>1 DEF Tick, TypeOK
    <3>2. /\ xTicksToWait' \in [Task -> Wait]
          /\ pc' \in [Task -> Point]
          /\ xTasksWaitingToSend' \subseteq Task /\ xTasksWaitingToReceive' \subseteq Task
      BY <3>1, TickType
    <3> QED
      BY <1>1, <2>1, <3>2 DEF TypeOK, Tick, ring, locks
  <2>2. CASE suspender # NoTask
    BY <1>1, <2>2, BoundAssumption DEF TypeOK, Tick, ring, locks
  <2> QED
    BY <2>1, <2>2
<1>2. ASSUME NEW t \in Task, ResumeAll(t)
      PROVE  TypeOK'
  <2>1. [pc EXCEPT ![t] = Branch] \in [Task -> Point]
    BY DEF Branch, Point, TypeOK
  <2>2. Ready(xPendingReadyList, [pc EXCEPT ![t] = Branch]) \in [Task -> Point]
    BY <2>1, ReadyAt DEF TypeOK
  <2>3. uxPendedTicks \in Nat /\ 0 \in 0..MaxPended
    BY BoundAssumption DEF TypeOK
  <2>4. IncrementTick(uxPendedTicks, Ready(xPendingReadyList, [pc EXCEPT ![t] = Branch]))
    BY <1>2 DEF ResumeAll
  <2>5. /\ xTicksToWait' \in [Task -> Wait]
        /\ pc' \in [Task -> Point]
        /\ xTasksWaitingToSend' \subseteq Task /\ xTasksWaitingToReceive' \subseteq Task
    BY <2>2, <2>3, <2>4, TickType
  <2> QED
    BY <1>2, <2>3, <2>5 DEF ResumeAll, TypeOK, ring, locks
<1> QED
  BY <1>1, <1>2

\* prvCopyDataToQueue keeps the pointers in the storage.
LEMMA CopyToTypes ==
  ASSUME TypeOK, NEW v \in use.items, uxMessagesWaiting < Length, CopyDataToQueue(v)
  PROVE  /\ use' \in Uses /\ storage' \in [0..Length - 1 -> Item]
         /\ pcWriteTo' \in 0..Length - 1 /\ pcReadFrom' \in 0..Length - 1
         /\ uxMessagesWaiting' \in 0..Length /\ received' \in Item
<1>1. v \in Item
  BY UsesAssumption DEF TypeOK
<1>2. NextPlace(pcWriteTo) \in 0..Length - 1
  BY Places DEF TypeOK
<1>3. [storage EXCEPT ![pcWriteTo] = v] \in [0..Length - 1 -> Item]
  BY <1>1 DEF TypeOK
<1> QED
  BY <1>2, <1>3, LengthAssumption DEF TypeOK, CopyDataToQueue

\* prvCopyDataFromQueue keeps the pointers in the storage.
LEMMA CopyFromTypes ==
  ASSUME TypeOK, uxMessagesWaiting > 0, CopyDataFromQueue
  PROVE  /\ use' \in Uses /\ storage' \in [0..Length - 1 -> Item]
         /\ pcWriteTo' \in 0..Length - 1 /\ pcReadFrom' \in 0..Length - 1
         /\ uxMessagesWaiting' \in 0..Length /\ received' \in Item
<1>1. NextPlace(pcReadFrom) \in 0..Length - 1
  BY Places DEF TypeOK
<1> QED
  BY <1>1, LengthAssumption DEF TypeOK, CopyDataFromQueue

\* The end of a call keeps the types.
LEMMA ReturnTypes ==
  ASSUME TypeOK, NEW t \in Task, NEW W \in SUBSET Task, Return(t, W)
  PROVE  /\ pc' \in [Task -> Point]
         /\ op' \in [Task -> Operation \cup {"none"}]
         /\ xTicksToWait' \in [Task -> Wait]
BY BoundAssumption DEF TypeOK, Point, Return, Ready, Wait

\* Sending and receiving keep the types.
LEMMA MoveTypes ==
  ASSUME TypeOK, LocksHeld, SendFromISR \/ \E t \in Task : Send(t) \/ Receive(t)
  PROVE  TypeOK'
<1>1. ASSUME NEW t \in Task, Send(t)
      PROVE  TypeOK'
  <2>1. PICK v \in use.items, W \in Woken(xTasksWaitingToReceive, 1) :
          /\ CopyDataToQueue(v)
          /\ xTasksWaitingToReceive' = xTasksWaitingToReceive \ W
          /\ Return(t, W)
    BY <1>1 DEF Send
  <2>2. W \in SUBSET Task
    BY DEF Woken, TypeOK
  <2>3. uxMessagesWaiting < Length
    BY <1>1 DEF Send
  <2> QED
    BY <1>1, <2>1, <2>2, <2>3, CopyToTypes, ReturnTypes DEF Send, TypeOK, locks, scheduler
<1>2. ASSUME NEW t \in Task, Receive(t)
      PROVE  TypeOK'
  <2>1. PICK W \in Woken(xTasksWaitingToSend, 1) :
          xTasksWaitingToSend' = xTasksWaitingToSend \ W /\ Return(t, W)
    BY <1>2 DEF Receive
  <2>2. W \in SUBSET Task
    BY DEF Woken, TypeOK
  <2>3. uxMessagesWaiting > 0 /\ CopyDataFromQueue
    BY <1>2 DEF Receive
  <2> QED
    BY <1>2, <2>1, <2>2, <2>3, CopyFromTypes, ReturnTypes DEF Receive, TypeOK, locks, scheduler
<1>3. CASE SendFromISR
  <2>1. PICK v \in use.items : CopyDataToQueue(v)
    BY <1>3 DEF SendFromISR
  <2>2. uxMessagesWaiting < Length
    BY <1>3 DEF SendFromISR
  <2>3. /\ use' \in Uses /\ storage' \in [0..Length - 1 -> Item]
        /\ pcWriteTo' \in 0..Length - 1 /\ pcReadFrom' \in 0..Length - 1
        /\ uxMessagesWaiting' \in 0..Length /\ received' \in Item
    BY <2>1, <2>2, CopyToTypes
  <2>4. cTxLock + 1 \in -1..127
    BY <2>2, LengthAssumption DEF LocksHeld, TypeOK
  <2>5. CASE cTxLock = queueUNLOCKED
    <3>1. PICK W \in Woken(xTasksWaitingToReceive, 1) :
            /\ xTasksWaitingToReceive' = xTasksWaitingToReceive \ W
            /\ IF suspender = NoTask
               THEN pc' = Ready(W, pc) /\ UNCHANGED xPendingReadyList
               ELSE xPendingReadyList' = xPendingReadyList \cup W /\ UNCHANGED pc
      BY <1>3, <2>5 DEF SendFromISR
    <3>2. W \in SUBSET Task
      BY DEF Woken, TypeOK
    <3>3. Ready(W, pc) \in [Task -> Point]
      BY <3>2, ReadyAt DEF TypeOK, Point
    <3> QED
      BY <1>3, <2>3, <2>5, <3>1, <3>2, <3>3 DEF SendFromISR, TypeOK, scheduler, calls
  <2>6. CASE cTxLock # queueUNLOCKED
    BY <1>3, <2>3, <2>4, <2>6 DEF SendFromISR, TypeOK, scheduler, calls
  <2> QED
    BY <2>5, <2>6
<1> QED
  BY <1>1, <1>2, <1>3

\* Every step keeps the types.
LEMMA TypesKept ==
  ASSUME TypeOK, LocksHeld, Next
  PROVE  TypeOK'
BY CallTypes, WaitingTypes, TimeTypes, MoveTypes DEF Next, Progress

-----------------------------------------------------------------------------
(* Steps of a task that runs *)

\* The beginning of a call preserves the invariant.
LEMMA CallKeeps ==
  ASSUME IInv, NEW t \in Task, Call(t), TypeOK'
  PROVE  IInv'
<1> USE DEF IInv
<1>1. /\ pc' = [pc EXCEPT ![t] = "enter"] /\ pc[t] = "idle" /\ suspender = NoTask
      /\ UNCHANGED <<ring, locks, lists, scheduler>>
  BY DEF Call, GoTo
<1>2. PICK o \in use.does[t], n \in Wait :
        op' = [op EXCEPT ![t] = o] /\ xTicksToWait' = [xTicksToWait EXCEPT ![t] = n]
  BY DEF Call
<1>0. o \in Operation
  BY UsesAssumption DEF TypeOK
<1>3. ListsConsistent'
  BY <1>1, <1>2 DEF ListsConsistent, TypeOK, locks, lists, scheduler
<1>4. SuspenderInside'
  BY <1>1, TaskAssumption DEF SuspenderInside, Suspended, Locking, Unlocking, TypeOK, scheduler
<1>5. LocksHeld'
  BY <1>1 DEF LocksHeld, Locking, TypeOK, locks, ring
<1>6. CallsTimed'
  BY <1>0, <1>1, <1>2, TaskAssumption DEF CallsTimed, TypeOK, Operation, scheduler
<1>7. NothingMissed'
  BY <1>1, <1>2 DEF NothingMissed, TypeOK, ring, locks
<1>8. NoLostWakeup'
  <2>1. \A x \in {"send", "receive"} : WillRecheck(x) \subseteq WillRecheck(x)'
    BY <1>1, <1>2 DEF WillRecheck, TypeOK, ListsConsistent, lists
  <2> QED
    BY <1>1, <2>1, ReceiversUndisturbed, SendersUndisturbed DEF NoLostWakeup, lists, ring, locks
<1>9. RingClosed'
  BY <1>1 DEF RingClosed, Place, NextPlace, ring
<1> QED
  BY <1>3, <1>4, <1>5, <1>6, <1>7, <1>8, <1>9

\* A call that does not wait preserves the invariant when it fails.
LEMMA LeaveKeeps ==
  ASSUME IInv, NEW t \in Task, LeaveNow(t), TypeOK'
  PROVE  IInv'
<1> USE DEF IInv
<1>1. /\ pc[t] = "enter" /\ suspender = NoTask
      /\ pc' = [pc EXCEPT ![t] = "idle"] /\ op' = [op EXCEPT ![t] = "none"]
      /\ xTicksToWait' = [xTicksToWait EXCEPT ![t] = 0]
      /\ UNCHANGED <<ring, locks, lists, scheduler>>
  BY DEF TypeOK, Ready, Return, LeaveNow, AtTop
<1>3. ListsConsistent'
  BY <1>1, TaskAssumption
  DEF ListsConsistent, SuspenderInside, Suspended, Locking, Unlocking, TypeOK, locks, lists,
      scheduler, calls, queueUNLOCKED
<1>4. SuspenderInside'
  BY <1>1, TaskAssumption DEF SuspenderInside, Suspended, Locking, Unlocking, TypeOK, scheduler
<1>5. LocksHeld'
  BY <1>1, TaskAssumption
  DEF LocksHeld, SuspenderInside, Suspended, Unlocking, Locking, TypeOK, locks, ring,
      queueUNLOCKED, queueLOCKED_UNMODIFIED
<1>6. CallsTimed'
  BY <1>1, TaskAssumption DEF CallsTimed, TypeOK, calls, scheduler
<1>7. NothingMissed'
  BY <1>1, TaskAssumption
  DEF NothingMissed, SuspenderInside, Suspended, Locking, TypeOK, ring, locks, calls
<1>8. NoLostWakeup'
  <2>1. \A o \in {"send", "receive"} : WillRecheck(o) \subseteq WillRecheck(o)'
    BY <1>1, TaskAssumption
    DEF WillRecheck, TypeOK, ListsConsistent, SuspenderInside, Suspended, Locking, lists, calls
  <2> QED
    BY <1>1, <2>1, ReceiversUndisturbed, SendersUndisturbed
    DEF NoLostWakeup, lists, ring, locks, Counted, queueUNLOCKED, queueLOCKED_UNMODIFIED
<1>9. RingClosed'
  BY <1>1 DEF RingClosed, Place, NextPlace, ring
<1> QED
  BY <1>3, <1>4, <1>5, <1>6, <1>7, <1>8, <1>9

\* So does vTaskInternalSetTimeOutState,
LEMMA SetTimeOutKeeps ==
  ASSUME IInv, NEW t \in Task, SetTimeOut(t), TypeOK'
  PROVE  IInv'
<1> USE DEF IInv
<1>1. /\ pc[t] \in {"enter", "check"} /\ suspender = NoTask /\ Stuck(t) /\ op[t] # "none"
      /\ pc' = [pc EXCEPT ![t] = "suspend"]
      /\ UNCHANGED <<ring, locks, lists, scheduler, calls>>
  BY DEF SetTimeOut, AtTop, GoTo, CallsTimed
<1>3. ListsConsistent'
  BY <1>1, TaskAssumption
  DEF ListsConsistent, SuspenderInside, Suspended, Locking, Unlocking, TypeOK, locks, lists,
      scheduler, calls, queueUNLOCKED
<1>4. SuspenderInside'
  BY <1>1, TaskAssumption DEF SuspenderInside, Suspended, Locking, Unlocking, TypeOK, scheduler
<1>5. LocksHeld'
  BY <1>1, TaskAssumption
  DEF LocksHeld, SuspenderInside, Suspended, Unlocking, Locking, TypeOK, locks, ring,
      queueUNLOCKED, queueLOCKED_UNMODIFIED
<1>6. CallsTimed'
  BY <1>1, TaskAssumption DEF CallsTimed, TypeOK, calls, scheduler
<1>7. NothingMissed'
  BY <1>1, TaskAssumption
  DEF NothingMissed, SuspenderInside, Suspended, Locking, TypeOK, ring, locks, calls
<1>8. NoLostWakeup'
  <2>1. CASE op[t] = "send"
    <3>1. uxMessagesWaiting' = Length
      BY <1>1, <2>1 DEF Stuck, ring
    <3>2. WillRecheck("receive") \subseteq WillRecheck("receive")'
      BY <1>1, <2>1 DEF WillRecheck, TypeOK, lists, calls
    <3> QED
      BY <1>1, <3>1, <3>2, NothingToServe, ReceiversUndisturbed DEF NoLostWakeup, lists, ring, locks
  <2>2. CASE op[t] = "receive"
    <3>1. uxMessagesWaiting' = 0
      BY <1>1, <2>2 DEF Stuck, ring
    <3>3. 0 <= Counted(cTxLock)'
      BY DEF Counted, TypeOK, queueLOCKED_UNMODIFIED
    <3>2. WillRecheck("send") \subseteq WillRecheck("send")'
      BY <1>1, <2>2 DEF WillRecheck, TypeOK, lists, calls
    <3> QED
      BY <1>1, <3>1, <3>2, <3>3, NothingToServe, SendersUndisturbed
      DEF NoLostWakeup, lists, ring, locks
  <2> QED
    BY <1>1, <2>1, <2>2 DEF TypeOK, Operation
<1>9. RingClosed'
  BY <1>1 DEF RingClosed, Place, NextPlace, ring
<1> QED
  BY <1>3, <1>4, <1>5, <1>6, <1>7, <1>8, <1>9

\* vTaskSuspendAll,
LEMMA SuspendKeeps ==
  ASSUME IInv, NEW t \in Task, SuspendAll(t), TypeOK'
  PROVE  IInv'
<1> USE DEF IInv
<1>1. /\ pc[t] = "suspend" /\ pc' = [pc EXCEPT ![t] = "lock"]
      /\ suspender = NoTask /\ suspender' = t /\ plan = "none"
      /\ UNCHANGED <<ring, locks, lists, plan, uxPendedTicks, calls>>
  BY DEF SuspendAll, GoTo, ListsConsistent
<1>3. ListsConsistent'
  BY <1>1, TaskAssumption
  DEF ListsConsistent, SuspenderInside, Suspended, Locking, Unlocking, TypeOK, locks, lists,
      scheduler, calls, queueUNLOCKED
<1>4. SuspenderInside'
  BY <1>1, TaskAssumption DEF SuspenderInside, Suspended, Locking, Unlocking, TypeOK, scheduler
<1>5. LocksHeld'
  BY <1>1, TaskAssumption
  DEF LocksHeld, SuspenderInside, Suspended, Unlocking, Locking, TypeOK, locks, ring,
      queueUNLOCKED, queueLOCKED_UNMODIFIED
<1>6. CallsTimed'
  BY <1>1, TaskAssumption DEF CallsTimed, TypeOK, calls, scheduler
<1>7. NothingMissed'
  BY <1>1, TaskAssumption
  DEF NothingMissed, SuspenderInside, Suspended, Locking, TypeOK, ring, locks, calls
<1>8. NoLostWakeup'
  <2>1. \A o \in {"send", "receive"} : WillRecheck(o) \subseteq WillRecheck(o)'
    BY <1>1, TaskAssumption
    DEF WillRecheck, TypeOK, ListsConsistent, SuspenderInside, Suspended, Locking, lists, calls
  <2> QED
    BY <1>1, <2>1, ReceiversUndisturbed, SendersUndisturbed
    DEF NoLostWakeup, lists, ring, locks, Counted, queueUNLOCKED, queueLOCKED_UNMODIFIED
<1>9. RingClosed'
  BY <1>1 DEF RingClosed, Place, NextPlace, ring
<1> QED
  BY <1>3, <1>4, <1>5, <1>6, <1>7, <1>8, <1>9

\* prvLockQueue,
LEMMA LockKeeps ==
  ASSUME IInv, NEW t \in Task, LockQueue(t), TypeOK'
  PROVE  IInv'
<1> USE DEF IInv
<1>1. /\ pc[t] = "lock" /\ pc' = [pc EXCEPT ![t] = "time_out"]
      /\ suspender = t /\ cRxLock = queueUNLOCKED /\ cTxLock = queueUNLOCKED
      /\ cRxLock' = queueLOCKED_UNMODIFIED /\ cTxLock' = queueLOCKED_UNMODIFIED
      /\ UNCHANGED <<ring, lists, scheduler, calls>>
  BY DEF LockQueue, GoTo, SuspenderInside, Suspended, Unlocking, LocksHeld, Locking, TypeOK
<1>3. ListsConsistent'
  BY <1>1, TaskAssumption
  DEF ListsConsistent, SuspenderInside, Suspended, Locking, Unlocking, TypeOK, locks, lists,
      scheduler, calls, queueUNLOCKED
<1>4. SuspenderInside'
  BY <1>1, TaskAssumption DEF SuspenderInside, Suspended, Locking, Unlocking, TypeOK, scheduler
<1>5. LocksHeld'
  BY <1>1, TaskAssumption
  DEF LocksHeld, SuspenderInside, Suspended, Unlocking, Locking, TypeOK, locks, ring,
      queueUNLOCKED, queueLOCKED_UNMODIFIED
<1>6. CallsTimed'
  BY <1>1, TaskAssumption DEF CallsTimed, TypeOK, calls, scheduler
<1>7. NothingMissed'
  BY <1>1, TaskAssumption
  DEF NothingMissed, SuspenderInside, Suspended, Locking, TypeOK, ring, locks, calls
<1>8. NoLostWakeup'
  <2>1. \A o \in {"send", "receive"} : WillRecheck(o) \subseteq WillRecheck(o)'
    BY <1>1, TaskAssumption
    DEF WillRecheck, TypeOK, ListsConsistent, SuspenderInside, Suspended, Locking, lists, calls
  <2> QED
    BY <1>1, <2>1, ReceiversUndisturbed, SendersUndisturbed
    DEF NoLostWakeup, lists, ring, locks, Counted, queueUNLOCKED, queueLOCKED_UNMODIFIED
<1>9. RingClosed'
  BY <1>1 DEF RingClosed, Place, NextPlace, ring
<1> QED
  BY <1>3, <1>4, <1>5, <1>6, <1>7, <1>8, <1>9

\* xTaskCheckForTimeOut,
LEMMA CheckKeeps ==
  ASSUME IInv, NEW t \in Task, CheckForTimeOut(t), TypeOK'
  PROVE  IInv'
<1> USE DEF IInv
<1>1. /\ pc[t] = "time_out" /\ pc' = [pc EXCEPT ![t] = IF xTicksToWait[t] = 0 THEN "unlock_tx" ELSE "recheck"]
      /\ suspender = t /\ plan = "none"
      /\ plan' = IF xTicksToWait[t] = 0 THEN "give_up" ELSE "none"
      /\ UNCHANGED <<ring, locks, lists, suspender, uxPendedTicks, calls>>
  BY DEF CheckForTimeOut, Unlock, GoTo, SuspenderInside, Suspended, Locking, Unlocking
<1>3. ListsConsistent'
  BY <1>1, TaskAssumption
  DEF ListsConsistent, SuspenderInside, Suspended, Locking, Unlocking, TypeOK, locks, lists,
      scheduler, calls, queueUNLOCKED
<1>4. SuspenderInside'
  BY <1>1, TaskAssumption DEF SuspenderInside, Suspended, Locking, Unlocking, TypeOK, scheduler
<1>5. LocksHeld'
  BY <1>1, TaskAssumption
  DEF LocksHeld, SuspenderInside, Suspended, Unlocking, Locking, TypeOK, locks, ring,
      queueUNLOCKED, queueLOCKED_UNMODIFIED
<1>6. CallsTimed'
  BY <1>1, TaskAssumption DEF CallsTimed, TypeOK, calls, scheduler
<1>7. NothingMissed'
  BY <1>1, TaskAssumption
  DEF NothingMissed, SuspenderInside, Suspended, Locking, TypeOK, ring, locks, calls
<1>8. NoLostWakeup'
  <2>1. \A o \in {"send", "receive"} : WillRecheck(o) \subseteq WillRecheck(o)'
    BY <1>1, TaskAssumption
    DEF WillRecheck, TypeOK, ListsConsistent, SuspenderInside, Suspended, Locking, lists, calls
  <2> QED
    BY <1>1, <2>1, ReceiversUndisturbed, SendersUndisturbed
    DEF NoLostWakeup, lists, ring, locks, Counted, queueUNLOCKED, queueLOCKED_UNMODIFIED
<1>9. RingClosed'
  BY <1>1 DEF RingClosed, Place, NextPlace, ring
<1> QED
  BY <1>3, <1>4, <1>5, <1>6, <1>7, <1>8, <1>9

\* the last look at the queue,
LEMMA RecheckKeeps ==
  ASSUME IInv, NEW t \in Task, Recheck(t), TypeOK'
  PROVE  IInv'
<1> USE DEF IInv
<1>1. /\ pc[t] = "recheck" /\ pc' = [pc EXCEPT ![t] = IF Stuck(t) THEN "place" ELSE "unlock_tx"]
      /\ suspender = t /\ plan = "none" /\ op[t] \in Operation /\ 0 <= cTxLock
      /\ plan' = IF Stuck(t) THEN "none" ELSE "retry"
      /\ UNCHANGED <<ring, locks, lists, suspender, uxPendedTicks, calls>>
  BY
  DEF Recheck, Unlock, GoTo, SuspenderInside, Suspended, Locking, Unlocking, CallsTimed, LocksHeld,
      queueUNLOCKED, TypeOK
<1>3. ListsConsistent'
  BY <1>1, TaskAssumption
  DEF ListsConsistent, SuspenderInside, Suspended, Locking, Unlocking, TypeOK, locks, lists,
      scheduler, calls, queueUNLOCKED, Stuck, Operation
<1>4. SuspenderInside'
  BY <1>1, TaskAssumption
  DEF SuspenderInside, Suspended, Locking, Unlocking, TypeOK, scheduler, Stuck, Operation
<1>5. LocksHeld'
  BY <1>1, TaskAssumption
  DEF LocksHeld, SuspenderInside, Suspended, Unlocking, Locking, TypeOK, locks, ring,
      queueUNLOCKED, queueLOCKED_UNMODIFIED, Stuck, Operation
<1>6. CallsTimed'
  BY <1>1, TaskAssumption DEF CallsTimed, TypeOK, calls, scheduler, Stuck, Operation
<1>7. NothingMissed'
  BY <1>1, TaskAssumption
  DEF NothingMissed, SuspenderInside, Suspended, Locking, TypeOK, ring, locks, calls, Stuck,
      Operation
<1>8. NoLostWakeup'
  <2>1. \A o \in {"send", "receive"} : WillRecheck(o) \subseteq WillRecheck(o)'
    BY <1>1, TaskAssumption
    DEF WillRecheck, TypeOK, ListsConsistent, SuspenderInside, Suspended, Locking, lists, calls
  <2> QED
    BY <1>1, <2>1, ReceiversUndisturbed, SendersUndisturbed
    DEF NoLostWakeup, lists, ring, locks, Counted, queueUNLOCKED, queueLOCKED_UNMODIFIED
<1>9. RingClosed'
  BY <1>1 DEF RingClosed, Place, NextPlace, ring
<1> QED
  BY <1>3, <1>4, <1>5, <1>6, <1>7, <1>8, <1>9

\* vTaskPlaceOnEventList, after that look and with the queue locked,
LEMMA PlaceKeeps ==
  ASSUME IInv, NEW t \in Task, PlaceOnEventList(t), TypeOK'
  PROVE  IInv'
<1> USE DEF IInv
<1>1. /\ pc[t] = "place" /\ pc' = [pc EXCEPT ![t] = "unlock_tx"]
      /\ suspender = t /\ plan = "none" /\ plan' = "block" /\ op[t] \in Operation
      /\ xTasksWaitingToSend' = xTasksWaitingToSend \cup {u \in {t} : op[u] = "send"}
      /\ xTasksWaitingToReceive' = xTasksWaitingToReceive \cup {u \in {t} : op[u] = "receive"}
      /\ UNCHANGED <<ring, locks, xPendingReadyList, suspender, uxPendedTicks, calls>>
  BY
  DEF PlaceOnEventList, Unlock, GoTo, SuspenderInside, Suspended, Locking, Unlocking, CallsTimed,
      TypeOK, Operation
<1>3. ListsConsistent'
  BY <1>1, TaskAssumption
  DEF ListsConsistent, SuspenderInside, Suspended, Locking, Unlocking, TypeOK, locks, lists,
      scheduler, calls, queueUNLOCKED, Operation
<1>4. SuspenderInside'
  BY <1>1, TaskAssumption
  DEF SuspenderInside, Suspended, Locking, Unlocking, TypeOK, scheduler, Operation
<1>5. LocksHeld'
  BY <1>1, TaskAssumption
  DEF LocksHeld, SuspenderInside, Suspended, Unlocking, Locking, TypeOK, locks, ring,
      queueUNLOCKED, queueLOCKED_UNMODIFIED, Operation
<1>6. CallsTimed'
  BY <1>1, TaskAssumption DEF CallsTimed, TypeOK, calls, scheduler, Operation
<1>7. NothingMissed'
  BY <1>1, TaskAssumption
  DEF NothingMissed, SuspenderInside, Suspended, Locking, TypeOK, ring, locks, calls, Operation
<1>8. NoLostWakeup'
  <2>1. CASE op[t] = "send"
    <3>1. uxMessagesWaiting' = Length
      BY <1>1, <2>1 DEF NothingMissed, ring
    <3>2. WillRecheck("receive") \subseteq WillRecheck("receive")'
      BY <1>1, <2>1 DEF WillRecheck, TypeOK, calls
    <3>3. xTasksWaitingToReceive' = xTasksWaitingToReceive
      BY <1>1, <2>1
    <3> QED
      BY <1>1, <3>1, <3>2, <3>3, NothingToServe, ReceiversUndisturbed DEF NoLostWakeup, ring, locks
  <2>2. CASE op[t] = "receive"
    <3>1. uxMessagesWaiting' <= cTxLock'
      BY <1>1, <2>2 DEF NothingMissed, ring, locks
    <3>2. uxMessagesWaiting' <= Counted(cTxLock)'
      BY <3>1 DEF Counted, TypeOK, queueLOCKED_UNMODIFIED
    <3>3. WillRecheck("send") \subseteq WillRecheck("send")'
      BY <1>1, <2>2 DEF WillRecheck, TypeOK, calls
    <3>4. xTasksWaitingToSend' = xTasksWaitingToSend
      BY <1>1, <2>2
    <3> QED
      BY <1>1, <3>2, <3>3, <3>4, NothingToServe, SendersUndisturbed DEF NoLostWakeup, ring, locks
  <2> QED
    BY <1>1, <2>1, <2>2 DEF Operation
<1>9. RingClosed'
  BY <1>1 DEF RingClosed, Place, NextPlace, ring
<1> QED
  BY <1>3, <1>4, <1>5, <1>6, <1>7, <1>8, <1>9

\* prvUnlockQueue, which makes up for the sends of interrupts,
LEMMA UnlockTxKeeps ==
  ASSUME IInv, NEW t \in Task, UnlockTx(t), TypeOK'
  PROVE  IInv'
<1> USE DEF IInv
<1>1. PICK W \in Woken(xTasksWaitingToReceive, Counted(cTxLock)) :
        /\ xTasksWaitingToReceive' = xTasksWaitingToReceive \ W
        /\ xPendingReadyList' = xPendingReadyList \cup W
  BY DEF UnlockTx
<1>2. /\ pc[t] = "unlock_tx" /\ pc' = [pc EXCEPT ![t] = "unlock_rx"]
      /\ suspender = t /\ plan # "none" /\ cTxLock' = queueUNLOCKED
      /\ UNCHANGED <<ring, cRxLock, xTasksWaitingToSend, scheduler, calls>>
  BY DEF UnlockTx, GoTo, SuspenderInside, Suspended, Locking, Unlocking
<1>0. Counted(cTxLock) \in Nat /\ W \subseteq xTasksWaitingToReceive /\ W \in SUBSET Task
  BY DEF Counted, Woken, TypeOK, queueLOCKED_UNMODIFIED
<1>3. ListsConsistent'
  BY <1>0, <1>1, <1>2, TaskAssumption
  DEF ListsConsistent, SuspenderInside, Suspended, Locking, Unlocking, TypeOK, locks, lists,
      scheduler, calls, queueUNLOCKED
<1>4. SuspenderInside'
  BY <1>0, <1>1, <1>2, TaskAssumption
  DEF SuspenderInside, Suspended, Locking, Unlocking, TypeOK, scheduler
<1>5. LocksHeld'
  BY <1>0, <1>1, <1>2, TaskAssumption
  DEF LocksHeld, SuspenderInside, Suspended, Unlocking, Locking, TypeOK, locks, ring,
      queueUNLOCKED, queueLOCKED_UNMODIFIED
<1>6. CallsTimed'
  BY <1>0, <1>1, <1>2, TaskAssumption DEF CallsTimed, TypeOK, calls, scheduler
<1>7. NothingMissed'
  BY <1>0, <1>1, <1>2, TaskAssumption
  DEF NothingMissed, SuspenderInside, Suspended, Locking, TypeOK, ring, locks, calls
<1>8. NoLostWakeup'
  <2>1. WillRecheck("receive") \subseteq WillRecheck("receive")' /\ W \subseteq WillRecheck("receive")'
    BY <1>0, <1>1, <1>2 DEF WillRecheck, TypeOK, ListsConsistent, scheduler, calls
  <2>2. WillRecheck("receive") \cap W = {}
    BY <1>0, <1>2 DEF WillRecheck, ListsConsistent
  <2>3. Cardinality(WillRecheck("receive")) + Cardinality(W) <= Cardinality(WillRecheck("receive")')
    BY <1>0, <2>1, <2>2, Joined, RecheckersAreTasks
  <2>4. /\ Cardinality(WillRecheck("receive")) \in Nat /\ Cardinality(WillRecheck("receive")') \in Nat
        /\ Cardinality(W) \in Nat
    BY <1>0, Finite, RecheckersAreTasks
  <2>5. xTasksWaitingToReceive' # {} => xTasksWaitingToReceive # {} /\ Cardinality(W) = Counted(cTxLock)
    BY <1>0, <1>1, WokenAll DEF TypeOK
  <2>6. Counted(cTxLock)' = 0
    BY <1>2 DEF Counted, queueUNLOCKED, queueLOCKED_UNMODIFIED
  <2>7. ReceiversServed'
    BY <1>0, <1>2, <2>3, <2>4, <2>5, <2>6, LengthAssumption
    DEF NoLostWakeup, ReceiversServed, TypeOK, ring
  <2>8. WillRecheck("send") \subseteq WillRecheck("send")'
    BY <1>1, <1>2 DEF WillRecheck, TypeOK, calls
  <2> QED
    BY <1>2, <2>7, <2>8, SendersUndisturbed DEF NoLostWakeup, ring
<1>9. RingClosed'
  BY <1>2 DEF RingClosed, Place, NextPlace, ring
<1> QED
  BY <1>3, <1>4, <1>5, <1>6, <1>7, <1>8, <1>9

\* and for their receives,
LEMMA UnlockRxKeeps ==
  ASSUME IInv, NEW t \in Task, UnlockRx(t), TypeOK'
  PROVE  IInv'
<1> USE DEF IInv
<1>1. PICK W \in Woken(xTasksWaitingToSend, Counted(cRxLock)) :
        /\ xTasksWaitingToSend' = xTasksWaitingToSend \ W
        /\ xPendingReadyList' = xPendingReadyList \cup W
  BY DEF UnlockRx
<1>2. /\ pc[t] = "unlock_rx" /\ pc' = [pc EXCEPT ![t] = "resume"]
      /\ suspender = t /\ plan # "none" /\ cRxLock' = queueUNLOCKED
      /\ UNCHANGED <<ring, cTxLock, xTasksWaitingToReceive, scheduler, calls>>
  BY DEF UnlockRx, GoTo, SuspenderInside, Suspended, Locking, Unlocking
<1>0. Counted(cRxLock) \in Nat /\ W \subseteq xTasksWaitingToSend /\ W \in SUBSET Task
  BY DEF Counted, Woken, TypeOK, queueLOCKED_UNMODIFIED
<1>3. ListsConsistent'
  BY <1>0, <1>1, <1>2, TaskAssumption
  DEF ListsConsistent, SuspenderInside, Suspended, Locking, Unlocking, TypeOK, locks, lists,
      scheduler, calls, queueUNLOCKED
<1>4. SuspenderInside'
  BY <1>0, <1>1, <1>2, TaskAssumption
  DEF SuspenderInside, Suspended, Locking, Unlocking, TypeOK, scheduler
<1>5. LocksHeld'
  BY <1>0, <1>1, <1>2, TaskAssumption
  DEF LocksHeld, SuspenderInside, Suspended, Unlocking, Locking, TypeOK, locks, ring,
      queueUNLOCKED, queueLOCKED_UNMODIFIED
<1>6. CallsTimed'
  BY <1>0, <1>1, <1>2, TaskAssumption DEF CallsTimed, TypeOK, calls, scheduler
<1>7. NothingMissed'
  BY <1>0, <1>1, <1>2, TaskAssumption
  DEF NothingMissed, SuspenderInside, Suspended, Locking, TypeOK, ring, locks, calls
<1>8. NoLostWakeup'
  <2>1. WillRecheck("send") \subseteq WillRecheck("send")' /\ W \subseteq WillRecheck("send")'
    BY <1>0, <1>1, <1>2 DEF WillRecheck, TypeOK, ListsConsistent, scheduler, calls
  <2>2. WillRecheck("send") \cap W = {}
    BY <1>0, <1>2 DEF WillRecheck, ListsConsistent
  <2>3. Cardinality(WillRecheck("send")) + Cardinality(W) <= Cardinality(WillRecheck("send")')
    BY <1>0, <2>1, <2>2, Joined, RecheckersAreTasks
  <2>4. /\ Cardinality(WillRecheck("send")) \in Nat /\ Cardinality(WillRecheck("send")') \in Nat
        /\ Cardinality(W) \in Nat
    BY <1>0, Finite, RecheckersAreTasks
  <2>5. xTasksWaitingToSend' # {} => xTasksWaitingToSend # {} /\ Cardinality(W) = Counted(cRxLock)
    BY <1>0, <1>1, WokenAll DEF TypeOK
  <2>6. Counted(cRxLock)' = 0
    BY <1>2 DEF Counted, queueUNLOCKED, queueLOCKED_UNMODIFIED
  <2>7. SendersServed'
    BY <1>0, <1>2, <2>3, <2>4, <2>5, <2>6, LengthAssumption
    DEF NoLostWakeup, SendersServed, TypeOK, ring
  <2>8. WillRecheck("receive") \subseteq WillRecheck("receive")'
    BY <1>1, <1>2 DEF WillRecheck, TypeOK, calls
  <2> QED
    BY <1>2, <2>7, <2>8, ReceiversUndisturbed DEF NoLostWakeup, ring
<1>9. RingClosed'
  BY <1>2 DEF RingClosed, Place, NextPlace, ring
<1> QED
  BY <1>3, <1>4, <1>5, <1>6, <1>7, <1>8, <1>9

\* the return of a call whose time is over,
LEMMA GiveUpKeeps ==
  ASSUME IInv, NEW t \in Task, GiveUp(t), TypeOK'
  PROVE  IInv'
<1> USE DEF IInv
<1>1. /\ pc[t] = "last_look" /\ suspender = NoTask /\ op[t] # "none" /\ xTicksToWait[t] = 0
      /\ UNCHANGED <<ring, locks, lists, scheduler>>
      /\ \/ /\ pc' = [pc EXCEPT ![t] = "idle"] /\ op' = [op EXCEPT ![t] = "none"]
            /\ xTicksToWait' = [xTicksToWait EXCEPT ![t] = 0]
         \/ /\ pc' = [pc EXCEPT ![t] = "enter"]
            /\ UNCHANGED calls
  BY DEF GiveUp, GoTo, Return, Ready, CallsTimed, TypeOK
<1>3. ListsConsistent'
  BY <1>1, TaskAssumption
  DEF ListsConsistent, SuspenderInside, Suspended, Locking, Unlocking, TypeOK, locks, lists,
      scheduler, calls, queueUNLOCKED
<1>4. SuspenderInside'
  BY <1>1, TaskAssumption DEF SuspenderInside, Suspended, Locking, Unlocking, TypeOK, scheduler
<1>5. LocksHeld'
  BY <1>1, TaskAssumption
  DEF LocksHeld, SuspenderInside, Suspended, Unlocking, Locking, TypeOK, locks, ring,
      queueUNLOCKED, queueLOCKED_UNMODIFIED
<1>6. CallsTimed'
  BY <1>1, TaskAssumption DEF CallsTimed, TypeOK, calls, scheduler
<1>7. NothingMissed'
  BY <1>1, TaskAssumption
  DEF NothingMissed, SuspenderInside, Suspended, Locking, TypeOK, ring, locks, calls
<1>8. NoLostWakeup'
  <2>1. \A o \in {"send", "receive"} : WillRecheck(o) \subseteq WillRecheck(o)'
    BY <1>1, TaskAssumption
    DEF WillRecheck, TypeOK, ListsConsistent, SuspenderInside, Suspended, Locking, lists, calls
  <2> QED
    BY <1>1, <2>1, ReceiversUndisturbed, SendersUndisturbed
    DEF NoLostWakeup, lists, ring, locks, Counted, queueUNLOCKED, queueLOCKED_UNMODIFIED
<1>9. RingClosed'
  BY <1>1 DEF RingClosed, Place, NextPlace, ring
<1> QED
  BY <1>3, <1>4, <1>5, <1>6, <1>7, <1>8, <1>9

-----------------------------------------------------------------------------
(* Time *)

\* What the expiry of time-outs leaves of the invariant.
LEMMA TickKeeps ==
  ASSUME IInv, Tick, TypeOK'
  PROVE  IInv'
<1> USE DEF IInv
<1>1. UNCHANGED <<ring, locks, xPendingReadyList, suspender, plan, op>>
  BY DEF Tick
<1>2. CASE suspender = NoTask
  <2> DEFINE Expired == {u \in Task : pc[u] = "blocked" /\ Left(1)[u] = 0}
  <2>1. /\ xTicksToWait' = Left(1) /\ uxPendedTicks' = uxPendedTicks
        /\ xTasksWaitingToSend' = xTasksWaitingToSend \ Expired
        /\ xTasksWaitingToReceive' = xTasksWaitingToReceive \ Expired
        /\ pc' = Ready(Expired, pc)
    BY <1>2 DEF Tick, IncrementTick
  <2>0. Expired \in SUBSET Task /\ \A u \in Expired : pc[u] = "blocked"
    OBVIOUS
  <2>3. \A u \in Task : xTicksToWait[u] = 0 => xTicksToWait'[u] = 0
    BY <2>1, LeftType
  <2> HIDE DEF Expired
  <2>2. /\ Expired \in SUBSET Task /\ \A u \in Expired : pc[u] = "blocked"
        /\ \A u \in Task : pc'[u] = IF u \in Expired THEN "check" ELSE pc[u]
    <3>1. pc \in [Task -> Point]
      BY DEF TypeOK
    <3> QED
      BY <2>0, <2>1, <3>1, ReadyAt
  <2>4. ListsConsistent'
    BY <1>1, <1>2, <2>1, <2>2, TaskAssumption DEF ListsConsistent, TypeOK, locks
  <2>5. SuspenderInside'
    BY <1>1, <1>2, <2>2, TaskAssumption DEF SuspenderInside, Suspended, Locking, Unlocking
  <2>6. LocksHeld'
    BY <1>1, <2>2 DEF LocksHeld, Locking, locks, ring
  <2>7. CallsTimed'
    BY <1>1, <1>2, <2>2, <2>3, TaskAssumption DEF CallsTimed
  <2>8. NothingMissed'
    BY <1>1, <2>2 DEF NothingMissed, ring, locks
  <2>9. \A o \in {"send", "receive"} : WillRecheck(o) \subseteq WillRecheck(o)'
    BY <1>1, <2>2 DEF WillRecheck
  <2>10. NoLostWakeup'
    BY <1>1, <2>1, <2>9, ReceiversUndisturbed, SendersUndisturbed DEF NoLostWakeup, ring, locks
  <2>11. RingClosed'
    BY <1>1 DEF RingClosed, Place, NextPlace, ring
  <2> QED
    BY <2>4, <2>5, <2>6, <2>7, <2>8, <2>10, <2>11
<1>3. CASE suspender # NoTask
  <2>1. UNCHANGED <<pc, xTicksToWait, xTasksWaitingToSend, xTasksWaitingToReceive>>
    BY <1>3 DEF Tick
  <2>2. ListsConsistent' /\ SuspenderInside' /\ LocksHeld' /\ CallsTimed' /\ NothingMissed'
    BY <1>1, <1>3, <2>1
    DEF ListsConsistent, SuspenderInside, LocksHeld, CallsTimed, NothingMissed, ring, locks
  <2>3. WillRecheck("send") = WillRecheck("send")' /\ WillRecheck("receive") = WillRecheck("receive")'
    BY <1>1, <2>1 DEF WillRecheck
  <2>4. NoLostWakeup'
    BY <1>1, <2>1, <2>3, ReceiversUndisturbed, SendersUndisturbed DEF NoLostWakeup, ring, locks
  <2>5. RingClosed'
    BY <1>1 DEF RingClosed, Place, NextPlace, ring
  <2> QED
    BY <2>2, <2>4, <2>5
<1> QED
  BY <1>2, <1>3

\* and xTaskResumeAll.
LEMMA ResumeKeeps ==
  ASSUME IInv, NEW t \in Task, ResumeAll(t), TypeOK'
  PROVE  IInv'
<1> USE DEF IInv
<1> DEFINE at == [pc EXCEPT ![t] = Branch]
           where == Ready(xPendingReadyList, at)
           Expired == {u \in Task : where[u] = "blocked" /\ Left(uxPendedTicks)[u] = 0}
<1>1. /\ pc[t] = "resume" /\ suspender = t /\ plan # "none"
      /\ xPendingReadyList' = {} /\ uxPendedTicks' = 0
      /\ suspender' = NoTask /\ plan' = "none" /\ UNCHANGED <<ring, locks, op>>
  BY DEF ResumeAll, SuspenderInside, Suspended, Unlocking
<1>2. /\ xTicksToWait' = Left(uxPendedTicks)
      /\ xTasksWaitingToSend' = xTasksWaitingToSend \ Expired
      /\ xTasksWaitingToReceive' = xTasksWaitingToReceive \ Expired
      /\ pc' = Ready(Expired, where)
  BY DEF ResumeAll, IncrementTick
<1>3. /\ at \in [Task -> Point]
      /\ \A u \in Task : at[u] = IF u = t THEN Branch ELSE pc[u]
  BY DEF TypeOK, Branch, Point
<1>4. /\ where \in [Task -> Point]
      /\ \A u \in Task : where[u] = IF u \in xPendingReadyList THEN "check" ELSE at[u]
  <2> HIDE DEF at
  <2>1. xPendingReadyList \in SUBSET Task
    BY DEF TypeOK
  <2> QED
    BY <1>3, <2>1, ReadyAt
<1>5. \A u \in Task : pc'[u] = IF u \in Expired THEN "check" ELSE where[u]
  <2> HIDE DEF where
  <2> QED
    BY <1>2, <1>4, ReadyAt
<1>6. \A u \in Task : xTicksToWait[u] = 0 => xTicksToWait'[u] = 0
  <2>1. uxPendedTicks \in Nat
    BY BoundAssumption DEF TypeOK
  <2> QED
    BY <1>2, <2>1, LeftType
\* Where everybody is after the step.
<1>7. \A u \in Task :
        pc'[u] = IF u \in Expired \/ u \in xPendingReadyList THEN "check"
                 ELSE IF u = t THEN Branch ELSE pc[u]
  BY <1>3, <1>4, <1>5
<1>8. \A u \in Expired : /\ u \in Task /\ u \notin xPendingReadyList
                         /\ pc[u] = "blocked" \/ (u = t /\ plan = "block")
  BY <1>1, <1>3, <1>4 DEF Branch, TypeOK
<1> HIDE DEF at, where, Expired
<1>9. \A u \in Task : u # t => pc[u] \notin Suspended
  BY <1>1 DEF SuspenderInside
<1>10. Branch = IF plan = "block" THEN "blocked" ELSE IF plan = "retry" THEN "check" ELSE "last_look"
  BY DEF Branch
<1>11. cTxLock = queueUNLOCKED /\ cRxLock = queueUNLOCKED
  BY <1>1, <1>9 DEF LocksHeld, Suspended, Locking, Unlocking
<1>12. ListsConsistent'
  BY <1>1, <1>2, <1>7, <1>8, <1>10, <1>11, TaskAssumption DEF ListsConsistent, TypeOK, locks
<1>13. SuspenderInside'
  BY <1>1, <1>7, <1>9, <1>10, TaskAssumption DEF SuspenderInside, Suspended, Locking, Unlocking
<1>14. LocksHeld'
  BY <1>1, <1>7, <1>9, <1>10, <1>11 DEF LocksHeld, Suspended, Locking, Unlocking, ring, locks
<1>15. CallsTimed'
  <2>1. \A u \in Task : pc'[u] = "idle" <=> pc[u] = "idle"
    BY <1>1, <1>7, <1>8, <1>10 DEF ListsConsistent, TypeOK
  <2>2. \A u \in Task : pc'[u] = "last_look" => xTicksToWait[u] = 0
    BY <1>1, <1>7, <1>10 DEF CallsTimed, TypeOK
  <2> QED
    BY <1>1, <1>6, <2>1, <2>2, TaskAssumption DEF CallsTimed
<1>16. NothingMissed'
  BY <1>1, <1>7, <1>10 DEF NothingMissed, ring, locks
<1>17. \A o \in {"send", "receive"} : WillRecheck(o) \subseteq WillRecheck(o)'
  BY <1>1, <1>7 DEF WillRecheck, TypeOK
<1>18. NoLostWakeup'
  BY <1>1, <1>2, <1>17, ReceiversUndisturbed, SendersUndisturbed DEF NoLostWakeup, ring, locks
<1>19. RingClosed'
  BY <1>1 DEF RingClosed, Place, NextPlace, ring
<1> QED
  BY <1>12, <1>13, <1>14, <1>15, <1>16, <1>18, <1>19

-----------------------------------------------------------------------------
(* The ring buffer *)

\* The place after a place.
LEMMA PlaceNext ==
  ASSUME TypeOK
  PROVE  \A k \in 0..Length - 1 : Place(k) \in 0..Length - 1 /\ Place(k + 1) = NextPlace(Place(k))
BY LengthAssumption DEF TypeOK, Place, NextPlace

\* An item more closes the ring one place further.
LEMMA RingFilled ==
  ASSUME TypeOK, RingClosed, NEW v, uxMessagesWaiting < Length, CopyDataToQueue(v)
  PROVE  RingClosed'
<1>1. pcWriteTo' = NextPlace(NextPlace(Place(uxMessagesWaiting)))
  BY DEF RingClosed, CopyDataToQueue
<1>2. Place(uxMessagesWaiting + 1) = NextPlace(Place(uxMessagesWaiting))
  BY PlaceNext, LengthAssumption DEF TypeOK
<1>3. Place(uxMessagesWaiting)' = Place(uxMessagesWaiting + 1)
  BY DEF CopyDataToQueue, Place
<1> QED
  BY <1>1, <1>2, <1>3 DEF RingClosed, NextPlace

\* An item less opens it one place further.
LEMMA RingEmptied ==
  ASSUME TypeOK, RingClosed, uxMessagesWaiting > 0, CopyDataFromQueue
  PROVE  RingClosed'
<1>1. Place(uxMessagesWaiting)' = Place(uxMessagesWaiting)
  BY LengthAssumption DEF TypeOK, CopyDataFromQueue, Place, NextPlace
<1> QED
  BY <1>1 DEF RingClosed, NextPlace, CopyDataFromQueue

-----------------------------------------------------------------------------
(* Steps that move an item *)

\* A send preserves the invariant: it wakes a receiver for the item that it brings.
LEMMA SendKeeps ==
  ASSUME IInv, NEW t \in Task, Send(t), TypeOK'
  PROVE  IInv'
<1> USE DEF IInv
<1>1. /\ pc[t] \in {"enter", "check"} /\ suspender = NoTask /\ op[t] = "send" /\ uxMessagesWaiting < Length
      /\ UNCHANGED <<locks, xTasksWaitingToSend, xPendingReadyList, scheduler>>
  BY DEF Send, AtTop
<1>2. PICK v \in use.items, W \in Woken(xTasksWaitingToReceive, 1) :
        /\ CopyDataToQueue(v)
        /\ xTasksWaitingToReceive' = xTasksWaitingToReceive \ W
        /\ Return(t, W)
  BY DEF Send
<1>3. /\ W \in SUBSET Task /\ W \subseteq xTasksWaitingToReceive
      /\ xTasksWaitingToReceive \ W # {} => Cardinality(W) = 1
  BY WokenAll DEF Woken, TypeOK
<1>4. /\ \A u \in Task : pc'[u] = IF u \in W THEN "check" ELSE IF u = t THEN "idle" ELSE pc[u]
      /\ op' = [op EXCEPT ![t] = "none"] /\ xTicksToWait' = [xTicksToWait EXCEPT ![t] = 0]
  BY <1>2 DEF Return, Ready, TypeOK
<1>5. \A u \in W : u # t /\ op[u] = "receive" /\ pc[u] = "blocked" /\ op'[u] = "receive"
  BY <1>1, <1>3, <1>4, TaskAssumption DEF ListsConsistent, TypeOK
<1>6. uxMessagesWaiting' = uxMessagesWaiting + 1
  BY <1>2 DEF CopyDataToQueue
<1>7. ListsConsistent'
  BY <1>1, <1>2, <1>3, <1>4, <1>5, TaskAssumption DEF ListsConsistent, TypeOK, locks, scheduler
<1>8. SuspenderInside'
  BY <1>1, <1>4, <1>5, TaskAssumption DEF SuspenderInside, Suspended, Locking, Unlocking, scheduler
<1>9. LocksHeld'
  <2>1. \A u \in Task : pc[u] \notin Suspended /\ pc'[u] \notin Suspended
    BY <1>1, <1>4, <1>5, TaskAssumption DEF SuspenderInside, Suspended, Locking, Unlocking
  <2> QED
    BY <1>1, <1>6, <2>1, LengthAssumption
    DEF LocksHeld, Suspended, Locking, Unlocking, TypeOK, locks, queueUNLOCKED, queueLOCKED_UNMODIFIED
<1>10. CallsTimed'
  BY <1>1, <1>4, <1>5, TaskAssumption DEF CallsTimed, TypeOK, scheduler
<1>11. NothingMissed'
  BY <1>1, <1>4, <1>5, TaskAssumption DEF NothingMissed, SuspenderInside, Suspended, Locking
<1>12. NoLostWakeup'
  <2>1. Counted(cTxLock)' = 0 /\ Counted(cTxLock) = 0 /\ Counted(cRxLock)' = 0 /\ Counted(cRxLock) = 0
    BY <1>1 DEF ListsConsistent, Counted, locks, queueUNLOCKED, queueLOCKED_UNMODIFIED
  <2>2. WillRecheck("receive") \subseteq WillRecheck("receive")' /\ W \subseteq WillRecheck("receive")'
    BY <1>1, <1>3, <1>4, <1>5 DEF WillRecheck, TypeOK, ListsConsistent
  <2>3. WillRecheck("receive") \cap W = {}
    BY <1>1, <1>5 DEF WillRecheck, ListsConsistent
  <2>4. Cardinality(WillRecheck("receive")) + Cardinality(W) <= Cardinality(WillRecheck("receive")')
    BY <1>3, <2>2, <2>3, Joined, RecheckersAreTasks
  <2>5. WillRecheck("send") \ {t} \subseteq WillRecheck("send")'
    BY <1>1, <1>4, <1>5 DEF WillRecheck, TypeOK, ListsConsistent
  <2>6. Cardinality(WillRecheck("send")) - 1 <= Cardinality(WillRecheck("send")')
    BY <2>5, OneLess, RecheckersAreTasks
  <2>7. /\ Cardinality(WillRecheck("receive")) \in Nat /\ Cardinality(WillRecheck("receive")') \in Nat
        /\ Cardinality(WillRecheck("send")) \in Nat /\ Cardinality(WillRecheck("send")') \in Nat
        /\ Cardinality(W) \in Nat
    BY <1>3, Finite, RecheckersAreTasks
  <2>8. ReceiversServed'
    BY <1>2, <1>3, <1>6, <2>1, <2>4, <2>7, LengthAssumption
    DEF NoLostWakeup, ReceiversServed, TypeOK
  <2>9. SendersServed'
    BY <1>1, <1>6, <2>1, <2>6, <2>7, LengthAssumption DEF NoLostWakeup, SendersServed, TypeOK
  <2> QED
    BY <2>8, <2>9 DEF NoLostWakeup
<1>13. RingClosed'
  BY <1>1, <1>2, RingFilled
<1> QED
  BY <1>7, <1>8, <1>9, <1>10, <1>11, <1>12, <1>13

\* A receive preserves the invariant: it wakes a sender for the room that it leaves.
LEMMA ReceiveKeeps ==
  ASSUME IInv, NEW t \in Task, Receive(t), TypeOK'
  PROVE  IInv'
<1> USE DEF IInv
<1>1. /\ pc[t] \in {"enter", "check"} /\ suspender = NoTask /\ op[t] = "receive" /\ uxMessagesWaiting > 0
      /\ UNCHANGED <<locks, xTasksWaitingToReceive, xPendingReadyList, scheduler>>
  BY DEF Receive, AtTop
<1>2. PICK W \in Woken(xTasksWaitingToSend, 1) :
        /\ CopyDataFromQueue
        /\ xTasksWaitingToSend' = xTasksWaitingToSend \ W
        /\ Return(t, W)
  BY DEF Receive
<1>3. /\ W \in SUBSET Task /\ W \subseteq xTasksWaitingToSend
      /\ xTasksWaitingToSend \ W # {} => Cardinality(W) = 1
  BY WokenAll DEF Woken, TypeOK
<1>4. /\ \A u \in Task : pc'[u] = IF u \in W THEN "check" ELSE IF u = t THEN "idle" ELSE pc[u]
      /\ op' = [op EXCEPT ![t] = "none"] /\ xTicksToWait' = [xTicksToWait EXCEPT ![t] = 0]
  BY <1>2 DEF Return, Ready, TypeOK
<1>5. \A u \in W : u # t /\ op[u] = "send" /\ pc[u] = "blocked" /\ op'[u] = "send"
  BY <1>1, <1>3, <1>4, TaskAssumption DEF ListsConsistent, TypeOK
<1>6. uxMessagesWaiting' = uxMessagesWaiting - 1
  BY <1>2 DEF CopyDataFromQueue
<1>7. ListsConsistent'
  BY <1>1, <1>2, <1>3, <1>4, <1>5, TaskAssumption DEF ListsConsistent, TypeOK, locks, scheduler
<1>8. SuspenderInside'
  BY <1>1, <1>4, <1>5, TaskAssumption DEF SuspenderInside, Suspended, Locking, Unlocking, scheduler
<1>9. LocksHeld'
  <2>1. \A u \in Task : pc[u] \notin Suspended /\ pc'[u] \notin Suspended
    BY <1>1, <1>4, <1>5, TaskAssumption DEF SuspenderInside, Suspended, Locking, Unlocking
  <2> QED
    BY <1>1, <1>6, <2>1, LengthAssumption
    DEF LocksHeld, Suspended, Locking, Unlocking, TypeOK, locks, queueUNLOCKED, queueLOCKED_UNMODIFIED
<1>10. CallsTimed'
  BY <1>1, <1>4, <1>5, TaskAssumption DEF CallsTimed, TypeOK, scheduler
<1>11. NothingMissed'
  BY <1>1, <1>4, <1>5, TaskAssumption DEF NothingMissed, SuspenderInside, Suspended, Locking
<1>12. NoLostWakeup'
  <2>1. Counted(cTxLock)' = 0 /\ Counted(cTxLock) = 0 /\ Counted(cRxLock)' = 0 /\ Counted(cRxLock) = 0
    BY <1>1 DEF ListsConsistent, Counted, locks, queueUNLOCKED, queueLOCKED_UNMODIFIED
  <2>2. WillRecheck("send") \subseteq WillRecheck("send")' /\ W \subseteq WillRecheck("send")'
    BY <1>1, <1>3, <1>4, <1>5 DEF WillRecheck, TypeOK, ListsConsistent
  <2>3. WillRecheck("send") \cap W = {}
    BY <1>1, <1>5 DEF WillRecheck, ListsConsistent
  <2>4. Cardinality(WillRecheck("send")) + Cardinality(W) <= Cardinality(WillRecheck("send")')
    BY <1>3, <2>2, <2>3, Joined, RecheckersAreTasks
  <2>5. WillRecheck("receive") \ {t} \subseteq WillRecheck("receive")'
    BY <1>1, <1>4, <1>5 DEF WillRecheck, TypeOK, ListsConsistent
  <2>6. Cardinality(WillRecheck("receive")) - 1 <= Cardinality(WillRecheck("receive")')
    BY <2>5, OneLess, RecheckersAreTasks
  <2>7. /\ Cardinality(WillRecheck("send")) \in Nat /\ Cardinality(WillRecheck("send")') \in Nat
        /\ Cardinality(WillRecheck("receive")) \in Nat /\ Cardinality(WillRecheck("receive")') \in Nat
        /\ Cardinality(W) \in Nat
    BY <1>3, Finite, RecheckersAreTasks
  <2>8. SendersServed'
    BY <1>2, <1>3, <1>6, <2>1, <2>4, <2>7, LengthAssumption DEF NoLostWakeup, SendersServed, TypeOK
  <2>9. ReceiversServed'
    BY <1>1, <1>6, <2>1, <2>6, <2>7, LengthAssumption DEF NoLostWakeup, ReceiversServed, TypeOK
  <2> QED
    BY <2>8, <2>9 DEF NoLostWakeup
<1>13. RingClosed'
  BY <1>1, <1>2, RingEmptied
<1> QED
  BY <1>7, <1>8, <1>9, <1>10, <1>11, <1>12, <1>13

\* A send from an interrupt preserves the invariant, be the queue locked or not.
LEMMA SendFromISRKeeps ==
  ASSUME IInv, SendFromISR, TypeOK'
  PROVE  IInv'
<1> USE DEF IInv
<1>1. /\ uxMessagesWaiting < Length
      /\ UNCHANGED <<cRxLock, xTasksWaitingToSend, scheduler, calls>>
  BY DEF SendFromISR
<1>2. PICK v \in use.items : CopyDataToQueue(v)
  BY DEF SendFromISR
<1>3. uxMessagesWaiting' = uxMessagesWaiting + 1
  BY <1>2 DEF CopyDataToQueue
<1>4. RingClosed'
  BY <1>1, <1>2, RingFilled
<1>5. \A o \in {"send", "receive"} :
        Cardinality(WillRecheck(o)) \in Nat /\ Cardinality(WillRecheck(o)') \in Nat
  BY Finite, RecheckersAreTasks
<1>6. ASSUME WillRecheck("send") \subseteq WillRecheck("send")'
      PROVE  SendersServed'
  <2>1. Cardinality(WillRecheck("send")) <= Cardinality(WillRecheck("send")')
    BY <1>6, Monotone, RecheckersAreTasks
  <2>2. Counted(cRxLock) \in Nat /\ Counted(cRxLock)' = Counted(cRxLock)
    BY <1>1 DEF Counted, TypeOK, queueLOCKED_UNMODIFIED
  <2>3. Cardinality(WillRecheck("send")) \in Nat /\ Cardinality(WillRecheck("send")') \in Nat
    BY <1>5
  <2>4. uxMessagesWaiting \in Int /\ Length \in Int
    BY LengthAssumption DEF TypeOK
  <2> QED
    BY <1>1, <1>3, <2>1, <2>2, <2>3, <2>4 DEF NoLostWakeup, SendersServed
<1>7. CASE cTxLock = queueUNLOCKED
  <2>1. PICK W \in Woken(xTasksWaitingToReceive, 1) :
          /\ xTasksWaitingToReceive' = xTasksWaitingToReceive \ W
          /\ IF suspender = NoTask
             THEN pc' = Ready(W, pc) /\ UNCHANGED xPendingReadyList
             ELSE xPendingReadyList' = xPendingReadyList \cup W /\ UNCHANGED pc
    BY <1>7 DEF SendFromISR
  <2>2. /\ W \in SUBSET Task /\ W \subseteq xTasksWaitingToReceive
        /\ xTasksWaitingToReceive \ W # {} => Cardinality(W) = 1
    BY WokenAll DEF Woken, TypeOK
  <2>3. UNCHANGED cTxLock
    BY <1>7 DEF SendFromISR
  <2>4. \A u \in W : /\ op[u] = "receive" /\ u \notin xPendingReadyList
                     /\ pc[u] = "blocked" \/ (u = suspender /\ plan = "block")
    BY <2>2 DEF ListsConsistent, TypeOK
  <2>5. \A u \in Task :
          /\ pc'[u] = IF u \in W /\ suspender = NoTask THEN "check" ELSE pc[u]
          /\ u \in xPendingReadyList' <=> u \in xPendingReadyList \/ (u \in W /\ suspender # NoTask)
    BY <2>1, <2>2, ReadyAt DEF TypeOK
  <2>6. ListsConsistent'
    BY <1>1, <2>1, <2>2, <2>3, <2>4, <2>5, TaskAssumption
    DEF ListsConsistent, TypeOK, scheduler, calls
  <2>7. SuspenderInside'
    BY <1>1, <2>4, <2>5, TaskAssumption
    DEF SuspenderInside, Suspended, Locking, Unlocking, scheduler
  <2>8. LocksHeld'
    BY <1>1, <1>3, <2>3, <2>4, <2>5, TaskAssumption DEF LocksHeld, Locking, TypeOK, queueUNLOCKED
  <2>9. CallsTimed'
    BY <1>1, <2>4, <2>5, TaskAssumption DEF CallsTimed, scheduler, calls
  <2>10. NothingMissed'
    BY <1>7, <2>5 DEF NothingMissed, LocksHeld, Locking
  <2>11. NoLostWakeup'
    <3>1. /\ WillRecheck("receive") \subseteq WillRecheck("receive")' /\ W \subseteq WillRecheck("receive")'
          /\ WillRecheck("send") \subseteq WillRecheck("send")'
      BY <1>1, <2>2, <2>4, <2>5 DEF WillRecheck, calls
    <3>2. WillRecheck("receive") \cap W = {}
      BY <2>2, <2>4 DEF WillRecheck, SuspenderInside, Suspended, Locking, Unlocking
    <3>3. Cardinality(WillRecheck("receive")) + Cardinality(W) <= Cardinality(WillRecheck("receive")')
      BY <2>2, <3>1, <3>2, Joined, RecheckersAreTasks
    <3>4. Cardinality(W) \in Nat
      BY <2>2, Finite
    <3>5. Counted(cTxLock) = 0 /\ Counted(cTxLock)' = 0
      BY <1>7, <2>3 DEF Counted, queueUNLOCKED, queueLOCKED_UNMODIFIED
    <3>6. ReceiversServed'
      BY <1>3, <1>5, <2>1, <2>2, <3>3, <3>4, <3>5, LengthAssumption
      DEF NoLostWakeup, ReceiversServed, TypeOK
    <3> QED
      BY <1>6, <3>1, <3>6 DEF NoLostWakeup
  <2> QED
    BY <1>4, <2>6, <2>7, <2>8, <2>9, <2>10, <2>11
<1>8. CASE cTxLock # queueUNLOCKED
  <2>1. cTxLock' = cTxLock + 1 /\ UNCHANGED <<pc, xTasksWaitingToReceive, xPendingReadyList>>
    BY <1>8 DEF SendFromISR
  <2>2. 0 <= cTxLock /\ cTxLock \in Int
    BY <1>8 DEF TypeOK, queueUNLOCKED
  <2>3. suspender # NoTask
    BY <1>8 DEF ListsConsistent
  <2>4. ListsConsistent' /\ SuspenderInside' /\ CallsTimed'
    BY <1>1, <2>1, <2>3 DEF ListsConsistent, SuspenderInside, CallsTimed, scheduler, calls
  <2>5. LocksHeld'
    BY <1>1, <1>3, <1>8, <2>1, <2>2, LengthAssumption DEF LocksHeld, TypeOK, queueUNLOCKED
  <2>6. NothingMissed'
    BY <1>1, <1>3, <2>1, <2>2, LengthAssumption DEF NothingMissed, calls, TypeOK
  <2>7. WillRecheck("send") = WillRecheck("send")' /\ WillRecheck("receive") = WillRecheck("receive")'
    BY <1>1, <2>1 DEF WillRecheck, calls
  <2>8. Counted(cTxLock) = cTxLock /\ Counted(cTxLock)' = cTxLock + 1
    BY <2>1, <2>2 DEF Counted, queueLOCKED_UNMODIFIED
  <2>9. ReceiversServed'
    BY <1>3, <1>5, <2>1, <2>2, <2>7, <2>8, LengthAssumption
    DEF NoLostWakeup, ReceiversServed, TypeOK
  <2> QED
    BY <1>4, <1>6, <2>4, <2>5, <2>6, <2>7, <2>9 DEF NoLostWakeup
<1> QED
  BY <1>7, <1>8

-----------------------------------------------------------------------------
(* The theorems *)

\* The invariant holds initially.
LEMMA InitEstablishes == Init => IInv
<1> SUFFICES ASSUME Init PROVE IInv
  OBVIOUS
<1>1. use.items \subseteq Item
  BY UsesAssumption DEF Init
<1>2. TypeOK
  <2>1. 0 \in Wait /\ 0 \in 0..MaxPended /\ 0 \in 0..Length /\ queueUNLOCKED \in -1..127
    BY LengthAssumption, BoundAssumption DEF Wait, queueUNLOCKED
  <2>2. 0 \in 0..Length - 1 /\ Length - 1 \in 0..Length - 1
    BY LengthAssumption
  <2>3. storage \in [0..Length - 1 -> Item] /\ received \in Item /\ use \in Uses
    BY <1>1 DEF Init
  <2>4. /\ pc \in [Task -> Point] /\ op \in [Task -> Operation \cup {"none"}]
        /\ xTicksToWait \in [Task -> Wait]
    BY <2>1 DEF Init, Point
  <2> QED
    BY <2>1, <2>2, <2>3, <2>4 DEF Init, TypeOK
<1>3. ListsConsistent /\ SuspenderInside /\ CallsTimed /\ NothingMissed
  BY TaskAssumption
  DEF Init, ListsConsistent, SuspenderInside, CallsTimed, NothingMissed, Suspended, Locking, Unlocking
<1>4. LocksHeld
  BY DEF Init, LocksHeld, Locking, queueUNLOCKED, queueLOCKED_UNMODIFIED
<1>5. NoLostWakeup
  BY DEF Init, NoLostWakeup, ReceiversServed, SendersServed
<1>6. RingClosed
  BY LengthAssumption DEF Init, RingClosed, Place, NextPlace
<1> QED
  BY <1>2, <1>3, <1>4, <1>5, <1>6 DEF IInv

\* Every step preserves the invariant.
LEMMA StepKeeps == IInv /\ [Next]_vars => IInv'
<1> SUFFICES ASSUME IInv, [Next]_vars PROVE IInv'
  OBVIOUS
<1>1. ASSUME Next PROVE IInv'
  <2>1. TypeOK'
    BY <1>1, TypesKept DEF IInv
  <2>2. CASE Tick
    BY <2>1, <2>2, TickKeeps
  <2>3. CASE SendFromISR
    BY <2>1, <2>3, SendFromISRKeeps
  <2>4. ASSUME NEW t \in Task, Call(t) \/ Progress(t)
        PROVE  IInv'
    BY <2>1, <2>4, CallKeeps, LeaveKeeps, SetTimeOutKeeps, SuspendKeeps, LockKeeps, CheckKeeps,
       RecheckKeeps, PlaceKeeps, UnlockTxKeeps, UnlockRxKeeps, ResumeKeeps, GiveUpKeeps, SendKeeps,
       ReceiveKeeps DEF Progress
  <2> QED
    BY <1>1, <2>2, <2>3, <2>4 DEF Next
<1>2. CASE UNCHANGED vars
  BY <1>2
  DEF vars, ring, locks, lists, scheduler, calls, IInv, TypeOK, ListsConsistent, SuspenderInside,
      LocksHeld, CallsTimed, NothingMissed, NoLostWakeup, ReceiversServed, SendersServed,
      WillRecheck, RingClosed, Place, NextPlace, Counted
<1> QED
  BY <1>1, <1>2

\* The inductive invariant: who holds the locks, what their counts mean, who is on which list, and
\* what a task that is about to block has seen.
THEOREM Invariance == Spec => []IInv
BY InitEstablishes, StepKeeps, PTL DEF Spec

\* Every variable keeps its type: the lock counts fit their int8_t (they count no more interrupts
\* than the queue has items) and the places of the ring buffer stay inside the storage.
THEOREM TypeCorrect == Spec => []TypeOK
<1>1. IInv => TypeOK
  BY DEF IInv
<1> QED
  BY <1>1, Invariance, PTL

\* No wake-up is lost between the look at the queue and the blocking of the task, however many
\* interrupts send in between.
THEOREM WakeupsKept == Spec => []NoLostWakeup
<1>1. IInv => NoLostWakeup
  BY DEF IInv
<1> QED
  BY <1>1, Invariance, PTL

\* The lists of the queue and of the scheduler agree with what the tasks do.
THEOREM ListsAgree == Spec => []ListsConsistent
<1>1. IInv => ListsConsistent
  BY DEF IInv
<1> QED
  BY <1>1, Invariance, PTL

-----------------------------------------------------------------------------
(* The queue is a bounded FIFO *)

\* The places of the items lie in the storage.
LEMMA PlaceTypes ==
  ASSUME TypeOK
  PROVE  \A k \in 0..Length : Place(k) \in 0..Length - 1
BY LengthAssumption DEF TypeOK, Place

ContentListed ==
  /\ Content \in Seq(Item) /\ Len(Content) = uxMessagesWaiting
  /\ \A k \in 1..uxMessagesWaiting : Content[k] = storage[Place(k)]

\* The content of the queue is a sequence of its items.
LEMMA ContentSeq == TypeOK => ContentListed
<1> SUFFICES ASSUME TypeOK PROVE ContentListed
  OBVIOUS
<1>1. uxMessagesWaiting \in Nat /\ uxMessagesWaiting <= Length
  BY LengthAssumption DEF TypeOK
<1>2. \A k \in 1..uxMessagesWaiting : k \in 0..Length
  BY <1>1, LengthAssumption
<1>3. \A k \in 1..uxMessagesWaiting : storage[Place(k)] \in Item
  BY <1>2, PlaceTypes DEF TypeOK
<1>4. Content \in [1..uxMessagesWaiting -> Item]
  BY <1>3 DEF Content
<1>5. Content \in Seq(Item)
  BY <1>1, <1>4
<1>6. Len(Content) = uxMessagesWaiting
  BY <1>1, <1>4, <1>5
<1> QED
  BY <1>5, <1>6 DEF Content, ContentListed

\* So it is after a step.
LEMMA ContentSeqNext == TypeOK' => ContentListed'
BY ContentSeq, PTL

\* What is written comes last.
LEMMA Filled ==
  ASSUME TypeOK, TypeOK', RingClosed, NEW v \in Item, uxMessagesWaiting < Length, CopyDataToQueue(v)
  PROVE  Fifo!Put(v)
<1>1. /\ Content \in Seq(Item) /\ Len(Content) = uxMessagesWaiting
      /\ \A k \in 1..uxMessagesWaiting : Content[k] = storage[Place(k)]
  BY ContentSeq DEF ContentListed
<1>2. /\ Content' \in Seq(Item) /\ Len(Content') = uxMessagesWaiting'
      /\ \A k \in 1..uxMessagesWaiting' : Content'[k] = storage'[Place(k)']
  BY ContentSeqNext DEF ContentListed
<1>3. uxMessagesWaiting' = uxMessagesWaiting + 1 /\ uxMessagesWaiting \in Nat
  BY LengthAssumption DEF CopyDataToQueue, TypeOK
<1>4. \A k : Place(k)' = Place(k)
  BY DEF Place, CopyDataToQueue
<1>5. pcWriteTo = Place(uxMessagesWaiting + 1)
  BY PlaceNext, LengthAssumption DEF RingClosed, TypeOK
<1>6. \A k \in 1..uxMessagesWaiting : Place(k) \in 0..Length - 1 /\ Place(k) # pcWriteTo
  BY <1>3, <1>5, LengthAssumption DEF TypeOK, Place
<1>7. storage' = [storage EXCEPT ![pcWriteTo] = v]
  BY DEF CopyDataToQueue
<1>8. \A k \in 1..uxMessagesWaiting : Content'[k] = Content[k]
  BY <1>1, <1>2, <1>3, <1>4, <1>6, <1>7 DEF TypeOK
<1>9. Content'[uxMessagesWaiting + 1] = v
  BY <1>2, <1>3, <1>4, <1>5, <1>7 DEF TypeOK
<1>10. /\ Append(Content, v) \in Seq(Item) /\ Len(Append(Content, v)) = uxMessagesWaiting + 1
       /\ \A k \in 1..uxMessagesWaiting : Append(Content, v)[k] = Content[k]
       /\ Append(Content, v)[uxMessagesWaiting + 1] = v
  BY <1>1, AppendProperties
<1>11. \A k \in 1..uxMessagesWaiting + 1 : Content'[k] = Append(Content, v)[k]
  <2> SUFFICES ASSUME NEW k \in 1..uxMessagesWaiting + 1
               PROVE  Content'[k] = Append(Content, v)[k]
    OBVIOUS
  <2>1. k \in 1..uxMessagesWaiting \/ k = uxMessagesWaiting + 1
    BY <1>3
  <2> QED
    BY <1>8, <1>9, <1>10, <2>1
<1>12. Content' = Append(Content, v)
  BY <1>2, <1>3, <1>10, <1>11, SeqEqual
<1> QED
  BY <1>1, <1>12 DEF Fifo!Put, CopyDataToQueue

\* What is read comes first.
LEMMA Emptied ==
  ASSUME TypeOK, TypeOK', uxMessagesWaiting > 0, CopyDataFromQueue
  PROVE  Content # << >> /\ received' = Head(Content) /\ Content' = Tail(Content)
<1>1. /\ Content \in Seq(Item) /\ Len(Content) = uxMessagesWaiting
      /\ \A k \in 1..uxMessagesWaiting : Content[k] = storage[Place(k)]
  BY ContentSeq DEF ContentListed
<1>2. /\ Content' \in Seq(Item) /\ Len(Content') = uxMessagesWaiting'
      /\ \A k \in 1..uxMessagesWaiting' : Content'[k] = storage'[Place(k)']
  BY ContentSeqNext DEF ContentListed
<1>3. /\ uxMessagesWaiting' = uxMessagesWaiting - 1 /\ uxMessagesWaiting \in Nat
      /\ uxMessagesWaiting <= Length /\ storage' = storage
  BY LengthAssumption DEF CopyDataFromQueue, TypeOK
<1>4. \A k \in 1..uxMessagesWaiting - 1 : Place(k)' = Place(k + 1)
  BY <1>3, LengthAssumption DEF TypeOK, CopyDataFromQueue, Place, NextPlace
<1>5. Content # << >>
  BY <1>1, EmptySeq
<1>6. Place(1) = NextPlace(pcReadFrom)
  BY LengthAssumption DEF TypeOK, Place, NextPlace
<1>7. Content[1] = storage[NextPlace(pcReadFrom)]
  BY <1>1, <1>3, <1>6
<1>8. Head(Content) = Content[1]
  BY <1>1, <1>5
<1>9. received' = Head(Content)
  BY <1>7, <1>8 DEF CopyDataFromQueue
<1>10. /\ Tail(Content) \in Seq(Item) /\ Len(Tail(Content)) = uxMessagesWaiting - 1
       /\ \A k \in 1..uxMessagesWaiting - 1 : Tail(Content)[k] = Content[k + 1]
  BY <1>1, <1>5, HeadTailProperties
<1>11. \A k \in 1..uxMessagesWaiting - 1 : Content'[k] = Tail(Content)[k]
  <2> SUFFICES ASSUME NEW k \in 1..uxMessagesWaiting - 1
               PROVE  Content'[k] = Tail(Content)[k]
    OBVIOUS
  <2>1. k + 1 \in 1..uxMessagesWaiting /\ k \in 1..uxMessagesWaiting'
    BY <1>3
  <2>2. Content'[k] = storage'[Place(k)']
    BY <1>2, <2>1
  <2>3. Content[k + 1] = storage[Place(k + 1)]
    BY <1>1, <2>1
  <2> QED
    BY <1>3, <1>4, <1>10, <2>2, <2>3
<1>12. Content' = Tail(Content)
  BY <1>2, <1>3, <1>10, <1>11, SeqEqual
<1> QED
  BY <1>5, <1>9, <1>12

\* A call that does not wait does not wait for ever.
LEMMA NoTimeOut == (0 = portMAX_DELAY) = FALSE
BY DEF portMAX_DELAY

\* A call that returns is no longer one.
LEMMA CallReturned ==
  ASSUME TypeOK, NEW t \in Task, NEW W, Return(t, W)
  PROVE  /\ Called[t].op = op[t]
         /\ Called[t].forever <=> xTicksToWait[t] = portMAX_DELAY
         /\ Called' = [Called EXCEPT ![t] = Fifo!NoCall]
<1>1. op' = [op EXCEPT ![t] = "none"] /\ xTicksToWait' = [xTicksToWait EXCEPT ![t] = 0]
  BY DEF Return
<1>2. \A u \in Task : Called'[u] = IF u = t THEN Fifo!NoCall ELSE Called[u]
  <2> SUFFICES ASSUME NEW u \in Task
               PROVE  Called'[u] = IF u = t THEN Fifo!NoCall ELSE Called[u]
    OBVIOUS
  <2>1. CASE u = t
    <3>1. op'[u] = "none" /\ xTicksToWait'[u] = 0
      BY <1>1, <2>1 DEF TypeOK
    <3> QED
      BY <2>1, <3>1, NoTimeOut DEF Called, Fifo!NoCall
  <2>2. CASE u # t
    <3>1. op'[u] = op[u] /\ xTicksToWait'[u] = xTicksToWait[u]
      BY <1>1, <2>2 DEF TypeOK
    <3> QED
      BY <2>2, <3>1 DEF Called
  <2> QED
    BY <2>1, <2>2
<1>3. Called' = [Called EXCEPT ![t] = Fifo!NoCall]
  BY <1>2 DEF Called
<1> QED
  BY <1>3 DEF Called

\* Steps in the middle of a call.
LEMMA Called0 ==
  ASSUME UNCHANGED op,
         \A u \in Task : xTicksToWait'[u] = portMAX_DELAY <=> xTicksToWait[u] = portMAX_DELAY
  PROVE  UNCHANGED Called
BY DEF Called

\* Who leaves the ring alone leaves the content alone.
LEMMA RingStays ==
  ASSUME UNCHANGED ring
  PROVE  UNCHANGED <<Content, received>>
BY DEF ring, Content, Place

\* A call begins in the FIFO when it begins in the queue.
LEMMA CallRefines ==
  ASSUME IInv, NEW t \in Task, Call(t)
  PROVE  Fifo!Next
<1>1. PICK o \in use.does[t], n \in Wait :
        op' = [op EXCEPT ![t] = o] /\ xTicksToWait' = [xTicksToWait EXCEPT ![t] = n]
  BY DEF Call
<1>2. o \in Operation
  BY UsesAssumption DEF IInv, TypeOK
<1> DEFINE c == [op |-> o, forever |-> n = portMAX_DELAY]
<1>3. c \in Fifo!Calls
  BY <1>2 DEF Fifo!Calls, Operation
<1>4. Called[t] = Fifo!NoCall
  <2>1. op[t] = "none" /\ xTicksToWait[t] = 0
    BY DEF Call, IInv, CallsTimed
  <2> QED
    BY <2>1, NoTimeOut DEF Called, Fifo!NoCall
<1>5. Called' = [Called EXCEPT ![t] = c]
  BY <1>1 DEF Called, IInv, TypeOK
<1>6. UNCHANGED <<Content, received>>
  BY RingStays DEF Call
<1>7. Fifo!Call(t, c)
  BY <1>4, <1>5, <1>6 DEF Fifo!Call
<1> QED
  BY <1>3, <1>7 DEF Fifo!Next

\* A send appends its item to the FIFO.
LEMMA SendRefines ==
  ASSUME IInv, IInv', NEW t \in Task, Send(t)
  PROVE  Fifo!Next
<1>1. PICK v \in use.items, W \in Woken(xTasksWaitingToReceive, 1) :
        CopyDataToQueue(v) /\ Return(t, W)
  BY DEF Send
<1>2. v \in Item
  BY UsesAssumption DEF IInv, TypeOK
<1>3. Fifo!Put(v)
  BY <1>1, <1>2, Filled DEF IInv, Send
<1>4. Fifo!Returns(t, "send")
  BY <1>1, CallReturned DEF IInv, Send, Fifo!Returns
<1> QED
  BY <1>2, <1>3, <1>4 DEF Fifo!Next, Fifo!Send

\* A receive takes the head of the FIFO.
LEMMA ReceiveRefines ==
  ASSUME IInv, IInv', NEW t \in Task, Receive(t)
  PROVE  Fifo!Next
<1>1. PICK W \in Woken(xTasksWaitingToSend, 1) : Return(t, W)
  BY DEF Receive
<1>2. Content # << >> /\ received' = Head(Content) /\ Content' = Tail(Content)
  BY Emptied DEF IInv, Receive
<1>3. Fifo!Returns(t, "receive")
  BY <1>1, CallReturned DEF IInv, Receive, Fifo!Returns
<1> QED
  BY <1>2, <1>3 DEF Fifo!Next, Fifo!Receive

\* A send from an interrupt appends its item, or fails on a full FIFO.
LEMMA SendFromISRRefines ==
  ASSUME IInv, IInv', SendFromISR
  PROVE  Fifo!Next
<1>1. PICK v \in use.items : CopyDataToQueue(v)
  BY DEF SendFromISR
<1>2. v \in Item
  BY UsesAssumption DEF IInv, TypeOK
<1>3. Fifo!Put(v)
  BY <1>1, <1>2, Filled DEF IInv, SendFromISR
<1>4. UNCHANGED Called
  BY Called0 DEF SendFromISR, calls
<1> QED
  BY <1>2, <1>3, <1>4 DEF Fifo!Next, Fifo!SendFromISR

\* A call that returns without an item has run out of time.
LEMMA GiveUpRefines ==
  ASSUME IInv, NEW t \in Task, GiveUp(t) \/ LeaveNow(t)
  PROVE  Fifo!Next \/ UNCHANGED <<Content, received, Called>>
<1> USE DEF IInv
<1>1. UNCHANGED <<Content, received>>
  BY RingStays DEF GiveUp, LeaveNow
<1>2. CASE UNCHANGED calls
  BY <1>1, <1>2, Called0 DEF calls
<1>3. CASE Return(t, {})
  <2>1. xTicksToWait[t] = 0 /\ op[t] \in Operation
    BY DEF GiveUp, LeaveNow, CallsTimed, TypeOK
  <2>2. op[t] = "receive" => uxMessagesWaiting = 0
    BY <1>3, <2>1 DEF GiveUp, LeaveNow, Stuck, GoTo, Return, calls, TypeOK
  <2>3. op[t] = "receive" => Content = << >>
    BY <2>2, ContentSeq, EmptySeq DEF ContentListed
  <2>4. Called[t].op = op[t] /\ ~Called[t].forever /\ Called' = [Called EXCEPT ![t] = Fifo!NoCall]
    BY <1>3, <2>1, CallReturned DEF portMAX_DELAY
  <2>5. Fifo!GiveUp(t)
    BY <1>1, <2>1, <2>3, <2>4 DEF Fifo!GiveUp, Fifo!Returns, Operation
  <2> QED
    BY <2>5 DEF Fifo!Next
<1> QED
  BY <1>2, <1>3 DEF GiveUp, LeaveNow

\* The FIFO sees nothing of the steps on the way to being blocked,
LEMMA WaitingStutters ==
  ASSUME TypeOK, NEW t \in Task,
         \/ SetTimeOut(t) \/ SuspendAll(t) \/ LockQueue(t) \/ CheckForTimeOut(t) \/ Recheck(t)
         \/ PlaceOnEventList(t) \/ UnlockTx(t) \/ UnlockRx(t)
  PROVE  UNCHANGED <<Content, received, Called>>
<1>1. UNCHANGED <<ring, calls>>
  BY
  DEF SetTimeOut, SuspendAll, LockQueue, CheckForTimeOut, Recheck, PlaceOnEventList, UnlockTx,
      UnlockRx
<1> QED
  BY <1>1, RingStays, Called0 DEF calls

\* nor of the time.
LEMMA TimeStutters ==
  ASSUME TypeOK, Tick \/ \E t \in Task : ResumeAll(t)
  PROVE  UNCHANGED <<Content, received, Called>>
<1>1. UNCHANGED <<ring, op>>
  BY DEF Tick, ResumeAll
<1>2. \/ UNCHANGED xTicksToWait
      \/ xTicksToWait' = Left(1)
      \/ uxPendedTicks \in Nat /\ xTicksToWait' = Left(uxPendedTicks)
  <2>1. uxPendedTicks \in Nat
    BY BoundAssumption DEF TypeOK
  <2> QED
    BY <2>1 DEF Tick, ResumeAll, IncrementTick
<1>3. \A u \in Task : xTicksToWait'[u] = portMAX_DELAY <=> xTicksToWait[u] = portMAX_DELAY
  BY <1>2, LeftType
<1> QED
  BY <1>1, <1>3, RingStays, Called0

\* The FIFO is empty initially.
LEMMA InitRefines == Init => Fifo!Init
<1> SUFFICES ASSUME Init PROVE Fifo!Init
  OBVIOUS
<1>1. Content = << >>
  BY ContentSeq, InitEstablishes, EmptySeq DEF ContentListed, Init, IInv
<1>2. received \in Item
  BY InitEstablishes DEF IInv, TypeOK
<1>3. Called = [t \in Task |-> Fifo!NoCall]
  BY NoTimeOut DEF Init, Called, Fifo!NoCall
<1> QED
  BY <1>1, <1>2, <1>3 DEF Fifo!Init

\* Every step of the queue is one of the FIFO or a stutter.
LEMMA StepRefines == IInv /\ IInv' /\ [Next]_vars => [Fifo!Next]_<<Content, received, Called>>
<1> SUFFICES ASSUME IInv, IInv', [Next]_vars
             PROVE  Fifo!Next \/ UNCHANGED <<Content, received, Called>>
  OBVIOUS
<1>1. CASE Tick \/ \E t \in Task : ResumeAll(t)
  BY <1>1, TimeStutters DEF IInv
<1>2. CASE SendFromISR
  BY <1>2, SendFromISRRefines
<1>3. ASSUME NEW t \in Task, Call(t) \/ Progress(t)
      PROVE  Fifo!Next \/ UNCHANGED <<Content, received, Called>>
  BY <1>1, <1>3, CallRefines, SendRefines, ReceiveRefines, GiveUpRefines, WaitingStutters
  DEF Progress, IInv
<1>4. CASE UNCHANGED vars
  BY <1>4, RingStays, Called0 DEF vars, calls
<1> QED
  BY <1>1, <1>2, <1>3, <1>4 DEF Next

\* The queue of the kernel is a bounded FIFO whose calls take effect at once, although it locks
\* itself and suspends the scheduler and interrupts send at any time between two of its steps.
THEOREM Refinement == Spec => ImplementsFifo
<1>1. IInv /\ [Next]_vars => IInv /\ IInv' /\ [Next]_vars
  BY StepKeeps
<1> QED
  BY InitRefines, StepRefines, Invariance, PTL DEF Spec, ImplementsFifo, Fifo!Spec
=============================================================================
