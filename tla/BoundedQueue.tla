-------------------------------- MODULE BoundedQueue --------------------------------
(***************************************************************************)
(* What the tasks of the firmware expect of a message queue or semaphore   *)
(* of the kernel: a FIFO of at most Length items.  A call waits for room   *)
(* or for an item.  A call with a time-out may give up; one that waits for *)
(* ever returns only with what it was asked for.                           *)
(***************************************************************************)
EXTENDS Integers, Sequences

CONSTANTS Task, Item, Length

VARIABLES
  content,     \* the items, the oldest first
  received,    \* the item handed out last
  calls        \* what each task has called: its operation and whether it waits for ever

NoCall == [op |-> "none", forever |-> FALSE]
Calls == [op : {"send", "receive"}, forever : BOOLEAN]

Init ==
  /\ content = << >>
  /\ received \in Item
  /\ calls = [t \in Task |-> NoCall]

Call(t, c) ==
  /\ calls[t] = NoCall
  /\ calls' = [calls EXCEPT ![t] = c]
  /\ UNCHANGED <<content, received>>

Returns(t, op) ==
  /\ calls[t].op = op
  /\ calls' = [calls EXCEPT ![t] = NoCall]

Put(v) ==
  /\ Len(content) < Length
  /\ content' = Append(content, v)
  /\ UNCHANGED received

Send(t, v) == Returns(t, "send") /\ Put(v)

Receive(t) ==
  /\ Returns(t, "receive")
  /\ content # << >>
  /\ received' = Head(content) /\ content' = Tail(content)

\* A receive fails only on an empty queue.  A send may fail though there is room again.
GiveUp(t) ==
  /\ \/ Returns(t, "send")
     \/ Returns(t, "receive") /\ content = << >>
  /\ ~calls[t].forever
  /\ UNCHANGED <<content, received>>

SendFromISR(v) == Put(v) /\ UNCHANGED calls

Next ==
  \/ \E t \in Task : \/ \E c \in Calls : Call(t, c)
                     \/ \E v \in Item : Send(t, v)
                     \/ Receive(t) \/ GiveUp(t)
  \/ \E v \in Item : SendFromISR(v)

Spec == Init /\ [][Next]_<<content, received, calls>>
=============================================================================
