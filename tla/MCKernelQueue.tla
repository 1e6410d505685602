------------------------------- MODULE MCKernelQueue -------------------------------
(* A small instance of KernelQueue for TLC. *)
EXTENDS KernelQueue, TLC

CONSTANTS sender, receiver, other, a, b

Use(does, items) ==
  [does |-> (sender :> {"send"}) @@ (receiver :> {"receive"}) @@ (other :> does), items |-> items]

\* Two kinds of items, which show their order, between two tasks and the interrupts, and two
\* receivers or two senders with items that are all the same.
MCUses == { Use({}, {a, b}), Use(Operation, {a}) }
=============================================================================
