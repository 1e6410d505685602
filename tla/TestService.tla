------------------------------- MODULE TestService -------------------------------
(***************************************************************************)
(* What the unit under test (UUT) promises the testers on the network.     *)
(*                                                                         *)
(* A request asks for a non-empty set of peripherals to be tested.  Once   *)
(* the UUT has accepted a request, every peripheral it names is tested     *)
(* exactly once and concludes with one verdict; requests for the same      *)
(* peripheral conclude in the order in which they were accepted; different *)
(* peripherals proceed independently.  Whether a concluded verdict reaches *)
(* the wire is up to the network stack, so a conclusion is either sent or  *)
(* lost.                                                                   *)
(***************************************************************************)
EXTENDS Naturals, Sequences

CONSTANTS
  Request,      \* the requests that may be accepted
  Wanted(_),    \* Wanted(r): the peripherals request r asks to test
  Verdict       \* the possible verdicts of one peripheral test

VARIABLES
  accepted,     \* the accepted requests, oldest first
  concluded     \* records [req, peri, result]: the verdicts given so far

vars == <<accepted, concluded>>

Concluded(r, p) == \E c \in concluded : c.req = r /\ c.peri = p

\* r was accepted, and every request for p accepted before r has concluded on p.
NextFor(r, p) ==
  \E n \in DOMAIN accepted :
    /\ accepted[n] = r
    /\ \A m \in 1..(n - 1) : p \in Wanted(accepted[m]) => Concluded(accepted[m], p)

Init ==
  /\ accepted = << >>
  /\ concluded = {}

Accept(r) ==
  /\ \A n \in DOMAIN accepted : accepted[n] # r
  /\ accepted' = Append(accepted, r)
  /\ UNCHANGED concluded

Conclude(r, p) ==
  /\ p \in Wanted(r)
  /\ ~Concluded(r, p)
  /\ NextFor(r, p)
  /\ \E v \in Verdict : concluded' = concluded \cup {[req |-> r, peri |-> p, result |-> v]}
  /\ UNCHANGED accepted

Next == \E r \in Request : Accept(r) \/ \E p \in Wanted(r) : Conclude(r, p)

Spec == Init /\ [][Next]_vars
=============================================================================
