------------------------------ MODULE UutPipelineInv ------------------------------
(***************************************************************************)
(* The inductive invariant behind the theorems about UutPipeline.          *)
(*                                                                         *)
(* A test is a pair of an accepted datagram d and a peripheral p it asks   *)
(* for.  On its way through the firmware a test is at one of seven stages, *)
(* and the invariant says that no test is ever nowhere, and that of two    *)
(* tests of one peripheral the older one is never at an earlier stage.     *)
(* Both together place every test at exactly one stage.                    *)
(***************************************************************************)
EXTENDS UutPipeline

Stage == 0..6

\* Test (d, p) is at stage k.
At(k, d, p) ==
  \/ k = 0 /\ p \in Wanted(d) /\ \E n \in DOMAIN inMsgQueue : inMsgQueue[n] = d
  \/ k = 1 /\ p \in dispatcherLeft /\ dispatcherMsg = d
  \/ k = 2 /\ \E n \in DOMAIN testQueue[p] : testQueue[p][n] = d
  \/ k = 3 /\ test[p].pc # "get" /\ test[p].msg = d
  \/ k = 4 /\ \E n \in DOMAIN outMsgQueue : outMsgQueue[n].req = d /\ outMsgQueue[n].peri = p
  \/ k = 5 /\ Responding /\ responderMsg.req = d /\ responderMsg.peri = p
  \/ k = 6 /\ IsConcluded(d, p)

Whereabouts == {t \in Stage \X Datagram \X Peripheral : At(t[1], t[2], t[3])}

Accepted == {d \in Datagram : \E n \in DOMAIN accepted : accepted[n] = d}

\* <<d, e>> : d was accepted before e.
Older == {t \in Datagram \X Datagram :
            \E m, n \in DOMAIN accepted : m < n /\ accepted[m] = t[1] /\ accepted[n] = t[2]}

-----------------------------------------------------------------------------
\* The listener puts every datagram into inMsgQueue at most once, and only valid ones:
\* one that is on its way to the listener, or held by it for the put, is not there yet.
AcceptedOnce ==
  /\ \A m, n \in DOMAIN accepted : accepted[m] = accepted[n] => m = n
  /\ \A d \in Accepted : Valid(d)
  /\ Accepted \cap network = {}
  /\ \A n \in DOMAIN mailbox :
       /\ mailbox[n] \notin network \cup Accepted
       /\ listenerPc = "put" => mailbox[n] # listenerMsg
       /\ \A m \in DOMAIN mailbox : mailbox[m] = mailbox[n] => m = n
  /\ listenerPc = "put" => /\ Valid(listenerMsg)
                           /\ listenerMsg \notin network \cup Accepted

\* Only tests that were asked for are anywhere in the firmware.
OnlyRequested ==
  \A t \in Whereabouts : t[2] \in Accepted /\ t[3] \in Wanted(t[2])

\* Every test that was asked for is somewhere.
NothingLost ==
  \A d \in Accepted : \A p \in Wanted(d) : \E k \in Stage : <<k, d, p>> \in Whereabouts

\* A test further along than another one of its peripheral is older.
InOrder ==
  \A t, u \in Whereabouts : t[3] = u[3] /\ t[1] < u[1] => <<u[2], t[2]>> \in Older

\* So are, within one queue, the tests closer to its head.  Nothing enters the first queue
\* but by being accepted.
QueuesInOrder ==
  /\ \A n \in DOMAIN inMsgQueue : inMsgQueue[n] \in Accepted
  /\ \A m, n \in DOMAIN inMsgQueue : m < n => <<inMsgQueue[m], inMsgQueue[n]>> \in Older
  /\ \A p \in Peripheral : \A m, n \in DOMAIN testQueue[p] :
       m < n => <<testQueue[p][m], testQueue[p][n]>> \in Older
  /\ \A m, n \in DOMAIN outMsgQueue :
       m < n /\ outMsgQueue[m].peri = outMsgQueue[n].peri
         => <<outMsgQueue[m].req, outMsgQueue[n].req>> \in Older

\* In a test task's loop, i counts the iterations done for the message, all successful,
\* and result is stale only while there are none.
LoopInv ==
  \A p \in Peripheral :
    /\ test[p].pc = "loop" =>
         /\ test[p].i = Len(test[p].runs)
         /\ test[p].i <= test[p].msg.n_iter
         /\ test[p].msg.n_iter > 0
         /\ \A n \in 1..test[p].i : test[p].runs[n] = "SUCCESS"
         /\ test[p].i > 0 => test[p].result = "SUCCESS"
    /\ test[p].pc = "put" => Earned(OutMsg(p))

FlowInv == AcceptedOnce /\ OnlyRequested /\ NothingLost /\ InOrder /\ QueuesInOrder

\* The inductive invariant.
IInv == TypeOK /\ NetbufsBalanced /\ FlowInv /\ LoopInv /\ VerdictEarned
=============================================================================
