------------------------------- MODULE UutPipeline -------------------------------
(***************************************************************************)
(* The message pipeline of the firmware on the unit under test (UUT):      *)
(*                                                                         *)
(*   network -> UDP mailbox -> listener -> inMsgQueue -> dispatcher        *)
(*     -> one queue per peripheral -> that peripheral's test task          *)
(*     -> outMsgQueue -> responder -> network                              *)
(*                                                                         *)
(* Every task is a FreeRTOS thread and every arrow a bounded queue.  The   *)
(* steps of a task between two calls that other tasks can observe (queue   *)
(* put/get, allocation and release of a netbuf) are one action.            *)
(*                                                                         *)
(* Data.  A datagram stands for one arrival of an InMsg_t: sender address, *)
(* port, test id and payload are the identity of the element of Datagram,  *)
(* only the fields the control flow reads are kept.  A test run on the     *)
(* hardware is abstracted to its verdict; the drivers are separate modules.*)
(***************************************************************************)
EXTENDS Integers, Sequences, FiniteSets

CONSTANTS
  Datagram,         \* the datagrams testers may send, as records (see below)
  NoMsg,            \* contents of a message variable before it is first assigned
  MailboxSize,      \* DEFAULT_UDP_RECVMBOX_SIZE, 6 in the firmware
  NetbufPool,       \* MEMP_NUM_NETBUF, 32 in the firmware
  InMsgQueueSize,   \* 16 in the firmware
  TestQueueSize,    \* 8 in the firmware
  OutMsgQueueSize   \* 16 in the firmware

Byte == 0..255
Peripheral == {"UART", "I2C", "SPI", "ADC", "TIM"}
Code == Peripheral \cup {"UNKNOWN"}   \* the bits of the peripheral byte

\* Position of a peripheral in the dispatcher's chain of ifs.
DispatchRank == [UART |-> 1, I2C |-> 2, SPI |-> 3, ADC |-> 4, TIM |-> 5]

Verdict == {"SUCCESS", "FAILED"}

ASSUME DatagramAssumption ==
  /\ NoMsg \notin Datagram
  /\ \A d \in Datagram : /\ d.peripheral \subseteq Code
                         /\ d.n_iter \in Byte
                         /\ d.p_len \in Byte

ASSUME SizeAssumption ==
  /\ MailboxSize \in Nat \ {0}
  /\ NetbufPool \in Nat \ {0}
  /\ InMsgQueueSize \in Nat \ {0}
  /\ TestQueueSize \in Nat \ {0}
  /\ OutMsgQueueSize \in Nat \ {0}

VARIABLES
  network,         \* datagrams that have not reached the UUT yet
  mailbox,         \* the receive mailbox of conn_recv
  freeNetbufs,     \* netbufs left in lwIP's pool
  listenerPc, listenerMsg,
  inMsgQueue,
  dispatcherMsg,   \* the message being dispatched
  dispatcherLeft,  \* the bits of it not handled yet; {} when waiting for a message
  testQueue,       \* uartQueue, i2cQueue, spiQueue, adcQueue, timQueue
  test,            \* the local state of each test task
  outMsgQueue,
  responderPc, responderMsg,
  accepted,        \* history: the messages put into inMsgQueue, in order
  concluded        \* history: the results the responder is done with

netVars == <<network, mailbox, freeNetbufs>>
listenerVars == <<listenerPc, listenerMsg>>
dispatcherVars == <<dispatcherMsg, dispatcherLeft>>
responderVars == <<responderPc, responderMsg>>
vars == <<netVars, listenerVars, inMsgQueue, dispatcherVars, testQueue, test,
          outMsgQueue, responderVars, accepted, concluded>>

-----------------------------------------------------------------------------
\* The tests a datagram asks for: unknown bits are ignored.
Wanted(d) == d.peripheral \cap Peripheral

Valid(d) == Wanted(d) # {} /\ d.n_iter > 0 /\ d.p_len > 0

Init ==
  /\ network = Datagram
  /\ mailbox = << >>
  /\ freeNetbufs = NetbufPool
  /\ listenerPc = "start" /\ listenerMsg = NoMsg
  /\ inMsgQueue = << >>
  /\ dispatcherMsg = NoMsg /\ dispatcherLeft = {}
  /\ testQueue = [p \in Peripheral |-> << >>]
  /\ test = [p \in Peripheral |->
               [pc |-> "get", msg |-> NoMsg, i |-> 0, result |-> "UNSET", runs |-> << >>]]
  /\ outMsgQueue = << >>
  /\ responderPc = "start" /\ responderMsg = NoMsg
  /\ accepted = << >>
  /\ concluded = {}

-----------------------------------------------------------------------------
(* Arrival, in lwIP's tcpip thread.  A datagram gets a netbuf and a place  *)
(* in the mailbox, or it is dropped without a trace.                       *)

Listening == listenerPc \notin {"start", "exited"}

CanDeliver == Listening /\ freeNetbufs > 0 /\ Len(mailbox) < MailboxSize

Deliver(d) ==
  /\ d \in network /\ CanDeliver
  /\ network' = network \ {d}
  /\ mailbox' = Append(mailbox, d)
  /\ freeNetbufs' = freeNetbufs - 1
  /\ UNCHANGED <<listenerVars, inMsgQueue, dispatcherVars, testQueue, test,
                 outMsgQueue, responderVars, accepted, concluded>>

Drop(d) ==
  /\ d \in network /\ ~CanDeliver
  /\ network' = network \ {d}
  /\ UNCHANGED <<mailbox, freeNetbufs, listenerVars, inMsgQueue, dispatcherVars,
                 testQueue, test, outMsgQueue, responderVars, accepted, concluded>>

-----------------------------------------------------------------------------
(* UDP_Listen *)

ListenerStart ==
  /\ listenerPc = "start"
  /\ listenerPc' \in {"recv", "exited"}   \* "exited": no netconn, or bind failed
  /\ UNCHANGED <<netVars, listenerMsg, inMsgQueue, dispatcherVars, testQueue, test,
                 outMsgQueue, responderVars, accepted, concluded>>

\* Mutant: no validation.
ListenerRecvUnchecked ==
  /\ listenerPc = "recv" /\ mailbox # << >>
  /\ mailbox' = Tail(mailbox)
  /\ listenerMsg' = Head(mailbox)
  /\ listenerPc' = "put"
  /\ UNCHANGED <<network, freeNetbufs, inMsgQueue, dispatcherVars, testQueue, test,
                 outMsgQueue, responderVars, accepted, concluded>>

\* Mutant: an invalid message is left without a netbuf_delete.
ListenerRecvLeaking ==
  /\ listenerPc = "recv" /\ mailbox # << >>
  /\ mailbox' = Tail(mailbox)
  /\ listenerMsg' = Head(mailbox)
  /\ listenerPc' = IF Valid(Head(mailbox)) THEN "put" ELSE "recv"
  /\ UNCHANGED <<network, freeNetbufs, inMsgQueue, dispatcherVars, testQueue, test,
                 outMsgQueue, responderVars, accepted, concluded>>

ListenerRecv ==
  /\ listenerPc = "recv" /\ mailbox # << >>
  /\ mailbox' = Tail(mailbox)
  /\ listenerMsg' = Head(mailbox)
  /\ listenerPc' = IF Valid(Head(mailbox)) THEN "put" ELSE "free"
  /\ UNCHANGED <<network, freeNetbufs, inMsgQueue, dispatcherVars, testQueue, test,
                 outMsgQueue, responderVars, accepted, concluded>>

ListenerPut ==
  /\ listenerPc = "put" /\ Len(inMsgQueue) < InMsgQueueSize
  /\ inMsgQueue' = Append(inMsgQueue, listenerMsg)
  /\ accepted' = Append(accepted, listenerMsg)
  /\ listenerPc' = "free"
  /\ UNCHANGED <<netVars, listenerMsg, dispatcherVars, testQueue, test,
                 outMsgQueue, responderVars, concluded>>

ListenerFree ==
  /\ listenerPc = "free"
  /\ freeNetbufs' = freeNetbufs + 1
  /\ listenerPc' = "recv"
  /\ UNCHANGED <<network, mailbox, listenerMsg, inMsgQueue, dispatcherVars, testQueue,
                 test, outMsgQueue, responderVars, accepted, concluded>>

Listener == ListenerStart \/ ListenerRecv \/ ListenerPut \/ ListenerFree

-----------------------------------------------------------------------------
(* TestDispatcherTask *)

DispatcherGet ==
  /\ dispatcherLeft = {} /\ inMsgQueue # << >>
  /\ inMsgQueue' = Tail(inMsgQueue)
  /\ dispatcherMsg' = Head(inMsgQueue)
  /\ dispatcherLeft' = Wanted(Head(inMsgQueue))
  /\ UNCHANGED <<netVars, listenerVars, testQueue, test, outMsgQueue, responderVars,
                 accepted, concluded>>

\* Mutant: the put does not wait for room.
DispatcherPutUnbounded(p) ==
  /\ p \in dispatcherLeft
  /\ \A q \in dispatcherLeft : DispatchRank[p] <= DispatchRank[q]
  /\ testQueue' = [testQueue EXCEPT ![p] = Append(@, dispatcherMsg)]
  /\ dispatcherLeft' = dispatcherLeft \ {p}
  /\ UNCHANGED <<netVars, listenerVars, inMsgQueue, dispatcherMsg, test, outMsgQueue,
                 responderVars, accepted, concluded>>

\* Mutant: a chain of else ifs, only the first peripheral of a message is tested.
DispatcherPutElseIf(p) ==
  /\ p \in dispatcherLeft
  /\ \A q \in dispatcherLeft : DispatchRank[p] <= DispatchRank[q]
  /\ Len(testQueue[p]) < TestQueueSize
  /\ testQueue' = [testQueue EXCEPT ![p] = Append(@, dispatcherMsg)]
  /\ dispatcherLeft' = {}
  /\ UNCHANGED <<netVars, listenerVars, inMsgQueue, dispatcherMsg, test, outMsgQueue,
                 responderVars, accepted, concluded>>

\* The put blocks while p's queue is full, and with it every later peripheral.
DispatcherPut(p) ==
  /\ p \in dispatcherLeft
  /\ \A q \in dispatcherLeft : DispatchRank[p] <= DispatchRank[q]
  /\ Len(testQueue[p]) < TestQueueSize
  /\ testQueue' = [testQueue EXCEPT ![p] = Append(@, dispatcherMsg)]
  /\ dispatcherLeft' = dispatcherLeft \ {p}
  /\ UNCHANGED <<netVars, listenerVars, inMsgQueue, dispatcherMsg, test, outMsgQueue,
                 responderVars, accepted, concluded>>

Dispatcher == DispatcherGet \/ \E p \in Peripheral : DispatcherPut(p)

-----------------------------------------------------------------------------
(* UartTestTask, I2cTestTask, SpiTestTask, AdcTestTask and TimTestTask share *)
(* one loop.  result is declared outside it and keeps its last value.       *)
(* runs is history: the verdicts of the iterations done for the message.    *)

TestGet(p) ==
  /\ test[p].pc = "get" /\ testQueue[p] # << >>
  /\ testQueue' = [testQueue EXCEPT ![p] = Tail(@)]
  /\ test' = [test EXCEPT ![p] = [pc |-> "loop", msg |-> Head(testQueue[p]), i |-> 0,
                                  result |-> test[p].result, runs |-> << >>]]
  /\ UNCHANGED <<netVars, listenerVars, inMsgQueue, dispatcherVars, outMsgQueue,
                 responderVars, accepted, concluded>>

\* Mutant: no break after a failure, a later iteration covers it up.
TestIterateOn(p) ==
  /\ test[p].pc = "loop" /\ test[p].i < test[p].msg.n_iter
  /\ \E v \in Verdict :
       test' = [test EXCEPT ![p] = [pc |-> "loop", msg |-> test[p].msg,
                                    i |-> test[p].i + 1, result |-> v,
                                    runs |-> Append(test[p].runs, v)]]
  /\ UNCHANGED <<netVars, listenerVars, inMsgQueue, dispatcherVars, testQueue,
                 outMsgQueue, responderVars, accepted, concluded>>

TestIterate(p) ==
  /\ test[p].pc = "loop" /\ test[p].i < test[p].msg.n_iter
  /\ \E v \in Verdict :
       test' = [test EXCEPT ![p] = [pc |-> IF v = "FAILED" THEN "put" ELSE "loop",
                                    msg |-> test[p].msg,
                                    i |-> IF v = "FAILED" THEN test[p].i ELSE test[p].i + 1,
                                    result |-> v,
                                    runs |-> Append(test[p].runs, v)]]
  /\ UNCHANGED <<netVars, listenerVars, inMsgQueue, dispatcherVars, testQueue,
                 outMsgQueue, responderVars, accepted, concluded>>

TestLeaveLoop(p) ==
  /\ test[p].pc = "loop" /\ test[p].i >= test[p].msg.n_iter
  /\ test' = [test EXCEPT ![p] = [test[p] EXCEPT !.pc = "put"]]
  /\ UNCHANGED <<netVars, listenerVars, inMsgQueue, dispatcherVars, testQueue,
                 outMsgQueue, responderVars, accepted, concluded>>

\* The OutMsg_t of task p.  peri and runs are history, the wire carries neither.
OutMsg(p) == [req |-> test[p].msg, peri |-> p, result |-> test[p].result,
              runs |-> test[p].runs]

\* Mutant: a put with a timeout of 0, whose failure nobody looks at.
TestPutNoWait(p) ==
  /\ test[p].pc = "put"
  /\ outMsgQueue' = IF Len(outMsgQueue) < OutMsgQueueSize
                      THEN Append(outMsgQueue, OutMsg(p)) ELSE outMsgQueue
  /\ test' = [test EXCEPT ![p] = [test[p] EXCEPT !.pc = "get"]]
  /\ UNCHANGED <<netVars, listenerVars, inMsgQueue, dispatcherVars, testQueue,
                 responderVars, accepted, concluded>>

TestPut(p) ==
  /\ test[p].pc = "put" /\ Len(outMsgQueue) < OutMsgQueueSize
  /\ outMsgQueue' = Append(outMsgQueue, OutMsg(p))
  /\ test' = [test EXCEPT ![p] = [test[p] EXCEPT !.pc = "get"]]
  /\ UNCHANGED <<netVars, listenerVars, inMsgQueue, dispatcherVars, testQueue,
                 responderVars, accepted, concluded>>

Tester(p) == TestGet(p) \/ TestIterate(p) \/ TestLeaveLoop(p) \/ TestPut(p)

-----------------------------------------------------------------------------
(* UDP_Response.  A result whose response cannot be built is skipped.       *)

ResponderStart ==
  /\ responderPc = "start"
  /\ responderPc' \in {"get", "exited"}   \* "exited": no netconn
  /\ UNCHANGED <<netVars, listenerVars, inMsgQueue, dispatcherVars, testQueue, test,
                 outMsgQueue, responderMsg, accepted, concluded>>

ResponderGet ==
  /\ responderPc = "get" /\ outMsgQueue # << >>
  /\ outMsgQueue' = Tail(outMsgQueue)
  /\ responderMsg' = Head(outMsgQueue)
  /\ responderPc' = "new"
  /\ UNCHANGED <<netVars, listenerVars, inMsgQueue, dispatcherVars, testQueue, test,
                 accepted, concluded>>

\* The responder is done with its message; sent tells whether lwIP took the response.
ConcludeAs(sent) ==
  concluded' = concluded \cup {[req |-> responderMsg.req, peri |-> responderMsg.peri,
                                result |-> responderMsg.result, runs |-> responderMsg.runs,
                                sent |-> sent]}

ResponderNew ==
  /\ responderPc = "new"
  /\ \/ freeNetbufs > 0 /\ freeNetbufs' = freeNetbufs - 1
        /\ responderPc' = "alloc" /\ UNCHANGED concluded
     \/ freeNetbufs = 0 /\ UNCHANGED freeNetbufs
        /\ responderPc' = "get" /\ ConcludeAs(FALSE)
  /\ UNCHANGED <<network, mailbox, listenerVars, inMsgQueue, dispatcherVars, testQueue,
                 test, outMsgQueue, responderMsg, accepted>>

\* Mutant: the error path forgets the netbuf_delete.
ResponderAllocLeaking ==
  /\ responderPc = "alloc"
  /\ \/ responderPc' = "send" /\ UNCHANGED concluded
     \/ responderPc' = "get" /\ ConcludeAs(FALSE)
  /\ UNCHANGED <<netVars, listenerVars, inMsgQueue, dispatcherVars, testQueue,
                 test, outMsgQueue, responderMsg, accepted>>

\* netbuf_alloc takes the five bytes from lwIP's heap, which may be exhausted.
ResponderAlloc ==
  /\ responderPc = "alloc"
  /\ \/ responderPc' = "send" /\ UNCHANGED <<freeNetbufs, concluded>>
     \/ responderPc' = "get" /\ freeNetbufs' = freeNetbufs + 1 /\ ConcludeAs(FALSE)
  /\ UNCHANGED <<network, mailbox, listenerVars, inMsgQueue, dispatcherVars, testQueue,
                 test, outMsgQueue, responderMsg, accepted>>

\* A failing netconn_sendto is logged and otherwise treated as a success.
ResponderSend ==
  /\ responderPc = "send"
  /\ responderPc' = "free"
  /\ \E sent \in BOOLEAN : ConcludeAs(sent)
  /\ UNCHANGED <<netVars, listenerVars, inMsgQueue, dispatcherVars, testQueue, test,
                 outMsgQueue, responderMsg, accepted>>

ResponderFree ==
  /\ responderPc = "free"
  /\ responderPc' = "get"
  /\ freeNetbufs' = freeNetbufs + 1
  /\ UNCHANGED <<network, mailbox, listenerVars, inMsgQueue, dispatcherVars, testQueue,
                 test, outMsgQueue, responderMsg, accepted, concluded>>

Responder == \/ ResponderStart \/ ResponderGet \/ ResponderNew
             \/ ResponderAlloc \/ ResponderSend \/ ResponderFree

-----------------------------------------------------------------------------
Network == \E d \in Datagram : Deliver(d) \/ Drop(d)

Next == Network \/ Listener \/ Dispatcher \/ (\E p \in Peripheral : Tester(p)) \/ Responder

\* Each task keeps running while it can.  The tasks have fixed priorities and the
\* only unbounded source of work for the high ones, the network, is finite here.
Fairness ==
  /\ WF_vars(Listener)
  /\ WF_vars(Dispatcher)
  /\ \A p \in Peripheral : WF_vars(Tester(p))
  /\ WF_vars(Responder)

Spec == Init /\ [][Next]_vars
FairSpec == Spec /\ Fairness

-----------------------------------------------------------------------------
(* Type correctness *)

TestState ==
  [pc : {"get", "loop", "put"}, msg : Datagram \cup {NoMsg}, i : Byte,
   result : Verdict \cup {"UNSET"}, runs : Seq(Verdict)]

OutMsgs ==
  [req : Datagram, peri : Peripheral, result : Verdict \cup {"UNSET"}, runs : Seq(Verdict)]

Conclusions ==
  [req : Datagram, peri : Peripheral, result : Verdict \cup {"UNSET"}, runs : Seq(Verdict),
   sent : BOOLEAN]

\* Every variable has its type, every queue is within its capacity, and a task that is
\* past its get has a message: the uint8_t loop counter of a test task never wraps.
TypeOK ==
  /\ network \subseteq Datagram
  /\ mailbox \in Seq(Datagram) /\ Len(mailbox) <= MailboxSize
  /\ freeNetbufs \in 0..NetbufPool
  /\ listenerPc \in {"start", "exited", "recv", "put", "free"}
  /\ listenerMsg \in Datagram \cup {NoMsg}
  /\ listenerPc \in {"put", "free"} => listenerMsg \in Datagram
  /\ inMsgQueue \in Seq(Datagram) /\ Len(inMsgQueue) <= InMsgQueueSize
  /\ dispatcherMsg \in Datagram \cup {NoMsg}
  /\ dispatcherLeft \subseteq Peripheral
  /\ dispatcherLeft # {} => dispatcherMsg \in Datagram
  /\ testQueue \in [Peripheral -> Seq(Datagram)]
  /\ \A p \in Peripheral : Len(testQueue[p]) <= TestQueueSize
  /\ test \in [Peripheral -> TestState]
  /\ \A p \in Peripheral : test[p].pc # "get" => test[p].msg \in Datagram
  /\ outMsgQueue \in Seq(OutMsgs) /\ Len(outMsgQueue) <= OutMsgQueueSize
  /\ responderPc \in {"start", "exited", "get", "new", "alloc", "send", "free"}
  /\ responderMsg \in OutMsgs \cup {NoMsg}
  /\ responderPc \in {"new", "alloc", "send", "free"} => responderMsg \in OutMsgs
  /\ accepted \in Seq(Datagram)
  /\ concluded \subseteq Conclusions

-----------------------------------------------------------------------------
(* Safety *)

\* The k-th of a set of numbers, and the elements of s at a set of places, in their order.
Nth(I, k) == CHOOSE i \in I : Cardinality({j \in I : j <= i}) = k
SelectAt(s, I) == [k \in 1..Cardinality(I) |-> s[Nth(I, k)]]

\* The messages of s that ask for p, and the requests of the results of s that are p's.
For(s, p) == SelectAt(s, {n \in DOMAIN s : p \in Wanted(s[n])})
RequestsOf(s, p) ==
  LET mine == SelectAt(s, {n \in DOMAIN s : s[n].peri = p}) IN [n \in DOMAIN mine |-> mine[n].req]

Only(b, m) == IF b THEN <<m>> ELSE << >>

Responding == responderPc \in {"new", "alloc", "send"}

\* Where p's share of the accepted messages is, the one that is furthest first.
InFlight(p) ==
  (IF Responding THEN RequestsOf(<<responderMsg>>, p) ELSE << >>)
    \o RequestsOf(outMsgQueue, p)
    \o Only(test[p].pc # "get", test[p].msg)
    \o testQueue[p]
    \o Only(p \in dispatcherLeft, dispatcherMsg)
    \o For(inMsgQueue, p)

\* Through five kinds of threads and seven queues nothing is lost, repeated, misrouted or
\* overtaken: for each peripheral the messages under way, read from the responder
\* back to inMsgQueue, are exactly the youngest accepted ones that ask for it, and the
\* responder is done with exactly the older ones.
FlowConserved ==
  \A p \in Peripheral :
    LET all  == For(accepted, p)
        done == Len(all) - Len(InFlight(p))
    IN  /\ done >= 0
        /\ InFlight(p) = SubSeq(all, done + 1, Len(all))
        /\ {c.req : c \in {c \in concluded : c.peri = p}} = {all[n] : n \in 1..done}

\* o's result is that of the iterations run for o's own request: SUCCESS after all n_iter
\* of them succeeded, FAILED after the first failure.
Earned(o) ==
  LET n == Len(o.runs) IN
    /\ n \in 1..o.req.n_iter
    /\ o.result = o.runs[n]
    /\ \A k \in 1..(n - 1) : o.runs[k] = "SUCCESS"
    /\ o.result = "SUCCESS" => n = o.req.n_iter

\* No tester is told the verdict of an earlier request, or an unset one, although the
\* result variable of a test task outlives the request it was set for.
VerdictEarned ==
  /\ \A n \in DOMAIN outMsgQueue : Earned(outMsgQueue[n])
  /\ Responding => Earned(responderMsg)
  /\ \A c \in concluded : Earned(c)

ListenerHolds == IF listenerPc \in {"put", "free"} THEN 1 ELSE 0
ResponderHolds == IF responderPc \in {"alloc", "send", "free"} THEN 1 ELSE 0

\* No path of the listener or of the responder leaks a netbuf or frees one twice: the
\* netbufs out of the pool are those in the mailbox and in the hands of the two tasks.
NetbufsBalanced ==
  freeNetbufs + Len(mailbox) + ListenerHolds + ResponderHolds = NetbufPool

\* With the firmware's sizes (6 and 32) the pool shared by both directions never runs
\* dry: a response is never skipped, nor a datagram dropped, for want of a netbuf.
NetbufsSuffice == NetbufPool >= MailboxSize + 3 => freeNetbufs > 0

\* The pipeline implements the service the testers rely on.
Service == INSTANCE TestService WITH
  Request <- {d \in Datagram : Valid(d)},
  concluded <- {[req |-> c.req, peri |-> c.peri, result |-> c.result] : c \in concluded}

\* Refinement: only valid requests are accepted, each once; a conclusion is for a requested
\* peripheral, the first and only one, and comes in the order of acceptance.
ImplementsService == Service!Spec

-----------------------------------------------------------------------------
(* Liveness *)

IsConcluded(d, p) == \E c \in concluded : c.req = d /\ c.peri = p

\* A valid datagram that made it into the mailbox is tested on every peripheral it names
\* and the responder gets to answer, whatever the load and however full the queues: the
\* blocking puts never form a circle.  The exception is a responder that never started.
EveryRequestConcluded ==
  \A d \in Datagram : \A p \in Wanted(d) :
    (Valid(d) /\ \E n \in DOMAIN mailbox : mailbox[n] = d)
      ~> (IsConcluded(d, p) \/ responderPc = "exited")
=============================================================================
