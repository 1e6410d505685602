----------------------------- MODULE UutPipelineProofs -----------------------------
(* Theorems about UutPipeline, for every set of datagrams and every size. *)
EXTENDS UutPipelineInv, FiniteSetTheorems, WellFoundedInduction, TLAPS

\* The groups of variables that the actions leave unchanged.
USE DEF netVars, listenerVars, dispatcherVars, responderVars

-----------------------------------------------------------------------------
(* Type correctness and the accounting of netbufs.  The two need each other: that a  *)
(* netbuf freed still fits into the pool follows from the account, and the account   *)
(* adds up numbers that the typing declares.                                         *)

\* A step of any task preserves the account of the netbufs, given the typing.
LEMMA NetbufStep == TypeOK /\ NetbufsBalanced /\ [Next]_vars => NetbufsBalanced'
<1> SUFFICES ASSUME TypeOK, NetbufsBalanced, [Next]_vars PROVE NetbufsBalanced'
  OBVIOUS
<1>s. /\ mailbox \in Seq(Datagram) /\ Len(mailbox) \in Nat
      /\ freeNetbufs \in Int /\ NetbufPool \in Int
  BY SizeAssumption DEF TypeOK
<1> USE <1>s DEF NetbufsBalanced, ListenerHolds, ResponderHolds
<1>1. ASSUME NEW d \in Datagram, Deliver(d) PROVE NetbufsBalanced'
  <2>1. Len(mailbox') = Len(mailbox) + 1
    BY <1>1 DEF Deliver
  <2> QED BY <1>1, <2>1 DEF Deliver
<1>2. ASSUME NEW d \in Datagram, Drop(d) PROVE NetbufsBalanced'
  BY <1>2 DEF Drop
<1>3. CASE ListenerStart
  BY <1>3 DEF ListenerStart
<1>4. CASE ListenerRecv
  <2>1. Len(mailbox') = Len(mailbox) - 1
    BY <1>4 DEF ListenerRecv
  <2> QED BY <1>4, <2>1 DEF ListenerRecv
<1>5. CASE ListenerPut
  BY <1>5 DEF ListenerPut
<1>6. CASE ListenerFree
  BY <1>6 DEF ListenerFree
<1>7. CASE Dispatcher \/ \E p \in Peripheral : Tester(p)
  BY <1>7 DEF Dispatcher, DispatcherGet, DispatcherPut, Tester, TestGet, TestIterate,
              TestLeaveLoop, TestPut
<1>8. CASE ResponderStart \/ ResponderGet
  BY <1>8 DEF ResponderStart, ResponderGet
<1>9. CASE ResponderNew
  BY <1>9 DEF ResponderNew, ConcludeAs
<1>10. CASE ResponderAlloc
  BY <1>10 DEF ResponderAlloc, ConcludeAs
<1>11. CASE ResponderSend \/ ResponderFree
  BY <1>11 DEF ResponderSend, ResponderFree
<1>12. CASE UNCHANGED vars
  BY <1>12 DEF vars
<1> QED
  BY <1>1, <1>2, <1>3, <1>4, <1>5, <1>6, <1>7, <1>8, <1>9, <1>10, <1>11, <1>12
     DEF Next, Network, Listener, Responder

\* A loop counter below its limit does not overflow.
LEMMA ByteStep == \A i, n \in Byte : i < n => i + 1 \in Byte
BY DEF Byte

\* What the responder records of a well-typed message is a well-typed conclusion.
LEMMA ConcludeTyped ==
  ASSUME concluded \subseteq Conclusions, responderMsg \in OutMsgs,
         UNCHANGED concluded \/ \E sent \in BOOLEAN : ConcludeAs(sent)
  PROVE  concluded' \subseteq Conclusions
BY DEF ConcludeAs, Conclusions, OutMsgs

\* A step of any task preserves the typing of the variables, given the account.
LEMMA TypeStep == TypeOK /\ NetbufsBalanced /\ [Next]_vars => TypeOK'
<1> SUFFICES ASSUME TypeOK, NetbufsBalanced, [Next]_vars PROVE TypeOK'
  OBVIOUS
<1> USE DatagramAssumption, SizeAssumption DEF TypeOK
<1>1. ASSUME NEW d \in Datagram, Deliver(d) PROVE TypeOK'
  BY <1>1 DEF Deliver, CanDeliver
<1>2. ASSUME NEW d \in Datagram, Drop(d) PROVE TypeOK'
  BY <1>2 DEF Drop
<1>3. CASE ListenerStart
  BY <1>3 DEF ListenerStart
<1>4. CASE ListenerRecv
  BY <1>4 DEF ListenerRecv
<1>5. CASE ListenerPut
  BY <1>5 DEF ListenerPut
<1>6. CASE ListenerFree
  <2>1. freeNetbufs + 1 \in 0..NetbufPool
    BY <1>6 DEF ListenerFree, NetbufsBalanced, ListenerHolds, ResponderHolds
  <2> QED BY <1>6, <2>1 DEF ListenerFree
<1>7. CASE DispatcherGet
  BY <1>7 DEF DispatcherGet, Wanted
<1>8. ASSUME NEW p \in Peripheral, DispatcherPut(p) PROVE TypeOK'
  BY <1>8 DEF DispatcherPut
<1>9. ASSUME NEW p \in Peripheral, TestGet(p) PROVE TypeOK'
  <2>1. Head(testQueue[p]) \in Datagram /\ Tail(testQueue[p]) \in Seq(Datagram)
        /\ Len(Tail(testQueue[p])) <= TestQueueSize
    BY <1>9 DEF TestGet
  <2>2. testQueue' \in [Peripheral -> Seq(Datagram)]
        /\ \A q \in Peripheral : Len(testQueue'[q]) <= TestQueueSize
    BY <1>9, <2>1 DEF TestGet
  <2>3. test' \in [Peripheral -> TestState]
        /\ \A q \in Peripheral : test'[q].pc # "get" => test'[q].msg \in Datagram
    BY <1>9, <2>1 DEF TestGet, TestState, Byte
  <2> QED BY <1>9, <2>2, <2>3 DEF TestGet
<1>10. ASSUME NEW p \in Peripheral, TestIterate(p) PROVE TypeOK'
  <2>1. test[p].msg \in Datagram /\ test[p].msg.n_iter \in Byte /\ test[p].i \in Byte
        /\ test[p].runs \in Seq(Verdict)
    BY <1>10 DEF TestIterate, TestState
  <2>2. PICK v \in Verdict :
          test' = [test EXCEPT ![p] = [pc |-> IF v = "FAILED" THEN "put" ELSE "loop",
                                       msg |-> test[p].msg,
                                       i |-> IF v = "FAILED" THEN test[p].i ELSE test[p].i + 1,
                                       result |-> v,
                                       runs |-> Append(test[p].runs, v)]]
    BY <1>10 DEF TestIterate
  <2>3. test[p].i + 1 \in Byte
    <3>1. test[p].i < test[p].msg.n_iter
      BY <1>10 DEF TestIterate
    <3> QED BY <2>1, <3>1, ByteStep
  <2>4. Append(test[p].runs, v) \in Seq(Verdict)
    BY <2>1
  <2>5. test' \in [Peripheral -> TestState]
        /\ \A q \in Peripheral : test'[q].pc # "get" => test'[q].msg \in Datagram
    BY <2>1, <2>2, <2>3, <2>4 DEF TestState
  <2> QED BY <1>10, <2>5 DEF TestIterate
<1>11. ASSUME NEW p \in Peripheral, TestLeaveLoop(p) PROVE TypeOK'
  <2>1. test' \in [Peripheral -> TestState]
        /\ \A q \in Peripheral : test'[q].pc # "get" => test'[q].msg \in Datagram
    BY <1>11 DEF TestLeaveLoop, TestState
  <2> QED BY <1>11, <2>1 DEF TestLeaveLoop
<1>12. ASSUME NEW p \in Peripheral, TestPut(p) PROVE TypeOK'
  <2>1. OutMsg(p) \in OutMsgs
    BY <1>12 DEF TestPut, TestState, OutMsg, OutMsgs
  <2>2. test' \in [Peripheral -> TestState]
        /\ \A q \in Peripheral : test'[q].pc # "get" => test'[q].msg \in Datagram
    BY <1>12 DEF TestPut, TestState
  <2> QED BY <1>12, <2>1, <2>2 DEF TestPut
<1>13. CASE ResponderStart
  BY <1>13 DEF ResponderStart
<1>14. CASE ResponderGet
  BY <1>14 DEF ResponderGet
<1>15. CASE ResponderNew
  <2>1. freeNetbufs' \in 0..NetbufPool
    BY <1>15 DEF ResponderNew, ConcludeAs
  <2> HIDE DEF TypeOK
  <2>2. responderPc' \in {"alloc", "get"} /\ (UNCHANGED concluded \/ ConcludeAs(FALSE))
    BY <1>15 DEF ResponderNew
  <2> USE DEF TypeOK
  <2>3. responderMsg \in OutMsgs
    BY <1>15 DEF ResponderNew
  <2>4. concluded' \subseteq Conclusions
    BY <2>2, <2>3, ConcludeTyped
  <2> QED BY <1>15, <2>1, <2>2, <2>3, <2>4 DEF ResponderNew
<1>16. CASE ResponderAlloc
  <2>1. freeNetbufs + 1 \in 0..NetbufPool
    BY <1>16 DEF ResponderAlloc, NetbufsBalanced, ListenerHolds, ResponderHolds
  <2>2. freeNetbufs' \in 0..NetbufPool /\ responderPc' \in {"send", "get"}
        /\ responderMsg \in OutMsgs
        /\ (UNCHANGED concluded \/ ConcludeAs(FALSE))
    BY <1>16, <2>1 DEF ResponderAlloc
  <2>3. concluded' \subseteq Conclusions
    BY <2>2, ConcludeTyped
  <2> QED BY <1>16, <2>2, <2>3 DEF ResponderAlloc
<1>17. CASE ResponderSend
  <2>1. concluded' \subseteq Conclusions
    BY <1>17, ConcludeTyped DEF ResponderSend
  <2> QED BY <1>17, <2>1 DEF ResponderSend
<1>18. CASE ResponderFree
  <2>1. freeNetbufs + 1 \in 0..NetbufPool
    BY <1>18 DEF ResponderFree, NetbufsBalanced, ListenerHolds, ResponderHolds
  <2> QED BY <1>18, <2>1 DEF ResponderFree
<1>19. CASE UNCHANGED vars
  BY <1>19 DEF vars
<1> QED
  BY <1>1, <1>2, <1>3, <1>4, <1>5, <1>6, <1>7, <1>8, <1>9, <1>10, <1>11, <1>12,
     <1>13, <1>14, <1>15, <1>16, <1>17, <1>18, <1>19
     DEF Next, Network, Listener, Dispatcher, Tester, Responder

-----------------------------------------------------------------------------
(* Facts about sequences and about the order of acceptance *)

\* The elements of a sequence without its head.
LEMMA TailElements ==
  ASSUME NEW S, NEW q \in Seq(S), q # << >>
  PROVE  /\ Head(q) \in S /\ 1 \in DOMAIN q /\ Head(q) = q[1]
         /\ Tail(q) \in Seq(S)
         /\ \A n \in DOMAIN Tail(q) : n + 1 \in DOMAIN q /\ Tail(q)[n] = q[n + 1]
         /\ \A n \in DOMAIN q : n # 1 => n - 1 \in DOMAIN Tail(q) /\ Tail(q)[n - 1] = q[n]
         /\ DOMAIN q \subseteq Nat /\ DOMAIN Tail(q) \subseteq Nat
         /\ \A n \in DOMAIN q : n >= 1
         /\ \A n \in DOMAIN Tail(q) : n >= 1
OBVIOUS

\* The elements of a sequence with one more at its end.
LEMMA AppendElements ==
  ASSUME NEW S, NEW q \in Seq(S), NEW x \in S
  PROVE  /\ Append(q, x) \in Seq(S)
         /\ DOMAIN Append(q, x) = DOMAIN q \cup {Len(q) + 1}
         /\ \A n \in DOMAIN q : Append(q, x)[n] = q[n] /\ n <= Len(q)
         /\ Append(q, x)[Len(q) + 1] = x
         /\ DOMAIN q \subseteq Nat /\ Len(q) \in Nat
OBVIOUS

\* The order of acceptance is strict.
LEMMA OlderStrict ==
  ASSUME TypeOK, AcceptedOnce
  PROVE  /\ \A d \in Datagram : <<d, d>> \notin Older
         /\ \A d, e \in Datagram : <<d, e>> \in Older => <<e, d>> \notin Older
<1>1. \A m, n \in DOMAIN accepted : accepted[m] = accepted[n] => m = n
  BY DEF AcceptedOnce
<1>2. DOMAIN accepted \subseteq Nat
  BY DEF TypeOK
<1> QED
  BY <1>1, <1>2 DEF Older

\* While nothing is accepted, the accepted datagrams and their order stay.
LEMMA OlderSame ==
  ASSUME UNCHANGED accepted
  PROVE  Older' = Older /\ Accepted' = Accepted
BY DEF Older, Accepted

-----------------------------------------------------------------------------
(* Moving one datagram from a stage to the next one *)

\* From L to M, the tests of d on the peripherals P move from stage k to stage k + 1.
Moved(L, M, k, d, P) ==
  M = {t \in L : ~(t[1] = k /\ t[2] = d /\ t[3] \in P)} \cup {<<k + 1, d, p>> : p \in P}

\* At stage k no test on a peripheral in P is older than that of d.
Oldest(k, d, P) ==
  \A t \in Whereabouts : t[1] = k /\ t[3] \in P => t[2] = d \/ <<d, t[2]>> \in Older

\* Moving the oldest test of a stage to the next stage loses no test, invents none and
\* keeps the order along the pipeline.
LEMMA MoveOldest ==
  ASSUME OnlyRequested, NothingLost, InOrder, UNCHANGED accepted,
         NEW k \in 0..5, NEW d \in Datagram, NEW P \in SUBSET Peripheral,
         \A p \in P : <<k, d, p>> \in Whereabouts,
         Oldest(k, d, P),
         Moved(Whereabouts, Whereabouts', k, d, P)
  PROVE  OnlyRequested' /\ NothingLost' /\ InOrder'
<1> DEFINE W == Whereabouts
<1>0. Older' = Older /\ Accepted' = Accepted
  BY OlderSame
<1>1. W \subseteq Stage \X Datagram \X Peripheral
  BY DEF Whereabouts
<1>2. W' = {t \in W : ~(t[1] = k /\ t[2] = d /\ t[3] \in P)} \cup {<<k + 1, d, p>> : p \in P}
  BY DEF Moved
<1> HIDE DEF W
<1>3. OnlyRequested'
  <2> SUFFICES ASSUME NEW t \in W' PROVE t[2] \in Accepted /\ t[3] \in Wanted(t[2])
    BY <1>0 DEF OnlyRequested, W
  <2>1. \A u \in W : u[2] \in Accepted /\ u[3] \in Wanted(u[2])
    BY DEF OnlyRequested, W
  <2>2. CASE t \in W
    BY <2>1, <2>2
  <2>3. CASE \E p \in P : t = <<k + 1, d, p>>
    <3>1. PICK p \in P : t = <<k + 1, d, p>>
      BY <2>3
    <3>2. <<k, d, p>> \in W
      BY DEF W
    <3> QED BY <3>1, <3>2, <2>1
  <2> QED BY <1>2, <2>2, <2>3
<1>4. NothingLost'
  <2> SUFFICES ASSUME NEW e \in Accepted, NEW p \in Wanted(e)
               PROVE  \E j \in Stage : <<j, e, p>> \in W'
    BY <1>0 DEF NothingLost, W
  <2>1. PICK j \in Stage : <<j, e, p>> \in W
    BY DEF NothingLost, W
  <2>2. CASE j = k /\ e = d /\ p \in P
    BY <2>2, <1>2 DEF Stage
  <2>3. CASE ~(j = k /\ e = d /\ p \in P)
    BY <2>1, <2>3, <1>2
  <2> QED BY <2>2, <2>3
<1>5. InOrder'
  <2> SUFFICES ASSUME NEW t \in W', NEW u \in W', t[3] = u[3], t[1] < u[1]
               PROVE  <<u[2], t[2]>> \in Older
    BY <1>0 DEF InOrder, W
  <2>1. \A a, b \in W : a[3] = b[3] /\ a[1] < b[1] => <<b[2], a[2]>> \in Older
    BY DEF InOrder, W
  <2>2. CASE t \in W /\ u \in W
    BY <2>1, <2>2
  <2>3. CASE \E p \in P : t = <<k + 1, d, p>>
    <3>1. PICK p \in P : t = <<k + 1, d, p>>
      BY <2>3
    <3>2. u \in W /\ u[3] = p /\ k < u[1]
      BY <3>1, <1>1, <1>2 DEF Stage
    <3> QED BY <3>1, <3>2, <2>1 DEF W
  <2>4. CASE t \in W /\ \E p \in P : u = <<k + 1, d, p>>
    <3>1. PICK p \in P : u = <<k + 1, d, p>>
      BY <2>4
    <3>2. t[3] = p /\ t[1] \in 0..6 /\ t[1] <= k
      BY <3>1, <2>4, <1>1 DEF Stage
    <3>3. CASE t[1] < k
      BY <3>1, <3>2, <3>3, <2>1, <2>4 DEF W
    <3>4. CASE t[1] = k
      <4>1. t[2] # d \/ t = <<k + 1, d, p>>
        BY <3>2, <3>4, <1>2
      <4> QED BY <4>1, <3>1, <3>2, <3>4, <2>4 DEF Oldest, W
    <3> QED BY <3>2, <3>3, <3>4
  <2> QED BY <1>2, <2>2, <2>3, <2>4
<1> QED BY <1>3, <1>4, <1>5

\* The steps that move a datagram from one stage to the next.  What a step does to the
\* predicate At determines what it does to the set Whereabouts.
LEMMA MoveByAt ==
  ASSUME NEW k \in 0..5, NEW d \in Datagram, NEW P \in SUBSET Peripheral,
         \A j \in Stage : \A e \in Datagram : \A q \in Peripheral :
           At(j, e, q)' <=> (At(j, e, q) /\ ~(j = k /\ e = d /\ q \in P))
                              \/ (j = k + 1 /\ e = d /\ q \in P)
  PROVE  Moved(Whereabouts, Whereabouts', k, d, P)
<1>1. Whereabouts' = {t \in Stage \X Datagram \X Peripheral : At(t[1], t[2], t[3])'}
  BY DEF Whereabouts
<1>2. \A p \in P : <<k + 1, d, p>> \in Stage \X Datagram \X Peripheral
  BY DEF Stage
<1>3. \A t \in Stage \X Datagram \X Peripheral :
        t \in Whereabouts' <=> (t \in Whereabouts /\ ~(t[1] = k /\ t[2] = d /\ t[3] \in P))
                                \/ (t[1] = k + 1 /\ t[2] = d /\ t[3] \in P)
  BY <1>1 DEF Whereabouts
<1> DEFINE R == {t \in Whereabouts : ~(t[1] = k /\ t[2] = d /\ t[3] \in P)}
                \cup {<<k + 1, d, p>> : p \in P}
<1>4. R \subseteq Stage \X Datagram \X Peripheral
  BY <1>2 DEF Whereabouts
<1>5. ASSUME NEW t \in Whereabouts' PROVE t \in R
  <2>1. t \in Stage \X Datagram \X Peripheral
    BY <1>1
  <2>2. CASE t[1] = k + 1 /\ t[2] = d /\ t[3] \in P
    <3>1. t = <<k + 1, d, t[3]>>
      BY <2>1, <2>2
    <3> QED BY <3>1, <2>2
  <2> QED BY <2>1, <2>2, <1>3
<1>6. ASSUME NEW t \in R PROVE t \in Whereabouts'
  <2>1. t \in Stage \X Datagram \X Peripheral
    BY <1>4
  <2>2. CASE t \in {u \in Whereabouts : ~(u[1] = k /\ u[2] = d /\ u[3] \in P)}
    <3>1. t \in Whereabouts /\ ~(t[1] = k /\ t[2] = d /\ t[3] \in P)
      BY <2>2
    <3> QED BY <2>1, <3>1, <1>3
  <2>3. CASE \E p \in P : t = <<k + 1, d, p>>
    <3>1. t[1] = k + 1 /\ t[2] = d /\ t[3] \in P
      BY <2>3
    <3> QED BY <2>1, <3>1, <1>3
  <2> QED BY <2>2, <2>3
<1> QED
  BY <1>5, <1>6 DEF Moved

\* A step that changes no stage keeps everything said about them.
LEMMA StayByAt ==
  ASSUME OnlyRequested, NothingLost, InOrder, UNCHANGED accepted,
         \A j \in Stage : \A e \in Datagram : \A q \in Peripheral :
           At(j, e, q)' <=> At(j, e, q)
  PROVE  OnlyRequested' /\ NothingLost' /\ InOrder'
<1>1. Older' = Older /\ Accepted' = Accepted
  BY OlderSame
<1>2. Whereabouts' = Whereabouts
  BY DEF Whereabouts
<1> QED
  BY <1>1, <1>2 DEF OnlyRequested, NothingLost, InOrder

-----------------------------------------------------------------------------
(* The invariant of the listener's side *)

\* What the listener's put does to the accepted datagrams and to their order.
LEMMA PutAccepts ==
  ASSUME TypeOK, ListenerPut
  PROVE  /\ listenerMsg \in Datagram
         /\ Accepted' = Accepted \cup {listenerMsg}
         /\ Older' = Older \cup {<<e, listenerMsg>> : e \in Accepted}
<1>1. listenerMsg \in Datagram /\ accepted \in Seq(Datagram)
  BY DEF ListenerPut, TypeOK
<1>2. accepted' = Append(accepted, listenerMsg)
  BY DEF ListenerPut
<1>3. /\ DOMAIN accepted' = DOMAIN accepted \cup {Len(accepted) + 1}
      /\ \A n \in DOMAIN accepted : accepted'[n] = accepted[n] /\ n <= Len(accepted)
      /\ accepted'[Len(accepted) + 1] = listenerMsg
      /\ DOMAIN accepted \subseteq Nat /\ Len(accepted) \in Nat
  BY <1>1, <1>2, AppendElements
<1>4. Accepted' = Accepted \cup {listenerMsg}
  BY <1>1, <1>3 DEF Accepted
<1>5. ASSUME NEW d \in Datagram, NEW e \in Datagram
      PROVE  <<d, e>> \in Older' <=> <<d, e>> \in Older \/ (d \in Accepted /\ e = listenerMsg)
  <2>1. <<d, e>> \in Older' =>
          <<d, e>> \in Older \/ (d \in Accepted /\ e = listenerMsg)
    BY <1>3 DEF Older, Accepted
  <2>2. <<d, e>> \in Older => <<d, e>> \in Older'
    BY <1>3 DEF Older
  <2>3. d \in Accepted /\ e = listenerMsg => <<d, e>> \in Older'
    <3> SUFFICES ASSUME d \in Accepted, e = listenerMsg PROVE <<d, e>> \in Older'
      OBVIOUS
    <3>1. PICK n \in DOMAIN accepted : accepted[n] = d
      BY DEF Accepted
    <3>2. n < Len(accepted) + 1
      BY <1>3
    <3> QED BY <1>3, <3>1, <3>2 DEF Older
  <2> QED BY <2>1, <2>2, <2>3
<1>6. Older' \subseteq Datagram \X Datagram /\ Older \subseteq Datagram \X Datagram
      /\ Accepted \subseteq Datagram
  BY DEF Older, Accepted
<1>7. Older' = Older \cup {<<e, listenerMsg>> : e \in Accepted}
  BY <1>1, <1>5, <1>6
<1> QED BY <1>1, <1>4, <1>7

\* A step of any task keeps datagrams from being accepted twice or unchecked.
LEMMA AcceptedOnceStep == TypeOK /\ AcceptedOnce /\ [Next]_vars => AcceptedOnce'
<1> SUFFICES ASSUME TypeOK, AcceptedOnce, [Next]_vars PROVE AcceptedOnce'
  OBVIOUS
<1>t. mailbox \in Seq(Datagram) /\ accepted \in Seq(Datagram) /\ network \subseteq Datagram
      /\ Accepted \subseteq Datagram
  BY DEF TypeOK, Accepted
<1>s. UNCHANGED accepted => Accepted' = Accepted
  BY OlderSame
<1>1. ASSUME NEW d \in Datagram, Deliver(d) PROVE AcceptedOnce'
  <2>1. /\ DOMAIN mailbox' = DOMAIN mailbox \cup {Len(mailbox) + 1}
        /\ \A n \in DOMAIN mailbox : mailbox'[n] = mailbox[n] /\ n <= Len(mailbox)
        /\ mailbox'[Len(mailbox) + 1] = d
        /\ DOMAIN mailbox \subseteq Nat /\ Len(mailbox) \in Nat
    BY <1>1, <1>t, AppendElements DEF Deliver
  <2>2. d \in network /\ network' = network \ {d} /\ d \notin network'
        /\ UNCHANGED <<accepted, listenerPc, listenerMsg>>
    BY <1>1 DEF Deliver
  <2> QED BY <1>s, <2>1, <2>2 DEF AcceptedOnce
<1>2. ASSUME NEW d \in Datagram, Drop(d) PROVE AcceptedOnce'
  BY <1>2, <1>s DEF Drop, AcceptedOnce
<1>3. CASE ListenerStart
  BY <1>3, <1>s DEF ListenerStart, AcceptedOnce
<1>4. CASE ListenerRecv
  <2>1. /\ Head(mailbox) = mailbox[1] /\ 1 \in DOMAIN mailbox
        /\ \A n \in DOMAIN mailbox' : n + 1 \in DOMAIN mailbox /\ mailbox'[n] = mailbox[n + 1]
        /\ DOMAIN mailbox' \subseteq Nat /\ \A n \in DOMAIN mailbox : n >= 1
        /\ 0 \notin DOMAIN mailbox'
    BY <1>4, <1>t, TailElements DEF ListenerRecv
  <2>2. /\ UNCHANGED <<network, accepted>> /\ listenerMsg' = mailbox[1]
        /\ listenerPc' = "put" => Valid(mailbox[1])
    BY <1>4, <2>1 DEF ListenerRecv
  <2>3. \A n \in DOMAIN mailbox' : mailbox'[n] # mailbox[1]
    BY <2>1 DEF AcceptedOnce
  <2>4. \A m, n \in DOMAIN mailbox' : mailbox'[m] = mailbox'[n] => m = n
    BY <2>1 DEF AcceptedOnce
  <2>5. Valid(listenerMsg)' <=> Valid(listenerMsg')
    BY DEF Valid, Wanted
  <2>6. \A d \in Datagram : Valid(d)' <=> Valid(d)
    BY DEF Valid, Wanted
  <2> QED BY <1>s, <1>t, <2>1, <2>2, <2>3, <2>4, <2>5, <2>6 DEF AcceptedOnce
<1>5. CASE ListenerPut
  <2>1. /\ DOMAIN accepted' = DOMAIN accepted \cup {Len(accepted) + 1}
        /\ \A n \in DOMAIN accepted : accepted'[n] = accepted[n] /\ n <= Len(accepted)
        /\ accepted'[Len(accepted) + 1] = listenerMsg
        /\ DOMAIN accepted \subseteq Nat /\ Len(accepted) \in Nat
    BY <1>5, <1>t, PutAccepts, AppendElements DEF ListenerPut
  <2>2. Accepted' = Accepted \cup {listenerMsg} /\ listenerMsg \in Datagram
    BY <1>5, PutAccepts
  <2>3. listenerPc = "put" /\ listenerPc' = "free"
        /\ UNCHANGED <<network, mailbox, listenerMsg>>
    BY <1>5 DEF ListenerPut
  <2>4. \A n \in DOMAIN accepted : accepted[n] # listenerMsg
    BY <2>2, <2>3, <1>t DEF AcceptedOnce, Accepted
  <2>5. \A m, n \in DOMAIN accepted' : accepted'[m] = accepted'[n] => m = n
    BY <2>1, <2>4 DEF AcceptedOnce
  <2> QED BY <2>2, <2>3, <2>5 DEF AcceptedOnce
<1>6. CASE ListenerFree
  BY <1>6, <1>s DEF ListenerFree, AcceptedOnce
<1>7. CASE Dispatcher \/ (\E p \in Peripheral : Tester(p)) \/ Responder \/ UNCHANGED vars
  <2>1. UNCHANGED <<network, mailbox, listenerPc, listenerMsg, accepted>>
    BY <1>7 DEF Dispatcher, DispatcherGet, DispatcherPut, Tester, TestGet, TestIterate,
                TestLeaveLoop, TestPut, Responder, ResponderStart, ResponderGet,
                ResponderNew, ResponderAlloc, ResponderSend, ResponderFree, ConcludeAs, vars
  <2> QED BY <1>s, <2>1 DEF AcceptedOnce
<1> QED
  BY <1>1, <1>2, <1>3, <1>4, <1>5, <1>6, <1>7 DEF Next, Network, Listener

-----------------------------------------------------------------------------
(* The stages: what each step does to them *)

Stages == OnlyRequested /\ NothingLost /\ InOrder

\* The listener's put brings the tests of a new datagram to stage 0, the youngest of all.
LEMMA StagesPut == TypeOK /\ AcceptedOnce /\ Stages /\ ListenerPut => Stages'
<1> SUFFICES ASSUME TypeOK, AcceptedOnce, Stages, ListenerPut PROVE Stages'
  OBVIOUS
<1> DEFINE W == Whereabouts
           new == {<<0, listenerMsg, p>> : p \in Wanted(listenerMsg)}
<1>1. /\ listenerMsg \in Datagram /\ Accepted' = Accepted \cup {listenerMsg}
      /\ Older' = Older \cup {<<e, listenerMsg>> : e \in Accepted}
  BY PutAccepts
<1>2. inMsgQueue \in Seq(Datagram) /\ inMsgQueue' = Append(inMsgQueue, listenerMsg)
      /\ UNCHANGED <<dispatcherVars, testQueue, test, outMsgQueue, responderVars, concluded>>
  BY DEF ListenerPut, TypeOK
<1>3. /\ DOMAIN inMsgQueue' = DOMAIN inMsgQueue \cup {Len(inMsgQueue) + 1}
      /\ \A n \in DOMAIN inMsgQueue : inMsgQueue'[n] = inMsgQueue[n]
      /\ inMsgQueue'[Len(inMsgQueue) + 1] = listenerMsg
  BY <1>1, <1>2, AppendElements
<1>4. ASSUME NEW j \in Stage, NEW e \in Datagram, NEW q \in Peripheral
      PROVE  At(j, e, q)' <=> At(j, e, q) \/ (j = 0 /\ e = listenerMsg /\ q \in Wanted(e))
  BY <1>2, <1>3 DEF At, Responding, IsConcluded, Wanted
<1>5. W' = W \cup new
  <2>1. W' = {t \in Stage \X Datagram \X Peripheral : At(t[1], t[2], t[3])'}
    BY DEF Whereabouts
  <2>2. new \subseteq Stage \X Datagram \X Peripheral
    BY <1>1 DEF Stage, Wanted
  <2>3. ASSUME NEW t \in W' PROVE t \in W \cup new
    <3>1. t \in Stage \X Datagram \X Peripheral /\ At(t[1], t[2], t[3])'
      BY <2>1
    <3>2. At(t[1], t[2], t[3]) \/ (t[1] = 0 /\ t[2] = listenerMsg /\ t[3] \in Wanted(t[2]))
      BY <3>1, <1>4
    <3>3. CASE At(t[1], t[2], t[3])
      BY <3>1, <3>3 DEF Whereabouts
    <3>4. CASE t[1] = 0 /\ t[2] = listenerMsg /\ t[3] \in Wanted(t[2])
      <4>1. t = <<0, listenerMsg, t[3]>>
        BY <3>1, <3>4
      <4> QED BY <4>1, <3>4
    <3> QED BY <3>2, <3>3, <3>4
  <2>4. ASSUME NEW t \in W PROVE t \in W'
    <3>1. t \in Stage \X Datagram \X Peripheral /\ At(t[1], t[2], t[3])
      BY DEF Whereabouts
    <3> QED BY <3>1, <2>1, <1>4
  <2>5. ASSUME NEW t \in new PROVE t \in W'
    <3>1. t \in Stage \X Datagram \X Peripheral
      BY <2>2
    <3>2. t[1] = 0 /\ t[2] = listenerMsg /\ t[3] \in Wanted(t[2])
      OBVIOUS
    <3> QED BY <3>1, <3>2, <2>1, <1>4
  <2> QED BY <2>3, <2>4, <2>5
<1>6. W \subseteq Stage \X Datagram \X Peripheral
  BY DEF Whereabouts
<1>7. \A t \in W : t[2] \in Accepted /\ t[3] \in Wanted(t[2])
  BY DEF Stages, OnlyRequested
<1>8. listenerMsg \notin Accepted
  BY DEF ListenerPut, AcceptedOnce
<1> HIDE DEF W
<1>9. OnlyRequested'
  <2>1. \A t \in new : t[2] = listenerMsg /\ t[3] \in Wanted(t[2])
    OBVIOUS
  <2>2. \A t \in W' : t[2] \in Accepted' /\ t[3] \in Wanted(t[2])
    BY <1>1, <1>5, <1>7, <2>1
  <2> QED BY <2>2 DEF OnlyRequested, W, Wanted
<1>10. NothingLost'
  <2>1. \A d \in Accepted : \A p \in Wanted(d) : \E k \in Stage : <<k, d, p>> \in W'
    BY <1>5 DEF Stages, NothingLost, W
  <2>2. \A p \in Wanted(listenerMsg) : <<0, listenerMsg, p>> \in W' /\ 0 \in Stage
    BY <1>5 DEF Stage
  <2>3. \A d \in Accepted' : \A p \in Wanted(d) : \E k \in Stage : <<k, d, p>> \in W'
    BY <1>1, <2>1, <2>2
  <2> QED BY <2>3 DEF NothingLost, W, Wanted
<1>11. InOrder'
  <2>1. \A t, u \in W : t[3] = u[3] /\ t[1] < u[1] => <<u[2], t[2]>> \in Older
    BY DEF Stages, InOrder, W
  <2> SUFFICES ASSUME NEW t \in W', NEW u \in W', t[3] = u[3], t[1] < u[1]
               PROVE  <<u[2], t[2]>> \in Older'
    BY DEF InOrder, W
  <2>2. t[1] \in 0..6 /\ u[1] \in 0..6 /\ u[1] # 0
    BY <1>5, <1>6 DEF Stage
  <2>3. u \in W
    BY <2>2, <1>5
  <2>4. CASE t \in W
    BY <2>1, <2>3, <2>4, <1>1
  <2>5. CASE t \in new
    BY <2>3, <2>5, <1>1, <1>7
  <2> QED BY <2>4, <2>5, <1>5
<1> QED BY <1>9, <1>10, <1>11 DEF Stages

\* The dispatcher takes the oldest datagram of inMsgQueue with all its tests.
LEMMA DispatcherGetStep ==
  TypeOK /\ AcceptedOnce /\ Stages /\ QueuesInOrder /\ DispatcherGet
    => Stages' /\ QueuesInOrder'
<1> SUFFICES ASSUME TypeOK, AcceptedOnce, Stages, QueuesInOrder, DispatcherGet
             PROVE  Stages' /\ QueuesInOrder'
  OBVIOUS
<1> DEFINE d == Head(inMsgQueue)
           P == Wanted(d)
<1>1. inMsgQueue \in Seq(Datagram) /\ inMsgQueue # << >> /\ inMsgQueue' = Tail(inMsgQueue)
      /\ dispatcherLeft = {} /\ dispatcherMsg' = d /\ dispatcherLeft' = P
      /\ UNCHANGED <<testQueue, test, outMsgQueue, responderVars, accepted, concluded>>
  BY DEF DispatcherGet, TypeOK
<1>2. /\ d \in Datagram /\ 1 \in DOMAIN inMsgQueue /\ d = inMsgQueue[1]
      /\ \A n \in DOMAIN inMsgQueue' : n + 1 \in DOMAIN inMsgQueue
                                      /\ inMsgQueue'[n] = inMsgQueue[n + 1]
      /\ \A n \in DOMAIN inMsgQueue : n # 1 => n - 1 \in DOMAIN inMsgQueue'
                                              /\ inMsgQueue'[n - 1] = inMsgQueue[n]
      /\ DOMAIN inMsgQueue \subseteq Nat /\ DOMAIN inMsgQueue' \subseteq Nat
      /\ \A n \in DOMAIN inMsgQueue : n >= 1
      /\ inMsgQueue' \in Seq(Datagram)
  BY <1>1, TailElements
<1>3. \A m, n \in DOMAIN inMsgQueue : m < n => <<inMsgQueue[m], inMsgQueue[n]>> \in Older
  BY DEF QueuesInOrder
<1>4. \A n \in DOMAIN inMsgQueue : n # 1 => <<d, inMsgQueue[n]>> \in Older
                                          /\ inMsgQueue[n] # d
  <2> SUFFICES ASSUME NEW n \in DOMAIN inMsgQueue, n # 1
               PROVE  <<d, inMsgQueue[n]>> \in Older /\ inMsgQueue[n] # d
    OBVIOUS
  <2>1. <<inMsgQueue[1], inMsgQueue[n]>> \in Older
    <3>1. 1 < n
      BY <1>2
    <3> QED BY <3>1, <1>2, <1>3
  <2> QED BY <2>1, <1>2, OlderStrict
<1> HIDE DEF d
<1>5. ASSUME NEW e \in Datagram
      PROVE  (\E n \in DOMAIN inMsgQueue' : inMsgQueue'[n] = e)
               <=> (e # d /\ \E n \in DOMAIN inMsgQueue : inMsgQueue[n] = e)
  <2>1. ASSUME NEW n \in DOMAIN inMsgQueue', inMsgQueue'[n] = e
        PROVE  e # d /\ \E m \in DOMAIN inMsgQueue : inMsgQueue[m] = e
    <3>1. n + 1 \in DOMAIN inMsgQueue /\ inMsgQueue[n + 1] = e /\ n + 1 # 1
      BY <2>1, <1>2, <1>1
    <3> QED BY <3>1, <1>4
  <2>2. ASSUME e # d, NEW n \in DOMAIN inMsgQueue, inMsgQueue[n] = e
        PROVE  \E m \in DOMAIN inMsgQueue' : inMsgQueue'[m] = e
    BY <2>2, <1>2
  <2> QED BY <2>1, <2>2
<1>6. ASSUME NEW j \in Stage, NEW e \in Datagram, NEW q \in Peripheral
      PROVE  At(j, e, q)' <=> (At(j, e, q) /\ ~(j = 0 /\ e = d /\ q \in P))
                                \/ (j = 0 + 1 /\ e = d /\ q \in P)
  BY <1>1, <1>5 DEF At, Responding, IsConcluded, Wanted
<1>7. P \in SUBSET Peripheral
  BY DEF Wanted
<1> HIDE DEF P
<1>8. Moved(Whereabouts, Whereabouts', 0, d, P)
  BY <1>2, <1>6, <1>7, MoveByAt
<1>9. \A p \in P : <<0, d, p>> \in Whereabouts
  BY <1>2, <1>7 DEF Whereabouts, At, Stage, P
<1>10. Oldest(0, d, P)
  <2> SUFFICES ASSUME NEW t \in Whereabouts, t[1] = 0
               PROVE  t[2] = d \/ <<d, t[2]>> \in Older
    BY DEF Oldest
  <2>1. \E n \in DOMAIN inMsgQueue : inMsgQueue[n] = t[2]
    BY DEF Whereabouts, At
  <2> QED BY <2>1, <1>2, <1>4
<1>11. Stages'
  BY <1>1, <1>2, <1>7, <1>8, <1>9, <1>10, MoveOldest DEF Stages
<1>12. QueuesInOrder'
  <2>1. Older' = Older /\ Accepted' = Accepted
    BY <1>1, OlderSame
  <2>2. ASSUME NEW m \in DOMAIN inMsgQueue', NEW n \in DOMAIN inMsgQueue', m < n
        PROVE  <<inMsgQueue'[m], inMsgQueue'[n]>> \in Older
    <3>1. m + 1 \in DOMAIN inMsgQueue /\ n + 1 \in DOMAIN inMsgQueue /\ m + 1 < n + 1
      BY <1>2, <2>2
    <3> QED BY <3>1, <1>2, <1>3
  <2>3. ASSUME NEW n \in DOMAIN inMsgQueue' PROVE inMsgQueue'[n] \in Accepted
    BY <1>2 DEF QueuesInOrder
  <2> QED BY <1>1, <2>1, <2>2, <2>3 DEF QueuesInOrder
<1> QED BY <1>11, <1>12

\* Moving a single test to the next stage.
LEMMA MoveOne ==
  ASSUME Stages, UNCHANGED accepted,
         NEW k \in 0..5, NEW d \in Datagram, NEW p \in Peripheral,
         At(k, d, p),
         \A e \in Datagram : At(k, e, p) => e = d \/ <<d, e>> \in Older,
         \A j \in Stage : \A e \in Datagram : \A r \in Peripheral :
           At(j, e, r)' <=> (At(j, e, r) /\ ~(j = k /\ e = d /\ r = p))
                              \/ (j = k + 1 /\ e = d /\ r = p)
  PROVE  Stages'
<1> DEFINE P == {p}
<1>1. P \in SUBSET Peripheral
  OBVIOUS
<1>2. \A r \in P : <<k, d, r>> \in Whereabouts
  BY DEF Whereabouts, Stage
<1>3. Oldest(k, d, P)
  BY DEF Oldest, Whereabouts
<1>4. \A j \in Stage : \A e \in Datagram : \A r \in Peripheral :
        At(j, e, r)' <=> (At(j, e, r) /\ ~(j = k /\ e = d /\ r \in P))
                           \/ (j = k + 1 /\ e = d /\ r \in P)
  OBVIOUS
<1> HIDE DEF P
<1>5. Moved(Whereabouts, Whereabouts', k, d, P)
  BY <1>1, <1>4, MoveByAt
<1>6. OnlyRequested /\ NothingLost /\ InOrder
  BY DEF Stages
<1>7. OnlyRequested' /\ NothingLost' /\ InOrder'
  BY <1>1, <1>2, <1>3, <1>5, <1>6, MoveOldest
<1> QED BY <1>7 DEF Stages

\* The dispatcher puts its datagram behind older ones into the queue of p.
LEMMA DispatcherPutStep ==
  ASSUME TypeOK, AcceptedOnce, Stages, QueuesInOrder, NEW p \in Peripheral, DispatcherPut(p)
  PROVE  Stages' /\ QueuesInOrder'
<1> DEFINE d == dispatcherMsg
           q == testQueue[p]
<1>1. /\ d \in Datagram /\ p \in dispatcherLeft /\ q \in Seq(Datagram)
      /\ testQueue' = [testQueue EXCEPT ![p] = Append(q, d)]
      /\ testQueue \in [Peripheral -> Seq(Datagram)]
      /\ dispatcherLeft' = dispatcherLeft \ {p}
      /\ UNCHANGED <<dispatcherMsg, inMsgQueue, test, outMsgQueue, responderVars,
                     accepted, concluded>>
  BY DEF DispatcherPut, TypeOK
<1>2. /\ testQueue'[p] = Append(q, d)
      /\ \A r \in Peripheral : r # p => testQueue'[r] = testQueue[r]
      /\ DOMAIN testQueue'[p] = DOMAIN q \cup {Len(q) + 1}
      /\ \A n \in DOMAIN q : testQueue'[p][n] = q[n] /\ n <= Len(q)
      /\ testQueue'[p][Len(q) + 1] = d
      /\ DOMAIN q \subseteq Nat /\ Len(q) \in Nat
  BY <1>1, AppendElements
<1>3. <<1, d, p>> \in Whereabouts
  BY <1>1 DEF Whereabouts, At, Stage
<1>4. \A n \in DOMAIN q : <<q[n], d>> \in Older
  <2> SUFFICES ASSUME NEW n \in DOMAIN q PROVE <<q[n], d>> \in Older
    OBVIOUS
  <2>1. q[n] \in Datagram
    BY <1>1
  <2>2. <<2, q[n], p>> \in Whereabouts
    BY <2>1 DEF Whereabouts, At, Stage
  <2> QED BY <1>3, <2>2 DEF Stages, InOrder
<1>5. ASSUME NEW j \in Stage, NEW e \in Datagram, NEW r \in Peripheral
      PROVE  At(j, e, r)' <=> (At(j, e, r) /\ ~(j = 1 /\ e = d /\ r = p))
                                \/ (j = 1 + 1 /\ e = d /\ r = p)
  <2>1. (\E n \in DOMAIN testQueue'[r] : testQueue'[r][n] = e)
          <=> ((\E n \in DOMAIN testQueue[r] : testQueue[r][n] = e) \/ (r = p /\ e = d))
    BY <1>2
  <2> QED BY <1>1, <2>1 DEF At, Responding, IsConcluded, Wanted
<1>6. At(1, d, p) /\ \A e \in Datagram : At(1, e, p) => e = d
  BY <1>1 DEF At
<1>8. Stages'
  BY <1>1, <1>5, <1>6, MoveOne
<1>9. QueuesInOrder'
  <2>1. Older' = Older /\ Accepted' = Accepted
    BY <1>1, OlderSame
  <2>2. ASSUME NEW r \in Peripheral,
               NEW m \in DOMAIN testQueue'[r], NEW n \in DOMAIN testQueue'[r], m < n
        PROVE  <<testQueue'[r][m], testQueue'[r][n]>> \in Older
    <3>1. CASE r # p
      BY <3>1, <2>2, <1>2 DEF QueuesInOrder
    <3>2. CASE r = p /\ n \in DOMAIN q
      <4>1. m \in DOMAIN q
        BY <3>2, <2>2, <1>2
      <4> QED BY <3>2, <4>1, <2>2, <1>2 DEF QueuesInOrder
    <3>3. CASE r = p /\ n = Len(q) + 1
      BY <3>3, <2>2, <1>2, <1>4
    <3> QED BY <3>1, <3>2, <3>3, <1>2
  <2> QED BY <1>1, <2>1, <2>2 DEF QueuesInOrder
<1> QED BY <1>8, <1>9

\* Test task p takes the oldest test of its queue.
LEMMA TestGetStep ==
  ASSUME TypeOK, AcceptedOnce, Stages, QueuesInOrder, NEW p \in Peripheral, TestGet(p)
  PROVE  Stages' /\ QueuesInOrder'
<1> DEFINE q == testQueue[p]
           d == Head(q)
<1>1. /\ q \in Seq(Datagram) /\ q # << >>
      /\ testQueue \in [Peripheral -> Seq(Datagram)]
      /\ testQueue' = [testQueue EXCEPT ![p] = Tail(q)]
      /\ test[p].pc = "get" /\ test'[p].pc = "loop" /\ test'[p].msg = d
      /\ \A r \in Peripheral : r # p => test'[r] = test[r]
      /\ UNCHANGED <<inMsgQueue, dispatcherVars, outMsgQueue, responderVars,
                     accepted, concluded>>
  BY DEF TestGet, TypeOK
<1>2. /\ testQueue'[p] = Tail(q)
      /\ \A r \in Peripheral : r # p => testQueue'[r] = testQueue[r]
  BY <1>1
<1>3. /\ d \in Datagram /\ 1 \in DOMAIN q /\ d = q[1]
      /\ \A n \in DOMAIN Tail(q) : n + 1 \in DOMAIN q /\ Tail(q)[n] = q[n + 1]
      /\ \A n \in DOMAIN q : n # 1 => n - 1 \in DOMAIN Tail(q) /\ Tail(q)[n - 1] = q[n]
      /\ DOMAIN q \subseteq Nat /\ DOMAIN Tail(q) \subseteq Nat
      /\ \A n \in DOMAIN q : n >= 1
  BY <1>1, TailElements
<1>4. \A m, n \in DOMAIN q : m < n => <<q[m], q[n]>> \in Older
  BY DEF QueuesInOrder
<1>5. \A n \in DOMAIN q : n # 1 => <<d, q[n]>> \in Older /\ q[n] # d
  <2> SUFFICES ASSUME NEW n \in DOMAIN q, n # 1 PROVE <<d, q[n]>> \in Older /\ q[n] # d
    OBVIOUS
  <2>1. 1 < n
    BY <1>3
  <2>2. <<q[1], q[n]>> \in Older
    BY <2>1, <1>3, <1>4
  <2> QED BY <2>2, <1>3, OlderStrict
<1> HIDE DEF d, q
<1>6. ASSUME NEW e \in Datagram
      PROVE  (\E n \in DOMAIN Tail(q) : Tail(q)[n] = e)
               <=> (e # d /\ \E n \in DOMAIN q : q[n] = e)
  <2>1. ASSUME NEW n \in DOMAIN Tail(q), Tail(q)[n] = e
        PROVE  e # d /\ \E m \in DOMAIN q : q[m] = e
    <3>1. n + 1 \in DOMAIN q /\ q[n + 1] = e /\ n + 1 # 1
      BY <2>1, <1>3
    <3> QED BY <3>1, <1>5
  <2>2. ASSUME e # d, NEW n \in DOMAIN q, q[n] = e
        PROVE  \E m \in DOMAIN Tail(q) : Tail(q)[m] = e
    BY <2>2, <1>3
  <2> QED BY <2>1, <2>2
<1>7. ASSUME NEW j \in Stage, NEW e \in Datagram, NEW r \in Peripheral
      PROVE  At(j, e, r)' <=> (At(j, e, r) /\ ~(j = 2 /\ e = d /\ r = p))
                                \/ (j = 2 + 1 /\ e = d /\ r = p)
  <2>1. (\E n \in DOMAIN testQueue'[r] : testQueue'[r][n] = e)
          <=> ((\E n \in DOMAIN testQueue[r] : testQueue[r][n] = e) /\ ~(r = p /\ e = d))
    BY <1>2, <1>6 DEF q
  <2>2. (test'[r].pc # "get" /\ test'[r].msg = e)
          <=> ((test[r].pc # "get" /\ test[r].msg = e) \/ (r = p /\ e = d))
    BY <1>1
  <2> QED BY <1>1, <2>1, <2>2 DEF At, Responding, IsConcluded, Wanted
<1>8. At(2, d, p)
  BY <1>3 DEF At, q
<1>9. ASSUME NEW e \in Datagram, At(2, e, p) PROVE e = d \/ <<d, e>> \in Older
  <2>1. PICK n \in DOMAIN q : q[n] = e
    BY <1>9 DEF At, q
  <2> QED BY <2>1, <1>3, <1>5
<1>10. Stages'
  BY <1>1, <1>3, <1>7, <1>8, <1>9, MoveOne
<1>11. QueuesInOrder'
  <2>1. Older' = Older /\ Accepted' = Accepted
    BY <1>1, OlderSame
  <2>2. ASSUME NEW r \in Peripheral,
               NEW m \in DOMAIN testQueue'[r], NEW n \in DOMAIN testQueue'[r], m < n
        PROVE  <<testQueue'[r][m], testQueue'[r][n]>> \in Older
    <3>1. CASE r # p
      BY <3>1, <2>2, <1>2 DEF QueuesInOrder
    <3>2. CASE r = p
      <4>1. m \in DOMAIN Tail(q) /\ n \in DOMAIN Tail(q) /\ testQueue'[r] = Tail(q)
        BY <1>2, <2>2, <3>2
      <4>2. m + 1 \in DOMAIN q /\ n + 1 \in DOMAIN q /\ m + 1 < n + 1
            /\ Tail(q)[m] = q[m + 1] /\ Tail(q)[n] = q[n + 1]
        BY <1>3, <2>2, <4>1
      <4> QED BY <4>1, <4>2, <1>4
    <3> QED BY <3>1, <3>2
  <2> QED BY <1>1, <2>1, <2>2 DEF QueuesInOrder
<1> QED BY <1>10, <1>11

\* Test task p reports behind its older reports.
LEMMA TestPutStep ==
  ASSUME TypeOK, AcceptedOnce, Stages, QueuesInOrder, NEW p \in Peripheral, TestPut(p)
  PROVE  Stages' /\ QueuesInOrder'
<1> DEFINE d == test[p].msg
           o == OutMsg(p)
<1>1. /\ d \in Datagram /\ outMsgQueue \in Seq(OutMsgs)
      /\ outMsgQueue' = Append(outMsgQueue, o)
      /\ o \in OutMsgs /\ o.req = d /\ o.peri = p
      /\ test[p].pc = "put" /\ test'[p].pc = "get"
      /\ \A r \in Peripheral : r # p => test'[r] = test[r]
      /\ UNCHANGED <<inMsgQueue, dispatcherVars, testQueue, responderVars,
                     accepted, concluded>>
  BY DEF TestPut, TypeOK, TestState, OutMsg, OutMsgs
<1>2. /\ DOMAIN outMsgQueue' = DOMAIN outMsgQueue \cup {Len(outMsgQueue) + 1}
      /\ \A n \in DOMAIN outMsgQueue : outMsgQueue'[n] = outMsgQueue[n] /\ n <= Len(outMsgQueue)
      /\ outMsgQueue'[Len(outMsgQueue) + 1] = o
      /\ DOMAIN outMsgQueue \subseteq Nat /\ Len(outMsgQueue) \in Nat
  BY <1>1, AppendElements
<1> HIDE DEF d, o
<1>3. At(3, d, p) /\ \A e \in Datagram : At(3, e, p) => e = d
  BY <1>1 DEF At, d
<1>4. \A n \in DOMAIN outMsgQueue :
        outMsgQueue[n].peri = p => <<outMsgQueue[n].req, d>> \in Older
  <2> SUFFICES ASSUME NEW n \in DOMAIN outMsgQueue, outMsgQueue[n].peri = p
               PROVE  <<outMsgQueue[n].req, d>> \in Older
    OBVIOUS
  <2>1. outMsgQueue[n].req \in Datagram
    <3>1. outMsgQueue[n] \in OutMsgs
      BY <1>1
    <3> QED BY <3>1 DEF OutMsgs
  <2>2. At(4, outMsgQueue[n].req, p)
    BY DEF At
  <2>3. <<3, d, p>> \in Whereabouts /\ <<4, outMsgQueue[n].req, p>> \in Whereabouts
    BY <1>1, <1>3, <2>1, <2>2 DEF Whereabouts, Stage
  <2> QED BY <2>3 DEF Stages, InOrder
<1>5. ASSUME NEW j \in Stage, NEW e \in Datagram, NEW r \in Peripheral
      PROVE  At(j, e, r)' <=> (At(j, e, r) /\ ~(j = 3 /\ e = d /\ r = p))
                                \/ (j = 3 + 1 /\ e = d /\ r = p)
  <2>1. (\E n \in DOMAIN outMsgQueue' : outMsgQueue'[n].req = e /\ outMsgQueue'[n].peri = r)
          <=> ((\E n \in DOMAIN outMsgQueue : outMsgQueue[n].req = e /\ outMsgQueue[n].peri = r)
                 \/ (r = p /\ e = d))
    BY <1>1, <1>2
  <2>2. (test'[r].pc # "get" /\ test'[r].msg = e)
          <=> ((test[r].pc # "get" /\ test[r].msg = e) /\ ~(r = p /\ e = d))
    BY <1>1 DEF d
  <2> QED BY <1>1, <2>1, <2>2 DEF At, Responding, IsConcluded, Wanted
<1>6. Stages'
  BY <1>1, <1>3, <1>5, MoveOne
<1>7. QueuesInOrder'
  <2>1. Older' = Older /\ Accepted' = Accepted
    BY <1>1, OlderSame
  <2>2. ASSUME NEW m \in DOMAIN outMsgQueue', NEW n \in DOMAIN outMsgQueue', m < n,
               outMsgQueue'[m].peri = outMsgQueue'[n].peri
        PROVE  <<outMsgQueue'[m].req, outMsgQueue'[n].req>> \in Older
    <3>1. CASE n \in DOMAIN outMsgQueue
      <4>1. m \in DOMAIN outMsgQueue
        BY <3>1, <2>2, <1>2
      <4> QED BY <3>1, <4>1, <2>2, <1>2 DEF QueuesInOrder
    <3>2. CASE n = Len(outMsgQueue) + 1
      <4>1. m \in DOMAIN outMsgQueue
        BY <3>2, <2>2, <1>2
      <4> QED BY <3>2, <4>1, <2>2, <1>1, <1>2, <1>4
    <3> QED BY <3>1, <3>2, <1>2
  <2> QED BY <1>1, <2>1, <2>2 DEF QueuesInOrder
<1> QED BY <1>6, <1>7

\* The responder takes the head of outMsgQueue, the oldest report of its peripheral.
LEMMA ResponderGetStep ==
  TypeOK /\ AcceptedOnce /\ Stages /\ QueuesInOrder /\ ResponderGet
    => Stages' /\ QueuesInOrder'
<1> SUFFICES ASSUME TypeOK, AcceptedOnce, Stages, QueuesInOrder, ResponderGet
             PROVE  Stages' /\ QueuesInOrder'
  OBVIOUS
<1> DEFINE q == outMsgQueue
           d == Head(q).req
           p == Head(q).peri
<1>1. /\ q \in Seq(OutMsgs) /\ q # << >> /\ q' = Tail(q)
      /\ responderMsg' = Head(q) /\ ~Responding /\ Responding'
      /\ UNCHANGED <<inMsgQueue, dispatcherVars, testQueue, test, accepted, concluded>>
  BY DEF ResponderGet, TypeOK, Responding
<1>2. /\ Head(q) \in OutMsgs /\ 1 \in DOMAIN q /\ Head(q) = q[1]
      /\ \A n \in DOMAIN q' : n + 1 \in DOMAIN q /\ q'[n] = q[n + 1]
      /\ \A n \in DOMAIN q : n # 1 => n - 1 \in DOMAIN q' /\ q'[n - 1] = q[n]
      /\ DOMAIN q \subseteq Nat /\ DOMAIN q' \subseteq Nat
      /\ \A n \in DOMAIN q : n >= 1
      /\ \A n \in DOMAIN q' : n >= 1
  BY <1>1, TailElements
<1>3. d \in Datagram /\ p \in Peripheral /\ d = q[1].req /\ p = q[1].peri
  BY <1>2 DEF OutMsgs
<1>4. \A m, n \in DOMAIN q : m < n /\ q[m].peri = q[n].peri => <<q[m].req, q[n].req>> \in Older
  BY DEF QueuesInOrder
<1> HIDE DEF d, p, q
<1>5. ASSUME NEW n \in DOMAIN q, n # 1, q[n].peri = p
      PROVE  <<d, q[n].req>> \in Older /\ q[n].req # d
  <2>1. 1 < n
    BY <1>2, <1>5
  <2>2. <<q[1].req, q[n].req>> \in Older
    BY <2>1, <1>2, <1>3, <1>4, <1>5
  <2> QED BY <2>2, <1>3, OlderStrict
<1>6. ASSUME NEW j \in Stage, NEW e \in Datagram, NEW r \in Peripheral
      PROVE  At(j, e, r)' <=> (At(j, e, r) /\ ~(j = 4 /\ e = d /\ r = p))
                                \/ (j = 4 + 1 /\ e = d /\ r = p)
  <2>1. (\E n \in DOMAIN q' : q'[n].req = e /\ q'[n].peri = r)
          <=> ((\E n \in DOMAIN q : q[n].req = e /\ q[n].peri = r) /\ ~(r = p /\ e = d))
    <3>1. ASSUME NEW n \in DOMAIN q', q'[n].req = e /\ q'[n].peri = r
          PROVE  (\E m \in DOMAIN q : q[m].req = e /\ q[m].peri = r) /\ ~(r = p /\ e = d)
      <4>1. n + 1 \in DOMAIN q /\ n + 1 # 1 /\ q[n + 1].req = e /\ q[n + 1].peri = r
        BY <1>2, <3>1
      <4> QED BY <4>1, <1>3, <1>5
    <3>2. ASSUME NEW m \in DOMAIN q, q[m].req = e /\ q[m].peri = r, ~(r = p /\ e = d)
          PROVE  \E n \in DOMAIN q' : q'[n].req = e /\ q'[n].peri = r
      <4>1. m # 1
        BY <1>3, <3>2
      <4> QED BY <4>1, <1>2, <3>2
    <3> QED BY <3>1, <3>2
  <2>2. (responderMsg'.req = e /\ responderMsg'.peri = r) <=> (e = d /\ r = p)
    BY <1>1 DEF d, p
  <2> QED BY <1>1, <2>1, <2>2 DEF At, IsConcluded, Wanted, q
<1>7. At(4, d, p)
  BY <1>2, <1>3 DEF At, q
<1>8. ASSUME NEW e \in Datagram, At(4, e, p) PROVE e = d \/ <<d, e>> \in Older
  <2>1. PICK n \in DOMAIN q : q[n].req = e /\ q[n].peri = p
    BY <1>8 DEF At, q
  <2> QED BY <2>1, <1>3, <1>5
<1>9. Stages'
  BY <1>1, <1>3, <1>6, <1>7, <1>8, MoveOne
<1>10. QueuesInOrder'
  <2>1. Older' = Older /\ Accepted' = Accepted
    BY <1>1, OlderSame
  <2>2. ASSUME NEW m \in DOMAIN q', NEW n \in DOMAIN q', m < n, q'[m].peri = q'[n].peri
        PROVE  <<q'[m].req, q'[n].req>> \in Older
    <3>1. m + 1 \in DOMAIN q /\ n + 1 \in DOMAIN q /\ m + 1 < n + 1
          /\ q'[m] = q[m + 1] /\ q'[n] = q[n + 1]
      BY <1>2, <2>2
    <3> QED BY <3>1, <2>2, <1>4
  <2> QED BY <1>1, <2>1, <2>2 DEF QueuesInOrder, q
<1> QED BY <1>9, <1>10

\* The responder is done with its message, whether it was sent or skipped.
LEMMA ConcludeStep ==
  ASSUME TypeOK, AcceptedOnce, Stages, QueuesInOrder, Responding, ~Responding',
         NEW sent \in BOOLEAN, ConcludeAs(sent),
         UNCHANGED <<inMsgQueue, dispatcherVars, testQueue, test, outMsgQueue, accepted>>
  PROVE  Stages' /\ QueuesInOrder'
<1> DEFINE d == responderMsg.req
           p == responderMsg.peri
<1>1. d \in Datagram /\ p \in Peripheral
  BY DEF TypeOK, Responding, OutMsgs
<1>2. At(5, d, p) /\ \A e \in Datagram : At(5, e, p) => e = d
  BY DEF At
<1>3. ASSUME NEW j \in Stage, NEW e \in Datagram, NEW r \in Peripheral
      PROVE  At(j, e, r)' <=> (At(j, e, r) /\ ~(j = 5 /\ e = d /\ r = p))
                                \/ (j = 5 + 1 /\ e = d /\ r = p)
  <2>1. IsConcluded(e, r)' <=> IsConcluded(e, r) \/ (e = d /\ r = p)
    <3> DEFINE c == [req |-> d, peri |-> p, result |-> responderMsg.result,
                     runs |-> responderMsg.runs, sent |-> sent]
    <3>1. concluded' = concluded \cup {c}
      BY DEF ConcludeAs
    <3>2. c.req = d /\ c.peri = p
      OBVIOUS
    <3> HIDE DEF c
    <3> QED BY <3>1, <3>2 DEF IsConcluded
  <2> QED BY <2>1 DEF At, Wanted
<1> HIDE DEF d, p
<1>4. Stages'
  BY <1>1, <1>2, <1>3, MoveOne
<1>5. QueuesInOrder'
  BY OlderSame DEF QueuesInOrder
<1> QED BY <1>4, <1>5

\* The listener puts its datagram behind older ones.
LEMMA ListenerPutStep ==
  TypeOK /\ AcceptedOnce /\ Stages /\ QueuesInOrder /\ ListenerPut
    => Stages' /\ QueuesInOrder'
<1> SUFFICES ASSUME TypeOK, AcceptedOnce, Stages, QueuesInOrder, ListenerPut
             PROVE  QueuesInOrder'
  BY StagesPut
<1> DEFINE q == inMsgQueue
<1>1. /\ listenerMsg \in Datagram /\ Accepted' = Accepted \cup {listenerMsg}
      /\ Older' = Older \cup {<<e, listenerMsg>> : e \in Accepted}
  BY PutAccepts
<1>2. q \in Seq(Datagram) /\ q' = Append(q, listenerMsg) /\ UNCHANGED <<testQueue, outMsgQueue>>
  BY DEF ListenerPut, TypeOK
<1>3. /\ DOMAIN q' = DOMAIN q \cup {Len(q) + 1}
      /\ \A n \in DOMAIN q : q'[n] = q[n] /\ n <= Len(q)
      /\ q'[Len(q) + 1] = listenerMsg
      /\ DOMAIN q \subseteq Nat /\ Len(q) \in Nat
  BY <1>1, <1>2, AppendElements
<1>4. \A n \in DOMAIN q : q[n] \in Accepted
  BY DEF QueuesInOrder
<1>5. \A m, n \in DOMAIN q : m < n => <<q[m], q[n]>> \in Older
  BY DEF QueuesInOrder
<1> HIDE DEF q
<1>6. ASSUME NEW m \in DOMAIN q', NEW n \in DOMAIN q', m < n
      PROVE  <<q'[m], q'[n]>> \in Older'
  <2>1. m \in DOMAIN q
    BY <1>3, <1>6
  <2>2. CASE n \in DOMAIN q
    BY <2>1, <2>2, <1>1, <1>3, <1>5, <1>6
  <2>3. CASE n = Len(q) + 1
    BY <2>1, <2>3, <1>1, <1>3, <1>4
  <2> QED BY <2>2, <2>3, <1>3
<1>7. \A n \in DOMAIN q' : q'[n] \in Accepted'
  BY <1>1, <1>3, <1>4
<1> QED BY <1>1, <1>2, <1>6, <1>7 DEF QueuesInOrder, q

\* The steps that move nothing between the stages.
LEMMA QuietStep ==
  ASSUME Stages, QueuesInOrder,
         UNCHANGED <<inMsgQueue, dispatcherVars, testQueue, outMsgQueue, accepted, concluded>>,
         UNCHANGED responderMsg, Responding' = Responding,
         \A p \in Peripheral : /\ test'[p].pc = "get" <=> test[p].pc = "get"
                               /\ test'[p].msg = test[p].msg
  PROVE  Stages' /\ QueuesInOrder'
<1>1. ASSUME NEW j \in Stage, NEW e \in Datagram, NEW q \in Peripheral
      PROVE  At(j, e, q)' <=> At(j, e, q)
  BY DEF At, IsConcluded, Wanted
<1>2. Stages'
  BY <1>1, StayByAt DEF Stages
<1>3. QueuesInOrder'
  BY OlderSame DEF QueuesInOrder
<1> QED BY <1>2, <1>3

\* Every step of every task keeps every test at one stage and the stages in order.
LEMMA FlowStep == TypeOK /\ FlowInv /\ [Next]_vars => FlowInv'
<1> SUFFICES ASSUME TypeOK, AcceptedOnce, Stages, QueuesInOrder, [Next]_vars
             PROVE  Stages' /\ QueuesInOrder'
  BY AcceptedOnceStep DEF FlowInv, Stages
<1>1. CASE Network \/ ListenerStart \/ ListenerRecv \/ ListenerFree
  BY <1>1, QuietStep DEF Network, Deliver, Drop, ListenerStart, ListenerRecv, ListenerFree,
                         Responding
<1>2. CASE ListenerPut
  BY <1>2, ListenerPutStep
<1>3. CASE DispatcherGet
  BY <1>3, DispatcherGetStep
<1>4. ASSUME NEW p \in Peripheral, DispatcherPut(p) PROVE Stages' /\ QueuesInOrder'
  BY <1>4, DispatcherPutStep
<1>5. ASSUME NEW p \in Peripheral, TestGet(p) PROVE Stages' /\ QueuesInOrder'
  BY <1>5, TestGetStep
<1>6. ASSUME NEW p \in Peripheral, TestIterate(p) \/ TestLeaveLoop(p)
      PROVE  Stages' /\ QueuesInOrder'
  <2>1. \A r \in Peripheral : /\ test'[r].pc = "get" <=> test[r].pc = "get"
                              /\ test'[r].msg = test[r].msg
    <3>1. CASE TestIterate(p)
      BY <3>1 DEF TestIterate, TypeOK
    <3>2. CASE TestLeaveLoop(p)
      BY <3>2 DEF TestLeaveLoop, TypeOK, TestState
    <3> QED BY <1>6, <3>1, <3>2
  <2>2. /\ UNCHANGED <<inMsgQueue, dispatcherVars, testQueue, outMsgQueue, accepted, concluded>>
        /\ UNCHANGED responderMsg /\ Responding' = Responding
    BY <1>6 DEF TestIterate, TestLeaveLoop, Responding
  <2> QED BY <2>1, <2>2, QuietStep
<1>7. ASSUME NEW p \in Peripheral, TestPut(p) PROVE Stages' /\ QueuesInOrder'
  BY <1>7, TestPutStep
<1>8. CASE ResponderGet
  BY <1>8, ResponderGetStep
<1>9. CASE ResponderStart \/ ResponderFree
  BY <1>9, QuietStep DEF ResponderStart, ResponderFree, Responding
<1>10. CASE ResponderNew
  <2>1. /\ Responding
        /\ UNCHANGED <<inMsgQueue, dispatcherVars, testQueue, test, outMsgQueue, accepted>>
        /\ UNCHANGED responderMsg
    BY <1>10 DEF ResponderNew, Responding
  <2>2. CASE responderPc' = "get" /\ ConcludeAs(FALSE)
    BY <2>1, <2>2, ConcludeStep DEF Responding
  <2>3. CASE responderPc' = "alloc" /\ UNCHANGED concluded
    BY <2>1, <2>3, QuietStep DEF Responding
  <2> QED BY <1>10, <2>2, <2>3 DEF ResponderNew
<1>11. CASE ResponderAlloc
  <2>1. /\ Responding
        /\ UNCHANGED <<inMsgQueue, dispatcherVars, testQueue, test, outMsgQueue, accepted>>
        /\ UNCHANGED responderMsg
    BY <1>11 DEF ResponderAlloc, Responding
  <2>2. CASE responderPc' = "get" /\ ConcludeAs(FALSE)
    BY <2>1, <2>2, ConcludeStep DEF Responding
  <2>3. CASE responderPc' = "send" /\ UNCHANGED concluded
    BY <2>1, <2>3, QuietStep DEF Responding
  <2> QED BY <1>11, <2>2, <2>3 DEF ResponderAlloc
<1>12. CASE ResponderSend
  BY <1>12, ConcludeStep DEF ResponderSend, Responding
<1>13. CASE UNCHANGED vars
  BY <1>13, QuietStep DEF vars, Responding
<1> QED
  BY <1>1, <1>2, <1>3, <1>4, <1>5, <1>6, <1>7, <1>8, <1>9, <1>10, <1>11, <1>12, <1>13
     DEF Next, Listener, Dispatcher, Tester, Responder

-----------------------------------------------------------------------------
(* Verdicts *)

\* What test task q knows of its own iterations.
LoopOf(q) ==
  /\ test[q].pc = "loop" =>
       /\ test[q].i = Len(test[q].runs)
       /\ test[q].i <= test[q].msg.n_iter
       /\ test[q].msg.n_iter > 0
       /\ \A n \in 1..test[q].i : test[q].runs[n] = "SUCCESS"
       /\ test[q].i > 0 => test[q].result = "SUCCESS"
  /\ test[q].pc = "put" => Earned(OutMsg(q))

\* What is queued for a test task asks for at least one iteration.
LEMMA QueuedHasIterations ==
  ASSUME TypeOK, FlowInv, NEW p \in Peripheral, testQueue[p] # << >>
  PROVE  Head(testQueue[p]).n_iter > 0
<1>1. testQueue[p] \in Seq(Datagram)
  BY DEF TypeOK
<1>2. Head(testQueue[p]) \in Datagram /\ 1 \in DOMAIN testQueue[p]
      /\ Head(testQueue[p]) = testQueue[p][1]
  BY <1>1, TailElements
<1>3. <<2, Head(testQueue[p]), p>> \in Whereabouts
  BY <1>2 DEF Whereabouts, At, Stage
<1>4. Valid(Head(testQueue[p]))
  BY <1>3 DEF FlowInv, OnlyRequested, AcceptedOnce
<1> QED BY <1>4 DEF Valid

\* A step of the loop of task p.
LEMMA LoopStep ==
  ASSUME TypeOK, FlowInv, LoopInv, NEW p \in Peripheral,
         TestGet(p) \/ TestIterate(p) \/ TestLeaveLoop(p)
  PROVE  LoopInv'
<1>t. test \in [Peripheral -> TestState]
  BY DEF TypeOK
<1>0. \A q \in Peripheral : q # p => test'[q] = test[q]
  BY <1>t DEF TestGet, TestIterate, TestLeaveLoop
<1>1. \A q \in Peripheral : LoopOf(q)
  BY DEF LoopInv, LoopOf
<1>2. ASSUME NEW q \in Peripheral, q # p PROVE LoopOf(q)'
  BY <1>0, <1>1, <1>2 DEF LoopOf, OutMsg, Earned
<1>3. LoopOf(p)'
  <2>1. CASE TestGet(p)
    <3>1. test'[p] = [pc |-> "loop", msg |-> Head(testQueue[p]), i |-> 0,
                      result |-> test[p].result, runs |-> << >>]
      BY <2>1, <1>t DEF TestGet
    <3>2. Head(testQueue[p]) \in Datagram /\ Head(testQueue[p]).n_iter > 0
      BY <2>1, QueuedHasIterations DEF TestGet, TypeOK
    <3>3. Head(testQueue[p]).n_iter \in Int
      BY <3>2, DatagramAssumption DEF Byte
    <3> QED BY <3>1, <3>2, <3>3 DEF LoopOf
  <2>2. CASE TestIterate(p)
    <3>1. PICK v \in Verdict :
            test' = [test EXCEPT ![p] = [pc |-> IF v = "FAILED" THEN "put" ELSE "loop",
                                         msg |-> test[p].msg,
                                         i |-> IF v = "FAILED" THEN test[p].i ELSE test[p].i + 1,
                                         result |-> v,
                                         runs |-> Append(test[p].runs, v)]]
      BY <2>2 DEF TestIterate
    <3>2. test'[p] = [pc |-> IF v = "FAILED" THEN "put" ELSE "loop", msg |-> test[p].msg,
                      i |-> IF v = "FAILED" THEN test[p].i ELSE test[p].i + 1,
                      result |-> v, runs |-> Append(test[p].runs, v)]
      BY <3>1, <1>t
    <3> DEFINE rs == test[p].runs
               m == test[p].msg.n_iter
    <3>3. /\ rs \in Seq(Verdict) /\ m \in Int /\ test[p].i = Len(rs) /\ Len(rs) < m
          /\ \A n \in 1..Len(rs) : rs[n] = "SUCCESS"
      <4>1. test[p].msg \in Datagram /\ test[p].runs \in Seq(Verdict)
        BY <2>2, <1>t DEF TestIterate, TypeOK, TestState
      <4>2. m \in Byte
        BY <4>1, DatagramAssumption
      <4>3. m \in Int
        BY <4>2 DEF Byte
      <4> QED BY <4>1, <4>3, <2>2, <1>1 DEF TestIterate, LoopOf
    <3>4. /\ Len(Append(rs, v)) = Len(rs) + 1 /\ Append(rs, v)[Len(rs) + 1] = v
          /\ \A n \in 1..Len(rs) : Append(rs, v)[n] = "SUCCESS"
          /\ Len(rs) \in Nat
      BY <3>3
    <3>5. CASE v = "FAILED"
      <4>1. OutMsg(p)' = [req |-> test[p].msg, peri |-> p, result |-> v, runs |-> Append(rs, v)]
        BY <3>2 DEF OutMsg
      <4> HIDE DEF rs
      <4>2. Earned([req |-> test[p].msg, peri |-> p, result |-> v, runs |-> Append(rs, v)])
        BY <3>3, <3>4, <3>5 DEF Earned
      <4>3. Earned(OutMsg(p))'
        BY <4>1, <4>2 DEF Earned
      <4> QED BY <3>2, <3>5, <4>3 DEF LoopOf
    <3>6. CASE v = "SUCCESS"
      <4>1. /\ test'[p].pc = "loop" /\ test'[p].i = Len(rs) + 1 /\ test'[p].runs = Append(rs, v)
            /\ test'[p].msg.n_iter = m /\ test'[p].result = "SUCCESS"
        BY <3>2, <3>3, <3>6
      <4> HIDE DEF rs, m
      <4>2. \A n \in 1..(Len(rs) + 1) : Append(rs, v)[n] = "SUCCESS"
        BY <3>4, <3>6
      <4> QED BY <4>1, <4>2, <3>3, <3>4 DEF LoopOf
    <3> QED BY <3>5, <3>6 DEF Verdict
  <2>3. CASE TestLeaveLoop(p)
    <3>1. /\ test'[p].pc = "put" /\ test'[p].msg = test[p].msg
          /\ test'[p].result = test[p].result /\ test'[p].runs = test[p].runs
      BY <2>3, <1>t DEF TestLeaveLoop, TestState
    <3> DEFINE rs == test[p].runs
               m == test[p].msg.n_iter
    <3>2. /\ m \in Int /\ m > 0 /\ Len(rs) = m /\ test[p].result = "SUCCESS"
          /\ \A n \in 1..Len(rs) : rs[n] = "SUCCESS"
      <4>1. test[p].msg \in Datagram /\ test[p].runs \in Seq(Verdict)
        BY <2>3, <1>t DEF TestLeaveLoop, TypeOK, TestState
      <4>2. m \in Byte
        BY <4>1, DatagramAssumption
      <4>3. m \in Int
        BY <4>2 DEF Byte
      <4> QED BY <4>1, <4>3, <2>3, <1>1 DEF TestLeaveLoop, LoopOf
    <3>3. OutMsg(p)' = [req |-> test[p].msg, peri |-> p, result |-> "SUCCESS", runs |-> rs]
      BY <3>1, <3>2 DEF OutMsg
    <3> HIDE DEF rs
    <3>4. Earned([req |-> test[p].msg, peri |-> p, result |-> "SUCCESS", runs |-> rs])
      BY <3>2 DEF Earned
    <3>5. Earned(OutMsg(p))'
      BY <3>3, <3>4 DEF Earned
    <3> QED BY <3>1, <3>5 DEF LoopOf
  <2> QED BY <2>1, <2>2, <2>3
<1> QED BY <1>2, <1>3 DEF LoopInv, LoopOf

\* What the steps of the other tasks leave of the test loops: everything.
LEMMA LoopQuiet == ASSUME LoopInv, UNCHANGED test PROVE LoopInv'
BY DEF LoopInv, OutMsg, Earned

\* A step of the responder between its get and its next one, or a step that does not
\* concern it, keeps every verdict earned if it records at most the message it holds.
LEMMA VerdictKept ==
  ASSUME VerdictEarned, UNCHANGED <<outMsgQueue, responderMsg>>,
         Responding' => Responding,
         \/ UNCHANGED concluded
         \/ Responding /\ \E sent \in BOOLEAN : ConcludeAs(sent)
  PROVE  VerdictEarned'
<1>1. \A n \in DOMAIN outMsgQueue' : Earned(outMsgQueue'[n])
  BY DEF VerdictEarned
<1>2. Responding' => Earned(responderMsg')
  BY DEF VerdictEarned
<1>3. ASSUME NEW c \in concluded' PROVE Earned(c)
  <2>1. CASE c \in concluded
    BY <2>1 DEF VerdictEarned
  <2>2. CASE c \notin concluded
    <3>1. PICK sent \in BOOLEAN : Responding /\ ConcludeAs(sent)
      BY <2>2, <1>3
    <3>2. c = [req |-> responderMsg.req, peri |-> responderMsg.peri,
               result |-> responderMsg.result, runs |-> responderMsg.runs, sent |-> sent]
      BY <3>1, <2>2, <1>3 DEF ConcludeAs
    <3>3. Earned(responderMsg)
      BY <3>1 DEF VerdictEarned
    <3> QED BY <3>2, <3>3 DEF Earned
  <2> QED BY <2>1, <2>2
<1> QED BY <1>1, <1>2, <1>3 DEF VerdictEarned, Earned

\* A result that enters outMsgQueue was earned in the loop of its task.
LEMMA VerdictPut ==
  ASSUME TypeOK, LoopInv, VerdictEarned, NEW p \in Peripheral, TestPut(p)
  PROVE  LoopInv' /\ VerdictEarned'
<1>t. test \in [Peripheral -> TestState] /\ outMsgQueue \in Seq(OutMsgs)
  BY DEF TypeOK
<1>1. test'[p].pc = "get" /\ \A q \in Peripheral : q # p => test'[q] = test[q]
  BY <1>t DEF TestPut, TestState
<1>2. LoopInv'
  <2>1. \A q \in Peripheral : LoopOf(q)
    BY DEF LoopInv, LoopOf
  <2>2. ASSUME NEW q \in Peripheral PROVE LoopOf(q)'
    <3>1. CASE q = p
      BY <1>1, <3>1 DEF LoopOf
    <3>2. CASE q # p
      BY <1>1, <2>1, <3>2 DEF LoopOf, OutMsg, Earned
    <3> QED BY <3>1, <3>2
  <2> QED BY <2>2 DEF LoopInv, LoopOf
<1>3. Earned(OutMsg(p)) /\ OutMsg(p) \in OutMsgs
  BY <1>t DEF TestPut, LoopInv, TypeOK, TestState, OutMsg, OutMsgs
<1>4. ASSUME NEW n \in DOMAIN outMsgQueue' PROVE Earned(outMsgQueue'[n])
  <2>1. outMsgQueue' = Append(outMsgQueue, OutMsg(p))
    BY DEF TestPut
  <2> HIDE DEF TestPut
  <2>2. \/ n \in DOMAIN outMsgQueue /\ outMsgQueue'[n] = outMsgQueue[n]
        \/ outMsgQueue'[n] = OutMsg(p)
    BY <2>1, <1>3, <1>t, <1>4
  <2> QED BY <2>2, <1>3 DEF VerdictEarned
<1>5. (Responding' => Earned(responderMsg')) /\ \A c \in concluded' : Earned(c)
  BY DEF VerdictEarned, TestPut, Responding
<1> QED BY <1>2, <1>4, <1>5 DEF VerdictEarned, Earned

\* The responder takes a result as it is.
LEMMA VerdictGet == ASSUME TypeOK, VerdictEarned, ResponderGet PROVE VerdictEarned'
<1>t. outMsgQueue \in Seq(OutMsgs) /\ outMsgQueue # << >>
  BY DEF TypeOK, ResponderGet
<1>1. /\ outMsgQueue' = Tail(outMsgQueue) /\ responderMsg' = outMsgQueue[1]
      /\ 1 \in DOMAIN outMsgQueue /\ concluded' = concluded
  BY <1>t DEF ResponderGet
<1>2. ASSUME NEW n \in DOMAIN outMsgQueue' PROVE Earned(outMsgQueue'[n])
  <2>1. n + 1 \in DOMAIN outMsgQueue /\ outMsgQueue'[n] = outMsgQueue[n + 1]
    BY <1>t, <1>1, <1>2
  <2> QED BY <2>1 DEF VerdictEarned
<1> QED BY <1>1, <1>2 DEF VerdictEarned, Earned

\* A step of any task keeps the loops and the verdicts right.
LEMMA VerdictStep ==
  TypeOK /\ FlowInv /\ LoopInv /\ VerdictEarned /\ [Next]_vars => LoopInv' /\ VerdictEarned'
<1> SUFFICES ASSUME TypeOK, FlowInv, LoopInv, VerdictEarned, [Next]_vars
             PROVE  LoopInv' /\ VerdictEarned'
  OBVIOUS
<1>1. CASE \/ Network \/ Listener \/ Dispatcher \/ ResponderStart \/ ResponderFree
           \/ UNCHANGED vars
  <2>1. UNCHANGED <<test, outMsgQueue, responderMsg, concluded>> /\ (Responding' => Responding)
    BY <1>1 DEF Network, Deliver, Drop, Listener, ListenerStart, ListenerRecv, ListenerPut,
                ListenerFree, Dispatcher, DispatcherGet, DispatcherPut, ResponderStart,
                ResponderFree, Responding, vars
  <2> QED BY <2>1, LoopQuiet, VerdictKept
<1>2. ASSUME NEW p \in Peripheral, TestGet(p) \/ TestIterate(p) \/ TestLeaveLoop(p)
      PROVE  LoopInv' /\ VerdictEarned'
  <2>1. UNCHANGED <<outMsgQueue, responderMsg, responderPc, concluded>>
    BY <1>2 DEF TestGet, TestIterate, TestLeaveLoop
  <2>2. VerdictEarned'
    BY <2>1, VerdictKept DEF Responding
  <2> QED BY <1>2, <2>2, LoopStep
<1>3. ASSUME NEW p \in Peripheral, TestPut(p) PROVE LoopInv' /\ VerdictEarned'
  BY <1>3, VerdictPut
<1>4. CASE ResponderGet
  <2>1. UNCHANGED test
    BY <1>4 DEF ResponderGet
  <2> QED BY <1>4, <2>1, LoopQuiet, VerdictGet
<1>5. CASE ResponderNew
  <2>1. UNCHANGED <<test, outMsgQueue, responderMsg>> /\ Responding
        /\ (UNCHANGED concluded \/ ConcludeAs(FALSE))
    BY <1>5 DEF ResponderNew, Responding
  <2> QED BY <2>1, LoopQuiet, VerdictKept
<1>6. CASE ResponderAlloc
  <2>1. UNCHANGED <<test, outMsgQueue, responderMsg>> /\ Responding
        /\ (UNCHANGED concluded \/ ConcludeAs(FALSE))
    BY <1>6 DEF ResponderAlloc, Responding
  <2> QED BY <2>1, LoopQuiet, VerdictKept
<1>7. CASE ResponderSend
  <2>1. UNCHANGED <<test, outMsgQueue, responderMsg>> /\ Responding
        /\ \E sent \in BOOLEAN : ConcludeAs(sent)
    BY <1>7 DEF ResponderSend, Responding
  <2> QED BY <2>1, LoopQuiet, VerdictKept
<1> QED
  BY <1>1, <1>2, <1>3, <1>4, <1>5, <1>6, <1>7 DEF Next, Tester, Responder

-----------------------------------------------------------------------------
(* The invariants *)

\* At power-up nothing has been accepted, so nothing is anywhere.
LEMMA InitInv == Init => IInv
<1> SUFFICES ASSUME Init PROVE IInv
  OBVIOUS
<1>1. TypeOK
  BY SizeAssumption DEF Init, TypeOK, TestState, Byte
<1>2. NetbufsBalanced
  BY SizeAssumption DEF Init, NetbufsBalanced, ListenerHolds, ResponderHolds
<1>3. Accepted = {}
  BY DEF Init, Accepted
<1>4. ASSUME NEW k \in Stage, NEW d \in Datagram, NEW p \in Peripheral PROVE ~At(k, d, p)
  BY DEF Init, At, IsConcluded, Responding
<1>5. FlowInv
  <2>1. Whereabouts = {}
    BY <1>4 DEF Whereabouts
  <2>2. AcceptedOnce
    BY <1>3 DEF Init, AcceptedOnce
  <2>3. OnlyRequested /\ NothingLost /\ InOrder
    BY <1>3, <2>1 DEF OnlyRequested, NothingLost, InOrder
  <2>4. QueuesInOrder
    BY DEF Init, QueuesInOrder
  <2> QED BY <2>2, <2>3, <2>4 DEF FlowInv
<1>6. LoopInv /\ VerdictEarned
  BY DEF Init, LoopInv, VerdictEarned, Responding
<1> QED BY <1>1, <1>2, <1>5, <1>6 DEF IInv

\* The inductive invariant holds in every reachable state, whatever the datagrams and the
\* sizes of the queues and of the pool.
THEOREM Invariance == Spec => []IInv
<1>1. IInv /\ [Next]_vars => IInv'
  BY TypeStep, NetbufStep, FlowStep, VerdictStep DEF IInv
<1> QED BY InitInv, <1>1, PTL DEF Spec

\* Typing, queue capacities, and uint8_t loop counters that never wrap.
THEOREM TypeCorrect == Spec => []TypeOK
BY Invariance, PTL DEF IInv

\* The netbufs out of the pool are those in the mailbox and in the hands of the listener
\* and of the responder: no path leaks one or frees one twice.
THEOREM NetbufAccount == Spec => []NetbufsBalanced
BY Invariance, PTL DEF IInv

\* A pool of three netbufs more than the mailbox holds, as in the firmware, never runs dry.
THEOREM NetbufSupply == Spec => []NetbufsSuffice
<1>1. IInv => NetbufsSuffice
  <2> SUFFICES ASSUME TypeOK, NetbufsBalanced PROVE NetbufsSuffice
    BY DEF IInv
  <2>1. /\ Len(mailbox) \in Nat /\ Len(mailbox) <= MailboxSize
        /\ freeNetbufs \in Int /\ NetbufPool \in Int /\ MailboxSize \in Int
    BY SizeAssumption DEF TypeOK
  <2> QED BY <2>1 DEF NetbufsBalanced, NetbufsSuffice, ListenerHolds, ResponderHolds
<1> QED BY Invariance, <1>1, PTL

\* Every verdict, in the queue, in the responder or concluded, was earned by the iterations
\* run for its own request.
THEOREM Verdicts == Spec => []VerdictEarned
BY Invariance, PTL DEF IInv

\* Every test that was asked for by an accepted datagram, and no other, is at exactly one
\* stage of the firmware, in the order of acceptance per peripheral.
THEOREM Flow == Spec => []FlowInv
BY Invariance, PTL DEF IInv

-----------------------------------------------------------------------------
(* From the stages to the queues.  FlowConserved reads, for one peripheral, the tests    *)
(* off the queues as a sequence; the invariant speaks of stages and of age.  Sequences   *)
(* sorted by age that hold the same datagrams are equal, so it is enough that every      *)
(* piece of InFlight is sorted, holds one stage, and that the pieces are in the order of *)
(* the stages.                                                                           *)

\* The places in a finite set of numbers are numbered from 1 on.
LEMMA Places ==
  ASSUME NEW N \in Nat, NEW I \in SUBSET (1..N)
  PROVE  /\ IsFiniteSet(I) /\ Cardinality(I) \in Nat
         /\ \A k \in 1..Cardinality(I) : Nth(I, k) \in I
         /\ \A i \in I : \E k \in 1..Cardinality(I) : Nth(I, k) = i
         /\ \A j, k \in 1..Cardinality(I) : j < k => Nth(I, j) < Nth(I, k)
<1> DEFINE C == Cardinality(I)
           Upto(i) == {j \in I : j <= i}
           rank == [i \in I |-> Cardinality(Upto(i))]
<1>0. \A i, j \in I : i \in Int /\ (i = j \/ i < j \/ j < i)
  OBVIOUS
<1>1. IsFiniteSet(1..N)
  BY FS_Interval
<1>2. IsFiniteSet(I) /\ C \in Nat
  BY <1>1, FS_Subset, FS_CardinalityType
<1>3. \A i \in I : IsFiniteSet(Upto(i)) /\ Cardinality(Upto(i)) \in 1..C
  <2> TAKE i \in I
  <2>1. Upto(i) \in SUBSET I /\ i \in Upto(i)
    OBVIOUS
  <2> HIDE DEF Upto
  <2>2. IsFiniteSet(Upto(i)) /\ Cardinality(Upto(i)) <= C /\ Cardinality(Upto(i)) \in Nat
    BY <1>2, <2>1, FS_Subset, FS_CardinalityType
  <2>3. Cardinality(Upto(i)) # 0
    BY <2>1, <2>2, FS_EmptySet
  <2> QED BY <1>2, <2>2, <2>3
<1>4. \A i, j \in I : i < j => Cardinality(Upto(i)) < Cardinality(Upto(j))
  <2> SUFFICES ASSUME NEW i \in I, NEW j \in I, i < j PROVE Cardinality(Upto(i)) < Cardinality(Upto(j))
    OBVIOUS
  <2>1. Upto(i) \in SUBSET Upto(j) /\ j \in Upto(j) /\ j \notin Upto(i)
    <3>1. \A m \in I : m <= i => m <= j
      BY <1>0
    <3>2. j <= j /\ ~(j <= i)
      BY <1>0
    <3> QED BY <3>1, <3>2
  <2>2. Cardinality(Upto(i)) \in Nat /\ Cardinality(Upto(j)) \in Nat /\ IsFiniteSet(Upto(j))
    BY <1>2, <1>3
  <2> HIDE DEF Upto
  <2>3. /\ Cardinality(Upto(i)) <= Cardinality(Upto(j))
        /\ Cardinality(Upto(j)) = Cardinality(Upto(i)) => Upto(j) = Upto(i)
    BY <2>1, <2>2, FS_Subset
  <2> QED BY <2>1, <2>2, <2>3
<1>5. rank \in [I -> 1..C]
  BY <1>3
<1>6. rank \in Injection(I, 1..C)
  <2>1. \A i, j \in I : rank[i] = rank[j] => i = j
    <3>1. \A i, j \in I : i < j => rank[i] # rank[j]
      BY <1>2, <1>3, <1>4
    <3>2. \A i, j \in I : i = j \/ i < j \/ j < i
      OBVIOUS
    <3> QED BY <3>1, <3>2
  <2> QED BY <1>5, <2>1 DEF Injection, IsInjective
<1>7. rank \in Surjection(I, 1..C)
  <2>1. IsFiniteSet(1..C) /\ Cardinality(1..C) = C
    BY <1>2, FS_Interval
  <2> HIDE DEF rank
  <2> QED BY <1>2, <1>6, <2>1, FS_Injection
<1>8. \A k \in 1..C : \E i \in I : Cardinality(Upto(i)) = k
  <2>1. \A k \in 1..C : \E i \in I : rank[i] = k
    BY <1>7 DEF Surjection
  <2> QED BY <2>1
<1>9. \A k \in 1..C : Nth(I, k) \in I /\ Cardinality(Upto(Nth(I, k))) = k
  BY <1>8 DEF Nth
<1> HIDE DEF Upto, rank
<1>10. \A i, j \in I : Cardinality(Upto(i)) = Cardinality(Upto(j)) => i = j
  <2> SUFFICES ASSUME NEW i \in I, NEW j \in I, Cardinality(Upto(i)) = Cardinality(Upto(j)) PROVE i = j
    OBVIOUS
  <2>1. ~(i < j) /\ ~(j < i)
    BY <1>2, <1>3, <1>4
  <2> QED BY <1>0, <2>1
<1>11. \A i \in I : Nth(I, Cardinality(Upto(i))) = i
  BY <1>3, <1>9, <1>10
<1>12. \A j, k \in 1..C : j < k => Nth(I, j) < Nth(I, k)
  <2> SUFFICES ASSUME NEW j \in 1..C, NEW k \in 1..C, j < k, ~(Nth(I, j) < Nth(I, k)) PROVE FALSE
    OBVIOUS
  <2>1. /\ Nth(I, j) \in I /\ Cardinality(Upto(Nth(I, j))) = j
        /\ Nth(I, k) \in I /\ Cardinality(Upto(Nth(I, k))) = k
    BY <1>9
  <2>2. Nth(I, k) < Nth(I, j) \/ Nth(I, k) = Nth(I, j)
    BY <1>0, <2>1
  <2>3. CASE Nth(I, k) < Nth(I, j)
    <3>1. k < j
      BY <1>4, <2>1, <2>3
    <3> QED BY <1>2, <3>1
  <2>4. CASE Nth(I, k) = Nth(I, j)
    BY <1>2, <2>1, <2>4
  <2> QED BY <2>2, <2>3, <2>4
<1> QED BY <1>2, <1>3, <1>9, <1>11, <1>12

\* What is selected, and from where.
LEMMA Selected ==
  ASSUME NEW S, NEW s \in Seq(S), NEW I \in SUBSET DOMAIN s
  PROVE  /\ SelectAt(s, I) \in Seq(S)
         /\ \A k \in DOMAIN SelectAt(s, I) : Nth(I, k) \in I /\ SelectAt(s, I)[k] = s[Nth(I, k)]
         /\ \A i \in I : \E k \in DOMAIN SelectAt(s, I) : Nth(I, k) = i
         /\ \A j, k \in DOMAIN SelectAt(s, I) : j < k => Nth(I, j) < Nth(I, k)
<1>1. Len(s) \in Nat /\ DOMAIN s = 1..Len(s) /\ \A i \in DOMAIN s : s[i] \in S
  OBVIOUS
<1>2. /\ Cardinality(I) \in Nat
      /\ \A k \in 1..Cardinality(I) : Nth(I, k) \in I
      /\ \A i \in I : \E k \in 1..Cardinality(I) : Nth(I, k) = i
      /\ \A j, k \in 1..Cardinality(I) : j < k => Nth(I, j) < Nth(I, k)
  BY <1>1, Places
<1>3. /\ DOMAIN SelectAt(s, I) = 1..Cardinality(I)
      /\ \A k \in 1..Cardinality(I) : SelectAt(s, I)[k] = s[Nth(I, k)] /\ s[Nth(I, k)] \in S
  BY <1>1, <1>2 DEF SelectAt
<1>4. SelectAt(s, I) \in Seq(S)
  BY <1>1, <1>2, <1>3 DEF SelectAt
<1> QED BY <1>2, <1>3, <1>4

\* Every element is before every later one.
Sorted(s, R) == \A m, n \in DOMAIN s : m < n => <<s[m], s[n]>> \in R

\* Two sorted sequences make one if all of the one is before all of the other.
LEMMA SortedConcat ==
  ASSUME NEW S, NEW s \in Seq(S), NEW t \in Seq(S), NEW R, Sorted(s, R), Sorted(t, R),
         \A m \in DOMAIN s, n \in DOMAIN t : <<s[m], t[n]>> \in R
  PROVE  /\ s \o t \in Seq(S)
         /\ Sorted(s \o t, R)
         /\ Range(s \o t) = Range(s) \cup Range(t)
<1>1. /\ s \o t \in Seq(S)
      /\ Len(s) \in Nat /\ Len(t) \in Nat
      /\ DOMAIN (s \o t) = 1..Len(s) + Len(t)
      /\ DOMAIN s = 1..Len(s) /\ DOMAIN t = 1..Len(t)
      /\ \A n \in 1..Len(s) : (s \o t)[n] = s[n]
      /\ \A n \in 1..Len(t) : (s \o t)[Len(s) + n] = t[n]
  OBVIOUS
<1>2. ASSUME NEW m \in 1..Len(s) + Len(t)
      PROVE  \/ m \in 1..Len(s) /\ (s \o t)[m] = s[m]
             \/ m - Len(s) \in 1..Len(t) /\ (s \o t)[m] = t[m - Len(s)]
  <2>1. m \in 1..Len(s) \/ (m - Len(s) \in 1..Len(t) /\ m = Len(s) + (m - Len(s)))
    BY <1>1
  <2> QED BY <1>1, <2>1
<1>3. Sorted(s \o t, R)
  <2> SUFFICES ASSUME NEW m \in 1..Len(s) + Len(t), NEW n \in 1..Len(s) + Len(t), m < n
               PROVE  <<(s \o t)[m], (s \o t)[n]>> \in R
    BY <1>1 DEF Sorted
  <2>1. CASE m \in 1..Len(s) /\ n \in 1..Len(s)
    BY <1>1, <2>1 DEF Sorted
  <2>2. CASE m \in 1..Len(s) /\ n \notin 1..Len(s)
    <3>1. n - Len(s) \in DOMAIN t /\ (s \o t)[n] = t[n - Len(s)]
      BY <1>1, <1>2, <2>2
    <3> QED BY <1>1, <2>2, <3>1
  <2>3. CASE m \notin 1..Len(s)
    <3>1. n \notin 1..Len(s)
      BY <1>1, <2>3
    <3>2. /\ m - Len(s) \in DOMAIN t /\ (s \o t)[m] = t[m - Len(s)]
          /\ n - Len(s) \in DOMAIN t /\ (s \o t)[n] = t[n - Len(s)]
      BY <1>1, <1>2, <2>3, <3>1
    <3>3. m - Len(s) < n - Len(s)
      BY <1>1
    <3> QED BY <3>2, <3>3 DEF Sorted
  <2> QED BY <2>1, <2>2, <2>3
<1>4. Range(s \o t) \subseteq Range(s) \cup Range(t)
  BY <1>1, <1>2 DEF Range
<1>5. Range(s) \cup Range(t) \subseteq Range(s \o t)
  <2>1. \A n \in 1..Len(s) : n \in DOMAIN (s \o t) /\ (s \o t)[n] = s[n]
    BY <1>1
  <2>2. \A n \in 1..Len(t) : Len(s) + n \in DOMAIN (s \o t) /\ (s \o t)[Len(s) + n] = t[n]
    BY <1>1
  <2> QED BY <1>1, <2>1, <2>2 DEF Range
<1> QED BY <1>1, <1>3, <1>4, <1>5

\* A set of numbers has a least one.
LEMMA Least == ASSUME NEW T \in SUBSET Nat, T # {} PROVE \E x \in T : \A y \in T : x <= y
<1> DEFINE R == OpToRel(<, Nat)
<1>1. IsWellFoundedOn(R, Nat)
  BY NatLessThanWellFounded
<1>2. \A x, y \in Nat : x < y => <<x, y>> \in R
  BY DEF OpToRel
<1> HIDE DEF R
<1>3. PICK x \in T : \A y \in T : ~(<<y, x>> \in R)
  BY <1>1, WFMin
<1>4. \A y \in T : ~(y < x)
  BY <1>2, <1>3
<1> QED BY <1>4

\* There is but one way to sort: at the first place where two sorted sequences of the same
\* elements differ, each would have the other's element later on.
LEMMA SortedOnce ==
  ASSUME NEW S, NEW s \in Seq(S), NEW t \in Seq(S), NEW R, Sorted(s, R), Sorted(t, R),
         \A a, b \in S : <<a, b>> \in R => <<b, a>> \notin R,
         Range(s) = Range(t)
  PROVE  s = t
<1>1. /\ Len(s) \in Nat /\ Len(t) \in Nat /\ DOMAIN s = 1..Len(s) /\ DOMAIN t = 1..Len(t)
      /\ \A n \in 1..Len(s) : s[n] \in S
      /\ \A n \in 1..Len(t) : t[n] \in S
  OBVIOUS
<1>2. /\ \A n \in 1..Len(s) : \E m \in 1..Len(t) : t[m] = s[n]
      /\ \A n \in 1..Len(t) : \E m \in 1..Len(s) : s[m] = t[n]
  BY <1>1 DEF Range
<1>3. \A m, n \in 1..Len(s) : m < n => <<s[m], s[n]>> \in R /\ s[m] # s[n]
  BY <1>1 DEF Sorted
<1>4. \A m, n \in 1..Len(t) : m < n => <<t[m], t[n]>> \in R /\ t[m] # t[n]
  BY <1>1 DEF Sorted
<1> DEFINE Same(n) == n \in 1..Len(s) /\ n \in 1..Len(t) /\ s[n] = t[n]
           Differ == {n \in Nat : n \in 1..Len(s) \cup 1..Len(t) /\ ~Same(n)}
<1>5. Differ = {}
  <2> SUFFICES ASSUME Differ # {} PROVE FALSE
    OBVIOUS
  <2>1. PICK n \in Differ : \A m \in Differ : n <= m
    BY Least
  <2>2. \A m \in 1..Len(s) : m < n => m \in 1..Len(t) /\ s[m] = t[m]
    BY <1>1, <2>1
  <2>3. \A m \in 1..Len(t) : m < n => m \in 1..Len(s) /\ s[m] = t[m]
    BY <1>1, <2>1
  <2>4. n \in Nat /\ n \in 1..Len(s) \cup 1..Len(t) /\ ~Same(n)
    OBVIOUS
  <2> HIDE DEF Differ, Same
  <2>5. ASSUME n \in 1..Len(s) PROVE \E m \in 1..Len(t) : t[m] = s[n] /\ ~(m < n)
    <3>1. PICK m \in 1..Len(t) : t[m] = s[n]
      BY <1>2, <2>5
    <3> QED BY <1>3, <2>3, <2>5, <3>1
  <2>6. ASSUME n \in 1..Len(t) PROVE \E m \in 1..Len(s) : s[m] = t[n] /\ ~(m < n)
    <3>1. PICK m \in 1..Len(s) : s[m] = t[n]
      BY <1>2, <2>6
    <3> QED BY <1>4, <2>2, <2>6, <3>1
  <2>7. n \in 1..Len(s) /\ n \in 1..Len(t)
    BY <1>1, <2>4, <2>5, <2>6
  <2>8. PICK m \in 1..Len(t) : t[m] = s[n] /\ ~(m < n)
    BY <2>5, <2>7
  <2>9. PICK k \in 1..Len(s) : s[k] = t[n] /\ ~(k < n)
    BY <2>6, <2>7
  <2>10. s[n] # t[n]
    BY <2>4, <2>7 DEF Same
  <2>11. n < m /\ n < k
    BY <2>4, <2>8, <2>9, <2>10
  <2>12. <<t[n], t[m]>> \in R /\ <<s[n], s[k]>> \in R
    BY <1>3, <1>4, <2>7, <2>11
  <2> QED BY <1>1, <2>7, <2>8, <2>9, <2>12
<1>6. \A n \in 1..Len(s) : n \in 1..Len(t) /\ s[n] = t[n]
  BY <1>1, <1>5
<1>7. \A n \in 1..Len(t) : n \in 1..Len(s)
  BY <1>1, <1>5
<1>8. Len(s) = Len(t)
  <2>1. Len(s) <= Len(t)
    <3> SUFFICES ASSUME Len(s) > Len(t) PROVE FALSE
      BY <1>1
    <3>1. Len(s) \in 1..Len(s) /\ Len(s) \notin 1..Len(t)
      BY <1>1
    <3> QED BY <1>6, <3>1
  <2>2. Len(t) <= Len(s)
    <3> SUFFICES ASSUME Len(t) > Len(s) PROVE FALSE
      BY <1>1
    <3>1. Len(t) \in 1..Len(t) /\ Len(t) \notin 1..Len(s)
      BY <1>1
    <3> QED BY <1>7, <3>1
  <2>3. Len(s) \in Int /\ Len(t) \in Int
    BY <1>1
  <2> QED BY <2>1, <2>2, <2>3
<1>9. s = [n \in 1..Len(s) |-> s[n]] /\ t = [n \in 1..Len(t) |-> t[n]]
  OBVIOUS
<1>10. [n \in 1..Len(s) |-> s[n]] = [n \in 1..Len(s) |-> t[n]]
  BY <1>6
<1> QED BY <1>8, <1>9, <1>10

\* Selecting from a sequence keeps its order.
LEMMA SelectedSorted ==
  ASSUME NEW S, NEW s \in Seq(S), NEW I \in SUBSET DOMAIN s, NEW R,
         \A m, n \in I : m < n => <<s[m], s[n]>> \in R
  PROVE  /\ SelectAt(s, I) \in Seq(S)
         /\ Sorted(SelectAt(s, I), R)
         /\ Range(SelectAt(s, I)) = {s[i] : i \in I}
<1> DEFINE t == SelectAt(s, I)
<1>1. /\ t \in Seq(S)
      /\ \A k \in DOMAIN t : Nth(I, k) \in I /\ t[k] = s[Nth(I, k)]
      /\ \A i \in I : \E k \in DOMAIN t : Nth(I, k) = i
      /\ \A j, k \in DOMAIN t : j < k => Nth(I, j) < Nth(I, k)
  BY Selected
<1> HIDE DEF t
<1>2. Sorted(t, R)
  BY <1>1 DEF Sorted
<1>3. Range(t) = {s[i] : i \in I}
  BY <1>1 DEF Range
<1> QED BY <1>1, <1>2, <1>3 DEF t

\* s is, in order of acceptance, the datagrams whose tests on p are at the stages K.
Holds(s, K, p) ==
  /\ s \in Seq(Datagram)
  /\ Sorted(s, Older)
  /\ Range(s) = {d \in Datagram : \E k \in K : At(k, d, p)}

\* A test of a datagram that is at a stage is among the whereabouts.
LEMMA AtWhereabouts ==
  ASSUME NEW k \in Stage, NEW d \in Datagram, NEW p \in Peripheral, At(k, d, p)
  PROVE  <<k, d, p>> \in Whereabouts
BY DEF Whereabouts

\* What is at the later stages, followed by what is at the earlier ones.
LEMMA HoldsConcat ==
  ASSUME InOrder, NEW p \in Peripheral, NEW K \in SUBSET Stage, NEW L \in SUBSET Stage,
         \A k \in K, l \in L : l < k,
         NEW s, NEW t, Holds(s, K, p), Holds(t, L, p)
  PROVE  Holds(s \o t, K \cup L, p)
<1>1. /\ s \in Seq(Datagram) /\ Sorted(s, Older)
      /\ t \in Seq(Datagram) /\ Sorted(t, Older)
      /\ Range(s) = {d \in Datagram : \E k \in K : At(k, d, p)}
      /\ Range(t) = {d \in Datagram : \E k \in L : At(k, d, p)}
  BY DEF Holds
<1>2. ASSUME NEW m \in DOMAIN s, NEW n \in DOMAIN t PROVE <<s[m], t[n]>> \in Older
  <2>1. s[m] \in Range(s) /\ t[n] \in Range(t)
    BY DEF Range
  <2>2. PICK k \in K : s[m] \in Datagram /\ At(k, s[m], p)
    BY <1>1, <2>1
  <2>3. PICK l \in L : t[n] \in Datagram /\ At(l, t[n], p)
    BY <1>1, <2>1
  <2>4. <<k, s[m], p>> \in Whereabouts /\ <<l, t[n], p>> \in Whereabouts /\ l < k
    BY <2>2, <2>3, AtWhereabouts
  <2> QED BY <2>4 DEF InOrder
<1>3. /\ s \o t \in Seq(Datagram)
      /\ Sorted(s \o t, Older)
      /\ Range(s \o t) = Range(s) \cup Range(t)
  BY <1>1, <1>2, SortedConcat
<1>4. Range(s) \cup Range(t) = {d \in Datagram : \E k \in K \cup L : At(k, d, p)}
  BY <1>1
<1> QED BY <1>3, <1>4 DEF Holds

\* The requests of p's results in a sequence of messages to the responder.
LEMMA RequestsHold ==
  ASSUME NEW s \in Seq(OutMsgs), NEW p \in Peripheral, NEW k,
         \A m, n \in DOMAIN s : m < n /\ s[m].peri = s[n].peri => <<s[m].req, s[n].req>> \in Older,
         \A d \in Datagram : At(k, d, p) <=> \E n \in DOMAIN s : s[n].req = d /\ s[n].peri = p
  PROVE  Holds(RequestsOf(s, p), {k}, p)
<1> DEFINE I == {n \in DOMAIN s : s[n].peri = p}
           t == SelectAt(s, I)
           r == RequestsOf(s, p)
<1>1. /\ t \in Seq(OutMsgs)
      /\ \A n \in DOMAIN t : Nth(I, n) \in I /\ t[n] = s[Nth(I, n)]
      /\ \A i \in I : \E n \in DOMAIN t : Nth(I, n) = i
      /\ \A m, n \in DOMAIN t : m < n => Nth(I, m) < Nth(I, n)
  <2> I \in SUBSET DOMAIN s
    OBVIOUS
  <2> HIDE DEF I
  <2> QED BY Selected
<1>2. r = [n \in DOMAIN t |-> t[n].req]
  BY DEF RequestsOf
<1> HIDE DEF t, r
<1>3. Len(t) \in Nat /\ DOMAIN t = 1..Len(t) /\ \A n \in DOMAIN t : t[n].req \in Datagram
  <2>1. t \in Seq(OutMsgs)
    BY <1>1
  <2>2. Len(t) \in Nat /\ DOMAIN t = 1..Len(t) /\ \A n \in DOMAIN t : t[n] \in OutMsgs
    BY <2>1
  <2> QED BY <2>2 DEF OutMsgs
<1>4. r \in Seq(Datagram) /\ DOMAIN r = DOMAIN t /\ \A n \in DOMAIN r : r[n] = t[n].req
  BY <1>2, <1>3
<1>5. Sorted(r, Older)
  <2> SUFFICES ASSUME NEW m \in DOMAIN t, NEW n \in DOMAIN t, m < n
               PROVE  <<t[m].req, t[n].req>> \in Older
    BY <1>4 DEF Sorted
  <2>1. /\ Nth(I, m) \in DOMAIN s /\ s[Nth(I, m)].peri = p /\ t[m] = s[Nth(I, m)]
        /\ Nth(I, n) \in DOMAIN s /\ s[Nth(I, n)].peri = p /\ t[n] = s[Nth(I, n)]
        /\ Nth(I, m) < Nth(I, n)
    BY <1>1
  <2> QED BY <2>1
<1>6. ASSUME NEW d \in Range(r) PROVE d \in Datagram /\ At(k, d, p)
  <2>1. PICK n \in DOMAIN t : d = t[n].req
    BY <1>4, <1>6 DEF Range
  <2>2. Nth(I, n) \in DOMAIN s /\ s[Nth(I, n)].peri = p /\ s[Nth(I, n)].req = d
    BY <1>1, <2>1
  <2> QED BY <1>3, <2>1, <2>2
<1>7. ASSUME NEW d \in Datagram, At(k, d, p) PROVE d \in Range(r)
  <2>1. PICK i \in I : s[i].req = d
    BY <1>7
  <2>2. PICK n \in DOMAIN t : t[n] = s[i]
    BY <1>1, <2>1
  <2> QED BY <1>4, <2>1, <2>2 DEF Range
<1>8. Range(r) = {d \in Datagram : \E j \in {k} : At(j, d, p)}
  BY <1>6, <1>7
<1> QED BY <1>4, <1>5, <1>8 DEF Holds, r

\* The place of a single message, which may be empty.
LEMMA OnlyHolds ==
  ASSUME NEW b \in BOOLEAN, NEW e, b => e \in Datagram, NEW p \in Peripheral, NEW k,
         \A d \in Datagram : At(k, d, p) <=> b /\ d = e
  PROVE  Holds(Only(b, e), {k}, p)
<1>1. CASE b
  <2>1. Only(b, e) = <<e>> /\ e \in Datagram
    BY <1>1 DEF Only
  <2>2. <<e>> \in Seq(Datagram) /\ DOMAIN <<e>> = {1} /\ <<e>>[1] = e
    BY <2>1
  <2>3. Range(<<e>>) = {e}
    BY <2>2 DEF Range
  <2>4. Sorted(<<e>>, Older)
    BY <2>2 DEF Sorted
  <2> QED BY <1>1, <2>1, <2>2, <2>3, <2>4 DEF Holds
<1>2. CASE ~b
  <2>1. Only(b, e) = << >>
    BY <1>2 DEF Only
  <2>2. << >> \in Seq(Datagram) /\ DOMAIN << >> = {}
    OBVIOUS
  <2>3. Range(<< >>) = {}
    BY <2>2 DEF Range
  <2>4. Sorted(<< >>, Older)
    BY <2>2 DEF Sorted
  <2> QED BY <1>2, <2>1, <2>2, <2>3, <2>4 DEF Holds
<1> QED BY <1>1, <1>2

\* With every accepted test at exactly one stage, in order, the accepted datagrams that ask
\* for p are those concluded followed by those in flight.
LEMMA FlowOfOne ==
  ASSUME TypeOK, FlowInv, NEW p \in Peripheral
  PROVE  LET all  == For(accepted, p)
             done == Len(all) - Len(InFlight(p))
         IN  /\ done >= 0
             /\ InFlight(p) = SubSeq(all, done + 1, Len(all))
             /\ {c.req : c \in {c \in concluded : c.peri = p}} = {all[n] : n \in 1..done}
<1> DEFINE all == For(accepted, p)
           I == {n \in DOMAIN accepted : p \in Wanted(accepted[n])}
<1>t. /\ accepted \in Seq(Datagram) /\ inMsgQueue \in Seq(Datagram)
      /\ testQueue[p] \in Seq(Datagram) /\ outMsgQueue \in Seq(OutMsgs)
      /\ dispatcherMsg \in Datagram \/ ~(p \in dispatcherLeft)
      /\ test[p].msg \in Datagram \/ ~(test[p].pc # "get")
      /\ Responding => responderMsg \in OutMsgs
      /\ \A c \in concluded : c.req \in Datagram
  BY DEF TypeOK, Conclusions, Responding
<1>f. AcceptedOnce /\ OnlyRequested /\ NothingLost /\ InOrder /\ QueuesInOrder
  BY DEF FlowInv
<1>1. Holds(RequestsOf(outMsgQueue, p), {4}, p)
  <2>1. \A d \in Datagram : At(4, d, p) <=>
           \E n \in DOMAIN outMsgQueue : outMsgQueue[n].req = d /\ outMsgQueue[n].peri = p
    BY DEF At
  <2> QED BY <1>t, <1>f, <2>1, RequestsHold DEF QueuesInOrder
<1>2. Holds(IF Responding THEN RequestsOf(<<responderMsg>>, p) ELSE << >>, {5}, p)
  <2>1. CASE Responding
    <3> DEFINE s == <<responderMsg>>
    <3>1. s \in Seq(OutMsgs) /\ DOMAIN s = {1} /\ s[1] = responderMsg
      BY <1>t, <2>1
    <3>2. \A d \in Datagram : At(5, d, p) <=> \E n \in DOMAIN s : s[n].req = d /\ s[n].peri = p
      BY <2>1, <3>1 DEF At
    <3>3. \A m, n \in DOMAIN s : ~(m < n)
      BY <3>1
    <3> HIDE DEF s
    <3>4. Holds(RequestsOf(s, p), {5}, p)
      BY <3>1, <3>2, <3>3, RequestsHold
    <3> QED BY <2>1, <3>4 DEF s
  <2>2. CASE ~Responding
    <3>1. \A d \in Datagram : At(5, d, p) <=> FALSE /\ d = responderMsg.req
      BY <2>2 DEF At
    <3>2. Holds(Only(FALSE, responderMsg.req), {5}, p)
      BY <3>1, OnlyHolds
    <3> QED BY <2>2, <3>2 DEF Only
  <2> QED BY <2>1, <2>2
<1>3. Holds(Only(test[p].pc # "get", test[p].msg), {3}, p)
  <2>1. \A d \in Datagram : At(3, d, p) <=> test[p].pc # "get" /\ d = test[p].msg
    BY DEF At
  <2>2. (test[p].pc # "get") \in BOOLEAN /\ (test[p].pc # "get" => test[p].msg \in Datagram)
    BY <1>t
  <2> QED BY <2>1, <2>2, OnlyHolds
<1>4. Holds(testQueue[p], {2}, p)
  <2>1. \A d \in Datagram : At(2, d, p) <=> \E n \in DOMAIN testQueue[p] : testQueue[p][n] = d
    BY DEF At
  <2>2. Sorted(testQueue[p], Older)
    BY <1>f DEF Sorted, QueuesInOrder
  <2>3. Range(testQueue[p]) = {d \in Datagram : \E k \in {2} : At(k, d, p)}
    BY <1>t, <2>1 DEF Range
  <2> QED BY <1>t, <2>2, <2>3 DEF Holds
<1>5. Holds(Only(p \in dispatcherLeft, dispatcherMsg), {1}, p)
  <2>1. \A d \in Datagram : At(1, d, p) <=> p \in dispatcherLeft /\ d = dispatcherMsg
    BY DEF At
  <2>2. (p \in dispatcherLeft) \in BOOLEAN /\ (p \in dispatcherLeft => dispatcherMsg \in Datagram)
    BY <1>t
  <2> QED BY <2>1, <2>2, OnlyHolds
<1>6. Holds(For(inMsgQueue, p), {0}, p)
  <2> DEFINE J == {n \in DOMAIN inMsgQueue : p \in Wanted(inMsgQueue[n])}
  <2>1. J \in SUBSET DOMAIN inMsgQueue
    OBVIOUS
  <2>2. \A m, n \in J : m < n => <<inMsgQueue[m], inMsgQueue[n]>> \in Older
    BY <1>f DEF QueuesInOrder
  <2>3. {inMsgQueue[i] : i \in J} = {d \in Datagram : \E k \in {0} : At(k, d, p)}
    BY <1>t DEF At
  <2>4. For(inMsgQueue, p) = SelectAt(inMsgQueue, J)
    BY DEF For
  <2> HIDE DEF J
  <2> QED BY <1>t, <2>1, <2>2, <2>3, <2>4, SelectedSorted DEF Holds
<1>7. Holds(InFlight(p), 0..5, p)
  <2> DEFINE a == IF Responding THEN RequestsOf(<<responderMsg>>, p) ELSE << >>
             b == RequestsOf(outMsgQueue, p)
             c == Only(test[p].pc # "get", test[p].msg)
             e == Only(p \in dispatcherLeft, dispatcherMsg)
             f == For(inMsgQueue, p)
  <2>0. InFlight(p) = a \o b \o c \o testQueue[p] \o e \o f
    BY DEF InFlight
  <2> HIDE DEF a, b, c, e, f
  <2>1. Holds(a \o b, {4, 5}, p)
    <3>1. Holds(a \o b, {5} \cup {4}, p)
      BY <1>1, <1>2, <1>f, HoldsConcat DEF a, b, Stage
    <3>2. {5} \cup {4} = {4, 5}
      OBVIOUS
    <3> QED BY <3>1, <3>2
  <2>2. Holds(a \o b \o c, {3, 4, 5}, p)
    <3>1. Holds(a \o b \o c, {4, 5} \cup {3}, p)
      BY <2>1, <1>3, <1>f, HoldsConcat DEF c, Stage
    <3>2. {4, 5} \cup {3} = {3, 4, 5}
      OBVIOUS
    <3> QED BY <3>1, <3>2
  <2>3. Holds(a \o b \o c \o testQueue[p], {2, 3, 4, 5}, p)
    <3>1. Holds(a \o b \o c \o testQueue[p], {3, 4, 5} \cup {2}, p)
      BY <2>2, <1>4, <1>f, HoldsConcat DEF Stage
    <3>2. {3, 4, 5} \cup {2} = {2, 3, 4, 5}
      OBVIOUS
    <3> QED BY <3>1, <3>2
  <2>4. Holds(a \o b \o c \o testQueue[p] \o e, {1, 2, 3, 4, 5}, p)
    <3>1. Holds(a \o b \o c \o testQueue[p] \o e, {2, 3, 4, 5} \cup {1}, p)
      BY <2>3, <1>5, <1>f, HoldsConcat DEF e, Stage
    <3>2. {2, 3, 4, 5} \cup {1} = {1, 2, 3, 4, 5}
      OBVIOUS
    <3> QED BY <3>1, <3>2
  <2>5. Holds(a \o b \o c \o testQueue[p] \o e \o f, 0..5, p)
    <3>1. Holds(a \o b \o c \o testQueue[p] \o e \o f, {1, 2, 3, 4, 5} \cup {0}, p)
      BY <2>4, <1>6, <1>f, HoldsConcat DEF f, Stage
    <3>2. {1, 2, 3, 4, 5} \cup {0} = 0..5
      OBVIOUS
    <3> QED BY <3>1, <3>2
  <2> QED BY <2>0, <2>5
<1>8. Holds(all, Stage, p)
  <2>1. I \in SUBSET DOMAIN accepted /\ all = SelectAt(accepted, I)
    BY DEF For
  <2>2. \A m, n \in I : m < n => <<accepted[m], accepted[n]>> \in Older
    BY <1>t DEF Older
  <2>3. ASSUME NEW d \in Datagram
        PROVE  (\E i \in I : accepted[i] = d) <=> \E k \in Stage : At(k, d, p)
    <3>1. ASSUME NEW i \in I, accepted[i] = d PROVE \E k \in Stage : At(k, d, p)
      <4>1. d \in Accepted /\ p \in Wanted(d)
        BY <3>1 DEF Accepted
      <4> QED BY <1>f, <4>1 DEF NothingLost, Whereabouts
    <3>2. ASSUME NEW k \in Stage, At(k, d, p) PROVE \E i \in I : accepted[i] = d
      <4>1. d \in Accepted /\ p \in Wanted(d)
        BY <1>f, <3>2, AtWhereabouts DEF OnlyRequested
      <4> QED BY <4>1 DEF Accepted
    <3> QED BY <3>1, <3>2
  <2>4. {accepted[i] : i \in I} = {d \in Datagram : \E k \in Stage : At(k, d, p)}
    BY <1>t, <2>3
  <2> HIDE DEF I, all
  <2> QED BY <1>t, <2>1, <2>2, <2>4, SelectedSorted DEF Holds
<1> HIDE DEF all
<1>a. all \in Seq(Datagram) /\ Sorted(all, Older)
      /\ Range(all) = {d \in Datagram : \E k \in Stage : At(k, d, p)}
  BY <1>8 DEF Holds
<1> DEFINE J == {n \in DOMAIN all : IsConcluded(all[n], p)}
           past == SelectAt(all, J)
<1>9. Holds(past, {6}, p)
  <2>1. J \in SUBSET DOMAIN all
    OBVIOUS
  <2>2. \A m, n \in J : m < n => <<all[m], all[n]>> \in Older
    BY <1>a DEF Sorted
  <2>3. ASSUME NEW d \in Datagram PROVE (\E i \in J : all[i] = d) <=> \E k \in {6} : At(k, d, p)
    <3>1. At(6, d, p) <=> IsConcluded(d, p)
      BY DEF At
    <3>2. ASSUME At(6, d, p) PROVE \E i \in DOMAIN all : all[i] = d
      <4>1. d \in Range(all)
        BY <1>a, <3>2 DEF Stage
      <4> QED BY <4>1 DEF Range
    <3> QED BY <3>1, <3>2
  <2>4. {all[i] : i \in J} = {d \in Datagram : \E k \in {6} : At(k, d, p)}
    BY <1>a, <2>3
  <2> HIDE DEF J
  <2> QED BY <1>a, <2>1, <2>2, <2>4, SelectedSorted DEF Holds
<1> HIDE DEF J, past
<1>10. all = past \o InFlight(p)
  <2>1. Holds(past \o InFlight(p), {6} \cup 0..5, p)
    BY <1>7, <1>9, <1>f, HoldsConcat DEF Stage
  <2>2. {6} \cup 0..5 = Stage
    BY DEF Stage
  <2>3. Holds(past \o InFlight(p), Stage, p)
    BY <2>1, <2>2
  <2>4. \A d, e \in Datagram : <<d, e>> \in Older => <<e, d>> \notin Older
    BY <1>f, OlderStrict
  <2> QED BY <1>8, <2>3, <2>4, SortedOnce DEF Holds
<1>11. /\ past \in Seq(Datagram) /\ InFlight(p) \in Seq(Datagram)
       /\ Range(past) = {d \in Datagram : IsConcluded(d, p)}
  BY <1>7, <1>9 DEF Holds, At
<1> DEFINE later == InFlight(p)
<1> HIDE DEF later
<1>12. /\ Len(past) \in Nat /\ Len(later) \in Nat /\ Len(all) = Len(past) + Len(later)
       /\ \A n \in 1..Len(past) : all[n] = past[n]
       /\ \A n \in 1..Len(later) : all[Len(past) + n] = later[n]
  BY <1>10, <1>11 DEF later
<1>13. later = SubSeq(all, Len(past) + 1, Len(all))
  BY <1>a, <1>11, <1>12 DEF later
<1>14. {c.req : c \in {c \in concluded : c.peri = p}} = {all[n] : n \in 1..Len(past)}
  <2>1. {c.req : c \in {c \in concluded : c.peri = p}} = {d \in Datagram : IsConcluded(d, p)}
    BY <1>t DEF IsConcluded
  <2>2. Range(past) = {all[n] : n \in 1..Len(past)}
    <3>1. DOMAIN past = 1..Len(past)
      BY <1>11
    <3> QED BY <1>12, <3>1 DEF Range
  <2> QED BY <1>11, <2>1, <2>2
<1> DEFINE done == Len(all) - Len(later)
<1>15. done = Len(past)
  BY <1>12
<1> HIDE DEF done
<1>16. /\ done >= 0
       /\ later = SubSeq(all, done + 1, Len(all))
       /\ {c.req : c \in {c \in concluded : c.peri = p}} = {all[n] : n \in 1..done}
  <2>1. Len(past) >= 0
    BY <1>12
  <2> QED BY <1>13, <1>14, <1>15, <2>1
<1> QED BY <1>16, Zenon DEF all, later, done

\* Nothing is lost, repeated, misrouted or overtaken between inMsgQueue and the responder,
\* read off the queues themselves: for every load and every size.
THEOREM Conservation == Spec => []FlowConserved
<1>1. IInv => FlowConserved
  BY FlowOfOne DEF IInv, FlowConserved
<1> QED BY Invariance, <1>1, PTL

-----------------------------------------------------------------------------
(* The pipeline implements TestService.  Putting a message into inMsgQueue accepts it,   *)
(* and whatever ends the responder's work on a result concludes its request.             *)

\* What the testers see of concluded: who, and with which verdict, not whether it was sent.
Seen == {[req |-> c.req, peri |-> c.peri, result |-> c.result] : c \in concluded}

\* A test is concluded in the service when it is in the firmware.
LEMMA SeenConcluded ==
  ASSUME NEW d, NEW p PROVE Service!Concluded(d, p) <=> IsConcluded(d, p)
<1>1. ASSUME Service!Concluded(d, p) PROVE IsConcluded(d, p)
  <2>1. PICK x \in Seen : x.req = d /\ x.peri = p
    BY <1>1 DEF Service!Concluded, Seen
  <2>2. PICK c \in concluded : x = [req |-> c.req, peri |-> c.peri, result |-> c.result]
    BY <2>1 DEF Seen
  <2> QED BY <2>1, <2>2 DEF IsConcluded
<1>2. ASSUME IsConcluded(d, p) PROVE Service!Concluded(d, p)
  <2>1. PICK c \in concluded : c.req = d /\ c.peri = p
    BY <1>2 DEF IsConcluded
  <2> DEFINE x == [req |-> c.req, peri |-> c.peri, result |-> c.result]
  <2>2. x \in Seen /\ x.req = d /\ x.peri = p
    BY <2>1 DEF Seen
  <2> HIDE DEF x
  <2>3. \E y \in Seen : y.req = d /\ y.peri = p
    BY <2>2
  <2> QED BY <2>3 DEF Service!Concluded, Seen
<1> QED BY <1>1, <1>2

\* The test in the responder's hands is requested, not concluded before, and next in line.
LEMMA RespondingIsNext ==
  ASSUME IInv, Responding
  PROVE  LET r == responderMsg.req
             p == responderMsg.peri
         IN  /\ r \in Accepted /\ p \in Wanted(r)
             /\ ~Service!Concluded(r, p)
             /\ Service!NextFor(r, p)
<1> DEFINE r == responderMsg.req
           p == responderMsg.peri
<1>t. /\ TypeOK /\ AcceptedOnce /\ OnlyRequested /\ NothingLost /\ InOrder
      /\ r \in Datagram /\ p \in Peripheral
      /\ accepted \in Seq(Datagram)
  BY DEF IInv, FlowInv, TypeOK, Responding, OutMsgs
<1>1. <<5, r, p>> \in Whereabouts
  BY <1>t DEF Whereabouts, At, Stage
<1>2. r \in Accepted /\ p \in Wanted(r)
  BY <1>t, <1>1 DEF OnlyRequested
<1>3. ASSUME IsConcluded(r, p) PROVE FALSE
  <2>1. <<6, r, p>> \in Whereabouts
    BY <1>t, <1>3 DEF Whereabouts, At, Stage
  <2>2. <<r, r>> \in Older
    BY <1>1, <2>1, <1>t DEF InOrder
  <2> QED BY <2>2, <1>t, OlderStrict
<1>4. PICK n \in DOMAIN accepted : accepted[n] = r
  BY <1>2 DEF Accepted
<1>5. ASSUME NEW m \in 1..(n - 1), p \in Wanted(accepted[m]) PROVE IsConcluded(accepted[m], p)
  <2>1. /\ m \in DOMAIN accepted /\ m < n /\ accepted[m] \in Datagram
        /\ accepted[m] \in Accepted /\ <<accepted[m], r>> \in Older
        /\ accepted[m] # r
    BY <1>t, <1>4 DEF Accepted, Older, AcceptedOnce
  <2>2. PICK k \in Stage : <<k, accepted[m], p>> \in Whereabouts
    BY <2>1, <1>5, <1>t DEF NothingLost
  <2>3. CASE k < 5
    <3>1. <<r, accepted[m]>> \in Older
      BY <1>1, <2>2, <2>3, <1>t DEF InOrder
    <3> QED BY <3>1, <2>1, <1>t, OlderStrict
  <2>4. CASE k = 5
    BY <2>1, <2>2, <2>4 DEF Whereabouts, At
  <2>5. CASE k = 6
    BY <2>2, <2>5 DEF Whereabouts, At
  <2> QED BY <2>3, <2>4, <2>5 DEF Stage
<1>6. Service!NextFor(r, p)
  BY <1>4, <1>5, SeenConcluded DEF Service!NextFor
<1> QED BY <1>2, <1>3, <1>6, SeenConcluded

\* The verdict in the responder's hands is a proper one.
LEMMA RespondingVerdict ==
  ASSUME IInv, Responding PROVE responderMsg.result \in Verdict
<1>1. responderMsg.runs \in Seq(Verdict) /\ Earned(responderMsg)
  BY DEF IInv, TypeOK, Responding, OutMsgs, VerdictEarned
<1>2. Len(responderMsg.runs) \in DOMAIN responderMsg.runs
  BY <1>1 DEF Earned
<1> QED BY <1>1, <1>2 DEF Earned

\* Ending the work on a result is the service's Conclude.
LEMMA ConcludeRefines ==
  ASSUME IInv, Responding, NEW sent \in BOOLEAN, ConcludeAs(sent), UNCHANGED accepted
  PROVE  Service!Next
<1>0. responderMsg.req \in Datagram /\ responderMsg.peri \in Peripheral
      /\ responderMsg.result \in Verdict
  BY RespondingVerdict DEF IInv, TypeOK, Responding, OutMsgs
<1>p. PICK r \in Datagram, p \in Peripheral, v \in Verdict :
        r = responderMsg.req /\ p = responderMsg.peri /\ v = responderMsg.result
  BY <1>0
<1>1. Seen' = Seen \cup {[req |-> r, peri |-> p, result |-> v]}
  <2> DEFINE new == [req |-> r, peri |-> p, result |-> v, runs |-> responderMsg.runs,
                     sent |-> sent]
             Of(c) == [req |-> c.req, peri |-> c.peri, result |-> c.result]
  <2>1. concluded' = concluded \cup {new} /\ Of(new) = [req |-> r, peri |-> p, result |-> v]
    BY <1>p DEF ConcludeAs
  <2>2. Seen = {Of(c) : c \in concluded} /\ Seen' = {Of(c) : c \in concluded'}
    BY DEF Seen
  <2> HIDE DEF new, Of
  <2> QED BY <2>1, <2>2
<1>2. Service!Conclude(r, p)
  BY <1>p, <1>1, RespondingIsNext DEF Service!Conclude, Seen
<1>3. r \in {d \in Datagram : Valid(d)} /\ p \in Wanted(r)
  BY <1>p, RespondingIsNext DEF IInv, FlowInv, AcceptedOnce, Accepted
<1> QED BY <1>2, <1>3 DEF Service!Next

\* Putting a message into inMsgQueue is the service's Accept.
LEMMA AcceptRefines == ASSUME IInv, ListenerPut PROVE Service!Next
<1>1. /\ listenerMsg \in Datagram /\ Valid(listenerMsg) /\ listenerMsg \notin Accepted
      /\ accepted' = Append(accepted, listenerMsg) /\ concluded' = concluded
  BY DEF ListenerPut, IInv, TypeOK, FlowInv, AcceptedOnce
<1>2. Service!Accept(listenerMsg)
  BY <1>1 DEF Service!Accept, Accepted
<1> QED BY <1>1, <1>2 DEF Service!Next

\* The initial states map to initial states, and every step to a step of the service or to
\* a stutter.
THEOREM Refinement == Spec => ImplementsService
<1>1. Init => Service!Init
  BY DEF Init, Service!Init
<1>2. IInv /\ [Next]_vars => [Service!Next]_(Service!vars)
  <2> SUFFICES ASSUME IInv, [Next]_vars
               PROVE  Service!Next \/ UNCHANGED <<accepted, concluded>>
    BY DEF Service!vars
  <2>1. CASE ListenerPut
    BY <2>1, AcceptRefines
  <2>2. CASE ResponderNew
    <3>1. Responding /\ UNCHANGED accepted /\ (UNCHANGED concluded \/ ConcludeAs(FALSE))
      BY <2>2 DEF ResponderNew, Responding
    <3> QED BY <3>1, ConcludeRefines
  <2>3. CASE ResponderAlloc
    <3>1. Responding /\ UNCHANGED accepted /\ (UNCHANGED concluded \/ ConcludeAs(FALSE))
      BY <2>3 DEF ResponderAlloc, Responding
    <3> QED BY <3>1, ConcludeRefines
  <2>4. CASE ResponderSend
    <3>1. Responding /\ UNCHANGED accepted /\ \E sent \in BOOLEAN : ConcludeAs(sent)
      BY <2>4 DEF ResponderSend, Responding
    <3> QED BY <3>1, ConcludeRefines
  <2>5. CASE \/ Network \/ Dispatcher \/ \E p \in Peripheral : Tester(p)
             \/ ListenerStart \/ ListenerRecv \/ ListenerFree
             \/ ResponderStart \/ ResponderGet \/ ResponderFree \/ UNCHANGED vars
    BY <2>5 DEF Network, Deliver, Drop, Dispatcher, DispatcherGet, DispatcherPut, Tester,
                TestGet, TestIterate, TestLeaveLoop, TestPut, ListenerStart, ListenerRecv,
                ListenerFree, ResponderStart, ResponderGet, ResponderFree, vars
  <2> QED BY <2>1, <2>2, <2>3, <2>4, <2>5 DEF Next, Listener, Responder
<1> QED BY Invariance, <1>1, <1>2, PTL DEF Spec, ImplementsService, Service!Spec
=============================================================================
