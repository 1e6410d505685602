----------------------------- MODULE TestBenchProofs -----------------------------
(***************************************************************************)
(* Facts about the test bench that the proofs about both clients use: what *)
(* the UUT, the network and the database do, and that a row of the         *)
(* database which is true stays true.                                      *)
(***************************************************************************)
EXTENDS TestBench, TLAPS

-----------------------------------------------------------------------------
(* Types *)

RowSet == [test_id : Nat, result : BOOLEAN, req : Message]
AnswerSet == [req : Message, peri : Peripheral, result : Verdict, copy : 1..2]
ConclusionSet == [req : Message, peri : Peripheral, result : Verdict]

\* The types of the database file, and of the network with the UUT.
DbTyped ==
  /\ dbWriter \in Client \cup {NoClient} /\ dbReaders \subseteq Client
  /\ dbWriter # NoClient => dbReaders = {}
  /\ overlapped \in BOOLEAN

NetTyped ==
  /\ network \in Network
  /\ requests \subseteq Message /\ responses \subseteq AnswerSet
  /\ accepted \in Seq(Message) /\ concluded \subseteq ConclusionSet

\* The types of the bench in the parts that the steps change separately.
LEMMA BenchTyped ==
  /\ BenchTypeOK => NetTyped /\ DbTyped /\ testLogs \in Seq(RowSet)
  /\ NetTyped' /\ DbTyped' /\ testLogs' \in Seq(RowSet) => BenchTypeOK'
BY DEF BenchTypeOK, NetTyped, DbTyped, RowSet, AnswerSet, ConclusionSet, Locked

\* A sequence with one more element.
LEMMA AppendTyped ==
  ASSUME NEW S, NEW s \in Seq(S), NEW e \in S
  PROVE  Append(s, e) \in Seq(S)
OBVIOUS

-----------------------------------------------------------------------------
(* The rows and their ids *)

\* One of the rows has the greatest id.
GreatestId ==
  testLogs # << >> =>
    \E n \in DOMAIN testLogs : \A m \in DOMAIN testLogs : testLogs[m].test_id <= testLogs[n].test_id

\* The rows are numbered, and have ids.
LEMMA Rows ==
  ASSUME BenchTypeOK
  PROVE  /\ Len(testLogs) \in Nat /\ DOMAIN testLogs = 1..Len(testLogs)
         /\ \A m \in DOMAIN testLogs :
              testLogs[m] \in [test_id : Nat, result : BOOLEAN, req : Message] /\ testLogs[m].test_id \in Nat
<1> DEFINE RowType == [test_id : Nat, result : BOOLEAN, req : Message]
<1>1. testLogs \in Seq(RowType)
  BY DEF BenchTypeOK
<1> HIDE DEF RowType
<1>2. /\ Len(testLogs) \in Nat /\ DOMAIN testLogs = 1..Len(testLogs)
      /\ \A m \in DOMAIN testLogs : testLogs[m] \in RowType
  BY <1>1
<1> QED BY <1>2 DEF RowType

\* One of the rows has the greatest id, so that the next id is a number.
LEMMA NextIdIsNat ==
  ASSUME BenchTypeOK, GreatestId
  PROVE  NextId \in Nat
<1>1. CASE Locked \/ testLogs = << >>
  BY <1>1 DEF NextId
<1>2. CASE ~Locked /\ testLogs # << >>
  <2>1. PICK n \in DOMAIN testLogs :
          \A m \in DOMAIN testLogs : testLogs[m].test_id <= testLogs[n].test_id
    BY <1>2 DEF GreatestId
  <2>2. \A m \in DOMAIN testLogs : testLogs[m].test_id \in Nat
    BY Rows
  <2>3. \E x \in Ids : \A y \in Ids : x >= y
    <3>1. testLogs[n].test_id \in Ids
      BY DEF Ids
    <3>2. \A y \in Ids : testLogs[n].test_id >= y
      BY <2>1, <2>2 DEF Ids
    <3> QED BY <3>1, <3>2
  <2>4. Max(Ids) \in Ids
    BY <2>3 DEF Max
  <2>5. Max(Ids) \in Nat
    BY <2>2, <2>4 DEF Ids
  <2> QED BY <1>2, <2>5 DEF NextId
<1> QED BY <1>1, <1>2

\* A row is appended at the end.
LEMMA AppendedRow ==
  ASSUME BenchTypeOK, NEW row \in RowSet, testLogs' = Append(testLogs, row)
  PROVE  /\ testLogs' \in Seq(RowSet) /\ DOMAIN testLogs' = 1..Len(testLogs) + 1
         /\ \A m \in DOMAIN testLogs : m \in DOMAIN testLogs' /\ testLogs'[m] = testLogs[m]
         /\ testLogs'[Len(testLogs) + 1] = row /\ row.test_id \in Nat
         /\ \A m \in DOMAIN testLogs' : m \in DOMAIN testLogs \/ m = Len(testLogs) + 1
<1>1. testLogs \in Seq(RowSet)
  BY BenchTyped
<1>2. row.test_id \in Nat
  BY DEF RowSet
<1> QED BY <1>1, <1>2

\* One of the rows still has the greatest id when a row is appended.
LEMMA GreatestAppend ==
  ASSUME BenchTypeOK, GreatestId, NEW row \in RowSet, testLogs' = Append(testLogs, row)
  PROVE  GreatestId'
<1> DEFINE N == Len(testLogs) + 1
<1>2. /\ DOMAIN testLogs' = 1..N /\ DOMAIN testLogs = 1..N - 1 /\ N \in Nat \ {0}
      /\ \A m \in 1..N - 1 : testLogs'[m] = testLogs[m] /\ testLogs[m].test_id \in Nat
      /\ testLogs'[N].test_id \in Nat
  BY Rows, AppendedRow
<1>4. CASE \A m \in 1..N - 1 : testLogs[m].test_id <= testLogs'[N].test_id
  <2>1. \A m \in 1..N : testLogs'[m].test_id <= testLogs'[N].test_id
    BY <1>2, <1>4
  <2>2. N \in DOMAIN testLogs' /\ \A m \in DOMAIN testLogs' : testLogs'[m].test_id <= testLogs'[N].test_id
    BY <1>2, <2>1
  <2> HIDE DEF N
  <2> QED BY <2>2 DEF GreatestId
<1>5. ASSUME NEW j \in 1..N - 1, ~(testLogs[j].test_id <= testLogs'[N].test_id) PROVE GreatestId'
  <2>1. testLogs # << >>
    BY <1>2, <1>5
  <2>2. PICK n \in 1..N - 1 : \A m \in 1..N - 1 : testLogs[m].test_id <= testLogs[n].test_id
    BY <1>2, <2>1 DEF GreatestId
  <2>3. \A m \in 1..N : testLogs'[m].test_id <= testLogs'[n].test_id
    <3> TAKE m \in 1..N
    <3>1. CASE m \in 1..N - 1
      BY <1>2, <2>2, <3>1
    <3>2. CASE m = N
      <4>1. testLogs[j].test_id \in Nat /\ testLogs[n].test_id \in Nat
        BY <1>2
      <4>2. testLogs'[N].test_id <= testLogs[n].test_id
        BY <1>2, <1>5, <2>2, <4>1
      <4> QED BY <1>2, <3>2, <4>2
    <3> QED BY <1>2, <3>1, <3>2
  <2>4. n \in DOMAIN testLogs'
    BY <1>2
  <2>5. \A m \in DOMAIN testLogs' : testLogs'[m].test_id <= testLogs'[n].test_id
    BY <1>2, <2>3
  <2> QED BY <2>4, <2>5 DEF GreatestId
<1> QED BY <1>4, <1>5

-----------------------------------------------------------------------------
(* The UUT and the network *)

\* The UUT concludes the test of one peripheral, and answers.
LEMMA Responds ==
  ASSUME BenchTypeOK, NEW n \in DOMAIN accepted, NEW p \in Wanted(accepted[n]), UutRespond(accepted[n], p)
  PROVE  /\ accepted[n] \in Message /\ p \in Peripheral
         /\ \A k \in concluded : ~(k.req = accepted[n] /\ k.peri = p)
         /\ \E v \in Verdict :
              /\ concluded' = concluded \cup {[req |-> accepted[n], peri |-> p, result |-> v]}
              /\ responses' = responses \cup
                   {[req |-> accepted[n], peri |-> p, result |-> v, copy |-> 1]}
         /\ UNCHANGED <<requests, accepted, testLogs, dbWriter, dbReaders, overlapped, pc>>
<1>1. accepted[n] \in Message /\ p \in Peripheral
  <2>1. accepted[n] \in Message
    BY DEF BenchTypeOK
  <2> QED BY <2>1 DEF Message, Wanted
<1>2. \A k \in concluded : ~(k.req = accepted[n] /\ k.peri = p)
  BY DEF UutRespond, Uut!Conclude, Uut!Concluded
<1>3. PICK v \in Verdict :
        concluded' = concluded \cup {[req |-> accepted[n], peri |-> p, result |-> v]}
  BY DEF UutRespond, Uut!Conclude
<1>4. concluded' \ concluded = {[req |-> accepted[n], peri |-> p, result |-> v]}
  <2>1. [req |-> accepted[n], peri |-> p, result |-> v] \notin concluded
    BY <1>2
  <2> QED BY <1>3, <2>1
<1>5. responses' = responses \cup {[req |-> accepted[n], peri |-> p, result |-> v, copy |-> 1]}
  <2> DEFINE k == [req |-> accepted[n], peri |-> p, result |-> v]
  <2>1. {[req |-> j.req, peri |-> j.peri, result |-> j.result, copy |-> 1] : j \in {k}}
        = {[req |-> accepted[n], peri |-> p, result |-> v, copy |-> 1]}
    OBVIOUS
  <2>2. responses' = responses \cup
          {[req |-> j.req, peri |-> j.peri, result |-> j.result, copy |-> 1] : j \in concluded' \ concluded}
    BY DEF UutRespond
  <2> QED BY <1>4, <2>1, <2>2
<1>6. UNCHANGED <<requests, accepted, testLogs, dbWriter, dbReaders, overlapped, pc>>
  BY DEF UutRespond, Uut!Conclude, dbVars
<1> QED BY <1>1, <1>2, <1>3, <1>5, <1>6

\* A step of the UUT or of the network keeps the types, and away from the clients.
LEMMA BenchTypeStep ==
  ASSUME BenchTypeOK, BenchStep
  PROVE  NetTyped' /\ UNCHANGED <<pc, network, testLogs, dbWriter, dbReaders, overlapped>>
<1>t. NetTyped
  BY BenchTyped
<1>1. ASSUME NEW r \in requests, UutReceive(r), UNCHANGED network PROVE NetTyped'
  <2>1. r \in Message
    BY <1>t DEF NetTyped
  <2>2. accepted' \in Seq(Message)
    <3>1. accepted' = accepted \/ accepted' = Append(accepted, r)
      BY <1>1 DEF UutReceive, Uut!Accept, uutVars
    <3>2. accepted \in Seq(Message)
      BY <1>t DEF NetTyped
    <3> QED BY <2>1, <3>1, <3>2, AppendTyped
  <2>3. UNCHANGED <<concluded, responses>> /\ requests' \subseteq requests
    BY <1>1 DEF UutReceive, Uut!Accept, uutVars
  <2> QED BY <1>t, <1>1, <2>2, <2>3 DEF NetTyped
<1>2. ASSUME NEW n \in DOMAIN accepted, NEW p \in Wanted(accepted[n]), UutRespond(accepted[n], p),
             UNCHANGED network
      PROVE  NetTyped'
  <2>1. PICK v \in Verdict :
          /\ concluded' = concluded \cup {[req |-> accepted[n], peri |-> p, result |-> v]}
          /\ responses' = responses \cup {[req |-> accepted[n], peri |-> p, result |-> v, copy |-> 1]}
    BY <1>2, Responds
  <2>2. /\ accepted[n] \in Message /\ p \in Peripheral
        /\ UNCHANGED <<requests, accepted>>
    BY <1>2, Responds
  <2>3. /\ [req |-> accepted[n], peri |-> p, result |-> v] \in ConclusionSet
        /\ [req |-> accepted[n], peri |-> p, result |-> v, copy |-> 1] \in AnswerSet
    BY <2>2 DEF ConclusionSet, AnswerSet
  <2> QED BY <1>t, <1>2, <2>1, <2>2, <2>3 DEF NetTyped
<1>3. ASSUME Lose PROVE NetTyped'
  <2>1. /\ requests' \subseteq requests /\ responses' \subseteq responses
        /\ UNCHANGED <<network, accepted, concluded>>
    <3>1. ASSUME NEW r \in requests, requests' = requests \ {r} /\ UNCHANGED responses
          PROVE  requests' \subseteq requests /\ responses' \subseteq responses
      BY <3>1
    <3>2. ASSUME NEW m \in responses, responses' = responses \ {m} /\ UNCHANGED requests
          PROVE  requests' \subseteq requests /\ responses' \subseteq responses
      BY <3>2
    <3> QED BY <1>3, <3>1, <3>2 DEF Lose, uutVars
  <2> QED BY <1>t, <2>1 DEF NetTyped
<1>4. ASSUME Duplicate PROVE NetTyped'
  <2>1. PICK m \in responses : responses' = responses \cup {[m EXCEPT !.copy = 2]}
    BY <1>4 DEF Duplicate
  <2>2. m \in AnswerSet
    BY <1>t, <2>1 DEF NetTyped
  <2>3. [m EXCEPT !.copy = 2] \in AnswerSet
    BY <2>2 DEF AnswerSet
  <2>4. UNCHANGED <<network, requests, accepted, concluded>>
    BY <1>4 DEF Duplicate, uutVars
  <2>5. responses' \subseteq AnswerSet
    BY <1>t, <2>1, <2>3 DEF NetTyped
  <2> QED BY <1>t, <2>4, <2>5 DEF NetTyped
<1>5. ASSUME UutStep PROVE NetTyped'
  BY <1>1, <1>2, <1>5 DEF UutStep
<1>6. UNCHANGED <<pc, network, testLogs, dbWriter, dbReaders, overlapped>>
  BY DEF BenchStep, UutStep, UutReceive, UutRespond, Lose, Duplicate, dbVars
<1> QED BY <1>3, <1>4, <1>5, <1>6 DEF BenchStep

-----------------------------------------------------------------------------
(* True rows *)

\* A row, once true, stays true: what has concluded has concluded with one verdict.
RowTrue(row) ==
  /\ \A p \in Wanted(row.req) : Uut!Concluded(row.req, p)
  /\ row.result <=> \A p \in Wanted(row.req) :
                      [req |-> row.req, peri |-> p, result |-> "SUCCESS"] \in concluded

RowTrueNext(row) ==
  /\ \A p \in Wanted(row.req) : \E k \in concluded' : k.req = row.req /\ k.peri = p
  /\ row.result <=> \A p \in Wanted(row.req) :
                      [req |-> row.req, peri |-> p, result |-> "SUCCESS"] \in concluded'

\* A row that is true stays true whatever the UUT does: it concludes each test once.
LEMMA RowStays ==
  ASSUME BenchTypeOK, BenchStep \/ concluded' = concluded, NEW row, RowTrue(row)
  PROVE  RowTrueNext(row)
<1>0. ASSUME concluded' = concluded PROVE RowTrueNext(row)
  BY <1>0 DEF RowTrue, RowTrueNext, Uut!Concluded
<1>1. ASSUME NEW n \in DOMAIN accepted, NEW q \in Wanted(accepted[n]), UutRespond(accepted[n], q)
      PROVE  RowTrueNext(row)
  <2>1. PICK v \in Verdict :
          concluded' = concluded \cup {[req |-> accepted[n], peri |-> q, result |-> v]}
    BY <1>1, Responds
  <2>2. \A k \in concluded : ~(k.req = accepted[n] /\ k.peri = q)
    BY <1>1, Responds
  <2>3. \A p \in Wanted(row.req) : \E k \in concluded : k.req = row.req /\ k.peri = p
    BY DEF RowTrue, Uut!Concluded
  <2>4. ASSUME NEW p \in Wanted(row.req)
        PROVE  [req |-> row.req, peri |-> p, result |-> "SUCCESS"] \in concluded'
               <=> [req |-> row.req, peri |-> p, result |-> "SUCCESS"] \in concluded
    <3>1. ~(row.req = accepted[n] /\ p = q)
      BY <2>2, <2>3
    <3> DEFINE j == [req |-> row.req, peri |-> p, result |-> "SUCCESS"]
               k == [req |-> accepted[n], peri |-> q, result |-> v]
    <3>2. j.req = row.req /\ j.peri = p /\ k.req = accepted[n] /\ k.peri = q
      OBVIOUS
    <3>3. concluded' = concluded \cup {k}
      BY <2>1
    <3> HIDE DEF j, k
    <3>4. j \in concluded' <=> j \in concluded
      BY <3>1, <3>2, <3>3
    <3> QED BY <3>4 DEF j
  <2> QED BY <2>1, <2>3, <2>4 DEF RowTrue, RowTrueNext
<1>2. ASSUME NEW r \in requests, UutReceive(r) PROVE concluded' = concluded
  BY <1>2 DEF UutReceive, Uut!Accept, uutVars
<1>3. ASSUME Lose \/ Duplicate PROVE concluded' = concluded
  BY <1>3 DEF Lose, Duplicate, uutVars
<1>4. ASSUME UutStep PROVE RowTrueNext(row)
  BY <1>0, <1>1, <1>2, <1>4 DEF UutStep
<1> QED BY <1>0, <1>3, <1>4 DEF BenchStep

\* What a client appends has to be true.
LEMMA LoggedStays ==
  ASSUME BenchTypeOK, LoggedResultTrue, BenchStep \/ concluded' = concluded,
         NEW row, (row \in RowSet /\ RowTrue(row) /\ testLogs' = Append(testLogs, row)) \/ UNCHANGED testLogs
  PROVE  LoggedResultTrue'
<1>1. \A m \in DOMAIN testLogs : RowTrueNext(testLogs[m])
  <2>1. \A m \in DOMAIN testLogs : RowTrue(testLogs[m])
    BY DEF LoggedResultTrue, RowTrue
  <2> QED BY <2>1, RowStays
<1>2. \A n \in DOMAIN testLogs' : RowTrueNext(testLogs'[n])
  <2>1. CASE UNCHANGED testLogs
    BY <1>1, <2>1
  <2>2. CASE row \in RowSet /\ RowTrue(row) /\ testLogs' = Append(testLogs, row)
    <3>1. RowTrueNext(row)
      BY <2>2, RowStays
    <3> QED BY <1>1, <2>2, <3>1, AppendedRow
  <2> QED BY <2>1, <2>2
<1> QED BY <1>2 DEF LoggedResultTrue, RowTrueNext, Uut!Concluded
=============================================================================
