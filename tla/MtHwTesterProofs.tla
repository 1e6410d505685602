----------------------------- MODULE MtHwTesterProofs -----------------------------
(* Theorems about MtHwTester, for every set of clients and of command lines. *)
EXTENDS MtHwTester, TestBenchProofs, FiniteSetTheorems

-----------------------------------------------------------------------------
(* The inductive invariant *)

\* Where main has not sent yet; where the request is not loaded; where the threads are joined.
BeforeSend == {"init_db", "prepare_id", "step_id", "close_id", "init_db_again", "send"}
BeforeLoad == {"init_db", "prepare_id", "step_id"}
AfterJoin == {"prepare_log", "step_log", "commit", "print", "close_print", "success"}

SentBy(r) == r = out_msg[r.client] /\ pc[r.client] \notin BeforeSend
Verdict3(k) == [req |-> k.req, peri |-> k.peri, result |-> k.result]

\* All there is of a client is about its one request: what is on its way, accepted, concluded
\* and answered; each test concludes once.
OneRequest ==
  /\ \A c \in Client : /\ out_msg[c].client = c
                       /\ pc[c] \notin BeforeLoad \cup {"sqlite_error"} => out_msg[c].peripheral = args[c].want
  /\ \A r \in requests : SentBy(r)
  /\ \A n \in DOMAIN accepted : SentBy(accepted[n])
  /\ \A k \in concluded : SentBy(k.req) /\ k.peri \in Wanted(k.req)
  /\ \A j, k \in concluded : j.req = k.req /\ j.peri = k.peri => j = k
  /\ \A m \in responses : Verdict3(m) \in concluded /\ (network # "duplicating" => m.copy = 1)

Done(c) == {i \in Index : thread[c][i] \in {"exit", "gone"}}

\* The threads that have posted, and how they add up with the semaphore and the counter of the
\* loop that main is in.  In the end none is left.
ThreadsOf(c) ==
  /\ count[c] \in 0..n_threads(c)
  /\ \A i \in Index : i > n_threads(c) => thread[c][i] = "none"
  /\ pc[c] \in BeforeSend \cup Ended \cup AfterJoin =>
       /\ \A i \in Index : thread[c][i] \in {"none", "gone"}
       /\ count[c] = 0 /\ tests_done_sem[c] = 0
  /\ pc[c] \in BeforeSend => \A i \in Index : thread[c][i] = "none"
  /\ pc[c] = "create" => /\ \A i \in Index : thread[c][i] = "none" <=> i > count[c]
                         /\ tests_done_sem[c] = Cardinality(Done(c))
  /\ pc[c] \in {"wait", "join"} \cup AfterJoin =>
       \A i \in Index : i <= n_threads(c) => thread[c][i] # "none"
  /\ pc[c] = "wait" => tests_done_sem[c] + count[c] = Cardinality(Done(c))
  /\ pc[c] = "join" => /\ tests_done_sem[c] + n_threads(c) = Cardinality(Done(c))
                       /\ \A i \in 1..count[c] : thread[c][i] = "gone"

ThreadsCounted == \A c \in Client : ThreadsOf(c)

\* The verdicts on the tests of a client, the answers with it that are on their way, and the
\* threads that have taken one.  No answer is taken twice or comes from nowhere.  It is a count
\* because any thread may take any answer.
Given(c, v) == {p \in Peripheral : [req |-> out_msg[c], peri |-> p, result |-> v] \in concluded}
OnTheWay(c, v) ==
  {p \in Peripheral : [req |-> out_msg[c], peri |-> p, result |-> v, copy |-> 1] \in responses}
Taken(c, v) == {i \in Index : thread[c][i] \in {"post", "exit", "gone"} /\ results[c][i] = (v = "SUCCESS")}

AnswersCounted ==
  network # "duplicating" =>
    \A c \in Client, v \in Verdict :
      Cardinality(OnTheWay(c, v)) + Cardinality(Taken(c, v)) <= Cardinality(Given(c, v))

\* The inductive invariant.
IInv == TypeOK /\ GreatestId /\ OneRequest /\ ThreadsCounted /\ AnswersCounted /\ LoggedVerdictTrue

-----------------------------------------------------------------------------
(* Counting *)

\* There are at most five threads in any set of them,
LEMMA IndexSubsets ==
  ASSUME NEW S \in SUBSET Index
  PROVE  IsFiniteSet(S) /\ Cardinality(S) \in 0..5
<1>1. IsFiniteSet(Index) /\ Cardinality(Index) = 5
  <2>1. IsFiniteSet(1..5) /\ Cardinality(1..5) = IF 1 > 5 THEN 0 ELSE 5 - 1 + 1
    <3>1. \A a, b \in Int : IsFiniteSet(a..b) /\ Cardinality(a..b) = IF a > b THEN 0 ELSE b - a + 1
      BY FS_Interval
    <3>2. 1 \in Int /\ 5 \in Int
      OBVIOUS
    <3> QED BY <3>1, <3>2, Zenon
  <2> QED BY <2>1 DEF Index, N_TESTS
<1>2. IsFiniteSet(S) /\ Cardinality(S) <= Cardinality(Index)
  BY <1>1, FS_Subset
<1>3. Cardinality(S) \in Nat
  BY <1>2, FS_CardinalityType
<1>4. Cardinality(S) <= 5
  BY <1>1, <1>2
<1> QED BY <1>2, <1>3, <1>4

\* and at most five peripherals.
LEMMA PeripheralSubsets ==
  ASSUME NEW S \in SUBSET Peripheral
  PROVE  IsFiniteSet(S) /\ Cardinality(S) \in 0..5
<1>1. IsFiniteSet({"UART"}) /\ Cardinality({"UART"}) = 1
  BY FS_Singleton
<1>2. IsFiniteSet({"UART", "I2C"}) /\ Cardinality({"UART", "I2C"}) = 2
  <2>1. {"UART"} \cup {"I2C"} = {"UART", "I2C"}
    OBVIOUS
  <2> QED BY <1>1, <2>1, FS_AddElement
<1>3. IsFiniteSet({"UART", "I2C", "SPI"}) /\ Cardinality({"UART", "I2C", "SPI"}) = 3
  <2>1. {"UART", "I2C"} \cup {"SPI"} = {"UART", "I2C", "SPI"}
    OBVIOUS
  <2> QED BY <1>2, <2>1, FS_AddElement
<1>4. IsFiniteSet({"UART", "I2C", "SPI", "ADC"}) /\ Cardinality({"UART", "I2C", "SPI", "ADC"}) = 4
  <2>1. {"UART", "I2C", "SPI"} \cup {"ADC"} = {"UART", "I2C", "SPI", "ADC"}
    OBVIOUS
  <2> QED BY <1>3, <2>1, FS_AddElement
<1>5. IsFiniteSet(Peripheral) /\ Cardinality(Peripheral) = 5
  <2>1. {"UART", "I2C", "SPI", "ADC"} \cup {"TIM"} = Peripheral
    BY DEF Peripheral
  <2> QED BY <1>4, <2>1, FS_AddElement
<1>6. IsFiniteSet(S) /\ Cardinality(S) <= Cardinality(Peripheral)
  BY <1>5, FS_Subset
<1>7. Cardinality(S) \in Nat
  BY <1>6, FS_CardinalityType
<1> QED BY <1>5, <1>6, <1>7

\* The types of the bench are among those of the client.
LEMMA TypeIsBench == TypeOK => BenchTypeOK
BY DEF TypeOK

\* A client has between one and five threads.
LEMMA SomeThreads ==
  ASSUME TypeOK, NEW c \in Client
  PROVE  n_threads(c) \in 1..5 /\ args[c].want \in SUBSET Peripheral
<1>1. args[c].want \in SUBSET Peripheral /\ args[c].want # {}
  BY ArgumentAssumption DEF TypeOK
<1>2. IsFiniteSet(args[c].want) /\ Cardinality(args[c].want) \in 0..5
  BY <1>1, PeripheralSubsets
<1>3. Cardinality(args[c].want) # 0
  BY <1>1, <1>2, FS_EmptySet
<1> QED BY <1>1, <1>2, <1>3 DEF n_threads

-----------------------------------------------------------------------------
(* What the steps do *)

\* A step of the database moves main on its way to the request, or after the threads.
LEMMA DatabaseStep ==
  ASSUME TypeOK, NEW c \in Client, Database(c)
  PROVE  /\ pc' = [pc EXCEPT ![c] = pc'[c]]
         /\ UNCHANGED <<network, requests, responses, accepted, concluded, args, out_msg, count,
                        thread, results, tests_done_sem>>
         /\ \/ /\ pc[c] \in BeforeSend /\ pc'[c] \in BeforeSend \cup {"sqlite_error"}
               /\ pc[c] \notin BeforeLoad => pc'[c] \notin BeforeLoad
            \/ pc[c] \in AfterJoin \ {"success"} /\ pc'[c] \in AfterJoin \cup {"sqlite_error"}
<1>1. UNCHANGED <<network, requests, responses, accepted, concluded, args, out_msg, count,
                  thread, results, tests_done_sem>>
  BY DEF Database, netVars, uutVars, clientVars
<1>2. \E to : /\ pc' = [pc EXCEPT ![c] = to]
              /\ \/ /\ pc[c] \in BeforeSend /\ to \in BeforeSend \cup {"sqlite_error"}
                    /\ pc[c] \notin BeforeLoad => to \notin BeforeLoad
                 \/ pc[c] \in AfterJoin \ {"success"} /\ to \in AfterJoin \cup {"sqlite_error"}
  <2>1. CASE Start(c, "prepare_id")
    BY <2>1 DEF Start, Goto, BeforeSend, BeforeLoad
  <2>2. CASE PrepareId(c)
    BY <2>2 DEF PrepareId, Call, Goto, BeforeSend, BeforeLoad
  <2>3. CASE CloseId(c, "init_db_again")
    <3>1. pc[c] = "close_id" /\ pc' = [pc EXCEPT ![c] = "init_db_again"]
      BY <2>3 DEF CloseId, Goto
    <3>2. /\ pc[c] \in BeforeSend /\ "init_db_again" \in BeforeSend \cup {"sqlite_error"}
          /\ "init_db_again" \notin BeforeLoad
      BY <3>1 DEF BeforeSend, BeforeLoad
    <3> QED BY <3>1, <3>2, Zenon
  <2>4. CASE InitDb(c, "init_db_again", "send")
    <3>1. pc[c] = "init_db_again" /\ \E to \in {"sqlite_error", "send"} : pc' = [pc EXCEPT ![c] = to]
      BY <2>4 DEF InitDb, Call, Goto
    <3>2. PICK to \in {"sqlite_error", "send"} : pc' = [pc EXCEPT ![c] = to]
      BY <3>1
    <3>3. /\ pc[c] \in BeforeSend /\ to \in BeforeSend \cup {"sqlite_error"}
          /\ to \notin BeforeLoad
      BY <3>1, <3>2 DEF BeforeSend, BeforeLoad
    <3> QED BY <3>2, <3>3
  <2>5. CASE PrepareLog(c)
    BY <2>5 DEF PrepareLog, Call, Goto, AfterJoin
  <2>6. CASE StepLog(c)
    BY <2>6 DEF StepLog, Goto, AfterJoin
  <2>7. CASE CommitLog(c, [test_id |-> out_msg[c].test_id, req |-> out_msg[c],
                           result |-> AllSuccess(c)])
    BY <2>7 DEF CommitLog, Goto, AfterJoin
  <2>8. CASE StepPrint(c)
    BY <2>8 DEF StepPrint, Goto, AfterJoin
  <2>9. CASE ClosePrint(c, "success")
    BY <2>9 DEF ClosePrint, Goto, AfterJoin
  <2> QED BY <2>1, <2>2, <2>3, <2>4, <2>5, <2>6, <2>7, <2>8, <2>9 DEF Database
<1>3. pc \in [Client -> {"init_db", "prepare_id", "step_id", "close_id", "init_db_again",
                         "send", "create", "wait", "join", "prepare_log", "step_log",
                         "commit", "print", "close_print"} \cup Ended]
  BY DEF TypeOK
<1> QED BY <1>1, <1>2, <1>3

\* What it does to the database.
Row(c) == [test_id |-> out_msg[c].test_id, req |-> out_msg[c], result |-> AllSuccess(c)]

\* What a client appends is a row.
LEMMA RowTyped ==
  ASSUME TypeOK, NEW c \in Client
  PROVE  Row(c) \in RowSet
<1>1. AllSuccess(c) \in BOOLEAN
  BY DEF AllSuccess
<1>2. out_msg[c] \in Message /\ out_msg[c].test_id \in Nat
  BY DEF TypeOK, Message
<1> QED BY <1>1, <1>2 DEF Row, RowSet

\* What the steps of tests_db.c do to the file: only a commit appends a row.
LEMMA DatabaseRows ==
  ASSUME TypeOK, NEW c \in Client, Database(c)
  PROVE  /\ dbWriter' \in Client \cup {NoClient} /\ dbReaders' \subseteq Client
         /\ Locked' => dbReaders' = {}
         /\ overlapped' \in BOOLEAN
         /\ \/ UNCHANGED testLogs
            \/ pc[c] = "commit" /\ testLogs' = Append(testLogs, Row(c))
<1> USE DEF TypeOK, BenchTypeOK, Locked
<1>1. CASE Start(c, "prepare_id")
  BY <1>1 DEF Start
<1>2. CASE PrepareId(c) \/ InitDb(c, "init_db_again", "send") \/ PrepareLog(c)
  BY <1>2 DEF PrepareId, InitDb, PrepareLog, Call, dbVars
<1>3. CASE CloseId(c, "init_db_again") \/ ClosePrint(c, "success")
  BY <1>3 DEF CloseId, ClosePrint
<1>4. CASE StepLog(c)
  BY <1>4 DEF StepLog
<1>5. CASE CommitLog(c, Row(c))
  BY <1>5 DEF CommitLog
<1>6. CASE StepPrint(c)
  BY <1>6 DEF StepPrint
<1> QED BY <1>1, <1>2, <1>3, <1>4, <1>5, <1>6 DEF Database, Row

-----------------------------------------------------------------------------
(* The threads and the semaphore *)

\* The count of the threads depends on the fields of their own client alone.
LEMMA ThreadsFrame ==
  ASSUME NEW c \in Client, ThreadsOf(c),
         pc'[c] = pc[c], count'[c] = count[c], thread'[c] = thread[c],
         tests_done_sem'[c] = tests_done_sem[c], args' = args
  PROVE  ThreadsOf(c)'
<1>1. Done(c)' = Done(c) /\ n_threads(c)' = n_threads(c)
  BY DEF Done, n_threads
<1> QED BY <1>1 DEF ThreadsOf

\* Before the request and after the threads nothing is left of them.
LEMMA ThreadsDatabase ==
  ASSUME TypeOK, NEW c \in Client, ThreadsOf(c), Database(c)
  PROVE  ThreadsOf(c)'
<1>1. /\ count' = count /\ thread' = thread /\ tests_done_sem' = tests_done_sem /\ args' = args
      /\ \/ pc[c] \in BeforeSend /\ pc'[c] \in BeforeSend \cup {"sqlite_error"}
         \/ pc[c] \in AfterJoin \ {"success"} /\ pc'[c] \in AfterJoin \cup {"sqlite_error"}
  BY DatabaseStep
<1>2. n_threads(c)' = n_threads(c)
  BY <1>1 DEF n_threads
<1> QED BY <1>1, <1>2 DEF ThreadsOf, BeforeSend, AfterJoin, Ended

\* It holds before the request, when there are none,
LEMMA ThreadsSend ==
  ASSUME TypeOK, NEW c \in Client, ThreadsOf(c), LoadMessage(c) \/ Send(c)
  PROVE  ThreadsOf(c)'
<1>1. /\ count' = count /\ thread' = thread /\ tests_done_sem' = tests_done_sem /\ args' = args
      /\ pc[c] \in BeforeSend /\ pc'[c] \in {"close_id", "create", "udp_error"}
  BY DEF TypeOK, LoadMessage, StepId, Send, SendMessage, Goto, clientVars, BeforeSend
<1>2. n_threads(c)' = n_threads(c) /\ Done(c)' = Done(c)
  BY <1>1 DEF n_threads, Done
<1>3. Done(c) = {}
  BY <1>1 DEF ThreadsOf, Done
<1>4. Cardinality(Done(c)) = 0
  BY <1>3, FS_EmptySet
<1>5. /\ \A i \in Index : thread[c][i] = "none"
      /\ count[c] = 0 /\ tests_done_sem[c] = 0
      /\ \A i \in Index : i > 0
  BY <1>1 DEF ThreadsOf, Index, N_TESTS
<1> QED BY <1>1, <1>2, <1>4, <1>5 DEF ThreadsOf, BeforeSend, AfterJoin, Ended

\* while they are created, some of them having ended already,
LEMMA ThreadsCreate ==
  ASSUME TypeOK, NEW c \in Client, ThreadsOf(c), Create(c)
  PROVE  ThreadsOf(c)'
<1>1. /\ pc[c] = "create" /\ args' = args /\ tests_done_sem' = tests_done_sem
      /\ \/ /\ count[c] < n_threads(c) /\ pc' = pc
            /\ thread' = [thread EXCEPT ![c][count[c] + 1] = "recv"]
            /\ count' = [count EXCEPT ![c] = @ + 1]
         \/ /\ ~(count[c] < n_threads(c)) /\ pc' = [pc EXCEPT ![c] = "wait"]
            /\ thread' = thread /\ count' = [count EXCEPT ![c] = 0]
  BY DEF Create, Loop, Goto
<1>2. n_threads(c)' = n_threads(c) /\ n_threads(c) \in 1..5
  BY <1>1, SomeThreads DEF n_threads
<1>3. /\ count[c] \in 0..n_threads(c)
      /\ \A i \in Index : thread[c][i] = "none" <=> i > count[c]
      /\ tests_done_sem[c] = Cardinality(Done(c))
      /\ count \in [Client -> 0..5] /\ pc'[c] \in {"create", "wait"}
  BY <1>1 DEF ThreadsOf, TypeOK, N_TESTS
<1>4. CASE count[c] < n_threads(c)
  <2>1. count[c] + 1 \in Index /\ count'[c] = count[c] + 1 /\ pc'[c] = "create"
    BY <1>1, <1>2, <1>3, <1>4 DEF Index, N_TESTS
  <2>2. \A i \in Index : thread'[c][i] = IF i = count[c] + 1 THEN "recv" ELSE thread[c][i]
    BY <1>1, <1>4, <2>1 DEF TypeOK
  <2>3. thread[c][count[c] + 1] = "none"
    BY <1>3, <2>1
  <2>4. Done(c)' = Done(c)
    BY <2>2, <2>3 DEF Done
  <2>5. \A i \in Index : thread'[c][i] = "none" <=> i > count[c] + 1
    <3> TAKE i \in Index
    <3>1. i \in Nat
      BY DEF Index, N_TESTS
    <3> QED BY <1>3, <2>2, <3>1
  <2>6. \A i \in Index : i > n_threads(c) => thread'[c][i] = "none"
    <3> TAKE i \in Index
    <3>1. i \in Nat
      BY DEF Index, N_TESTS
    <3> QED BY <1>2, <1>3, <1>4, <2>5, <3>1
  <2>7. tests_done_sem'[c] = Cardinality(Done(c)')
    BY <1>1, <1>3, <2>4
  <2> QED BY <1>2, <1>3, <1>4, <2>1, <2>5, <2>6, <2>7 DEF ThreadsOf, BeforeSend, AfterJoin, Ended
<1>5. CASE ~(count[c] < n_threads(c))
  <2>1. count[c] = n_threads(c) /\ count'[c] = 0 /\ pc'[c] = "wait" /\ thread' = thread
    BY <1>1, <1>2, <1>3, <1>5 DEF TypeOK
  <2>2. Done(c)' = Done(c)
    BY <2>1 DEF Done
  <2>3. \A i \in Index : i <= n_threads(c) => thread[c][i] # "none"
    <3> TAKE i \in Index
    <3>1. i \in Nat
      BY DEF Index, N_TESTS
    <3> QED BY <1>2, <1>3, <2>1, <3>1
  <2>4. tests_done_sem'[c] + 0 = Cardinality(Done(c)')
    BY <1>1, <1>3, <2>2 DEF TypeOK, N_TESTS
  <2> QED BY <1>1, <1>2, <2>1, <2>3, <2>4 DEF ThreadsOf, BeforeSend, AfterJoin, Ended
<1> QED BY <1>4, <1>5

\* and while main takes one post after the other.
LEMMA ThreadsWait ==
  ASSUME TypeOK, NEW c \in Client, ThreadsOf(c), Wait(c)
  PROVE  ThreadsOf(c)'
<1>1. /\ pc[c] = "wait" /\ args' = args /\ thread' = thread
      /\ \/ /\ count[c] < n_threads(c) /\ pc' = pc
            /\ tests_done_sem[c] > 0
            /\ tests_done_sem' = [tests_done_sem EXCEPT ![c] = @ - 1]
            /\ count' = [count EXCEPT ![c] = @ + 1]
         \/ /\ ~(count[c] < n_threads(c)) /\ pc' = [pc EXCEPT ![c] = "join"]
            /\ tests_done_sem' = tests_done_sem /\ count' = [count EXCEPT ![c] = 0]
  BY DEF Wait, Loop, Goto
<1>2. n_threads(c)' = n_threads(c) /\ n_threads(c) \in 1..5 /\ Done(c)' = Done(c)
  BY <1>1, SomeThreads DEF n_threads, Done
<1>3. /\ count[c] \in 0..n_threads(c)
      /\ \A i \in Index : i > n_threads(c) => thread[c][i] = "none"
      /\ \A i \in Index : i <= n_threads(c) => thread[c][i] # "none"
      /\ tests_done_sem[c] + count[c] = Cardinality(Done(c))
  BY <1>1 DEF ThreadsOf
<1>4. count \in [Client -> 0..5] /\ tests_done_sem \in [Client -> 0..5]
  BY DEF TypeOK, N_TESTS
<1>5. CASE count[c] < n_threads(c)
  <2>1. /\ count'[c] = count[c] + 1 /\ tests_done_sem'[c] = tests_done_sem[c] - 1
        /\ pc'[c] = "wait"
    BY <1>1, <1>4, <1>5
  <2>2. tests_done_sem'[c] + count'[c] = Cardinality(Done(c)') /\ count'[c] \in 0..n_threads(c)
    BY <1>2, <1>3, <1>4, <1>5, <2>1
  <2> QED BY <1>1, <1>2, <1>3, <2>1, <2>2 DEF ThreadsOf, BeforeSend, AfterJoin, Ended
<1>6. CASE ~(count[c] < n_threads(c))
  <2>1. count[c] = n_threads(c) /\ count'[c] = 0 /\ pc'[c] = "join" /\ tests_done_sem' = tests_done_sem
    BY <1>1, <1>2, <1>3, <1>4, <1>6 DEF TypeOK
  <2>2. tests_done_sem'[c] + n_threads(c) = Cardinality(Done(c)')
    BY <1>2, <1>3, <2>1
  <2> QED BY <1>1, <1>2, <1>3, <2>1, <2>2 DEF ThreadsOf, BeforeSend, AfterJoin, Ended
<1> QED BY <1>5, <1>6

\* The last thread is joined when all have posted once and all posts are used up.
LEMMA ThreadsJoin ==
  ASSUME TypeOK, NEW c \in Client, ThreadsOf(c), Join(c)
  PROVE  ThreadsOf(c)'
<1>1. /\ pc[c] = "join" /\ args' = args /\ thread' = thread /\ tests_done_sem' = tests_done_sem
      /\ \/ /\ count[c] < n_threads(c) /\ pc' = pc
            /\ thread[c][count[c] + 1] = "gone"
            /\ count' = [count EXCEPT ![c] = @ + 1]
         \/ /\ ~(count[c] < n_threads(c)) /\ pc' = [pc EXCEPT ![c] = "prepare_log"]
            /\ count' = [count EXCEPT ![c] = 0]
  BY DEF Join, Loop, Goto
<1>2. n_threads(c)' = n_threads(c) /\ n_threads(c) \in 1..5 /\ Done(c)' = Done(c)
  BY <1>1, SomeThreads DEF n_threads, Done
<1>3. /\ count[c] \in 0..n_threads(c)
      /\ \A i \in Index : i > n_threads(c) => thread[c][i] = "none"
      /\ \A i \in Index : i <= n_threads(c) => thread[c][i] # "none"
      /\ tests_done_sem[c] + n_threads(c) = Cardinality(Done(c))
      /\ \A i \in 1..count[c] : thread[c][i] = "gone"
  BY <1>1 DEF ThreadsOf
<1>4. count \in [Client -> 0..5] /\ tests_done_sem \in [Client -> 0..5]
  BY DEF TypeOK, N_TESTS
<1>5. CASE count[c] < n_threads(c)
  <2>1. count'[c] = count[c] + 1 /\ pc'[c] = "join" /\ count[c] + 1 \in 0..n_threads(c)
    BY <1>1, <1>2, <1>3, <1>4, <1>5
  <2>2. \A i \in 1..count[c] + 1 : thread[c][i] = "gone"
    BY <1>1, <1>3, <1>4, <1>5
  <2> QED BY <1>1, <1>2, <1>3, <2>1, <2>2 DEF ThreadsOf, BeforeSend, AfterJoin, Ended
<1>6. CASE ~(count[c] < n_threads(c))
  <2>1. count[c] = n_threads(c) /\ count'[c] = 0 /\ pc'[c] = "prepare_log"
    BY <1>1, <1>2, <1>3, <1>4, <1>6 DEF TypeOK
  <2>2. \A i \in Index : thread[c][i] \in {"none", "gone"}
    <3> TAKE i \in Index
    <3>1. i \in 1..5
      BY DEF Index, N_TESTS
    <3> QED BY <1>2, <1>3, <2>1, <3>1
  <2>3. Done(c) \in SUBSET (1..n_threads(c))
    <3> SUFFICES ASSUME NEW i \in Done(c) PROVE i \in 1..n_threads(c)
      OBVIOUS
    <3>1. i \in 1..5 /\ i \in Index /\ thread[c][i] # "none"
      BY DEF Done, Index, N_TESTS
    <3> QED BY <1>2, <1>3, <3>1
  <2>4. IsFiniteSet(1..n_threads(c)) /\ Cardinality(1..n_threads(c)) = n_threads(c)
    <3>1. \A a, b \in Int : IsFiniteSet(a..b) /\ Cardinality(a..b) = IF a > b THEN 0 ELSE b - a + 1
      BY FS_Interval
    <3>2. 1 \in Int /\ n_threads(c) \in Int
      BY <1>2
    <3>3. IsFiniteSet(1..n_threads(c))
          /\ Cardinality(1..n_threads(c)) = IF 1 > n_threads(c) THEN 0 ELSE n_threads(c) - 1 + 1
      BY <3>1, <3>2, Zenon
    <3> QED BY <1>2, <3>3
  <2>5. Cardinality(Done(c)) <= n_threads(c)
    BY <2>3, <2>4, FS_Subset
  <2>6. tests_done_sem'[c] = 0
    BY <1>1, <1>2, <1>3, <1>4, <2>5
  <2> QED BY <1>1, <1>2, <1>3, <2>1, <2>2, <2>6 DEF ThreadsOf, BeforeSend, AfterJoin, Ended
<1> QED BY <1>5, <1>6

\* A thread runs only while main is in its three loops.
LEMMA ThreadsReceiver ==
  ASSUME TypeOK, NEW c \in Client, ThreadsOf(c), NEW i \in Index, Receiver(c, i)
  PROVE  ThreadsOf(c)' /\ tests_done_sem'[c] \in 0..5
<1>1. /\ pc' = pc /\ args' = args /\ count' = count
      /\ \/ /\ thread[c][i] = "recv" /\ thread' = [thread EXCEPT ![c][i] = "post"]
            /\ tests_done_sem' = tests_done_sem
         \/ /\ thread[c][i] = "post" /\ thread' = [thread EXCEPT ![c][i] = "exit"]
            /\ tests_done_sem' = [tests_done_sem EXCEPT ![c] = @ + 1]
         \/ /\ thread[c][i] = "exit" /\ thread' = [thread EXCEPT ![c][i] = "gone"]
            /\ tests_done_sem' = tests_done_sem
  BY DEF Receiver, Receive, Post, Exit, benchVars
<1>2. n_threads(c)' = n_threads(c) /\ n_threads(c) \in 1..5
  BY <1>1, SomeThreads DEF n_threads
<1>3. pc[c] \in {"create", "wait", "join"}
  BY <1>1 DEF ThreadsOf, TypeOK, BeforeSend, AfterJoin
<1>4. i \in 1..5 /\ i <= n_threads(c)
  BY <1>1, <1>2 DEF ThreadsOf, Index, N_TESTS
<1>5. \A j \in Index : j # i => thread'[c][j] = thread[c][j]
  BY <1>1 DEF TypeOK
<1>6. /\ thread[c][i] \in {"recv", "post", "exit"} /\ thread'[c][i] \in {"post", "exit", "gone"}
      /\ count \in [Client -> 0..5] /\ tests_done_sem \in [Client -> 0..5]
  BY <1>1 DEF TypeOK, N_TESTS
<1>7. IsFiniteSet(Done(c)) /\ Cardinality(Done(c)) \in 0..5 /\ Cardinality(Done(c)') \in 0..5
  BY IndexSubsets DEF Done
<1>8. tests_done_sem'[c] - tests_done_sem[c] = Cardinality(Done(c)') - Cardinality(Done(c))
  <2>1. CASE thread[c][i] = "post"
    <3>1. i \notin Done(c) /\ Done(c)' = Done(c) \cup {i}
      BY <1>1, <1>5, <2>1 DEF Done, TypeOK
    <3>2. Cardinality(Done(c)') = Cardinality(Done(c)) + 1
      BY <1>7, <3>1, FS_AddElement
    <3> QED BY <1>1, <1>6, <1>7, <2>1, <3>2
  <2>2. CASE thread[c][i] # "post"
    <3>1. Done(c)' = Done(c)
      BY <1>1, <1>5, <2>2 DEF Done, TypeOK
    <3> QED BY <1>1, <1>6, <1>7, <2>2, <3>1
  <2> QED BY <2>1, <2>2
<1>9. tests_done_sem'[c] \in Int
  BY <1>1, <1>6
<1>10. \A j \in Index : (thread'[c][j] = "none") <=> (thread[c][j] = "none")
  BY <1>5, <1>6
<1>11. CASE pc[c] = "create"
  <2>1. /\ \A j \in Index : thread[c][j] = "none" <=> j > count[c]
        /\ tests_done_sem[c] = Cardinality(Done(c))
        /\ count[c] \in 0..n_threads(c)
        /\ \A j \in Index : j > n_threads(c) => thread[c][j] = "none"
    BY <1>11 DEF ThreadsOf
  <2>2. tests_done_sem'[c] = Cardinality(Done(c)')
    BY <1>6, <1>7, <1>8, <1>9, <2>1
  <2> QED BY <1>1, <1>2, <1>7, <1>10, <1>11, <2>1, <2>2 DEF ThreadsOf, BeforeSend, AfterJoin, Ended
<1>12. CASE pc[c] = "wait"
  <2>1. /\ \A j \in Index : j <= n_threads(c) => thread[c][j] # "none"
        /\ tests_done_sem[c] + count[c] = Cardinality(Done(c))
        /\ count[c] \in 0..n_threads(c)
        /\ \A j \in Index : j > n_threads(c) => thread[c][j] = "none"
    BY <1>12 DEF ThreadsOf
  <2>2. tests_done_sem'[c] + count[c] = Cardinality(Done(c)')
    BY <1>6, <1>7, <1>8, <1>9, <2>1
  <2>3. tests_done_sem'[c] \in 0..5
    BY <1>1, <1>2, <1>6, <1>7, <2>1, <2>2
  <2> QED BY <1>1, <1>2, <1>10, <1>12, <2>1, <2>2, <2>3 DEF ThreadsOf, BeforeSend, AfterJoin, Ended
<1>13. CASE pc[c] = "join"
  <2>1. /\ \A j \in Index : j <= n_threads(c) => thread[c][j] # "none"
        /\ tests_done_sem[c] + n_threads(c) = Cardinality(Done(c))
        /\ count[c] \in 0..n_threads(c)
        /\ \A j \in Index : j > n_threads(c) => thread[c][j] = "none"
        /\ \A j \in 1..count[c] : thread[c][j] = "gone"
    BY <1>13 DEF ThreadsOf
  <2>2. tests_done_sem'[c] + n_threads(c) = Cardinality(Done(c)')
    BY <1>2, <1>6, <1>7, <1>8, <1>9, <2>1
  <2>3. tests_done_sem'[c] \in 0..5
    BY <1>1, <1>2, <1>6, <1>7, <2>1, <2>2
  <2>4. \A j \in 1..count[c] : thread'[c][j] = "gone"
    <3> TAKE j \in 1..count[c]
    <3>1. thread[c][j] = "gone" /\ j # i
      BY <1>6, <2>1
    <3>2. j \in Index
      BY <1>2, <2>1 DEF Index, N_TESTS
    <3> QED BY <1>5, <3>1, <3>2
  <2> QED BY <1>1, <1>2, <1>10, <1>13, <2>1, <2>2, <2>3, <2>4 DEF ThreadsOf, BeforeSend, AfterJoin, Ended
<1> QED BY <1>3, <1>11, <1>12, <1>13

\* A step of another client, of the UUT or of the network does not touch a client.
LEMMA OtherClients ==
  ASSUME TypeOK, NEW c \in Client, NEW d \in Client \ {c},
         Main(c) \/ \E i \in Index : Receiver(c, i)
  PROVE  /\ pc'[d] = pc[d] /\ count'[d] = count[d] /\ thread'[d] = thread[d]
         /\ tests_done_sem'[d] = tests_done_sem[d] /\ results'[d] = results[d]
         /\ out_msg'[d] = out_msg[d] /\ args' = args
<1> USE DEF TypeOK
<1>1. CASE Database(c)
  BY <1>1, DatabaseStep
<1>2. CASE LoadMessage(c)
  BY <1>2 DEF LoadMessage, StepId, Goto
<1>3. CASE Send(c)
  BY <1>3 DEF Send, SendMessage, Goto, clientVars
<1>4. CASE Create(c)
  BY <1>4 DEF Create, Loop, Goto
<1>5. CASE Wait(c)
  BY <1>5 DEF Wait, Loop, Goto
<1>6. CASE Join(c)
  BY <1>6 DEF Join, Loop, Goto
<1>7. ASSUME NEW i \in Index, Receive(c, i)
      PROVE  /\ pc'[d] = pc[d] /\ count'[d] = count[d] /\ thread'[d] = thread[d]
             /\ tests_done_sem'[d] = tests_done_sem[d] /\ results'[d] = results[d]
             /\ out_msg'[d] = out_msg[d] /\ args' = args
  BY <1>7 DEF Receive
<1>8. ASSUME NEW i \in Index, Post(c, i) \/ Exit(c, i)
      PROVE  /\ pc'[d] = pc[d] /\ count'[d] = count[d] /\ thread'[d] = thread[d]
             /\ tests_done_sem'[d] = tests_done_sem[d] /\ results'[d] = results[d]
             /\ out_msg'[d] = out_msg[d] /\ args' = args
  BY <1>8 DEF Post, Exit, benchVars
<1> QED BY <1>1, <1>2, <1>3, <1>4, <1>5, <1>6, <1>7, <1>8 DEF Main, Receiver

\* The UUT and the network leave the clients and the database alone.
LEMMA BenchFrame ==
  ASSUME TypeOK, BenchStep, UNCHANGED clientVars
  PROVE  /\ UNCHANGED <<pc, network, args, out_msg, count, thread, results, tests_done_sem>>
         /\ UNCHANGED <<testLogs, dbWriter, dbReaders, overlapped>>
BY BenchTypeStep, TypeIsBench DEF clientVars

\* Every step preserves the count of the threads.
LEMMA ThreadsStep == TypeOK /\ ThreadsCounted /\ [Next]_vars => ThreadsCounted'
<1> SUFFICES ASSUME TypeOK, ThreadsCounted, [Next]_vars, NEW d \in Client PROVE ThreadsOf(d)'
  BY DEF ThreadsCounted
<1>1. ThreadsOf(d)
  BY DEF ThreadsCounted
<1>2. CASE BenchStep /\ UNCHANGED clientVars
  BY <1>1, <1>2, BenchFrame, ThreadsFrame
<1>3. CASE UNCHANGED vars
  BY <1>1, <1>3, ThreadsFrame DEF vars, clientVars
<1>4. ASSUME NEW c \in Client, Main(c) \/ \E i \in Index : Receiver(c, i), c # d
      PROVE  ThreadsOf(d)'
  BY <1>1, <1>4, OtherClients, ThreadsFrame
<1>5. CASE Main(d)
  BY <1>1, <1>5, ThreadsDatabase, ThreadsSend, ThreadsCreate, ThreadsWait, ThreadsJoin DEF Main
<1>6. ASSUME NEW i \in Index, Receiver(d, i) PROVE ThreadsOf(d)'
  BY <1>1, <1>6, ThreadsReceiver
<1> QED BY <1>2, <1>3, <1>4, <1>5, <1>6 DEF Next

-----------------------------------------------------------------------------
(* Types, and the ids in the database *)

\* Every step preserves that one of the rows has the greatest id.
LEMMA GreatestStep == TypeOK /\ GreatestId /\ [Next]_vars => GreatestId'
<1> SUFFICES ASSUME TypeOK, GreatestId, [Next]_vars PROVE GreatestId'
  OBVIOUS
<1>1. ASSUME UNCHANGED testLogs PROVE GreatestId'
  BY <1>1 DEF GreatestId
<1>2. ASSUME NEW c \in Client, testLogs' = Append(testLogs, Row(c)) PROVE GreatestId'
  BY <1>2, RowTyped, GreatestAppend, TypeIsBench
<1>3. CASE BenchStep /\ UNCHANGED clientVars
  BY <1>1, <1>3, BenchFrame
<1>4. ASSUME NEW c \in Client, Database(c) PROVE GreatestId'
  BY <1>1, <1>2, <1>4, DatabaseRows
<1>5. ASSUME NEW c \in Client, Main(c), ~Database(c) PROVE UNCHANGED testLogs
  BY <1>5 DEF Main, LoadMessage, StepId, Send, SendMessage, Create, Wait, Join, Loop, dbVars
<1>6. ASSUME NEW c \in Client, NEW i \in Index, Receiver(c, i) PROVE UNCHANGED testLogs
  BY <1>6 DEF Receiver, Receive, Post, Exit, benchVars, dbVars
<1> QED BY <1>1, <1>3, <1>4, <1>5, <1>6 DEF Next, vars, benchVars, dbVars

\* TypeOK with names for its sets.
Place == {"init_db", "prepare_id", "step_id", "close_id", "init_db_again", "send", "create", "wait",
          "join", "prepare_log", "step_log", "commit", "print", "close_print"} \cup Ended
ThreadPlace == {"none", "recv", "post", "exit", "gone"}

Typed ==
  /\ NetTyped /\ DbTyped
  /\ testLogs \in Seq(RowSet)
  /\ pc \in [Client -> Place]
  /\ args \in [Client -> Argument] /\ out_msg \in [Client -> Message]
  /\ count \in [Client -> 0..5] /\ tests_done_sem \in [Client -> 0..5]
  /\ thread \in [Client -> [Index -> ThreadPlace]] /\ results \in [Client -> [Index -> BOOLEAN]]

\* TypeOK in the form that the steps are proved for.
LEMMA TypedIsTypeOK == (TypeOK => Typed) /\ (Typed' => TypeOK')
BY DEF TypeOK, BenchTypeOK, Typed, NetTyped, DbTyped, RowSet, AnswerSet, ConclusionSet, Place,
       ThreadPlace, Locked, N_TESTS

\* Every step preserves the types; the semaphore stays in range because the threads are counted.
LEMMA TypeStep ==
  TypeOK /\ GreatestId /\ ThreadsCounted /\ [Next]_vars => TypeOK'
<1> SUFFICES ASSUME TypeOK, GreatestId, ThreadsCounted, [Next]_vars PROVE Typed'
  BY TypedIsTypeOK
<1>t. Typed
  BY TypedIsTypeOK
<1>1. CASE BenchStep /\ UNCHANGED clientVars
  <2>1. NetTyped' /\ UNCHANGED <<network, testLogs, dbWriter, dbReaders, overlapped>>
    BY <1>1, BenchTypeStep, TypeIsBench
  <2>2. DbTyped'
    BY <1>t, <2>1 DEF Typed, DbTyped
  <2> QED BY <1>t, <1>1, <2>1, <2>2, BenchFrame DEF Typed
<1>2. ASSUME NEW c \in Client, Database(c) PROVE Typed'
  <2>1. testLogs' \in Seq(RowSet)
    <3>3. Row(c) \in RowSet
      BY RowTyped
    <3>4. testLogs' = testLogs \/ testLogs' = Append(testLogs, Row(c))
      BY <1>2, DatabaseRows
    <3>5. testLogs \in Seq(RowSet)
      BY <1>t DEF Typed
    <3> QED BY <3>3, <3>4, <3>5, AppendTyped
  <2>2. DbTyped'
    BY <1>2, DatabaseRows DEF DbTyped, Locked
  <2>3. pc' \in [Client -> Place]
    BY <1>t, <1>2, DatabaseStep DEF Typed, BeforeSend, AfterJoin, Place, Ended
  <2> QED BY <1>t, <1>2, <2>1, <2>2, <2>3, DatabaseStep DEF Typed, NetTyped
<1>3. ASSUME NEW c \in Client, LoadMessage(c) PROVE Typed'
  <2> DEFINE m == [client |-> c, test_id |-> NextId, peripheral |-> args[c].want,
                   n_iter |-> args[c].n_iter, p_len |-> Length(c)]
  <2>1. m \in Message
    <3>1. args[c] \in Argument
      BY <1>t DEF Typed
    <3>2. args[c].n_iter \in Byte /\ args[c].length \in 0..256 /\ args[c].want \in SUBSET Peripheral
      BY <3>1, ArgumentAssumption
    <3>3. Length(c) \in Byte
      BY <3>2 DEF Length, Byte
    <3> QED BY <3>2, <3>3, NextIdIsNat, TypeIsBench DEF Message
  <2>2. out_msg' = [out_msg EXCEPT ![c] = m]
    BY <1>3 DEF LoadMessage
  <2>3. /\ dbReaders' \in {dbReaders, dbReaders \cup {c}} /\ (dbWriter # NoClient => dbReaders' = dbReaders)
        /\ pc' = [pc EXCEPT ![c] = "close_id"]
        /\ UNCHANGED <<testLogs, dbWriter, overlapped, network, requests, responses, accepted,
                       concluded, args, count, thread, results, tests_done_sem>>
    BY <1>3 DEF LoadMessage, StepId, Goto, netVars, uutVars, Locked
  <2> HIDE DEF m
  <2>4. out_msg' \in [Client -> Message] /\ pc' \in [Client -> Place]
    BY <1>t, <2>1, <2>2, <2>3 DEF Typed, Place
  <2>5. DbTyped'
    BY <1>t, <2>3 DEF Typed, DbTyped
  <2> QED BY <1>t, <2>3, <2>4, <2>5 DEF Typed, NetTyped
<1>4. ASSUME NEW c \in Client, Send(c) PROVE Typed'
  <2>1. /\ requests' \in {requests, requests \cup {out_msg[c]}}
        /\ \E to \in {"create", "udp_error"} : pc' = [pc EXCEPT ![c] = to]
        /\ UNCHANGED <<testLogs, dbReaders, dbWriter, overlapped, network, responses, accepted,
                       concluded, args, out_msg, count, thread, results, tests_done_sem>>
    BY <1>4 DEF Send, SendMessage, Goto, clientVars, uutVars, dbVars
  <2>2. requests' \subseteq Message /\ pc' \in [Client -> Place]
    BY <1>t, <2>1 DEF Typed, NetTyped, Place, Ended
  <2> QED BY <1>t, <2>1, <2>2 DEF Typed, NetTyped, DbTyped
<1>5. ASSUME NEW c \in Client, Create(c) \/ Wait(c) \/ Join(c) PROVE Typed'
  <2>1. n_threads(c) \in 1..5
    BY SomeThreads
  <2>2. /\ UNCHANGED <<testLogs, dbReaders, dbWriter, overlapped, network, requests, responses,
                       accepted, concluded, args, out_msg, results>>
        /\ \/ count[c] < n_threads(c) /\ count' = [count EXCEPT ![c] = @ + 1]
           \/ count' = [count EXCEPT ![c] = 0]
        /\ \/ thread' = thread
           \/ count[c] < n_threads(c) /\ thread' = [thread EXCEPT ![c][count[c] + 1] = "recv"]
        /\ \/ tests_done_sem' = tests_done_sem
           \/ tests_done_sem[c] > 0 /\ tests_done_sem' = [tests_done_sem EXCEPT ![c] = @ - 1]
        /\ pc' = pc \/ \E to \in {"wait", "join", "prepare_log"} : pc' = [pc EXCEPT ![c] = to]
    BY <1>5 DEF Create, Wait, Join, Loop, Goto, netVars, uutVars, dbVars
  <2>3. count[c] \in 0..5 /\ tests_done_sem[c] \in 0..5
    BY <1>t DEF Typed
  <2>4. count' \in [Client -> 0..5] /\ tests_done_sem' \in [Client -> 0..5]
    <3> DEFINE S == [Client -> 0..5]
    <3>1. count \in S /\ tests_done_sem \in S
      BY <1>t DEF Typed
    <3>2. count' \in S
      <4>1. CASE count' = [count EXCEPT ![c] = 0]
        BY <3>1, <4>1
      <4>2. CASE count[c] < n_threads(c) /\ count' = [count EXCEPT ![c] = @ + 1]
        <5>1. count[c] + 1 \in 0..5
          BY <2>1, <2>3, <4>2
        <5> QED BY <3>1, <4>2, <5>1
      <4> QED BY <2>2, <4>1, <4>2
    <3>3. tests_done_sem' \in S
      <4>1. CASE tests_done_sem' = tests_done_sem
        BY <3>1, <4>1
      <4>2. CASE tests_done_sem[c] > 0 /\ tests_done_sem' = [tests_done_sem EXCEPT ![c] = @ - 1]
        <5>1. tests_done_sem[c] - 1 \in 0..5
          BY <2>3, <4>2
        <5> QED BY <3>1, <4>2, <5>1
      <4> QED BY <2>2, <4>1, <4>2
    <3> QED BY <3>2, <3>3
  <2>5. thread' \in [Client -> [Index -> ThreadPlace]]
    <3>1. CASE thread' = thread
      BY <1>t, <3>1 DEF Typed
    <3>2. CASE count[c] < n_threads(c) /\ thread' = [thread EXCEPT ![c][count[c] + 1] = "recv"]
      <4>1. thread[c] \in [Index -> ThreadPlace]
        BY <1>t DEF Typed
      <4>2. [thread[c] EXCEPT ![count[c] + 1] = "recv"] \in [Index -> ThreadPlace]
        BY <4>1 DEF ThreadPlace
      <4> QED BY <1>t, <3>2, <4>2 DEF Typed
    <3> QED BY <2>2, <3>1, <3>2
  <2>6. pc' \in [Client -> Place]
    BY <1>t, <2>2 DEF Typed, Place
  <2> QED BY <1>t, <2>2, <2>4, <2>5, <2>6 DEF Typed, NetTyped, DbTyped
<1>6. ASSUME NEW c \in Client, NEW i \in Index, Receiver(c, i) PROVE Typed'
  <2>1. tests_done_sem' \in [Client -> 0..5]
    <3>1. tests_done_sem'[c] \in 0..5
      BY <1>6, ThreadsReceiver DEF ThreadsCounted
    <3>2. tests_done_sem' = tests_done_sem \/ tests_done_sem' = [tests_done_sem EXCEPT ![c] = @ + 1]
      BY <1>6 DEF Receiver, Receive, Post, Exit
    <3> QED BY <1>t, <3>1, <3>2 DEF Typed
  <2>2. /\ UNCHANGED <<testLogs, dbReaders, dbWriter, overlapped, network, requests,
                       accepted, concluded, args, out_msg, count, pc>>
        /\ responses' \subseteq responses
        /\ \E a \in {"post", "exit", "gone"} : thread' = [thread EXCEPT ![c][i] = a]
        /\ results' = results \/ \E b \in BOOLEAN : results' = [results EXCEPT ![c][i] = b]
    BY <1>6 DEF Receiver, Receive, Post, Exit, benchVars, netVars, uutVars, dbVars
  <2>3. thread' \in [Client -> [Index -> ThreadPlace]]
    <3>1. PICK a \in {"post", "exit", "gone"} : thread' = [thread EXCEPT ![c][i] = a]
      BY <2>2
    <3>2. [thread[c] EXCEPT ![i] = a] \in [Index -> ThreadPlace]
      BY <1>t DEF Typed, ThreadPlace
    <3> QED BY <1>t, <3>1, <3>2 DEF Typed
  <2>4. results' \in [Client -> [Index -> BOOLEAN]]
    <3>1. CASE results' = results
      BY <1>t, <3>1 DEF Typed
    <3>2. ASSUME NEW b \in BOOLEAN, results' = [results EXCEPT ![c][i] = b]
          PROVE  results' \in [Client -> [Index -> BOOLEAN]]
      <4>1. [results[c] EXCEPT ![i] = b] \in [Index -> BOOLEAN]
        BY <1>t DEF Typed
      <4> QED BY <1>t, <3>2, <4>1 DEF Typed
    <3> QED BY <2>2, <3>1, <3>2
  <2> QED BY <1>t, <2>1, <2>2, <2>3, <2>4 DEF Typed, NetTyped, DbTyped
<1>7. CASE UNCHANGED vars
  BY <1>t, <1>7 DEF vars, benchVars, netVars, uutVars, dbVars, clientVars, Typed, NetTyped, DbTyped
<1> QED BY <1>1, <1>2, <1>3, <1>4, <1>5, <1>6, <1>7 DEF Next, Main

-----------------------------------------------------------------------------
(* A client has one request, and the network carries it and its answers *)

\* Every step but Send leaves what the UUT has and what is on its way to it; a client
\* only takes answers away.
LEMMA ClientSteps ==
  ASSUME TypeOK, NEW c \in Client, Main(c) \/ \E i \in Index : Receiver(c, i)
  PROVE  /\ UNCHANGED <<network, accepted, concluded>>
         /\ responses' \subseteq responses
         /\ \/ requests' = requests
            \/ pc[c] = "send" /\ pc'[c] = "create" /\ requests' = requests \cup {out_msg[c]}
<1> USE DEF netVars, uutVars, dbVars, clientVars, benchVars
<1>1. CASE Database(c)
  BY <1>1, DatabaseStep
<1>2. CASE LoadMessage(c)
  BY <1>2 DEF LoadMessage
<1>3. CASE Send(c)
  <2>1. pc \in [Client -> {"init_db", "prepare_id", "step_id", "close_id", "init_db_again",
                         "send", "create", "wait", "join", "prepare_log", "step_log",
                         "commit", "print", "close_print"} \cup Ended]
    BY DEF TypeOK
  <2> QED BY <1>3, <2>1 DEF Send, SendMessage, Goto
<1>4. CASE Create(c) \/ Wait(c) \/ Join(c)
  BY <1>4 DEF Create, Wait, Join, Loop
<1>5. ASSUME NEW i \in Index, Receive(c, i)
      PROVE  UNCHANGED <<network, accepted, concluded, requests>> /\ responses' \subseteq responses
  <2>1. PICK m \in responses : responses' = responses \ {m}
    BY <1>5 DEF Receive, ToClient
  <2> QED BY <1>5, <2>1 DEF Receive
<1>6. ASSUME NEW i \in Index, Post(c, i) \/ Exit(c, i)
      PROVE  UNCHANGED <<network, accepted, concluded, requests, responses>>
  BY <1>6 DEF Post, Exit
<1> QED BY <1>1, <1>2, <1>3, <1>4, <1>5, <1>6 DEF Main, Receiver

\* What main of a client does to its own place, and that it loads its request once.
LEMMA PlaceStep ==
  ASSUME TypeOK, NEW c \in Client, Main(c) \/ \E i \in Index : Receiver(c, i)
  PROVE  /\ args' = args
         /\ pc[c] \notin BeforeSend => pc'[c] \notin BeforeSend
         /\ \/ /\ out_msg'[c] = out_msg[c]
               /\ pc[c] \notin BeforeLoad \cup {"sqlite_error"} => pc'[c] \notin BeforeLoad
               /\ pc'[c] \notin BeforeLoad \cup {"sqlite_error"} => pc[c] \notin BeforeLoad \cup {"sqlite_error"}
            \/ /\ pc[c] = "step_id" /\ LoadMessage(c)
               /\ out_msg'[c].client = c /\ out_msg'[c].peripheral = args[c].want
<1> USE DEF TypeOK, BeforeSend, BeforeLoad
<1>1. CASE Database(c)
  <2>1. args' = args /\ out_msg' = out_msg
    BY <1>1, DatabaseStep
  <2>2. /\ pc[c] \notin BeforeSend => pc'[c] \notin BeforeSend
        /\ pc[c] \notin BeforeLoad \cup {"sqlite_error"} => pc'[c] \notin BeforeLoad
    BY <1>1, DatabaseStep DEF AfterJoin
  <2>3. pc'[c] \notin BeforeLoad \cup {"sqlite_error"} => pc[c] \notin BeforeLoad \cup {"sqlite_error"}
    BY <1>1 DEF Database, Start, PrepareId, CloseId, InitDb, PrepareLog, StepLog, CommitLog,
                StepPrint, ClosePrint, Call, Goto
  <2> QED BY <2>1, <2>2, <2>3
<1>2. CASE LoadMessage(c)
  BY <1>2 DEF LoadMessage, StepId, Goto
<1>3. CASE Send(c)
  BY <1>3 DEF Send, SendMessage, Goto, clientVars
<1>4. CASE Create(c) \/ Wait(c) \/ Join(c)
  BY <1>4 DEF Create, Wait, Join, Loop, Goto
<1>5. CASE \E i \in Index : Receiver(c, i)
  BY <1>5 DEF Receiver, Receive, Post, Exit
<1> QED BY <1>1, <1>2, <1>3, <1>4, <1>5 DEF Main

SentNext(r) == r = out_msg'[r.client] /\ pc'[r.client] \notin BeforeSend

\* A request once sent stays the request of its client.
LEMMA SentStays ==
  ASSUME TypeOK, [Next]_vars, NEW r \in Message, SentBy(r)
  PROVE  SentNext(r)
<1> DEFINE d == r.client
<1>1. d \in Client
  BY DEF Message
<1>2. CASE (BenchStep /\ UNCHANGED clientVars) \/ UNCHANGED vars
  BY <1>2, BenchFrame DEF SentBy, SentNext, vars, clientVars
<1>3. ASSUME NEW c \in Client, Main(c) \/ \E i \in Index : Receiver(c, i), c # d
      PROVE  SentNext(r)
  BY <1>1, <1>3, OtherClients DEF SentBy, SentNext
<1>4. CASE Main(d) \/ \E i \in Index : Receiver(d, i)
  <2>1. pc'[d] \notin BeforeSend /\ out_msg'[d] = out_msg[d]
    BY <1>1, <1>4, PlaceStep DEF SentBy, BeforeSend
  <2> QED BY <2>1 DEF SentBy, SentNext
<1> QED BY <1>2, <1>3, <1>4 DEF Next

\* What OneRequest says of the UUT and of the answers.
Served ==
  /\ \A n \in DOMAIN accepted : SentBy(accepted[n])
  /\ \A k \in concluded : SentBy(k.req) /\ k.peri \in Wanted(k.req)
  /\ \A j, k \in concluded : j.req = k.req /\ j.peri = k.peri => j = k
  /\ \A m \in responses : Verdict3(m) \in concluded /\ (network # "duplicating" => m.copy = 1)

\* Every step preserves that all there is of a client is about its one request.
LEMMA OneRequestStep == TypeOK /\ OneRequest /\ [Next]_vars => OneRequest'
<1> SUFFICES ASSUME TypeOK, OneRequest, [Next]_vars PROVE OneRequest'
  OBVIOUS
<1>t. /\ requests \subseteq Message /\ responses \subseteq AnswerSet
      /\ accepted \in Seq(Message) /\ concluded \subseteq ConclusionSet
  BY TypedIsTypeOK DEF Typed, NetTyped
<1>u. \A k \in ConclusionSet : k.req \in Message
  BY DEF ConclusionSet
<1>v. \A r \in Message : r.client \in Client
  BY DEF Message
<1>1. \A c \in Client : /\ out_msg'[c].client = c
                        /\ pc'[c] \notin BeforeLoad \cup {"sqlite_error"} => out_msg'[c].peripheral = args'[c].want
  <2> TAKE d \in Client
  <2>1. /\ out_msg[d].client = d
        /\ pc[d] \notin BeforeLoad \cup {"sqlite_error"} => out_msg[d].peripheral = args[d].want
    BY DEF OneRequest
  <2>2. CASE (BenchStep /\ UNCHANGED clientVars) \/ UNCHANGED vars
    BY <2>1, <2>2, BenchFrame DEF vars, clientVars
  <2>3. ASSUME NEW c \in Client, Main(c) \/ \E i \in Index : Receiver(c, i), c # d
        PROVE  /\ pc'[d] = pc[d] /\ out_msg'[d] = out_msg[d] /\ args' = args
    BY <2>3, OtherClients
  <2>4. CASE Main(d) \/ \E i \in Index : Receiver(d, i)
    BY <2>1, <2>4, PlaceStep
  <2> QED BY <2>1, <2>2, <2>3, <2>4 DEF Next
<1>2. \A r \in requests' : SentNext(r)
  <2>1. \A r \in requests : SentNext(r)
    BY <1>t, SentStays DEF OneRequest
  <2>2. CASE requests' \subseteq requests
    BY <2>1, <2>2
  <2>3. ASSUME NEW c \in Client, pc'[c] = "create", requests' = requests \cup {out_msg[c]},
               out_msg'[c] = out_msg[c]
        PROVE  \A r \in requests' : SentNext(r)
    <3>1. out_msg[c].client = c
      BY DEF OneRequest
    <3>2. SentNext(out_msg[c])
      BY <2>3, <3>1 DEF SentNext, BeforeSend
    <3> QED BY <2>1, <2>3, <3>2
  <2>4. CASE BenchStep
    <3>1. ASSUME NEW r \in requests, UutReceive(r) PROVE requests' \subseteq requests
      BY <3>1 DEF UutReceive
    <3>2. ASSUME NEW n \in DOMAIN accepted, NEW p \in Wanted(accepted[n]), UutRespond(accepted[n], p)
          PROVE  requests' \subseteq requests
      BY <3>2, Responds, TypeIsBench
    <3>3. ASSUME Lose \/ Duplicate PROVE requests' \subseteq requests
      BY <3>3 DEF Lose, Duplicate
    <3> QED BY <2>2, <2>4, <3>1, <3>2, <3>3 DEF BenchStep, UutStep
  <2>5. ASSUME NEW c \in Client, Main(c) \/ \E i \in Index : Receiver(c, i)
        PROVE  \A r \in requests' : SentNext(r)
    <3>1. CASE requests' = requests
      BY <2>2, <3>1
    <3>2. CASE pc[c] = "send" /\ pc'[c] = "create" /\ requests' = requests \cup {out_msg[c]}
      BY <2>3, <2>5, <3>2, PlaceStep
    <3> QED BY <2>5, <3>1, <3>2, ClientSteps
  <2>6. CASE UNCHANGED vars
    BY <2>2, <2>6 DEF vars, benchVars, netVars
  <2> QED BY <2>4, <2>5, <2>6 DEF Next
<1>3. Served'
  <2>0. /\ DOMAIN accepted = 1..Len(accepted) /\ Len(accepted) \in Nat
        /\ \A n \in DOMAIN accepted : accepted[n] \in Message
    BY <1>t
  <2>1. /\ \A n \in DOMAIN accepted : SentNext(accepted[n])
        /\ \A k \in concluded : SentNext(k.req)
        /\ \A r \in requests : SentNext(r)
    <3>1. /\ \A n \in DOMAIN accepted : SentBy(accepted[n])
          /\ \A k \in concluded : SentBy(k.req)
          /\ \A r \in requests : SentBy(r)
      BY DEF OneRequest
    <3>2. \A r \in Message : SentBy(r) => SentNext(r)
      BY SentStays
    <3>3. \A k \in concluded : k.req \in Message
      BY <1>t, <1>u
    <3> QED BY <1>t, <2>0, <3>1, <3>2, <3>3
  <2>2. /\ \A k \in concluded : k.peri \in Wanted(k.req)
        /\ \A j, k \in concluded : j.req = k.req /\ j.peri = k.peri => j = k
        /\ \A m \in responses : Verdict3(m) \in concluded /\ (network # "duplicating" => m.copy = 1)
    BY DEF OneRequest
  <2>3. ASSUME UNCHANGED <<network, accepted, concluded>>, responses' \subseteq responses
        PROVE  Served'
    BY <2>1, <2>2, <2>3 DEF Served, SentBy, SentNext
  <2>4. ASSUME NEW r \in requests, UutReceive(r), UNCHANGED network
        PROVE  Served'
    <3>1. CASE accepted' = accepted /\ concluded' = concluded /\ responses' = responses
      BY <2>3, <2>4, <3>1
    <3>2. CASE accepted' = Append(accepted, r) /\ concluded' = concluded /\ responses' = responses
      <4>1. /\ DOMAIN accepted' = 1..Len(accepted) + 1
            /\ \A n \in DOMAIN accepted : accepted'[n] = accepted[n]
            /\ accepted'[Len(accepted) + 1] = r
        BY <1>t, <3>2
      <4>2. \A n \in DOMAIN accepted' : n \in DOMAIN accepted \/ n = Len(accepted) + 1
        BY <2>0, <4>1
      <4>3. \A n \in DOMAIN accepted' : SentNext(accepted'[n])
        BY <2>1, <4>1, <4>2
      <4> QED BY <2>1, <2>2, <2>4, <3>2, <4>3 DEF Served, SentBy, SentNext
    <3> QED BY <2>4, <3>1, <3>2 DEF UutReceive, Uut!Accept, uutVars
  <2>5. ASSUME NEW n \in DOMAIN accepted, NEW p \in Wanted(accepted[n]), UutRespond(accepted[n], p),
               UNCHANGED network
        PROVE  Served'
    <3>1. PICK v \in Verdict :
            /\ concluded' = concluded \cup {[req |-> accepted[n], peri |-> p, result |-> v]}
            /\ responses' = responses \cup {[req |-> accepted[n], peri |-> p, result |-> v, copy |-> 1]}
      BY <2>5, Responds, TypeIsBench
    <3>2. accepted' = accepted /\ \A k \in concluded : ~(k.req = accepted[n] /\ k.peri = p)
      BY <2>5, Responds, TypeIsBench
    <3> DEFINE k == [req |-> accepted[n], peri |-> p, result |-> v]
               m == [req |-> accepted[n], peri |-> p, result |-> v, copy |-> 1]
    <3>3. k.req = accepted[n] /\ k.peri = p /\ Verdict3(m) = k /\ m.copy = 1
      BY DEF Verdict3
    <3>4. concluded' = concluded \cup {k} /\ responses' = responses \cup {m}
      BY <3>1
    <3> HIDE DEF k, m
    <3>5. \A j \in concluded' : SentNext(j.req) /\ j.peri \in Wanted(j.req)
      BY <2>1, <2>2, <3>3, <3>4
    <3>6. \A i, j \in concluded' : i.req = j.req /\ i.peri = j.peri => i = j
      BY <2>2, <3>2, <3>3, <3>4
    <3>7. \A i \in responses' : Verdict3(i) \in concluded' /\ (network' # "duplicating" => i.copy = 1)
      BY <2>2, <2>5, <3>3, <3>4
    <3> QED BY <2>1, <3>2, <3>5, <3>6, <3>7 DEF Served, SentBy, SentNext
  <2>6. ASSUME Lose PROVE Served'
    <3>1. UNCHANGED <<network, accepted, concluded>>
      BY <2>6 DEF Lose, uutVars
    <3>2. ASSUME NEW m \in responses, responses' = responses \ {m} PROVE responses' \subseteq responses
      BY <3>2
    <3>3. responses' \subseteq responses
      BY <2>6, <3>2 DEF Lose
    <3> QED BY <2>3, <3>1, <3>3
  <2>7. ASSUME Duplicate PROVE Served'
    <3>1. UNCHANGED <<network, accepted, concluded>> /\ network = "duplicating"
      BY <2>7 DEF Duplicate, uutVars
    <3>2. PICK m \in responses : responses' = responses \cup {[m EXCEPT !.copy = 2]}
      BY <2>7 DEF Duplicate
    <3>3. m \in AnswerSet
      BY <1>t
    <3>4. Verdict3([m EXCEPT !.copy = 2]) = Verdict3(m)
      BY <3>3 DEF Verdict3, AnswerSet
    <3> DEFINE e == [m EXCEPT !.copy = 2]
    <3> HIDE DEF e
    <3>5. \A i \in responses' : Verdict3(i) \in concluded' /\ (network' # "duplicating" => i.copy = 1)
      BY <2>2, <3>1, <3>2, <3>4 DEF e
    <3> QED BY <2>1, <2>2, <3>1, <3>5 DEF Served, SentBy, SentNext
  <2>8. ASSUME BenchStep PROVE Served'
    <3>1. ASSUME UutStep PROVE Served'
      BY <2>4, <2>5, <3>1 DEF UutStep
    <3> QED BY <2>6, <2>7, <2>8, <3>1 DEF BenchStep
  <2>9. ASSUME NEW c \in Client, Main(c) \/ \E i \in Index : Receiver(c, i)
        PROVE  Served'
    BY <2>3, <2>9, ClientSteps
  <2>10. ASSUME UNCHANGED vars PROVE Served'
    BY <2>3, <2>10 DEF vars, benchVars, netVars, uutVars
  <2> QED BY <2>8, <2>9, <2>10 DEF Next
<1> QED BY <1>1, <1>2, <1>3 DEF OneRequest, Served, SentBy, SentNext

-----------------------------------------------------------------------------
(* Every answer is counted once *)

\* On a network that duplicates nothing, an answer to a client is to its request.
LEMMA ToClientIsOnTheWay ==
  ASSUME TypeOK, OneRequest, network # "duplicating", NEW c \in Client, NEW m \in ToClient(c)
  PROVE  /\ m \in responses /\ m.peri \in Peripheral /\ m.result \in Verdict
         /\ m = [req |-> out_msg[c], peri |-> m.peri, result |-> m.result, copy |-> 1]
         /\ pc[c] \notin BeforeSend
<1>1. m \in responses /\ m.req.client = c /\ m \in AnswerSet
  BY TypedIsTypeOK DEF ToClient, Typed, NetTyped
<1>2. Verdict3(m) \in concluded /\ m.copy = 1
  BY <1>1 DEF OneRequest
<1>3. SentBy(m.req)
  <2>1. Verdict3(m).req = m.req
    BY DEF Verdict3
  <2>2. \A k \in concluded : SentBy(k.req)
    BY DEF OneRequest
  <2> QED BY <1>2, <2>1, <2>2
<1>4. m.req = out_msg[c] /\ pc[c] \notin BeforeSend
  BY <1>1, <1>3 DEF SentBy
<1> QED BY <1>1, <1>2, <1>4 DEF AnswerSet

AnswersOf(c, v) ==
  Cardinality(OnTheWay(c, v)) + Cardinality(Taken(c, v)) <= Cardinality(Given(c, v))

\* What is counted is finite.
LEMMA AnswerSets ==
  ASSUME NEW c, NEW v
  PROVE  /\ OnTheWay(c, v) \in SUBSET Peripheral /\ Given(c, v) \in SUBSET Peripheral
         /\ Taken(c, v) \in SUBSET Index
         /\ IsFiniteSet(OnTheWay(c, v)) /\ IsFiniteSet(Given(c, v)) /\ IsFiniteSet(Taken(c, v))
         /\ Cardinality(OnTheWay(c, v)) \in 0..5 /\ Cardinality(Given(c, v)) \in 0..5
         /\ Cardinality(Taken(c, v)) \in 0..5
         /\ OnTheWay(c, v)' \in SUBSET Peripheral /\ Given(c, v)' \in SUBSET Peripheral
         /\ Taken(c, v)' \in SUBSET Index
         /\ IsFiniteSet(OnTheWay(c, v)') /\ IsFiniteSet(Given(c, v)') /\ IsFiniteSet(Taken(c, v)')
         /\ Cardinality(OnTheWay(c, v)') \in 0..5 /\ Cardinality(Given(c, v)') \in 0..5
         /\ Cardinality(Taken(c, v)') \in 0..5
<1>1. /\ OnTheWay(c, v) \in SUBSET Peripheral /\ Given(c, v) \in SUBSET Peripheral
      /\ Taken(c, v) \in SUBSET Index
      /\ OnTheWay(c, v)' \in SUBSET Peripheral /\ Given(c, v)' \in SUBSET Peripheral
      /\ Taken(c, v)' \in SUBSET Index
  BY DEF OnTheWay, Given, Taken
<1> QED BY <1>1, PeripheralSubsets, IndexSubsets

\* Fewer answers on the way are no harm.
LEMMA AnswersFewer ==
  ASSUME NEW c, NEW v, AnswersOf(c, v),
         OnTheWay(c, v)' \subseteq OnTheWay(c, v), Taken(c, v)' \subseteq Taken(c, v),
         Given(c, v)' = Given(c, v)
  PROVE  AnswersOf(c, v)'
<1>1. Cardinality(OnTheWay(c, v)') <= Cardinality(OnTheWay(c, v))
  BY AnswerSets, FS_Subset
<1>2. Cardinality(Taken(c, v)') <= Cardinality(Taken(c, v))
  BY AnswerSets, FS_Subset
<1>3. Cardinality(Given(c, v)') = Cardinality(Given(c, v))
  OBVIOUS
<1> DEFINE o == Cardinality(OnTheWay(c, v))  o1 == Cardinality(OnTheWay(c, v)')
           t == Cardinality(Taken(c, v))     t1 == Cardinality(Taken(c, v)')
           g == Cardinality(Given(c, v))     g1 == Cardinality(Given(c, v)')
<1>4. o + t <= g
  BY DEF AnswersOf
<1>5. o \in 0..5 /\ o1 \in 0..5 /\ t \in 0..5 /\ t1 \in 0..5 /\ g \in 0..5 /\ g1 \in 0..5
  BY AnswerSets
<1>6. o1 <= o /\ t1 <= t /\ g1 = g
  BY <1>1, <1>2, <1>3
<1> HIDE DEF o, o1, t, t1, g, g1
<1>7. o1 + t1 <= g1
  BY <1>4, <1>5, <1>6
<1> QED BY <1>7 DEF AnswersOf, o1, t1, g1

\* The threads and the request of a client are as they were, and so are the answers.
LEMMA AnswersFrame ==
  ASSUME NEW c, NEW v, AnswersOf(c, v), responses' \subseteq responses, concluded' = concluded,
         thread'[c] = thread[c], results'[c] = results[c], out_msg'[c] = out_msg[c]
  PROVE  AnswersOf(c, v)'
<1>1. OnTheWay(c, v)' \subseteq OnTheWay(c, v)
  BY DEF OnTheWay
<1>2. Taken(c, v)' = Taken(c, v)
  BY DEF Taken
<1>3. Given(c, v)' = Given(c, v)
  BY DEF Given
<1> QED BY <1>1, <1>2, <1>3, AnswersFewer

\* The UUT answers when it concludes.
LEMMA AnswersRespond ==
  ASSUME TypeOK, NEW c \in Client, NEW v \in Verdict, AnswersOf(c, v), UNCHANGED clientVars,
         NEW n \in DOMAIN accepted, NEW p \in Wanted(accepted[n]), UutRespond(accepted[n], p)
  PROVE  AnswersOf(c, v)'
<1>1. PICK w \in Verdict :
        /\ concluded' = concluded \cup {[req |-> accepted[n], peri |-> p, result |-> w]}
        /\ responses' = responses \cup {[req |-> accepted[n], peri |-> p, result |-> w, copy |-> 1]}
  BY Responds, TypeIsBench
<1>2. p \in Peripheral /\ \A k \in concluded : ~(k.req = accepted[n] /\ k.peri = p)
  BY Responds, TypeIsBench
<1>3. Taken(c, v)' = Taken(c, v) /\ out_msg' = out_msg
  BY DEF Taken, clientVars
<1>4. CASE accepted[n] = out_msg[c] /\ w = v
  <2>1. OnTheWay(c, v)' = OnTheWay(c, v) \cup {p}
    BY <1>1, <1>2, <1>3, <1>4 DEF OnTheWay
  <2>2. Given(c, v)' = Given(c, v) \cup {p} /\ p \notin Given(c, v)
    <3>1. [req |-> out_msg[c], peri |-> p, result |-> v] \notin concluded
      BY <1>2, <1>4
    <3> QED BY <1>1, <1>2, <1>3, <1>4, <3>1 DEF Given
  <2> DEFINE o == Cardinality(OnTheWay(c, v))  o1 == Cardinality(OnTheWay(c, v)')
             t == Cardinality(Taken(c, v))     t1 == Cardinality(Taken(c, v)')
             g == Cardinality(Given(c, v))     g1 == Cardinality(Given(c, v)')
  <2>3. o1 \in {o, o + 1}
    BY <2>1, AnswerSets, FS_AddElement
  <2>4. g1 = g + 1
    BY <2>2, AnswerSets, FS_AddElement
  <2>5. o + t <= g /\ t1 = t
    BY <1>3 DEF AnswersOf
  <2>6. o \in 0..5 /\ o1 \in 0..5 /\ t \in 0..5 /\ t1 \in 0..5 /\ g \in 0..5 /\ g1 \in 0..5
    BY AnswerSets
  <2> HIDE DEF o, o1, t, t1, g, g1
  <2>7. o1 + t1 <= g1
    BY <2>3, <2>4, <2>5, <2>6
  <2> QED BY <2>7 DEF AnswersOf, o1, t1, g1
<1>5. CASE ~(accepted[n] = out_msg[c] /\ w = v)
  <2>1. OnTheWay(c, v)' = OnTheWay(c, v)
    BY <1>1, <1>3, <1>5 DEF OnTheWay
  <2>2. Given(c, v)' = Given(c, v)
    BY <1>1, <1>3, <1>5 DEF Given
  <2> QED BY <1>3, <2>1, <2>2, AnswersFewer
<1> QED BY <1>4, <1>5

\* A thread takes an answer from the way.
LEMMA AnswersReceive ==
  ASSUME TypeOK, OneRequest, network # "duplicating", NEW c \in Client, NEW v \in Verdict,
         AnswersOf(c, v), NEW i \in Index, Receive(c, i)
  PROVE  AnswersOf(c, v)'
<1>1. PICK m \in ToClient(c) : /\ responses' = responses \ {m}
                               /\ results' = [results EXCEPT ![c][i] = (m.result = "SUCCESS")]
  BY DEF Receive
<1>2. /\ m \in responses /\ m.peri \in Peripheral /\ m.result \in Verdict
      /\ m = [req |-> out_msg[c], peri |-> m.peri, result |-> m.result, copy |-> 1]
  BY ToClientIsOnTheWay
<1>3. /\ thread[c][i] = "recv" /\ thread' = [thread EXCEPT ![c][i] = "post"]
      /\ out_msg' = out_msg /\ concluded' = concluded
  BY DEF Receive, uutVars
<1>4. /\ thread'[c][i] = "post" /\ results'[c][i] = (m.result = "SUCCESS")
      /\ \A j \in Index \ {i} : thread'[c][j] = thread[c][j] /\ results'[c][j] = results[c][j]
  BY <1>1, <1>3 DEF TypeOK
<1>5. Given(c, v)' = Given(c, v)
  BY <1>3 DEF Given
<1>6. i \notin Taken(c, v)
  BY <1>3 DEF Taken
<1>7. CASE m.result = v
  <2>1. OnTheWay(c, v)' = OnTheWay(c, v) \ {m.peri} /\ m.peri \in OnTheWay(c, v)
    <3> DEFINE a(q) == [req |-> out_msg[c], peri |-> q, result |-> v, copy |-> 1]
    <3>1. m = a(m.peri)
      BY <1>2, <1>7
    <3>2. \A q, r \in Peripheral : a(q) = a(r) => q = r
      <4> TAKE q, r \in Peripheral
      <4>1. a(q).peri = q /\ a(r).peri = r
        OBVIOUS
      <4> QED BY <4>1
    <3>3. OnTheWay(c, v) = {q \in Peripheral : a(q) \in responses}
      BY DEF OnTheWay
    <3>4. OnTheWay(c, v)' = {q \in Peripheral : a(q) \in responses'}
      BY <1>3 DEF OnTheWay
    <3> HIDE DEF a
    <3> QED BY <1>1, <1>2, <3>1, <3>2, <3>3, <3>4
  <2>2. Taken(c, v)' = Taken(c, v) \cup {i}
    BY <1>4, <1>7 DEF Taken
  <2> DEFINE o == Cardinality(OnTheWay(c, v))  o1 == Cardinality(OnTheWay(c, v)')
             t == Cardinality(Taken(c, v))     t1 == Cardinality(Taken(c, v)')
             g == Cardinality(Given(c, v))     g1 == Cardinality(Given(c, v)')
  <2>3. o1 = o - 1
    <3>1. Cardinality(OnTheWay(c, v) \ {m.peri}) = Cardinality(OnTheWay(c, v)) - 1
      BY <2>1, AnswerSets, FS_RemoveElement
    <3> QED BY <2>1, <3>1
  <2>4. t1 = t + 1
    BY <1>6, <2>2, AnswerSets, FS_AddElement
  <2>5. o + t <= g /\ g1 = g
    BY <1>5 DEF AnswersOf
  <2>6. o \in 0..5 /\ o1 \in 0..5 /\ t \in 0..5 /\ t1 \in 0..5 /\ g \in 0..5 /\ g1 \in 0..5
    BY AnswerSets
  <2> HIDE DEF o, o1, t, t1, g, g1
  <2>7. o1 + t1 <= g1
    BY <2>3, <2>4, <2>5, <2>6
  <2> QED BY <2>7 DEF AnswersOf, o1, t1, g1
<1>8. CASE m.result # v
  <2>1. OnTheWay(c, v)' \subseteq OnTheWay(c, v)
    BY <1>1, <1>3 DEF OnTheWay
  <2>2. (m.result = "SUCCESS") # (v = "SUCCESS")
    BY <1>2, <1>8 DEF Verdict
  <2>3. Taken(c, v)' \subseteq Taken(c, v)
    BY <1>4, <2>2 DEF Taken
  <2> QED BY <1>5, <2>1, <2>3, AnswersFewer
<1> QED BY <1>7, <1>8

\* Every step preserves the count of the answers.
LEMMA AnswersStep ==
  TypeOK /\ OneRequest /\ ThreadsCounted /\ AnswersCounted /\ [Next]_vars => AnswersCounted'
<1> SUFFICES ASSUME TypeOK, OneRequest, ThreadsCounted, AnswersCounted, [Next]_vars,
                    network' # "duplicating", NEW d \in Client, NEW v \in Verdict
             PROVE  AnswersOf(d, v)'
  BY DEF AnswersCounted, AnswersOf
<1>1. network' = network
  <2>1. ASSUME NEW c \in Client, Main(c) \/ \E i \in Index : Receiver(c, i) PROVE network' = network
    BY <2>1, ClientSteps
  <2> QED BY <2>1, BenchFrame DEF Next, vars, benchVars
<1>2. AnswersOf(d, v)
  BY <1>1 DEF AnswersCounted, AnswersOf
<1>3. ASSUME BenchStep, UNCHANGED clientVars PROVE AnswersOf(d, v)'
  <2>1. /\ thread'[d] = thread[d] /\ results'[d] = results[d] /\ out_msg'[d] = out_msg[d]
    BY <1>3 DEF clientVars
  <2>2. ASSUME NEW r \in requests, UutReceive(r) PROVE AnswersOf(d, v)'
    <3>1. concluded' = concluded /\ responses' = responses
      BY <2>2 DEF UutReceive, Uut!Accept, uutVars
    <3> QED BY <1>2, <2>1, <3>1, AnswersFrame
  <2>3. ASSUME NEW n \in DOMAIN accepted, NEW p \in Wanted(accepted[n]), UutRespond(accepted[n], p)
        PROVE  AnswersOf(d, v)'
    BY <1>2, <1>3, <2>3, AnswersRespond
  <2>4. ASSUME Lose PROVE AnswersOf(d, v)'
    <3>1. concluded' = concluded
      BY <2>4 DEF Lose, uutVars
    <3>2. ASSUME NEW m \in responses, responses' = responses \ {m} PROVE responses' \subseteq responses
      BY <3>2
    <3>3. responses' \subseteq responses
      BY <2>4, <3>2 DEF Lose
    <3> QED BY <1>2, <2>1, <3>1, <3>3, AnswersFrame
  <2>5. ~Duplicate
    BY <1>1 DEF Duplicate
  <2>6. ASSUME UutStep PROVE AnswersOf(d, v)'
    BY <2>2, <2>3, <2>6 DEF UutStep
  <2> QED BY <1>3, <2>4, <2>5, <2>6 DEF BenchStep
<1>4. ASSUME UNCHANGED vars PROVE AnswersOf(d, v)'
  BY <1>2, <1>4, AnswersFrame DEF vars, benchVars, netVars, uutVars, clientVars
<1>5. ASSUME NEW c \in Client, Main(c) \/ \E i \in Index : Receiver(c, i), c # d
      PROVE  AnswersOf(d, v)'
  <2>1. concluded' = concluded /\ responses' \subseteq responses
    BY <1>5, ClientSteps
  <2>2. thread'[d] = thread[d] /\ results'[d] = results[d] /\ out_msg'[d] = out_msg[d]
    BY <1>5, OtherClients
  <2> QED BY <1>2, <2>1, <2>2, AnswersFrame
<1>6. ASSUME LoadMessage(d) PROVE AnswersOf(d, v)'
  <2>1. /\ pc[d] = "step_id" /\ thread' = thread /\ responses' = responses /\ concluded' = concluded
        /\ out_msg'[d].client = d
    BY <1>6 DEF LoadMessage, StepId, netVars, uutVars, TypeOK
  <2>2. OnTheWay(d, v)' = {}
    <3> SUFFICES ASSUME NEW p \in OnTheWay(d, v)' PROVE FALSE
      OBVIOUS
    <3> DEFINE m == [req |-> out_msg'[d], peri |-> p, result |-> v, copy |-> 1]
    <3>1. m \in responses
      BY <2>1 DEF OnTheWay
    <3>2. m.req.client = d
      BY <2>1
    <3> HIDE DEF m
    <3>3. m \in ToClient(d)
      BY <3>1, <3>2 DEF ToClient
    <3>4. pc[d] \notin BeforeSend
      BY <1>1, <3>3, ToClientIsOnTheWay
    <3> QED BY <2>1, <3>4 DEF BeforeSend
  <2>3. Taken(d, v)' = {}
    <3>1. \A i \in Index : thread[d][i] = "none"
      BY <2>1 DEF ThreadsCounted, ThreadsOf, BeforeSend
    <3> QED BY <2>1, <3>1 DEF Taken
  <2>4. Cardinality(Given(d, v)') \in 0..5
    BY AnswerSets
  <2> QED BY <2>2, <2>3, <2>4, FS_EmptySet DEF AnswersOf
<1>7. ASSUME Database(d) \/ Send(d) \/ Wait(d) \/ Join(d) PROVE AnswersOf(d, v)'
  <2>1. thread' = thread /\ results' = results /\ out_msg' = out_msg
    <3>1. CASE Database(d)
      BY <3>1, DatabaseStep
    <3> QED BY <1>7, <3>1 DEF Send, Wait, Join, Loop, clientVars
  <2>2. concluded' = concluded /\ responses' \subseteq responses
    BY <1>7, ClientSteps DEF Main
  <2> QED BY <1>2, <2>1, <2>2, AnswersFrame
<1>8. ASSUME Create(d) PROVE AnswersOf(d, v)'
  <2>1. /\ results' = results /\ out_msg' = out_msg /\ pc[d] = "create"
        /\ \/ thread' = thread
           \/ thread' = [thread EXCEPT ![d][count[d] + 1] = "recv"]
    BY <1>8 DEF Create, Loop
  <2>2. concluded' = concluded /\ responses' \subseteq responses
    BY <1>8, ClientSteps DEF Main
  <2>3. Given(d, v)' = Given(d, v) /\ OnTheWay(d, v)' \subseteq OnTheWay(d, v)
    BY <2>1, <2>2 DEF Given, OnTheWay
  <2>4. Taken(d, v)' \subseteq Taken(d, v)
    <3>1. thread \in [Client -> [Index -> {"none", "recv", "post", "exit", "gone"}]]
      BY DEF TypeOK
    <3>2. \A i \in Index : thread'[d][i] \in {"recv", thread[d][i]}
      BY <2>1, <3>1
    <3> QED BY <2>1, <3>2 DEF Taken
  <2> QED BY <1>2, <2>3, <2>4, AnswersFewer
<1>9. ASSUME NEW i \in Index, Receive(d, i) PROVE AnswersOf(d, v)'
  BY <1>1, <1>2, <1>9, AnswersReceive
<1>10. ASSUME NEW i \in Index, Post(d, i) \/ Exit(d, i) PROVE AnswersOf(d, v)'
  <2>1. /\ concluded' = concluded /\ responses' = responses /\ out_msg' = out_msg /\ results' = results
        /\ \E a \in {"exit", "gone"} : thread' = [thread EXCEPT ![d][i] = a]
        /\ thread[d][i] \in {"post", "exit"}
    BY <1>10 DEF Post, Exit, benchVars, netVars, uutVars
  <2>2. Given(d, v)' = Given(d, v) /\ OnTheWay(d, v)' \subseteq OnTheWay(d, v)
    BY <2>1 DEF Given, OnTheWay
  <2>3. Taken(d, v)' = Taken(d, v)
    <3>1. thread \in [Client -> [Index -> {"none", "recv", "post", "exit", "gone"}]]
      BY DEF TypeOK
    <3>2. \A j \in Index : \/ j # i /\ thread'[d][j] = thread[d][j]
                           \/ j = i /\ thread'[d][j] \in {"exit", "gone"}
      BY <2>1, <3>1
    <3> QED BY <2>1, <3>2 DEF Taken
  <2> QED BY <1>2, <2>2, <2>3, AnswersFewer
<1> QED BY <1>3, <1>4, <1>5, <1>6, <1>7, <1>8, <1>9, <1>10 DEF Next, Main, Receiver

-----------------------------------------------------------------------------
(* When the threads are joined everything is in *)

\* When the threads are joined, they have taken as many answers as there are tests. So none is
\* on its way, every test has concluded, and the threads hold as many successes as there were.
LEMMA AllTaken ==
  ASSUME TypeOK, OneRequest, ThreadsCounted, AnswersCounted, network # "duplicating",
         NEW c \in Client, pc[c] \in AfterJoin
  PROVE  /\ \A v \in Verdict : OnTheWay(c, v) = {}
         /\ out_msg[c].peripheral = args[c].want
         /\ \A p \in args[c].want : Uut!Concluded(out_msg[c], p)
         /\ AllSuccess(c) <=> \A p \in args[c].want :
                                [req |-> out_msg[c], peri |-> p, result |-> "SUCCESS"] \in concluded
<1> DEFINE n == n_threads(c)  want == args[c].want
           GS == Given(c, "SUCCESS")     GF == Given(c, "FAILED")
           OS == OnTheWay(c, "SUCCESS")  OF == OnTheWay(c, "FAILED")
           TS == Taken(c, "SUCCESS")     TF == Taken(c, "FAILED")
<1>1. n \in 1..5 /\ want \in SUBSET Peripheral /\ Cardinality(want) = n
  BY SomeThreads DEF n_threads
<1>2. out_msg[c].peripheral = want
  BY DEF OneRequest, AfterJoin, BeforeLoad
<1>3. /\ AnswersOf(c, "SUCCESS") /\ AnswersOf(c, "FAILED")
  BY DEF AnswersCounted, AnswersOf, Verdict
<1>4. Cardinality(TS) + Cardinality(TF) = n
  <2>1. \A i \in Index : IF i <= n THEN thread[c][i] = "gone" ELSE thread[c][i] = "none"
    <3>1. /\ \A i \in Index : i > n => thread[c][i] = "none"
          /\ \A i \in Index : thread[c][i] \in {"none", "gone"}
          /\ \A i \in Index : i <= n => thread[c][i] # "none"
      BY DEF ThreadsCounted, ThreadsOf
    <3>2. \A i \in Index : i \in Nat
      BY DEF Index, N_TESTS
    <3> QED BY <1>1, <3>1, <3>2
  <2>2. \A i \in Index : results[c][i] \in BOOLEAN
    BY DEF TypeOK
  <2>3. TS \cup TF = 1..n /\ TS \cap TF = {}
    <3>1. TS = {i \in Index : i <= n /\ results[c][i]}
      BY <2>1, <2>2 DEF Taken
    <3>2. TF = {i \in Index : i <= n /\ ~results[c][i]}
      BY <2>1, <2>2 DEF Taken
    <3>3. Index = 1..5
      BY DEF Index, N_TESTS
    <3> QED BY <1>1, <3>1, <3>2, <3>3
  <2>4. Cardinality(1..n) = n
    <3>1. \A a, b \in Int : IsFiniteSet(a..b) /\ Cardinality(a..b) = IF a > b THEN 0 ELSE b - a + 1
      BY FS_Interval
    <3>2. 1 \in Int /\ n \in Int
      BY <1>1
    <3>3. Cardinality(1..n) = IF 1 > n THEN 0 ELSE n - 1 + 1
      BY <3>1, <3>2, Zenon
    <3> QED BY <1>1, <3>3
  <2>5. Cardinality(TS \cup TF) = Cardinality(TS) + Cardinality(TF) - Cardinality(TS \cap TF)
    BY AnswerSets, FS_Union
  <2>6. Cardinality(TS \cap TF) = 0
    BY <2>3, FS_EmptySet
  <2>7. Cardinality(TS) \in 0..5 /\ Cardinality(TF) \in 0..5
    BY AnswerSets
  <2>8. Cardinality(TS \cup TF) = n
    BY <2>3, <2>4
  <2>9. n = Cardinality(TS) + Cardinality(TF) - Cardinality(TS \cap TF)
    BY <2>5, <2>8
  <2> HIDE DEF TS, TF, n
  <2> QED BY <1>1, <2>6, <2>7, <2>9
<1>5. GS \cup GF \subseteq want /\ GS \cap GF = {}
  <2>1. ASSUME NEW p \in Peripheral, NEW v, [req |-> out_msg[c], peri |-> p, result |-> v] \in concluded
        PROVE  p \in want
    <3> DEFINE k == [req |-> out_msg[c], peri |-> p, result |-> v]
    <3>1. k.peri \in Wanted(k.req)
      BY <2>1 DEF OneRequest
    <3> QED BY <1>2, <3>1 DEF Wanted
  <2>2. ASSUME NEW p \in Peripheral, [req |-> out_msg[c], peri |-> p, result |-> "SUCCESS"] \in concluded,
               [req |-> out_msg[c], peri |-> p, result |-> "FAILED"] \in concluded
        PROVE  FALSE
    <3> DEFINE j == [req |-> out_msg[c], peri |-> p, result |-> "SUCCESS"]
               k == [req |-> out_msg[c], peri |-> p, result |-> "FAILED"]
    <3>1. j.req = k.req /\ j.peri = k.peri /\ j.result # k.result
      OBVIOUS
    <3>2. j \in concluded /\ k \in concluded
      BY <2>2
    <3> HIDE DEF j, k
    <3> QED BY <3>1, <3>2 DEF OneRequest
  <2> QED BY <2>1, <2>2 DEF Given
<1>6. Cardinality(GS) + Cardinality(GF) = Cardinality(GS \cup GF)
  <2>1. Cardinality(GS \cup GF) = Cardinality(GS) + Cardinality(GF) - Cardinality(GS \cap GF)
    BY AnswerSets, FS_Union
  <2>2. Cardinality(GS \cap GF) = 0
    BY <1>5, FS_EmptySet
  <2>3. Cardinality(GS) \in 0..5 /\ Cardinality(GF) \in 0..5
    BY AnswerSets
  <2> HIDE DEF GS, GF
  <2> QED BY <2>1, <2>2, <2>3
<1>7. /\ Cardinality(GS \cup GF) <= n /\ (Cardinality(GS \cup GF) = n => GS \cup GF = want)
  <2>1. IsFiniteSet(want)
    BY <1>1, PeripheralSubsets
  <2> HIDE DEF GS, GF
  <2> QED BY <1>1, <1>5, <2>1, FS_Subset
<1>8. /\ Cardinality(OS) \in 0..5 /\ Cardinality(OF) \in 0..5 /\ Cardinality(TS) \in 0..5
      /\ Cardinality(TF) \in 0..5 /\ Cardinality(GS) \in 0..5 /\ Cardinality(GF) \in 0..5
  BY AnswerSets
<1>9. /\ Cardinality(OS) + Cardinality(TS) <= Cardinality(GS)
      /\ Cardinality(OF) + Cardinality(TF) <= Cardinality(GF)
  BY <1>3 DEF AnswersOf
<1>10. /\ Cardinality(OS) = 0 /\ Cardinality(OF) = 0
       /\ GS \cup GF = want /\ Cardinality(TF) = Cardinality(GF)
  <2> HIDE DEF OS, OF, TS, TF, GS, GF, n, want
  <2> QED BY <1>1, <1>4, <1>6, <1>7, <1>8, <1>9
<1>11. OS = {} /\ OF = {}
  BY <1>10, AnswerSets, FS_EmptySet
<1>12. TF = {} <=> GF = {}
  BY <1>10, AnswerSets, FS_EmptySet
<1>13. \A p \in want : Uut!Concluded(out_msg[c], p)
  <2> TAKE p \in want
  <2>1. PICK v \in Verdict : [req |-> out_msg[c], peri |-> p, result |-> v] \in concluded
    BY <1>10 DEF Given, Verdict
  <2> QED BY <2>1 DEF Uut!Concluded
<1>14. AllSuccess(c) <=> TF = {}
  <2>1. \A i \in Index : IF i <= n THEN thread[c][i] = "gone" ELSE thread[c][i] = "none"
    <3>1. /\ \A i \in Index : i > n => thread[c][i] = "none"
          /\ \A i \in Index : thread[c][i] \in {"none", "gone"}
          /\ \A i \in Index : i <= n => thread[c][i] # "none"
      BY DEF ThreadsCounted, ThreadsOf
    <3>2. \A i \in Index : i \in Nat
      BY DEF Index, N_TESTS
    <3> QED BY <1>1, <3>1, <3>2
  <2>2. \A i \in Index : results[c][i] \in BOOLEAN
    BY DEF TypeOK
  <2>3. \A i \in Index : i \in Nat /\ (i <= n <=> i \in 1..n)
    BY <1>1 DEF Index, N_TESTS
  <2>4. \A i \in 1..n : i \in Index
    BY <1>1 DEF Index, N_TESTS
  <2>5. TF = {i \in Index : i \in 1..n /\ ~results[c][i]}
    BY <2>1, <2>2, <2>3 DEF Taken
  <2> QED BY <2>4, <2>5 DEF AllSuccess
<1>15. GF = {} <=> \A p \in want : [req |-> out_msg[c], peri |-> p, result |-> "SUCCESS"] \in concluded
  <2>1. GF = {} <=> \A p \in want : p \in GS
    BY <1>5, <1>10
  <2> QED BY <1>1, <2>1 DEF Given
<1>16. \A v \in Verdict : OnTheWay(c, v) = {}
  BY <1>11 DEF Verdict
<1> QED BY <1>2, <1>12, <1>13, <1>14, <1>15, <1>16

\* Every step preserves that the log is true: the row that is appended says what was concluded.
LEMMA LoggedStep ==
  /\ TypeOK /\ OneRequest /\ ThreadsCounted /\ AnswersCounted /\ LoggedVerdictTrue /\ [Next]_vars
  => LoggedVerdictTrue'
<1> SUFFICES ASSUME TypeOK, OneRequest, ThreadsCounted, AnswersCounted, LoggedVerdictTrue,
                    [Next]_vars, network' # "duplicating"
             PROVE  LoggedResultTrue'
  BY DEF LoggedVerdictTrue
<1>1. network' = network
  <2>1. ASSUME NEW c \in Client, Main(c) \/ \E i \in Index : Receiver(c, i) PROVE network' = network
    BY <2>1, ClientSteps
  <2> QED BY <2>1, BenchFrame DEF Next, vars, benchVars
<1>2. LoggedResultTrue /\ BenchTypeOK
  BY <1>1, TypeIsBench DEF LoggedVerdictTrue
<1>3. ASSUME UNCHANGED testLogs, BenchStep \/ concluded' = concluded PROVE LoggedResultTrue'
  BY <1>2, <1>3, LoggedStays
<1>4. ASSUME NEW c \in Client, Database(c), pc[c] = "commit", testLogs' = Append(testLogs, Row(c))
      PROVE  LoggedResultTrue'
  <2>1. /\ out_msg[c].peripheral = args[c].want
        /\ \A p \in args[c].want : Uut!Concluded(out_msg[c], p)
        /\ AllSuccess(c) <=> \A p \in args[c].want :
                               [req |-> out_msg[c], peri |-> p, result |-> "SUCCESS"] \in concluded
    BY <1>1, <1>4, AllTaken DEF AfterJoin
  <2>2. Row(c).req = out_msg[c] /\ Row(c).result = AllSuccess(c)
    BY DEF Row
  <2>3. RowTrue(Row(c))
    BY <2>1, <2>2 DEF RowTrue, Wanted
  <2>4. concluded' = concluded
    BY <1>4, ClientSteps DEF Main
  <2> QED BY <1>2, <1>4, <2>3, <2>4, RowTyped, LoggedStays
<1>5. ASSUME BenchStep, UNCHANGED clientVars PROVE LoggedResultTrue'
  BY <1>3, <1>5, BenchFrame
<1>6. ASSUME NEW c \in Client, Database(c) PROVE LoggedResultTrue'
  <2>1. concluded' = concluded
    BY <1>6, ClientSteps DEF Main
  <2> QED BY <1>3, <1>4, <1>6, <2>1, DatabaseRows
<1>7. ASSUME NEW c \in Client, Main(c), ~Database(c) PROVE LoggedResultTrue'
  <2>1. UNCHANGED testLogs
    BY <1>7 DEF Main, LoadMessage, StepId, Send, SendMessage, Create, Wait, Join, Loop, dbVars
  <2> QED BY <1>3, <1>7, <2>1, ClientSteps
<1>8. ASSUME NEW c \in Client, NEW i \in Index, Receiver(c, i) PROVE LoggedResultTrue'
  <2>1. UNCHANGED testLogs
    BY <1>8 DEF Receiver, Receive, Post, Exit, benchVars, dbVars
  <2> QED BY <1>3, <1>8, <2>1, ClientSteps
<1>9. ASSUME UNCHANGED vars PROVE LoggedResultTrue'
  BY <1>3, <1>9 DEF vars, benchVars, uutVars, dbVars
<1> QED BY <1>5, <1>6, <1>7, <1>8, <1>9 DEF Next

-----------------------------------------------------------------------------
(* The theorems *)

\* The invariant holds initially.
LEMMA Initially == Init => IInv
<1> SUFFICES ASSUME Init PROVE IInv
  OBVIOUS
<1> USE DEF Init, BenchInit, DbInit, Uut!Init
<1>1. TypeOK
  <2>1. \A c \in Client : out_msg[c] \in Message
    BY DEF Message, Byte
  <2>2. out_msg \in [Client -> Message]
    BY <2>1
  <2>3. /\ testLogs \in Seq([test_id : Nat, result : BOOLEAN, req : Message])
        /\ accepted \in Seq(Message)
    OBVIOUS
  <2>4. BenchTypeOK
    BY <2>3 DEF BenchTypeOK, Locked
  <2>5. /\ pc \in [Client -> {"init_db", "prepare_id", "step_id", "close_id", "init_db_again",
                        "send", "create", "wait", "join", "prepare_log", "step_log",
                        "commit", "print", "close_print"} \cup Ended]
        /\ args \in [Client -> Argument]
        /\ count \in [Client -> 0..N_TESTS] /\ tests_done_sem \in [Client -> 0..N_TESTS]
    BY DEF N_TESTS
  <2>6. /\ thread \in [Client -> [Index -> {"none", "recv", "post", "exit", "gone"}]]
        /\ results \in [Client -> [Index -> BOOLEAN]]
    OBVIOUS
  <2> QED BY <2>2, <2>4, <2>5, <2>6 DEF TypeOK
<1>2. GreatestId
  BY DEF GreatestId
<1>3. OneRequest
  BY DEF OneRequest, BeforeLoad
<1>4. ThreadsCounted
  <2> SUFFICES ASSUME NEW c \in Client PROVE ThreadsOf(c)
    BY DEF ThreadsCounted
  <2>1. n_threads(c) \in 1..5
    BY <1>1, SomeThreads
  <2>2. pc[c] = "init_db" /\ count[c] = 0 /\ tests_done_sem[c] = 0 /\ \A i \in Index : thread[c][i] = "none"
    OBVIOUS
  <2> QED BY <2>1, <2>2 DEF ThreadsOf, BeforeSend, AfterJoin, Ended
<1>5. AnswersCounted
  <2> SUFFICES ASSUME NEW c \in Client, NEW v \in Verdict
               PROVE  Cardinality(OnTheWay(c, v)) + Cardinality(Taken(c, v)) <= Cardinality(Given(c, v))
    BY DEF AnswersCounted
  <2>1. OnTheWay(c, v) = {} /\ Taken(c, v) = {} /\ Given(c, v) = {}
    BY DEF OnTheWay, Taken, Given
  <2> QED BY <2>1, FS_EmptySet
<1>6. LoggedVerdictTrue
  BY DEF LoggedVerdictTrue, LoggedResultTrue
<1> QED BY <1>1, <1>2, <1>3, <1>4, <1>5, <1>6 DEF IInv

\* The invariant is inductive.
THEOREM Invariance == Spec => []IInv
<1>1. IInv /\ [Next]_vars => IInv'
  BY TypeStep, GreatestStep, OneRequestStep, ThreadsStep, AnswersStep, LoggedStep DEF IInv
<1> QED BY <1>1, Initially, PTL DEF Spec

\* The variables keep their types: in particular the semaphore never counts more posts than
\* there are threads, and the next id is a number whenever get_next_id is asked for it.
THEOREM TypeCorrect == Spec => []TypeOK
<1>1. IInv => TypeOK
  BY DEF IInv
<1> QED BY <1>1, Invariance, PTL

\* When run_parallel_tests has gone through its three loops no thread is left, the
\* semaphore is down, and on a network that duplicates nothing no answer is still to come
\* and every peripheral that was asked for has concluded, whatever the number of clients.
THEOREM CollectedAlways == Spec => []Collected
<1>1. IInv => Collected
  <2> SUFFICES ASSUME IInv, NEW c \in Client, pc[c] \in AfterJoin
               PROVE  /\ \A i \in Index : thread[c][i] \in {"none", "gone"}
                      /\ tests_done_sem[c] = 0
                      /\ network # "duplicating" =>
                           /\ ToClient(c) = {}
                           /\ \A p \in args[c].want : Uut!Concluded(out_msg[c], p)
    BY DEF Collected, AfterJoin
  <2>1. (\A i \in Index : thread[c][i] \in {"none", "gone"}) /\ tests_done_sem[c] = 0
    BY DEF IInv, ThreadsCounted, ThreadsOf
  <2>2. ASSUME network # "duplicating"
        PROVE  ToClient(c) = {} /\ \A p \in args[c].want : Uut!Concluded(out_msg[c], p)
    <3>1. /\ \A v \in Verdict : OnTheWay(c, v) = {}
          /\ \A p \in args[c].want : Uut!Concluded(out_msg[c], p)
      BY <2>2, AllTaken DEF IInv
    <3>2. ASSUME NEW m \in ToClient(c) PROVE FALSE
      <4>1. /\ m \in responses /\ m.peri \in Peripheral /\ m.result \in Verdict
            /\ m = [req |-> out_msg[c], peri |-> m.peri, result |-> m.result, copy |-> 1]
        BY <2>2, ToClientIsOnTheWay DEF IInv
      <4>2. m.peri \in OnTheWay(c, m.result)
        BY <4>1 DEF OnTheWay
      <4> QED BY <3>1, <4>1, <4>2
    <3> QED BY <3>1, <3>2
  <2> QED BY <2>1, <2>2
<1> QED BY <1>1, Invariance, PTL

\* What log_test writes is true and stays true: on a network that duplicates nothing, the
\* request of a row has concluded on all its peripherals, and the row says success if and
\* only if all of them succeeded, although the threads take the answers in any order and
\* never look at whose they are.
THEOREM LoggedTrue == Spec => []LoggedVerdictTrue
<1>1. IInv => LoggedVerdictTrue
  BY DEF IInv
<1> QED BY <1>1, Invariance, PTL

=============================================================================
