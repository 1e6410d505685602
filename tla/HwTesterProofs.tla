------------------------------ MODULE HwTesterProofs ------------------------------
(* Theorems about HwTester, for every set of clients and of command lines. *)
EXTENDS HwTester, TestBenchProofs

-----------------------------------------------------------------------------
(* The inductive invariant *)

\* Where a client has not sent yet; where it has its result; where its request is loaded; where
\* a test is under way.
BeforeSend == {"init_db", "prepare_id", "step_id", "close_id", "send"}
AfterReceive == {"prepare_log", "step_log", "commit", "print", "close_print"}
Loaded == {"close_id", "send", "receive"} \cup AfterReceive
Active == {"prepare_id", "step_id"} \cup Loaded

\* What a client has left to do, and its request.
TodoOf(c) ==
  /\ todo[c] \subseteq args[c].want
  /\ pc[c] \in {"init_db"} \cup Active => todo[c] # {}
  /\ pc[c] = "success" => todo[c] = {}
  /\ out_msg[c].client = c
  /\ pc[c] \in Loaded => out_msg[c].peripheral = {Current(c)}

Todo == \A c \in Client : TodoOf(c)

\* The request that a client is about, from its sending on; a past one; one that is
\* waited for.
Present(r) == r = out_msg[r.client] /\ pc[r.client] \notin BeforeSend
Past(r) == Wanted(r) \cap todo[r.client] = {}
Expected(r) == r = out_msg[r.client] /\ pc[r.client] = "receive"

Verdict3(k) == [req |-> k.req, peri |-> k.peri, result |-> k.result]

\* Nobody checks the id of an answer.  That each answer is nevertheless the one that is waited
\* for, on a network that duplicates nothing, is because a client has one request at a time: what
\* is on its way is about it, and past requests have concluded before.
OneAtATime ==
  /\ \A r \in requests : Expected(r) /\ \A n \in DOMAIN accepted : accepted[n] # r
  /\ \A n \in DOMAIN accepted : /\ Present(accepted[n]) \/ Past(accepted[n])
                                /\ \/ Expected(accepted[n])
                                   \/ \A p \in Wanted(accepted[n]) : Uut!Concluded(accepted[n], p)
  /\ \A k \in concluded : k.peri \in Wanted(k.req) /\ \E n \in DOMAIN accepted : accepted[n] = k.req
  /\ \A j, k \in concluded : j.req = k.req /\ j.peri = k.peri => j = k
  /\ \A m \in responses : Expected(m.req) /\ Verdict3(m) \in concluded /\ m.copy = 1

\* The result that a client holds is the one the UUT concluded.
ResultOf(c) ==
  pc[c] \in AfterReceive =>
    [req |-> out_msg[c], peri |-> Current(c), result |-> test_result[c]] \in concluded

Answered == network # "duplicating" => OneAtATime /\ \A c \in Client : ResultOf(c)

\* Who holds the file, and that one process at a time uses it while none have overlapped.
FileUsed ==
  /\ Locked => pc[dbWriter] = "commit"
  /\ \A c \in dbReaders : pc[c] \in {"close_id", "close_print"}
  /\ ~overlapped => \A c, d \in Client : pc[c] \in Active /\ pc[d] \in Active => c = d

\* From loading the id to inserting it, no row has it: without overlap no one else inserts.
Fresh == {"close_id", "send", "receive", "prepare_log", "step_log", "commit"}

NewId(c) ==
  pc[c] \in Fresh => \A n \in DOMAIN testLogs : testLogs[n].test_id # out_msg[c].test_id

\* What a client is done with is in the table.
LoggedFor(c, p) ==
  \E n \in DOMAIN testLogs : testLogs[n].req.client = c /\ testLogs[n].req.peripheral = {p}

LoggedOf(c) ==
  /\ pc[c] \in {"init_db", "success"} \cup Active => \A p \in args[c].want \ todo[c] : LoggedFor(c, p)
  /\ pc[c] \in {"print", "close_print"} => LoggedFor(c, Current(c))

Sequential == ~overlapped => TestIdIsKey /\ \A c \in Client : NewId(c) /\ LoggedOf(c)

\* The inductive invariant.
IInv == TypeOK /\ GreatestId /\ Todo /\ Answered /\ FileUsed /\ Sequential /\ LoggedVerdictTrue

-----------------------------------------------------------------------------
(* What the steps do *)

\* The types of the bench are among those of the client.
LEMMA TypeIsBench == TypeOK => BenchTypeOK
BY DEF TypeOK

Place == {"init_db", "prepare_id", "step_id", "close_id", "send", "receive", "prepare_log",
          "step_log", "commit", "print", "close_print"} \cup Ended

\* The next test is one that is left to do.
LEMMA CurrentIsTodo ==
  ASSUME NEW c, todo[c] \in SUBSET Peripheral, todo[c] # {}
  PROVE  Current(c) \in todo[c]
<1> DEFINE T == todo[c]
<1>1. \E p \in T : \A q \in T : RunRank[p] <= RunRank[q]
  <2>0. \A p \in T : p \in {"UART", "SPI", "I2C", "ADC", "TIM"}
    BY DEF Peripheral
  <2>r. /\ RunRank["UART"] = 1 /\ RunRank["SPI"] = 2 /\ RunRank["I2C"] = 3 /\ RunRank["ADC"] = 4
        /\ RunRank["TIM"] = 5
    BY DEF RunRank
  <2> HIDE DEF T
  <2>1. CASE "UART" \in T
    <3>1. \A q \in T : RunRank["UART"] <= RunRank[q]
      BY <2>0, <2>r
    <3> QED BY <2>1, <3>1
  <2>2. CASE "UART" \notin T /\ "SPI" \in T
    <3>1. \A q \in T : RunRank["SPI"] <= RunRank[q]
      BY <2>0, <2>r, <2>2
    <3> QED BY <2>2, <3>1
  <2>3. CASE "UART" \notin T /\ "SPI" \notin T /\ "I2C" \in T
    <3>1. \A q \in T : RunRank["I2C"] <= RunRank[q]
      BY <2>0, <2>r, <2>3
    <3> QED BY <2>3, <3>1
  <2>4. CASE "UART" \notin T /\ "SPI" \notin T /\ "I2C" \notin T /\ "ADC" \in T
    <3>1. \A q \in T : RunRank["ADC"] <= RunRank[q]
      BY <2>0, <2>r, <2>4
    <3> QED BY <2>4, <3>1
  <2>5. CASE "UART" \notin T /\ "SPI" \notin T /\ "I2C" \notin T /\ "ADC" \notin T
    <3>1. T = {"TIM"}
      BY <2>0, <2>5 DEF T
    <3> QED BY <2>r, <3>1
  <2> QED BY <2>1, <2>2, <2>3, <2>4, <2>5
<1> QED BY <1>1 DEF Current

\* The five steps of main, each as what it does to the client itself.
Row(c) == [test_id |-> out_msg[c].test_id, req |-> out_msg[c], result |-> (test_result[c] = "SUCCESS")]

\* What a client appends is a row.
LEMMA RowTyped ==
  ASSUME TypeOK, NEW c \in Client
  PROVE  Row(c) \in RowSet
<1>1. out_msg[c] \in Message /\ out_msg[c].test_id \in Nat
  BY DEF TypeOK, Message
<1> QED BY <1>1 DEF Row, RowSet

\* The steps of tests_db.c: where they lead, who holds the file, what is appended.
LEMMA DatabaseStep ==
  ASSUME TypeOK, NEW c \in Client, Database(c)
  PROVE  /\ UNCHANGED <<network, requests, responses, accepted, concluded, args, todo, out_msg, test_result>>
         /\ pc' = [pc EXCEPT ![c] = pc'[c]] /\ pc'[c] \in Place
         /\ \/ /\ pc[c] = "init_db" /\ pc'[c] \in {"prepare_id", "sqlite_error"}
               /\ UNCHANGED <<testLogs, dbWriter, dbReaders>>
               /\ overlapped' = (overlapped \/ \E d \in Client \ {c} : pc[d] \notin {"init_db"} \cup Ended)
            \/ /\ pc[c] = "prepare_id" /\ pc'[c] \in {"step_id", "sqlite_error"}
               /\ UNCHANGED <<testLogs, dbWriter, dbReaders, overlapped>>
            \/ /\ pc[c] = "close_id" /\ pc'[c] = "send" /\ dbReaders' = dbReaders \ {c}
               /\ UNCHANGED <<testLogs, dbWriter, overlapped>>
            \/ /\ pc[c] = "prepare_log" /\ pc'[c] \in {"step_log", "sqlite_error"}
               /\ UNCHANGED <<testLogs, dbWriter, dbReaders, overlapped>>
            \/ /\ pc[c] = "step_log" /\ (Locked \/ dbReaders # {}) /\ pc'[c] = "print"
               /\ UNCHANGED <<testLogs, dbWriter, dbReaders, overlapped>>
            \/ /\ pc[c] = "step_log" /\ ~Locked /\ dbReaders = {} /\ pc'[c] = "commit" /\ dbWriter' = c
               /\ UNCHANGED <<testLogs, dbReaders, overlapped>>
            \/ /\ pc[c] = "commit" /\ pc'[c] = "print" /\ dbWriter' = NoClient
               /\ testLogs' = Append(testLogs, Row(c))
               /\ UNCHANGED <<dbReaders, overlapped>>
            \/ /\ pc[c] = "print" /\ pc'[c] = "close_print"
               /\ dbReaders' = IF Locked THEN dbReaders ELSE dbReaders \cup {c}
               /\ UNCHANGED <<testLogs, dbWriter, overlapped>>
<1>1. UNCHANGED <<network, requests, responses, accepted, concluded, args, todo, out_msg, test_result>>
  BY DEF Database, netVars, uutVars, clientVars
<1>2. ASSUME NEW to, pc' = [pc EXCEPT ![c] = to] PROVE pc'[c] = to /\ pc' = [pc EXCEPT ![c] = pc'[c]]
  BY <1>2 DEF TypeOK
<1> USE DEF dbVars, Goto, Place, Ended
<1>3. CASE Start(c, "prepare_id")
  <2>1. pc'[c] \in {"prepare_id", "sqlite_error"} /\ pc' = [pc EXCEPT ![c] = pc'[c]]
    BY <1>2, <1>3 DEF Start
  <2> QED BY <1>1, <1>3, <2>1 DEF Start
<1>4. CASE PrepareId(c)
  <2>1. pc'[c] \in {"step_id", "sqlite_error"} /\ pc' = [pc EXCEPT ![c] = pc'[c]]
    BY <1>2, <1>4 DEF PrepareId, Call
  <2> QED BY <1>1, <1>4, <2>1 DEF PrepareId, Call
<1>5. CASE CloseId(c, "send")
  BY <1>1, <1>2, <1>5 DEF CloseId
<1>6. CASE PrepareLog(c)
  <2>1. pc'[c] \in {"step_log", "sqlite_error"} /\ pc' = [pc EXCEPT ![c] = pc'[c]]
    BY <1>2, <1>6 DEF PrepareLog, Call
  <2> QED BY <1>1, <1>6, <2>1 DEF PrepareLog, Call
<1>7. CASE StepLog(c) /\ (Locked \/ dbReaders # {})
  BY <1>1, <1>2, <1>7 DEF StepLog
<1>8. CASE StepLog(c) /\ ~(Locked \/ dbReaders # {})
  BY <1>1, <1>2, <1>8 DEF StepLog
<1>9. CASE CommitLog(c, Row(c))
  BY <1>1, <1>2, <1>9 DEF CommitLog
<1>10. CASE StepPrint(c)
  BY <1>1, <1>2, <1>10 DEF StepPrint
<1> QED BY <1>3, <1>4, <1>5, <1>6, <1>7, <1>8, <1>9, <1>10 DEF Database, Row

\* What LoadMessage does: the request is for the current test alone, with the next id.
LEMMA LoadStep ==
  ASSUME TypeOK, NEW c \in Client, LoadMessage(c)
  PROVE  /\ UNCHANGED <<network, requests, responses, accepted, concluded, args, todo, test_result>>
         /\ pc[c] = "step_id" /\ pc' = [pc EXCEPT ![c] = "close_id"] /\ pc'[c] = "close_id"
         /\ dbReaders' = IF Locked THEN dbReaders ELSE dbReaders \cup {c}
         /\ UNCHANGED <<testLogs, dbWriter, overlapped>>
         /\ \E m : /\ m = [client |-> c, test_id |-> NextId, peripheral |-> {Current(c)},
                           n_iter |-> args[c].n_iter, p_len |-> Length(c, Current(c))]
                  /\ out_msg' = [out_msg EXCEPT ![c] = m] /\ out_msg'[c] = m
BY DEF LoadMessage, StepId, Goto, netVars, uutVars, TypeOK

\* What Send does.
LEMMA SendStep ==
  ASSUME TypeOK, NEW c \in Client, Send(c)
  PROVE  /\ UNCHANGED <<network, responses, accepted, concluded, args, todo, out_msg, test_result>>
         /\ UNCHANGED <<testLogs, dbWriter, dbReaders, overlapped>>
         /\ pc[c] = "send" /\ pc' = [pc EXCEPT ![c] = pc'[c]]
         /\ \/ pc'[c] = "receive" /\ requests' = requests \cup {out_msg[c]}
            \/ pc'[c] = "udp_error" /\ requests' = requests
BY DEF Send, SendMessage, Goto, clientVars, uutVars, dbVars, TypeOK

\* What Receive does: the result is that of any answer to the client.
LEMMA ReceiveStep ==
  ASSUME TypeOK, NEW c \in Client, Receive(c)
  PROVE  /\ UNCHANGED <<network, requests, accepted, concluded, args, todo, out_msg>>
         /\ UNCHANGED <<testLogs, dbWriter, dbReaders, overlapped>>
         /\ pc[c] = "receive" /\ pc' = [pc EXCEPT ![c] = "prepare_log"] /\ pc'[c] = "prepare_log"
         /\ \E m \in ToClient(c) : /\ responses' = responses \ {m}
                                   /\ test_result' = [test_result EXCEPT ![c] = m.result]
                                   /\ test_result'[c] = m.result
BY DEF Receive, Goto, uutVars, dbVars, TypeOK

\* What NextTest does: the current test is done with.
LEMMA NextTestStep ==
  ASSUME TypeOK, NEW c \in Client, NextTest(c)
  PROVE  /\ UNCHANGED <<network, requests, responses, accepted, concluded, args, out_msg, test_result>>
         /\ UNCHANGED <<testLogs, dbWriter, overlapped>> /\ dbReaders' = dbReaders \ {c}
         /\ pc[c] = "close_print" /\ pc' = [pc EXCEPT ![c] = pc'[c]]
         /\ pc'[c] = IF todo[c] = {Current(c)} THEN "success" ELSE "prepare_id"
         /\ todo' = [todo EXCEPT ![c] = @ \ {Current(c)}] /\ todo'[c] = todo[c] \ {Current(c)}
BY DEF NextTest, ClosePrint, Goto, netVars, uutVars, TypeOK

\* A client leaves the variables of the others alone.
LEMMA OtherClients ==
  ASSUME TypeOK, NEW c \in Client, NEW d \in Client \ {c}, Main(c)
  PROVE  /\ pc'[d] = pc[d] /\ todo'[d] = todo[d] /\ out_msg'[d] = out_msg[d]
         /\ test_result'[d] = test_result[d] /\ args' = args
<1>t. /\ DOMAIN pc = Client /\ DOMAIN todo = Client /\ DOMAIN out_msg = Client
      /\ DOMAIN test_result = Client
  BY DEF TypeOK
<1>1. CASE Database(c)
  BY <1>t, <1>1, DatabaseStep
<1>2. CASE LoadMessage(c)
  BY <1>t, <1>2, LoadStep
<1>3. CASE Send(c)
  BY <1>t, <1>3, SendStep
<1>4. CASE Receive(c)
  BY <1>t, <1>4, ReceiveStep
<1>5. CASE NextTest(c)
  BY <1>t, <1>5, NextTestStep
<1> QED BY <1>1, <1>2, <1>3, <1>4, <1>5 DEF Main

\* The UUT and the network leave the clients and the database alone.
LEMMA BenchFrame ==
  ASSUME TypeOK, BenchStep, UNCHANGED clientVars
  PROVE  UNCHANGED <<pc, network, args, todo, out_msg, test_result, testLogs, dbWriter, dbReaders, overlapped>>
BY BenchTypeStep, TypeIsBench DEF clientVars

-----------------------------------------------------------------------------
(* Types, and what is left to do *)

Typed ==
  /\ NetTyped /\ DbTyped
  /\ testLogs \in Seq(RowSet)
  /\ pc \in [Client -> Place]
  /\ args \in [Client -> Argument] /\ todo \in [Client -> SUBSET Peripheral]
  /\ out_msg \in [Client -> Message] /\ test_result \in [Client -> Verdict]

\* TypeOK in the form that the steps are proved for.
LEMMA TypedIsTypeOK == (TypeOK => Typed) /\ (Typed' => TypeOK')
<1>1. TypeOK => Typed
  BY TypeIsBench, BenchTyped DEF TypeOK, Typed, Place
<1>2. ASSUME Typed' PROVE TypeOK'
  <2>1. BenchTypeOK'
    BY <1>2, BenchTyped DEF Typed
  <2> QED BY <1>2, <2>1 DEF TypeOK, Typed, Place
<1> QED BY <1>1, <1>2

\* A client's own fields.
LEMMA Fields ==
  ASSUME TypeOK, NEW c \in Client
  PROVE  /\ pc[c] \in Place /\ todo[c] \in SUBSET Peripheral /\ out_msg[c] \in Message
         /\ args[c].want \in SUBSET Peripheral /\ args[c].want # {} /\ args[c].n_iter \in Byte
         /\ args[c].length \in [Communication -> 0..256]
<1>1. pc[c] \in Place /\ todo[c] \in SUBSET Peripheral /\ out_msg[c] \in Message /\ args[c] \in Argument
  BY TypedIsTypeOK DEF Typed
<1> QED BY <1>1, ArgumentAssumption

\* The request that is loaded is a message, its id being a number.
LEMMA LoadedMessage ==
  ASSUME TypeOK, GreatestId, Todo, NEW c \in Client, pc[c] = "step_id"
  PROVE  /\ [client |-> c, test_id |-> NextId, peripheral |-> {Current(c)},
             n_iter |-> args[c].n_iter, p_len |-> Length(c, Current(c))] \in Message
         /\ Current(c) \in todo[c]
<1>1. Current(c) \in todo[c] /\ Current(c) \in Peripheral
  BY Fields, CurrentIsTodo DEF Todo, TodoOf, Active
<1>2. Length(c, Current(c)) \in Byte
  <2>1. CASE Current(c) \in Communication
    <3>1. args[c].length[Current(c)] \in 0..256
      BY <2>1, Fields
    <3> QED BY <2>1, <3>1 DEF Length, Byte
  <2>2. CASE Current(c) \notin Communication
    BY <2>2 DEF Length, Byte
  <2> QED BY <2>1, <2>2
<1> QED BY <1>1, <1>2, Fields, NextIdIsNat, TypeIsBench DEF Message

\* Every step preserves the types.
LEMMA TypeStep == TypeOK /\ GreatestId /\ Todo /\ [Next]_vars => TypeOK'
<1> SUFFICES ASSUME TypeOK, GreatestId, Todo, [Next]_vars PROVE Typed'
  BY TypedIsTypeOK
<1>t. Typed
  BY TypedIsTypeOK
<1>1. CASE BenchStep /\ UNCHANGED clientVars
  <2>1. NetTyped' /\ UNCHANGED <<network, testLogs, dbWriter, dbReaders, overlapped>>
    BY <1>1, BenchTypeStep, TypeIsBench
  <2>2. DbTyped'
    BY <1>t, <2>1 DEF Typed, DbTyped
  <2> QED BY <1>t, <1>1, <2>1, <2>2, BenchFrame DEF Typed
<1>2. ASSUME NEW c \in Client, Database(c) PROVE Typed'
  <2>1. testLogs' \in Seq(RowSet)
    <3>1. testLogs' = testLogs \/ testLogs' = Append(testLogs, Row(c))
      BY <1>2, DatabaseStep
    <3>2. testLogs \in Seq(RowSet)
      BY <1>t DEF Typed
    <3> QED BY <3>1, <3>2, RowTyped, AppendTyped
  <2>2. DbTyped'
    <3>1. /\ dbWriter \in Client \cup {NoClient} /\ dbReaders \subseteq Client
          /\ dbWriter # NoClient => dbReaders = {}
          /\ overlapped \in BOOLEAN
      BY <1>t DEF Typed, DbTyped
    <3>2. overlapped' \in BOOLEAN
      BY <1>2, <3>1, DatabaseStep
    <3>3. /\ dbWriter' \in Client \cup {NoClient} /\ dbReaders' \subseteq Client
          /\ dbWriter' # NoClient => dbReaders' = {}
      BY <1>2, <3>1, DatabaseStep DEF Locked
    <3> QED BY <3>2, <3>3 DEF DbTyped
  <2>3. pc' \in [Client -> Place]
    BY <1>t, <1>2, DatabaseStep DEF Typed
  <2> QED BY <1>t, <1>2, <2>1, <2>2, <2>3, DatabaseStep DEF Typed, NetTyped
<1>3. ASSUME NEW c \in Client, LoadMessage(c) PROVE Typed'
  <2>1. PICK m : /\ m = [client |-> c, test_id |-> NextId, peripheral |-> {Current(c)},
                         n_iter |-> args[c].n_iter, p_len |-> Length(c, Current(c))]
                 /\ out_msg' = [out_msg EXCEPT ![c] = m]
    BY <1>3, LoadStep
  <2>2. m \in Message
    BY <1>3, <2>1, LoadStep, LoadedMessage
  <2>3. out_msg' \in [Client -> Message]
    BY <1>t, <2>1, <2>2 DEF Typed
  <2>4. pc' \in [Client -> Place]
    BY <1>t, <1>3, LoadStep DEF Typed, Place
  <2>5. DbTyped'
    BY <1>t, <1>3, LoadStep DEF Typed, DbTyped, Locked
  <2> QED BY <1>t, <1>3, <2>3, <2>4, <2>5, LoadStep DEF Typed, NetTyped
<1>4. ASSUME NEW c \in Client, Send(c) PROVE Typed'
  <2>1. requests' \subseteq Message
    BY <1>t, <1>4, SendStep DEF Typed, NetTyped
  <2>2. pc' \in [Client -> Place]
    BY <1>t, <1>4, SendStep DEF Typed, Place, Ended
  <2> QED BY <1>t, <1>4, <2>1, <2>2, SendStep DEF Typed, NetTyped, DbTyped
<1>5. ASSUME NEW c \in Client, Receive(c) PROVE Typed'
  <2>1. PICK m \in ToClient(c) : /\ responses' = responses \ {m}
                                 /\ test_result' = [test_result EXCEPT ![c] = m.result]
    BY <1>5, ReceiveStep
  <2>2. m \in AnswerSet
    BY <1>t DEF Typed, NetTyped, ToClient
  <2>3. m.result \in Verdict
    BY <2>2 DEF AnswerSet
  <2>4. responses' \subseteq AnswerSet /\ test_result' \in [Client -> Verdict]
    BY <1>t, <2>1, <2>3 DEF Typed, NetTyped
  <2>5. pc' \in [Client -> Place]
    BY <1>t, <1>5, ReceiveStep DEF Typed, Place
  <2> QED BY <1>t, <1>5, <2>4, <2>5, ReceiveStep DEF Typed, NetTyped, DbTyped
<1>6. ASSUME NEW c \in Client, NextTest(c) PROVE Typed'
  <2>1. todo[c] \in SUBSET Peripheral
    BY Fields
  <2>2. todo' \in [Client -> SUBSET Peripheral]
    BY <1>t, <1>6, <2>1, NextTestStep DEF Typed
  <2>3. pc' \in [Client -> Place]
    BY <1>t, <1>6, NextTestStep DEF Typed, Place, Ended
  <2>4. DbTyped'
    BY <1>t, <1>6, NextTestStep DEF Typed, DbTyped
  <2> QED BY <1>t, <1>6, <2>2, <2>3, <2>4, NextTestStep DEF Typed, NetTyped
<1>7. CASE UNCHANGED vars
  BY <1>t, <1>7 DEF vars, benchVars, netVars, uutVars, dbVars, clientVars, Typed, NetTyped, DbTyped
<1> QED BY <1>1, <1>2, <1>3, <1>4, <1>5, <1>6, <1>7 DEF Next, Main

\* Every step preserves that one of the rows has the greatest id.
LEMMA GreatestStep == TypeOK /\ GreatestId /\ [Next]_vars => GreatestId'
<1> SUFFICES ASSUME TypeOK, GreatestId, [Next]_vars PROVE GreatestId'
  OBVIOUS
<1>1. ASSUME UNCHANGED testLogs PROVE GreatestId'
  BY <1>1 DEF GreatestId
<1>2. ASSUME NEW c \in Client, Database(c) PROVE GreatestId'
  <2>1. testLogs' = testLogs \/ testLogs' = Append(testLogs, Row(c))
    BY <1>2, DatabaseStep
  <2> QED BY <1>1, <2>1, RowTyped, GreatestAppend, TypeIsBench
<1>3. CASE BenchStep /\ UNCHANGED clientVars
  BY <1>1, <1>3, BenchFrame
<1>4. ASSUME NEW c \in Client, Main(c), ~Database(c) PROVE UNCHANGED testLogs
  BY <1>4, LoadStep, SendStep, ReceiveStep, NextTestStep DEF Main
<1> QED BY <1>1, <1>2, <1>3, <1>4 DEF Next, vars, benchVars, dbVars

\* Every step preserves what is left to do.
LEMMA TodoStep == TypeOK /\ GreatestId /\ Todo /\ [Next]_vars => Todo'
<1> SUFFICES ASSUME TypeOK, GreatestId, Todo, [Next]_vars, NEW d \in Client PROVE TodoOf(d)'
  BY DEF Todo
<1>0. TodoOf(d)
  BY DEF Todo
<1>1. ASSUME pc'[d] = pc[d], todo'[d] = todo[d], out_msg'[d] = out_msg[d], args' = args
      PROVE  TodoOf(d)'
  <2>1. Current(d)' = Current(d)
    BY <1>1 DEF Current
  <2> QED BY <1>0, <1>1, <2>1 DEF TodoOf
<1>2. ASSUME (BenchStep /\ UNCHANGED clientVars) \/ UNCHANGED vars PROVE TodoOf(d)'
  BY <1>1, <1>2, BenchFrame DEF vars, clientVars
<1>3. ASSUME NEW c \in Client, Main(c), c # d PROVE TodoOf(d)'
  BY <1>1, <1>3, OtherClients
<1>4. ASSUME args' = args, todo'[d] = todo[d], out_msg'[d] = out_msg[d],
             pc'[d] = "success" => pc[d] = "success",
             pc'[d] \in Active => pc[d] \in Active \cup {"init_db"},
             pc'[d] # "init_db",
             pc'[d] \in Loaded => pc[d] \in Loaded
      PROVE  TodoOf(d)'
  <2>1. Current(d)' = Current(d)
    BY <1>4 DEF Current
  <2> QED BY <1>0, <1>4, <2>1 DEF TodoOf
<1>5. ASSUME Database(d) PROVE TodoOf(d)'
  BY <1>4, <1>5, DatabaseStep DEF Active, Loaded, AfterReceive
<1>6. ASSUME LoadMessage(d) PROVE TodoOf(d)'
  <2>1. /\ out_msg'[d].client = d /\ out_msg'[d].peripheral = {Current(d)}
        /\ pc[d] = "step_id" /\ pc'[d] = "close_id" /\ todo' = todo /\ args' = args
    BY <1>6, LoadStep
  <2>2. Current(d)' = Current(d)
    BY <2>1 DEF Current
  <2> QED BY <1>0, <2>1, <2>2 DEF TodoOf, Active, Loaded, AfterReceive
<1>7. ASSUME Send(d) PROVE TodoOf(d)'
  BY <1>4, <1>7, SendStep DEF Active, Loaded, AfterReceive
<1>8. ASSUME Receive(d) PROVE TodoOf(d)'
  BY <1>4, <1>8, ReceiveStep DEF Active, Loaded, AfterReceive
<1>9. ASSUME NextTest(d) PROVE TodoOf(d)'
  <2>1. /\ pc[d] = "close_print" /\ args' = args /\ out_msg' = out_msg
        /\ pc'[d] = IF todo[d] = {Current(d)} THEN "success" ELSE "prepare_id"
        /\ todo'[d] = todo[d] \ {Current(d)}
    BY <1>9, NextTestStep
  <2>2. todo[d] # {} /\ Current(d) \in todo[d]
    BY <1>0, <2>1, Fields, CurrentIsTodo DEF TodoOf, Active, Loaded, AfterReceive
  <2>3. todo'[d] \subseteq args'[d].want
    BY <1>0, <2>1 DEF TodoOf
  <2>4. IF pc'[d] = "success" THEN todo'[d] = {} ELSE todo'[d] # {}
    <3>1. CASE todo[d] = {Current(d)}
      BY <2>1, <3>1
    <3>2. CASE todo[d] # {Current(d)}
      <4>1. PICK q \in todo[d] : q # Current(d)
        BY <2>2, <3>2
      <4> QED BY <2>1, <3>2, <4>1
    <3> QED BY <3>1, <3>2
  <2> QED BY <1>0, <2>1, <2>3, <2>4 DEF TodoOf, Active, Loaded, AfterReceive
<1> QED BY <1>2, <1>3, <1>5, <1>6, <1>7, <1>8, <1>9 DEF Next, Main

-----------------------------------------------------------------------------
(* One process at a time has the file to itself *)

\* Every step preserves who uses the file.
LEMMA FileStep == TypeOK /\ FileUsed /\ [Next]_vars => FileUsed'
<1> SUFFICES ASSUME TypeOK, FileUsed, [Next]_vars PROVE FileUsed'
  OBVIOUS
<1>0. /\ Locked => dbWriter \in Client /\ pc[dbWriter] = "commit"
      /\ dbReaders \subseteq Client
      /\ \A c \in dbReaders : pc[c] \in {"close_id", "close_print"}
      /\ ~overlapped => \A c, d \in Client : pc[c] \in Active /\ pc[d] \in Active => c = d
      /\ overlapped \in BOOLEAN
  BY TypeIsBench, BenchTyped DEF FileUsed, DbTyped, Locked
\* A step of one client that gives the file back, keeps it, or takes it.
<1>1. ASSUME NEW c \in Client, \A d \in Client \ {c} : pc'[d] = pc[d],
             overlapped' = overlapped,
             pc[c] \in Active \/ pc'[c] \notin Active,
             dbWriter' # NoClient => \/ dbWriter' = c /\ pc'[c] = "commit"
                                     \/ dbWriter' = dbWriter /\ dbWriter # c,
             \A d \in dbReaders' : \/ d = c /\ pc'[c] \in {"close_id", "close_print"}
                                   \/ d \in dbReaders /\ d # c
      PROVE  FileUsed'
  <2>1. Locked' => pc'[dbWriter'] = "commit"
    BY <1>0, <1>1 DEF Locked
  <2>2. \A d \in dbReaders' : pc'[d] \in {"close_id", "close_print"}
    BY <1>0, <1>1
  <2>3. \A d \in Client : pc'[d] \in Active => pc[d] \in Active
    BY <1>1
  <2> QED BY <1>0, <1>1, <2>1, <2>2, <2>3 DEF FileUsed
<1>2. ASSUME UNCHANGED <<pc, dbWriter, dbReaders, overlapped>> PROVE FileUsed'
  BY <1>2 DEF FileUsed, Locked
<1>3. CASE (BenchStep /\ UNCHANGED clientVars) \/ UNCHANGED vars
  BY <1>2, <1>3, BenchFrame DEF vars, benchVars, dbVars
<1>4. ASSUME NEW c \in Client, Main(c), pc[c] # "init_db"
      PROVE  FileUsed'
  <2>1. \A d \in Client \ {c} : pc'[d] = pc[d]
    BY <1>4, OtherClients
  <2>2. pc[c] \in Active
    <3>1. CASE Database(c)
      BY <1>4, <3>1, DatabaseStep DEF Active, Loaded, AfterReceive
    <3> QED BY <1>4, <3>1, LoadStep, SendStep, ReceiveStep, NextTestStep DEF Main, Active, Loaded, AfterReceive
  <2>3. /\ c # NoClient /\ (dbWriter = c => pc[c] = "commit")
        /\ c \in dbReaders => pc[c] \in {"close_id", "close_print"}
    BY <1>0, ClientAssumption DEF Locked
  <2>4. CASE Database(c)
    <3>1. overlapped' = overlapped
      BY <1>4, <2>4, DatabaseStep
    <3>2. dbWriter' # NoClient => \/ dbWriter' = c /\ pc'[c] = "commit"
                                  \/ dbWriter' = dbWriter /\ dbWriter # c
      BY <1>4, <2>3, <2>4, DatabaseStep
    <3>3. \A d \in dbReaders' : \/ d = c /\ pc'[c] \in {"close_id", "close_print"}
                                \/ d \in dbReaders /\ d # c
      BY <1>4, <2>3, <2>4, DatabaseStep
    <3> QED BY <1>1, <2>1, <2>2, <3>1, <3>2, <3>3
  <2>5. CASE LoadMessage(c)
    <3>1. dbWriter' = dbWriter /\ overlapped' = overlapped /\ dbReaders' \subseteq dbReaders \cup {c}
          /\ pc[c] = "step_id" /\ pc'[c] = "close_id"
      BY <2>5, LoadStep
    <3> QED BY <1>1, <2>1, <2>2, <2>3, <3>1
  <2>6. CASE Send(c)
    <3>1. /\ dbWriter' = dbWriter /\ overlapped' = overlapped /\ dbReaders' = dbReaders
          /\ pc[c] = "send"
      BY <2>6, SendStep
    <3> QED BY <1>1, <2>1, <2>2, <2>3, <3>1
  <2>7. CASE Receive(c)
    <3>1. /\ dbWriter' = dbWriter /\ overlapped' = overlapped /\ dbReaders' = dbReaders
          /\ pc[c] = "receive"
      BY <2>7, ReceiveStep
    <3> QED BY <1>1, <2>1, <2>2, <2>3, <3>1
  <2>8. CASE NextTest(c)
    <3>1. /\ dbWriter' = dbWriter /\ overlapped' = overlapped /\ dbReaders' = dbReaders \ {c}
          /\ pc[c] = "close_print"
      BY <2>8, NextTestStep
    <3> QED BY <1>1, <2>1, <2>2, <2>3, <3>1
  <2> QED BY <1>4, <2>4, <2>5, <2>6, <2>7, <2>8 DEF Main
<1>5. ASSUME NEW c \in Client, Main(c), pc[c] = "init_db"
      PROVE  FileUsed'
  <2>1. Database(c)
    BY <1>5, LoadStep, SendStep, ReceiveStep, NextTestStep DEF Main
  <2>2. /\ \A d \in Client \ {c} : pc'[d] = pc[d]
        /\ UNCHANGED <<dbWriter, dbReaders>>
        /\ overlapped' = (overlapped \/ \E d \in Client \ {c} : pc[d] \notin {"init_db"} \cup Ended)
    BY <1>5, <2>1, OtherClients, DatabaseStep
  <2>3. c # dbWriter /\ c \notin dbReaders
    BY <1>0, <1>5, ClientAssumption DEF Locked
  <2>4. Locked' => pc'[dbWriter'] = "commit"
    BY <1>0, <2>2, <2>3 DEF Locked
  <2>5. \A d \in dbReaders' : pc'[d] \in {"close_id", "close_print"}
    BY <1>0, <2>2, <2>3
  <2>6. ASSUME ~overlapped', NEW e \in Client, NEW d \in Client, pc'[e] \in Active, pc'[d] \in Active
        PROVE  e = d
    <3>1. \A f \in Client \ {c} : pc'[f] \notin Active
      BY <2>2, <2>6 DEF Active, Loaded, AfterReceive, Ended
    <3> QED BY <2>6, <3>1
  <2> QED BY <2>4, <2>5, <2>6 DEF FileUsed
<1> QED BY <1>3, <1>4, <1>5 DEF Next

-----------------------------------------------------------------------------
(* While no two processes have overlapped *)

\* The next id is none of a row.
LEMMA NextIdIsNew ==
  ASSUME TypeOK, GreatestId, ~Locked
  PROVE  \A n \in DOMAIN testLogs : testLogs[n].test_id # NextId
<1> SUFFICES ASSUME NEW n \in DOMAIN testLogs PROVE testLogs[n].test_id # NextId
  OBVIOUS
<1>0. \A m \in DOMAIN testLogs : testLogs[m].test_id \in Nat
  BY Rows, TypeIsBench
<1>1. testLogs # << >>
  OBVIOUS
<1>2. PICK k \in DOMAIN testLogs :
        \A m \in DOMAIN testLogs : testLogs[m].test_id <= testLogs[k].test_id
  BY <1>1 DEF GreatestId
<1>3. \E x \in Ids : \A y \in Ids : x >= y
  <2>1. testLogs[k].test_id \in Ids
    BY DEF Ids
  <2>2. \A y \in Ids : testLogs[k].test_id >= y
    BY <1>0, <1>2 DEF Ids
  <2> QED BY <2>1, <2>2
<1>4. Max(Ids) \in Ids /\ \A y \in Ids : Max(Ids) >= y
  BY <1>3 DEF Max
<1>5. testLogs[n].test_id \in Ids
  BY DEF Ids
<1>6. Max(Ids) \in Nat /\ Max(Ids) >= testLogs[n].test_id /\ testLogs[n].test_id \in Nat
  BY <1>0, <1>4, <1>5 DEF Ids
<1>7. NextId = Max(Ids) + 1
  BY <1>1 DEF NextId
<1> QED BY <1>6, <1>7

\* A client that is working with the database has it to itself.
LEMMA Alone ==
  ASSUME TypeOK, FileUsed, ~overlapped, NEW c \in Client, pc[c] \in {"step_id", "step_log"}
  PROVE  ~Locked /\ dbReaders = {}
<1>1. pc[c] \in Active
  BY DEF Active, Loaded, AfterReceive
<1>2. \A d \in Client : pc[d] \in Active => c = d
  BY <1>1 DEF FileUsed
<1>3. Locked => dbWriter \in Client
  BY TypeIsBench, BenchTyped DEF DbTyped, Locked
<1>4. dbReaders \subseteq Client
  BY TypeIsBench, BenchTyped DEF DbTyped
<1>5. ~Locked
  BY <1>2, <1>3 DEF FileUsed, Active, Loaded, AfterReceive
<1>6. \A d \in dbReaders : FALSE
  BY <1>2, <1>4 DEF FileUsed, Active, Loaded, AfterReceive
<1> QED BY <1>5, <1>6

\* The rows stay, so that what is logged stays logged.
LEMMA SequentialFrame ==
  ASSUME TypeOK, NEW d \in Client, NewId(d), LoggedOf(d), UNCHANGED testLogs,
         pc'[d] = pc[d], todo'[d] = todo[d], out_msg'[d] = out_msg[d], args' = args
  PROVE  NewId(d)' /\ LoggedOf(d)'
<1>1. Current(d)' = Current(d)
  BY DEF Current
<1>2. \A p : LoggedFor(d, p)' = LoggedFor(d, p)
  BY DEF LoggedFor
<1> QED BY <1>1, <1>2 DEF NewId, LoggedOf

\* Every step preserves what holds while clients run one after the other: the id stays new until
\* it is inserted, since no one else inserts any.
LEMMA SequentialStep ==
  TypeOK /\ GreatestId /\ Todo /\ FileUsed /\ Sequential /\ [Next]_vars => Sequential'
<1> SUFFICES ASSUME TypeOK, GreatestId, Todo, FileUsed, Sequential, [Next]_vars, ~overlapped'
             PROVE  TestIdIsKey' /\ \A d \in Client : NewId(d)' /\ LoggedOf(d)'
  BY DEF Sequential
<1>o. ~overlapped
  <2>1. ASSUME NEW c \in Client, Database(c) PROVE ~overlapped
    BY <2>1, DatabaseStep
  <2>2. ASSUME NEW c \in Client, Main(c), ~Database(c) PROVE overlapped' = overlapped
    BY <2>2, LoadStep, SendStep, ReceiveStep, NextTestStep DEF Main
  <2> QED BY <2>1, <2>2, BenchFrame DEF Next, vars, benchVars, dbVars
<1>k. TestIdIsKey /\ \A d \in Client : NewId(d) /\ LoggedOf(d)
  BY <1>o DEF Sequential
<1>1. ASSUME UNCHANGED testLogs PROVE TestIdIsKey'
  BY <1>k, <1>1 DEF TestIdIsKey
<1>2. CASE (BenchStep /\ UNCHANGED clientVars) \/ UNCHANGED vars
  <2>1. UNCHANGED <<testLogs, pc, todo, out_msg, args>>
    BY <1>2, BenchFrame DEF vars, benchVars, dbVars, clientVars
  <2> QED BY <1>k, <1>1, <2>1, SequentialFrame
<1>3. ASSUME NEW c \in Client, Main(c), UNCHANGED testLogs, NewId(c)', LoggedOf(c)'
      PROVE  TestIdIsKey' /\ \A d \in Client : NewId(d)' /\ LoggedOf(d)'
  <2>1. ASSUME NEW d \in Client \ {c} PROVE NewId(d)' /\ LoggedOf(d)'
    BY <1>k, <1>3, OtherClients, SequentialFrame
  <2> QED BY <1>1, <1>3, <2>1
\* A step after which the request, the work and the rows are as they were.
<1>4. ASSUME NEW c \in Client, UNCHANGED <<testLogs, args, todo, out_msg>>,
             pc'[c] \in Fresh => pc[c] \in Fresh,
             pc'[c] \in {"init_db", "success"} \cup Active => pc[c] \in {"init_db"} \cup Active,
             pc'[c] \in {"print", "close_print"} => pc[c] \in {"print", "close_print"}
      PROVE  NewId(c)' /\ LoggedOf(c)'
  <2>1. Current(c)' = Current(c)
    BY <1>4 DEF Current
  <2>2. \A p : LoggedFor(c, p)' = LoggedFor(c, p)
    BY <1>4 DEF LoggedFor
  <2> QED BY <1>k, <1>4, <2>1, <2>2 DEF NewId, LoggedOf
<1>5. ASSUME NEW c \in Client, Database(c)
      PROVE  TestIdIsKey' /\ \A d \in Client : NewId(d)' /\ LoggedOf(d)'
  <2>0. Main(c) /\ UNCHANGED <<args, todo, out_msg>>
    BY <1>5, DatabaseStep DEF Main
  <2>1. CASE pc[c] = "commit"
    <3>1. pc'[c] = "print" /\ testLogs' = Append(testLogs, Row(c)) /\ Row(c) \in RowSet
      BY <1>5, <2>1, DatabaseStep, RowTyped
    <3> DEFINE N == Len(testLogs) + 1
    <3>2. /\ \A m \in DOMAIN testLogs : m \in DOMAIN testLogs' /\ testLogs'[m] = testLogs[m]
          /\ testLogs'[N] = Row(c) /\ N \in DOMAIN testLogs'
          /\ \A m \in DOMAIN testLogs' : m \in DOMAIN testLogs \/ m = N
      <4>1. Len(testLogs) \in Nat
        BY Rows, TypeIsBench
      <4> QED BY <3>1, <4>1, AppendedRow, TypeIsBench
    <3> HIDE DEF N
    <3>3. \A m \in DOMAIN testLogs : testLogs[m].test_id # Row(c).test_id
      BY <1>k, <2>1 DEF NewId, Fresh, Row
    <3>4. TestIdIsKey'
      BY <1>k, <3>2, <3>3 DEF TestIdIsKey
    <3>5. \A e \in Client : \A p : LoggedFor(e, p) => LoggedFor(e, p)'
      BY <3>2 DEF LoggedFor
    <3>6. LoggedFor(c, Current(c))'
      <4>1. /\ testLogs'[N].req.client = c /\ testLogs'[N].req.peripheral = {Current(c)}
        BY <2>1, <3>2 DEF Row, Todo, TodoOf, Loaded, AfterReceive
      <4>2. Current(c)' = Current(c)
        BY <2>0 DEF Current
      <4> QED BY <3>2, <4>1, <4>2 DEF LoggedFor
    <3>7. NewId(c)' /\ LoggedOf(c)'
      <4>1. \A p \in args[c].want \ todo[c] : LoggedFor(c, p)
        BY <1>k, <2>1 DEF LoggedOf, Active, Loaded, AfterReceive
      <4> QED BY <2>0, <3>1, <3>5, <3>6, <4>1 DEF NewId, LoggedOf, Fresh
    <3>8. ASSUME NEW d \in Client \ {c} PROVE NewId(d)' /\ LoggedOf(d)'
      <4>1. pc[d] \notin Active
        BY <1>o, <2>1 DEF FileUsed, Active, Loaded, AfterReceive
      <4>2. pc'[d] = pc[d]
        BY <2>0, OtherClients
      <4>3. pc'[d] \notin Fresh /\ pc'[d] \notin {"print", "close_print"}
        BY <4>1, <4>2 DEF Active, Loaded, AfterReceive, Fresh
      <4> QED BY <1>k, <2>0, <3>5, <4>2, <4>3 DEF NewId, LoggedOf
    <3> QED BY <3>4, <3>7, <3>8
  <2>2. CASE pc[c] # "commit"
    <3>1. pc[c] = "step_log" => pc'[c] = "commit"
      BY <1>5, <1>o, DatabaseStep, Alone
    <3>2. /\ UNCHANGED testLogs
          /\ pc'[c] \in Fresh => pc[c] \in Fresh
          /\ pc'[c] \in {"init_db", "success"} \cup Active => pc[c] \in {"init_db"} \cup Active
          /\ pc'[c] \in {"print", "close_print"} => pc[c] \in {"print", "close_print"}
      BY <1>5, <2>2, <3>1, DatabaseStep DEF Fresh, Active, Loaded, AfterReceive
    <3> QED BY <1>3, <1>4, <2>0, <3>2
  <2> QED BY <2>1, <2>2
<1>6. ASSUME NEW c \in Client, LoadMessage(c)
      PROVE  TestIdIsKey' /\ \A d \in Client : NewId(d)' /\ LoggedOf(d)'
  <2>1. /\ UNCHANGED <<testLogs, args, todo>> /\ pc[c] = "step_id" /\ pc'[c] = "close_id"
        /\ out_msg'[c].test_id = NextId
    BY <1>6, LoadStep
  <2>2. NewId(c)'
    BY <1>o, <2>1, Alone, NextIdIsNew DEF NewId
  <2>3. LoggedOf(c)'
    <3>1. \A p : LoggedFor(c, p)' = LoggedFor(c, p)
      BY <2>1 DEF LoggedFor
    <3> QED BY <1>k, <2>1, <3>1 DEF LoggedOf, Active
  <2> QED BY <1>3, <1>6, <2>1, <2>2, <2>3 DEF Main
<1>7. ASSUME NEW c \in Client, Send(c)
      PROVE  TestIdIsKey' /\ \A d \in Client : NewId(d)' /\ LoggedOf(d)'
  <2>1. /\ UNCHANGED <<testLogs, args, todo, out_msg>> /\ pc[c] = "send"
        /\ pc'[c] \in {"receive", "udp_error"}
    BY <1>7, SendStep
  <2> QED BY <1>3, <1>4, <1>7, <2>1 DEF Main, Fresh, Active, Loaded, AfterReceive
<1>8. ASSUME NEW c \in Client, Receive(c)
      PROVE  TestIdIsKey' /\ \A d \in Client : NewId(d)' /\ LoggedOf(d)'
  <2>1. /\ UNCHANGED <<testLogs, args, todo, out_msg>> /\ pc[c] = "receive"
        /\ pc'[c] = "prepare_log"
    BY <1>8, ReceiveStep
  <2> QED BY <1>3, <1>4, <1>8, <2>1 DEF Main, Fresh, Active, Loaded, AfterReceive
<1>9. ASSUME NEW c \in Client, NextTest(c)
      PROVE  TestIdIsKey' /\ \A d \in Client : NewId(d)' /\ LoggedOf(d)'
  <2>1. /\ UNCHANGED <<testLogs, args, out_msg>> /\ pc[c] = "close_print"
        /\ pc'[c] \in {"success", "prepare_id"} /\ todo'[c] = todo[c] \ {Current(c)}
    BY <1>9, NextTestStep
  <2>2. \A p : LoggedFor(c, p)' = LoggedFor(c, p)
    BY <2>1 DEF LoggedFor
  <2>3. \A p \in args[c].want \ todo'[c] : LoggedFor(c, p)
    BY <1>k, <2>1 DEF LoggedOf, Active, Loaded, AfterReceive
  <2>4. NewId(c)' /\ LoggedOf(c)'
    BY <2>1, <2>2, <2>3 DEF NewId, LoggedOf, Fresh
  <2> QED BY <1>3, <1>9, <2>1, <2>4 DEF Main
<1> QED BY <1>2, <1>5, <1>6, <1>7, <1>8, <1>9 DEF Next, Main

-----------------------------------------------------------------------------
(* On a network that duplicates nothing a client takes the answer to its own request *)

\* Present, Past and Expected in the next state, of a request that stays as it is.
PresentNext(r) == r = out_msg'[r.client] /\ pc'[r.client] \notin BeforeSend
PastNext(r) == Wanted(r) \cap todo'[r.client] = {}
ExpectedNext(r) == r = out_msg'[r.client] /\ pc'[r.client] = "receive"
ConcludedNext(r, p) == \E k \in concluded' : k.req = r /\ k.peri = p

\* OneAtATime of the next state, spelled out.
LEMMA NextForms ==
  /\ (\A r \in requests' : ExpectedNext(r) /\ \A n \in DOMAIN accepted' : accepted'[n] # r)
     /\ (\A n \in DOMAIN accepted' :
           /\ PresentNext(accepted'[n]) \/ PastNext(accepted'[n])
           /\ \/ ExpectedNext(accepted'[n])
              \/ \A p \in Wanted(accepted'[n]) : ConcludedNext(accepted'[n], p))
     /\ (\A k \in concluded' : k.peri \in Wanted(k.req) /\ \E n \in DOMAIN accepted' : accepted'[n] = k.req)
     /\ (\A j, k \in concluded' : j.req = k.req /\ j.peri = k.peri => j = k)
     /\ (\A m \in responses' : ExpectedNext(m.req) /\ Verdict3(m) \in concluded' /\ m.copy = 1)
  => OneAtATime'
BY DEF OneAtATime, PresentNext, PastNext, ExpectedNext, ConcludedNext, Present, Past, Expected,
       Uut!Concluded, Verdict3

\* Where the messages of OneAtATime are from.
LEMMA Clients ==
  ASSUME TypeOK
  PROVE  /\ \A r \in requests : r \in Message /\ r.client \in Client
         /\ \A n \in DOMAIN accepted : accepted[n] \in Message /\ accepted[n].client \in Client
         /\ \A m \in responses : m \in AnswerSet /\ m.req.client \in Client
         /\ \A k \in concluded : k \in ConclusionSet /\ k.req.client \in Client
         /\ Len(accepted) \in Nat /\ DOMAIN accepted = 1..Len(accepted)
<1>1. /\ requests \subseteq Message /\ responses \subseteq AnswerSet
      /\ accepted \in Seq(Message) /\ concluded \subseteq ConclusionSet
  BY TypedIsTypeOK DEF Typed, NetTyped
<1>2. \A r \in Message : r.client \in Client
  BY DEF Message
<1>3. \A m \in AnswerSet : m.req \in Message
  BY DEF AnswerSet
<1>4. \A k \in ConclusionSet : k.req \in Message
  BY DEF ConclusionSet
<1>5. Len(accepted) \in Nat /\ DOMAIN accepted = 1..Len(accepted)
      /\ \A n \in DOMAIN accepted : accepted[n] \in Message
  BY <1>1
<1> QED BY <1>1, <1>2, <1>3, <1>4, <1>5

\* The UUT and the network.
LEMMA OneBench ==
  ASSUME TypeOK, OneAtATime, network # "duplicating", BenchStep, UNCHANGED clientVars
  PROVE  OneAtATime'
<1>0. UNCHANGED <<pc, todo, out_msg>>
  BY BenchFrame
<1>1. \A r : /\ PresentNext(r) <=> Present(r)
             /\ PastNext(r) <=> Past(r)
             /\ ExpectedNext(r) <=> Expected(r)
  BY <1>0 DEF PresentNext, PastNext, ExpectedNext, Present, Past, Expected
<1>2. ASSUME requests' \subseteq requests, responses' \subseteq responses, UNCHANGED <<accepted, concluded>>
      PROVE  OneAtATime'
  BY <1>1, <1>2, NextForms DEF OneAtATime, ConcludedNext, Uut!Concluded
<1>3. ASSUME NEW r \in requests, UutReceive(r) PROVE OneAtATime'
  <2>1. requests' = requests \ {r} /\ UNCHANGED <<concluded, responses>>
    BY <1>3 DEF UutReceive, Uut!Accept, uutVars
  <2>2. CASE accepted' = accepted
    BY <1>2, <2>1, <2>2
  <2>3. CASE accepted' = Append(accepted, r)
    <3>1. accepted \in Seq(Message) /\ Len(accepted) \in Nat /\ DOMAIN accepted = 1..Len(accepted)
      BY TypedIsTypeOK DEF Typed, NetTyped
    <3>2. /\ DOMAIN accepted' = 1..Len(accepted) + 1
          /\ \A n \in DOMAIN accepted : n \in DOMAIN accepted' /\ accepted'[n] = accepted[n]
          /\ accepted'[Len(accepted) + 1] = r
          /\ \A n \in DOMAIN accepted' : n \in DOMAIN accepted \/ n = Len(accepted) + 1
      BY <2>3, <3>1
    <3>3. Expected(r)
      BY DEF OneAtATime
    <3>4. Present(r)
      BY <3>3 DEF Expected, Present, BeforeSend
    <3>5. \A q \in requests' : ExpectedNext(q) /\ \A n \in DOMAIN accepted' : accepted'[n] # q
      BY <1>1, <2>1, <3>2 DEF OneAtATime
    <3>6. \A n \in DOMAIN accepted' :
            /\ PresentNext(accepted'[n]) \/ PastNext(accepted'[n])
            /\ \/ ExpectedNext(accepted'[n])
               \/ \A p \in Wanted(accepted'[n]) : ConcludedNext(accepted'[n], p)
      <4> TAKE n \in DOMAIN accepted'
      <4>1. CASE n \in DOMAIN accepted
        BY <1>1, <2>1, <3>2, <4>1 DEF OneAtATime, ConcludedNext, Uut!Concluded
      <4>2. CASE n = Len(accepted) + 1
        BY <1>1, <3>2, <3>3, <3>4, <4>2
      <4> QED BY <3>2, <4>1, <4>2
    <3>7. \A k \in concluded' : k.peri \in Wanted(k.req) /\ \E n \in DOMAIN accepted' : accepted'[n] = k.req
      BY <2>1, <3>2 DEF OneAtATime
    <3>8. \A j, k \in concluded' : j.req = k.req /\ j.peri = k.peri => j = k
      BY <2>1 DEF OneAtATime
    <3>9. \A m \in responses' : ExpectedNext(m.req) /\ Verdict3(m) \in concluded' /\ m.copy = 1
      BY <1>1, <2>1 DEF OneAtATime
    <3> QED BY <3>5, <3>6, <3>7, <3>8, <3>9, NextForms
  <2> QED BY <1>3, <2>2, <2>3 DEF UutReceive, Uut!Accept, uutVars
<1>4. ASSUME NEW n \in DOMAIN accepted, NEW p \in Wanted(accepted[n]), UutRespond(accepted[n], p)
      PROVE  OneAtATime'
  <2>1. PICK v \in Verdict :
          /\ concluded' = concluded \cup {[req |-> accepted[n], peri |-> p, result |-> v]}
          /\ responses' = responses \cup {[req |-> accepted[n], peri |-> p, result |-> v, copy |-> 1]}
    BY <1>4, Responds, TypeIsBench
  <2>2. /\ UNCHANGED <<requests, accepted>>
        /\ \A k \in concluded : ~(k.req = accepted[n] /\ k.peri = p)
    BY <1>4, Responds, TypeIsBench
  <2>3. Expected(accepted[n])
    BY <2>2 DEF OneAtATime, Uut!Concluded
  <2> DEFINE k == [req |-> accepted[n], peri |-> p, result |-> v]
             m == [req |-> accepted[n], peri |-> p, result |-> v, copy |-> 1]
  <2>4. k.req = accepted[n] /\ k.peri = p /\ Verdict3(m) = k /\ m.copy = 1 /\ m.req = accepted[n]
    BY DEF Verdict3
  <2>5. concluded' = concluded \cup {k} /\ responses' = responses \cup {m}
    BY <2>1
  <2> HIDE DEF k, m
  <2>6. \A r \in requests' : ExpectedNext(r) /\ \A i \in DOMAIN accepted' : accepted'[i] # r
    BY <1>1, <2>2 DEF OneAtATime
  <2>7. \A i \in DOMAIN accepted' :
          /\ PresentNext(accepted'[i]) \/ PastNext(accepted'[i])
          /\ \/ ExpectedNext(accepted'[i])
             \/ \A q \in Wanted(accepted'[i]) : ConcludedNext(accepted'[i], q)
    BY <1>1, <2>2, <2>5 DEF OneAtATime, ConcludedNext, Uut!Concluded
  <2>8. \A j \in concluded' : j.peri \in Wanted(j.req) /\ \E i \in DOMAIN accepted' : accepted'[i] = j.req
    BY <2>2, <2>4, <2>5 DEF OneAtATime
  <2>9. \A i, j \in concluded' : i.req = j.req /\ i.peri = j.peri => i = j
    BY <2>2, <2>4, <2>5 DEF OneAtATime
  <2>10. \A j \in responses' : ExpectedNext(j.req) /\ Verdict3(j) \in concluded' /\ j.copy = 1
    BY <1>1, <2>3, <2>4, <2>5 DEF OneAtATime
  <2> QED BY <2>6, <2>7, <2>8, <2>9, <2>10, NextForms
<1>5. ASSUME Lose PROVE OneAtATime'
  <2>1. UNCHANGED <<accepted, concluded>>
    BY <1>5 DEF Lose, uutVars
  <2>2. ASSUME NEW r \in requests, requests' = requests \ {r} /\ UNCHANGED responses
        PROVE  requests' \subseteq requests /\ responses' \subseteq responses
    BY <2>2
  <2>3. ASSUME NEW m \in responses, responses' = responses \ {m} /\ UNCHANGED requests
        PROVE  requests' \subseteq requests /\ responses' \subseteq responses
    BY <2>3
  <2> QED BY <1>2, <1>5, <2>1, <2>2, <2>3 DEF Lose
<1>6. ~Duplicate
  BY DEF Duplicate
<1>7. ASSUME UutStep PROVE OneAtATime'
  BY <1>3, <1>4, <1>7 DEF UutStep
<1> QED BY <1>5, <1>6, <1>7 DEF BenchStep

\* A client that is not waiting has nothing on the network.
LEMMA NothingUnderWay ==
  ASSUME OneAtATime, NEW c \in Client, pc[c] # "receive"
  PROVE  /\ \A r \in requests : r.client # c
         /\ \A m \in responses : m.req.client # c
         /\ \A n \in DOMAIN accepted : accepted[n].client = c =>
              \A p \in Wanted(accepted[n]) : Uut!Concluded(accepted[n], p)
BY DEF OneAtATime, Expected

\* A step of a client that is not waiting, which sends nothing, leaves the others' requests
\* and its own past ones alone.
LEMMA OneFrame ==
  ASSUME TypeOK, OneAtATime, NEW c \in Client, pc[c] # "receive", pc'[c] # "receive",
         UNCHANGED <<requests, responses, accepted, concluded>>,
         \A d \in Client \ {c} : pc'[d] = pc[d] /\ todo'[d] = todo[d] /\ out_msg'[d] = out_msg[d],
         \A n \in DOMAIN accepted : accepted[n].client = c =>
           PresentNext(accepted[n]) \/ PastNext(accepted[n])
  PROVE  OneAtATime'
<1>1. \A r : r.client \in Client \ {c} =>
        /\ PresentNext(r) <=> Present(r)
        /\ PastNext(r) <=> Past(r)
        /\ ExpectedNext(r) <=> Expected(r)
  BY DEF PresentNext, PastNext, ExpectedNext, Present, Past, Expected
<1>2. \A r \in requests' : ExpectedNext(r) /\ \A n \in DOMAIN accepted' : accepted'[n] # r
  BY <1>1, Clients, NothingUnderWay DEF OneAtATime
<1>3. \A n \in DOMAIN accepted' :
        /\ PresentNext(accepted'[n]) \/ PastNext(accepted'[n])
        /\ \/ ExpectedNext(accepted'[n])
           \/ \A p \in Wanted(accepted'[n]) : ConcludedNext(accepted'[n], p)
  <2> SUFFICES ASSUME NEW n \in DOMAIN accepted
               PROVE  /\ PresentNext(accepted[n]) \/ PastNext(accepted[n])
                      /\ \/ ExpectedNext(accepted[n])
                         \/ \A p \in Wanted(accepted[n]) : ConcludedNext(accepted[n], p)
    OBVIOUS
  <2>1. CASE accepted[n].client = c
    BY <2>1, NothingUnderWay DEF ConcludedNext, Uut!Concluded
  <2>2. CASE accepted[n].client # c
    BY <1>1, <2>2, Clients DEF OneAtATime, ConcludedNext, Uut!Concluded
  <2> QED BY <2>1, <2>2
<1>4. \A m \in responses' : ExpectedNext(m.req) /\ Verdict3(m) \in concluded' /\ m.copy = 1
  BY <1>1, Clients, NothingUnderWay DEF OneAtATime
<1>5. /\ \A k \in concluded' : k.peri \in Wanted(k.req) /\ \E n \in DOMAIN accepted' : accepted'[n] = k.req
      /\ \A j, k \in concluded' : j.req = k.req /\ j.peri = k.peri => j = k
  BY DEF OneAtATime
<1> QED BY <1>2, <1>3, <1>4, <1>5, NextForms

\* A result that was concluded stays so.
LEMMA ResultFrame ==
  ASSUME NEW d \in Client, ResultOf(d), concluded \subseteq concluded',
         pc'[d] \in AfterReceive => pc[d] \in AfterReceive,
         todo'[d] = todo[d], out_msg'[d] = out_msg[d], test_result'[d] = test_result[d]
  PROVE  ResultOf(d)'
<1>1. Current(d)' = Current(d)
  BY DEF Current
<1> QED BY <1>1 DEF ResultOf

\* The answer that a client takes is the one to its request.
LEMMA OneReceive ==
  ASSUME TypeOK, Todo, OneAtATime, NEW c \in Client, Receive(c)
  PROVE  OneAtATime' /\ ResultOf(c)'
<1>1. PICK m \in ToClient(c) : responses' = responses \ {m} /\ test_result'[c] = m.result
  BY ReceiveStep
<1>2. /\ UNCHANGED <<requests, accepted, concluded, todo, out_msg>>
      /\ pc[c] = "receive" /\ pc'[c] = "prepare_log"
  BY ReceiveStep
<1>3. m \in responses /\ m.req = out_msg[c] /\ Verdict3(m) \in concluded /\ m \in AnswerSet /\ m.copy = 1
  BY Clients DEF ToClient, OneAtATime, Expected
<1>4. out_msg[c].peripheral = {Current(c)} /\ out_msg[c].client = c
  BY <1>2 DEF Todo, TodoOf, Loaded
<1>5. Verdict3(m).req = m.req /\ Verdict3(m).peri = m.peri
  BY DEF Verdict3
<1>6. m.peri = Current(c)
  <2>1. m.peri \in Wanted(m.req)
    BY <1>3, <1>5 DEF OneAtATime
  <2> QED BY <1>3, <1>4, <2>1 DEF Wanted
<1>7. \A i \in responses : i.req.client = c => i = m
  <2> SUFFICES ASSUME NEW i \in responses, i.req.client = c PROVE i = m
    OBVIOUS
  <2>1. i.req = out_msg[c] /\ Verdict3(i) \in concluded /\ i.copy = 1 /\ i \in AnswerSet
    BY Clients DEF OneAtATime, Expected
  <2>2. Verdict3(i).req = i.req /\ Verdict3(i).peri = i.peri
    BY DEF Verdict3
  <2>3. i.peri = Current(c)
    <3>1. i.peri \in Wanted(i.req)
      BY <2>1, <2>2 DEF OneAtATime
    <3> QED BY <1>4, <2>1, <3>1 DEF Wanted
  <2>4. Verdict3(i) = Verdict3(m)
    BY <1>3, <1>5, <1>6, <2>1, <2>2, <2>3 DEF OneAtATime
  <2>5. i.result = m.result
    BY <2>4 DEF Verdict3
  <2> QED BY <1>3, <1>6, <2>1, <2>3, <2>5 DEF AnswerSet
<1>8. \A r \in requests : r.client # c
  <2> SUFFICES ASSUME NEW r \in requests, r.client = c PROVE FALSE
    OBVIOUS
  <2>1. r = out_msg[c] /\ \A n \in DOMAIN accepted : accepted[n] # r
    BY DEF OneAtATime, Expected
  <2>2. \E n \in DOMAIN accepted : accepted[n] = m.req
    BY <1>3, <1>5 DEF OneAtATime
  <2> QED BY <1>3, <2>1, <2>2
<1>9. \A p \in Wanted(out_msg[c]) : ConcludedNext(out_msg[c], p)
  BY <1>2, <1>3, <1>4, <1>5, <1>6 DEF Wanted, ConcludedNext
<1>10. \A r : r.client \in Client \ {c} =>
         /\ PresentNext(r) <=> Present(r)
         /\ PastNext(r) <=> Past(r)
         /\ ExpectedNext(r) <=> Expected(r)
  <2>1. \A d \in Client \ {c} : pc'[d] = pc[d]
    BY OtherClients DEF Main
  <2> QED BY <1>2, <2>1 DEF PresentNext, PastNext, ExpectedNext, Present, Past, Expected
<1>11. \A r \in requests' : ExpectedNext(r) /\ \A n \in DOMAIN accepted' : accepted'[n] # r
  BY <1>2, <1>8, <1>10, Clients DEF OneAtATime
<1>12. \A n \in DOMAIN accepted' :
         /\ PresentNext(accepted'[n]) \/ PastNext(accepted'[n])
         /\ \/ ExpectedNext(accepted'[n])
            \/ \A p \in Wanted(accepted'[n]) : ConcludedNext(accepted'[n], p)
  <2> SUFFICES ASSUME NEW n \in DOMAIN accepted
               PROVE  /\ PresentNext(accepted[n]) \/ PastNext(accepted[n])
                      /\ \/ ExpectedNext(accepted[n])
                         \/ \A p \in Wanted(accepted[n]) : ConcludedNext(accepted[n], p)
    BY <1>2
  <2>1. CASE accepted[n].client = c
    <3>1. PresentNext(accepted[n]) \/ PastNext(accepted[n])
      BY <1>2, <2>1 DEF OneAtATime, PresentNext, PastNext, Present, Past, BeforeSend
    <3>2. \A p \in Wanted(accepted[n]) : ConcludedNext(accepted[n], p)
      BY <1>2, <1>9, <2>1 DEF OneAtATime, Expected, ConcludedNext, Uut!Concluded
    <3> QED BY <3>1, <3>2
  <2>2. CASE accepted[n].client # c
    BY <1>2, <1>10, <2>2, Clients DEF OneAtATime, ConcludedNext, Uut!Concluded
  <2> QED BY <2>1, <2>2
<1>13. \A i \in responses' : ExpectedNext(i.req) /\ Verdict3(i) \in concluded' /\ i.copy = 1
  BY <1>1, <1>2, <1>7, <1>10, Clients DEF OneAtATime
<1>14. /\ \A k \in concluded' : k.peri \in Wanted(k.req) /\ \E n \in DOMAIN accepted' : accepted'[n] = k.req
       /\ \A j, k \in concluded' : j.req = k.req /\ j.peri = k.peri => j = k
  BY <1>2 DEF OneAtATime
<1>15. OneAtATime'
  BY <1>11, <1>12, <1>13, <1>14, NextForms
<1>16. ResultOf(c)'
  <2>1. Current(c)' = Current(c)
    BY <1>2 DEF Current
  <2> QED BY <1>1, <1>2, <1>3, <1>6, <2>1 DEF ResultOf, Verdict3
<1> QED BY <1>15, <1>16

\* A request is sent when its client has no other, and is none of the past ones.
LEMMA OneSend ==
  ASSUME TypeOK, Todo, OneAtATime, NEW c \in Client, Send(c)
  PROVE  OneAtATime'
<1>1. /\ UNCHANGED <<responses, accepted, concluded, todo, out_msg>>
      /\ pc[c] = "send"
      /\ \/ pc'[c] = "receive" /\ requests' = requests \cup {out_msg[c]}
         \/ pc'[c] = "udp_error" /\ requests' = requests
  BY SendStep
<1>2. \A d \in Client \ {c} : pc'[d] = pc[d]
  BY OtherClients DEF Main
<1>3. \A n \in DOMAIN accepted : accepted[n].client = c => Past(accepted[n])
  BY <1>1 DEF OneAtATime, Present, BeforeSend
<1>4. \A n \in DOMAIN accepted : accepted[n].client = c => PastNext(accepted[n])
  BY <1>1, <1>3 DEF Past, PastNext
<1>5. CASE pc'[c] = "udp_error" /\ requests' = requests
  BY <1>1, <1>2, <1>4, <1>5, OneFrame
<1>6. CASE pc'[c] = "receive" /\ requests' = requests \cup {out_msg[c]}
  <2>1. out_msg[c].client = c /\ out_msg[c].peripheral = {Current(c)} /\ Current(c) \in todo[c]
    BY <1>1, Fields, CurrentIsTodo DEF Todo, TodoOf, Loaded, Active
  <2>2. \A n \in DOMAIN accepted : accepted[n] # out_msg[c]
    BY <1>3, <2>1 DEF Past, Wanted
  <2>3. ExpectedNext(out_msg[c])
    BY <1>1, <1>6, <2>1 DEF ExpectedNext
  <2>4. \A r : r.client \in Client \ {c} =>
          /\ PresentNext(r) <=> Present(r)
          /\ PastNext(r) <=> Past(r)
          /\ ExpectedNext(r) <=> Expected(r)
    BY <1>1, <1>2 DEF PresentNext, PastNext, ExpectedNext, Present, Past, Expected
  <2>5. /\ \A r \in requests : r.client # c
        /\ \A m \in responses : m.req.client # c
        /\ \A n \in DOMAIN accepted : accepted[n].client = c =>
             \A p \in Wanted(accepted[n]) : Uut!Concluded(accepted[n], p)
    BY <1>1, NothingUnderWay
  <2>6. \A r \in requests' : ExpectedNext(r) /\ \A n \in DOMAIN accepted' : accepted'[n] # r
    BY <1>1, <1>6, <2>2, <2>3, <2>4, <2>5, Clients DEF OneAtATime
  <2>7. \A n \in DOMAIN accepted' :
          /\ PresentNext(accepted'[n]) \/ PastNext(accepted'[n])
          /\ \/ ExpectedNext(accepted'[n])
             \/ \A p \in Wanted(accepted'[n]) : ConcludedNext(accepted'[n], p)
    <3> SUFFICES ASSUME NEW n \in DOMAIN accepted
                 PROVE  /\ PresentNext(accepted[n]) \/ PastNext(accepted[n])
                        /\ \/ ExpectedNext(accepted[n])
                           \/ \A p \in Wanted(accepted[n]) : ConcludedNext(accepted[n], p)
      BY <1>1
    <3>1. CASE accepted[n].client = c
      BY <1>1, <1>4, <2>5, <3>1 DEF ConcludedNext, Uut!Concluded
    <3>2. CASE accepted[n].client # c
      BY <1>1, <2>4, <3>2, Clients DEF OneAtATime, ConcludedNext, Uut!Concluded
    <3> QED BY <3>1, <3>2
  <2>8. \A m \in responses' : ExpectedNext(m.req) /\ Verdict3(m) \in concluded' /\ m.copy = 1
    BY <1>1, <2>4, <2>5, Clients DEF OneAtATime
  <2>9. /\ \A k \in concluded' : k.peri \in Wanted(k.req) /\ \E n \in DOMAIN accepted' : accepted'[n] = k.req
        /\ \A j, k \in concluded' : j.req = k.req /\ j.peri = k.peri => j = k
    BY <1>1 DEF OneAtATime
  <2> QED BY <2>6, <2>7, <2>8, <2>9, NextForms
<1> QED BY <1>1, <1>5, <1>6

\* Every step preserves that a client is about one request at a time.
LEMMA AnsweredStep == TypeOK /\ Todo /\ Answered /\ [Next]_vars => Answered'
<1> SUFFICES ASSUME TypeOK, Todo, Answered, [Next]_vars, network' # "duplicating"
             PROVE  OneAtATime' /\ \A d \in Client : ResultOf(d)'
  BY DEF Answered
<1>n. network' = network
  <2>1. ASSUME NEW c \in Client, Main(c) PROVE network' = network
    BY <2>1, DatabaseStep, LoadStep, SendStep, ReceiveStep, NextTestStep DEF Main
  <2> QED BY <2>1, BenchFrame DEF Next, vars, benchVars
<1>0. OneAtATime /\ \A d \in Client : ResultOf(d)
  BY <1>n DEF Answered
<1>1. CASE BenchStep /\ UNCHANGED clientVars
  <2>1. concluded \subseteq concluded'
    <3>1. ASSUME NEW n \in DOMAIN accepted, NEW p \in Wanted(accepted[n]), UutRespond(accepted[n], p)
          PROVE  concluded \subseteq concluded'
      BY <3>1, Responds, TypeIsBench
    <3>2. ASSUME NEW r \in requests, UutReceive(r) PROVE concluded \subseteq concluded'
      BY <3>2 DEF UutReceive, Uut!Accept, uutVars
    <3>3. ASSUME UutStep PROVE concluded \subseteq concluded'
      BY <3>1, <3>2, <3>3 DEF UutStep
    <3> QED BY <1>1, <3>3 DEF BenchStep, Lose, Duplicate, uutVars
  <2> QED BY <1>n, <1>0, <1>1, <2>1, BenchFrame, OneBench, ResultFrame
<1>2. CASE UNCHANGED vars
  <2>1. OneAtATime'
    BY <1>0, <1>2 DEF vars, benchVars, netVars, uutVars, clientVars, OneAtATime, Present, Past, Expected,
                      Uut!Concluded
  <2> QED BY <1>0, <1>2, <2>1, ResultFrame DEF vars, benchVars, uutVars, clientVars
<1>3. ASSUME NEW c \in Client, Main(c), OneAtATime', ResultOf(c)'
      PROVE  OneAtATime' /\ \A d \in Client : ResultOf(d)'
  <2>1. concluded' = concluded
    BY <1>3, DatabaseStep, LoadStep, SendStep, ReceiveStep, NextTestStep DEF Main
  <2>2. ASSUME NEW d \in Client \ {c} PROVE ResultOf(d)'
    BY <1>0, <1>3, <2>1, OtherClients, ResultFrame
  <2> QED BY <1>3, <2>2
<1>4. ASSUME NEW c \in Client, Database(c) PROVE OneAtATime' /\ ResultOf(c)'
  <2>1. /\ UNCHANGED <<requests, responses, accepted, concluded, todo, out_msg, test_result>>
        /\ pc[c] # "receive" /\ pc'[c] # "receive"
        /\ pc[c] \notin BeforeSend => pc'[c] \notin BeforeSend
        /\ pc'[c] \in AfterReceive => pc[c] \in AfterReceive
    BY <1>4, DatabaseStep DEF BeforeSend, AfterReceive
  <2>2. \A d \in Client \ {c} : pc'[d] = pc[d]
    BY <1>4, OtherClients DEF Main
  <2>3. \A n \in DOMAIN accepted : accepted[n].client = c =>
          PresentNext(accepted[n]) \/ PastNext(accepted[n])
    BY <1>0, <2>1 DEF OneAtATime, Present, Past, PresentNext, PastNext
  <2> QED BY <1>0, <2>1, <2>2, <2>3, OneFrame, ResultFrame
<1>5. ASSUME NEW c \in Client, LoadMessage(c) PROVE OneAtATime' /\ ResultOf(c)'
  <2>1. /\ UNCHANGED <<requests, responses, accepted, concluded, todo>>
        /\ pc[c] = "step_id" /\ pc'[c] = "close_id"
    BY <1>5, LoadStep
  <2>2. \A d \in Client \ {c} : pc'[d] = pc[d] /\ out_msg'[d] = out_msg[d]
    BY <1>5, OtherClients DEF Main
  <2>3. \A n \in DOMAIN accepted : accepted[n].client = c => PastNext(accepted[n])
    BY <1>0, <2>1 DEF OneAtATime, Present, Past, PastNext, BeforeSend
  <2> QED BY <1>0, <2>1, <2>2, <2>3, OneFrame DEF ResultOf, AfterReceive
<1>6. ASSUME NEW c \in Client, Send(c) PROVE OneAtATime' /\ ResultOf(c)'
  <2>1. pc'[c] \notin AfterReceive
    BY <1>6, SendStep DEF AfterReceive
  <2> QED BY <1>0, <1>6, <2>1, OneSend DEF ResultOf
<1>7. ASSUME NEW c \in Client, Receive(c) PROVE OneAtATime' /\ ResultOf(c)'
  BY <1>0, <1>7, OneReceive
<1>8. ASSUME NEW c \in Client, NextTest(c) PROVE OneAtATime' /\ ResultOf(c)'
  <2>1. /\ UNCHANGED <<requests, responses, accepted, concluded, out_msg>>
        /\ pc[c] = "close_print" /\ pc'[c] \in {"success", "prepare_id"}
        /\ todo'[c] = todo[c] \ {Current(c)}
    BY <1>8, NextTestStep
  <2>2. \A d \in Client \ {c} : pc'[d] = pc[d] /\ todo'[d] = todo[d]
    BY <1>8, OtherClients DEF Main
  <2>3. out_msg[c].peripheral = {Current(c)}
    BY <2>1 DEF Todo, TodoOf, Loaded, AfterReceive
  <2>4. \A n \in DOMAIN accepted : accepted[n].client = c => PastNext(accepted[n])
    BY <1>0, <2>1, <2>3 DEF OneAtATime, Present, Past, PastNext, Wanted
  <2> QED BY <1>0, <2>1, <2>2, <2>4, OneFrame DEF ResultOf, AfterReceive
<1> QED BY <1>1, <1>2, <1>3, <1>4, <1>5, <1>6, <1>7, <1>8 DEF Next, Main

-----------------------------------------------------------------------------
(* What is logged is true *)

\* Every step preserves that the log is true: the row that is appended says what was concluded.
LEMMA LoggedStep == TypeOK /\ Todo /\ Answered /\ LoggedVerdictTrue /\ [Next]_vars => LoggedVerdictTrue'
<1> SUFFICES ASSUME TypeOK, Todo, Answered, LoggedVerdictTrue, [Next]_vars, network' # "duplicating"
             PROVE  LoggedResultTrue'
  BY DEF LoggedVerdictTrue
<1>n. network' = network
  <2>1. ASSUME NEW c \in Client, Main(c) PROVE network' = network
    BY <2>1, DatabaseStep, LoadStep, SendStep, ReceiveStep, NextTestStep DEF Main
  <2> QED BY <2>1, BenchFrame DEF Next, vars, benchVars
<1>0. LoggedResultTrue /\ BenchTypeOK /\ OneAtATime /\ \A c \in Client : ResultOf(c)
  BY <1>n, TypeIsBench DEF LoggedVerdictTrue, Answered
<1>1. ASSUME UNCHANGED testLogs, BenchStep \/ concluded' = concluded PROVE LoggedResultTrue'
  BY <1>0, <1>1, LoggedStays
<1>2. ASSUME NEW c \in Client, pc[c] = "commit", testLogs' = Append(testLogs, Row(c)), concluded' = concluded
      PROVE  LoggedResultTrue'
  <2> DEFINE k == [req |-> out_msg[c], peri |-> Current(c), result |-> test_result[c]]
  <2>1. k \in concluded
    BY <1>0, <1>2 DEF ResultOf, AfterReceive
  <2>2. Wanted(out_msg[c]) = {Current(c)}
    BY <1>2 DEF Todo, TodoOf, Loaded, AfterReceive, Wanted
  <2>3. Uut!Concluded(out_msg[c], Current(c))
    BY <2>1 DEF Uut!Concluded
  <2>4. test_result[c] = "SUCCESS"
        <=> [req |-> out_msg[c], peri |-> Current(c), result |-> "SUCCESS"] \in concluded
    <3> DEFINE j == [req |-> out_msg[c], peri |-> Current(c), result |-> "SUCCESS"]
    <3>1. j.req = k.req /\ j.peri = k.peri /\ j.result = "SUCCESS" /\ k.result = test_result[c]
      OBVIOUS
    <3>2. test_result[c] = "SUCCESS" => j = k
      OBVIOUS
    <3> HIDE DEF j, k
    <3>3. ASSUME j \in concluded PROVE j = k
      BY <1>0, <2>1, <3>1, <3>3 DEF OneAtATime
    <3>4. test_result[c] = "SUCCESS" <=> j \in concluded
      BY <2>1, <3>1, <3>2, <3>3
    <3> QED BY <3>4 DEF j
  <2>5. Row(c).req = out_msg[c] /\ Row(c).result = (test_result[c] = "SUCCESS")
    BY DEF Row
  <2>6. RowTrue(Row(c))
    BY <2>2, <2>3, <2>4, <2>5 DEF RowTrue
  <2> QED BY <1>0, <1>2, <2>6, RowTyped, LoggedStays
<1>3. ASSUME BenchStep, UNCHANGED clientVars PROVE LoggedResultTrue'
  BY <1>1, <1>3, BenchFrame
<1>4. ASSUME NEW c \in Client, Database(c) PROVE LoggedResultTrue'
  <2>1. concluded' = concluded
    BY <1>4, DatabaseStep
  <2>2. \/ UNCHANGED testLogs
        \/ pc[c] = "commit" /\ testLogs' = Append(testLogs, Row(c))
    BY <1>4, DatabaseStep
  <2> QED BY <1>1, <1>2, <2>1, <2>2
<1>5. ASSUME NEW c \in Client, Main(c), ~Database(c) PROVE LoggedResultTrue'
  <2>1. UNCHANGED testLogs /\ concluded' = concluded
    BY <1>5, LoadStep, SendStep, ReceiveStep, NextTestStep DEF Main
  <2> QED BY <1>1, <2>1
<1>6. ASSUME UNCHANGED vars PROVE LoggedResultTrue'
  BY <1>1, <1>6 DEF vars, benchVars, uutVars, dbVars
<1> QED BY <1>3, <1>4, <1>5, <1>6 DEF Next

-----------------------------------------------------------------------------
(* The theorems *)

\* The invariant holds initially.
LEMMA Initially == Init => IInv
<1> SUFFICES ASSUME Init PROVE IInv
  OBVIOUS
<1> USE DEF Init, BenchInit, DbInit, Uut!Init
<1>a. \A c \in Client : args[c].want \in SUBSET Peripheral /\ args[c].want # {}
  BY ArgumentAssumption
<1>1. TypeOK
  <2>1. \A c \in Client : out_msg[c] \in Message
    BY DEF Message, Byte
  <2>2. out_msg \in [Client -> Message]
    BY <2>1
  <2>3. /\ testLogs \in Seq([test_id : Nat, result : BOOLEAN, req : Message])
        /\ accepted \in Seq(Message)
    OBVIOUS
  <2>4. BenchTypeOK
    BY <2>3 DEF BenchTypeOK, Locked
  <2>5. pc \in [Client -> {"init_db", "prepare_id", "step_id", "close_id", "send", "receive",
                        "prepare_log", "step_log", "commit", "print", "close_print"} \cup Ended]
    OBVIOUS
  <2>6. todo \in [Client -> SUBSET Peripheral]
    BY <1>a
  <2>7. args \in [Client -> Argument] /\ test_result \in [Client -> Verdict]
    BY DEF Verdict
  <2> QED BY <2>2, <2>4, <2>5, <2>6, <2>7 DEF TypeOK
<1>2. GreatestId
  BY DEF GreatestId
<1>3. Todo
  BY <1>a DEF Todo, TodoOf, Loaded, AfterReceive
<1>4. Answered
  BY DEF Answered, OneAtATime, ResultOf, AfterReceive
<1>5. FileUsed
  BY DEF FileUsed, Locked, Active, Loaded, AfterReceive
<1>6. Sequential
  BY DEF Sequential, TestIdIsKey, NewId, LoggedOf, Fresh
<1>7. LoggedVerdictTrue
  BY DEF LoggedVerdictTrue, LoggedResultTrue
<1> QED BY <1>1, <1>2, <1>3, <1>4, <1>5, <1>6, <1>7 DEF IInv

\* The invariant is inductive.
THEOREM Invariance == Spec => []IInv
<1>1. IInv /\ [Next]_vars => IInv'
  BY TypeStep, GreatestStep, TodoStep, AnsweredStep, FileStep, SequentialStep, LoggedStep DEF IInv
<1> QED BY <1>1, Initially, PTL DEF Spec

\* The variables keep their types; in particular get_next_id always finds a number.
THEOREM TypeCorrect == Spec => []TypeOK
<1>1. IInv => TypeOK
  BY DEF IInv
<1> QED BY <1>1, Invariance, PTL

\* What log_test writes is true and stays true on a network that duplicates nothing: the
\* answer that proccess_test takes for its own without a look at the id is the answer to the
\* request it has just sent.
THEOREM LoggedTrue == Spec => []LoggedVerdictTrue
<1>1. IInv => LoggedVerdictTrue
  BY DEF IInv
<1> QED BY <1>1, Invariance, PTL

\* While no two processes have run at the same time, the ids that get_next_id chooses are
\* the key of the table.
THEOREM SequentialKey == Spec => []SequentialIdsAreKey
<1>1. IInv => SequentialIdsAreKey
  BY DEF IInv, Sequential, SequentialIdsAreKey
<1> QED BY <1>1, Invariance, PTL

\* Nor has any of them exited with 0 before each of its tests was in the table.
THEOREM SequentialLogged == Spec => []SequentialSuccessIsLogged
<1>1. IInv => SequentialSuccessIsLogged
  <2> SUFFICES ASSUME IInv, ~overlapped, NEW c \in Client, pc[c] = "success", NEW p \in args[c].want
               PROVE  LoggedFor(c, p)
    BY DEF SequentialSuccessIsLogged, SuccessIsLogged, LoggedFor
  <2>1. todo[c] = {}
    BY DEF IInv, Todo, TodoOf
  <2> QED BY <2>1 DEF IInv, Sequential, LoggedOf
<1> QED BY <1>1, Invariance, PTL

=============================================================================
