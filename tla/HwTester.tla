--------------------------------- MODULE HwTester ---------------------------------
(***************************************************************************)
(* hw_tester, the single-threaded client, from the end of its argument     *)
(* parsing to its exit.  A process runs the tests it was asked for one     *)
(* after the other: id, request, answer, log.  Several processes share the *)
(* UUT and the database.                                                   *)
(***************************************************************************)
EXTENDS TestBench

\* The command lines a client may be started with: the peripherals, -n, and strlen of the
\* message of each peripheral that takes one.
CONSTANT Argument

Communication == {"UART", "SPI", "I2C"}

ASSUME ArgumentAssumption ==
  Argument \subseteq [want : (SUBSET Peripheral) \ {{}}, n_iter : Byte,
                      length : [Communication -> 0..256]]

VARIABLES
  args,
  todo,          \* the peripherals main has not dealt with yet
  out_msg, test_result

clientVars == <<args, todo, out_msg, test_result>>
vars == <<benchVars, pc, clientVars>>

\* Position of a peripheral in main's chain of ifs.
RunRank == [UART |-> 1, SPI |-> 2, I2C |-> 3, ADC |-> 4, TIM |-> 5]
Current(c) == CHOOSE p \in todo[c] : \A q \in todo[c] : RunRank[p] <= RunRank[q]

\* Mutant: strlen itself.
StrLen(c, p) == IF p \in Communication THEN args[c].length[p] ELSE 0

\* p_len is a uint8_t; ADC and timer tests have the message "".
Length(c, p) == IF p \in Communication THEN args[c].length[p] % 256 ELSE 0

Init ==
  /\ BenchInit
  /\ args \in [Client -> Argument]
  /\ todo = [c \in Client |-> args[c].want]
  /\ pc = [c \in Client |-> "init_db"]
  /\ out_msg = [c \in Client |-> [client |-> c, test_id |-> 0, peripheral |-> {},
                                  n_iter |-> 0, p_len |-> 0]]
  /\ test_result = [c \in Client |-> "FAILED"]

-----------------------------------------------------------------------------
\* The steps of tests_db.c, of which only StepId changes anything else: out_msg is loaded.
Database(c) ==
  /\ \/ Start(c, "prepare_id")
     \/ PrepareId(c)
     \/ CloseId(c, "send")
     \/ PrepareLog(c)
     \/ StepLog(c)
     \/ CommitLog(c, [test_id |-> out_msg[c].test_id, req |-> out_msg[c],
                      result |-> (test_result[c] = "SUCCESS")])
     \/ StepPrint(c)
  /\ UNCHANGED <<network, netVars, uutVars, clientVars>>

LoadMessage(c) ==
  /\ StepId(c)
  /\ out_msg' = [out_msg EXCEPT ![c] =
       [client |-> c, test_id |-> NextId, peripheral |-> {Current(c)},
        n_iter |-> args[c].n_iter, p_len |-> Length(c, Current(c))]]
  /\ UNCHANGED <<network, netVars, uutVars, args, todo, test_result>>

Send(c) == SendMessage(c, out_msg[c], "receive") /\ UNCHANGED clientVars

\* Mutant: a receive timeout, after which the last result is still there.
ReceiveOrTimeout(c) ==
  /\ pc[c] = "receive"
  /\ Goto(c, "prepare_log")
  /\ \/ \E m \in ToClient(c) :
          responses' = responses \ {m} /\ test_result' = [test_result EXCEPT ![c] = m.result]
     \/ UNCHANGED <<responses, test_result>>
  /\ UNCHANGED <<network, requests, uutVars, dbVars, args, todo, out_msg>>

\* The id of the answer is copied and never looked at.
Receive(c) ==
  /\ pc[c] = "receive"
  /\ Goto(c, "prepare_log")
  /\ \E m \in ToClient(c) :
       responses' = responses \ {m} /\ test_result' = [test_result EXCEPT ![c] = m.result]
  /\ UNCHANGED <<network, requests, uutVars, dbVars, args, todo, out_msg>>

NextTest(c) ==
  /\ ClosePrint(c, IF todo[c] = {Current(c)} THEN "success" ELSE "prepare_id")
  /\ todo' = [todo EXCEPT ![c] = @ \ {Current(c)}]
  /\ UNCHANGED <<network, netVars, uutVars, args, out_msg, test_result>>

Main(c) == Database(c) \/ LoadMessage(c) \/ Send(c) \/ Receive(c) \/ NextTest(c)

Next == \/ BenchStep /\ UNCHANGED clientVars
        \/ \E c \in Client : Main(c)

\* The processes run, and the UUT answers what it accepted (EveryRequestConcluded of
\* UutPipeline).  What a lossy network loses is lost.
Fairness == /\ WF_vars(UutStep /\ UNCHANGED clientVars)
            /\ \A c \in Client : WF_vars(Main(c))

Spec == Init /\ [][Next]_vars
FairSpec == Spec /\ Fairness

-----------------------------------------------------------------------------
TypeOK ==
  /\ BenchTypeOK
  /\ pc \in [Client -> {"init_db", "prepare_id", "step_id", "close_id", "send", "receive",
                        "prepare_log", "step_log", "commit", "print", "close_print"}
                       \cup Ended]
  /\ args \in [Client -> Argument]
  /\ todo \in [Client -> SUBSET Peripheral]
  /\ out_msg \in [Client -> Message]
  /\ test_result \in [Client -> Verdict]

\* A client that exits with 0 has logged each test it was asked for
\* (single_threaded/README.md:128: an error has an exit code of its own).
SuccessIsLogged ==
  \A c \in Client : pc[c] = "success" =>
    \A p \in args[c].want :
      \E n \in DOMAIN testLogs :
        testLogs[n].req.client = c /\ testLogs[n].req.peripheral = {p}

\* So it has as long as only one process at a time has used the database: no lock is left
\* over on which the insert of log_test could fail unnoticed.
SequentialSuccessIsLogged == ~overlapped => SuccessIsLogged

\* The command lines whose requests the UUT accepts.
Answerable(a) ==
  /\ a.want \subseteq Communication
  /\ a.n_iter > 0
  /\ \A p \in a.want : a.length[p] % 256 > 0

\* On a network that loses nothing a client whose requests are valid comes to an end: it
\* never waits for an answer that will not come.
EveryRunEnds ==
  \A c \in Client : network # "lossy" /\ Answerable(args[c]) => <>(pc[c] \in Ended)

\* The same of every command line, as the documentation allows it
\* (single_threaded/README.md:121 for the iterations, :150 for ADC and timer).
EveryAllowedRunEnds == \A c \in Client : <>(pc[c] \in Ended)
=============================================================================
