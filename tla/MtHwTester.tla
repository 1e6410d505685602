-------------------------------- MODULE MtHwTester --------------------------------
(***************************************************************************)
(* mthw_tester, the multithreaded client, from the end of its argument     *)
(* parsing to its exit.  A process sends one request for all peripherals   *)
(* and starts a receiver thread for each; which thread gets which answer   *)
(* is up to the network and the scheduler.  Several processes share the    *)
(* UUT and the database.                                                   *)
(***************************************************************************)
EXTENDS TestBench

\* The command lines a client may be started with: the peripherals, -n, and strlen of the
\* message they share (the default if none is given).
CONSTANT Argument

ASSUME ArgumentAssumption ==
  Argument \subseteq [want : (SUBSET Peripheral) \ {{}}, n_iter : Byte, length : 0..256]

VARIABLES
  args,
  out_msg,
  count,             \* the counter of the loop that main is in
  thread,            \* of each receiver thread: "none", "recv", "post", "exit", "gone"
  results,
  tests_done_sem

clientVars == <<args, out_msg, count, thread, results, tests_done_sem>>
vars == <<benchVars, pc, clientVars>>

N_TESTS == 5
n_threads(c) == Cardinality(args[c].want)
Index == 1..N_TESTS

Init ==
  /\ BenchInit
  /\ args \in [Client -> Argument]
  /\ pc = [c \in Client |-> "init_db"]
  /\ out_msg = [c \in Client |-> [client |-> c, test_id |-> 0, peripheral |-> {},
                                  n_iter |-> 0, p_len |-> 0]]
  /\ count = [c \in Client |-> 0]
  /\ thread = [c \in Client |-> [i \in Index |-> "none"]]
  /\ results = [c \in Client |-> [i \in Index |-> FALSE]]
  /\ tests_done_sem = [c \in Client |-> 0]

-----------------------------------------------------------------------------
(* main and run_parallel_tests *)

AllSuccess(c) == \A i \in 1..n_threads(c) : results[c][i]

\* The steps of tests_db.c, of which only StepId changes anything else: out_msg is loaded.
Database(c) ==
  /\ \/ Start(c, "prepare_id")
     \/ PrepareId(c)
     \/ CloseId(c, "init_db_again")
     \/ InitDb(c, "init_db_again", "send")
     \/ PrepareLog(c)
     \/ StepLog(c)
     \/ CommitLog(c, [test_id |-> out_msg[c].test_id, req |-> out_msg[c],
                      result |-> AllSuccess(c)])
     \/ StepPrint(c)
     \/ ClosePrint(c, "success")
  /\ UNCHANGED <<network, netVars, uutVars, clientVars>>

\* Mutant: strlen itself.
StrLen(c) == args[c].length

\* p_len is a uint8_t.
Length(c) == args[c].length % 256

LoadMessage(c) ==
  /\ StepId(c)
  /\ out_msg' = [out_msg EXCEPT ![c] =
       [client |-> c, test_id |-> NextId, peripheral |-> args[c].want,
        n_iter |-> args[c].n_iter, p_len |-> Length(c)]]
  /\ UNCHANGED <<network, netVars, uutVars, args, count, thread, results, tests_done_sem>>

\* The semaphore is initialised to 0, as it is, before the first thread starts.
Send(c) == SendMessage(c, out_msg[c], "create") /\ UNCHANGED clientVars

\* One round of the loop at from, or its end.
Loop(c, from, to, body) ==
  /\ pc[c] = from
  /\ IF count[c] < n_threads(c)
       THEN /\ body
            /\ count' = [count EXCEPT ![c] = @ + 1]
            /\ UNCHANGED pc
       ELSE /\ count' = [count EXCEPT ![c] = 0]
            /\ Goto(c, to)
            /\ UNCHANGED <<thread, tests_done_sem>>
  /\ UNCHANGED <<network, netVars, uutVars, dbVars, args, out_msg, results>>

Create(c) == Loop(c, "create", "wait",
  /\ thread' = [thread EXCEPT ![c][count[c] + 1] = "recv"]
  /\ UNCHANGED tests_done_sem)

Wait(c) == Loop(c, "wait", "join",
  /\ tests_done_sem[c] > 0
  /\ tests_done_sem' = [tests_done_sem EXCEPT ![c] = @ - 1]
  /\ UNCHANGED thread)

\* Mutant: the threads are not joined.
JoinNot(c) == Loop(c, "join", "prepare_log", UNCHANGED <<thread, tests_done_sem>>)

Join(c) == Loop(c, "join", "prepare_log",
  /\ thread[c][count[c] + 1] = "gone"
  /\ UNCHANGED <<thread, tests_done_sem>>)

Main(c) == \/ Database(c) \/ LoadMessage(c) \/ Send(c)
           \/ Create(c) \/ Wait(c) \/ Join(c)

-----------------------------------------------------------------------------
(* recv_thread *)

\* Mutant: the argument block holds the address of the loop counter.
ReceiveSharedIndex(c, i) ==
  /\ thread[c][i] = "recv"
  /\ \E m \in ToClient(c) :
       /\ responses' = responses \ {m}
       /\ results' = [results EXCEPT ![c][IF count[c] \in Index THEN count[c] ELSE N_TESTS]
                        = (m.result = "SUCCESS")]
  /\ thread' = [thread EXCEPT ![c][i] = "post"]
  /\ UNCHANGED <<network, requests, uutVars, dbVars, pc, args, out_msg, count, tests_done_sem>>

\* The id of the answer is copied and never looked at.
Receive(c, i) ==
  /\ thread[c][i] = "recv"
  /\ \E m \in ToClient(c) :
       /\ responses' = responses \ {m}
       /\ results' = [results EXCEPT ![c][i] = (m.result = "SUCCESS")]
  /\ thread' = [thread EXCEPT ![c][i] = "post"]
  /\ UNCHANGED <<network, requests, uutVars, dbVars, pc, args, out_msg, count, tests_done_sem>>

\* Mutant: only success is posted.
PostSuccess(c, i) ==
  /\ thread[c][i] = "post"
  /\ thread' = [thread EXCEPT ![c][i] = "exit"]
  /\ tests_done_sem' = [tests_done_sem EXCEPT ![c] = IF results[c][i] THEN @ + 1 ELSE @]
  /\ UNCHANGED <<benchVars, pc, args, out_msg, count, results>>

Post(c, i) ==
  /\ thread[c][i] = "post"
  /\ thread' = [thread EXCEPT ![c][i] = "exit"]
  /\ tests_done_sem' = [tests_done_sem EXCEPT ![c] = @ + 1]
  /\ UNCHANGED <<benchVars, pc, args, out_msg, count, results>>

Exit(c, i) ==
  /\ thread[c][i] = "exit"
  /\ thread' = [thread EXCEPT ![c][i] = "gone"]
  /\ UNCHANGED <<benchVars, pc, args, out_msg, count, results, tests_done_sem>>

Receiver(c, i) == Receive(c, i) \/ Post(c, i) \/ Exit(c, i)

-----------------------------------------------------------------------------
Next == \/ BenchStep /\ UNCHANGED clientVars
        \/ \E c \in Client : Main(c) \/ \E i \in Index : Receiver(c, i)

\* The threads run, and the UUT answers what it accepted (EveryRequestConcluded of
\* UutPipeline).  What a lossy network loses is lost.
Fairness == /\ WF_vars(UutStep /\ UNCHANGED clientVars)
            /\ \A c \in Client : /\ WF_vars(Main(c))
                                 /\ \A i \in Index : WF_vars(Receiver(c, i))

Spec == Init /\ [][Next]_vars
FairSpec == Spec /\ Fairness

-----------------------------------------------------------------------------
TypeOK ==
  /\ BenchTypeOK
  /\ pc \in [Client -> {"init_db", "prepare_id", "step_id", "close_id", "init_db_again",
                        "send", "create", "wait", "join", "prepare_log", "step_log",
                        "commit", "print", "close_print"} \cup Ended]
  /\ args \in [Client -> Argument]
  /\ out_msg \in [Client -> Message]
  /\ count \in [Client -> 0..N_TESTS]
  /\ thread \in [Client -> [Index -> {"none", "recv", "post", "exit", "gone"}]]
  /\ results \in [Client -> [Index -> BOOLEAN]]
  /\ tests_done_sem \in [Client -> 0..N_TESTS]

\* When run_parallel_tests goes on to compute the verdict, no thread of it is left, the
\* semaphore is down again, and, on a network that duplicates nothing, no answer to the
\* request will come any more: what it reads from results is final and complete.
Collected ==
  \A c \in Client :
    pc[c] \in {"prepare_log", "step_log", "commit", "print", "close_print", "success"} =>
      /\ \A i \in Index : thread[c][i] \in {"none", "gone"}
      /\ tests_done_sem[c] = 0
      /\ network # "duplicating" => /\ ToClient(c) = {}
                                    /\ \A p \in args[c].want : Uut!Concluded(out_msg[c], p)

Answerable(a) == a.n_iter > 0 /\ a.length % 256 > 0

\* On a network that loses nothing a client whose request is valid comes to an end: there
\* are enough answers for its threads, and enough posts for its waits.
EveryRunEnds ==
  \A c \in Client : network # "lossy" /\ Answerable(args[c]) => <>(pc[c] \in Ended)
=============================================================================
