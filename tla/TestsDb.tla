--------------------------------- MODULE TestsDb ---------------------------------
(***************************************************************************)
(* The tests database that the client processes share: a SQLite file with  *)
(* the table test_logs, and the functions of tests_db.c, each as the steps *)
(* in which it touches the file.                                           *)
(*                                                                         *)
(* SQLite is external.  A process that commits has the file to itself, and *)
(* cannot while another one is between the step and the finalize of a      *)
(* SELECT.  No busy timeout is ever set, so a call that meets a lock fails *)
(* at once.  The table exists already.                                     *)
(***************************************************************************)
EXTENDS Integers, Sequences, FiniteSetsExt

CONSTANTS
  Client,        \* the client processes
  NoClient

ASSUME ClientAssumption == NoClient \notin Client

VARIABLES
  pc,            \* where the main thread of each client is
  testLogs,      \* the rows [test_id, result, req]; req is history: the request they are about
  dbWriter,      \* the client that is committing
  dbReaders,     \* the clients with an open SELECT
  overlapped     \* history: some two processes ran at the same time

dbVars == <<testLogs, dbWriter, dbReaders, overlapped>>

-----------------------------------------------------------------------------
DbInit ==
  /\ testLogs = << >>
  /\ dbWriter = NoClient
  /\ dbReaders = {}
  /\ overlapped = FALSE

Ended == {"success", "sqlite_error", "udp_error"}

Goto(c, l) == pc' = [pc EXCEPT ![c] = l]

Locked == dbWriter # NoClient

\* A call that only reads the file, and whose failure ends the program.
Call(c, from, to) ==
  /\ pc[c] = from
  /\ Goto(c, IF Locked THEN "sqlite_error" ELSE to)
  /\ UNCHANGED dbVars

InitDb(c, from, to) == Call(c, from, to)

\* The same by main, the first thing a process does to the outside.
Start(c, to) ==
  /\ pc[c] = "init_db"
  /\ Goto(c, IF Locked THEN "sqlite_error" ELSE to)
  /\ UNCHANGED <<testLogs, dbWriter, dbReaders>>
  /\ overlapped' = (overlapped \/ \E d \in Client \ {c} : pc[d] \notin {"init_db"} \cup Ended)

\* get_next_id: prepare, step, finalize.
PrepareId(c) == Call(c, "prepare_id", "step_id")

Ids == {testLogs[n].test_id : n \in DOMAIN testLogs}

\* Mutant: the greatest id itself.
LastId == IF Locked \/ testLogs = << >> THEN 0 ELSE Max(Ids)

\* A step that fails is taken for an empty table.
NextId == IF Locked \/ testLogs = << >> THEN 0 ELSE Max(Ids) + 1

StepId(c) ==
  /\ pc[c] = "step_id"
  /\ dbReaders' = IF Locked THEN dbReaders ELSE dbReaders \cup {c}
  /\ Goto(c, "close_id")
  /\ UNCHANGED <<testLogs, dbWriter, overlapped>>

\* Mutant: the SELECT is not finalized.
CloseIdLeaking(c, to) ==
  /\ pc[c] = "close_id"
  /\ Goto(c, to)
  /\ UNCHANGED dbVars

CloseId(c, to) ==
  /\ pc[c] = "close_id"
  /\ dbReaders' = dbReaders \ {c}
  /\ Goto(c, to)
  /\ UNCHANGED <<testLogs, dbWriter, overlapped>>

\* log_test: prepare, step.  A step that fails is reported on stderr and returns success.
PrepareLog(c) == Call(c, "prepare_log", "step_log")

StepLog(c) ==
  /\ pc[c] = "step_log"
  /\ IF Locked \/ dbReaders # {}
       THEN Goto(c, "print") /\ UNCHANGED dbWriter
       ELSE Goto(c, "commit") /\ dbWriter' = c
  /\ UNCHANGED <<testLogs, dbReaders, overlapped>>

CommitLog(c, row) ==
  /\ pc[c] = "commit"
  /\ testLogs' = Append(testLogs, row)
  /\ dbWriter' = NoClient
  /\ Goto(c, "print")
  /\ UNCHANGED <<dbReaders, overlapped>>

\* print_log_by_id, whose result nobody looks at.
StepPrint(c) ==
  /\ pc[c] = "print"
  /\ dbReaders' = IF Locked THEN dbReaders ELSE dbReaders \cup {c}
  /\ Goto(c, "close_print")
  /\ UNCHANGED <<testLogs, dbWriter, overlapped>>

ClosePrint(c, to) ==
  /\ pc[c] = "close_print"
  /\ dbReaders' = dbReaders \ {c}
  /\ Goto(c, to)
  /\ UNCHANGED <<testLogs, dbWriter, overlapped>>

-----------------------------------------------------------------------------
\* The id is the key of the table (single_threaded/README.md:194): no two logged tests
\* share it.
TestIdIsKey ==
  \A m, n \in DOMAIN testLogs : testLogs[m].test_id = testLogs[n].test_id => m = n

\* So it is as long as only one process at a time has used the database: the next id is
\* chosen and stored by the same process (get_next_id, log_test).
SequentialIdsAreKey == ~overlapped => TestIdIsKey
=============================================================================
