------------------------------ MODULE MCMtHwTester ------------------------------
(* Small instances of MtHwTester for TLC. *)
EXTENDS MtHwTester

Run(want, n_iter, length) == [want |-> want, n_iter |-> n_iter, length |-> length]

MCPair == Run({"UART", "ADC"}, 1, 10)
MCRejected == Run({"UART"}, 1, 256)
MCArgument == {MCPair, MCRejected}

\* Two clients that meet at every step; where the network misbehaves the request of the second is
\* rejected.  Which of the two it is makes no difference.
MCFirst == CHOOSE c \in Client : TRUE

MCInit ==
  /\ Init
  /\ args[MCFirst] = MCPair
  /\ \A c \in Client \ {MCFirst} : args[c] = MCPair <=> network = "reliable"

MCFairSpec == MCInit /\ [][Next]_vars /\ Fairness
=============================================================================
