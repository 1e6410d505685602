------------------------------- MODULE MCHwTester -------------------------------
(* Small instances of HwTester for TLC. *)
EXTENDS HwTester

Run(want, n_iter, length) ==
  [want |-> want, n_iter |-> n_iter, length |-> [p \in Communication |-> length]]

\* Two clients that meet at every step, one of them possibly with a request that is rejected
\* after one that is not.
MCTwo == { Run({"UART", "SPI"}, 1, 10),
           [Run({"UART", "SPI"}, 1, 10) EXCEPT !.length["SPI"] = 256] }

MCOne == { Run({"UART"}, 1, 10) }
MCNoMessage == { Run({"ADC", "TIM"}, 1, 10) }
=============================================================================
