------------------------------ MODULE MCUutPipeline ------------------------------
(* Small instances of UutPipeline for TLC. *)
EXTENDS UutPipelineInv

Msg(id, peripheral, n_iter, p_len) ==
  [id |-> id, peripheral |-> peripheral, n_iter |-> n_iter, p_len |-> p_len]

\* Two requests for one peripheral, one of them also for another one and one with an unknown
\* bit, and two invalid requests: no payload, and neither a known peripheral nor iterations.
MCMixed == { Msg(1, {"UART", "SPI"}, 2, 1), Msg(2, {"UART", "UNKNOWN"}, 1, 1),
             Msg(3, {"SPI"}, 1, 0), Msg(4, {"UNKNOWN"}, 0, 1) }

\* Enough requests for one peripheral to fill every queue on the way, one of which
\* has a second peripheral behind the one that blocks.
MCJam == { Msg(1, {"UART"}, 1, 1), Msg(2, {"UART", "TIM"}, 1, 1), Msg(3, {"UART"}, 1, 1) }
=============================================================================
