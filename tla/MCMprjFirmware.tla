--------------------------- MODULE MCMprjFirmware ---------------------------
(***************************************************************************)
(* The set-up sequences of the programs on the real chip: 19 pads per      *)
(* chain, 13 bits per word, its own reset words, defaults and modes.       *)
(***************************************************************************)
EXTENDS MprjFirmware

MCWord(n) == [i \in 0 .. IoCtrlBits - 1 |-> (n \div 2^i) % 2]

MCNoWrites     == {}

\* Reset words of housekeeping.v and defaults of caravel.v.
RealResetConfig ==
  [p \in Pads |-> CASE p < 2 \/ p >= MprjIoPads - 2 -> MCWord(6147)  \* 'h1803
                    [] p = 3                        -> MCWord(2049)  \* 'h0801
                    [] OTHER                        -> MCWord(1027)] \* 'h0403
RealGpioDefaults ==
  [p \in Pads |-> CASE p < 2 -> MCWord(6147)
                    [] p = 3 -> MCWord(2049)
                    [] OTHER -> MCWord(1027)]
\* GPIO_MODE_MGMT_STD_OUTPUT on 31..16 and 6, GPIO_MODE_USER_STD_OUTPUT on the
\* rest below 16.
RealFwConfig ==
  [p \in Pads |-> IF p \in 16 .. 31 \/ p = 6 THEN MCWord(6153)  \* 'h1809
                                             ELSE MCWord(6152)] \* 'h1808
RealPrograms == {CounterLaPads, GcdLaPads, CounterWbPads}
=============================================================================
