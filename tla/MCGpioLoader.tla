---------------------------- MODULE MCGpioLoader ----------------------------
(***************************************************************************)
(* A small instance of GpioLoader: one pad per chain, words of two bits,   *)
(* one of them in the high register.  (Module MCMprjFirmware has the real  *)
(* chains.)                                                                *)
(***************************************************************************)
EXTENDS GpioLoader

MCWord(n) == [i \in 0 .. IoCtrlBits - 1 |-> (n \div 2^i) % 2]

\* Distinct reset words, so that a word in the wrong pad shows.
MCResetConfig  == [p \in Pads |-> MCWord(p)]
MCGpioDefaults == [p \in Pads |-> MCWord(3)]

MCCtrl(x, e, r, l, c, d1, d2) ==
  [xfer |-> x, enable |-> e, resetn |-> r, load |-> l, clock |-> c,
   data_1 |-> d1, data_2 |-> d2]

\* Requests only.
MCRequests == {MCCtrl(1, 0, 0, 0, 0, 0, 0)}

\* Requests, bit-bang mode off, and bit-bang mode clocking ones into the
\* chains, strobing the load line and resetting the pads.
MCBitBang ==
  MCRequests \cup {MCCtrl(0, 0, 0, 0, 0, 0, 0), MCCtrl(0, 1, 1, 0, 0, 1, 1),
                   MCCtrl(0, 1, 1, 0, 1, 1, 1), MCCtrl(0, 1, 1, 1, 0, 1, 1),
                   MCCtrl(0, 1, 0, 0, 0, 0, 0)}

\* A bit of pad 0's word, written before, during or after a transfer.
MCConfigWrites == {<< 0, "low", MCWord(1) >>}
=============================================================================
