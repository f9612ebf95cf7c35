--------------------------- MODULE MCTestPrograms ---------------------------
(***************************************************************************)
(* TestPrograms with four-bit words: every pair of operands as a test of   *)
(* its own, two programs of several tests in the pattern of gcd_la.c (the  *)
(* third and the fifth test expect the same), and texts longer than the    *)
(* FIFO.                                                                   *)
(***************************************************************************)
EXTENDS TestPrograms

MCGcdTests ==
  ({<< << a, b >> >> : a, b \in Words} \ {<< << 0, 0 >> >>})
  \cup {<< << 10, 15 >>, << 9, 12 >>, << 8, 15 >>, << 14, 6 >>, << 7, 13 >> >>,
        << << 13, 8 >>, << 10, 4 >>, << 15, 14 >> >>}

MCTexts == {<< "a", "nl", "b", "a" >>, << "nl", "nl", "a" >>}
=============================================================================
