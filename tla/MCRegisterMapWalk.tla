-------------------------- MODULE MCRegisterMapWalk --------------------------
(***************************************************************************)
(* The words of the bus for RegisterMapWalk: the first WordsPerBank words  *)
(* of every bank of the CSR window, the edges of the regions with their    *)
(* neighbours, and the registers at fixed addresses.                       *)
(***************************************************************************)
EXTENDS RegisterMapWalk

WordsPerBank == 20
CsrWords     == {CsrBase + 512 * b + i : b \in 0 .. 31, i \in 0 .. WordsPerBank - 1}

RegionEdges == {w \in UNION {{r[2] - 1, r[2], r[2] + r[3] - 1, r[2] + r[3]} : r \in Regions} :
                  w >= 0}

MCBusWords == CsrWords \cup RegionEdges \cup LeftOverRegs \cup DebugRegs
=============================================================================
