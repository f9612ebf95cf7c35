--------------------------- MODULE MCHousekeeping ---------------------------
(***************************************************************************)
(* Housekeeping with an SPI master and a core that meet in the PLL trim    *)
(* word (registers 8'h0d to 8'h10) or in the GPIO data word.               *)
(***************************************************************************)
EXTENDS Housekeeping

MCAccess(adr, we, sel, d) ==
  [adr |-> adr, we |-> we, sel |-> [n \in Lanes |-> sel[n + 1]],
   dat |-> [n \in Lanes |-> (d + n) % 256]]

All    == << 1, 1, 1, 1 >>
Middle == << 0, 1, 1, 0 >>

\* A write command of one byte, to the trim register 8'h0e.
MCWrite   == {136}
MCAddress == {\h0e}
MCData    == {90}

MCTrimRegs     == \h0d .. \h10
MCTrimAccesses == {MCAccess(SpiPage + \h1c, 1, All, 64), MCAccess(SpiPage + \h1c, 0, All, 0),
                   MCAccess(SpiPage + \h1c, 1, Middle, 32)}

\* The GPIO data word.
MCGpioAccesses == {MCAccess(GpioPage + \h0c, 1, All, 64)}
MCNoRegs       == {}
=============================================================================
