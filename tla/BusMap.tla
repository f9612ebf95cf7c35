------------------------------- MODULE BusMap -------------------------------
(***************************************************************************)
(* The address map of the management core's bus: the decoder slave_sel of  *)
(* mgmt_core.v, the regions firmware/mem.h gives to the linker and to C    *)
(* programs, the registers defs.h places at fixed addresses, and the       *)
(* interrupt numbers of soc.h beside the interrupt vector.                 *)
(*                                                                         *)
(* Addresses are word addresses (shared_adr, 30 bits).                     *)
(***************************************************************************)
EXTENDS Integers

Slaves == {"debug", "dff", "dff2", "flash", "mprj", "hk", "csr"}

\* The address bits slave_sel compares: << lowest bit, their value >>.
Decode ==
  [debug |-> << 6, 15732480 >>, dff  |-> << 8, 0 >>,  dff2 |-> << 7, 2 >>,
   flash |-> << 22, 16 >>,      mprj |-> << 26, 3 >>, hk   |-> << 20, 152 >>,
   csr   |-> << 14, 61440 >>]

\* Mutant: one bit too few compared for the first memory.
BugSlaveSelWideDff(s, adr) ==
  LET low == IF s = "dff" THEN 9 ELSE Decode[s][1]
  IN adr \div 2^low = Decode[s][2]

slave_sel(s, adr) == adr \div 2^Decode[s][1] = Decode[s][2]

\* << slave, base, size >>, in words: \h3c000000 is 0xf0000000.
Regions ==
  {<< "debug", \h3c03c000, \h40 >>,
   << "dff",   \h00000000, \h100 >>,
   << "dff2",  \h00000100, \h80 >>,
   << "flash", \h04000000, \h400000 >>,
   << "mprj",  \h0c000000, \h4000000 >>,
   << "hk",    \h09800000, \hc0000 >>,
   << "csr",   \h3c000000, \h4000 >>}

\* reg_rw_block0, reg_rw_block1, reg_ro_block0, reg_la_sample; and reg_debug_1,
\* reg_debug_2.
LeftOverRegs == {\h00400000, \h00440000, \h00800000, \h0940000c}
DebugRegs    == {\h0c03fffe, \h0c03ffff}

\* soc.h: the interrupt number of every bank with an event manager.
SocInterrupt ==
  [timer0 |-> 0, uart |-> 1, user_irq_0 |-> 2, user_irq_1 |-> 3, user_irq_2 |-> 4,
   user_irq_3 |-> 5, user_irq_4 |-> 6, user_irq_5 |-> 7]

\* The banks whose interrupt is bit 0, 1, ... of mgmtsoc_interrupt.
mgmtsoc_interrupt ==
  << "timer0", "uart", "user_irq_0", "user_irq_1", "user_irq_2", "user_irq_3",
     "user_irq_4", "user_irq_5" >>
=============================================================================
