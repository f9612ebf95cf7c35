----------------------------- MODULE MprjFirmware -----------------------------
(***************************************************************************)
(* The pad set-up sequence every test program starts with, run against the *)
(* loader: write reg_mprj_io_<n> for a list of pads, write 1 to            *)
(* reg_mprj_xfer and loop "while (reg_mprj_xfer == 1);".                   *)
(*                                                                         *)
(* All accesses go through the wishbone back door of housekeeping.v, one   *)
(* byte every two clocks and one word every AccessClocks at the earliest.  *)
(* A back-door edge of csclk follows a rising wb_clk_i edge, so the loader *)
(* step of that clock still sees the old registers.                        *)
(***************************************************************************)
EXTENDS GpioLoader, Sequences

CONSTANTS
  FwPrograms,   \* the programs: the pads each configures, in program order
  FwConfig,     \* the configuration they give them
  AccessClocks  \* least number of clocks between two accesses to one byte

ASSUME FirmwareWellTyped ==
  /\ FwPrograms \subseteq Seq(Pads) \ {<< >>}
  /\ FwConfig \in [Pads -> Word]
  /\ AccessClocks \in Nat \ {0, 1, 2}

VARIABLES
  fw_pc,    \* "low", "high": next byte of a reg_mprj_io write; "xfer"; "poll"; "done"
  fw_todo,  \* pads still to be configured
  fw_wait,  \* clocks before the back door can make its next byte access
  fw_read   \* the fields of the last value read from reg_mprj_xfer

fwVars == << fw_pc, fw_todo, fw_wait, fw_read >>

\* The pads counter_la.c, gcd_la.c and counter_wb.c write, in that order.
CounterLaPads == [i \in 1 .. 25 |-> 32 - i] \o << 5, 4, 3, 2, 1, 0, 6 >>
GcdLaPads     == [i \in 1 .. 25 |-> 32 - i] \o << 5, 4, 3, 2, 1, 0, 6 >>
CounterWbPads == [i \in 1 .. 16 |-> 32 - i]


\* Bits of register 8'h13 that can differ while bit-bang mode is off.
ReadCtrl == [busy |-> serial_busy, data_1 |-> serial_data_1,
             data_2 |-> serial_data_2]

FwInit ==
  /\ Init
  /\ fw_pc = "low"
  /\ fw_todo \in FwPrograms
  /\ fw_wait = 0
  /\ fw_read = [busy |-> 0, data_1 |-> 0, data_2 |-> 0]

-----------------------------------------------------------------------------
\* A clock with no csclk edge: the back door is between bytes, or the
\* processor is fetching its next instruction.
FwClock ==
  /\ WbClk
  /\ fw_wait' = IF fw_wait = 0 THEN 0 ELSE fw_wait - 1
  /\ UNCHANGED << fw_pc, fw_todo, fw_read >>

\* reg_mprj_io_<n> = ...: the low byte, two clocks later the high byte.
FwWriteIo ==
  /\ fw_wait = 0
  /\ fw_todo # << >>
  /\ LoaderTick
  /\ gpio_configure' =
       [gpio_configure EXCEPT ![Head(fw_todo)] =
         [i \in 0 .. IoCtrlBits - 1 |-> IF (fw_pc = "low") = (i < LowBits)
                                        THEN FwConfig[Head(fw_todo)][i]
                                        ELSE @[i]]]
  /\ \/ /\ fw_pc = "low"
        /\ fw_pc' = "high"
        /\ fw_wait' = 1
        /\ UNCHANGED fw_todo
     \/ /\ fw_pc = "high"
        /\ fw_todo' = Tail(fw_todo)
        /\ fw_pc' = IF fw_todo' = << >> THEN "xfer" ELSE "low"
        /\ fw_wait' = AccessClocks - 3
  /\ UNCHANGED << ctrl, fw_read >>
  /\ PadEdges

\* reg_mprj_xfer = 1.  All four bytes of the word carry a write strobe.
FwRequest ==
  /\ fw_wait = 0
  /\ fw_pc = "xfer"
  /\ LoaderTick
  /\ ctrl' = [CtrlReset EXCEPT !.xfer = 1]
  /\ fw_pc' = "poll"
  /\ fw_wait' = AccessClocks - 1
  /\ UNCHANGED << gpio_configure, fw_todo, fw_read >>
  /\ PadEdges

\* while (reg_mprj_xfer == 1): a read; its csclk edges carry no write strobe.
FwPoll ==
  /\ fw_wait = 0
  /\ fw_pc = "poll"
  /\ LoaderTick
  /\ ctrl' = [ctrl EXCEPT !.xfer = 0]
  /\ fw_read' = ReadCtrl
  /\ fw_pc' = IF fw_read' = [busy |-> 1, data_1 |-> 0, data_2 |-> 0]
              THEN "poll" ELSE "done"
  /\ fw_wait' = AccessClocks - 1
  /\ UNCHANGED << gpio_configure, fw_todo >>
  /\ PadEdges

FwAccess == FwWriteIo \/ FwRequest \/ FwPoll
FwNext   == FwClock \/ FwAccess

\* The clock runs, and the processor gets to its next access.
FwSpec == /\ FwInit /\ [][FwNext]_<< vars, fwVars >>
          /\ WF_<< vars, fwVars >>(FwClock)
          /\ WF_<< vars, fwVars >>(FwAccess)

-----------------------------------------------------------------------------
PadsConfigured ==
  \A p \in Pads : latched[p] = gpio_configure[p]

\* Bit 0 of register 8'h13 is an honest completion flag: a poll that reads it
\* as 0 finds every pad holding the configuration the program wrote.  It takes
\* the loader to see the request before the first poll and the poll's own
\* clearing of serial_xfer not to lose it.  The loop of the programs compares
\* the whole word and may therefore also leave with the bit set.
BusyBitMeansDone ==
  fw_pc = "done" /\ fw_read.busy = 0 => PadsConfigured

\* The program leaves the loop, and the pads end up as configured.
SetupCompletes ==
  /\ <>(fw_pc = "done")
  /\ <>[]PadsConfigured
=============================================================================
