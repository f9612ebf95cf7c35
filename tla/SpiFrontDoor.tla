---------------------------- MODULE SpiFrontDoor ----------------------------
(***************************************************************************)
(* The housekeeping SPI with its front door only: an SPI master on the     *)
(* pins (mode 0: data changes on the falling edge of SCK) and the          *)
(* registers behind the slave, the wishbone back door staying idle, so     *)
(* that csclk is SCK.  The registers are plain bytes here, as the slave    *)
(* sees them; which bits of a byte a register keeps is in RegisterMap.     *)
(*                                                                         *)
(* The master may raise CSB at any moment, in the middle of a byte too.    *)
(***************************************************************************)
EXTENDS HousekeepingSpi

CONSTANTS
  Commands, Addresses, DataBytes,  \* the bytes the master sends, by role
  RegAddrs                         \* the register addresses that are tracked

ASSUME BytesAssumption ==
  /\ Commands \subseteq Byte /\ Commands # {}
  /\ Addresses \subseteq Byte /\ Addresses # {}
  /\ DataBytes \subseteq Byte /\ DataBytes # {}
  /\ RegAddrs \subseteq Byte

VARIABLES
  SCK, CSB,
  mbyte,  \* the byte the master is sending
  mbit,   \* its bits already sent
  rbyte,  \* the bits the master has sampled on SDO, last eight
  got,    \* the last byte the master read
  mem     \* the registers

masterVars == << SCK, CSB, mbyte, mbit, rbyte, got >>
frontVars  == << spiVars, masterVars, mem >>

\* The bit on the data-in pin: the master sends mbyte MSB first.
SDI == (mbyte \div 2^(7 - mbit)) % 2

\* fdata for the tracked registers.
Peek(a) == IF a \in RegAddrs THEN mem[a] ELSE 0

FrontInit ==
  /\ SpiInit
  /\ SCK = 0 /\ CSB = 1
  /\ mbyte = 0 /\ mbit = 0 /\ rbyte = 0 /\ got = 0
  /\ mem = [a \in RegAddrs |-> 0]

-----------------------------------------------------------------------------
NextByte == CASE state = "COMMAND" -> Commands
              [] state = "ADDRESS" -> Addresses
              [] OTHER -> DataBytes

CsbFall ==
  /\ CSB = 1 /\ SCK = 0
  /\ CSB' = 0
  /\ mbyte' \in Commands /\ mbit' = 0
  /\ UNCHANGED << spiVars, SCK, rbyte, got, mem >>

CsbRise ==
  /\ CSB = 0
  /\ CSB' = 1
  /\ CsbReset
  /\ mbyte' = 0 /\ mbit' = 0
  /\ UNCHANGED << SCK, rbyte, got, mem >>

\* posedge SCK: the slave takes a bit, the master samples SDO, and a register
\* is written when the write strobe is up.
SckRise ==
  /\ CSB = 0 /\ SCK = 0
  /\ SCK' = 1
  /\ PosedgeSck(SDI)
  /\ mem' = IF wrstb = 1 /\ oaddr(SDI) \in RegAddrs
            THEN [mem EXCEPT ![oaddr(SDI)] = odata(SDI)] ELSE mem
  /\ rbyte' = (2 * rbyte + SDO) % 256
  /\ got' = IF state = "DATA" /\ readmode = 1 /\ mbit = 7 /\ sdoenb = 0
            THEN rbyte' ELSE got
  /\ UNCHANGED << CSB, mbyte, mbit >>

SckFall ==
  /\ SCK = 1
  /\ SCK' = 0
  /\ IF CSB = 0
     THEN /\ NegedgeSck(Peek(oaddr(SDI)))
          /\ mbit' = (mbit + 1) % 8
          /\ IF mbit = 7 THEN mbyte' \in NextByte ELSE UNCHANGED mbyte
     ELSE UNCHANGED << spiVars, mbyte, mbit >>
  /\ UNCHANGED << CSB, rbyte, got, mem >>

FrontNext == CsbFall \/ CsbRise \/ SckRise \/ SckFall

FrontSpec == FrontInit /\ [][FrontNext]_frontVars

-----------------------------------------------------------------------------
\* "Signals may only be applied when the core processor is in reset": flash
\* select and clock are handed to the SPI pins only under pass_thru_mgmt_reset,
\* and the two pass-through modes never drive their clocks together.
PassThroughInReset ==
  /\ pass_thru_mgmt = 1 => pass_thru_mgmt_delay = 1
  /\ pass_thru_mgmt_delay = 1 => pass_thru_mgmt_reset = 1
  /\ ~(pass_thru_mgmt = 1 /\ pass_thru_user = 1)

\* The reset begins one SCK before the flash select moves and lasts, without a
\* gap between the pre_ and the _delay bit, until CSB is raised.
ResetHeld ==
  [][/\ pass_thru_mgmt_delay' = 1 => pass_thru_mgmt_reset = 1
     /\ pass_thru_mgmt_delay = 1 /\ CSB' = 0 => pass_thru_mgmt_reset' = 1]_frontVars

\* The inductive invariant behind both: how the three pass-through bits follow
\* the bit count of the command byte.
PassInv ==
  /\ state \in SpiStates /\ count \in 0 .. 7
  /\ pass_thru_mgmt = 1 => state = "MGMTPASS"
  /\ pass_thru_user = 1 => state = "USERPASS"
  /\ state = "MGMTPASS" => pass_thru_mgmt_delay = 1
  /\ state = "COMMAND" =>
       /\ pre_pass_thru_mgmt = 1 => count \in 6 .. 7
       /\ pass_thru_mgmt_delay = 1 <=> count = 7 /\ pre_pass_thru_mgmt = 1
  /\ state \in {"ADDRESS", "DATA", "USERPASS"} =>
       pre_pass_thru_mgmt # 1 /\ pass_thru_mgmt_delay # 1

\* The bit-serial machine implements the byte-level command table.
Bytes == INSTANCE SpiBytes WITH
  phase <- state,
  wmode <- IF state = "COMMAND" THEN 0 ELSE writemode,
  rmode <- IF state = "COMMAND" THEN 0 ELSE readmode,
  left  <- IF state = "COMMAND" THEN 0 ELSE fixed,
  ptr   <- IF state = "DATA" THEN addr ELSE 0

ImplementsBytes == Bytes!BytesSpec
=============================================================================
