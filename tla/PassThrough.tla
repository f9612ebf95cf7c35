----------------------------- MODULE PassThrough -----------------------------
(***************************************************************************)
(* Management pass-through: the SPI pins take over the flash of the core.  *)
(* housekeeping.v switches select and data of the flash with               *)
(* pass_thru_mgmt_delay, one SCK after it began to reset the core, and the *)
(* clock with pass_thru_mgmt, in the middle of a high phase of SCK.        *)
(*                                                                         *)
(* The core's flash controller and the flash itself are outside            *)
(* housekeeping.v: the controller runs a transaction whenever it likes and *)
(* goes idle when the core is reset, before the next SCK edge (several     *)
(* wb_clk_i cycles); the flash shifts a bit in at each rising clock edge   *)
(* while it is selected.                                                   *)
(***************************************************************************)
EXTENDS SpiFrontDoor

VARIABLES
  spimemio_flash_csb, spimemio_flash_clk,  \* the core's flash controller
  fcount, fbyte                            \* bits the flash took since selected

coreVars  == << spimemio_flash_csb, spimemio_flash_clk >>
flashVars == << fcount, fbyte >>
passThruVars == << frontVars, coreVars, flashVars >>

-----------------------------------------------------------------------------
(* The pads of the flash. *)
\* Mutant: the clock of the flash is switched with its select.
BugFlashClkEarly == IF pass_thru_mgmt_delay = 1 THEN SCK ELSE spimemio_flash_clk

\* Mutant: the select of the flash is switched with its clock.
BugFlashCsbLate == IF pass_thru_mgmt = 1 THEN CSB ELSE spimemio_flash_csb

pad_flash_csb == IF pass_thru_mgmt_delay = 1 THEN CSB ELSE spimemio_flash_csb
pad_flash_clk == IF pass_thru_mgmt = 1 THEN SCK ELSE spimemio_flash_clk
pad_flash_io0_do == IF pass_thru_mgmt_delay = 1 THEN SDI ELSE 0

\* SDO pin: the flash's output in pass-through mode; enabled by sdo_enb.
SdoFromFlash == pass_thru_mgmt = 1 /\ sdoenb = 0

\* What the flash does when its pins change.
FlashPins ==
  LET rise == pad_flash_clk = 0 /\ pad_flash_clk' = 1 IN
  IF pad_flash_csb' = 1
  THEN fcount' = 0 /\ fbyte' = 0
  ELSE IF rise /\ pad_flash_csb = 0
  THEN /\ fcount' = (fcount + 1) % 8
       /\ fbyte' = (2 * fbyte + pad_flash_io0_do) % 256
  ELSE UNCHANGED flashVars

CoreIdle == spimemio_flash_csb = 1 /\ spimemio_flash_clk = 0
Resetting == pass_thru_mgmt_reset = 1 /\ ~CoreIdle

PassInit ==
  /\ FrontInit
  /\ spimemio_flash_csb = 1 /\ spimemio_flash_clk = 0
  /\ fcount = 0 /\ fbyte = 0

\* The core reads its flash: select, clock, deselect.
CoreFlash ==
  /\ pass_thru_mgmt_reset = 0
  /\ \/ /\ spimemio_flash_clk = 0
        /\ spimemio_flash_csb' = 1 - spimemio_flash_csb
        /\ UNCHANGED spimemio_flash_clk
     \/ /\ spimemio_flash_csb = 0
        /\ spimemio_flash_clk' = 1 - spimemio_flash_clk
        /\ UNCHANGED spimemio_flash_csb
  /\ UNCHANGED frontVars
  /\ FlashPins

\* The reset of the core takes effect.
CoreStops ==
  /\ Resetting
  /\ spimemio_flash_csb' = 1 /\ spimemio_flash_clk' = 0
  /\ UNCHANGED frontVars
  /\ FlashPins

\* An event on the SPI pins.
SpiPins ==
  /\ ~Resetting
  /\ FrontNext
  /\ UNCHANGED coreVars
  /\ FlashPins

PassNext == CoreFlash \/ CoreStops \/ SpiPins

PassSpec == PassInit /\ [][PassNext]_passThruVars

-----------------------------------------------------------------------------
\* The flash hears exactly the bytes the master sends after the command byte,
\* from the first bit on and aligned to its own selection, whatever the core
\* was doing with the flash before; its answers reach the SDO pin.
FlashHearsMaster ==
  /\ pass_thru_mgmt_delay = 1 /\ pass_thru_mgmt = 0 => fcount = 0
  /\ pass_thru_mgmt = 1 =>
       /\ SCK = 1 => /\ fcount = (mbit + 1) % 8
                     /\ fbyte % 2^(mbit + 1) = mbyte \div 2^(7 - mbit)
       /\ SCK = 0 => fcount = mbit
       /\ SdoFromFlash

\* The core never clocks the flash while the SPI pins hold its select, and the
\* SPI pins never clock it before.
OneFlashOwner ==
  [][pad_flash_clk = 0 /\ pad_flash_clk' = 1 =>
       IF SCK # SCK' THEN pass_thru_mgmt_delay = 1 /\ CoreIdle
                     ELSE pass_thru_mgmt_delay = 0]_passThruVars
=============================================================================
