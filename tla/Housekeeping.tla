----------------------------- MODULE Housekeeping -----------------------------
(***************************************************************************)
(* housekeeping.v: the register file behind its two doors.  The front door *)
(* is the SPI slave clocked by the pins, the back door the state machine   *)
(* wbbd that turns one wishbone access into four byte accesses, clocked by *)
(* wb_clk_i.  Whichever door holds the mux (wbbd_busy) supplies address,   *)
(* data, strobe and clock (csclk) of the registers.                        *)
(*                                                                         *)
(* One step is one event: a rising edge of wb_clk_i, an edge of SCK or     *)
(* CSB, a new request on the bus.  What an event changes asynchronously    *)
(* (the core reset, the reset of a disabled slave) is a step of its own    *)
(* that must come before the next event.                                   *)
(*                                                                         *)
(* Register 8'h13 belongs to module GpioLoader.  ticks and fd are ghosts:  *)
(* ticks bounds the SPI clock from above, fd holds the registers the front *)
(* door wrote during the back-door access under way.                       *)
(***************************************************************************)
EXTENDS HousekeepingSpi, RegisterMap

CONSTANTS
  Commands, Addresses, DataBytes,  \* bytes the SPI master sends, by role
  Accesses,                        \* wishbone accesses the core makes
  RegAddrs,                        \* the registers that are tracked
  GpioIn,                          \* what the pads read as, per byte
  MinTicks                         \* least wb_clk_i edges between two SCK edges

Lanes  == 0 .. 3
Access == [adr : 0 .. 3 * 256 - 4, we : Bit, sel : [Lanes -> Bit],
           dat : [Lanes -> Byte]]

ASSUME HousekeepingAssumption ==
  /\ Commands \subseteq Byte /\ Commands # {}
  /\ Addresses \subseteq Byte /\ Addresses # {}
  /\ DataBytes \subseteq Byte /\ DataBytes # {}
  /\ Accesses \subseteq Access
  /\ RegAddrs \subseteq {a \in Byte : Width(a) > 0} \ ({\h13} \cup \h6a .. \h6d)
  /\ GpioIn \in Byte
  /\ MinTicks \in Nat

VARIABLES
  SCK, CSB, mbyte, mbit,                                \* the SPI master
  wb_stb, req,                                          \* the wishbone master
  wbbd_state, lane, wbbd_addr, wbbd_data, wbbd_sck, wbbd_write, wbbd_busy,
  wb_ack_o, wb_dat_o,                                   \* the back door
  regs, mgmt_gpio_data, mgmt_gpio_data_buf,             \* the registers
  ticks, fd                                             \* ghosts

masterVars == << SCK, CSB, mbyte, mbit >>
reqVars    == << wb_stb, req >>
wbbdVars   == << wbbd_state, lane, wbbd_addr, wbbd_data, wbbd_sck, wbbd_write,
                 wbbd_busy, wb_ack_o, wb_dat_o >>
fileVars   == << regs, mgmt_gpio_data, mgmt_gpio_data_buf >>
hkVars     == << spiVars, masterVars, reqVars, wbbdVars, fileVars, ticks, fd >>

NoAccess == [adr |-> 0, we |-> 0, sel |-> [n \in Lanes |-> 0],
             dat |-> [n \in Lanes |-> 0]]

-----------------------------------------------------------------------------
(* The wires. *)

\* The master sends mbyte most significant bit first.
SDI == (mbyte \div 2^(7 - mbit)) % 2

Reg(a) == IF a \in RegAddrs THEN regs[a] ELSE RegReset(a)

\* INP_DIS is bit 3 of a pad's word; pad 3 is CSB.
spi_is_enabled == (Reg(ConfigLow(3)) \div 8) % 2 = 0 /\ Reg(\h6f) = 0
spi_is_active  == spi_is_enabled /\ CSB = 0
spi_is_busy    == spi_is_active /\ (rdstb = 1 \/ wrstb = 1)

\* Mutant: pass-through does not reset the core.
BugResetPlain == Reg(\h0b)

reset == IF pass_thru_mgmt_reset = 1 THEN 1 ELSE Reg(\h0b)

\* fdata, by value.
ReadByte(a) == CASE a = \h0b           -> reset
                 [] a \in \h69 .. \h6d -> GpioIn
                 [] OTHER              -> Reg(a)

caddr == IF wbbd_busy = 1 THEN wbbd_addr ELSE oaddr(SDI)
csclk == IF wbbd_busy = 1 THEN wbbd_sck
         ELSE IF spi_is_active THEN SCK ELSE 0

\* Mutant: the registers hear the front door whoever holds the mux.
BugFrontDoorOpen == spi_is_active

\* An edge of SCK is an edge of csclk.
FrontDoorOpen == spi_is_active /\ wbbd_busy = 0

-----------------------------------------------------------------------------
(* A rising edge of csclk with strobe cwstb, address a and data d. *)

GpioLane(a) == \h6d - a

CsclkEdge(cwstb, a, d) ==
  LET write == cwstb = 1
      data  == write /\ a \in \h6a .. \h6d
  IN
  /\ regs' = IF write
             THEN IF a \in RegAddrs THEN [regs EXCEPT ![a] = Kept(a, d)] ELSE regs
             ELSE IF \h0a \in RegAddrs THEN [regs EXCEPT ![\h0a] = 0] ELSE regs
  /\ mgmt_gpio_data' =
       IF data /\ spi_is_active THEN [mgmt_gpio_data EXCEPT ![GpioLane(a)] = d]
       ELSE IF data /\ a = \h6a
       THEN [n \in Lanes |-> IF n = 3 THEN d ELSE mgmt_gpio_data_buf[n]]
       ELSE mgmt_gpio_data
  /\ mgmt_gpio_data_buf' =
       IF data /\ ~spi_is_active /\ a # \h6a
       THEN [mgmt_gpio_data_buf EXCEPT ![GpioLane(a)] = d]
       ELSE mgmt_gpio_data_buf

\* The mux falls back to the front door while SCK is high: csclk rises together
\* with its address, data and strobe, and the RTL leaves open which of the old
\* and the new values the registers see.
GlitchEdge ==
  \E s \in {wbbd_write, wrstb}, a \in {wbbd_addr, oaddr(SDI)},
     d \in {wbbd_data, odata(SDI)} :
    CsclkEdge(s, a, d)

MuxReleased ==
  IF csclk = 0 /\ spi_is_active /\ SCK = 1 THEN GlitchEdge
                                           ELSE UNCHANGED fileVars

-----------------------------------------------------------------------------
HkInit ==
  /\ SpiInit
  /\ SCK = 0 /\ CSB = 1 /\ mbyte = 0 /\ mbit = 0
  /\ wb_stb = 0 /\ req = NoAccess
  /\ wbbd_state = "IDLE" /\ lane = 0
  /\ wbbd_addr = 0 /\ wbbd_data = 0
  /\ wbbd_sck = 0 /\ wbbd_write = 0 /\ wbbd_busy = 0
  /\ wb_ack_o = 0 /\ wb_dat_o = [n \in Lanes |-> 0]
  /\ regs = [a \in RegAddrs |-> RegReset(a)]
  /\ mgmt_gpio_data = [n \in Lanes |-> 0]
  /\ mgmt_gpio_data_buf = [n \in 0 .. 2 |-> 0]
  /\ ticks = 0 /\ fd = {}

(* Asynchronous resets. *)

WbbdReset == << wbbd_state, wbbd_addr, wbbd_data, wbbd_sck, wbbd_write, wbbd_busy,
                wb_ack_o, wb_stb >> = << "IDLE", 0, 0, 0, 0, 0, 0, 0 >>
SpiReset  == << state, count, writemode, readmode, fixed, addr, predata, rdstb,
                wrstb, ldata, sdoenb, passVars >>
             = << "COMMAND", 0, 0, 0, 0, 0, 0, 0, 0, 0, 1, << 0, 0, 0, 0, 0, 0 >> >>

Settled == (reset = 1 => WbbdReset) /\ (~spi_is_enabled => SpiReset)

\* wb_rstn_i falls: the state machine returns to IDLE, and the core, reset by
\* the same wire, drops its request.
CoreReset ==
  /\ reset = 1 /\ ~WbbdReset
  /\ wbbd_state' = "IDLE" /\ lane' = 0
  /\ wbbd_addr' = 0 /\ wbbd_data' = 0
  /\ wbbd_sck' = 0 /\ wbbd_write' = 0 /\ wbbd_busy' = 0
  /\ wb_ack_o' = 0
  /\ wb_stb' = 0 /\ req' = NoAccess
  /\ MuxReleased
  /\ fd' = {}
  /\ UNCHANGED << spiVars, masterVars, wb_dat_o, ticks >>

\* The slave's CSB input is 1 while it is disabled.
SpiDisabled ==
  /\ ~spi_is_enabled /\ ~SpiReset
  /\ CsbReset
  /\ UNCHANGED << masterVars, reqVars, wbbdVars, fileVars, ticks, fd >>

-----------------------------------------------------------------------------
(* wb_clk_i, one action per kind of state of wbbd. *)

WbbdIdle ==
  /\ wbbd_state = "IDLE"
  /\ wbbd_busy' = 0
  /\ IF wb_stb = 1
     THEN wb_ack_o' = 0 /\ wbbd_state' = "SETUP" /\ lane' = 0
     ELSE UNCHANGED << wb_ack_o, wbbd_state, lane >>
  /\ MuxReleased
  /\ fd' = {}
  /\ UNCHANGED << wbbd_addr, wbbd_data, wbbd_sck, wbbd_write, wb_dat_o, reqVars >>

\* WBBD_SETUP0 to WBBD_SETUP3: address, data and strobe of a byte are applied
\* and the mux is taken (busy); the machine goes on to RW or stalls.
ApplyByte(strobe, d, busy, goes) ==
  /\ wbbd_state = "SETUP"
  /\ wbbd_sck' = 0
  /\ wbbd_addr' = spiaddr(req.adr + lane)
  /\ wbbd_data' = IF strobe = 1 THEN d ELSE wbbd_data
  /\ wbbd_write' = strobe
  /\ wbbd_busy' = busy
  /\ wbbd_state' = IF goes THEN "RW" ELSE "SETUP"
  /\ UNCHANGED << lane, wb_ack_o, wb_dat_o, reqVars, fileVars, fd >>

Strobe == IF req.we = 1 THEN req.sel[lane] ELSE 0

\* Mutants: every lane gets the low byte; the mux is taken only at RW; wb_sel_i
\* is ignored; the stall condition is inverted.
BugSetupLowByte  == ApplyByte(Strobe, req.dat[0], 1, ~spi_is_busy)
BugSetupMuxLate  == ApplyByte(Strobe, req.dat[lane], wbbd_busy, ~spi_is_busy)
BugSetupAllLanes == ApplyByte(req.we, req.dat[lane], 1, ~spi_is_busy)
BugSetupInverted == ApplyByte(Strobe, req.dat[lane], 1, spi_is_busy)

\* It stalls while the SPI is about to read or write.
WbbdSetup == ApplyByte(Strobe, req.dat[lane], 1, ~spi_is_busy)

\* WBBD_RW0 to WBBD_RW3: csclk rises.
WbbdRw ==
  /\ wbbd_state = "RW"
  /\ wbbd_busy' = 1
  /\ wbbd_sck' = 1
  /\ wb_dat_o' = [wb_dat_o EXCEPT ![lane] = ReadByte(caddr)]
  /\ IF lane = 3
     THEN wb_ack_o' = 1 /\ wbbd_state' = "DONE" /\ UNCHANGED lane
     ELSE UNCHANGED wb_ack_o /\ wbbd_state' = "SETUP" /\ lane' = lane + 1
  /\ CsclkEdge(wbbd_write, wbbd_addr, wbbd_data)
  /\ UNCHANGED << wbbd_addr, wbbd_data, wbbd_write, reqVars, fd >>

\* WBBD_DONE: the core has seen the acknowledge and ends its cycle.
WbbdDone ==
  /\ wbbd_state = "DONE"
  /\ wbbd_busy' = 1
  /\ wbbd_sck' = 0
  /\ wb_ack_o' = 0
  /\ wbbd_write' = 0
  /\ wbbd_state' = "IDLE"
  /\ wb_stb' = 0 /\ req' = NoAccess
  /\ UNCHANGED << lane, wbbd_addr, wbbd_data, wb_dat_o, fileVars, fd >>

WbTick ==
  /\ Settled
  /\ ticks' = IF ticks = MinTicks THEN ticks ELSE ticks + 1
  /\ WbbdIdle \/ WbbdSetup \/ WbbdRw \/ WbbdDone
  /\ UNCHANGED << spiVars, masterVars >>

\* The core starts an access; it cannot while in reset.
WbIssue(r) ==
  /\ Settled
  /\ reset = 0 /\ wb_stb = 0
  /\ wb_stb' = 1 /\ req' = r
  /\ UNCHANGED << spiVars, masterVars, wbbdVars, fileVars, ticks, fd >>

-----------------------------------------------------------------------------
(* The SPI pins. *)

NextByte == CASE state = "COMMAND" -> Commands
              [] state = "ADDRESS" -> Addresses
              [] OTHER -> DataBytes

CsbFall ==
  /\ Settled
  /\ CSB = 1 /\ SCK = 0
  /\ CSB' = 0
  /\ mbyte' \in Commands /\ mbit' = 0
  /\ ticks' = 0
  /\ UNCHANGED << SCK, spiVars, reqVars, wbbdVars, fileVars, fd >>

CsbRise ==
  /\ Settled
  /\ CSB = 0
  /\ CSB' = 1
  /\ mbyte' = 0 /\ mbit' = 0
  /\ CsbReset
  /\ UNCHANGED << SCK, reqVars, wbbdVars, fileVars, ticks, fd >>

\* The slave takes a bit; csclk rises if the front door holds the mux.
SckRise ==
  /\ Settled
  /\ CSB = 0 /\ SCK = 0 /\ ticks = MinTicks
  /\ SCK' = 1
  /\ ticks' = 0
  /\ IF spi_is_active THEN PosedgeSck(SDI) ELSE UNCHANGED spiVars
  /\ IF FrontDoorOpen
     THEN /\ CsclkEdge(wrstb, oaddr(SDI), odata(SDI))
          /\ fd' = IF wrstb = 1 /\ wbbd_state # "IDLE" THEN fd \cup {oaddr(SDI)} ELSE fd
     ELSE UNCHANGED << fileVars, fd >>
  /\ UNCHANGED << CSB, mbyte, mbit, reqVars, wbbdVars >>

\* The slave loads read data from wherever the address mux points.
SckFall ==
  /\ Settled
  /\ SCK = 1 /\ ticks = MinTicks
  /\ SCK' = 0
  /\ ticks' = 0
  /\ IF spi_is_active THEN NegedgeSck(ReadByte(caddr)) ELSE UNCHANGED spiVars
  /\ IF CSB = 0
     THEN /\ mbit' = (mbit + 1) % 8
          /\ IF mbit = 7 THEN mbyte' \in NextByte ELSE UNCHANGED mbyte
     ELSE UNCHANGED << mbyte, mbit >>
  /\ UNCHANGED << CSB, reqVars, wbbdVars, fileVars, fd >>

-----------------------------------------------------------------------------
Pins == CsbFall \/ CsbRise \/ SckRise \/ SckFall

HkNext == \/ CoreReset \/ SpiDisabled \/ WbTick
          \/ \E r \in Accesses : WbIssue(r)
          \/ Pins

\* wb_clk_i is free-running and resets take effect; nobody has to use the pins
\* or the bus.
HkSpec == HkInit /\ [][HkNext]_hkVars
          /\ WF_hkVars(WbTick) /\ WF_hkVars(CoreReset \/ SpiDisabled)

-----------------------------------------------------------------------------
\* The register behind a lane of the access under way.
LaneReg(n) == spiaddr(req.adr + n)

\* When a write is acknowledged, every selected byte is in its register; irq_spi
\* resets itself.
BackDoorWriteLands ==
  wbbd_state = "DONE" /\ req.we = 1 =>
    \A n \in Lanes :
      req.sel[n] = 1 /\ LaneReg(n) \in RegAddrs \ {\h0a}
        => regs[LaneReg(n)] = Kept(LaneReg(n), req.dat[n])

\* When a read is acknowledged, its four bytes are the registers at one moment:
\* none has changed since its lane was read, although the SPI runs on.  irq_spi
\* resets itself; 8'h0b and 8'h69 do not read as their register.
BackDoorReadsTrue ==
  wbbd_state = "DONE" /\ req.we = 0 =>
    \A n \in Lanes :
      LaneReg(n) \in RegAddrs \ {\h0a, \h0b, \h69}
        => wb_dat_o[n] = regs[LaneReg(n)]

\* The core is reset while the back door applies a byte, by an SPI master that
\* asks for the pass-through: SCK is high, and csclk rises with the mux.
CutByPassThrough ==
  /\ pass_thru_mgmt_reset = 1 /\ state = "COMMAND" /\ SCK = 1
  /\ wbbd_busy = 1 /\ wbbd_sck = 0

\* A register changes only to a byte somebody sent to it: the selected lane of
\* the wishbone write under way, or the whole data byte of an SPI write to its
\* address.  irq_spi may also reset itself, and a pass-through that cuts into
\* an access may leave anything.  (A slave that the core enables again in the
\* middle of a byte counts other bytes than the master sends: no run does that.)
OnlyAskedFor ==
  [][\A a \in RegAddrs : regs'[a] # regs[a] =>
       \/ CutByPassThrough
       \/ a = \h0a /\ regs'[a] = 0
       \/ /\ wbbd_state = "RW" /\ req.we = 1 /\ req.sel[lane] = 1
          /\ LaneReg(lane) = a /\ regs'[a] = Kept(a, req.dat[lane])
       \/ /\ SCK = 0 /\ SCK' = 1 /\ state = "DATA" /\ writemode = 1
          /\ mbit = 7 /\ addr = a /\ regs'[a] = Kept(a, mbyte)]_hkVars

\* The core waits for its acknowledge no longer than the SPI stays busy.
AccessCompletes ==
  []<>(~spi_is_busy) => (wb_stb = 1 ~> wb_stb = 0)

\* While the flash belongs to the SPI pins the back door is shut and the core
\* has no access pending, from the very event at which the flash changes hands:
\* the reset that ends an access under way has always come before.
PassThroughQuiet ==
  pass_thru_mgmt_delay = 1 => wbbd_state = "IDLE" /\ wbbd_busy = 0 /\ wb_stb = 0

\* A reset of the core in the middle of an access gives the mux back at once.
\* It clocks no register, whichever door asked for it, but in one case: the SPI
\* asks for the pass-through while the back door applies a byte.
ResetSparesRegisters ==
  [][reset = 1 /\ ~WbbdReset /\ fileVars' # fileVars => CutByPassThrough]_hkVars

\* "If the SPI is being accessed and about to read or write a byte, then stall
\* until the SPI is ready": the byte the SPI was about to write is written.
FrontDoorWriteLands ==
  [][SCK = 0 /\ SCK' = 1 /\ spi_is_active /\ wrstb = 1 /\ oaddr(SDI) \in RegAddrs
     => regs'[oaddr(SDI)] = Kept(oaddr(SDI), odata(SDI))]_hkVars

\* "This lets all bits update at the same time": an acknowledged write of the
\* whole GPIO data word has set all of its bits.
GpioWriteLands ==
  wbbd_state = "DONE" /\ req.we = 1 /\ req.adr = GpioPage + \h0c
    /\ (\A n \in Lanes : req.sel[n] = 1) /\ fd = {}
    => mgmt_gpio_data = req.dat
=============================================================================
