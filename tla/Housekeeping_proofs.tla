-------------------------- MODULE Housekeeping_proofs --------------------------
(***************************************************************************)
(* The register file behind its two doors, for every set of registers, of  *)
(* bus accesses and of bytes an SPI master sends.                          *)
(***************************************************************************)
EXTENDS Housekeeping, TLAPS

-----------------------------------------------------------------------------
(* No two lanes of an access reach the same register. *)

\* The registers that keep bits.
LEMMA TrackedRegisters ==
  ASSUME NEW a \in RegAddrs
  PROVE  a \in \h08 .. \h0b \cup \h0d .. \h12 \cup \h1b .. \h69 \cup \h6e .. \h6f
<1>1. a \in 0 .. 255 /\ a # \h13 /\ a \notin \h6a .. \h6d /\ Width(a) > 0
  BY HousekeepingAssumption DEF HousekeepingAssumption, Byte
<1>2. WriteBits(a) # << >>
  BY <1>1 DEF Width
<1>3. a # \h0c
  <2> SUFFICES ASSUME a = \h0c PROVE FALSE
    OBVIOUS
  <2>1. WriteBits(a) = ClockingWrite(a)
    BY DEF WriteBits, IsConfig
  <2>2. ClockingWrite(a) = << >>
    BY DEF ClockingWrite
  <2> QED
    BY <1>2, <2>1, <2>2
<1>4. a \in \h08 .. \h13 \/ a \in \h1b .. \h6f
  BY <1>1, <1>2 DEF WriteBits, IsConfig
<1> QED
  BY <1>1, <1>3, <1>4

\* The back-door address of a register.
RegAdr(a) ==
  CASE a \in \h08 .. \h0b -> SpiPage + \h0c + 4 * (a - \h08)
    [] a \in \h0d .. \h10 -> SpiPage + \h1c + (a - \h0d)
    [] a = \h11           -> SpiPage + \h20
    [] a = \h12           -> SpiPage + \h24
    [] a = \h1b           -> SysPage + \h04
    [] a = \h1c           -> SysPage + \h0c
    [] a \in \h1d .. \h68 -> \h24 + 4 * ((a - \h1d) \div 2) + (1 - ((a - \h1d) % 2))
    [] a = \h69           -> \h10
    [] a = \h6e           -> \h04
    [] OTHER              -> SysPage + \h10

LEMMA GpioAdr ==
  ASSUME NEW l \in 0 .. 255, GpioSpiaddr(l) \in RegAddrs
  PROVE  l = RegAdr(GpioSpiaddr(l))
<1>1. GpioSpiaddr(l) \in \h08 .. \h0b \cup \h0d .. \h12 \cup \h1b .. \h69 \cup \h6e .. \h6f
  BY TrackedRegisters
<1>2. CASE l \in \h24 .. \hbb
  <2> DEFINE p == (l - \h24) \div 4
  <2>1. p \in 0 .. 37 /\ l - \h24 = 4 * p + (l % 4) /\ l % 4 \in 0 .. 3
    <3>1. l % 4 = (l - \h24) % 4
      BY <1>2
    <3> QED
      BY <1>2, <3>1
  <2> HIDE DEF p
  <2>2. ConfigSpiaddr(l) = IF l % 4 = 0 THEN \h1e + 2 * p
                           ELSE IF l % 4 = 1 THEN \h1d + 2 * p ELSE 0
    BY <2>1 DEF ConfigSpiaddr, ConfigLow, ConfigHigh, p
  <2>3. GpioSpiaddr(l) = ConfigSpiaddr(l)
    BY <1>2 DEF GpioSpiaddr
  <2>4. CASE l % 4 = 0
    BY <2>1, <2>2, <2>3, <2>4 DEF RegAdr
  <2>5. CASE l % 4 = 1
    BY <2>1, <2>2, <2>3, <2>5 DEF RegAdr
  <2>6. CASE l % 4 \in {2, 3}
    BY <1>1, <2>2, <2>3, <2>6
  <2> QED
    BY <2>1, <2>4, <2>5, <2>6
<1>3. CASE l \notin \h24 .. \hbb
  BY <1>1, <1>3 DEF GpioSpiaddr, RegAdr
<1> QED
  BY <1>2, <1>3

LEMMA SpiAdr ==
  ASSUME NEW l \in 0 .. 255, SpiSpiaddr(l) \in RegAddrs
  PROVE  SpiPage + l = RegAdr(SpiSpiaddr(l))
<1>1. SpiSpiaddr(l) \in \h08 .. \h0b \cup \h0d .. \h12 \cup \h1b .. \h69 \cup \h6e .. \h6f
  BY TrackedRegisters
<1>2. CASE l \in {\h0c, \h10, \h14, \h18}
  BY <1>2 DEF SpiSpiaddr, RegAdr, SpiPage
<1>3. CASE l \in \h1c .. \h1f
  BY <1>3 DEF SpiSpiaddr, RegAdr, SpiPage
<1>4. CASE l \in {\h20, \h24}
  BY <1>4 DEF SpiSpiaddr, RegAdr, SpiPage
<1>5. CASE l \notin {\h0c, \h10, \h14, \h18} \cup \h1c .. \h1f \cup {\h20, \h24}
  BY <1>1, <1>5 DEF SpiSpiaddr
<1> QED
  BY <1>2, <1>3, <1>4, <1>5

LEMMA SysAdr ==
  ASSUME NEW l \in 0 .. 255, SysSpiaddr(l) \in RegAddrs
  PROVE  SysPage + l = RegAdr(SysSpiaddr(l))
<1>1. SysSpiaddr(l) \in \h08 .. \h0b \cup \h0d .. \h12 \cup \h1b .. \h69 \cup \h6e .. \h6f
  BY TrackedRegisters
<1> QED
  BY <1>1 DEF SysSpiaddr, RegAdr, SysPage

\* A register is at one address only.
LEMMA OneAddress ==
  ASSUME NEW x \in 0 .. 3 * 256 - 1, spiaddr(x) \in RegAddrs
  PROVE  x = RegAdr(spiaddr(x))
<1>1. /\ x % 256 \in 0 .. 255 /\ x = 256 * (x \div 256) + (x % 256)
      /\ x \div 256 \in 0 .. 2
  OBVIOUS
<1>2. CASE x \div 256 = 0
  BY <1>1, <1>2, GpioAdr DEF spiaddr
<1>3. CASE x \div 256 = 1
  BY <1>1, <1>3, SpiAdr DEF spiaddr, SpiPage
<1>4. CASE x \div 256 = 2
  BY <1>1, <1>4, SysAdr DEF spiaddr, SysPage
<1> QED
  BY <1>1, <1>2, <1>3, <1>4

LEMMA LanesApart ==
  ASSUME req \in Access, NEW n \in Lanes, NEW m \in Lanes,
         LaneReg(n) = LaneReg(m), LaneReg(n) \in RegAddrs
  PROVE  n = m
<1> DEFINE a == req.adr
<1>0. a \in 0 .. 3 * 256 - 4 /\ n \in 0 .. 3 /\ m \in 0 .. 3
  BY DEF Access, Lanes
<1> HIDE DEF a
<1>1. a + n \in 0 .. 3 * 256 - 1 /\ a + m \in 0 .. 3 * 256 - 1 /\ a \in Int
  BY <1>0
<1>2. a + n = a + m
  BY <1>1, OneAddress DEF LaneReg, a
<1> QED
  BY <1>0, <1>1, <1>2
-----------------------------------------------------------------------------
(* The back door between two clocks: an access under way is the one on the *)
(* bus, the mux is held from its first byte on, and the lanes behind it    *)
(* have been moved.  The SPI may do what it likes meanwhile.               *)

WbbdShape ==
  /\ wbbd_state \in {"IDLE", "SETUP", "RW", "DONE"} /\ lane \in Lanes
  /\ wb_stb = 1 => req \in Accesses
  /\ wbbd_state # "IDLE" => wb_stb = 1
  /\ DOMAIN regs = RegAddrs /\ DOMAIN wb_dat_o = Lanes

MuxHeld ==
  wbbd_state \in {"RW", "DONE"} \/ (wbbd_state = "SETUP" /\ lane > 0) => wbbd_busy = 1

ByteApplied ==
  wbbd_state = "RW" =>
    /\ wbbd_addr = LaneReg(lane)
    /\ wbbd_write = Strobe
    /\ Strobe = 1 => wbbd_data = req.dat[lane]

LanesDone == IF wbbd_state = "DONE" THEN Lanes
             ELSE IF wbbd_state = "IDLE" THEN {} ELSE {n \in Lanes : n < lane}

LanesWritten ==
  req.we = 1 =>
    \A n \in LanesDone : req.sel[n] = 1 /\ LaneReg(n) \in RegAddrs \ {\h0a} =>
      regs[LaneReg(n)] = Kept(LaneReg(n), req.dat[n])

LanesRead ==
  req.we = 0 =>
    \A n \in LanesDone : LaneReg(n) \in RegAddrs \ {\h0a, \h0b, \h69} =>
      wb_dat_o[n] = regs[LaneReg(n)]

BackDoorInv == WbbdShape /\ MuxHeld /\ ByteApplied /\ LanesWritten /\ LanesRead

LEMMA BackDoorInit ==
  ASSUME HkInit PROVE BackDoorInv
<1>1. DOMAIN regs = RegAddrs /\ DOMAIN wb_dat_o = Lanes
  BY DEF HkInit
<1> QED
  BY <1>1 DEF HkInit, BackDoorInv, WbbdShape, MuxHeld, ByteApplied, LanesWritten,
              LanesRead, LanesDone, Lanes

\* A rising edge of csclk changes a register only by writing it, but for irq_spi.
LEMMA EdgeWrites ==
  ASSUME NEW s, NEW a, NEW d, CsclkEdge(s, a, d), DOMAIN regs = RegAddrs
  PROVE  /\ DOMAIN regs' = RegAddrs
         /\ \A b \in RegAddrs \ {\h0a} :
              regs'[b] = IF s = 1 /\ b = a THEN Kept(a, d) ELSE regs[b]
         /\ s = 1 => \A b \in RegAddrs :
              regs'[b] = IF b = a THEN Kept(a, d) ELSE regs[b]
         /\ s # 1 => \A b \in RegAddrs : regs'[b] # regs[b] => b = \h0a /\ regs'[b] = 0
  BY DEF CsclkEdge

\* Releasing the mux is an edge of csclk, or none.
LEMMA ReleaseShape ==
  ASSUME MuxReleased, DOMAIN regs = RegAddrs
  PROVE  DOMAIN regs' = RegAddrs
  BY EdgeWrites DEF MuxReleased, GlitchEdge, fileVars

\* Nothing of an access is undone while the back door rests.
LEMMA BackDoorRests ==
  ASSUME BackDoorInv, UNCHANGED << wbbd_state, lane, wbbd_addr, wbbd_data, wbbd_write,
                                   wbbd_busy, wb_dat_o, reqVars, regs >>
  PROVE  BackDoorInv'
  BY DEF BackDoorInv, WbbdShape, MuxHeld, ByteApplied, LanesWritten, LanesRead, LanesDone,
         LaneReg, Strobe, reqVars

\* In IDLE no lane has been moved.
LEMMA BackDoorIdles ==
  ASSUME wbbd_state' = "IDLE", lane' \in Lanes, wb_stb' = 1 => req' \in Accesses,
         DOMAIN regs' = RegAddrs, DOMAIN wb_dat_o' = Lanes
  PROVE  BackDoorInv'
  BY DEF BackDoorInv, WbbdShape, MuxHeld, ByteApplied, LanesWritten, LanesRead, LanesDone

LEMMA IdleStep ==
  ASSUME BackDoorInv, WbbdIdle PROVE BackDoorInv'
<1>1. /\ DOMAIN regs' = RegAddrs /\ DOMAIN wb_dat_o' = Lanes /\ lane \in Lanes
      /\ UNCHANGED reqVars /\ (wb_stb = 1 => req \in Accesses)
  BY ReleaseShape DEF BackDoorInv, WbbdShape, WbbdIdle
<1>2. CASE wb_stb = 1
  <2>1. wbbd_state' = "SETUP" /\ lane' = 0
    BY <1>2 DEF WbbdIdle
  <2>2. LanesDone' = {}
    BY <2>1 DEF LanesDone, Lanes
  <2> QED
    BY <1>1, <1>2, <2>1, <2>2
       DEF BackDoorInv, WbbdShape, MuxHeld, ByteApplied, LanesWritten, LanesRead, reqVars,
           Lanes
<1>3. CASE wb_stb # 1
  <2>1. wbbd_state' = "IDLE" /\ lane' = lane /\ wb_stb' = wb_stb
    BY <1>1, <1>3 DEF WbbdIdle, reqVars
  <2> QED
    BY <1>1, <1>3, <2>1, BackDoorIdles
<1> QED
  BY <1>2, <1>3

LEMMA SetupStep ==
  ASSUME BackDoorInv, WbbdSetup PROVE BackDoorInv'
<1>1. /\ wbbd_state = "SETUP" /\ wbbd_state' \in {"SETUP", "RW"} /\ wbbd_busy' = 1
      /\ wbbd_addr' = LaneReg(lane) /\ wbbd_write' = Strobe
      /\ Strobe = 1 => wbbd_data' = req.dat[lane]
      /\ UNCHANGED << lane, wb_dat_o, wb_stb, req, regs >>
  BY DEF WbbdSetup, ApplyByte, LaneReg, reqVars, fileVars
<1>2. WbbdShape' /\ MuxHeld'
  BY <1>1 DEF BackDoorInv, WbbdShape, MuxHeld
<1>3. ByteApplied'
  BY <1>1 DEF ByteApplied, LaneReg, Strobe
<1>4. LanesDone' = LanesDone
  BY <1>1 DEF LanesDone
<1>5. LanesWritten' /\ LanesRead'
  BY <1>1, <1>4 DEF BackDoorInv, LanesWritten, LanesRead, LaneReg
<1> QED
  BY <1>2, <1>3, <1>5 DEF BackDoorInv

\* The lane that is read or written, and the others.
LEMMA RwStep ==
  ASSUME BackDoorInv, WbbdRw PROVE BackDoorInv'
<1>1. /\ wbbd_state = "RW" /\ wbbd_busy = 1 /\ wbbd_busy' = 1 /\ lane \in Lanes
      /\ UNCHANGED << wb_stb, req >> /\ wb_stb = 1 /\ req \in Accesses
      /\ DOMAIN regs = RegAddrs /\ DOMAIN wb_dat_o = Lanes
      /\ wbbd_addr = LaneReg(lane) /\ wbbd_write = Strobe
      /\ Strobe = 1 => wbbd_data = req.dat[lane]
  <2>1. wbbd_state = "RW" /\ wbbd_busy' = 1 /\ UNCHANGED << wb_stb, req >>
    BY DEF WbbdRw, reqVars
  <2>2. WbbdShape /\ MuxHeld /\ ByteApplied
    BY DEF BackDoorInv
  <2>3. /\ lane \in Lanes /\ wb_stb = 1 /\ req \in Accesses
        /\ DOMAIN regs = RegAddrs /\ DOMAIN wb_dat_o = Lanes
    BY <2>1, <2>2 DEF WbbdShape
  <2>4. wbbd_busy = 1
    BY <2>1, <2>2 DEF MuxHeld
  <2> QED
    BY <2>1, <2>2, <2>3, <2>4 DEF ByteApplied
<1>2. \/ lane = 3 /\ wbbd_state' = "DONE" /\ lane' = lane
      \/ lane \in 0 .. 2 /\ wbbd_state' = "SETUP" /\ lane' = lane + 1
  BY <1>1 DEF WbbdRw, Lanes
<1>3. LanesDone' = LanesDone \cup {lane}
  BY <1>1, <1>2 DEF LanesDone, Lanes
<1>4. req \in Access /\ Strobe = IF req.we = 1 THEN req.sel[lane] ELSE 0
  BY <1>1, HousekeepingAssumption DEF HousekeepingAssumption, Strobe
<1>5. /\ DOMAIN regs' = RegAddrs
      /\ \A b \in RegAddrs \ {\h0a} :
           regs'[b] = IF Strobe = 1 /\ b = LaneReg(lane)
                      THEN Kept(LaneReg(lane), wbbd_data) ELSE regs[b]
  <2>1. CsclkEdge(Strobe, LaneReg(lane), wbbd_data)
    BY <1>1 DEF WbbdRw
  <2> QED
    BY <1>1, <2>1, EdgeWrites
<1>6. WbbdShape'
  BY <1>1, <1>2, <1>5 DEF WbbdRw, WbbdShape, Lanes
<1>7. MuxHeld' /\ ByteApplied'
  BY <1>1, <1>2 DEF MuxHeld, ByteApplied
<1>8. \A n \in LanesDone : n \in Lanes /\ n # lane
  BY <1>1 DEF LanesDone, Lanes
<1>9. LanesWritten'
  <2> SUFFICES ASSUME req.we = 1, NEW n \in LanesDone \cup {lane}, req.sel[n] = 1,
                      LaneReg(n) \in RegAddrs \ {\h0a}
               PROVE  regs'[LaneReg(n)] = Kept(LaneReg(n), req.dat[n])
    BY <1>1, <1>3 DEF LanesWritten, LaneReg
  <2>1. CASE n = lane
    BY <1>1, <1>4, <1>5, <2>1
  <2>2. CASE n \in LanesDone
    <3>1. LaneReg(n) # LaneReg(lane)
      BY <1>1, <1>4, <1>8, <2>2, LanesApart
    <3>2. regs[LaneReg(n)] = Kept(LaneReg(n), req.dat[n])
      BY <2>2 DEF BackDoorInv, LanesWritten
    <3> QED
      BY <1>5, <3>1, <3>2
  <2> QED
    BY <2>1, <2>2
<1>10. LanesRead'
  <2> SUFFICES ASSUME req.we = 0, NEW n \in LanesDone \cup {lane},
                      LaneReg(n) \in RegAddrs \ {\h0a, \h0b, \h69}
               PROVE  wb_dat_o'[n] = regs'[LaneReg(n)]
    BY <1>1, <1>3 DEF LanesRead, LaneReg
  <2>1. regs'[LaneReg(n)] = regs[LaneReg(n)]
    BY <1>4, <1>5
  <2>2. wb_dat_o' = [wb_dat_o EXCEPT ![lane] = ReadByte(LaneReg(lane))]
    BY <1>1 DEF WbbdRw, caddr
  <2>3. CASE n = lane
    <3>1. LaneReg(n) \notin \h6a .. \h6d
      BY TrackedRegisters
    <3>2. ReadByte(LaneReg(n)) = regs[LaneReg(n)]
      BY <3>1 DEF ReadByte, Reg
    <3> QED
      BY <1>1, <2>1, <2>2, <2>3, <3>2
  <2>4. CASE n \in LanesDone
    BY <1>1, <1>8, <2>1, <2>2, <2>4 DEF BackDoorInv, LanesRead
  <2> QED
    BY <2>3, <2>4
<1> QED
  BY <1>6, <1>7, <1>9, <1>10 DEF BackDoorInv

LEMMA BackDoorStep ==
  ASSUME BackDoorInv, [HkNext]_hkVars PROVE BackDoorInv'
<1>1. CASE CoreReset
  <2>1. DOMAIN regs' = RegAddrs
    BY <1>1, ReleaseShape DEF CoreReset, BackDoorInv, WbbdShape
  <2> QED
    BY <1>1, <2>1, BackDoorIdles DEF CoreReset, BackDoorInv, WbbdShape, Lanes
<1>2. CASE WbTick
  <2>1. CASE WbbdDone
    BY <2>1, BackDoorIdles DEF WbbdDone, fileVars, BackDoorInv, WbbdShape
  <2> QED
    BY <1>2, <2>1, IdleStep, SetupStep, RwStep DEF WbTick
<1>3. ASSUME NEW r \in Accesses, WbIssue(r) PROVE BackDoorInv'
  <2>1. wbbd_state = "IDLE" /\ req' = r
    BY <1>3 DEF WbIssue, BackDoorInv, WbbdShape
  <2> QED
    BY <1>3, <2>1, BackDoorIdles DEF WbIssue, wbbdVars, fileVars, BackDoorInv, WbbdShape
<1>4. CASE SckRise
  <2>1. CASE UNCHANGED fileVars
    BY <1>4, <2>1, BackDoorRests DEF SckRise, wbbdVars, fileVars
  <2>2. CASE wbbd_busy = 0 /\ CsclkEdge(wrstb, oaddr(SDI), odata(SDI))
    <3>1. DOMAIN regs' = RegAddrs
      BY <2>2, EdgeWrites DEF BackDoorInv, WbbdShape
    <3>2. LanesDone' = {} /\ wbbd_state # "RW"
      <4>1. wbbd_state = "IDLE" \/ (wbbd_state = "SETUP" /\ lane = 0)
        BY <2>2 DEF BackDoorInv, MuxHeld, WbbdShape, Lanes
      <4>2. wbbd_state' = wbbd_state /\ lane' = lane
        BY <1>4 DEF SckRise, wbbdVars
      <4>3. \A n \in Lanes : ~(n < 0)
        BY DEF Lanes
      <4> QED
        BY <4>1, <4>2, <4>3 DEF LanesDone
    <3> QED
      BY <1>4, <3>1, <3>2
         DEF SckRise, wbbdVars, reqVars, BackDoorInv, WbbdShape, MuxHeld, ByteApplied,
             LanesWritten, LanesRead
  <2> QED
    BY <1>4, <2>1, <2>2 DEF SckRise, FrontDoorOpen
<1>5. CASE SpiDisabled \/ CsbFall \/ CsbRise \/ SckFall \/ UNCHANGED hkVars
  <2>1. UNCHANGED << wbbdVars, reqVars, fileVars >>
    BY <1>5 DEF SpiDisabled, CsbFall, CsbRise, SckFall, hkVars
  <2> QED
    BY <2>1, BackDoorRests DEF wbbdVars, fileVars
<1> QED
  BY <1>1, <1>2, <1>3, <1>4, <1>5 DEF HkNext, Pins

\* What the back door has moved stays as it was moved until the access ends.
THEOREM BackDoorInvariant == HkSpec => []BackDoorInv
<1>1. HkInit => BackDoorInv
  BY BackDoorInit
<1>2. BackDoorInv /\ [HkNext]_hkVars => BackDoorInv'
  BY BackDoorStep
<1> QED
  BY <1>1, <1>2, PTL DEF HkSpec

\* An acknowledged write has changed every selected byte (WBBD_SETUP0 to
\* WBBD_DONE of housekeeping.v), for every access and whatever the SPI master
\* sends and whenever the core is reset.
THEOREM WritesLand == HkSpec => []BackDoorWriteLands
<1>1. BackDoorInv => BackDoorWriteLands
  BY DEF BackDoorInv, LanesWritten, LanesDone, BackDoorWriteLands
<1> QED
  BY <1>1, BackDoorInvariant, PTL

\* The bytes of an acknowledged read are the registers at one moment.
THEOREM ReadsAreTrue == HkSpec => []BackDoorReadsTrue
<1>1. BackDoorInv => BackDoorReadsTrue
  BY DEF BackDoorInv, LanesRead, LanesDone, BackDoorReadsTrue
<1> QED
  BY <1>1, BackDoorInvariant, PTL
-----------------------------------------------------------------------------
(* Who may change a register.  Here the timing of the two clocks matters: a *)
(* write strobe of the SPI slave that comes while the back door finishes    *)
(* must not meet the released mux with SCK high.                            *)

\* Nobody resets the core or disables the SPI slave: the registers that do are
\* left alone, and the master sends no command of management pass-through.
NobodyResets ==
  /\ {\h0b, \h6f, ConfigLow(3)} \cap RegAddrs = {}
  /\ \A c \in Commands : (c \div 4) % 2 = 0

LEMMA NoReset ==
  ASSUME NobodyResets, pre_pass_thru_mgmt = 0, pass_thru_mgmt_delay = 0
  PROVE  reset = 0 /\ spi_is_enabled
<1>1. Reg(\h0b) = 0 /\ Reg(\h6f) = 0
  BY DEF NobodyResets, Reg, RegReset, IsConfig
<1>2. Reg(ConfigLow(3)) = 1
  <2>1. ConfigLow(3) = \h24 /\ ConfigLow(3) \notin RegAddrs /\ \h24 % 2 = 0
    BY DEF NobodyResets, ConfigLow
  <2>2. ConfigPad(\h24) = 3
    BY DEF ConfigPad
  <2>3. RegReset(\h24) = PadReset(3) % 256
    BY <2>1, <2>2 DEF RegReset, IsConfig
  <2> QED
    BY <2>1, <2>3 DEF Reg, PadReset
<1> QED
  BY <1>1, <1>2 DEF reset, spi_is_enabled, pass_thru_mgmt_reset

\* One more bit of a byte, in the seven bits of predata.
LEMMA BitIntoPredata ==
  ASSUME NEW n \in 0 .. 7, NEW b \in Byte, NEW r \in 0 .. 127,
         r % 2^n = b \div 2^(8 - n)
  PROVE  /\ n < 7 => ((2 * r + ((b \div 2^(7 - n)) % 2)) % 128) % 2^(n + 1)
                       = b \div 2^(7 - n)
         /\ (2 * r + ((b \div 2^(7 - n)) % 2)) % 128 \in 0 .. 127
         /\ n = 7 => 2 * r + ((b \div 2^(7 - n)) % 2) = b
<1> DEFINE q == b \div 2^(7 - n)
           h == b \div 2^(8 - n)
<1>p. /\ 2^0 = 1 /\ 2^1 = 2 /\ 2^2 = 4 /\ 2^3 = 8 /\ 2^4 = 16
      /\ 2^5 = 32 /\ 2^6 = 64 /\ 2^7 = 128 /\ 2^8 = 256
  OBVIOUS
<1>1. q = 2 * h + (q % 2) /\ q \in Nat /\ h \in Nat /\ (n = 7 => q = b)
  <2>1. CASE n = 0
    BY <1>p, <2>1 DEF Byte
  <2>2. CASE n = 1
    BY <1>p, <2>2 DEF Byte
  <2>3. CASE n = 2
    BY <1>p, <2>3 DEF Byte
  <2>4. CASE n = 3
    BY <1>p, <2>4 DEF Byte
  <2>5. CASE n = 4
    BY <1>p, <2>5 DEF Byte
  <2>6. CASE n = 5
    BY <1>p, <2>6 DEF Byte
  <2>7. CASE n = 6
    BY <1>p, <2>7 DEF Byte
  <2>8. CASE n = 7
    BY <1>p, <2>8 DEF Byte
  <2> QED
    BY <2>1, <2>2, <2>3, <2>4, <2>5, <2>6, <2>7, <2>8
<1> DEFINE s == q % 2
<1>2. s \in {0, 1} /\ q = 2 * h + s /\ h \in Nat /\ r % 2^n = h /\ (n = 7 => q = b)
  BY <1>1
<1> HIDE DEF q, h, s
<1>3. /\ n < 7 => ((2 * r + s) % 128) % 2^(n + 1) = q
      /\ (2 * r + s) % 128 \in 0 .. 127
      /\ n = 7 => 2 * r + s = q
  <2>1. CASE n = 0
    BY <1>p, <1>2, <2>1
  <2>2. CASE n = 1
    BY <1>p, <1>2, <2>2
  <2>3. CASE n = 2
    BY <1>p, <1>2, <2>3
  <2>4. CASE n = 3
    BY <1>p, <1>2, <2>4
  <2>5. CASE n = 4
    BY <1>p, <1>2, <2>5
  <2>6. CASE n = 5
    BY <1>p, <1>2, <2>6
  <2>7. CASE n = 6
    BY <1>p, <1>2, <2>7
  <2>8. CASE n = 7
    BY <1>p, <1>2, <2>8
  <2> QED
    BY <2>1, <2>2, <2>3, <2>4, <2>5, <2>6, <2>7, <2>8
<1> QED
  BY <1>2, <1>3 DEF q, s
\* The slave and the master at the same bit of the same byte.
SpiShape ==
  /\ state \in SpiStates /\ count \in 0 .. 7 /\ predata \in 0 .. 127
  /\ writemode \in Bit /\ wrstb \in Bit
  /\ SCK \in Bit /\ CSB \in Bit /\ mbyte \in Byte /\ mbit \in 0 .. 7
  /\ ticks \in 0 .. MinTicks
  /\ pre_pass_thru_mgmt = 0 /\ pass_thru_mgmt_delay = 0

InBits == state \in {"COMMAND", "ADDRESS", "DATA"}

SameBit ==
  /\ CSB = 1 => state = "COMMAND" /\ count = 0 /\ mbit = 0 /\ wrstb = 0
  /\ CSB = 0 /\ InBits => count = IF SCK = 0 THEN mbit ELSE (mbit + 1) % 8
  /\ CSB = 0 /\ state = "COMMAND" /\ (SCK = 0 \/ count # 0) => mbyte \in Commands

DataTaken ==
  CSB = 0 /\ state = "DATA" /\ (SCK = 0 \/ count # 0) =>
    predata % 2^count = mbyte \div 2^(8 - count)

\* The strobe is up for the last bit of a byte that is written, and until the
\* falling edge after it.
StrobeShape ==
  /\ SCK = 0 /\ wrstb = 1 => CSB = 0 /\ state = "DATA" /\ count = 7 /\ writemode = 1
  /\ SCK = 1 /\ count # 0 => wrstb = 0

\* The back door begins the last byte of an access without a strobe.  One that
\* comes later waits MinTicks clocks for its rising edge, and the mux is back
\* by then.
StrobeLate ==
  /\ wbbd_state = "IDLE" => wbbd_write = 0
  /\ wrstb = 1 =>
       /\ wbbd_state = "RW" => SCK = 0 /\ ticks = 0
       /\ wbbd_state = "DONE" => SCK = 0 /\ ticks <= 1
       /\ wbbd_state = "IDLE" /\ wbbd_busy = 1 => SCK = 0 /\ ticks <= 2

AskedInv == SpiShape /\ SameBit /\ DataTaken /\ StrobeShape /\ StrobeLate
LEMMA AskedInit ==
  ASSUME HkInit PROVE AskedInv
<1>1. MinTicks \in Nat
  BY HousekeepingAssumption DEF HousekeepingAssumption
<1> QED
  BY <1>1 DEF HkInit, SpiInit, AskedInv, SpiShape, SpiStates, SameBit, InBits, DataTaken,
              StrobeShape, StrobeLate, Bit, Byte

\* The parts that speak of the slave and its master only.
SpiPart == SpiShape /\ SameBit /\ DataTaken /\ StrobeShape

LEMMA SpiPartRests ==
  ASSUME SpiPart, UNCHANGED << spiVars, masterVars >>, ticks' \in 0 .. MinTicks
  PROVE  SpiPart'
  BY DEF SpiPart, SpiShape, SameBit, InBits, DataTaken, StrobeShape, spiVars, riseVars,
         fallVars, passVars, masterVars

\* A command byte has no pass-through bit.
LEMMA NoPassBit ==
  ASSUME NobodyResets, SpiPart, CSB = 0, SCK = 0, state = "COMMAND", count = 5
  PROVE  SDI = 0
<1>1. mbyte \in Commands /\ mbit = 5
  BY DEF SpiPart, SpiShape, SameBit, InBits
<1>2. 2^(7 - 5) = 4
  OBVIOUS
<1> QED
  BY <1>1, <1>2 DEF NobodyResets, SDI

\* SDI is a bit.
LEMMA SdiTyped ==
  ASSUME SpiPart PROVE SDI \in Bit
<1>1. PICK n \in 0 .. 7 : n = 7 - mbit
  BY DEF SpiPart, SpiShape
<1>2. mbyte \in Int /\ n \in {0, 1, 2, 3, 4, 5, 6, 7}
  BY DEF SpiPart, SpiShape, Byte
<1>3. mbyte \div 2^n \in Int
  <2>1. CASE n = 0
    BY <1>2, <2>1
  <2>2. CASE n = 1
    BY <1>2, <2>2
  <2>3. CASE n = 2
    BY <1>2, <2>3
  <2>4. CASE n = 3
    BY <1>2, <2>4
  <2>5. CASE n = 4
    BY <1>2, <2>5
  <2>6. CASE n = 5
    BY <1>2, <2>6
  <2>7. CASE n = 6
    BY <1>2, <2>7
  <2>8. CASE n = 7
    BY <1>2, <2>8
  <2> QED
    BY <1>2, <2>1, <2>2, <2>3, <2>4, <2>5, <2>6, <2>7, <2>8
<1> QED
  BY <1>1, <1>3 DEF SDI, Bit

\* A rising edge of SCK with CSB low.
LEMMA RiseSpi ==
  ASSUME NobodyResets, SpiPart, CSB = 0, SCK = 0, PosedgeSck(SDI),
         SCK' = 1, ticks' = 0, UNCHANGED << CSB, mbyte, mbit >>
  PROVE  SpiPart'
<1>1. /\ state \in SpiStates /\ count \in 0 .. 7 /\ predata \in 0 .. 127
      /\ mbyte \in Byte /\ mbit \in 0 .. 7 /\ (InBits => count = mbit)
      /\ state = "COMMAND" => mbyte \in Commands
      /\ pre_pass_thru_mgmt = 0 /\ pass_thru_mgmt_delay = 0
      /\ wrstb = 1 => state = "DATA" /\ count = 7
      /\ writemode \in Bit /\ wrstb \in Bit /\ MinTicks \in Nat
  BY HousekeepingAssumption
     DEF HousekeepingAssumption, SpiPart, SpiShape, SameBit, StrobeShape
<1>2. wrstb' = wrstb /\ SDI \in Bit
  BY SdiTyped DEF PosedgeSck, fallVars
<1>3. CASE CommandBit(SDI)
  <2>1. /\ state = "COMMAND" /\ count' = (count + 1) % 8 /\ predata' = predata
        /\ state' \in {"COMMAND", "ADDRESS", "MGMTPASS", "USERPASS"}
        /\ state' = "COMMAND" => count # 7
        /\ writemode' \in Bit
    BY <1>1, <1>2, <1>3 DEF CommandBit, Bit
  <2>2. pre_pass_thru_mgmt' = 0 /\ pass_thru_mgmt_delay' = 0
    BY <1>1, <1>3, NoPassBit DEF CommandBit
  <2> QED
    BY <1>1, <1>2, <2>1, <2>2
       DEF SpiPart, SpiShape, SameBit, InBits, DataTaken, StrobeShape, SpiStates, Bit
<1>4. CASE AddressBit(SDI)
  <2>1. /\ state = "ADDRESS" /\ count' = (count + 1) % 8 /\ predata' = predata
        /\ state' = IF count = 7 THEN "DATA" ELSE "ADDRESS"
        /\ writemode' = writemode
        /\ pre_pass_thru_mgmt' = 0 /\ pass_thru_mgmt_delay' = 0
    BY <1>1, <1>4 DEF AddressBit, passVars
  <2>2. state' = "DATA" => count' = 0
    BY <2>1
  <2> QED
    BY <1>1, <1>2, <2>1, <2>2
       DEF SpiPart, SpiShape, SameBit, InBits, DataTaken, StrobeShape, SpiStates, Bit
<1>5. CASE DataBit(SDI)
  <2>1. /\ state = "DATA" /\ count' = (count + 1) % 8 /\ count = mbit
        /\ state' \in {"DATA", "COMMAND"} /\ (state' = "COMMAND" => count = 7)
        /\ writemode' = writemode
        /\ pre_pass_thru_mgmt' = 0 /\ pass_thru_mgmt_delay' = 0
        /\ predata' = (2 * predata + SDI) % 128
    BY <1>1, <1>5 DEF DataBit, passVars, InBits
  <2>2. PICK n \in 0 .. 7 : n = count
    BY <1>1
  <2>3. predata % 2^n = mbyte \div 2^(8 - n)
    BY <2>1, <2>2 DEF SpiPart, DataTaken
  <2>4. SDI = (mbyte \div 2^(7 - n)) % 2
    BY <2>1, <2>2 DEF SDI
  <2>5. predata' \in 0 .. 127 /\ (n < 7 => predata' % 2^(n + 1) = mbyte \div 2^(7 - n))
    BY <1>1, <2>1, <2>3, <2>4, BitIntoPredata
  <2>6. DataTaken'
    <3> SUFFICES ASSUME count' # 0 PROVE predata' % 2^count' = mbyte \div 2^(8 - count')
      BY DEF DataTaken
    <3>1. n < 7 /\ count' = n + 1 /\ 8 - count' = 7 - n
      BY <2>1, <2>2
    <3> QED
      BY <2>5, <3>1
  <2>7. SpiShape'
    BY <1>1, <1>2, <2>1, <2>5 DEF SpiPart, SpiShape, SpiStates, Bit
  <2>8. SameBit' /\ StrobeShape'
    BY <1>1, <1>2, <2>1 DEF SameBit, InBits, StrobeShape, Bit
  <2> QED
    BY <2>6, <2>7, <2>8 DEF SpiPart
<1>6. CASE PassBit
  BY <1>1, <1>2, <1>6
     DEF PassBit, SpiPart, SpiShape, SameBit, InBits, DataTaken, StrobeShape, SpiStates, Bit
<1> QED
  BY <1>3, <1>4, <1>5, <1>6 DEF PosedgeSck

\* A falling edge with CSB low.
LEMMA FallSpi ==
  ASSUME SpiPart, CSB = 0, SCK = 1, NEW d, NegedgeSck(d), SCK' = 0, ticks' = 0,
         CSB' = CSB, mbit' = (mbit + 1) % 8,
         IF mbit = 7 THEN mbyte' \in NextByte ELSE mbyte' = mbyte
  PROVE  SpiPart'
<1>1. /\ state \in SpiStates /\ count \in 0 .. 7 /\ predata \in 0 .. 127
      /\ mbyte \in Byte /\ mbit \in 0 .. 7 /\ (InBits => count = (mbit + 1) % 8)
      /\ state = "COMMAND" /\ count # 0 => mbyte \in Commands
      /\ pre_pass_thru_mgmt = 0 /\ pass_thru_mgmt_delay = 0
      /\ count # 0 => wrstb = 0
      /\ writemode \in Bit /\ wrstb \in Bit /\ MinTicks \in Nat
  BY HousekeepingAssumption
     DEF HousekeepingAssumption, SpiPart, SpiShape, SameBit, StrobeShape
<1>2. /\ UNCHANGED << state, count, predata, writemode, pre_pass_thru_mgmt,
                      pass_thru_mgmt_delay >>
      /\ wrstb' = IF state = "DATA" /\ count = 7
                  THEN IF writemode = 1 THEN 1 ELSE wrstb ELSE 0
  BY DEF NegedgeSck, riseVars, passVars
<1>3. mbyte' \in Byte /\ (state = "COMMAND" => mbyte' \in Commands)
  BY <1>1, HousekeepingAssumption DEF HousekeepingAssumption, NextByte, InBits
<1>4. SpiShape' /\ SameBit'
  BY <1>1, <1>2, <1>3 DEF SpiShape, SameBit, InBits, Bit
<1>5. StrobeShape'
  BY <1>1, <1>2 DEF StrobeShape, Bit
<1>6. DataTaken'
  <2>1. CASE count = 0
    <3>1. predata % 2^0 = mbyte' \div 2^(8 - 0)
      <4>1. 2^0 = 1 /\ 2^(8 - 0) = 256
        OBVIOUS
      <4> QED
        BY <1>1, <1>3, <4>1 DEF Byte
    <3> QED
      BY <1>2, <2>1, <3>1 DEF DataTaken
  <2>2. CASE count # 0 /\ state = "DATA"
    <3>1. mbyte' = mbyte
      BY <1>1, <2>2 DEF InBits
    <3> QED
      BY <1>2, <2>2, <3>1 DEF SpiPart, DataTaken
  <2> QED
    BY <1>2, <2>1, <2>2 DEF DataTaken
<1> QED
  BY <1>4, <1>5, <1>6 DEF SpiPart

-----------------------------------------------------------------------------
\* What the two clocks' step leaves of StrobeLate.
LEMMA StrobeLateRests ==
  ASSUME StrobeLate, UNCHANGED << wbbd_state, wbbd_write, wbbd_busy >>,
         wrstb' = 1 => wrstb = 1 /\ UNCHANGED << SCK, ticks >>
  PROVE  StrobeLate'
  BY DEF StrobeLate

\* A pending strobe makes the SPI busy.
LEMMA StrobeIsBusy ==
  ASSUME NobodyResets, SpiPart, wrstb = 1 PROVE spi_is_busy /\ CSB = 0
<1>1. spi_is_enabled
  BY NoReset DEF SpiPart, SpiShape
<1>2. CSB = 0
  BY DEF SpiPart, SpiShape, SameBit, Bit
<1> QED
  BY <1>1, <1>2 DEF spi_is_busy, spi_is_active

LEMMA AskedTick ==
  ASSUME NobodyResets, MinTicks >= 3, BackDoorInv, AskedInv, WbTick
  PROVE  AskedInv'
<1>1. /\ SpiPart /\ StrobeLate /\ ticks \in 0 .. MinTicks /\ MinTicks \in Nat
      /\ ticks' = IF ticks = MinTicks THEN ticks ELSE ticks + 1
      /\ UNCHANGED << wrstb, SCK, spiVars, masterVars >>
  BY HousekeepingAssumption
     DEF HousekeepingAssumption, AskedInv, SpiPart, SpiShape, WbTick, spiVars, fallVars,
         masterVars
<1>2. ticks' \in 0 .. MinTicks
  BY <1>1
<1>3. SpiPart'
  BY <1>1, <1>2, SpiPartRests
<1>4. StrobeLate'
  <2>1. CASE WbbdIdle
    BY <1>1, <2>1 DEF WbbdIdle, StrobeLate
  <2>2. CASE WbbdSetup
    <3>1. wbbd_state' \in {"SETUP", "RW"} /\ (wbbd_state' = "RW" => ~spi_is_busy)
      BY <2>2 DEF WbbdSetup, ApplyByte
    <3>2. wbbd_state' = "RW" => wrstb' # 1
      BY <1>1, <3>1, StrobeIsBusy
    <3> QED
      BY <3>1, <3>2 DEF StrobeLate
  <2>3. CASE WbbdRw
    BY <1>1, <2>3 DEF WbbdRw, StrobeLate
  <2>4. CASE WbbdDone
    BY <1>1, <2>4 DEF WbbdDone, StrobeLate
  <2> QED
    BY <2>1, <2>2, <2>3, <2>4 DEF WbTick
<1> QED
  BY <1>3, <1>4 DEF SpiPart, AskedInv

LEMMA AskedPins ==
  ASSUME NobodyResets, MinTicks >= 3, BackDoorInv, AskedInv, Pins
  PROVE  AskedInv'
<1>1. /\ SpiPart /\ StrobeLate /\ ticks \in 0 .. MinTicks /\ MinTicks \in Nat
      /\ spi_is_enabled
  BY NoReset, HousekeepingAssumption
     DEF HousekeepingAssumption, AskedInv, SpiPart, SpiShape
<1>2. CASE CsbFall
  <2>1. /\ CSB = 1 /\ SCK = 0 /\ CSB' = 0 /\ SCK' = 0 /\ mbyte' \in Commands
        /\ mbit' = 0 /\ ticks' = 0
        /\ UNCHANGED << wbbd_state, wbbd_write, wbbd_busy, state, count, predata,
                        writemode, wrstb, pre_pass_thru_mgmt, pass_thru_mgmt_delay >>
    BY <1>2 DEF CsbFall, spiVars, riseVars, fallVars, passVars, wbbdVars
  <2>2. state = "COMMAND" /\ count = 0 /\ wrstb = 0
    BY <1>1, <2>1 DEF SpiPart, SameBit
  <2>3. SpiPart'
    BY <1>1, <2>1, <2>2, HousekeepingAssumption
       DEF HousekeepingAssumption, SpiPart, SpiShape, SameBit, InBits, DataTaken,
           StrobeShape, Bit
  <2>4. StrobeLate'
    BY <1>1, <2>1, <2>2, StrobeLateRests
  <2> QED
    BY <2>3, <2>4 DEF SpiPart, AskedInv
<1>3. CASE CsbRise
  <2>1. /\ CSB' = 1 /\ SCK' = SCK /\ mbyte' = 0 /\ mbit' = 0 /\ ticks' = ticks
        /\ CsbReset /\ UNCHANGED << wbbd_state, wbbd_write, wbbd_busy >>
    BY <1>3 DEF CsbRise, wbbdVars
  <2>2. SpiPart'
    BY <1>1, <2>1
       DEF CsbReset, SpiPart, SpiShape, SameBit, InBits, DataTaken, StrobeShape, SpiStates,
           Bit, Byte
  <2>3. StrobeLate'
    BY <1>1, <2>1, StrobeLateRests DEF CsbReset
  <2> QED
    BY <2>2, <2>3 DEF SpiPart, AskedInv
<1>4. CASE SckRise
  <2>1. /\ CSB = 0 /\ SCK = 0 /\ ticks = MinTicks /\ SCK' = 1 /\ ticks' = 0
        /\ UNCHANGED << CSB, mbyte, mbit, wbbd_state, wbbd_write, wbbd_busy >>
    BY <1>4 DEF SckRise, wbbdVars
  <2>2. PosedgeSck(SDI)
    BY <1>1, <1>4, <2>1 DEF SckRise, spi_is_active
  <2>3. SpiPart'
    BY <1>1, <2>1, <2>2, RiseSpi
  <2>4. wrstb' = wrstb
    BY <2>2 DEF PosedgeSck, fallVars
  <2>5. StrobeLate'
    BY <1>1, <2>1, <2>4 DEF StrobeLate
  <2> QED
    BY <2>3, <2>5 DEF SpiPart, AskedInv
<1>5. CASE SckFall /\ CSB = 0
  <2>1. /\ SCK = 1 /\ SCK' = 0 /\ ticks' = 0 /\ CSB' = CSB /\ mbit' = (mbit + 1) % 8
        /\ IF mbit = 7 THEN mbyte' \in NextByte ELSE mbyte' = mbyte
        /\ UNCHANGED << wbbd_state, wbbd_write, wbbd_busy >>
    BY <1>5 DEF SckFall, wbbdVars
  <2>2. NegedgeSck(ReadByte(caddr))
    BY <1>1, <1>5 DEF SckFall, spi_is_active
  <2>3. SpiPart'
    BY <1>1, <1>5, <2>1, <2>2, FallSpi
  <2>4. StrobeLate'
    BY <1>1, <2>1 DEF StrobeLate
  <2> QED
    BY <2>3, <2>4 DEF SpiPart, AskedInv
<1>6. CASE SckFall /\ CSB = 1
  <2>1. /\ SCK' = 0 /\ ticks' = 0
        /\ UNCHANGED << CSB, mbyte, mbit, wbbd_state, wbbd_write, wbbd_busy, state, count,
                        predata, writemode, wrstb, pre_pass_thru_mgmt,
                        pass_thru_mgmt_delay >>
    BY <1>6 DEF SckFall, spi_is_active, wbbdVars, spiVars, riseVars, fallVars, passVars
  <2>2. wrstb = 0
    BY <1>1, <1>6 DEF SpiPart, SameBit
  <2>3. SpiPart'
    BY <1>1, <1>6, <2>1, <2>2
       DEF SpiPart, SpiShape, SameBit, InBits, DataTaken, StrobeShape, Bit
  <2>4. StrobeLate'
    BY <1>1, <2>1, <2>2, StrobeLateRests
  <2> QED
    BY <2>3, <2>4 DEF SpiPart, AskedInv
<1> QED
  BY <1>1, <1>2, <1>3, <1>4, <1>5, <1>6 DEF Pins, SpiPart, SpiShape, Bit

LEMMA AskedStep ==
  ASSUME NobodyResets, MinTicks >= 3, BackDoorInv, AskedInv, [HkNext]_hkVars
  PROVE  AskedInv'
<1>1. reset = 0 /\ spi_is_enabled /\ SpiPart /\ StrobeLate /\ ticks \in 0 .. MinTicks
  BY NoReset DEF AskedInv, SpiPart, SpiShape
<1>2. ~CoreReset /\ ~SpiDisabled
  BY <1>1 DEF CoreReset, SpiDisabled
<1>3. CASE (\E r \in Accesses : WbIssue(r)) \/ UNCHANGED hkVars
  <2>1. UNCHANGED << spiVars, masterVars, wbbdVars, ticks >>
    BY <1>3 DEF WbIssue, hkVars
  <2>2. SpiPart'
    BY <1>1, <2>1, SpiPartRests
  <2>3. StrobeLate'
    BY <1>1, <2>1, StrobeLateRests DEF spiVars, fallVars, masterVars, wbbdVars
  <2> QED
    BY <2>2, <2>3 DEF SpiPart, AskedInv
<1> QED
  BY <1>2, <1>3, AskedTick, AskedPins DEF HkNext

\* A change of a register somebody asked for.
LEMMA ChangesAskedFor ==
  ASSUME NobodyResets, MinTicks >= 3, BackDoorInv, AskedInv, HkNext,
         NEW a \in RegAddrs, regs'[a] # regs[a]
  PROVE  \/ a = \h0a /\ regs'[a] = 0
         \/ /\ wbbd_state = "RW" /\ req.we = 1 /\ req.sel[lane] = 1
            /\ LaneReg(lane) = a /\ regs'[a] = Kept(a, req.dat[lane])
         \/ /\ SCK = 0 /\ SCK' = 1 /\ state = "DATA" /\ writemode = 1
            /\ mbit = 7 /\ addr = a /\ regs'[a] = Kept(a, mbyte)
<1>1. /\ reset = 0 /\ spi_is_enabled /\ SpiPart /\ StrobeLate /\ WbbdShape
      /\ DOMAIN regs = RegAddrs
  BY NoReset DEF AskedInv, SpiPart, SpiShape, BackDoorInv, WbbdShape
<1>2. CASE WbbdIdle
  <2>1. wbbd_state = "IDLE" /\ MuxReleased /\ wbbd_write = 0
    BY <1>1, <1>2 DEF WbbdIdle, StrobeLate
  <2>2. csclk = 0 /\ spi_is_active /\ SCK = 1 /\ GlitchEdge
    BY <2>1 DEF MuxReleased, fileVars
  <2>3. wbbd_busy = 1
    BY <2>2 DEF csclk
  <2>4. wrstb # 1
    BY <1>1, <2>1, <2>2, <2>3 DEF StrobeLate
  <2>5. PICK s \in {wbbd_write, wrstb}, x \in {wbbd_addr, oaddr(SDI)},
             d \in {wbbd_data, odata(SDI)} : CsclkEdge(s, x, d)
    BY <2>2 DEF GlitchEdge
  <2>6. s # 1
    BY <2>1, <2>4
  <2> QED
    BY <1>1, <2>5, <2>6, EdgeWrites
<1>3. CASE WbbdRw
  <2>1. wbbd_state = "RW" /\ CsclkEdge(wbbd_write, wbbd_addr, wbbd_data)
    BY <1>3 DEF WbbdRw
  <2>2. /\ wbbd_addr = LaneReg(lane) /\ wbbd_write = Strobe
        /\ Strobe = 1 => wbbd_data = req.dat[lane]
    BY <2>1 DEF BackDoorInv, ByteApplied
  <2>3. CASE Strobe = 1
    <3>1. regs'[a] = IF a = LaneReg(lane) THEN Kept(LaneReg(lane), req.dat[lane])
                     ELSE regs[a]
      BY <1>1, <2>1, <2>2, <2>3, EdgeWrites
    <3> QED
      BY <2>1, <2>3, <3>1 DEF Strobe
  <2>4. CASE Strobe # 1
    BY <1>1, <2>1, <2>2, <2>4, EdgeWrites
  <2> QED
    BY <2>3, <2>4
<1>4. CASE SckRise
  <2>1. SCK = 0 /\ SCK' = 1 /\ CsclkEdge(wrstb, oaddr(SDI), odata(SDI)) /\ CSB = 0
    BY <1>4 DEF SckRise, FrontDoorOpen, fileVars
  <2>2. CASE wrstb = 1
    <3>1. state = "DATA" /\ count = 7 /\ writemode = 1 /\ mbit = 7
      BY <1>1, <2>1, <2>2 DEF SpiPart, StrobeShape, SameBit, InBits
    <3>2. oaddr(SDI) = addr /\ odata(SDI) = 2 * predata + SDI
      BY <3>1 DEF oaddr, odata
    <3>3. PICK n \in 0 .. 7 : n = count
      BY <1>1 DEF SpiPart, SpiShape
    <3>4. predata % 2^n = mbyte \div 2^(8 - n) /\ n = 7
      BY <1>1, <2>1, <3>1, <3>3 DEF SpiPart, DataTaken
    <3>5. SDI = (mbyte \div 2^(7 - n)) % 2 /\ predata \in 0 .. 127 /\ mbyte \in Byte
      BY <1>1, <3>1, <3>3 DEF SDI, SpiPart, SpiShape
    <3>6. odata(SDI) = mbyte
      BY <3>2, <3>4, <3>5, BitIntoPredata
    <3>7. regs'[a] = IF a = addr THEN Kept(addr, mbyte) ELSE regs[a]
      BY <1>1, <2>1, <2>2, <3>2, <3>6, EdgeWrites
    <3> QED
      BY <2>1, <3>1, <3>7
  <2>3. CASE wrstb # 1
    BY <1>1, <2>1, <2>3, EdgeWrites
  <2> QED
    BY <2>2, <2>3
<1>5. CASE SpiDisabled \/ CsbFall \/ CsbRise \/ SckFall \/ WbbdSetup \/ WbbdDone
           \/ \E r \in Accesses : WbIssue(r)
  <2>1. UNCHANGED fileVars
    BY <1>5 DEF SpiDisabled, CsbFall, CsbRise, SckFall, WbbdSetup, ApplyByte, WbbdDone,
                WbIssue
  <2> QED
    BY <2>1 DEF fileVars
<1> QED
  BY <1>1, <1>2, <1>3, <1>4, <1>5 DEF HkNext, WbTick, Pins, CoreReset

\* A register changes only to a byte that was sent to it (wbbd and the muxes of
\* its outputs with housekeeping_spi.v), provided the core is never reset, the
\* SPI slave stays enabled and three edges of wb_clk_i pass between two of SCK.
THEOREM RegistersAskedFor ==
  ASSUME NobodyResets, MinTicks >= 3
  PROVE  HkSpec => OnlyAskedFor
<1>1. HkInit => AskedInv
  BY AskedInit
<1>2. BackDoorInv /\ AskedInv /\ [HkNext]_hkVars => AskedInv'
  BY AskedStep
<1>3. BackDoorInv /\ AskedInv /\ [HkNext]_hkVars =>
        [\A a \in RegAddrs : regs'[a] # regs[a] =>
           \/ CutByPassThrough
           \/ a = \h0a /\ regs'[a] = 0
           \/ /\ wbbd_state = "RW" /\ req.we = 1 /\ req.sel[lane] = 1
              /\ LaneReg(lane) = a /\ regs'[a] = Kept(a, req.dat[lane])
           \/ /\ SCK = 0 /\ SCK' = 1 /\ state = "DATA" /\ writemode = 1
              /\ mbit = 7 /\ addr = a /\ regs'[a] = Kept(a, mbyte)]_hkVars
  BY ChangesAskedFor
<1> QED
  BY <1>1, <1>2, <1>3, BackDoorInvariant, PTL DEF HkSpec, OnlyAskedFor

-----------------------------------------------------------------------------
(* The core reset and the pass-through.                                    *)

\* Where a step leaves the core in reset, it leaves it at rest.
LEMMA RestsInReset ==
  ASSUME Settled, reset = 1, WbTick \/ Pins
  PROVE  WbbdReset /\ WbbdReset'
<1>1. WbbdReset
  BY DEF Settled
<1>2. /\ wbbd_state = "IDLE" /\ wb_stb = 0 /\ wb_ack_o = 0 /\ wbbd_addr = 0 /\ wbbd_data = 0
      /\ wbbd_sck = 0 /\ wbbd_write = 0 /\ wbbd_busy = 0
  BY <1>1 DEF WbbdReset
<1>3. CASE WbTick
  <2>1. WbbdIdle
    BY <1>2, <1>3 DEF WbTick, WbbdSetup, ApplyByte, WbbdRw, WbbdDone
  <2> QED
    BY <1>1, <1>2, <2>1 DEF WbbdIdle, WbbdReset, reqVars
<1>4. CASE Pins
  BY <1>1, <1>2, <1>4
     DEF Pins, CsbFall, CsbRise, SckRise, SckFall, WbbdReset, wbbdVars, reqVars
<1> QED
  BY <1>1, <1>3, <1>4

\* The pass-through bits rise only in a command: the one that resets the core
\* first, and the one that takes the flash when that has had its effect.
PassInReset ==
  /\ pass_thru_mgmt_delay = 1 => WbbdReset
  /\ pass_thru_mgmt_reset = 1 => WbbdReset \/ state = "COMMAND"

\* A reset that the core's own register asks for has come with an edge of csclk,
\* which is still high when it takes effect.
RegisterReset == Reg(\h0b) = 1 => WbbdReset \/ csclk = 1 \/ ~spi_is_active

ResetInv == PassInReset /\ RegisterReset

LEMMA PassInResetStep ==
  ASSUME PassInReset, [HkNext]_hkVars
  PROVE  PassInReset'
<1> USE DEF pass_thru_mgmt_reset
<1>1. CASE CoreReset
  BY <1>1 DEF CoreReset, WbbdReset, PassInReset
<1>2. CASE SpiDisabled \/ CsbRise
  BY <1>2 DEF SpiDisabled, CsbRise, CsbReset, PassInReset
<1>3. CASE WbTick \/ Pins
  <2>1. Settled
    BY <1>3 DEF WbTick, Pins, CsbFall, CsbRise, SckRise, SckFall
  <2>2. CASE pass_thru_mgmt_reset = 1
    <3>1. reset = 1
      BY <2>2 DEF reset
    <3> QED
      BY <1>3, <2>1, <3>1, RestsInReset DEF PassInReset
  <2>3. CASE pass_thru_mgmt_reset # 1
    <3>1. pass_thru_mgmt_delay # 1 /\ pre_pass_thru_mgmt # 1
      BY <2>3
    <3>2. CASE SckRise /\ spi_is_active /\ CommandBit(SDI)
      <4>1. /\ pass_thru_mgmt_delay' # 1
            /\ pre_pass_thru_mgmt' = 1 => count = 5 /\ state' = "COMMAND"
        BY <3>1, <3>2 DEF CommandBit
      <4> QED
        BY <4>1 DEF PassInReset
    <3>3. CASE SckRise /\ ~(spi_is_active /\ CommandBit(SDI))
      <4>1. UNCHANGED << pass_thru_mgmt_delay, pre_pass_thru_mgmt >>
        BY <3>3 DEF SckRise, PosedgeSck, AddressBit, DataBit, PassBit, spiVars, riseVars,
                    passVars
      <4> QED
        BY <3>1, <4>1 DEF PassInReset
    <3>4. CASE WbTick \/ CsbFall \/ SckFall
      <4>1. UNCHANGED << pass_thru_mgmt_delay, pre_pass_thru_mgmt >>
        BY <3>4 DEF WbTick, CsbFall, SckFall, NegedgeSck, spiVars, riseVars, passVars
      <4> QED
        BY <3>1, <4>1 DEF PassInReset
    <3> QED
      BY <1>2, <1>3, <3>2, <3>3, <3>4 DEF Pins
  <2> QED
    BY <2>2, <2>3
<1>4. CASE UNCHANGED hkVars \/ \E r \in Accesses : WbIssue(r)
  <2>1. UNCHANGED << pass_thru_mgmt_delay, pre_pass_thru_mgmt, state >>
    BY <1>4 DEF WbIssue, hkVars, spiVars, riseVars, passVars
  <2>2. pass_thru_mgmt_reset = 1 => UNCHANGED << wbbdVars, reqVars >>
    BY <1>4 DEF WbIssue, reset, hkVars
  <2> QED
    BY <2>1, <2>2 DEF PassInReset, WbbdReset, wbbdVars, reqVars
<1> QED
  BY <1>1, <1>2, <1>3, <1>4 DEF HkNext

LEMMA RegisterResetStep ==
  ASSUME RegisterReset, [HkNext]_hkVars
  PROVE  RegisterReset'
<1>1. CASE CoreReset
  BY <1>1 DEF CoreReset, WbbdReset, RegisterReset
<1>2. CASE SpiDisabled \/ UNCHANGED hkVars
  BY <1>2 DEF SpiDisabled, hkVars, wbbdVars, reqVars, masterVars, fileVars, RegisterReset,
              WbbdReset, csclk, spi_is_active, spi_is_enabled, Reg
<1>3. CASE WbTick \/ Pins
  <2>1. Settled
    BY <1>3 DEF WbTick, Pins, CsbFall, CsbRise, SckRise, SckFall
  <2>2. CASE Reg(\h0b) = 1
    <3>1. reset = 1
      BY <2>2 DEF reset
    <3> QED
      BY <1>3, <2>1, <3>1, RestsInReset DEF RegisterReset
  <2>3. CASE Reg(\h0b) # 1
    <3>1. CASE UNCHANGED fileVars
      BY <2>3, <3>1 DEF RegisterReset, Reg, fileVars
    <3>2. CASE WbbdIdle /\ MuxReleased /\ ~UNCHANGED fileVars /\ UNCHANGED masterVars
      <4>1. SCK' = 1 /\ wbbd_busy' = 0
        BY <3>2 DEF MuxReleased, WbbdIdle, masterVars
      <4> QED
        BY <4>1 DEF RegisterReset, csclk
    <3>3. CASE WbbdRw
      BY <3>3 DEF WbbdRw, RegisterReset, csclk
    <3>4. CASE SckRise /\ ~UNCHANGED fileVars
      <4>1. SCK' = 1 /\ wbbd_busy' = 0
        BY <3>4 DEF SckRise, FrontDoorOpen, wbbdVars
      <4> QED
        BY <4>1 DEF RegisterReset, csclk
    <3>5. CASE WbbdSetup \/ WbbdDone \/ CsbFall \/ CsbRise \/ SckFall
      BY <3>1, <3>5 DEF WbbdSetup, ApplyByte, WbbdDone, CsbFall, CsbRise, SckFall
    <3> QED
      BY <1>3, <3>1, <3>2, <3>3, <3>4, <3>5 DEF WbTick, WbbdIdle, Pins
  <2> QED
    BY <2>2, <2>3
<1>4. CASE \E r \in Accesses : WbIssue(r)
  <2>1. reset = 0 /\ UNCHANGED fileVars
    BY <1>4 DEF WbIssue
  <2>2. Reg(\h0b) # 1
    BY <2>1 DEF reset
  <2> QED
    BY <2>1, <2>2 DEF RegisterReset, Reg, fileVars
<1> QED
  BY <1>1, <1>2, <1>3, <1>4 DEF HkNext

LEMMA ResetInvariant == HkSpec => []ResetInv
<1>1. HkInit => ResetInv
  <2> SUFFICES ASSUME HkInit PROVE WbbdReset
    BY DEF ResetInv, PassInReset, RegisterReset
  <2> QED
    BY DEF HkInit, WbbdReset
<1>2. ResetInv /\ [HkNext]_hkVars => ResetInv'
  BY PassInResetStep, RegisterResetStep DEF ResetInv
<1> QED
  BY <1>1, <1>2, PTL DEF HkSpec

\* The core is at rest before its flash changes hands and stays so until it gets
\* it back: housekeeping.v resets it a bit of the command before
\* housekeeping_spi.v takes the flash select.
THEOREM PassThroughIsQuiet == HkSpec => []PassThroughQuiet
<1>1. ResetInv => PassThroughQuiet
  BY DEF ResetInv, PassInReset, WbbdReset, PassThroughQuiet
<1> QED
  BY <1>1, ResetInvariant, PTL

\* A reset of the core clocks no register but when the SPI asks for the
\* pass-through while the back door applies a byte: the mux of csclk
\* (housekeeping.v) has no register between wb_rstn_i and the clock.
THEOREM ResetSpares == HkSpec => ResetSparesRegisters
<1>1. ASSUME ResetInv, [HkNext]_hkVars, reset = 1, ~WbbdReset, fileVars' # fileVars
      PROVE  CutByPassThrough
  <2>1. ~Settled /\ ~UNCHANGED hkVars
    BY <1>1 DEF Settled, hkVars
  <2>2. CoreReset
    BY <1>1, <2>1 DEF HkNext, SpiDisabled, WbTick, WbIssue, Pins, CsbFall, CsbRise, SckRise,
                      SckFall
  <2>3. csclk = 0 /\ spi_is_active /\ SCK = 1
    BY <1>1, <2>2 DEF CoreReset, MuxReleased
  <2>4. wbbd_busy = 1 /\ wbbd_sck = 0
    BY <2>3 DEF csclk
  <2>5. Reg(\h0b) # 1
    BY <1>1, <2>3 DEF ResetInv, RegisterReset
  <2>6. pass_thru_mgmt_reset = 1
    BY <1>1, <2>5 DEF reset
  <2> QED
    BY <1>1, <2>3, <2>4, <2>6 DEF ResetInv, PassInReset, CutByPassThrough
<1>2. ResetInv /\ [HkNext]_hkVars =>
        [reset = 1 /\ ~WbbdReset /\ fileVars' # fileVars => CutByPassThrough]_hkVars
  BY <1>1
<1> QED
  BY <1>2, ResetInvariant, PTL DEF HkSpec, ResetSparesRegisters
=============================================================================
