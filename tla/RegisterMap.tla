----------------------------- MODULE RegisterMap -----------------------------
(***************************************************************************)
(* The register tables of housekeeping.v: spiaddr, from the three pages of *)
(* the memory map to the byte-wide SPI registers, the write table of the   *)
(* register block, the read table fdata and the reset values; and the      *)
(* addresses firmware/caravel.h gives to C programs.                       *)
(*                                                                         *)
(* A back-door address is 256 * page + wb_adr_i[7:0], with page 0 for      *)
(* GPIO_BASE_ADR, 1 for SPI_BASE_ADR and 2 for SYS_BASE_ADR.  One bit of   *)
(* the chip's state is << signal, index, bit >>: index is the pad number   *)
(* of gpio_configure and 0 elsewhere.  USE_SRAM_RO_INTERFACE is not        *)
(* defined, so registers 8'h14 to 8'h19 are absent.                        *)
(***************************************************************************)
EXTENDS Integers, Sequences

GpioPage == 0
SpiPage  == 256
SysPage  == 512

RegPads  == 0 .. 37          \* MPRJ_IO_PADS pads
RegBytes == 0 .. 255

\* Registers 8'h1d to 8'h68: two for each pad, high part first.
ConfigHigh(p) == \h1d + 2 * p
ConfigLow(p)  == \h1e + 2 * p
ConfigPad(a)  == (a - \h1d) \div 2
IsConfig(a)   == a \in \h1d .. \h68

-----------------------------------------------------------------------------
(* spiaddr *)

\* The configuration words, from 8'h24: low byte first.
ConfigSpiaddr(l) ==
  LET p == (l - \h24) \div 4
  IN CASE l % 4 = 0 -> ConfigLow(p)
       [] l % 4 = 1 -> ConfigHigh(p)
       [] OTHER     -> 0

\* Mutant: the data word mapped most significant byte first.
BugGpioSpiaddrBigEndian(l) ==
  CASE l = \h00          -> \h13
    [] l = \h04          -> \h6e
    [] l \in \h0c .. \h0f -> \h6a + (l - \h0c)
    [] l = \h10          -> \h69
    [] l \in \h24 .. \hbb -> ConfigSpiaddr(l)
    [] OTHER             -> 0

GpioSpiaddr(l) ==
  CASE l = \h00          -> \h13
    [] l = \h04          -> \h6e
    [] l \in \h0c .. \h0f -> \h6d - (l - \h0c)
    [] l = \h10          -> \h69
    [] l \in \h24 .. \hbb -> ConfigSpiaddr(l)
    [] OTHER             -> 0

SpiSpiaddr(l) ==
  CASE l \in \h04 .. \h06 -> \h03 - (l - \h04)
    [] l \in \h08 .. \h0b -> \h07 - (l - \h08)
    [] l \in {\h0c, \h10, \h14, \h18} -> \h08 + (l - \h0c) \div 4
    [] l \in \h1c .. \h1f -> \h0d + (l - \h1c)
    [] l = \h20          -> \h11
    [] l = \h24          -> \h12
    [] l = \h28          -> \h0c
    [] l \in \h2c .. \h2f -> \h19 - (l - \h2c)
    [] l = \h30          -> \h15
    [] l = \h34          -> \h14
    [] OTHER             -> 0

SysSpiaddr(l) ==
  CASE l = \h00 -> \h1a
    [] l = \h04 -> \h1b
    [] l = \h0c -> \h1c
    [] l = \h10 -> \h6f
    [] OTHER    -> 0

spiaddr(adr) ==
  CASE adr \div 256 = 0 -> GpioSpiaddr(adr % 256)
    [] adr \div 256 = 1 -> SpiSpiaddr(adr % 256)
    [] OTHER            -> SysSpiaddr(adr % 256)

-----------------------------------------------------------------------------
(* Bits lo, lo + 1, ... of a signal; a byte is a sequence of at most eight, *)
(* the least significant one first.                                         *)

Field(sig, lo, w)       == [i \in 1 .. w |-> << sig, 0, lo + i - 1 >>]
PadField(p, lo, w)      == [i \in 1 .. w |-> << "gpio_configure", p, lo + i - 1 >>]
Flag(sig)               == << << sig, 0, 0 >> >>

\* What a write strobe on register a assigns, by group of registers.
ClockingWrite(a) ==
  CASE a = \h08 -> Flag("pll_ena") \o Flag("pll_dco_ena")
    [] a = \h09 -> Flag("pll_bypass")
    [] a = \h0a -> Flag("irq_spi")
    [] a = \h0b -> Flag("reset_reg")
    [] a \in \h0d .. \h0f -> Field("pll_trim", 8 * (a - \h0d), 8)
    [] a = \h10 -> Field("pll_trim", 24, 2)
    [] a = \h11 -> Field("pll_sel", 0, 3) \o Field("pll90_sel", 0, 3)
    [] a = \h12 -> Field("pll_div", 0, 5)
    [] OTHER    -> << >>

SerialWrite ==
  Flag("serial_xfer") \o Flag("serial_bb_enable") \o Flag("serial_bb_resetn")
  \o Flag("serial_bb_load") \o Flag("serial_bb_clock")
  \o Flag("serial_bb_data_1") \o Flag("serial_bb_data_2")

\* Mutant: clock destinations written the wrong way round.
BugMonitorWriteSwapped(a) ==
  IF a = \h1b THEN Flag("trap_output_dest") \o Flag("clk1_output_dest")
                   \o Flag("clk2_output_dest")
              ELSE Flag("irq_1_inputsrc") \o Flag("irq_2_inputsrc")

MonitorWrite(a) ==
  IF a = \h1b THEN Flag("trap_output_dest") \o Flag("clk2_output_dest")
                   \o Flag("clk1_output_dest")
              ELSE Flag("irq_1_inputsrc") \o Flag("irq_2_inputsrc")

ConfigWrite(a) == IF a % 2 = 1 THEN PadField(ConfigPad(a), 8, 5)
                               ELSE PadField(ConfigPad(a), 0, 8)

GpioDataWrite(a) == IF a = \h69 THEN Field("mgmt_gpio_data", 32, 6)
                    ELSE Field("mgmt_gpio_data", 8 * (\h6d - a), 8)

WriteBits(a) ==
  CASE a \in \h08 .. \h12   -> ClockingWrite(a)
    [] a = \h13             -> SerialWrite
    [] a \in {\h1b, \h1c}    -> MonitorWrite(a)
    [] IsConfig(a)          -> ConfigWrite(a)
    [] a \in \h69 .. \h6d   -> GpioDataWrite(a)
    [] a = \h6e             -> Field("pwr_ctrl_out", 0, 4)
    [] a = \h6f             -> Flag("hkspi_disable")
    [] OTHER                -> << >>

\* A register keeps the bits it has; the others are dropped on a write.
Width(a) == Len(WriteBits(a))

Kept(a, d) == d % 2^Width(a)

\* The registers after power-on.
PadReset(p) == IF p < 2 \/ p >= 36 THEN \h1803
               ELSE IF p = 3 THEN \h0801 ELSE \h0403

RegReset(a) ==
  CASE a = \h08 -> 2
    [] a = \h09 -> 1
    [] a \in {\h0d, \h0f} -> \hff
    [] a = \h0e -> \hef
    [] a = \h10 -> 3
    [] a = \h11 -> \h12
    [] a = \h12 -> 4
    [] IsConfig(a) -> IF a % 2 = 1 THEN PadReset(ConfigPad(a)) \div 256
                                   ELSE PadReset(ConfigPad(a)) % 256
    [] OTHER    -> 0

\* What fdata returns for register a, zeros above the bits listed.
fdata(a) ==
  CASE a = \h01 -> Field("mfgr_id", 8, 4)
    [] a = \h02 -> Field("mfgr_id", 0, 8)
    [] a = \h03 -> Field("prod_id", 0, 8)
    [] a \in \h04 .. \h07 -> Field("mask_rev", 8 * (\h07 - a), 8)
    [] a = \h08 -> Flag("pll_ena") \o Flag("pll_dco_ena")
    [] a = \h09 -> Flag("pll_bypass")
    [] a = \h0a -> Flag("irq_spi")
    [] a = \h0b -> Flag("reset")
    [] a = \h0c -> Flag("trap")
    [] a \in \h0d .. \h0f -> Field("pll_trim", 8 * (a - \h0d), 8)
    [] a = \h10 -> Field("pll_trim", 24, 2)
    [] a = \h11 -> Field("pll_sel", 0, 3) \o Field("pll90_sel", 0, 3)
    [] a = \h12 -> Field("pll_div", 0, 5)
    [] a = \h13 -> Flag("serial_busy") \o Flag("serial_bb_enable")
                   \o Flag("serial_bb_resetn") \o Flag("serial_bb_load")
                   \o Flag("serial_bb_clock") \o Flag("serial_data_1")
                   \o Flag("serial_data_2")
    [] a = \h1a -> Flag("usr2_vdd_pwrgood") \o Flag("usr1_vdd_pwrgood")
                   \o Flag("usr2_vcc_pwrgood") \o Flag("usr1_vcc_pwrgood")
    [] a = \h1b -> Flag("trap_output_dest") \o Flag("clk2_output_dest")
                   \o Flag("clk1_output_dest")
    [] a = \h1c -> Flag("irq_1_inputsrc") \o Flag("irq_2_inputsrc")
    [] IsConfig(a) /\ a % 2 = 1 -> PadField(ConfigPad(a), 8, 5)
    [] IsConfig(a) /\ a % 2 = 0 -> PadField(ConfigPad(a), 0, 8)
    [] a = \h69 -> Field("mgmt_gpio_in", 32, 6)
    [] a \in \h6a .. \h6d -> Field("mgmt_gpio_in", 8 * (\h6d - a), 8)
    [] a = \h6e -> Field("pwr_ctrl_out", 0, 4)
    [] a = \h6f -> Flag("hkspi_disable")
    [] OTHER    -> << >>

-----------------------------------------------------------------------------
(* firmware/caravel.h: the register a macro names, by a signal of it. *)

\* reg_hkspi_status names a register that is reserved.
reg_hkspi_status == SpiPage + \h00
reg_irq_source   == SysPage + \h0c

\* The bits caravel.h names, each with its place in the word of its register:
\* reg_power_good, reg_clk_out_dest and reg_irq_source.
HeaderBits ==
  {<< SysPage + \h00, 0, "usr1_vcc_pwrgood" >>, << SysPage + \h00, 1, "usr2_vcc_pwrgood" >>,
   << SysPage + \h00, 2, "usr1_vdd_pwrgood" >>, << SysPage + \h00, 3, "usr2_vdd_pwrgood" >>,
   << SysPage + \h04, 0, "clk1_output_dest" >>, << SysPage + \h04, 1, "clk2_output_dest" >>,
   << SysPage + \h04, 2, "trap_output_dest" >>, << reg_irq_source, 0, "irq_1_inputsrc" >>,
   << reg_irq_source, 1, "irq_2_inputsrc" >>}

HeaderRegs ==
  {<< GpioPage + \h00, "serial_xfer" >>,    << GpioPage + \h04, "pwr_ctrl_out" >>,
   << GpioPage + \h0c, "mgmt_gpio_data" >>, << GpioPage + \h10, "mgmt_gpio_data" >>,
   << SpiPage + \h04, "prod_id" >>,         << SpiPage + \h08, "mask_rev" >>,
   << SpiPage + \h0c, "pll_ena" >>,         << SpiPage + \h10, "pll_bypass" >>,
   << SpiPage + \h14, "irq_spi" >>,         << SpiPage + \h18, "reset_reg" >>,
   << SpiPage + \h28, "trap" >>,            << SpiPage + \h1c, "pll_trim" >>,
   << SpiPage + \h20, "pll_sel" >>,         << SpiPage + \h24, "pll_div" >>,
   << SysPage + \h00, "usr1_vcc_pwrgood" >>, << SysPage + \h04, "clk1_output_dest" >>,
   << SysPage + \h04, "trap_output_dest" >>, << SysPage + \h10, "hkspi_disable" >>,
   << reg_irq_source, "irq_1_inputsrc" >>}

reg_mprj_io(p) == GpioPage + \h24 + 4 * p
=============================================================================
