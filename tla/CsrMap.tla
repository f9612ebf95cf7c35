------------------------------- MODULE CsrMap -------------------------------
(***************************************************************************)
(* The control and status registers of the management core: the header     *)
(* firmware/csr.h gives to C programs (addresses, read and write accessors,*)
(* fields), and the twenty register banks of mgmt_core.v that answer on    *)
(* the bus.                                                                *)
(*                                                                         *)
(* A 32-bit word is the set of the positions of its ones, so that the      *)
(* shifts and masks of the accessors are set operations.  An address is    *)
(* a byte offset from CSR_BASE.                                            *)
(***************************************************************************)
EXTENDS Integers, Sequences, FiniteSets

(* ------------------------------ csr.h ---------------------------------- *)

\* A register with _read and _write accessors, one with _read only, and one
\* of four words for which there is only an address; a field is
\* << name, OFFSET, SIZE >>.
CsrReg(reg, adr, words, access, fields) ==
  [reg |-> reg, adr |-> adr, words |-> words, access |-> access, fields |-> fields]
Rw(reg, adr, fields) == CsrReg(reg, adr, 1, "rw", fields)
Ro(reg, adr, fields) == CsrReg(reg, adr, 1, "ro", fields)
Wide(reg, adr)       == CsrReg(reg, adr, 4, "none", {})

Out(adr) == {Rw("out", adr, {})}

ctrl ==
  {Rw("reset", \h0000, {<< "soc_rst", 0, 1 >>, << "cpu_rst", 1, 1 >>}),
   Rw("scratch", \h0004, {}),
   Ro("bus_errors", \h0008, {})}

debug_mode == Out(\h0800)
debug_oeb  == Out(\h1000)

flash_core ==
  {Rw("mmap_dummy_bits", \h1800, {}),
   Rw("master_cs", \h1804, {}),
   Rw("master_phyconfig", \h1808,
      {<< "len", 0, 8 >>, << "width", 8, 4 >>, << "mask", 16, 8 >>}),
   Rw("master_rxtx", \h180c, {}),
   Ro("master_status", \h1810, {<< "tx_ready", 0, 1 >>, << "rx_ready", 1, 1 >>})}

flash_phy == {Rw("clk_divisor", \h2000, {})}

gpio ==
  {Rw("mode1", \h2800, {}), Rw("mode0", \h2804, {}), Rw("ien", \h2808, {}),
   Rw("oe", \h280c, {}), Ro("in", \h2810, {}), Rw("out", \h2814, {})}

la == {Wide("ien", \h3000), Wide("oe", \h3010), Wide("in", \h3020), Wide("out", \h3030)}

mprj_wb_iena == Out(\h3800)
spi_enabled  == Out(\h4000)

spi_master ==
  {Rw("control", \h4800, {<< "start", 0, 1 >>, << "length", 8, 8 >>}),
   Ro("status", \h4804, {<< "done", 0, 1 >>}),
   Rw("mosi", \h4808, {}),
   Ro("miso", \h480c, {}),
   Rw("cs", \h4810, {<< "sel", 0, 1 >>, << "mode", 16, 1 >>}),
   Rw("loopback", \h4814, {<< "mode", 0, 1 >>}),
   Rw("clk_divider", \h4818, {})}

\* The three registers of an event manager, from adr on.
Events(adr, fields) ==
  {Ro("ev_status", adr, fields), Rw("ev_pending", adr + 4, fields),
   Rw("ev_enable", adr + 8, fields)}

timer0 ==
  {Rw("load", \h5000, {}), Rw("reload", \h5004, {}), Rw("en", \h5008, {}),
   Rw("update_value", \h500c, {}), Ro("value", \h5010, {})}
  \cup Events(\h5014, {<< "zero", 0, 1 >>})

uart ==
  {Rw("rxtx", \h5800, {}), Ro("txfull", \h5804, {}), Ro("rxempty", \h5808, {}),
   Ro("txempty", \h5818, {}), Ro("rxfull", \h581c, {})}
  \cup Events(\h580c, {<< "tx", 0, 1 >>, << "rx", 1, 1 >>})

uart_enabled == Out(\h6000)

UserIrq(adr) ==
  {Ro("in", adr, {}), Rw("mode", adr + 4, {}), Rw("edge", adr + 8, {})}
  \cup Events(adr + 12, {<< "i0", 0, 1 >>})

user_irq_0 == UserIrq(\h6800)
user_irq_1 == UserIrq(\h7000)
user_irq_2 == UserIrq(\h7800)

\* Mutant: the block of user_irq_4 pasted over the one of user_irq_3.
BugUserIrq3Shifted == UserIrq(\h8800)

user_irq_3 == UserIrq(\h8000)
user_irq_4 == UserIrq(\h8800)
user_irq_5 == UserIrq(\h9000)

user_irq_ena == Out(\h9800)

\* Every bank of the header under its name.
CsrHeader ==
  {<< "ctrl", ctrl >>, << "debug_mode", debug_mode >>, << "debug_oeb", debug_oeb >>,
   << "flash_core", flash_core >>, << "flash_phy", flash_phy >>, << "gpio", gpio >>,
   << "la", la >>, << "mprj_wb_iena", mprj_wb_iena >>, << "spi_enabled", spi_enabled >>,
   << "spi_master", spi_master >>, << "timer0", timer0 >>, << "uart", uart >>,
   << "uart_enabled", uart_enabled >>, << "user_irq_0", user_irq_0 >>,
   << "user_irq_1", user_irq_1 >>, << "user_irq_2", user_irq_2 >>,
   << "user_irq_3", user_irq_3 >>, << "user_irq_4", user_irq_4 >>,
   << "user_irq_5", user_irq_5 >>, << "user_irq_ena", user_irq_ena >>}

(* The field accessors, the same text for every field of csr.h. *)

Mask(f) == f[2] .. f[2] + f[3] - 1

extract(oldword, f) == {i - f[2] : i \in oldword \cap Mask(f)}

\* Mutant: the old bits of the field are not masked out.
BugReplaceOrs(oldword, f, plain_value) ==
  oldword \cup {i + f[2] : i \in plain_value \cap 0 .. f[3] - 1}

replace(oldword, f, plain_value) ==
  (oldword \ Mask(f)) \cup {i + f[2] : i \in plain_value \cap 0 .. f[3] - 1}

(* ------------------------------ defs.h --------------------------------- *)

LaBase(reg) == (CHOOSE r \in la : r.reg = reg).adr

\* reg_la<n>_data, _data_in, _oenb and _iena, as registers out, in, oe, ien.
reg_la(reg, n) == LaBase(reg) + 4 * (3 - n)

(* ---------------------------- mgmt_core.v ------------------------------ *)

\* A register of a bank: its name, its width in bits and what a bus write
\* does to it.
Storage(reg, width) == << reg, width, "storage" >>
Status(reg, width)  == << reg, width, "status" >>
Pending(width)      == << "ev_pending", width, "pending" >>
Port(reg, width)    == << reg, width, "port" >>

HwEvents(width) ==
  << Status("ev_status", width), Pending(width), Storage("ev_enable", width) >>

csrbank_ctrl ==
  << Storage("reset", 2), Storage("scratch", 32), Status("bus_errors", 32) >>

csrbank_flash_core ==
  << Storage("mmap_dummy_bits", 8), Storage("master_cs", 1),
     Storage("master_phyconfig", 24), Port("master_rxtx", 32),
     Status("master_status", 2) >>

csrbank_gpio ==
  << Storage("mode1", 1), Storage("mode0", 1), Storage("ien", 1), Storage("oe", 1),
     Status("in", 1), Storage("out", 1) >>

\* Four words of 32 bits each, the most significant word first.
csrbank_la == [i \in 1 .. 16 |->
  IF i <= 4 THEN Storage("ien", 32) ELSE IF i <= 8 THEN Storage("oe", 32)
  ELSE IF i <= 12 THEN Status("in", 32) ELSE Storage("out", 32)]
LaIndex(i) == 3 - ((i - 1) % 4)

csrbank_spi_master ==
  << Storage("control", 16), Status("status", 1), Storage("mosi", 8),
     Status("miso", 8), Storage("cs", 17), Storage("loopback", 1),
     Storage("clk_divider", 16) >>

csrbank_timer0 ==
  << Storage("load", 32), Storage("reload", 32), Storage("en", 1),
     Storage("update_value", 1), Status("value", 32) >> \o HwEvents(1)

csrbank_uart ==
  << Port("rxtx", 8), Status("txfull", 1), Status("rxempty", 1) >> \o HwEvents(2)
  \o << Status("txempty", 1), Status("rxfull", 1) >>

csrbank_gpioin ==
  << Status("in", 1), Storage("mode", 1), Storage("edge", 1) >> \o HwEvents(1)

csrbank_out(width) == << Storage("out", width) >>

\* Bank k answers when bits 13 to 9 of the word address are k.
csrbanks ==
  << << "ctrl", csrbank_ctrl >>, << "debug_mode", csrbank_out(1) >>,
     << "debug_oeb", csrbank_out(1) >>, << "flash_core", csrbank_flash_core >>,
     << "flash_phy", << Storage("clk_divisor", 8) >> >>, << "gpio", csrbank_gpio >>,
     << "la", csrbank_la >>, << "mprj_wb_iena", csrbank_out(1) >>,
     << "spi_enabled", csrbank_out(1) >>, << "spi_master", csrbank_spi_master >>,
     << "timer0", csrbank_timer0 >>, << "uart", csrbank_uart >>,
     << "uart_enabled", csrbank_out(1) >>, << "user_irq_0", csrbank_gpioin >>,
     << "user_irq_1", csrbank_gpioin >>, << "user_irq_2", csrbank_gpioin >>,
     << "user_irq_3", csrbank_gpioin >>, << "user_irq_4", csrbank_gpioin >>,
     << "user_irq_5", csrbank_gpioin >>, << "user_irq_ena", csrbank_out(3) >> >>

\* The register at a byte offset: << bank, register, its place in the bank >>,
\* or << >> where no bank answers.
HwRegister(adr) ==
  LET bank == (adr \div 4) \div 512 + 1
      i    == ((adr \div 4) % 512) + 1
  IN IF bank <= Len(csrbanks) /\ i <= Len(csrbanks[bank][2])
       THEN << csrbanks[bank][1], csrbanks[bank][2][i], i >>
       ELSE << >>

\* Fields whose one makes something happen at each write of the register, not
\* only when it changes: soc_rst and start while the register's _re is up.
Pulses == {<< "ctrl", "reset", "soc_rst" >>, << "spi_master", "control", "start" >>}

\* Clearing uart_ev_pending.rx takes the character at the head of the receive
\* queue with it.
PopsQueue == {<< "uart", "ev_pending", "rx" >>}

\* What the register holds after a bus write of d over s.
AfterWrite(kind, width, s, d) ==
  CASE kind = "storage" -> d \cap 0 .. width - 1
    [] kind = "pending" -> s \ d
    [] OTHER            -> s
=============================================================================
