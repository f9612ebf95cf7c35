# caravel-soc: TLA+ models, checks and proofs

Caravel is a system-on-chip harness: a management core (VexRiscv plus LiteX
peripherals) runs firmware from a serial flash, a *housekeeping* block holds the
chip's control registers and is reachable both from the core and from an
external SPI master, 38 pads are configured through two serial chains, and a user
project sits on the core's bus and logic-analyser probes. This repository is
the FPGA/simulation version: clocks and reset come straight from pads
(`caravel.v:698-703`).

## 1. Inventory

| Part | State | Operations | Talks to |
|---|---|---|---|
| GPIO loader (`housekeeping.v:949-1063`) | `xfer_state`, bit and pad counters, two staging words, `serial_busy` | one step per `wb_clk_i` edge in IDLE, START, XBYTE, LOAD | reads the registers `8'h13` and `8'h1d..8'h68`; drives clock, reset, load and two data wires |
| Pad control blocks (`gpio_control_block.v`, chained in `caravel.v:658-693`) | shift register, half-cycle output flop, latched configuration per pad | shift, show, latch, reset, all by serial wires | the loader or the bit-bang bits of `8'h13` |
| SPI slave (`housekeeping_spi.v`) | command state, bit count, mode flags, address, strobes, pass-through bits | rising and falling SCK, CSB as asynchronous reset | supplies address, data, strobes to the registers; resets the core |
| Back door (`housekeeping.v:703-807`) | `wbbd_state`, address/data/strobe/clock of one byte, `wbbd_busy` | one Wishbone access becomes four byte accesses | takes the register mux away from the SPI while `wbbd_busy` |
| Register file (`housekeeping.v:405-690, 1088-1498`) | about a hundred byte registers | write, read, self-reset at an edge of `csclk` | everything |
| Flash multiplexers (`housekeeping.v:324-338, 883-891`) | none | hand the flash to the SPI pins | the core's flash controller, the flash |
| Shared bus (`mgmt_core.v`) | `grant`, `slave_sel_r`, watchdog `count`, one acknowledge register per slave | arbitrate, decode, acknowledge, time out, once per clock | core, debug UART, memories, flash, user project, housekeeping, CSR banks |
| CSR banks (`mgmt_core.v`) and headers (`csr.h`, `mem.h`, `soc.h`, `defs.h`, `hw/common.h`) | twenty banks of registers | read, write, read-modify-write of a field, arrays over several words | programs |
| UART, `timer0`, interrupts (`mgmt_core.v`, `stub.c`, `isr.c`, `irq_vex.h`) | FIFO, output register, line; timer value, event flags; interrupt mask | print, start the timer, take and leave the interrupt | core |
| Logic analyser and user projects (`user_proj_example.{counter,gcd}.v`) | probe registers, synchroniser; count; `seq_gcd` state and operands | count, load by bus or by probe, iterate a division | core |
| Test programs (`testbench/*/*.c`, `caravel.h`) | program counter | configure pads, request a transfer, poll; then use the user project and show flags | back door, probes, user project |
| Ibex run-time (`simple_system_common.c`) | `time_elapsed`, `time_increment`; timer, counters and CSRs it drives | timer and counter functions, timer interrupt handler, exception report | timer, simulator control |
| Processors (`VexRiscv_*.v`), pads, wrappers, start-up assembly, benches | | | |

What is hard here:

- two clock domains that share one register file through a mux that the slower
  one does not know about (SCK and `wb_clk_i`);
- a word access that takes eight clocks while single-byte accesses run in between;
- acknowledges of all slaves ORed together, a watchdog that ends an access the
  slave still works on, and a slave that looks at the bus only when idle;
- serial protocols in which one cycle too many or too few puts data one place
  off, with flops on both clock edges;
- asynchronous resets: CSB, SPI disable, pass-through and `reset_reg`, each of
  which can fall into any step of the others;
- polling: of a flag that shares its word with other wires, of a result through a
  synchroniser while the previous one is still there, of a FIFO that drains meanwhile;
- 64-bit quantities read and written in 32-bit halves with an interrupt between;
- tables, hand-written and generated, that must agree byte by byte.

What makes the parts correct: every pad gets the word meant for it; a bit-serial
command has the meaning of its byte-level table; the flash is taken from the core
only in reset and without lost or invented clock edges; a register changes only
when and as somebody asked; an acknowledge belongs to the access that sees it and
every access ends; a completion flag, and a test's "passed", is honest; time does
not tear; tables agree. `PROJECT.json` lists the hazards with the properties aimed
at them.

## 2. Modules

**GpioLoader** models loader, serial wires and both chains. One action per loader
state (`Idle`, `Start`, `XByte`, `Load`), joined in `WbClk`; `WriteCtrl`,
`WriteConfig` and `ClearXfer` are edges of `csclk`; `PowerOnReset` is a pulse of
`porb`. `PadEdges` is part of every step that can move a serial wire, so that the
loader, a bit-bang write and a reset all act on the pads the same way. Where a
register write moves clock and data at the same instant the value a flop takes is
a nondeterministic choice. `sent` and `bbUsed` are ghosts. `SerialDataIn` is the
wiring in `caravel.v`.

**MprjFirmware** extends it with the pad set-up of `counter_la.c`, `gcd_la.c` and
`counter_wb.c`, with the true pace of the back door: two clocks from byte to byte, at
least `AccessClocks` from one word to the next, any longer delay allowed.

**HousekeepingSpi** holds the SPI slave as operators (`PosedgeSck`, `NegedgeSck`,
`CsbReset`), reused by three compositions. **SpiBytes** is the abstract
specification: a command byte, an address byte, data bytes, deselection.
**SpiFrontDoor** composes the slave with an SPI master that may raise CSB at any bit
and with plain registers; `ImplementsBytes` is the refinement.

**PassThrough** adds the flash multiplexers. The core's flash controller and the
flash are external: the controller toggles select and clock as it likes and goes
idle once reset, before the next SCK edge; the flash counts rising edges while
selected.

**Housekeeping** composes the slave, the back door and the register file. One step
is one event of one clock domain. Asynchronous consequences (`CoreReset`,
`SpiDisabled`) are actions of their own which must happen before the next event
(`Settled`). `CsclkEdge` is the register block; `GlitchEdge` is the edge that
`csclk` makes when the mux is released while SCK is high, where old or new address,
data and strobe may be taken. `MinTicks` sets how many bus clocks there are at least
between two edges of SCK. The ghost `fd` (front-door writes during a back-door
access) serves `GpioWriteLands` only. Register `8'h13` is left to GpioLoader.

**MgmtBus** is the shared bus, one step per clock: three masters (instruction
fetches are lines of `LineWords` words), `Arbiter`, `Decoder`, `Watchdog`, and the
acknowledge side of each slave as one operator. A master raises a request whenever
it likes. Nothing bounds a slave's answer, in the model as in the code: each odd state
of the flash (`LiteSpi`, states as in `mgmt_core.v:2396-2454`) waits for a crossbar that
the register-driven `flash_core` can hold by its `cs`, and for the PHY; the debug port
waits for `o_cmd_ready`; the back door stays in a SETUP state while the SPI is busy; the
user project answers when it likes or never; an absent slave never does. Any of them
may outlive the watchdog and acknowledge somebody else's access. The back door is that
of Housekeeping, reduced to when it acknowledges. `waited`, `moved` and `late` are
ghosts; `late` holds from a time-out until all slaves are idle.

**RegisterMap** holds the housekeeping tables: `spiaddr`, the write table, `fdata`,
reset values, and the register macros and bit masks of `caravel.h`. A bit is a triple of signal, pad and bit
number, so tables can be compared. **CsrMap** holds `csr.h` (registers, accessors,
fields) beside the banks of `mgmt_core.v` (what answers at which word, how wide, what
a write does to it); a word is the set of its ones, so `extract` and `replace` are set
operations. **BusMap** has the address decoder, the regions of `mem.h`, the
fixed-address registers of `defs.h` and the interrupt numbers of `soc.h`.
**CsrAccess** has the slice and array functions of `hw/common.h` on byte sequences.
**RegisterMapWalk** visits every housekeeping byte, bus word and array shape and
compares the tables there.

**UserProject** is the counter and the GCD project with the probe registers and the
two-flop synchroniser that connect them to the core; a remainder by zero is the
unknown value `X`. **MgmtPeripherals** is the UART's transmit side and `timer0` with
its event manager. **TestPrograms** composes both with the programs as sequences of
accesses, made every 1 to `MaxPace` clocks: the three tests from the end of their pad
set-up on, and `print` of `stub.c` while the timer interrupts into `isr` of `isr.c`.

**SimpleSystem** is `simple_system_common.c`: one step is one access to a device, a
CSR or a 32-bit word of memory. The main program calls the functions in any order;
the timer interrupt and an exception may strike between any two steps. The order of
the two loads of `get_elapsed_time`, which C leaves open, is a choice.

Modules with prefix `MC` give values to constants. The proofs about a module *M* are in
*M*`_proofs`: `GpioLoader`, `MprjFirmware`, `PassThrough` (with those about the SPI
slave alone), `Housekeeping`, `MgmtBus`, `SimpleSystem`, `TestPrograms`,
`RegisterMapWalk`.

## 3. Runs

| Run | Instance | Checks |
|---|---|---|
| loader | 1 pad per chain, 2-bit words, requests, six control words, configuration writes, power-on reset at any time | `TypeOK`, `LoaderInv` (the inductive invariant), `TransferCompletes` |
| firmware_setup | 19 pads per chain, 13 bits, the three programs with their own values | `LoadDelivers`, `BusyBitMeansDone`, `SetupCompletes` |
| spi | ten commands (streaming, fixed length, no-op, all pass-through bits), addresses 18 and 255, core busy with its flash | `PassThroughInReset`, `ResetHeld`, `ImplementsBytes`, `FlashHearsMaster`, `OneFlashOwner` |
| register_tables | 768 housekeeping bytes; 20 words of each of 32 bank slots; the edges of all regions; 96 array shapes | `AddressesTrue`, `ReadBack`, `CsrHeaderTrue`, `FieldWritesKnown`, `BusMapTrue`, `ArraysRoundTrip` |
| doors | two mixes of traffic: the PLL trim word from both doors (word writes but one lane, reads), or pass-through, `reset_reg` and `hkspi_disable` from both doors; `MinTicks = 3` | `BackDoorWriteLands`, `BackDoorReadsTrue`, `OnlyAskedFor`, `PassThroughQuiet`, `ResetSparesRegisters`, `AccessCompletes` |
| mgmt_bus | three masters and the four slaves that answer late or never, 2-word lines, `Timeout = 10` | `AckOwned`, `NotCutShort`, `BytesBeforeAck`, `EveryAccessEnds` |
| test_programs | 4-bit words, every pair of operands, two longer gcd programs, FIFO of two | `ResultIsGcd`, `PassHonest`, `SlaveReadTrue`, `TextIntact`, `IsrOnce`, `IsrNotEarly`, `TestsFinish` |
| simple_timer | words of three values, clock to 5, four kinds of program | `TimerReadTrue`, `NoSpuriousInterrupt`, `ElapsedNotAhead`, `ElapsedTornOnlyAtWrap`, `CountersFresh`, `ReportComplete` |

Violation runs, each a disagreement between code and a statement in the repository
(details in `findings`):

| Run | Statement | What the code does |
|---|---|---|
| lost_write | the back door stalls until the SPI is ready | it stalls with the mux taken; the SPI write is lost |
| gpio_word | all bits of the GPIO data word update together | CSB moving during the access leaves part of the word stale |
| late_ack | the back door holds `wb_ack_o` low until all bytes have been transferred | after a watchdog time-out it acknowledges the next access for the work of the last |
| slice_order | the least significant slice of a CSR is at the lowest address | the most significant one is |

**Bounds.** The loader run uses one pad per chain and two bits because every control
word is possible in every state; longer chains are covered by the firmware run, which
needs no reduction since firmware and loader run nearly in lock step, and by the
theorem, which holds for every length up to 31. SPI addresses include 255 so that the
address counter wraps; the fixed-length counts 1, 2 and 7 include both ends. In `doors`
a behaviour keeps to one of two mixes of traffic (`MixSpec` in MCDoors restricts HkSpec
to it), since the product of the two is too large: in the first, one register of the
word is the SPI's target, so that all lanes but one tell interference from intention; in
the second, core and SPI meet in what resets and disables them. `MinTicks = 3` is the
least value for which `OnlyAskedFor` holds (it holds for 6 as well): with 1 or 2 bus
clocks per half period of SCK the back door can release the mux while SCK is high and a
write is due, and `csclk` makes an edge that clocks in a byte nobody sent. The comment
at `housekeeping.v:358-361` relies on the slow SPI clock silently. In `mgmt_bus` the
time-out is 10 clocks instead of a million: more than the nine a slave takes that is not
kept waiting, so that it ends some accesses in time and cuts others in any state of
their slave. The slaves are those that can wait for ever (a silent user project stands
for an absent slave too); the theorems about the three safety properties cover the ones
that answer at once. A line of two words has a first, a last and a burst between them.
`ErrorLimit` saturates `bus_errors`, which nothing reads back. The words of
`test_programs` are long enough that the count cannot wrap between two polls
(`TestProgramsAssumption`), as 32-bit words are; texts are longer than the FIFO, and
`CharClocks` is longer than the pace of the core, so that it fills. The timer values 3
and 7 expire at every statement of `print`. In `simple_timer` a word of three values
makes both halves of `mtime` and `time_elapsed` carry within the bound; `MaxTime` and
`Bases` keep the clock and the next deadline below the wrap of the double word, which
takes 2^64 clocks in reality. A word of the CSR window beyond the twentieth of a bank
decodes like an absent one. `CHECK_DEADLOCK` is left on throughout.

**Fairness.** `wb_clk_i` is a free-running clock: weak fairness of `WbClk`, `FwClock`,
`WbTick`, of `Clock` in MgmtBus and of `TpNext`, where a step is a clock.
Asynchronous resets take effect: weak fairness of `CoreReset` and `SpiDisabled`. The
processor reaches its next instruction: weak fairness of `FwAccess`, and the bound
`MaxPace` in TestPrograms. Nothing is assumed about SCK, CSB, new bus requests or the
answer of any slave on the bus, hence the premises of `TransferCompletes` (bit-bang mode stays
off) and `AccessCompletes` (the SPI is idle again and again). SimpleSystem states no
liveness.

**Mutants.** Every property has a mutant in the module of the definition it changes
(`Bug...`), such as a swapped wire, a dropped wrap, an arbiter with fixed priority.

**Known limits of the code**, met on the way and not given a run:

- *A reset in mid-access.* A reset of the core drops `wbbd_busy` at once
  (`housekeeping.v:704`), and with SCK high the register clock makes an edge with mixed
  address and data, which `doors` meets. `ResetSparesRegisters` says when: only if the
  SPI's pass-through command asks for the reset while the back door has a byte set up
  and not yet clocked (`CutByPassThrough`); `OnlyAskedFor` excepts that step. In every
  other reset `csclk` stays or falls.
- *Bits in reverse.* The masks `caravel.h:97-106` gives for `reg_power_good` and
  `reg_clk_out_dest` name their bits in the opposite order of `housekeeping.v:451-454`:
  `USER1_VCCD_POWER_GOOD`, 0x01, is `usr2_vdd_pwrgood`, and `CLOCK1_MONITOR`, 0x01,
  sends the trap to the pad. `HeaderBitsKnown`, a part of `AddressesTrue`, states that
  order; the masks of `reg_irq_source` are right.
- *Repeated transfer.* `serial_xfer` is cleared only by a `csclk` edge without write
  strobe (`housekeeping.v:1493`); with nothing but writes after a request the
  transfer runs again.
- *Leaving the poll early.* `while (reg_mprj_xfer == 1)` (`counter_la.c:102`) compares
  the whole word, which the serial data lines share: it may end in mid-transfer.
  `BusyBitMeansDone` is about bit 0 alone.
- *Field writers.* Those of `uart_ev_pending`, `spi_master_control` length and
  `ctrl_reset` `cpu_rst` reach beyond their field (`ReachBeyond`): clearing one UART
  event clears the other, and clearing the receive event pops the receive queue
  (`mgmt_core.v:3321`).
- *A flag without a verdict.* `counter_wb.c` shows `0xAB61` before it reads the
  counter and again if the value is `0x2B3D` (lines 86-88): the flag is the same
  whatever was read.
- *Registers that are not there.* `reg_rw_block0`, `reg_rw_block1`, `reg_ro_block0`
  and `reg_la_sample` (`defs.h:36-38, 86`) select no slave (`BusMapTrue`);
  `reg_debug_data` and `reg_debug_txfull` (`defs.h:50-51`) name addresses `csr.h`
  does not define.
- *Start-up loops.* With SIM defined, `crt0_vex.S:81-83` clears one word of `.bss`
  only; `crt0_ibex.S:65` clears one word past its end (`ble`).
- *Late acknowledges.* A slave that outlives the watchdog can end an access of another
  slave, or of its own, with data nobody asked for (`mgmt_core.v:4893`). `AckOwned`
  confines this to the time until all slaves are idle again; that it happens then
  contradicts no statement of the repository but the one of `late_ack`.
- *The compare value between two writers.* `timecmp_update` writes two halves. When the
  handler runs between them and writes both, the compare register ends up with a high
  half of the one and a low half of the other. `NoSpuriousInterrupt` leaves that case
  out (`old[x] # -1`) and says what holds without it.
- *Comments.* `housekeeping_spi.v:63-64` has the manufacturer ID's low byte at address 1
  and the high bits at 2, `fdata` has them the other way round.

## 4. Proofs

Checked by TLAPS for every value of the constants allowed by the named assumption of
each module (`SizesFit` and `WritesWellTyped`, `FirmwareWellTyped`, `BytesAssumption`,
`HousekeepingAssumption`, `MgmtBusAssumption`, `SimpleSystemAssumption`,
`TestProgramsAssumption`, `WalkAssumption`). A theorem that assumes more says so after ASSUME.

- `TypeCorrect`: `Spec => [](TypeOK /\ CountersAgree)`. That the counters index
  inside `gpio_configure` needs their relation: both are functions of the number of
  words begun, `pad_count_1` modulo 32.
- `LoaderInvariant`, `LoaderDelivers`: `LoadDelivers` speaks of one instant and is
  far from inductive. `LoaderInv` says what the chains hold at every bit: between
  words the *n* pads nearest to the loader hold the last *n* words, latest nearest
  (`ChainHolds`); *c* bits into a word each pad holds the low bits of the earlier word
  above the top *c* bits of the next (`ChainInWord`), staging holds the rest
  (`StagingHolds`), and after a falling edge the output flops show top bits
  (`OutputsShown`). `RisingEdge` and `FallingEdge` are the two lemmas about one bit;
  `WholeWords` joins `ChainInWord` at the last bit to `ChainHolds`.
- `PassInvariant`, `PassThroughSafe`, `ResetIsHeld`: the pass-through bits are set
  at bits 5, 6 and 7 of the command byte. `PassInv` ties them to state and bit count;
  without it neither property is inductive, since nothing else excludes a set
  pass-through bit in an address or data phase.
- `SlaveImplementsBytes`: `FrontSpec => ImplementsBytes`, the refinement. Under
  `ByteInv` the registers of the slave hold, at every bit, what the bits of `mbyte`
  sent so far amount to (`CommandInv`, `AddressInv`, `DataInv`, `ReadOutInv`), so that
  the edge that ends a byte is the step of SpiBytes with that byte and all other
  edges stutter. `ShiftIn` is the lemma about one more bit.
- `FrontDoorPromises`: `PassSpec` implements `FrontSpec`, so the theorems about the
  slave hold with the flash behind it. `FlashIsHeard`, `FlashHasOneOwner`:
  `FlashInv` adds that the flash has taken the bits the master has sent of the byte
  under way, from the first edge in `MGMTPASS` on, and none before.
- `FirmwareInvariant`, `BusyBitIsHonest`, `FirmwareDelivers`: the lemmas of the loader
  are stated for a clock of the loader at which a register may be written while
  bit-bang mode stays off (`TickBase`, `TickTransfer`) and cited here. `FwInv` adds
  that until the request the loader sleeps, and that after it what has been sent
  equals what is in the registers. That the first poll finds the loader started needs `AccessClocks` of
  three or more (`FirmwareWellTyped`); the back door takes eight clocks for a word.
- `WritesLand`, `ReadsAreTrue`: `BackDoorInv` says that the mux is held from the first
  byte of an access on and that every lane already moved is as it was moved. The
  first half keeps the front door out; the second needs that no register lies
  behind two lanes (`OneAddress`, over the whole table of `spiaddr`). Nothing is assumed of
  the SPI, of resets, or of the two clocks. `irq_spi` resets itself, `8'h0b` and
  `8'h69` read as something else, and are excepted.
- `RegistersAskedFor`: under `AskedInv` master and slave count the same bits and a
  strobe of the SPI that comes while the back door finishes has its rising edge
  after the mux is back (`StrobeLate`). It assumes `MinTicks >= 3` and `NobodyResets`;
  TLC finds the property violated without the first, and, if the core may clear
  `hkspi_disable` in the middle of an SPI byte, since the slave then counts other bytes
  than the master sends (no run does that), without the second.
- `PassThroughIsQuiet`, `ResetSpares`: `ResetInv` says that `wbbd` rests while the
  flash is the SPI's, and earlier, once the command byte has asked for the pass-through,
  rests or is about to (`PassInReset`): `housekeeping_spi.v` resets the core one bit
  before it takes the flash's select. A reset that the core's own register asks for
  came with an edge of `csclk`, which is still high when it takes effect
  (`RegisterReset`), so dropping `wbbd_busy` makes no new edge.
- `WatchdogCutsNothingShort`: `count` and `waited` add up to `Timeout` (`WatchInv`).
  `AcknowledgeOwned`, `BytesBeforeAcknowledge`: `SlavesInv` says that, unless `late`, a
  slave that is not idle works for the access on the bus, which it has been given since
  that access had the bus (and the back door has moved as many bytes as its state says),
  so that its acknowledge meets that access. `IdleInv` carries the proof over the end of
  `late`: the access of an idle slave is in its first clock, as the slave would have begun
  otherwise. No bound on any slave's time is
  assumed. A property without the proviso does not hold: `late_ack`.
- `TimerReadIsTrue`, `UpdateIsSilent`, `ElapsedIsNotAhead`, `ElapsedIsTornOnlyAtWrap`,
  `CountersAreFresh`, for words of any size: `SysInv` says what each thread has read or
  written at every step of a function. `ReadInv` keeps a witness for the high word
  that goes with the low word read; `ElapsedInv` relates the count of periods, the
  compare value and what the handler has already seen.
- `ReportIsComplete`: `LogInv` says that the log is a text of the program or nothing and
  behind it, each at its place (`PieceAt`), the pieces of the report printed so far.
  `PrintedTrue` reads the numbers back: the sum of the first *i* characters `puthex` has
  printed of *h* is `h * 16^i` divided by `16^D` (`NextDigit` is one character more), and
  *h* itself when all *D* are printed. Powers and sums are recursive functions; that they
  satisfy their equations follows from `Recursion`, and what holds of all of them from
  `Induction`, with the property given as a set: both rest on the least element of a set
  of naturals (`LeastElement`).
- `ResultIsTheGcd`: no induction over data is needed, since every step of `seq_gcd`
  preserves the common divisors of its two operands (`SameDivisors`), and the greatest of
  them is the result when one is 0. It is partial correctness: that it ends is in
  `TestsFinish`.
- `InterruptIsForTimer`: `AgeInv` follows the event pending since reset through the
  statements that set the timer up: from the clear on it is gone or going, before the
  enable takes effect it is gone, and once the timer is on, its value and the clocks it
  has been on add up to `load` until it fires.
- `PassedIsHonest`, `SlaveReadsItsCount`, `IsrRunsOnce`: `CountInv`,
  `GcdInv`, `SlaveInv` and `IrqInv` say, for each place in a program, what the probes,
  the count and the two synchroniser stages hold there. `Chain` links the tests of
  `gcd_la.c`: the result of the test before, still in the synchroniser, differs from the
  expected one (`TestProgramsAssumption`, true of the values in the file).
- `TextArrives`: `TextInv` says how far print has got at each statement (`Put`, from
  the place of character *i* on the line: *i* plus the newlines up to it, `Place`), that
  exactly that much of the line is sent, being sent or in the FIFO, and that between
  the poll of `txfull` and the write the FIFO keeps its room, whatever isr does.
  Arithmetic on positions takes the place of an induction over the text.
- `EveryWordMapped`: the comparison of address bits in `slave_sel` is membership in one
  stretch of words (`Stretches`), for all 2^30 words; the run looks at the edges only.
- `ArraysKept`: for every length of an array whose bytes an `int` can count (the C code
  keeps the size in one). All rests on one lemma, `Flattened`: what `FlattenSeq` computes
  is the sequence that has each part at its place. With it the slices have a closed form,
  zeros and then the bytes by number (`Slices`), for elements that fill slices
  (`WideWritten`, `WideRead`) and for elements that share one (`NarrowWritten`,
  `NarrowRead`, where `SliceElements` finds the elements of a slice).
- `FieldReplaced`: for every word, value and field, not only those of `csr.h`.

Most invariants above were checked by TLC on the run's instance before they were
proved; the runs keep the properties, `loader` keeps `LoaderInv`.

Two properties were corrected by their proofs: `BackDoorReadsTrue` excludes `8'h69`,
which no instance contains and `fdata` does not read back; `BackDoorWriteLands` no
longer excludes registers the SPI writes meanwhile, which the held mux makes
impossible.

Left to TLC: liveness (`TransferCompletes`, `SetupCompletes`, `AccessCompletes`,
`EveryAccessEnds`, `TestsFinish`; fairness is out of the prover's reach), and the tables
themselves (`AddressesTrue`, `ReadBack`, `CsrHeaderTrue`, `FieldWritesKnown`): they are
finite, and `register_tables` visits every register; a proof would add only the words at
which there is none.

## 5. Plan

1. Done: loader and chains, set-up firmware, SPI slave, pass-through, housekeeping
   tables, both doors; proofs of loader and pass-through bits.
2. Done: shared bus, CSR tables and access functions, user projects with the test
   programs, UART transmitter, timer and interrupt, Ibex run-time.
3. Done: theorems for every safety property of the runs but those left to TLC in
   section 4; refinement of SpiBytes by the slave.
4. Done: the decoder, the array functions and the field accessors for every input.
5. Model next: power-on reset as an action of Housekeeping, user pass-through, pad
   multiplexers, UART receiver and GPIO interrupts, SPI master.

## 6. Not modelled

The VexRiscv cores (generated pipelines, seen only as a bus master that takes
interrupts), port-list wrappers, pad cells, buffers and power pins, start-up
assembly, test benches and simulation models. The serial engines of the SPI master,
the flash controller and the debug UART are library code; their registers are in the
tables and their bus side is in MgmtBus. `debug_regs.v` is two plain words behind a
handshake like the counter's. The UART receiver and the GPIO interrupt inputs are in
the tables only. The pad-side muxing of `gpio_control_block.v` and of housekeeping is
combinational. The optional SRAM read-only interface is not compiled in
(`USE_SRAM_RO_INTERFACE` undefined). The PLL and clock divider were removed from this
version of the chip; their registers remain and are modelled.
