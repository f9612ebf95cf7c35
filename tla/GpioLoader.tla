------------------------------ MODULE GpioLoader ------------------------------
(***************************************************************************)
(* The GPIO serial loader of housekeeping.v and the two chains of          *)
(* gpio_control_block cells that caravel.v wires to it.                    *)
(*                                                                         *)
(* The loader walks gpio_configure from both ends of chain order, shifts   *)
(* every configuration word out MSB first on serial_data_1 / serial_data_2 *)
(* and pulses serial_load.  Pad 0 (chain 1) and the last pad (chain 2) are *)
(* the ones nearest to the loader.  All serial wires can be taken over by  *)
(* the bit-bang bits of control register 8'h13.                            *)
(*                                                                         *)
(* A word is a function from bit positions to bits; a register write is    *)
(* one csclk edge of the register file, seen from the loader.  The ghosts  *)
(* sent and bbUsed are history for the properties: they decide no step of  *)
(* the program.                                                            *)
(***************************************************************************)
EXTENDS Integers

CONSTANTS
  Pads1,         \* MPRJ_IO_PADS_1 (= MPRJ_IO_PADS_2), pads of one chain
  IoCtrlBits,    \* IO_CTRL_BITS, bits of one pad's configuration
  LowBits,       \* bits of a configuration held by its low-byte register
  CtrlWrites,    \* values the bus masters write into register 8'h13
  ConfigWrites,  \* <<pad, half, word>> writes into the configuration registers
  ResetConfig,   \* gpio_configure after power-on
  GpioDefaults   \* gpio_defaults strapped to the control blocks

Bit  == {0, 1}
Word == [0 .. IoCtrlBits - 1 -> Bit]

\* MPRJ_IO_PADS.
MprjIoPads == 2 * Pads1

Pads == 0 .. MprjIoPads - 1

\* What a write of register 8'h13 sets.
Ctrl == [xfer : Bit, enable : Bit, resetn : Bit, load : Bit, clock : Bit,
         data_1 : Bit, data_2 : Bit]

\* pad_count_1 is 5 bits wide, pad_count_2 6 and xfer_count 4: the pad numbers,
\* MPRJ_IO_PADS itself and IO_CTRL_BITS - 1 must fit.
ASSUME SizesFit ==
  /\ Pads1 \in 1 .. 31
  /\ IoCtrlBits \in 2 .. 16
  /\ LowBits \in 1 .. IoCtrlBits

ASSUME WritesWellTyped ==
  /\ CtrlWrites \subseteq Ctrl
  /\ ConfigWrites \subseteq Pads \X {"low", "high"} \X Word
  /\ ResetConfig \in [Pads -> Word]
  /\ GpioDefaults \in [Pads -> Word]

VARIABLES
  \* the loader's registers
  xfer_state, xfer_count, pad_count_1, pad_count_2,
  serial_clock_pre, serial_resetn_pre, serial_load_pre,
  serial_data_staging_1, serial_data_staging_2, serial_busy,
  \* the registers it reads, written through csclk
  ctrl, gpio_configure,
  \* the gpio_control_block cells
  shift_register, serial_data_out, latched,
  \* history: the word staged for each pad, whether bit-bang was on during
  \* the transfer
  sent, bbUsed

loaderVars == << xfer_state, xfer_count, pad_count_1, pad_count_2,
                 serial_clock_pre, serial_resetn_pre, serial_load_pre,
                 serial_data_staging_1, serial_data_staging_2, serial_busy >>
regVars    == << ctrl, gpio_configure >>
padVars    == << shift_register, serial_data_out, latched >>
ghostVars  == << sent, bbUsed >>
vars == << loaderVars, regVars, padVars, ghostVars >>

-----------------------------------------------------------------------------
Zeros == [i \in 0 .. IoCtrlBits - 1 |-> 0]

\* {w[IO_CTRL_BITS-2:0], b}
ShiftIn(w, b) == [i \in 0 .. IoCtrlBits - 1 |-> IF i = 0 THEN b ELSE w[i - 1]]

MSB(w) == w[IoCtrlBits - 1]

\* The wires of the serial interface: bit-bang bits or the loader's outputs.
serial_clock  == IF ctrl.enable = 1 THEN ctrl.clock  ELSE serial_clock_pre
serial_resetn == IF ctrl.enable = 1 THEN ctrl.resetn ELSE serial_resetn_pre
serial_load   == IF ctrl.enable = 1 THEN ctrl.load   ELSE serial_load_pre
serial_data_1 == IF ctrl.enable = 1 THEN ctrl.data_1
                                    ELSE MSB(serial_data_staging_1)
serial_data_2 == IF ctrl.enable = 1 THEN ctrl.data_2
                                    ELSE MSB(serial_data_staging_2)

-----------------------------------------------------------------------------
(* The register 8'h13 reset value and the loader's reset branch. *)
CtrlReset == [xfer |-> 0, enable |-> 0, resetn |-> 0, load |-> 0, clock |-> 0,
              data_1 |-> 0, data_2 |-> 0]

Init ==
  /\ xfer_state = "IDLE"
  /\ xfer_count = 0
  /\ pad_count_1 = Pads1 - 1
  /\ pad_count_2 = Pads1
  /\ serial_clock_pre = 0
  /\ serial_resetn_pre = 0
  /\ serial_load_pre = 0
  /\ serial_data_staging_1 = Zeros
  /\ serial_data_staging_2 = Zeros
  /\ serial_busy = 0
  /\ ctrl = CtrlReset
  /\ gpio_configure = ResetConfig
  /\ shift_register = [p \in Pads |-> Zeros]
  /\ serial_data_out = [p \in Pads |-> 0]
  /\ latched = GpioDefaults
  /\ sent = ResetConfig
  /\ bbUsed = 0

-----------------------------------------------------------------------------
\* Mutant: the data wires of the two chains swapped.
BugSerialDataInSwapped(p, d1, d2) ==
  IF p < Pads1
  THEN IF p = 0 THEN d2 ELSE serial_data_out[p - 1]
  ELSE IF p = MprjIoPads - 1 THEN d1 ELSE serial_data_out[p + 1]

\* Mutant: chain 2 wired in the direction of chain 1.
BugSerialDataInDirection(p, d1, d2) ==
  IF p < Pads1
  THEN IF p = 0 THEN d1 ELSE serial_data_out[p - 1]
  ELSE IF p = Pads1 THEN d2 ELSE serial_data_out[p - 1]

\* serial_data_in of a pad: the wire of its chain, or its neighbour nearer to
\* the loader.
SerialDataIn(p, d1, d2) ==
  IF p < Pads1
  THEN IF p = 0 THEN d1 ELSE serial_data_out[p - 1]
  ELSE IF p = MprjIoPads - 1 THEN d2 ELSE serial_data_out[p + 1]

\* What the control blocks do when the serial wires go from their old to their
\* new values.  A register write may move clock and data (or clock and resetn)
\* at once; the RTL leaves open which value a flop sees then.
PadEdges ==
  LET rise == serial_clock = 0 /\ serial_clock' = 1
      fall == serial_clock = 1 /\ serial_clock' = 0
      load == serial_load = 0 /\ serial_load' = 1
  IN \E d1 \in {serial_data_1, serial_data_1'},
        d2 \in {serial_data_2, serial_data_2'},
        rn \in {serial_resetn, serial_resetn'} :
       IF serial_resetn' = 0 \/ rn = 0
       THEN /\ shift_register' = [p \in Pads |-> Zeros]
            /\ serial_data_out' = [p \in Pads |-> 0]
            /\ latched' = GpioDefaults
       ELSE /\ shift_register' =
                 IF rise THEN [p \in Pads |-> ShiftIn(shift_register[p],
                                                SerialDataIn(p, d1, d2))]
                         ELSE shift_register
            /\ serial_data_out' =
                 IF fall THEN [p \in Pads |-> MSB(shift_register[p])]
                         ELSE serial_data_out
            /\ latched' = IF load THEN shift_register ELSE latched

-----------------------------------------------------------------------------
(* The loader, one action per state, at a rising edge of wb_clk_i. *)

\* Mutant: serial_busy is not raised with the request.
BugIdleNotBusy ==
  /\ xfer_state = "IDLE"
  /\ pad_count_1' = Pads1 - 1
  /\ pad_count_2' = Pads1
  /\ serial_clock_pre' = 0
  /\ serial_load_pre' = 0
  /\ xfer_state' = IF ctrl.xfer = 1 THEN "START" ELSE "IDLE"
  /\ serial_busy' = 0
  /\ bbUsed' = ctrl.enable
  /\ UNCHANGED << xfer_count, serial_data_staging_1, serial_data_staging_2,
                  sent >>

Idle ==
  /\ xfer_state = "IDLE"
  /\ pad_count_1' = Pads1 - 1
  /\ pad_count_2' = Pads1
  /\ serial_clock_pre' = 0
  /\ serial_load_pre' = 0
  /\ xfer_state' = IF ctrl.xfer = 1 THEN "START" ELSE "IDLE"
  /\ serial_busy' = ctrl.xfer
  /\ bbUsed' = ctrl.enable
  /\ UNCHANGED << xfer_count, serial_data_staging_1, serial_data_staging_2,
                  sent >>

\* Mutant: pad_count_1 steps below zero instead of wrapping.
BugStartNoWrap ==
  /\ xfer_state = "START"
  /\ xfer_state' = "XBYTE"
  /\ serial_clock_pre' = 0
  /\ serial_load_pre' = 0
  /\ xfer_count' = 0
  /\ pad_count_1' = pad_count_1 - 1
  /\ pad_count_2' = (pad_count_2 + 1) % 64
  /\ serial_data_staging_1' = gpio_configure[pad_count_1]
  /\ serial_data_staging_2' = gpio_configure[pad_count_2]
  /\ sent' = [sent EXCEPT ![pad_count_1] = gpio_configure[pad_count_1],
                          ![pad_count_2] = gpio_configure[pad_count_2]]
  /\ UNCHANGED << serial_busy, bbUsed >>

Start ==
  /\ xfer_state = "START"
  /\ xfer_state' = "XBYTE"
  /\ serial_clock_pre' = 0
  /\ serial_load_pre' = 0
  /\ xfer_count' = 0
  /\ pad_count_1' = (pad_count_1 - 1) % 32
  /\ pad_count_2' = (pad_count_2 + 1) % 64
  /\ serial_data_staging_1' = gpio_configure[pad_count_1]
  /\ serial_data_staging_2' = gpio_configure[pad_count_2]
  /\ sent' = [sent EXCEPT ![pad_count_1] = gpio_configure[pad_count_1],
                          ![pad_count_2] = gpio_configure[pad_count_2]]
  /\ UNCHANGED << serial_busy, bbUsed >>

XByte ==
  /\ xfer_state = "XBYTE"
  /\ serial_clock_pre' = 1 - serial_clock
  /\ serial_load_pre' = 0
  /\ \/ /\ serial_clock = 0
        /\ IF xfer_count = IoCtrlBits - 1
           THEN /\ xfer_count' = 0
                /\ xfer_state' = IF pad_count_2 = MprjIoPads THEN "LOAD"
                                                             ELSE "START"
           ELSE /\ xfer_count' = (xfer_count + 1) % 16
                /\ UNCHANGED xfer_state
        /\ UNCHANGED << serial_data_staging_1, serial_data_staging_2 >>
     \/ /\ serial_clock = 1
        /\ serial_data_staging_1' = ShiftIn(serial_data_staging_1, 0)
        /\ serial_data_staging_2' = ShiftIn(serial_data_staging_2, 0)
        /\ UNCHANGED << xfer_count, xfer_state >>
  /\ UNCHANGED << pad_count_1, pad_count_2, serial_busy, sent, bbUsed >>

\* Mutant: the strobe counter does not advance, LOAD never ends.
BugLoadStuck ==
  /\ xfer_state = "LOAD"
  /\ serial_clock_pre' = 0
  /\ serial_load_pre' = 0
  /\ UNCHANGED << xfer_state, xfer_count, serial_busy, pad_count_1, pad_count_2,
                  serial_data_staging_1, serial_data_staging_2, sent, bbUsed >>

Load ==
  /\ xfer_state = "LOAD"
  /\ xfer_count' = (xfer_count + 1) % 16
  /\ serial_clock_pre' = IF xfer_count \in 0 .. 2 THEN 0 ELSE serial_clock_pre
  /\ serial_load_pre' = CASE xfer_count = 1 -> 1
                          [] xfer_count \in {0, 2} -> 0
                          [] OTHER -> serial_load_pre
  /\ serial_busy' = IF xfer_count = 2 THEN 0 ELSE serial_busy
  /\ xfer_state' = IF xfer_count = 2 THEN "IDLE" ELSE "LOAD"
  /\ UNCHANGED << pad_count_1, pad_count_2, serial_data_staging_1,
                  serial_data_staging_2, sent, bbUsed >>

\* A rising edge of wb_clk_i: serial_resetn_pre is released on every one.
LoaderTick ==
  /\ serial_resetn_pre' = 1
  /\ Idle \/ Start \/ XByte \/ Load

WbClk == LoaderTick /\ UNCHANGED regVars /\ PadEdges

-----------------------------------------------------------------------------
(* The register file, at a rising edge of csclk. *)

\* Register 8'h13.
WriteCtrl(c) ==
  /\ ctrl' = c
  /\ bbUsed' = IF c.enable = 1 THEN 1 ELSE bbUsed
  /\ UNCHANGED << loaderVars, gpio_configure, sent >>
  /\ PadEdges

\* Registers 8'h1d to 8'h68: the high and the low part of each pad's word.
WriteConfig(p, half, w) ==
  /\ gpio_configure' =
       [gpio_configure EXCEPT ![p] = [i \in 0 .. IoCtrlBits - 1 |->
           IF (half = "low") = (i < LowBits) THEN w[i] ELSE @[i]]]
  /\ UNCHANGED << loaderVars, ctrl, padVars, ghostVars >>

\* A csclk edge without a write strobe (every read makes one).
ClearXfer ==
  /\ ctrl' = [ctrl EXCEPT !.xfer = 0]
  /\ UNCHANGED << loaderVars, gpio_configure, padVars, ghostVars >>

\* Power-on reset: porb falls and rises again.
PowerOnReset ==
  /\ xfer_state' = "IDLE"
  /\ xfer_count' = 0
  /\ pad_count_1' = Pads1 - 1
  /\ pad_count_2' = Pads1
  /\ serial_clock_pre' = 0
  /\ serial_resetn_pre' = 0
  /\ serial_load_pre' = 0
  /\ serial_data_staging_1' = Zeros
  /\ serial_data_staging_2' = Zeros
  /\ serial_busy' = 0
  /\ ctrl' = CtrlReset
  /\ gpio_configure' = ResetConfig
  /\ shift_register' = [p \in Pads |-> Zeros]
  /\ serial_data_out' = [p \in Pads |-> 0]
  /\ latched' = GpioDefaults
  /\ sent' = ResetConfig
  /\ bbUsed' = 0

-----------------------------------------------------------------------------
RegisterAccess ==
  \/ \E c \in CtrlWrites : WriteCtrl(c)
  \/ \E cw \in ConfigWrites : WriteConfig(cw[1], cw[2], cw[3])
  \/ ClearXfer

Next == WbClk \/ RegisterAccess \/ PowerOnReset

\* wb_clk_i is a free-running clock.
Spec == Init /\ [][Next]_vars /\ WF_vars(WbClk)

-----------------------------------------------------------------------------
States == {"IDLE", "START", "XBYTE", "LOAD"}

LoaderTypeOK ==
  /\ xfer_state \in States
  /\ xfer_count \in 0 .. 15
  /\ pad_count_1 \in 0 .. 31
  /\ pad_count_2 \in 0 .. 63
  /\ serial_clock_pre \in Bit
  /\ serial_resetn_pre \in Bit
  /\ serial_load_pre \in Bit
  /\ serial_busy \in Bit
  /\ serial_data_staging_1 \in Word
  /\ serial_data_staging_2 \in Word

RegTypeOK ==
  /\ ctrl \in Ctrl
  /\ gpio_configure \in [Pads -> Word]

PadTypeOK ==
  /\ shift_register \in [Pads -> Word]
  /\ serial_data_out \in [Pads -> Bit]
  /\ latched \in [Pads -> Word]

GhostTypeOK ==
  /\ sent \in [Pads -> Word]
  /\ bbUsed \in Bit

\* Every register holds a value of its width.
TypeOK == LoaderTypeOK /\ RegTypeOK /\ PadTypeOK /\ GhostTypeOK

-----------------------------------------------------------------------------
\* The words of a transfer are numbered from 0 in the order they are staged.
\* WordsBegun counts them; WordPad is the pad a word is meant for and NearPad
\* the pad at a distance from the loader, on chain 1 or 2.
WordsBegun == pad_count_2 - Pads1

WordPad(chain, j) == IF chain = 1 THEN Pads1 - 1 - j ELSE Pads1 + j
NearPad(chain, d) == IF chain = 1 THEN d ELSE MprjIoPads - 1 - d

Chains == {1, 2}
Depths == 0 .. Pads1 - 1

\* The pad counters run in opposite directions and stay inside gpio_configure
\* whenever START uses them, although pad_count_1 wraps below zero after the
\* last word; bit count, strobe, clock and serial_busy agree with the state.
CountersAgree ==
  /\ pad_count_1 = (Pads1 - 1 - WordsBegun) % 32
  /\ xfer_state = "IDLE"  => WordsBegun \in {0, Pads1}
  /\ xfer_state = "START" => WordsBegun \in 0 .. Pads1 - 1
  /\ xfer_state = "XBYTE" => WordsBegun \in 1 .. Pads1
  /\ xfer_state = "LOAD"  => WordsBegun = Pads1
  /\ xfer_state = "XBYTE" => xfer_count < IoCtrlBits
  /\ xfer_state = "LOAD"  => xfer_count <= 2
  /\ serial_load_pre = 1 <=> xfer_state = "LOAD" /\ xfer_count = 2
  /\ xfer_state = "IDLE" => serial_clock_pre = 0
  /\ serial_busy = 1 <=> xfer_state # "IDLE"

\* When the load strobe rises every pad receives the word that was staged for
\* that pad, whatever the chains held before and whatever was written to the
\* configuration registers meanwhile, unless bit-bang mode was used during the
\* transfer (LOAD state of housekeeping.v, shift and latch of
\* gpio_control_block.v, wiring of caravel.v).
LoadDelivers == serial_load_pre = 1 /\ bbUsed = 0 => latched = sent

(* The parts of the inductive invariant behind LoadDelivers. *)

ModesTracked ==
  /\ ctrl.enable = 1 => bbUsed = 1
  /\ xfer_state # "IDLE" => serial_resetn_pre = 1

\* Between words: the n pads nearest to the loader hold the last n words, the
\* most recent one nearest.
ChainHolds(n) ==
  \A k \in Chains, d \in Depths :
    d < n => shift_register[NearPad(k, d)] = sent[WordPad(k, n - 1 - d)]

\* c bits into word n: pad d holds the low bits of the word before, moved up,
\* above the top c bits of the next one.
ChainInWord(n, c) ==
  \A k \in Chains, d \in Depths, i \in 0 .. IoCtrlBits - 1 :
    /\ i >= c /\ d < n =>
         shift_register[NearPad(k, d)][i] = sent[WordPad(k, n - 1 - d)][i - c]
    /\ i < c /\ d <= n =>
         shift_register[NearPad(k, d)][i]
           = sent[WordPad(k, n - d)][IoCtrlBits - c + i]

\* The staging registers hold what is left of word n after c shifts.
StagingHolds(n, c) ==
  \A i \in 0 .. IoCtrlBits - 1 :
    i >= c => /\ serial_data_staging_1[i] = sent[WordPad(1, n)][i - c]
              /\ serial_data_staging_2[i] = sent[WordPad(2, n)][i - c]

\* Half a clock after a shift, serial_data_out shows the top bit.
OutputsShown == \A p \in Pads : serial_data_out[p] = MSB(shift_register[p])

InWord ==
  LET n == WordsBegun - 1 IN
  /\ ChainInWord(n, xfer_count)
  /\ serial_clock_pre = 0 => /\ StagingHolds(n, xfer_count)
                             /\ n > 0 \/ xfer_count > 0 => OutputsShown
  /\ serial_clock_pre = 1 => /\ xfer_count > 0
                             /\ StagingHolds(n, xfer_count - 1)

TransferInv ==
  bbUsed = 0 =>
    /\ xfer_state \in {"START", "LOAD"} => ChainHolds(WordsBegun)
    /\ xfer_state = "START" /\ WordsBegun > 0 => serial_clock_pre = 1
    /\ xfer_state = "XBYTE" => InWord
    /\ serial_load_pre = 1 => latched = sent

LoaderInv == TypeOK /\ CountersAgree /\ ModesTracked /\ TransferInv

\* A transfer ends although bit-bang mode may stop its clock for a while: once
\* bit-bang mode stays off, serial_busy falls.
TransferCompletes ==
  <>[](ctrl.enable = 0) => (serial_busy = 1 ~> serial_busy = 0)
=============================================================================
