-------------------------- MODULE GpioLoader_proofs --------------------------
(***************************************************************************)
(* Proofs about GpioLoader, for every number of pads, word width, set of   *)
(* register writes and set of defaults that satisfy the assumptions.       *)
(***************************************************************************)
EXTENDS GpioLoader, TLAPS

-----------------------------------------------------------------------------
(* Facts about words and wires. *)

\* Shifting a bit into a word gives a word.
LEMMA ShiftInType ==
  ASSUME NEW w \in Word, NEW b \in Bit
  PROVE  ShiftIn(w, b) \in Word
BY SizesFit DEF SizesFit, ShiftIn, Word

\* The all-zero word and the top bit of a word are well typed.
LEMMA WordFacts ==
  /\ Zeros \in Word
  /\ \A w \in Word : MSB(w) \in Bit
BY SizesFit DEF SizesFit, Zeros, MSB, Word, Bit

\* The wires of the serial interface carry bits.
LEMMA WireTypes ==
  ASSUME LoaderTypeOK, RegTypeOK
  PROVE  /\ serial_clock \in Bit
         /\ serial_resetn \in Bit
         /\ serial_load \in Bit
         /\ serial_data_1 \in Bit
         /\ serial_data_2 \in Bit
BY WordFacts DEF LoaderTypeOK, RegTypeOK, Ctrl, serial_clock, serial_resetn,
                 serial_load, serial_data_1, serial_data_2, Bit

\* Every pad's serial input is a bit.
LEMMA SerialDataInType ==
  ASSUME PadTypeOK, NEW d1 \in Bit, NEW d2 \in Bit, NEW p \in Pads
  PROVE  SerialDataIn(p, d1, d2) \in Bit
BY SizesFit DEF SizesFit, PadTypeOK, SerialDataIn, Pads, MprjIoPads

\* The control blocks keep their registers well typed, whatever the wires do.
LEMMA PadEdgesType ==
  ASSUME LoaderTypeOK, RegTypeOK, PadTypeOK, PadEdges,
         LoaderTypeOK', RegTypeOK'
  PROVE  PadTypeOK'
<1>1. /\ serial_data_1 \in Bit /\ serial_data_1' \in Bit
      /\ serial_data_2 \in Bit /\ serial_data_2' \in Bit
  BY WireTypes, WordFacts
     DEF LoaderTypeOK, RegTypeOK, Ctrl, serial_data_1, serial_data_2, Bit
<1>2. /\ shift_register \in [Pads -> Word]
      /\ serial_data_out \in [Pads -> Bit]
      /\ latched \in [Pads -> Word]
  BY DEF PadTypeOK
<1>3. \A d1, d2 \in Bit : \A p \in Pads :
        ShiftIn(shift_register[p], SerialDataIn(p, d1, d2)) \in Word
  BY <1>2, SerialDataInType, ShiftInType
<1>4. \A p \in Pads : MSB(shift_register[p]) \in Bit
  BY <1>2, WordFacts
<1>5. GpioDefaults \in [Pads -> Word] /\ Zeros \in Word /\ 0 \in Bit
  BY WritesWellTyped, WordFacts DEF WritesWellTyped, Bit
<1>6. CASE /\ shift_register' = [p \in Pads |-> Zeros]
           /\ serial_data_out' = [p \in Pads |-> 0]
           /\ latched' = GpioDefaults
  BY <1>5, <1>6 DEF PadTypeOK
<1>7. CASE \E d1 \in {serial_data_1, serial_data_1'},
              d2 \in {serial_data_2, serial_data_2'} :
             /\ \/ shift_register' = shift_register
                \/ shift_register' =
                     [p \in Pads |-> ShiftIn(shift_register[p],
                                             SerialDataIn(p, d1, d2))]
             /\ \/ serial_data_out' = serial_data_out
                \/ serial_data_out' = [p \in Pads |-> MSB(shift_register[p])]
             /\ latched' \in {latched, shift_register}
  BY <1>1, <1>2, <1>3, <1>4, <1>7 DEF PadTypeOK
<1> QED
  BY <1>6, <1>7 DEF PadEdges

-----------------------------------------------------------------------------
(* Type correctness needs the counters: START stages gpio_configure[pad_count] *)

BaseInv == TypeOK /\ CountersAgree

LEMMA BaseInit == Init => BaseInv
<1> SUFFICES ASSUME Init PROVE BaseInv
  OBVIOUS
<1>1. TypeOK
  <2>1. /\ Pads1 \in 1 .. 31
        /\ ResetConfig \in [Pads -> Word]
        /\ GpioDefaults \in [Pads -> Word]
    BY SizesFit, WritesWellTyped DEF SizesFit, WritesWellTyped
  <2>2. CtrlReset \in Ctrl
    BY DEF CtrlReset, Ctrl, Bit
  <2> QED
    <3>1. LoaderTypeOK
      BY <2>1, WordFacts DEF Init, LoaderTypeOK, States, Bit
    <3>2. RegTypeOK
      BY <2>1, <2>2 DEF Init, RegTypeOK
    <3>3. PadTypeOK
      BY <2>1, WordFacts DEF Init, PadTypeOK, Bit
    <3>4. GhostTypeOK
      BY <2>1 DEF Init, GhostTypeOK, Bit
    <3> QED
      BY <3>1, <3>2, <3>3, <3>4 DEF TypeOK
<1>2. CountersAgree
  BY SizesFit DEF SizesFit, Init, CountersAgree, WordsBegun
<1> QED
  BY <1>1, <1>2 DEF BaseInv

\* A power-on reset leads back to the initial values.
LEMMA BaseReset == PowerOnReset => BaseInv'
<1> SUFFICES ASSUME PowerOnReset PROVE BaseInv'
  OBVIOUS
<1>1. /\ Pads1 \in 1 .. 31
      /\ ResetConfig \in [Pads -> Word]
      /\ GpioDefaults \in [Pads -> Word]
      /\ CtrlReset \in Ctrl
  BY SizesFit, WritesWellTyped
     DEF SizesFit, WritesWellTyped, CtrlReset, Ctrl, Bit
<1>2. LoaderTypeOK'
  BY <1>1, WordFacts DEF PowerOnReset, LoaderTypeOK, States, Bit
<1>3. RegTypeOK'
  BY <1>1 DEF PowerOnReset, RegTypeOK
<1>4. PadTypeOK'
  BY <1>1, WordFacts DEF PowerOnReset, PadTypeOK, Bit
<1>5. GhostTypeOK'
  BY <1>1 DEF PowerOnReset, GhostTypeOK, Bit
<1>6. CountersAgree'
  BY SizesFit DEF SizesFit, PowerOnReset, CountersAgree, WordsBegun
<1> QED
  BY <1>2, <1>3, <1>4, <1>5, <1>6 DEF BaseInv, TypeOK

\* The loader's own registers, one action per state.
LEMMA IdleBase ==
  ASSUME BaseInv, Idle, serial_resetn_pre' = 1
  PROVE  LoaderTypeOK' /\ GhostTypeOK' /\ CountersAgree'
<1> USE SizesFit DEF SizesFit
<1>1. LoaderTypeOK'
  BY DEF BaseInv, TypeOK, LoaderTypeOK, RegTypeOK, Ctrl, Bit, Idle, States
<1>2. GhostTypeOK'
  BY DEF BaseInv, TypeOK, GhostTypeOK, RegTypeOK, Ctrl, Bit, Idle
<1>3. CountersAgree'
  BY DEF BaseInv, TypeOK, RegTypeOK, Ctrl, Bit, CountersAgree, WordsBegun, Idle
<1> QED
  BY <1>1, <1>2, <1>3

LEMMA StartBase ==
  ASSUME BaseInv, Start, serial_resetn_pre' = 1
  PROVE  LoaderTypeOK' /\ GhostTypeOK' /\ CountersAgree'
<1> USE SizesFit DEF SizesFit
<1>1. pad_count_1 = Pads1 - 1 - WordsBegun /\ WordsBegun \in 0 .. Pads1 - 1
  BY DEF BaseInv, TypeOK, LoaderTypeOK, CountersAgree, WordsBegun, Start
<1>2. pad_count_1 \in Pads /\ pad_count_2 \in Pads
  BY <1>1 DEF WordsBegun, Pads, MprjIoPads, BaseInv, TypeOK, LoaderTypeOK
<1>3. LoaderTypeOK'
  BY <1>1, <1>2
     DEF BaseInv, TypeOK, LoaderTypeOK, RegTypeOK, Bit, Start, States
<1>4. GhostTypeOK'
  BY <1>2 DEF BaseInv, TypeOK, GhostTypeOK, RegTypeOK, Start
<1>5. CountersAgree'
  BY <1>1 DEF BaseInv, TypeOK, LoaderTypeOK, Bit, CountersAgree, WordsBegun, Start
<1> QED
  BY <1>3, <1>4, <1>5

LEMMA XByteBase ==
  ASSUME BaseInv, XByte, serial_resetn_pre' = 1
  PROVE  LoaderTypeOK' /\ GhostTypeOK' /\ CountersAgree'
<1> USE SizesFit DEF SizesFit
<1>0. serial_clock \in Bit
  BY WireTypes DEF BaseInv, TypeOK
<1>1. LoaderTypeOK'
  <2>1. ShiftIn(serial_data_staging_1, 0) \in Word
    BY ShiftInType DEF BaseInv, TypeOK, LoaderTypeOK, Bit
  <2>2. ShiftIn(serial_data_staging_2, 0) \in Word
    BY ShiftInType DEF BaseInv, TypeOK, LoaderTypeOK, Bit
  <2> QED
    BY <1>0, <2>1, <2>2 DEF BaseInv, TypeOK, LoaderTypeOK, Bit, XByte, States
<1>2. GhostTypeOK'
  BY DEF BaseInv, TypeOK, GhostTypeOK, XByte
<1>3. CountersAgree'
  BY <1>0 DEF BaseInv, TypeOK, LoaderTypeOK, Bit, CountersAgree, WordsBegun,
              XByte, MprjIoPads
<1> QED
  BY <1>1, <1>2, <1>3

LEMMA LoadBase ==
  ASSUME BaseInv, Load, serial_resetn_pre' = 1
  PROVE  LoaderTypeOK' /\ GhostTypeOK' /\ CountersAgree'
<1> USE SizesFit DEF SizesFit
<1>1. xfer_count \in 0 .. 2
  BY DEF BaseInv, TypeOK, LoaderTypeOK, CountersAgree, Load
<1>2. LoaderTypeOK'
  BY <1>1 DEF BaseInv, TypeOK, LoaderTypeOK, Bit, Load, States
<1>3. GhostTypeOK'
  BY DEF BaseInv, TypeOK, GhostTypeOK, Load
<1>4. CountersAgree'
  BY <1>1 DEF BaseInv, TypeOK, LoaderTypeOK, Bit, CountersAgree, WordsBegun, Load
<1> QED
  BY <1>2, <1>3, <1>4

\* A rising edge of wb_clk_i, whatever is written to the registers with it.
LEMMA TickBase ==
  ASSUME BaseInv, LoaderTick, PadEdges, RegTypeOK'
  PROVE  BaseInv'
<1>1. LoaderTypeOK' /\ GhostTypeOK' /\ CountersAgree'
  BY IdleBase, StartBase, XByteBase, LoadBase DEF LoaderTick
<1>2. PadTypeOK'
  BY <1>1, PadEdgesType DEF BaseInv, TypeOK
<1> QED
  BY <1>1, <1>2 DEF BaseInv, TypeOK

\* Every step of the specification keeps the types and the counters.
LEMMA BaseStep == BaseInv /\ [Next]_vars => BaseInv'
<1> SUFFICES ASSUME BaseInv, [Next]_vars PROVE BaseInv'
  OBVIOUS
<1> USE DEF BaseInv
<1>1. CASE WbClk
  <2>1. RegTypeOK'
    BY <1>1 DEF TypeOK, RegTypeOK, WbClk, regVars
  <2> QED
    BY <1>1, <2>1, TickBase DEF WbClk
<1>2. ASSUME NEW c \in CtrlWrites, WriteCtrl(c)
      PROVE  BaseInv'
  <2>1. LoaderTypeOK' /\ CountersAgree'
    BY <1>2 DEF TypeOK, LoaderTypeOK, CountersAgree, WordsBegun, WriteCtrl,
                loaderVars
  <2>2. RegTypeOK'
    BY <1>2, WritesWellTyped
       DEF WritesWellTyped, TypeOK, RegTypeOK, WriteCtrl
  <2>3. GhostTypeOK'
    BY <1>2 DEF TypeOK, GhostTypeOK, Bit, WriteCtrl
  <2>4. PadTypeOK'
    BY <1>2, <2>1, <2>2, PadEdgesType DEF TypeOK, WriteCtrl
  <2> QED
    BY <2>1, <2>2, <2>3, <2>4 DEF TypeOK
<1>3. ASSUME NEW p \in Pads, NEW half \in {"low", "high"}, NEW w \in Word,
             WriteConfig(p, half, w)
      PROVE  BaseInv'
  <2>1. gpio_configure' \in [Pads -> Word]
    BY <1>3 DEF TypeOK, RegTypeOK, WriteConfig, Word
  <2>2. RegTypeOK'
    BY <1>3, <2>1 DEF TypeOK, RegTypeOK, WriteConfig
  <2> QED
    BY <1>3, <2>2
       DEF TypeOK, LoaderTypeOK, PadTypeOK, GhostTypeOK, CountersAgree,
           WordsBegun, WriteConfig, loaderVars, padVars, ghostVars
<1>4. CASE ClearXfer
  <2>1. RegTypeOK'
    BY <1>4 DEF TypeOK, RegTypeOK, Ctrl, Bit, ClearXfer
  <2> QED
    BY <1>4, <2>1
       DEF TypeOK, LoaderTypeOK, PadTypeOK, GhostTypeOK, CountersAgree,
           WordsBegun, ClearXfer, loaderVars, padVars, ghostVars
<1>5. CASE PowerOnReset
  BY <1>5, BaseReset
<1>6. CASE UNCHANGED vars
  BY <1>6 DEF TypeOK, LoaderTypeOK, RegTypeOK, PadTypeOK, GhostTypeOK,
              CountersAgree, WordsBegun, vars, loaderVars, regVars, padVars,
              ghostVars
<1> QED
  <2>1. \A cw \in ConfigWrites :
          cw[1] \in Pads /\ cw[2] \in {"low", "high"} /\ cw[3] \in Word
    BY WritesWellTyped DEF WritesWellTyped
  <2> QED
    BY <1>1, <1>2, <1>3, <1>4, <1>5, <1>6, <2>1 DEF Next, RegisterAccess

\* Every register keeps its width and every index into gpio_configure is a pad,
\* for every chain length and word width the counters were sized for.
THEOREM TypeCorrect == Spec => [](TypeOK /\ CountersAgree)
<1>1. Init => BaseInv
  BY BaseInit
<1>2. BaseInv /\ [Next]_vars => BaseInv'
  BY BaseStep
<1> QED
  BY <1>1, <1>2, PTL DEF Spec, BaseInv

-----------------------------------------------------------------------------
(* What a transfer delivers. *)

\* The pads are the positions of the two chains, and a pad's serial input comes
\* from the position before it.
LEMMA NearPads ==
  /\ \A k \in Chains, d \in Depths : NearPad(k, d) \in Pads
  /\ \A k \in Chains, d \in Depths : WordPad(k, d) \in Pads
  /\ \A p \in Pads : \E k \in Chains, d \in Depths : p = NearPad(k, d)
<1> USE SizesFit DEF SizesFit, Chains, Depths, Pads, MprjIoPads
<1>1. \A k \in Chains, d \in Depths : NearPad(k, d) \in Pads
  BY DEF NearPad
<1>2. \A k \in Chains, d \in Depths : WordPad(k, d) \in Pads
  BY DEF WordPad
<1>3. ASSUME NEW p \in Pads
      PROVE  \E k \in Chains, d \in Depths : p = NearPad(k, d)
  <2>1. CASE p < Pads1
    <3>1. p \in Depths /\ p = NearPad(1, p)
      BY <2>1 DEF NearPad
    <3> QED
      BY <3>1
  <2>2. CASE p >= Pads1
    <3>1. MprjIoPads - 1 - p \in Depths /\ p = NearPad(2, MprjIoPads - 1 - p)
      BY <2>2 DEF NearPad
    <3> QED
      BY <3>1
  <2> QED
    BY <2>1, <2>2
<1> QED
  BY <1>1, <1>2, <1>3

LEMMA ChainInput ==
  ASSUME NEW k \in Chains, NEW d \in Depths, NEW d1, NEW d2
  PROVE  SerialDataIn(NearPad(k, d), d1, d2) =
           IF d = 0 THEN IF k = 1 THEN d1 ELSE d2
                    ELSE serial_data_out[NearPad(k, d - 1)]
<1> USE SizesFit DEF SizesFit, Chains, Depths, MprjIoPads
<1>1. CASE k = 1
  BY <1>1 DEF SerialDataIn, NearPad
<1>2. CASE k = 2
  BY <1>2 DEF SerialDataIn, NearPad
<1> QED
  BY <1>1, <1>2

\* With bit-bang mode off and reset released, the control blocks see only the
\* loader's own clock and strobe.
LEMMA PlainEdges ==
  ASSUME LoaderTypeOK, PadEdges, ctrl.enable = 0, ctrl'.enable = 0,
         serial_resetn_pre = 1, serial_resetn_pre' = 1
  PROVE  /\ serial_clock_pre = 0 /\ serial_clock_pre' = 1
              /\ UNCHANGED << serial_data_staging_1, serial_data_staging_2 >>
            => /\ shift_register' =
                    [p \in Pads |-> ShiftIn(shift_register[p],
                       SerialDataIn(p, MSB(serial_data_staging_1),
                                       MSB(serial_data_staging_2)))]
               /\ serial_data_out' = serial_data_out
         /\ serial_clock_pre = 1 /\ serial_clock_pre' = 0
            => /\ shift_register' = shift_register
               /\ serial_data_out' = [p \in Pads |-> MSB(shift_register[p])]
         /\ serial_clock_pre = serial_clock_pre'
            => UNCHANGED << shift_register, serial_data_out >>
         /\ latched' = IF serial_load_pre = 0 /\ serial_load_pre' = 1
                       THEN shift_register ELSE latched
<1>1. /\ serial_clock = serial_clock_pre /\ serial_clock' = serial_clock_pre'
      /\ serial_load = serial_load_pre /\ serial_load' = serial_load_pre'
      /\ serial_resetn = 1 /\ serial_resetn' = 1
      /\ serial_data_1 = MSB(serial_data_staging_1)
      /\ serial_data_1' = MSB(serial_data_staging_1')
      /\ serial_data_2 = MSB(serial_data_staging_2)
      /\ serial_data_2' = MSB(serial_data_staging_2')
  BY DEF serial_clock, serial_load, serial_resetn, serial_data_1,
         serial_data_2, MSB
<1> QED
  BY <1>1 DEF PadEdges, MSB

LEMMA TransferInit == Init => ModesTracked /\ TransferInv
BY DEF Init, CtrlReset, ModesTracked, TransferInv

LEMMA TransferReset == PowerOnReset => ModesTracked' /\ TransferInv'
BY DEF PowerOnReset, CtrlReset, ModesTracked, TransferInv

\* Once bit-bang mode has stayed off in a running transfer, the wires are the
\* loader's.
LEMMA PlainWires ==
  ASSUME BaseInv, ModesTracked, bbUsed = 0, xfer_state # "IDLE"
  PROVE  ctrl.enable = 0 /\ serial_resetn_pre = 1 /\ serial_clock = serial_clock_pre
BY DEF BaseInv, TypeOK, RegTypeOK, Ctrl, Bit, ModesTracked, serial_clock

\* START stages the next word and shows the last bit of the one before.
LEMMA StartTransfer ==
  ASSUME LoaderInv, Start, serial_resetn_pre' = 1, PadEdges,
         BaseInv', bbUsed' = 0, ctrl'.enable = ctrl.enable
  PROVE  InWord'
<1> USE SizesFit DEF SizesFit
<1>0. BaseInv /\ ModesTracked /\ bbUsed = 0 /\ xfer_state = "START"
  BY DEF LoaderInv, BaseInv, Start
<1> PICK n \in 0 .. Pads1 - 1 : n = WordsBegun
  BY <1>0 DEF BaseInv, CountersAgree
<1>1. ChainHolds(n) /\ (n > 0 => serial_clock_pre = 1)
  BY <1>0 DEF LoaderInv, TransferInv
<1>2. /\ n \in Depths
      /\ pad_count_1 = WordPad(1, n) /\ pad_count_2 = WordPad(2, n)
      /\ WordsBegun' - 1 = n
  <2>1. pad_count_2 \in 0 .. 63 /\ pad_count_2 = Pads1 + n
    BY <1>0 DEF BaseInv, TypeOK, LoaderTypeOK, WordsBegun
  <2>2. pad_count_1 = Pads1 - 1 - n
    BY <1>0 DEF BaseInv, CountersAgree
  <2>3. pad_count_2' = Pads1 + n + 1
    BY <2>1 DEF Start
  <2> QED
    BY <2>1, <2>2, <2>3 DEF WordsBegun, Depths, WordPad
<1>3. xfer_count' = 0 /\ serial_clock_pre' = 0
  BY DEF Start
<1>4. /\ shift_register' = shift_register
      /\ n > 0 => serial_data_out' = [p \in Pads |-> MSB(shift_register[p])]
  <2>1. ctrl.enable = 0 /\ ctrl'.enable = 0 /\ serial_resetn_pre = 1
    BY <1>0, PlainWires
  <2>2. LoaderTypeOK
    BY <1>0 DEF BaseInv, TypeOK
  <2>3. serial_clock_pre \in {0, 1}
    BY <2>2 DEF LoaderTypeOK, Bit
  <2> QED
    BY <1>1, <1>3, <2>1, <2>2, <2>3, PlainEdges
<1>5. /\ sent \in [Pads -> Word] /\ gpio_configure \in [Pads -> Word]
      /\ shift_register \in [Pads -> Word]
  BY <1>0 DEF BaseInv, TypeOK, GhostTypeOK, RegTypeOK, PadTypeOK
<1>6. /\ sent'[WordPad(1, n)] = gpio_configure[WordPad(1, n)]
      /\ sent'[WordPad(2, n)] = gpio_configure[WordPad(2, n)]
  <2>1. WordPad(1, n) \in Pads /\ WordPad(2, n) \in Pads
    BY <1>2, NearPads DEF Chains
  <2> QED
    BY <1>2, <1>5, <2>1 DEF Start
<1>7. ASSUME NEW k \in Chains, NEW j \in Depths, j < n
      PROVE  sent'[WordPad(k, j)] = sent[WordPad(k, j)]
  <2>1. WordPad(k, j) # WordPad(1, n) /\ WordPad(k, j) # WordPad(2, n)
    BY <1>2, <1>7 DEF WordPad, Chains, Depths
  <2>2. WordPad(k, j) \in Pads
    BY NearPads
  <2> QED
    BY <1>2, <1>5, <2>1, <2>2 DEF Start
<1>8. ChainInWord(n, 0)'
  <2> SUFFICES ASSUME NEW k \in Chains, NEW d \in Depths,
                      NEW i \in 0 .. IoCtrlBits - 1, d < n
               PROVE  shift_register'[NearPad(k, d)][i]
                        = sent'[WordPad(k, n - 1 - d)][i]
    BY <1>2 DEF ChainInWord, WordPad, NearPad
  <2>1. n - 1 - d \in Depths /\ n - 1 - d < n
    BY <1>2 DEF Depths
  <2> QED
    BY <1>1, <1>4, <1>7, <2>1 DEF ChainHolds
<1>9. StagingHolds(n, 0)'
  BY <1>2, <1>6 DEF StagingHolds, Start
<1>10. n > 0 => OutputsShown'
  BY <1>4, <1>5 DEF OutputsShown, MSB
<1> QED
  BY <1>2, <1>3, <1>8, <1>9, <1>10 DEF InWord

\* A rising clock edge moves every bit of both chains one place on.
LEMMA RisingEdge ==
  ASSUME LoaderInv, XByte, serial_resetn_pre' = 1, PadEdges,
         ctrl'.enable = ctrl.enable, bbUsed = 0, serial_clock_pre = 0,
         NEW n \in 0 .. Pads1 - 1, n = WordsBegun - 1,
         NEW c \in 0 .. IoCtrlBits - 1, c = xfer_count
  PROVE  ChainInWord(n, c + 1)' /\ serial_clock_pre' = 1
<1> USE SizesFit DEF SizesFit
<1>1. BaseInv /\ ModesTracked /\ xfer_state = "XBYTE" /\ InWord
  BY DEF LoaderInv, BaseInv, TransferInv, XByte
<1>2. /\ ctrl.enable = 0 /\ ctrl'.enable = 0 /\ serial_resetn_pre = 1
      /\ serial_clock = 0
  BY <1>1, PlainWires
<1>3. /\ serial_clock_pre' = 1
      /\ UNCHANGED << serial_data_staging_1, serial_data_staging_2, sent >>
  BY <1>2 DEF XByte
<1>4. shift_register' = [p \in Pads |-> ShiftIn(shift_register[p],
                           SerialDataIn(p, MSB(serial_data_staging_1),
                                           MSB(serial_data_staging_2)))]
  BY <1>1, <1>2, <1>3, PlainEdges DEF BaseInv, TypeOK
<1>5. ChainInWord(n, c) /\ StagingHolds(n, c) /\ (n > 0 \/ c > 0 => OutputsShown)
  BY <1>1 DEF InWord
<1> SUFFICES ASSUME NEW k \in Chains, NEW d \in Depths,
                    NEW i \in 0 .. IoCtrlBits - 1
             PROVE  /\ i >= c + 1 /\ d < n =>
                         shift_register'[NearPad(k, d)][i]
                           = sent[WordPad(k, n - 1 - d)][i - (c + 1)]
                    /\ i < c + 1 /\ d <= n =>
                         shift_register'[NearPad(k, d)][i]
                           = sent[WordPad(k, n - d)][IoCtrlBits - (c + 1) + i]
  BY <1>3 DEF ChainInWord, NearPad, WordPad
<1> DEFINE in == SerialDataIn(NearPad(k, d), MSB(serial_data_staging_1),
                              MSB(serial_data_staging_2))
<1>6. shift_register'[NearPad(k, d)][i]
        = IF i = 0 THEN in ELSE shift_register[NearPad(k, d)][i - 1]
  BY <1>4, NearPads DEF ShiftIn
<1>7. CASE i > 0
  <2>1. i - 1 \in 0 .. IoCtrlBits - 1
    BY <1>7
  <2> QED
    BY <1>5, <1>6, <1>7, <2>1 DEF ChainInWord
<1>8. CASE i = 0 /\ d <= n
  <2>1. IoCtrlBits - 1 \in 0 .. IoCtrlBits - 1 /\ IoCtrlBits - 1 >= c
    OBVIOUS
  <2>2. CASE d = 0
    <3>1. in = IF k = 1 THEN serial_data_staging_1[IoCtrlBits - 1]
                        ELSE serial_data_staging_2[IoCtrlBits - 1]
      BY <2>2, ChainInput DEF MSB
    <3>2. in = sent[WordPad(k, n)][IoCtrlBits - 1 - c]
      BY <1>5, <2>1, <3>1 DEF StagingHolds, Chains
    <3>3. n - d = n /\ IoCtrlBits - (c + 1) + i = IoCtrlBits - 1 - c
      BY <1>8, <2>2
    <3> QED
      BY <1>6, <1>8, <2>2, <3>2, <3>3
  <2>3. CASE d > 0
    <3>1. d - 1 \in Depths /\ d - 1 < n
      BY <1>8, <2>3 DEF Depths
    <3>2. in = serial_data_out[NearPad(k, d - 1)]
      BY <2>3, ChainInput DEF Depths
    <3>3. in = shift_register[NearPad(k, d - 1)][IoCtrlBits - 1]
      <4>1. OutputsShown
        BY <1>5, <3>1 DEF Depths
      <4>2. NearPad(k, d - 1) \in Pads
        BY <3>1, NearPads
      <4> QED
        BY <3>2, <4>1, <4>2 DEF OutputsShown, MSB
    <3>4. in = sent[WordPad(k, n - 1 - (d - 1))][IoCtrlBits - 1 - c]
      BY <1>5, <2>1, <3>1, <3>3 DEF ChainInWord
    <3>5. /\ n - 1 - (d - 1) = n - d
          /\ IoCtrlBits - (c + 1) + i = IoCtrlBits - 1 - c
      BY <1>8 DEF Depths
    <3> QED
      BY <1>6, <1>8, <2>3, <3>4, <3>5
  <2> QED
    BY <2>2, <2>3 DEF Depths
<1> QED
  BY <1>7, <1>8 DEF Depths

\* Words with the same bits are the same word.
LEMMA WordEquality ==
  ASSUME NEW v \in Word, NEW w \in Word,
         \A i \in 0 .. IoCtrlBits - 1 : v[i] = w[i]
  PROVE  v = w
<1>1. v = [i \in 0 .. IoCtrlBits - 1 |-> v[i]] /\ w = [i \in 0 .. IoCtrlBits - 1 |-> w[i]]
  BY Zenon DEF Word
<1> QED
  BY <1>1, Zenon

\* The last bit of a word leaves whole words in the chains.
LEMMA WholeWords ==
  ASSUME TypeOK', NEW n \in 0 .. Pads1 - 1, ChainInWord(n, IoCtrlBits)'
  PROVE  ChainHolds(n + 1)'
<1> USE SizesFit DEF SizesFit
<1> SUFFICES ASSUME NEW k \in Chains, NEW d \in Depths, d < n + 1
             PROVE  shift_register'[NearPad(k, d)] = sent'[WordPad(k, n - d)]
  <2>1. \A k \in Chains, d \in Depths : n + 1 - 1 - d = n - d
    BY DEF Depths
  <2> QED
    BY <2>1 DEF ChainHolds, NearPad, WordPad
<1>1. n - d \in Depths
  BY DEF Depths
<1>2. shift_register'[NearPad(k, d)] \in Word /\ sent'[WordPad(k, n - d)] \in Word
  BY <1>1, NearPads DEF TypeOK, PadTypeOK, GhostTypeOK
<1>3. \A i \in 0 .. IoCtrlBits - 1 :
        shift_register'[NearPad(k, d)][i] = sent'[WordPad(k, n - d)][i]
  <2> TAKE i \in 0 .. IoCtrlBits - 1
  <2>1. i < IoCtrlBits /\ d <= n /\ IoCtrlBits - IoCtrlBits + i = i
    BY DEF Depths
  <2> QED
    BY <2>1 DEF ChainInWord, NearPad, WordPad
<1> HIDE DEF SizesFit
<1> QED
  BY <1>2, <1>3, WordEquality

\* A falling clock edge shows the top bits and shifts the staging registers.
LEMMA FallingEdge ==
  ASSUME LoaderInv, XByte, serial_resetn_pre' = 1, PadEdges,
         ctrl'.enable = ctrl.enable, bbUsed = 0, serial_clock_pre = 1,
         NEW n \in 0 .. Pads1 - 1, n = WordsBegun - 1,
         NEW c \in 0 .. IoCtrlBits - 1, c = xfer_count
  PROVE  /\ ChainInWord(n, c)' /\ StagingHolds(n, c)' /\ OutputsShown'
         /\ serial_clock_pre' = 0
<1> USE SizesFit DEF SizesFit
<1>1. BaseInv /\ ModesTracked /\ xfer_state = "XBYTE" /\ InWord
  BY DEF LoaderInv, BaseInv, TransferInv, XByte
<1>2. /\ ctrl.enable = 0 /\ ctrl'.enable = 0 /\ serial_resetn_pre = 1
      /\ serial_clock = 1
  BY <1>1, PlainWires
<1>3. /\ serial_clock_pre' = 0 /\ sent' = sent
      /\ serial_data_staging_1' = ShiftIn(serial_data_staging_1, 0)
      /\ serial_data_staging_2' = ShiftIn(serial_data_staging_2, 0)
  BY <1>2 DEF XByte
<1>4. /\ shift_register' = shift_register
      /\ serial_data_out' = [p \in Pads |-> MSB(shift_register[p])]
  BY <1>1, <1>2, <1>3, PlainEdges DEF BaseInv, TypeOK
<1>5. ChainInWord(n, c) /\ StagingHolds(n, c - 1) /\ c > 0
  BY <1>1 DEF InWord
<1>6. ChainInWord(n, c)'
  BY <1>3, <1>4, <1>5 DEF ChainInWord, NearPad, WordPad
<1>7. StagingHolds(n, c)'
  <2> SUFFICES ASSUME NEW i \in 0 .. IoCtrlBits - 1, i >= c
               PROVE  /\ serial_data_staging_1'[i] = sent[WordPad(1, n)][i - c]
                      /\ serial_data_staging_2'[i] = sent[WordPad(2, n)][i - c]
    BY <1>3 DEF StagingHolds, WordPad
  <2>1. i - 1 \in 0 .. IoCtrlBits - 1 /\ i - 1 >= c - 1 /\ i # 0
    BY <1>5
  <2>2. i - 1 - (c - 1) = i - c
    OBVIOUS
  <2>3. /\ serial_data_staging_1'[i] = serial_data_staging_1[i - 1]
        /\ serial_data_staging_2'[i] = serial_data_staging_2[i - 1]
    BY <1>3, <2>1 DEF ShiftIn
  <2> QED
    BY <1>5, <2>1, <2>2, <2>3 DEF StagingHolds
<1>8. OutputsShown'
  BY <1>4 DEF OutputsShown, MSB
<1> QED
  BY <1>3, <1>6, <1>7, <1>8

\* XBYTE: a half clock inside a word, or the last bit of it.
LEMMA XByteTransfer ==
  ASSUME LoaderInv, XByte, serial_resetn_pre' = 1, PadEdges,
         BaseInv', bbUsed' = 0, ctrl'.enable = ctrl.enable
  PROVE  TransferInv'
<1> USE SizesFit DEF SizesFit
<1>1. BaseInv /\ ModesTracked /\ bbUsed = 0 /\ xfer_state = "XBYTE" /\ InWord
  BY DEF LoaderInv, BaseInv, TransferInv, XByte
<1> PICK n \in 0 .. Pads1 - 1 : n = WordsBegun - 1
  BY <1>1 DEF BaseInv, TypeOK, LoaderTypeOK, CountersAgree, WordsBegun
<1> PICK c \in 0 .. IoCtrlBits - 1 : c = xfer_count
  BY <1>1 DEF BaseInv, TypeOK, LoaderTypeOK, CountersAgree
<1>2. /\ WordsBegun' = n + 1 /\ WordsBegun' - 1 = n
      /\ serial_load_pre' = 0
      /\ serial_clock_pre \in {0, 1} /\ serial_clock = serial_clock_pre
  <2>1. WordsBegun' = WordsBegun
    BY DEF XByte, WordsBegun
  <2>2. WordsBegun \in 1 .. Pads1
    BY <1>1 DEF BaseInv, CountersAgree
  <2> QED
    BY <1>1, <2>1, <2>2, PlainWires
       DEF BaseInv, TypeOK, LoaderTypeOK, Bit, XByte
<1>3. CASE serial_clock_pre = 1
  <2>1. /\ ChainInWord(n, c)' /\ StagingHolds(n, c)' /\ OutputsShown'
        /\ serial_clock_pre' = 0
    BY <1>1, <1>3, FallingEdge
  <2>2. xfer_count' = c /\ xfer_state' = "XBYTE"
    BY <1>1, <1>2, <1>3 DEF XByte
  <2>3. InWord'
    BY <1>2, <2>1, <2>2 DEF InWord
  <2> QED
    BY <1>2, <2>2, <2>3 DEF TransferInv
<1>4. CASE serial_clock_pre = 0 /\ c < IoCtrlBits - 1
  <2>1. ChainInWord(n, c + 1)' /\ serial_clock_pre' = 1
    BY <1>1, <1>4, RisingEdge
  <2>2. /\ xfer_count' = c + 1 /\ xfer_state' = "XBYTE"
        /\ UNCHANGED << serial_data_staging_1, serial_data_staging_2, sent >>
    BY <1>1, <1>2, <1>4 DEF XByte
  <2>3. StagingHolds(n, c)'
    BY <1>1, <1>4, <2>2 DEF InWord, StagingHolds, WordPad
  <2>4. xfer_count' - 1 = c /\ xfer_count' > 0
    BY <2>2
  <2>5. InWord'
    BY <1>2, <2>1, <2>2, <2>3, <2>4 DEF InWord
  <2> QED
    BY <1>2, <2>2, <2>5 DEF TransferInv
<1>5. CASE serial_clock_pre = 0 /\ c = IoCtrlBits - 1
  <2>1. ChainInWord(n, c + 1)' /\ serial_clock_pre' = 1
    BY <1>1, <1>5, RisingEdge
  <2>2. ChainInWord(n, IoCtrlBits)'
    BY <1>5, <2>1, c + 1 = IoCtrlBits
  <2>3. ChainHolds(n + 1)'
    BY <2>2, WholeWords DEF BaseInv
  <2>4. xfer_state' \in {"START", "LOAD"}
    BY <1>1, <1>2, <1>5 DEF XByte
  <2> QED
    BY <1>2, <2>1, <2>3, <2>4 DEF TransferInv
<1> QED
  BY <1>2, <1>3, <1>4, <1>5

\* LOAD: the strobe latches whole words, each in its own pad.
LEMMA LoadTransfer ==
  ASSUME LoaderInv, Load, serial_resetn_pre' = 1, PadEdges,
         BaseInv', bbUsed' = 0, ctrl'.enable = ctrl.enable
  PROVE  TransferInv'
<1> USE SizesFit DEF SizesFit
<1>1. /\ BaseInv /\ ModesTracked /\ bbUsed = 0 /\ xfer_state = "LOAD"
      /\ ChainHolds(Pads1) /\ WordsBegun = Pads1 /\ WordsBegun' = Pads1
      /\ sent' = sent
  BY DEF LoaderInv, BaseInv, CountersAgree, TransferInv, WordsBegun, Load
<1>2. /\ xfer_count \in 0 .. 2 /\ serial_clock_pre \in {0, 1}
      /\ serial_clock_pre' = 0
  BY <1>1 DEF BaseInv, TypeOK, LoaderTypeOK, Bit, CountersAgree, Load
<1>3. /\ shift_register' = shift_register
      /\ latched' = IF serial_load_pre = 0 /\ serial_load_pre' = 1
                    THEN shift_register ELSE latched
  <2>1. ctrl.enable = 0 /\ ctrl'.enable = 0 /\ serial_resetn_pre = 1
    BY <1>1, PlainWires
  <2> QED
    BY <1>1, <1>2, <2>1, PlainEdges DEF BaseInv, TypeOK
<1>4. ChainHolds(Pads1)'
  BY <1>1, <1>3 DEF ChainHolds, NearPad, WordPad
<1>5. shift_register = sent
  <2>1. ASSUME NEW k \in Chains, NEW d \in Depths
        PROVE  /\ d < Pads1 /\ WordPad(k, Pads1 - 1 - d) = NearPad(k, d)
    BY DEF Chains, Depths, WordPad, NearPad, MprjIoPads
  <2>2. ASSUME NEW k \in Chains, NEW d \in Depths
        PROVE  shift_register[NearPad(k, d)] = sent[NearPad(k, d)]
    BY <1>1, <2>1 DEF ChainHolds
  <2>3. \A p \in Pads : shift_register[p] = sent[p]
    BY <2>2, NearPads
  <2> QED
    BY <1>1, <2>3 DEF BaseInv, TypeOK, PadTypeOK, GhostTypeOK
<1>6. serial_load_pre' = 1 => serial_load_pre = 0
  BY <1>1, <1>2 DEF BaseInv, TypeOK, LoaderTypeOK, Bit, CountersAgree, Load
<1>7. serial_load_pre' = 1 => latched' = sent'
  BY <1>1, <1>3, <1>5, <1>6
<1>8. xfer_state' \in {"IDLE", "LOAD"}
  BY DEF Load
<1> QED
  BY <1>1, <1>4, <1>7, <1>8 DEF TransferInv

\* A rising edge of wb_clk_i, whatever is written to the registers with it that
\* leaves the bit-bang enable alone.
LEMMA TickTransfer ==
  ASSUME LoaderInv, LoaderTick, PadEdges, BaseInv', ctrl'.enable = ctrl.enable
  PROVE  ModesTracked' /\ TransferInv'
<1>0. BaseInv /\ BaseInv' /\ ModesTracked /\ TransferInv
  BY DEF LoaderInv, BaseInv
<1>b. bbUsed' \in {0, 1}
  BY DEF BaseInv, TypeOK, GhostTypeOK, Bit
<1>1. serial_resetn_pre' = 1 /\ (Idle \/ Start \/ XByte \/ Load)
  BY DEF LoaderTick
<1>2. ModesTracked'
  BY <1>0, <1>1 DEF ModesTracked, Idle, Start, XByte, Load
<1>3. CASE bbUsed' = 1
  BY <1>2, <1>3 DEF TransferInv
<1>4. CASE Idle /\ bbUsed' = 0
  <2>1. /\ xfer_state' \in {"IDLE", "START"} /\ serial_load_pre' = 0
        /\ WordsBegun' = 0
    BY <1>4, SizesFit DEF SizesFit, Idle, WordsBegun
  <2>2. ChainHolds(0)'
    BY DEF ChainHolds, Depths
  <2> QED
    BY <1>2, <2>1, <2>2 DEF TransferInv
<1>5. CASE Start /\ bbUsed' = 0
  <2>1. InWord'
    BY <1>0, <1>1, <1>5, StartTransfer
  <2> QED
    BY <1>2, <1>5, <2>1 DEF TransferInv, Start
<1>6. CASE XByte /\ bbUsed' = 0
  BY <1>0, <1>1, <1>2, <1>6, XByteTransfer
<1>7. CASE Load /\ bbUsed' = 0
  BY <1>0, <1>1, <1>2, <1>7, LoadTransfer
<1> QED
  BY <1>b, <1>1, <1>3, <1>4, <1>5, <1>6, <1>7

\* Every step keeps the transfer invariant.
LEMMA TransferStep == LoaderInv /\ [Next]_vars => ModesTracked' /\ TransferInv'
<1> SUFFICES ASSUME LoaderInv, [Next]_vars PROVE ModesTracked' /\ TransferInv'
  OBVIOUS
<1>0. BaseInv /\ BaseInv' /\ ModesTracked /\ TransferInv
  BY BaseStep DEF LoaderInv, BaseInv
<1>b. bbUsed' \in {0, 1}
  BY <1>0 DEF BaseInv, TypeOK, GhostTypeOK, Bit
<1>1. CASE WbClk
  <2>1. LoaderTick /\ PadEdges /\ ctrl'.enable = ctrl.enable
    BY <1>1 DEF WbClk, regVars
  <2> QED
    BY <1>0, <2>1, TickTransfer
<1>2. ASSUME NEW c \in CtrlWrites, WriteCtrl(c)
      PROVE  ModesTracked' /\ TransferInv'
  <2>1. ModesTracked'
    BY <1>0, <1>2 DEF ModesTracked, WriteCtrl, loaderVars
  <2>2. CASE bbUsed' = 1
    BY <2>1, <2>2 DEF TransferInv
  <2>3. CASE bbUsed' = 0 /\ xfer_state = "IDLE"
    <3>1. xfer_state' = "IDLE" /\ serial_load_pre' # 1
      BY <1>0, <1>2, <2>3 DEF BaseInv, CountersAgree, WriteCtrl, loaderVars
    <3> QED
      BY <2>1, <3>1 DEF TransferInv
  <2>4. CASE bbUsed' = 0 /\ xfer_state # "IDLE"
    <3>1. bbUsed = 0 /\ c.enable # 1
      BY <1>2, <2>4 DEF WriteCtrl
    <3>2. ctrl'.enable = 0
      BY <1>0, <1>2, <3>1 DEF BaseInv, TypeOK, RegTypeOK, Ctrl, Bit, WriteCtrl
    <3>3. ctrl.enable = 0 /\ serial_resetn_pre = 1 /\ serial_resetn_pre' = 1
      BY <1>0, <1>2, <2>4, <3>1, PlainWires DEF WriteCtrl, loaderVars
    <3>4. UNCHANGED << loaderVars, sent >>
      BY <1>2 DEF WriteCtrl
    <3>5. UNCHANGED << shift_register, serial_data_out, latched >>
      <4>1. /\ serial_clock_pre' = serial_clock_pre
            /\ serial_load_pre' = serial_load_pre
        BY <3>4 DEF loaderVars
      <4>2. LoaderTypeOK /\ PadEdges
        BY <1>0, <1>2 DEF BaseInv, TypeOK, WriteCtrl
      <4> QED
        BY <3>2, <3>3, <4>1, <4>2, PlainEdges
    <3> QED
      BY <1>0, <2>1, <3>1, <3>4, <3>5
         DEF TransferInv, InWord, ChainHolds, ChainInWord, StagingHolds,
             OutputsShown, WordsBegun, loaderVars, NearPad, WordPad, MSB
  <2> QED
    BY <1>b, <2>2, <2>3, <2>4
<1>3. ASSUME UNCHANGED << loaderVars, padVars, ghostVars >>,
             ctrl'.enable = ctrl.enable
      PROVE  ModesTracked' /\ TransferInv'
  BY <1>0, <1>3
     DEF ModesTracked, TransferInv, InWord, ChainHolds, ChainInWord,
         StagingHolds, OutputsShown, WordsBegun, loaderVars, padVars,
         ghostVars, NearPad, WordPad, MSB
<1>4. ASSUME NEW p, NEW half, NEW w, WriteConfig(p, half, w)
      PROVE  ModesTracked' /\ TransferInv'
  BY <1>3, <1>4 DEF WriteConfig
<1>5. CASE ClearXfer
  <2>1. ctrl'.enable = ctrl.enable
    BY <1>0, <1>5 DEF ClearXfer, BaseInv, TypeOK, RegTypeOK, Ctrl
  <2> QED
    BY <1>3, <1>5, <2>1 DEF ClearXfer
<1>6. CASE PowerOnReset
  BY <1>6, TransferReset
<1>7. CASE UNCHANGED vars
  BY <1>3, <1>7 DEF vars, regVars
<1> QED
  BY <1>1, <1>2, <1>4, <1>5, <1>6, <1>7 DEF Next, RegisterAccess

\* The inductive invariant of the loader: types, counters, modes, and where
\* every bit of the words under way is.
THEOREM LoaderInvariant == Spec => []LoaderInv
<1>1. Init => LoaderInv
  BY BaseInit, TransferInit DEF LoaderInv, BaseInv
<1>2. LoaderInv /\ [Next]_vars => LoaderInv'
  BY BaseStep, TransferStep DEF LoaderInv, BaseInv
<1> QED
  BY <1>1, <1>2, PTL DEF Spec

\* Whenever the load strobe is high and bit-bang mode was not used during the
\* transfer, every pad has latched the word that START staged for it: the
\* loader's order of words, its bit order and the wiring of the chains agree,
\* for every chain length and word width.
THEOREM LoaderDelivers == Spec => []LoadDelivers
<1>1. LoaderInv => LoadDelivers
  BY DEF LoaderInv, TransferInv, LoadDelivers
<1> QED
  BY <1>1, LoaderInvariant, PTL
=============================================================================
