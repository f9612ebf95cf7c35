-------------------------- MODULE MprjFirmware_proofs --------------------------
(***************************************************************************)
(* The pad set-up sequence against the loader, for every list of pads,     *)
(* every configuration and every pace of the core: what LoaderInv says of  *)
(* a transfer holds here too, and every word staged after the request is   *)
(* the one the program wrote, because it writes no more.                   *)
(***************************************************************************)
EXTENDS MprjFirmware, GpioLoader_proofs

Requested == fw_pc \in {"poll", "done"}

FwTypeOK ==
  /\ fw_pc \in {"low", "high", "xfer", "poll", "done"}
  /\ fw_todo \in Seq(Pads)
  /\ fw_pc \in {"low", "high"} <=> fw_todo # << >>
  /\ fw_wait \in Nat

\* The programs leave bit-bang mode alone, and the loader sleeps until it is
\* asked.
BeforeRequest ==
  /\ ctrl.enable = 0 /\ bbUsed = 0
  /\ ~Requested => ctrl.xfer = 0 /\ xfer_state = "IDLE"
  /\ Requested => serial_resetn_pre = 1

\* The words of the transfer under way are those of gpio_configure.
WordsCurrent ==
  Requested /\ xfer_state # "IDLE" =>
    \A k \in Chains, j \in Depths :
      j < WordsBegun => sent[WordPad(k, j)] = gpio_configure[WordPad(k, j)]

\* The loader goes to sleep with the pads configured.  The one moment it sleeps
\* without is the clock after the request, when nothing can be read yet.
AsleepWhenDone ==
  Requested /\ xfer_state = "IDLE" =>
    \/ PadsConfigured
    \/ fw_pc = "poll" /\ ctrl.xfer = 1 /\ fw_wait > 0

FwInv ==
  /\ LoaderInv /\ FwTypeOK /\ BeforeRequest /\ WordsCurrent /\ AsleepWhenDone
  /\ BusyBitMeansDone
-----------------------------------------------------------------------------
(* Every step is a clock of the loader, with at most one register written. *)

LEMMA FwWordTyped ==
  ASSUME FwTypeOK, RegTypeOK, FwWriteIo
  PROVE  gpio_configure' \in [Pads -> Word]
<1>1. Head(fw_todo) \in Pads
  BY DEF FwTypeOK, FwWriteIo
<1>2. FwConfig[Head(fw_todo)] \in Word /\ gpio_configure[Head(fw_todo)] \in Word
  BY <1>1, FirmwareWellTyped DEF FirmwareWellTyped, RegTypeOK
<1>3. [i \in 0 .. IoCtrlBits - 1 |-> IF (fw_pc = "low") = (i < LowBits)
                                     THEN FwConfig[Head(fw_todo)][i]
                                     ELSE gpio_configure[Head(fw_todo)][i]] \in Word
  BY <1>2 DEF Word
<1> QED
  BY <1>3 DEF FwWriteIo, RegTypeOK

LEMMA FwTicks ==
  ASSUME FwInv, FwNext
  PROVE  LoaderTick /\ PadEdges /\ RegTypeOK' /\ ctrl'.enable = 0 /\ ctrl.enable = 0
<1>1. ctrl.enable = 0 /\ ctrl \in Ctrl /\ gpio_configure \in [Pads -> Word] /\ FwTypeOK
      /\ RegTypeOK
  BY DEF FwInv, BeforeRequest, LoaderInv, TypeOK, RegTypeOK
<1>2. CASE FwClock
  BY <1>1, <1>2 DEF FwClock, WbClk, regVars, RegTypeOK
<1>3. CASE FwWriteIo
  <2>1. gpio_configure' \in [Pads -> Word]
    BY <1>1, <1>3, FwWordTyped
  <2> QED
    BY <1>1, <1>3, <2>1 DEF FwWriteIo, RegTypeOK
<1>4. CASE FwRequest
  BY <1>1, <1>4 DEF FwRequest, RegTypeOK, Ctrl, CtrlReset, Bit
<1>5. CASE FwPoll
  BY <1>1, <1>5 DEF FwPoll, RegTypeOK, Ctrl, Bit
<1> QED
  BY <1>2, <1>3, <1>4, <1>5 DEF FwNext, FwAccess

LEMMA FwLoader ==
  ASSUME FwInv, FwNext
  PROVE  LoaderInv' /\ bbUsed' = 0 /\ serial_resetn_pre' = 1
<1>1. LoaderTick /\ PadEdges /\ RegTypeOK' /\ ctrl'.enable = ctrl.enable
      /\ LoaderInv /\ BaseInv /\ ctrl.enable = 0 /\ bbUsed = 0
  BY FwTicks DEF FwInv, BeforeRequest, LoaderInv, BaseInv
<1>2. BaseInv'
  BY <1>1, TickBase
<1>3. ModesTracked' /\ TransferInv'
  BY <1>1, <1>2, TickTransfer
<1>4. bbUsed' = 0 /\ serial_resetn_pre' = 1
  BY <1>1 DEF LoaderTick, Idle, Start, XByte, Load
<1> QED
  BY <1>2, <1>3, <1>4 DEF LoaderInv, BaseInv

LEMMA FwTyped ==
  ASSUME FwInv, FwNext PROVE FwTypeOK'
<1>1. FwTypeOK /\ AccessClocks - 3 \in Nat /\ AccessClocks - 1 \in Nat
  BY FirmwareWellTyped DEF FwInv, FirmwareWellTyped
<1>2. CASE FwClock
  BY <1>1, <1>2 DEF FwClock, FwTypeOK
<1>3. CASE FwWriteIo
  <2>1. fw_todo \in Seq(Pads) /\ fw_todo # << >>
    BY <1>1, <1>3 DEF FwTypeOK, FwWriteIo
  <2>2. Tail(fw_todo) \in Seq(Pads)
    BY <2>1
  <2> QED
    BY <1>1, <1>3, <2>1, <2>2 DEF FwWriteIo, FwTypeOK
<1>4. CASE FwRequest
  BY <1>1, <1>4 DEF FwRequest, FwTypeOK
<1>5. CASE FwPoll
  BY <1>1, <1>5 DEF FwPoll, FwTypeOK
<1> QED
  BY <1>2, <1>3, <1>4, <1>5 DEF FwNext, FwAccess

\* Before the request nothing wakes the loader; after it, no word changes.
LEMMA FwQuiet ==
  ASSUME FwInv, FwNext
  PROVE  /\ ~Requested' => ~Requested /\ ctrl'.xfer = 0 /\ xfer_state' = "IDLE"
         /\ Requested => Requested' /\ gpio_configure' = gpio_configure
         /\ Requested' /\ ~Requested =>
              xfer_state' = "IDLE" /\ fw_pc' = "poll" /\ ctrl'.xfer = 1 /\ fw_wait' > 0
<1>1. FwTypeOK /\ (~Requested => ctrl.xfer = 0 /\ xfer_state = "IDLE")
      /\ AccessClocks - 1 > 0
  BY FirmwareWellTyped DEF FwInv, BeforeRequest, FirmwareWellTyped
<1>2. ~Requested => xfer_state' = "IDLE"
  BY <1>1, FwTicks DEF LoaderTick, Idle, Start, XByte, Load
<1>3. CASE FwClock
  BY <1>1, <1>2, <1>3 DEF FwClock, WbClk, regVars, Requested
<1>4. CASE FwWriteIo
  <2>1. fw_pc \in {"low", "high"}
    BY <1>4 DEF FwWriteIo
  <2> QED
    BY <1>1, <1>2, <1>4, <2>1 DEF FwWriteIo, Requested
<1>5. CASE FwRequest
  BY <1>1, <1>2, <1>5 DEF FwRequest, Requested, CtrlReset
<1>6. CASE FwPoll
  BY <1>1, <1>2, <1>6 DEF FwPoll, Requested
<1> QED
  BY <1>3, <1>4, <1>5, <1>6 DEF FwNext, FwAccess

-----------------------------------------------------------------------------
(* What is staged and what is latched. *)

LEMMA WordsStep ==
  ASSUME FwInv, FwNext PROVE WordsCurrent'
<1> USE SizesFit DEF SizesFit
<1>1. CASE ~Requested
  BY <1>1, FwQuiet DEF WordsCurrent
<1>2. CASE Requested
  <2>1. LoaderTick /\ gpio_configure' = gpio_configure /\ BaseInv
    BY <1>2, FwQuiet, FwTicks DEF FwInv, LoaderInv, BaseInv
  <2>2. CASE Idle
    <3>1. WordsBegun' = 0
      BY <2>2 DEF Idle, WordsBegun
    <3> QED
      BY <3>1 DEF WordsCurrent, Depths
  <2>3. CASE XByte \/ Load
    <3>1. sent' = sent /\ WordsBegun' = WordsBegun /\ xfer_state # "IDLE"
      BY <2>3 DEF XByte, Load, WordsBegun
    <3> QED
      BY <1>2, <2>1, <3>1 DEF WordsCurrent, FwInv, WordPad
  <2>4. CASE Start
    <3>1. PICK n \in 0 .. Pads1 - 1 : n = WordsBegun
      BY <2>1, <2>4 DEF BaseInv, CountersAgree, Start
    <3>2. /\ pad_count_2 = WordPad(2, n) /\ pad_count_1 = WordPad(1, n)
          /\ WordsBegun' = n + 1 /\ sent \in [Pads -> Word] /\ n \in Depths
      <4>1. pad_count_2 \in 0 .. 63 /\ pad_count_2 = Pads1 + n
        BY <2>1, <3>1 DEF BaseInv, TypeOK, LoaderTypeOK, WordsBegun
      <4>2. pad_count_1 = Pads1 - 1 - n
        BY <2>1, <3>1 DEF BaseInv, CountersAgree
      <4> QED
        BY <2>1, <2>4, <4>1, <4>2
           DEF BaseInv, TypeOK, GhostTypeOK, Start, WordsBegun, WordPad, Depths
    <3>3. ASSUME NEW k \in Chains, NEW j \in Depths, j < n + 1
          PROVE  sent'[WordPad(k, j)] = gpio_configure[WordPad(k, j)]
      <4>1. WordPad(k, j) \in Pads
        BY NearPads
      <4>2. CASE j = n
        BY <2>4, <3>2, <4>1, <4>2 DEF Start, Chains
      <4>3. CASE j < n
        <5>1. sent[WordPad(k, j)] = gpio_configure[WordPad(k, j)]
          BY <1>2, <2>4, <3>1, <4>3 DEF FwInv, WordsCurrent, Start
        <5> QED
          BY <2>4, <3>2, <4>1, <5>1 DEF Start
      <4> QED
        BY <3>3, <4>2, <4>3 DEF Depths
    <3> QED
      BY <2>1, <3>2, <3>3 DEF WordsCurrent, WordPad
  <2> QED
    BY <2>1, <2>2, <2>3, <2>4 DEF LoaderTick
<1> QED
  BY <1>1, <1>2

\* When all words have been staged, every pad has one.
LEMMA AllWords ==
  ASSUME NEW s, NEW g,
         \A k \in Chains, j \in Depths : j < Pads1 => s[WordPad(k, j)] = g[WordPad(k, j)]
  PROVE  \A p \in Pads : s[p] = g[p]
<1> USE SizesFit DEF SizesFit
<1> TAKE p \in Pads
<1>1. PICK k \in Chains, d \in Depths : p = NearPad(k, d)
  BY NearPads
<1>2. Pads1 - 1 - d \in Depths /\ Pads1 - 1 - d < Pads1
      /\ WordPad(k, Pads1 - 1 - d) = NearPad(k, d)
  BY DEF Chains, Depths, WordPad, NearPad, MprjIoPads
<1> QED
  BY <1>1, <1>2

\* After the request the pads change to the program's configuration only.
LEMMA LatchStep ==
  ASSUME FwInv, FwNext, Requested
  PROVE  \/ latched' = latched /\ gpio_configure' = gpio_configure
         \/ xfer_state' # "IDLE" /\ PadsConfigured'
<1>1. /\ LoaderInv /\ LoaderInv' /\ PadEdges /\ ctrl.enable = 0 /\ ctrl'.enable = 0
      /\ serial_resetn_pre = 1 /\ serial_resetn_pre' = 1 /\ bbUsed' = 0
      /\ gpio_configure' = gpio_configure /\ Requested' /\ WordsCurrent'
  BY FwTicks, FwLoader, FwQuiet, WordsStep DEF FwInv, BeforeRequest
<1>2. latched' = IF serial_load_pre = 0 /\ serial_load_pre' = 1
                 THEN shift_register ELSE latched
  BY <1>1, PlainEdges DEF LoaderInv, TypeOK
<1>3. CASE serial_load_pre' # 1
  BY <1>1, <1>2, <1>3
<1>4. CASE serial_load_pre' = 1
  <2>1. xfer_state' = "LOAD" /\ WordsBegun' = Pads1 /\ latched' = sent'
    BY <1>1, <1>4 DEF LoaderInv, CountersAgree, TransferInv
  <2>2. \A k \in Chains, j \in Depths :
          j < Pads1 => sent'[WordPad(k, j)] = gpio_configure'[WordPad(k, j)]
    BY <1>1, <2>1 DEF WordsCurrent, WordPad
  <2>3. \A p \in Pads : sent'[p] = gpio_configure'[p]
    BY <2>2, AllWords
  <2> QED
    BY <2>1, <2>3 DEF PadsConfigured
<1> QED
  BY <1>3, <1>4

LEMMA AsleepStep ==
  ASSUME FwInv, FwNext PROVE AsleepWhenDone'
<1>1. CASE ~Requested
  BY <1>1, FwQuiet DEF AsleepWhenDone
<1>2. CASE Requested /\ xfer_state' = "IDLE"
  <2>1. latched' = latched /\ gpio_configure' = gpio_configure
    BY <1>2, LatchStep
  <2>2. CASE xfer_state = "IDLE"
    <3>1. ctrl.xfer # 1
      BY <1>2, <2>2, FwTicks DEF LoaderTick, Idle, Start, XByte, Load
    <3> QED
      BY <1>2, <2>1, <2>2, <3>1 DEF AsleepWhenDone, FwInv, PadsConfigured
  <2>3. CASE xfer_state # "IDLE"
    <3>1. xfer_state = "LOAD" /\ xfer_count = 2
      BY <1>2, <2>3, FwTicks DEF LoaderTick, Idle, Start, XByte, Load
    <3>2. WordsBegun = Pads1 /\ latched = sent
      BY <3>1 DEF FwInv, LoaderInv, CountersAgree, TransferInv, BeforeRequest
    <3>3. \A p \in Pads : sent[p] = gpio_configure[p]
      BY <1>2, <3>1, <3>2, AllWords DEF FwInv, WordsCurrent
    <3> QED
      BY <2>1, <3>2, <3>3 DEF AsleepWhenDone, PadsConfigured
  <2> QED
    BY <2>2, <2>3
<1>3. CASE xfer_state' # "IDLE"
  BY <1>3 DEF AsleepWhenDone
<1> QED
  BY <1>1, <1>2, <1>3

\* A poll that reads the bit as 0 finds the loader asleep.
LEMMA HonestStep ==
  ASSUME FwInv, FwNext PROVE BusyBitMeansDone'
<1> SUFFICES ASSUME fw_pc' = "done", fw_read'.busy = 0 PROVE PadsConfigured'
  BY DEF BusyBitMeansDone
<1>1. Requested /\ PadsConfigured
  <2>1. CASE FwPoll
    <3>1. fw_wait = 0 /\ fw_pc = "poll" /\ serial_busy = 0
      BY <2>1 DEF FwPoll, ReadCtrl
    <3>2. xfer_state = "IDLE"
      BY <3>1 DEF FwInv, LoaderInv, CountersAgree, TypeOK, LoaderTypeOK, Bit
    <3> QED
      BY <3>1, <3>2 DEF FwInv, AsleepWhenDone, Requested
  <2>2. CASE ~FwPoll
    <3>1. fw_pc = "done" /\ fw_read.busy = 0
      BY <2>2 DEF FwNext, FwAccess, FwClock, FwWriteIo, FwRequest
    <3> QED
      BY <3>1 DEF FwInv, BusyBitMeansDone, Requested
  <2> QED
    BY <2>1, <2>2
<1> QED
  BY <1>1, LatchStep DEF PadsConfigured

-----------------------------------------------------------------------------
LEMMA FwInvInit ==
  ASSUME FwInit PROVE FwInv
<1>1. LoaderInv
  BY BaseInit, TransferInit DEF FwInit, LoaderInv, BaseInv
<1>2. FwTypeOK
  BY FirmwareWellTyped DEF FwInit, FwTypeOK, FirmwareWellTyped
<1> QED
  BY <1>1, <1>2 DEF FwInit, Init, FwInv, BeforeRequest, WordsCurrent, AsleepWhenDone,
                    BusyBitMeansDone, Requested, CtrlReset

LEMMA FwInvStep ==
  ASSUME FwInv, [FwNext]_<< vars, fwVars >> PROVE FwInv'
<1>1. CASE FwNext
  <2>1. BeforeRequest'
    BY <1>1, FwTicks, FwLoader, FwQuiet DEF BeforeRequest
  <2> QED
    BY <1>1, <2>1, FwLoader, FwTyped, WordsStep, AsleepStep, HonestStep DEF FwInv
<1>2. CASE UNCHANGED << vars, fwVars >>
  <2>1. UNCHANGED vars /\ LoaderInv
    BY <1>2 DEF FwInv
  <2>2. LoaderInv'
    BY <2>1, BaseStep, TransferStep DEF LoaderInv, BaseInv
  <2>3. FwTypeOK' /\ BeforeRequest'
    BY <1>2 DEF FwInv, FwTypeOK, BeforeRequest, Requested, vars, loaderVars, regVars,
                ghostVars, fwVars
  <2>4. WordsCurrent' /\ AsleepWhenDone' /\ BusyBitMeansDone'
    BY <1>2 DEF FwInv, WordsCurrent, AsleepWhenDone, BusyBitMeansDone, PadsConfigured,
                Requested, WordsBegun, WordPad, vars, loaderVars, regVars, padVars,
                ghostVars, fwVars
  <2> QED
    BY <2>2, <2>3, <2>4 DEF FwInv
<1> QED
  BY <1>1, <1>2

\* The loader's invariant holds while a program sets up the pads, although the
\* register writes come with the clocks of the loader, and whatever the program.
THEOREM FirmwareInvariant == FwSpec => []FwInv
<1>1. FwInit => FwInv
  BY FwInvInit
<1>2. FwInv /\ [FwNext]_<< vars, fwVars >> => FwInv'
  BY FwInvStep
<1> QED
  BY <1>1, <1>2, PTL DEF FwSpec

\* Bit 0 of register 8'h13 is an honest completion flag: a poll that reads it
\* as 0 finds every pad holding the configuration the program wrote ("while
\* (reg_mprj_xfer == 1);" in the test programs), for every list of pads, every
\* configuration and every AccessClocks.
THEOREM BusyBitIsHonest == FwSpec => []BusyBitMeansDone
<1>1. FwInv => BusyBitMeansDone
  BY DEF FwInv
<1> QED
  BY <1>1, FirmwareInvariant, PTL

\* The transfers the programs start deliver every word to its pad.
THEOREM FirmwareDelivers == FwSpec => []LoadDelivers
<1>1. FwInv => LoadDelivers
  BY DEF FwInv, LoaderInv, TransferInv, LoadDelivers
<1> QED
  BY <1>1, FirmwareInvariant, PTL
=============================================================================
