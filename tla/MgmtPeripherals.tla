--------------------------- MODULE MgmtPeripherals ---------------------------
(***************************************************************************)
(* mgmt_core.v: the transmit side of the UART, the timer timer0 and its    *)
(* event registers, and the interrupt inputs of the core.  One step is one *)
(* clock, with the register write the core makes in it (if any).  sent     *)
(* (what has left on the line) and age (the clocks timer0 has been on, no  *)
(* more than one above load) are ghosts.                                   *)
(***************************************************************************)
EXTENDS Integers, Sequences

CONSTANTS
  FifoDepth,    \* characters in the FIFO (16 in the code)
  CharClocks,   \* clocks the line takes for one character
  TimerValues   \* values written to the timer

ASSUME PeripheralsAssumption ==
  /\ {FifoDepth, CharClocks} \subseteq Nat \ {0}
  /\ TimerValues \subseteq Nat

VARIABLES
  tx_fifo, tx_out, phy_count,          \* FIFO, its output register, the line
  load, reload, en, value,             \* timer0
  zero_pending, zero_trigger_d, pending_re, ev_enable,   \* its events
  irq_next,                            \* the interrupt input of the core, a clock late
  sent, age                            \* ghosts

uartVars   == << tx_fifo, tx_out, phy_count, sent >>
timerVars  == << load, reload, en, value, zero_pending, zero_trigger_d,
                 pending_re, ev_enable, age >>
periphVars == << uartVars, timerVars, irq_next >>

\* Out of reset the timer holds zero, which is an event (zero_trigger is high
\* and zero_trigger_d is not yet).
PeriphInit ==
  /\ tx_fifo = << >> /\ tx_out = << >> /\ phy_count = 0 /\ sent = << >>
  /\ load = 0 /\ reload = 0 /\ en = 0 /\ value = 0
  /\ zero_pending = FALSE /\ zero_trigger_d = FALSE
  /\ pending_re = FALSE /\ ev_enable = FALSE /\ age = 0
  /\ irq_next = FALSE

CsrRegs == {"rxtx", "load", "reload", "en", "ev_pending", "ev_enable"}
NoWrite == [reg |-> "none", v |-> 0]

-----------------------------------------------------------------------------
uart_txfull == Len(tx_fifo) = FifoDepth

\* A write to rxtx goes into the FIFO if there is room; the line takes a
\* character out of the output register when it has sent it.
Uart(w) ==
  LET ready == tx_out # << >> /\ phy_count = CharClocks - 1
      move  == tx_fifo # << >> /\ (tx_out = << >> \/ ready)
      rest  == IF move THEN Tail(tx_fifo) ELSE tx_fifo
  IN
  /\ tx_fifo' = IF w.reg = "rxtx" /\ ~uart_txfull THEN Append(rest, w.v) ELSE rest
  /\ tx_out' = IF move THEN << Head(tx_fifo) >> ELSE IF ready THEN << >> ELSE tx_out
  /\ phy_count' = IF tx_out = << >> \/ ready THEN 0 ELSE phy_count + 1
  /\ sent' = IF ready THEN sent \o tx_out ELSE sent

zero_trigger == value = 0
zero_edge    == zero_trigger /\ ~zero_trigger_d

\* Mutant: events are cleared only while they are enabled.
BugZeroPending == zero_pending' = (zero_edge \/ (zero_pending /\ ~(pending_re /\ ev_enable)))

\* An event wins over a clear of the same clock.
ZeroPending == zero_pending' = (zero_edge \/ (zero_pending /\ ~pending_re))

Timer0(w) ==
  /\ load'   = IF w.reg = "load" THEN w.v ELSE load
  /\ reload' = IF w.reg = "reload" THEN w.v ELSE reload
  /\ en'     = IF w.reg = "en" THEN w.v ELSE en
  /\ value'  = IF en = 0 THEN load ELSE IF value = 0 THEN reload ELSE value - 1
  /\ zero_trigger_d' = zero_trigger
  /\ pending_re' = (w.reg = "ev_pending" /\ w.v = 1)
  /\ ev_enable'  = IF w.reg = "ev_enable" THEN w.v = 1 ELSE ev_enable
  /\ ZeroPending
  /\ age' = IF en = 0 THEN 0 ELSE IF age <= load THEN age + 1 ELSE age

timer0_irq == zero_pending /\ ev_enable

\* One clock with the register write w.
PeriphClock(w) == Uart(w) /\ Timer0(w) /\ irq_next' = timer0_irq
=============================================================================
