------------------------------- MODULE MgmtBus -------------------------------
(***************************************************************************)
(* mgmt_core.v: the shared bus of the management core.  Three masters (the *)
(* instruction and the data bus of the core and the debug UART) share one  *)
(* set of wires; an arbiter chooses the master, an address decoder the     *)
(* slave, and a watchdog answers an access no slave answers.               *)
(*                                                                         *)
(* One step is one rising edge of sys_clk; an operator without a prime is  *)
(* a wire of the clock before the edge.  An access names its slave, not    *)
(* its address (module BusMap has the decoder).  dff stands for both       *)
(* memories.  The acknowledge of every slave comes from registers, and the *)
(* wires OR them together whichever slave is selected.                     *)
(*                                                                         *)
(* Nothing bounds the time a slave takes.  The flash waits for the         *)
(* crossbar, which the register-driven flash_core can hold; the debug port *)
(* for the core; the back door for the SPI; the user project is as it is.  *)
(* Each may outlive the watchdog, and none notices that its access is over.*)
(*                                                                         *)
(* waited, moved and late are ghosts: the clocks the access on the bus has *)
(* had, the bytes the back door has moved in them, and whether a slave may *)
(* still be at work since a time-out.                                      *)
(***************************************************************************)
EXTENDS Naturals, Sequences

CONSTANTS
  Accesses,     \* Accesses[m]: the accesses master m makes
  Timeout,      \* clocks the watchdog waits (1000000 in the code)
  LineWords,    \* words of a cache line (8 in the code)
  ErrorLimit    \* where bus_errors saturates (2^32 - 1 in the code)

Masters == 0 .. 2      \* ibus, dbus, dbg_uart
Slaves  == {"debug", "dff", "flash", "mprj", "hk", "csr"}
Access  == [tgt : Slaves \cup {"none"}, we : BOOLEAN]
Idle    == [tgt |-> "idle", we |-> FALSE, left |-> 0]

\* An access on the bus also has the words of it that are left.
Begun(a, n) == [tgt |-> a.tgt, we |-> a.we, left |-> n]

ASSUME MgmtBusAssumption ==
  /\ Accesses \in [Masters -> SUBSET Access]
  /\ \A a \in Accesses[0] : ~a.we
  /\ {Timeout, LineWords} \subseteq Nat \ {0}
  /\ ErrorLimit \in Nat

VARIABLES
  req,                               \* the masters
  grant, slave_sel_r, count, bus_errors,
  debug, dff_ack, litespi_state, mprj_ack, wbbd_state, state,  \* the slaves
  waited, moved, late                \* ghosts

sharedVars == << grant, slave_sel_r, count, bus_errors >>
slaveVars  == << debug, dff_ack, litespi_state, mprj_ack, wbbd_state, state >>
vars       == << req, sharedVars, slaveVars, waited, moved, late >>

-----------------------------------------------------------------------------
(* The wires of the shared bus. *)

request(m) == req[m] # Idle
shared_cyc == request(grant)
Selected(s) == req[grant].tgt = s
done       == count = 0

WbbdDone == 9     \* SETUP0 = 1, RW0 = 2, ... RW3 = 8

\* The slaves whose acknowledge is high.
Acking ==
  {s \in Slaves : \/ s = "debug" /\ debug = "wait_for_ack"
                  \/ s = "dff"   /\ dff_ack
                  \/ s = "flash" /\ litespi_state = 8
                  \/ s = "mprj"  /\ mprj_ack
                  \/ s = "hk"    /\ wbbd_state = WbbdDone
                  \/ s = "csr"   /\ state = 1}

\* The slaves that are not idle.
Working ==
  {s \in Slaves : \/ s = "debug" /\ debug # "idle"
                  \/ s = "dff"   /\ dff_ack
                  \/ s = "flash" /\ litespi_state # 0
                  \/ s = "mprj"  /\ mprj_ack
                  \/ s = "hk"    /\ wbbd_state # 0
                  \/ s = "csr"   /\ state = 1}

shared_ack == done \/ Acking # {}
wait_1     == shared_cyc /\ ~shared_ack

-----------------------------------------------------------------------------
(* What the edge does to each part. *)

\* A master drops its request with the acknowledge of its last word, and has
\* it low for at least the clock after it; a cache line is one request.
NextRequests(m) ==
  IF m = grant /\ request(m) /\ shared_ack
  THEN {IF req[m].left = 1 THEN Idle ELSE [req[m] EXCEPT !.left = @ - 1]}
  ELSE IF request(m) THEN {req[m]}
  ELSE {Idle} \cup {Begun(a, IF m = 0 THEN LineWords ELSE 1) : a \in Accesses[m]}

\* Mutant: the grant moves on whenever another master asks.
BugArbiter ==
  grant' = IF request((grant + 1) % 3) THEN (grant + 1) % 3
           ELSE IF request((grant + 2) % 3) THEN (grant + 2) % 3
           ELSE grant

\* Mutant: the instruction bus comes first, then the data bus.
BugArbiterFixed ==
  grant' = IF request(grant) THEN grant
           ELSE IF request(0) THEN 0 ELSE IF request(1) THEN 1
           ELSE IF request(2) THEN 2 ELSE grant

Arbiter ==
  grant' = IF request(grant) THEN grant
           ELSE IF request((grant + 1) % 3) THEN (grant + 1) % 3
           ELSE IF request((grant + 2) % 3) THEN (grant + 2) % 3
           ELSE grant

Decoder == slave_sel_r' = req[grant].tgt

\* Mutant: the count is not loaded again when a slave answers.
BugWatchdog ==
  /\ count' = IF wait_1 THEN count - 1 ELSE IF done THEN Timeout ELSE count
  /\ bus_errors' = IF done /\ bus_errors < ErrorLimit THEN bus_errors + 1
                                                     ELSE bus_errors

Watchdog ==
  /\ count' = IF wait_1 THEN count - 1 ELSE Timeout
  /\ bus_errors' = IF done /\ bus_errors < ErrorLimit THEN bus_errors + 1
                                                     ELSE bus_errors

\* The debug port of the core.  It waits for o_cmd_ready, which the core keeps
\* low for as long as it likes.
DebugPort ==
  debug' \in CASE debug = "idle"         -> {IF Selected("debug") THEN "in_progress"
                                                                 ELSE "idle"}
              [] debug = "in_progress"  -> {"in_progress", "complete"}
              [] debug = "complete"     -> {"wait_for_ack"}
              [] debug = "wait_for_ack" -> {IF Selected("debug") THEN "wait_for_ack"
                                                                 ELSE "idle"}

Dff == dff_ack' = (Selected("dff") /\ ~dff_ack)

\* The flash: command, address, dummy bits (if any) and data, each sent in an
\* odd state and answered in the even one after it.  An odd state waits for
\* source_ready, that is for the crossbar and the PHY, without bound; the PHY
\* has the answer in the clock after it, so an even state lasts one clock.
\* Only a read starts the flash, and the next word of a burst at its data.
LiteSpi ==
  litespi_state' \in
    CASE litespi_state = 0 -> IF Selected("flash") /\ ~req[grant].we THEN {1, 7} ELSE {0}
      [] litespi_state \in {1, 3, 5, 7} -> {litespi_state, litespi_state + 1}
      [] litespi_state = 4 -> {5, 7}
      [] OTHER             -> {(litespi_state + 1) % 9}

\* The user project: it answers an access to it when it likes, or never.
UserProject == mprj_ack' \in {FALSE, Selected("mprj") /\ ~mprj_ack}

CsrBridge == state' = IF state = 0 /\ Selected("csr") THEN 1 ELSE 0

\* Mutant: the back door skips the set-up of its last byte.
BugBackDoor ==
  wbbd_state' \in CASE wbbd_state = 0        -> {IF Selected("hk") THEN 1 ELSE 0}
                   [] wbbd_state = WbbdDone -> {0}
                   [] wbbd_state = 6        -> {WbbdDone}
                   [] wbbd_state \in {2, 4, 8} -> {wbbd_state + 1}
                   [] OTHER                 -> {wbbd_state, wbbd_state + 1}

\* The back door: it stays in a SETUP state while spi_is_busy, and looks at
\* the bus only in IDLE.
BackDoor ==
  wbbd_state' \in CASE wbbd_state = 0        -> {IF Selected("hk") THEN 1 ELSE 0}
                   [] wbbd_state = WbbdDone -> {0}
                   [] wbbd_state \in {2, 4, 6, 8} -> {wbbd_state + 1}
                   [] OTHER                 -> {wbbd_state, wbbd_state + 1}

Ghosts ==
  /\ waited' = IF wait_1 THEN waited + 1 ELSE 0
  /\ moved'  = IF ~wait_1 THEN 0
               ELSE IF wbbd_state \in {2, 4, 6, 8} /\ Selected("hk") THEN moved + 1
               ELSE moved
  /\ late'   = ((late \/ done) /\ Working' # {})

\* One edge of sys_clk.
Clock ==
  /\ \E i \in NextRequests(0), d \in NextRequests(1), u \in NextRequests(2) :
       req' = [m \in Masters |-> << i, d, u >>[m + 1]]
  /\ Arbiter /\ Decoder /\ Watchdog
  /\ DebugPort /\ Dff /\ LiteSpi /\ UserProject /\ CsrBridge /\ BackDoor
  /\ Ghosts

Init ==
  /\ req = [m \in Masters |-> Idle]
  /\ grant = 0 /\ slave_sel_r = "idle" /\ count = Timeout /\ bus_errors = 0
  /\ debug = "idle" /\ dff_ack = FALSE /\ litespi_state = 0 /\ mprj_ack = FALSE
  /\ wbbd_state = 0 /\ state = 0
  /\ waited = 0 /\ moved = 0 /\ late = FALSE

\* The clock runs.
Spec == Init /\ [][Clock]_vars /\ WF_vars(Clock)
-----------------------------------------------------------------------------
\* The acknowledge a master takes is that of its own access: it comes from
\* the slave it addressed, alone, and that slave's data is on the bus
\* (shared_ack is not gated by slave_sel; slave_sel_r is a clock late).  The
\* exception is a slave still at work for an access the watchdog has answered:
\* then, until all slaves are idle again, an acknowledge may go astray.
AckOwned ==
  shared_cyc /\ shared_ack /\ ~done /\ ~late =>
    Acking = {req[grant].tgt} /\ slave_sel_r = req[grant].tgt

\* The watchdog cuts no access short: it answers ffffffff only to an access
\* that has had the bus for all of Timeout clocks, whatever was on it before.
NotCutShort == done => shared_cyc /\ waited = Timeout

\* "this interface will stall the processor by holding wb_ack_o low until all
\* bytes have been transferred" (housekeeping.v): an access to housekeeping
\* that sees wb_ack_o high has had all four of its bytes transferred.
AckAfterAllBytes == Selected("hk") /\ wbbd_state = WbbdDone => moved = 4

\* That comment is true of every access while no slave is late.
BytesBeforeAck == ~late => AckAfterAllBytes

\* No master waits for ever, on a slave or on the other masters: the access
\* of an absent slave, a flash write, a silent user project, a flash port
\* without the crossbar all end.
EveryAccessEnds == \A m \in Masters : request(m) ~> ~request(m)
=============================================================================
