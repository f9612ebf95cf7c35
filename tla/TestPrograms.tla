---------------------------- MODULE TestPrograms ----------------------------
(***************************************************************************)
(* The programs of the core against the hardware they use: counter_la.c,   *)
(* counter_wb.c and gcd_la.c from the end of their pad set-up on, with the *)
(* user project they are built with, and print of stub.c while the timer   *)
(* interrupts into isr of isr.c.                                           *)
(*                                                                         *)
(* One step is one clock; the core makes an access every 1 to MaxPace      *)
(* clocks, and takes an interrupt between two accesses.  A write of a      *)
(* reg_la<n>_oenb = reg_la<n>_iena pair is one access: nothing reads       *)
(* la_iena.  shown is what the bench sees in the upper half of             *)
(* reg_mprj_datal.  isr_runs counts (to 2) the runs of isr, a ghost.       *)
(***************************************************************************)
EXTENDS UserProject, MgmtPeripherals, SequencesExt

CONSTANTS
  GcdTests,   \* the sequences of tests, << a, b >> each, gcd_la.c may have
  Started,    \* the count counter_wb.c starts from (0x2710 in the code)
  Wanted,     \* the count it looks for (0x2B3D in the code)
  Texts,      \* the texts printed, "nl" being the newline
  MaxPace     \* most clocks from one access of the core to the next

Expect(t) == Gcd(t[1], t[2])

\* As in gcd_la.c, no test expects what the test before it does, nor the
\* first one what gcd_o holds after a reset.
ASSUME TestProgramsAssumption ==
  /\ \A ts \in GcdTests :
       /\ ts \in Seq(Words \X Words)
       /\ \A i \in DOMAIN ts :
            Expect(ts[i]) # IF i = 1 THEN 0 ELSE Expect(ts[i - 1])
  /\ {Started, Wanted} \subseteq Words
  /\ MaxPace \in 1 .. W - Limit - 2
  /\ \A t \in Texts : t \in Seq(STRING)

VARIABLES
  tests,   \* the tests of gcd_la.c
  prog,    \* the program: a sequence of blocks of statements
  at,      \* the block and the statement in it that is to be run next
  pace,    \* clocks since the last access
  shown,   \* the flag the program shows
  text,    \* the text it prints
  mie, irq_mask, isr_flag,   \* interrupt state
  isr_at,  \* the next statement of isr, 0 outside of it
  isr_runs,
  clocks   \* ghost: clocks since the write of counter_wb.c ended, X before

irqVars  == << mie, irq_mask, isr_flag, isr_runs >>
testVars == << tests, prog, at, isr_at, pace, shown, clocks, text, irqVars >>
allVars  == << projectVars, periphVars, testVars >>

-----------------------------------------------------------------------------
(* The programs: blocks of statements, an access of the core each. *)

LaOe(n, on)  == [op |-> "la_oe", n |-> n, v |-> on]
LaData(n, v) == [op |-> "la_data", n |-> n, v |-> v]
Datal(f)     == [op |-> "datal", n |-> 0, v |-> f]
PollAbove(v) == [op |-> "above", n |-> 0, v |-> v]
PollEqual(v) == [op |-> "equal", n |-> 0, v |-> v]
SlaveWrite(v) == [op |-> "slave_write", n |-> 0, v |-> v]
SlaveRead    == [op |-> "slave_read", n |-> 0, v |-> 0]
Csr(reg, v)  == [op |-> reg, n |-> 0, v |-> v]
PollTxFull   == [op |-> "txfull", n |-> 0, v |-> 0]
IrqSetMask(on) == [op |-> "irq_setmask", n |-> 0, v |-> on]
IrqSetIe(on) == [op |-> "irq_setie", n |-> 0, v |-> on]
SetFlag      == [op |-> "flag", n |-> 0, v |-> TRUE]
Mret         == [op |-> "mret", n |-> 0, v |-> 0]

CounterLa ==
  << LaOe(0, 0), LaOe(1, 1), LaOe(2, 0), LaOe(3, 0),
     Datal("AB40"), LaData(1, 0), LaOe(1, 0),
     PollAbove(Limit), Datal("AB41"), Datal("AB51") >>

CounterWb ==
  << LaOe(2, 0), Datal("AB60"), SlaveWrite(Started), Datal("AB61"), SlaveRead >>

\* Mutant: the probes are driven before the operands are written.
BugGcdTest(t) ==
  << LaOe(0, 1), LaOe(1, 1), LaData(0, t[1]), LaData(1, t[2]),
     LaOe(2, 0), LaOe(3, 0), Datal("AB40"), LaOe(0, 0), LaOe(1, 0),
     PollEqual(Expect(t)), Datal("AB41"), Datal("AB51") >>

GcdTest(t) ==
  << LaData(0, t[1]), LaData(1, t[2]),
     LaOe(0, 1), LaOe(1, 1), LaOe(2, 0), LaOe(3, 0),
     Datal("AB40"), LaOe(0, 0), LaOe(1, 0),
     PollEqual(Expect(t)), Datal("AB41"), Datal("AB51") >>

GcdLa(ts) == [i \in DOMAIN ts |-> GcdTest(ts[i])]

\* Mutant: the character is written without a look at txfull.
BugPutOne(c) == << Csr("rxtx", c) >>

\* while (reg_uart_txfull == 1); reg_uart_data = c;
PutOne(c) == << PollTxFull, Csr("rxtx", c) >>

putchar(c) == (IF c = "nl" THEN PutOne("cr") ELSE << >>) \o PutOne(c)
print(t)   == [i \in DOMAIN t |-> putchar(t[i])]

\* What a reader of the line expects of a text: character i at Place(t, i), and
\* a carriage return in the place before a newline.
Place(t, i) == i + Cardinality({j \in 1 .. i : t[j] = "nl"})
Line(t) == [p \in 1 .. Place(t, Len(t)) |->
             IF \E i \in DOMAIN t : Place(t, i) = p
             THEN t[CHOOSE i \in DOMAIN t : Place(t, i) = p] ELSE "cr"]

\* A client of irq_vex.h and of the timer macros of defs.h: it starts the timer
\* with its interrupt on, prints, and acknowledges the event.
TimerClient(t, n) ==
  << << Csr("load", n), Csr("reload", n), Csr("ev_pending", 1), Csr("ev_enable", 1),
        Csr("en", 1), IrqSetMask(1), IrqSetIe(1) >> >>
  \o print(t) \o << << Csr("ev_pending", 1) >> >>

\* Mutant: isr leaves the interrupt mask as it is.
BugIsr == << LaData(1, 10 % W), LaData(0, 131072 % W), SetFlag, Mret >>

isr == << IrqSetMask(0), LaData(1, 10 % W), LaData(0, 131072 % W), SetFlag, Mret >>

TpInit ==
  /\ ProjectInit /\ PeriphInit
  /\ \/ /\ project = "counter" /\ prog \in {<< CounterLa >>, << CounterWb >>}
        /\ tests = << >> /\ text = << >>
     \/ /\ project = "gcd" /\ tests \in GcdTests /\ prog = GcdLa(tests)
        /\ text = << >>
     \/ /\ project = "gcd" /\ tests = << >> /\ text \in Texts
        /\ \E n \in TimerValues : prog = TimerClient(text, n)
  /\ at = << 1, 1 >> /\ pace = 0 /\ shown = "none" /\ clocks = X
  /\ mie = 0 /\ irq_mask = 0 /\ isr_flag = FALSE
  /\ isr_at = 0 /\ isr_runs = 0

-----------------------------------------------------------------------------
(* Accesses. *)

InIsr == isr_at > 0
Ended == ~InIsr /\ at[1] > Len(prog)
Stmt  == IF InIsr THEN isr[isr_at] ELSE prog[at[1]][at[2]]

Following == IF at[2] < Len(prog[at[1]]) THEN << at[1], at[2] + 1 >> ELSE << at[1] + 1, 1 >>

Advance ==
  /\ IF InIsr THEN isr_at' = isr_at + 1 /\ at' = at
              ELSE at' = Following /\ isr_at' = isr_at
  /\ pace' = 0

Repeat == UNCHANGED << at, isr_at >> /\ pace' = 0

WriteLa ==
  /\ Stmt.op \in {"la_oe", "la_data"}
  /\ IF Stmt.op = "la_oe"
     THEN la_oe' = [la_oe EXCEPT ![Stmt.n] = Stmt.v] /\ UNCHANGED la_out
     ELSE la_out' = [la_out EXCEPT ![Stmt.n] = Stmt.v] /\ UNCHANGED la_oe
  /\ Advance /\ PeriphClock(NoWrite)
  /\ UNCHANGED << wb, shown, irqVars >>

WriteFlag ==
  /\ Stmt.op = "datal"
  /\ shown' = Stmt.v
  /\ Advance /\ PeriphClock(NoWrite)
  /\ UNCHANGED << laVars, wb, irqVars >>

WriteCsr ==
  /\ Stmt.op \in CsrRegs
  /\ PeriphClock([reg |-> Stmt.op, v |-> Stmt.v])
  /\ Advance
  /\ UNCHANGED << laVars, wb, shown, irqVars >>

\* A loop around a read of reg_la0_data_in or of reg_uart_txfull.
Poll ==
  /\ Stmt.op \in {"above", "equal", "txfull"}
  /\ LET out == \/ Stmt.op = "above"  /\ regs1 > Stmt.v
                \/ Stmt.op = "equal"  /\ regs1 = Stmt.v
                \/ Stmt.op = "txfull" /\ ~uart_txfull
     IN IF out THEN Advance ELSE Repeat
  /\ PeriphClock(NoWrite)
  /\ UNCHANGED << laVars, wb, shown, irqVars >>

\* Instructions of the core itself: irq_setmask, irq_setie, flag = 1, mret.
CoreOp ==
  /\ Stmt.op \in {"irq_setmask", "irq_setie", "flag", "mret"}
  /\ irq_mask' = IF Stmt.op = "irq_setmask" THEN Stmt.v ELSE irq_mask
  /\ mie' = IF Stmt.op = "irq_setie" THEN Stmt.v ELSE IF Stmt.op = "mret" THEN 1 ELSE mie
  /\ isr_flag' = (isr_flag \/ Stmt.op = "flag")
  /\ IF Stmt.op = "mret" THEN isr_at' = 0 /\ at' = at /\ pace' = 0 ELSE Advance
  /\ PeriphClock(NoWrite)
  /\ UNCHANGED << laVars, wb, shown, isr_runs >>

\* reg_mprj_slave: the access stays on the bus until its acknowledge.
StartSlave ==
  /\ Stmt.op \in {"slave_write", "slave_read"}
  /\ wb' = [valid |-> TRUE, we |-> Stmt.op = "slave_write", dat |-> Stmt.v]
  /\ Repeat /\ PeriphClock(NoWrite)
  /\ UNCHANGED << laVars, shown, irqVars >>

EndSlave ==
  /\ wb.valid /\ ready
  /\ wb' = NoWb
  /\ shown' = IF ~wb.we /\ rdata = Wanted THEN "AB61" ELSE shown
  /\ Advance /\ PeriphClock(NoWrite)
  /\ UNCHANGED << laVars, irqVars >>

LaterClocks == IF clocks = X \/ Ended THEN clocks ELSE (clocks + 1) % W

CoreAccess ==
  /\ ~Ended
  /\ \/ EndSlave
     \/ ~wb.valid /\ (WriteLa \/ WriteFlag \/ WriteCsr \/ Poll \/ CoreOp \/ StartSlave)
  /\ UserClock
  /\ clocks' = IF wb.we THEN 0 ELSE LaterClocks
  /\ UNCHANGED << tests, text, prog >>

\* A clock without an access: the core fetches, or waits for ready.
CoreWaits ==
  /\ IF wb.valid THEN ~ready ELSE Ended \/ pace < MaxPace
  /\ pace' = IF wb.valid \/ Ended THEN pace ELSE pace + 1
  /\ UserClock /\ PeriphClock(NoWrite)
  /\ clocks' = LaterClocks
  /\ UNCHANGED << tests, text, prog, at, isr_at, laVars, wb, shown, irqVars >>

\* The core takes the interrupt: trap_entry, then isr.
TakeIrq ==
  /\ mie = 1 /\ irq_mask = 1 /\ irq_next /\ ~wb.valid
  /\ isr_at' = 1 /\ mie' = 0 /\ pace' = 0
  /\ isr_runs' = IF isr_runs < 2 THEN isr_runs + 1 ELSE 2
  /\ UserClock /\ PeriphClock(NoWrite)
  /\ clocks' = LaterClocks
  /\ UNCHANGED << tests, text, prog, at, laVars, wb, shown, irq_mask, isr_flag >>

TpNext == CoreAccess \/ CoreWaits \/ TakeIrq

\* The clock runs; the bound on pace makes the core get to its next access.
TpSpec == /\ TpInit /\ [][TpNext]_allVars
          /\ WF_allVars(TpNext)

-----------------------------------------------------------------------------
\* The gcd test that is running.
Running == tests[at[1]]

\* A test shown as passed has passed.  gcd_la.c: for the result of this test's
\* operands, not for the result the test before left in gcd_o and not for a
\* mixture of the operands of two tests, although the poll starts before seq_gcd
\* is done.  counter_la.c "when counter value exceeds 500" (its header): the
\* count has passed Limit after it was set to zero, although it ran freely
\* before and the synchroniser still holds older counts.
PassHonest ==
  shown = "AB41" => IF project = "gcd" THEN tests # << >> /\ gcd_of = Running
                                       ELSE run = "above"

\* counter_wb.c reads the count its own write started, clock for clock: the
\* access that takes two clocks is served in one of them only.
SlaveReadTrue ==
  wb.valid /\ ready /\ ~wb.we => rdata = (Started + clocks) % W

\* print loses, repeats and reorders no character, at whatever fill of the FIFO
\* and whenever isr runs, and sends CR before every LF (putchar): what has left
\* on the line and what is on its way is a beginning of the text, and all of
\* the text when the program has ended.
TextIntact ==
  LET out == sent \o tx_out \o tx_fifo
  IN text # << >> => /\ IsPrefix(out, Line(text))
                     /\ Ended => out = Line(text)

\* isr acknowledges nothing at the timer, so its mask write is all that keeps
\* the pending event from interrupting again: it runs once at most.
IsrOnce == isr_runs < 2

\* isr runs for the timer the program has started, never for the event timer0
\* has had pending since reset, although a clear takes two clocks to reach the
\* pending flag and the enable may be written in the next clock: no interrupt is
\* taken before the timer has been on for as long as it was loaded with.
IsrNotEarly == isr_runs > 0 => age > load

\* Every program gets to its last flag: no poll waits for ever.
TestsFinish == <>Ended
=============================================================================
