------------------------- MODULE TestPrograms_proofs -------------------------
(***************************************************************************)
(* What the test programs rely on, for words of every size, every list of  *)
(* tests gcd_la.c may have, every text and every pace of the core.         *)
(*                                                                         *)
(* First what the statements of the programs are and what a step does to   *)
(* the program's place and to the registers (Steps).  The invariants then  *)
(* come one per question: TpTypeOK and IrqInv for every program, SlaveInv  *)
(* for counter_wb.c, ResInv for seq_gcd, CountInv for counter_la.c, GcdInv *)
(* for gcd_la.c, TextInv for print, AgeInv for timer0.                     *)
(***************************************************************************)
EXTENDS TestPrograms, FiniteSetTheorems, SequenceTheorems, TLAPS

-----------------------------------------------------------------------------
(* What the statements of the programs are. *)

\* A statement of a program writes words and levels to the probes; only the
\* first block touches the interrupts of the core, and allows them last.
ProbesOK(st) ==
  /\ st.op = "la_data" => st.n \in 0 .. 1 /\ st.v \in Words
  /\ st.op = "la_oe" => st.n \in 0 .. 3 /\ st.v \in {0, 1}

StatementsOK(p) ==
  \A b \in 1 .. Len(p) :
    /\ Len(p[b]) \in Nat \ {0}
    /\ \A s \in 1 .. Len(p[b]) :
         /\ ProbesOK(p[b][s])
         /\ p[b][s].op \notin {"mret", "flag"}
         /\ p[b][s].op \in {"irq_setmask", "irq_setie"} => b = 1
         /\ p[b][s].op = "irq_setie" => s = Len(p[1])

IsCounterLa == project = "counter" /\ prog = << CounterLa >>
IsCounterWb == project = "counter" /\ prog = << CounterWb >>
IsGcdLa     == project = "gcd" /\ tests \in GcdTests /\ prog = GcdLa(tests)
IsTimer     == project = "gcd" /\ tests = << >> /\ \E t \in Texts, n \in TimerValues : prog = TimerClient(t, n)
Chip        == IsCounterLa \/ IsCounterWb \/ IsGcdLa \/ IsTimer

LEMMA CounterLaStatements ==
  /\ Len(CounterLa) = 10
  /\ CounterLa[1] = LaOe(0, 0) /\ CounterLa[2] = LaOe(1, 1)
  /\ CounterLa[3] = LaOe(2, 0) /\ CounterLa[4] = LaOe(3, 0)
  /\ CounterLa[5] = Datal("AB40") /\ CounterLa[6] = LaData(1, 0)
  /\ CounterLa[7] = LaOe(1, 0) /\ CounterLa[8] = PollAbove(Limit)
  /\ CounterLa[9] = Datal("AB41") /\ CounterLa[10] = Datal("AB51")
  BY DEF CounterLa

LEMMA CounterWbStatements ==
  /\ Len(CounterWb) = 5
  /\ CounterWb[1] = LaOe(2, 0) /\ CounterWb[2] = Datal("AB60")
  /\ CounterWb[3] = SlaveWrite(Started) /\ CounterWb[4] = Datal("AB61")
  /\ CounterWb[5] = SlaveRead
  BY DEF CounterWb

LEMMA GcdStatements ==
  ASSUME NEW t
  PROVE  /\ Len(GcdTest(t)) = 12
         /\ GcdTest(t)[1] = LaData(0, t[1]) /\ GcdTest(t)[2] = LaData(1, t[2])
         /\ GcdTest(t)[3] = LaOe(0, 1) /\ GcdTest(t)[4] = LaOe(1, 1)
         /\ GcdTest(t)[5] = LaOe(2, 0) /\ GcdTest(t)[6] = LaOe(3, 0)
         /\ GcdTest(t)[7] = Datal("AB40") /\ GcdTest(t)[8] = LaOe(0, 0)
         /\ GcdTest(t)[9] = LaOe(1, 0) /\ GcdTest(t)[10] = PollEqual(Expect(t))
         /\ GcdTest(t)[11] = Datal("AB41") /\ GcdTest(t)[12] = Datal("AB51")
  BY DEF GcdTest

LEMMA IsrStatements ==
  /\ Len(isr) = 5
  /\ isr[1] = IrqSetMask(0) /\ isr[2] = LaData(1, 10 % W)
  /\ isr[3] = LaData(0, 131072 % W) /\ isr[4] = SetFlag /\ isr[5] = Mret
  BY DEF isr

\* Every test is a block of gcd_la.c.
LEMMA GcdBlocks ==
  ASSUME NEW ts \in GcdTests
  PROVE  /\ Len(ts) \in Nat /\ Len(GcdLa(ts)) = Len(ts)
         /\ \A b \in 1 .. Len(ts) : /\ GcdLa(ts)[b] = GcdTest(ts[b])
                                    /\ ts[b] \in Words \X Words
<1>1. ts \in Seq(Words \X Words)
  BY TestProgramsAssumption
<1>2. DOMAIN ts = 1 .. Len(ts) /\ Len(ts) \in Nat /\ \A b \in 1 .. Len(ts) : ts[b] \in Words \X Words
  BY <1>1
<1>3. DOMAIN GcdLa(ts) = 1 .. Len(ts)
  BY <1>2 DEF GcdLa
<1>4. Len(GcdLa(ts)) = Len(ts)
  BY <1>2, <1>3
<1> QED
  BY <1>2, <1>4 DEF GcdLa

LEMMA Concatenation ==
  ASSUME NEW S, NEW q \in Seq(S), NEW r \in Seq(S)
  PROVE  /\ q \o r \in Seq(S) /\ Len(q \o r) = Len(q) + Len(r)
         /\ \A i \in 1 .. Len(q) : (q \o r)[i] = q[i]
         /\ \A i \in 1 .. Len(r) : (q \o r)[Len(q) + i] = r[i]
  OBVIOUS

\* The blocks of a client of the timer: its set-up, the characters of its text,
\* the acknowledge.
LEMMA TimerBlocks ==
  ASSUME NEW t \in Texts, NEW n \in TimerValues
  PROVE  LET p == TimerClient(t, n) IN
         /\ Len(t) \in Nat /\ Len(p) = Len(t) + 2
         /\ p[1] = << Csr("load", n), Csr("reload", n), Csr("ev_pending", 1),
                      Csr("ev_enable", 1), Csr("en", 1), IrqSetMask(1), IrqSetIe(1) >>
         /\ \A b \in 1 .. Len(t) : p[1 + b] = putchar(t[b])
         /\ p[Len(t) + 2] = << Csr("ev_pending", 1) >>
<1> DEFINE setup == << Csr("load", n), Csr("reload", n), Csr("ev_pending", 1),
                       Csr("ev_enable", 1), Csr("en", 1), IrqSetMask(1), IrqSetIe(1) >>
           ack == << Csr("ev_pending", 1) >>
           S == {print(t)[b] : b \in 1 .. Len(t)} \cup {setup, ack}
<1>1. DOMAIN t = 1 .. Len(t) /\ Len(t) \in Nat
  <2>1. t \in Seq(STRING)
    BY TestProgramsAssumption
  <2> QED
    BY <2>1
<1>2. DOMAIN print(t) = 1 .. Len(t) /\ \A b \in 1 .. Len(t) : print(t)[b] = putchar(t[b])
  BY <1>1 DEF print
<1>3. TimerClient(t, n) = (<< setup >> \o print(t)) \o << ack >>
  BY DEF TimerClient
<1>4. setup \in S /\ ack \in S /\ \A b \in 1 .. Len(t) : print(t)[b] \in S
  OBVIOUS
<1> HIDE DEF setup, ack, S
<1>5. print(t) \in Seq(S) /\ Len(print(t)) = Len(t)
  <2>1. print(t) = [b \in 1 .. Len(t) |-> print(t)[b]]
    BY <1>1 DEF print
  <2>2. print(t) \in [1 .. Len(t) -> S]
    BY <2>1, <1>4
  <2> QED
    BY <2>2, <1>1
<1>6. << setup >> \in Seq(S) /\ << ack >> \in Seq(S)
      /\ Len(<< setup >>) = 1 /\ Len(<< ack >>) = 1 /\ << setup >>[1] = setup /\ << ack >>[1] = ack
  BY <1>4
<1> DEFINE ip == << setup >> \o print(t)
<1>7. /\ ip \in Seq(S) /\ Len(ip) = 1 + Len(t) /\ ip[1] = setup
      /\ \A b \in 1 .. Len(t) : ip[1 + b] = print(t)[b]
  BY <1>1, <1>5, <1>6, Concatenation
<1> HIDE DEF ip
<1>8. /\ Len(ip \o << ack >>) = Len(t) + 2
      /\ \A b \in 1 .. 1 + Len(t) : (ip \o << ack >>)[b] = ip[b]
      /\ (ip \o << ack >>)[Len(t) + 2] = ack
  <2>1. (ip \o << ack >>)[(1 + Len(t)) + 1] = ack
    BY <1>1, <1>6, <1>7, Concatenation
  <2>2. (1 + Len(t)) + 1 = Len(t) + 2
    BY <1>1
  <2>3. Len(ip \o << ack >>) = (1 + Len(t)) + 1
    BY <1>6, <1>7, Concatenation
  <2>4. \A b \in 1 .. 1 + Len(t) : (ip \o << ack >>)[b] = ip[b]
    BY <1>6, <1>7, Concatenation
  <2> QED
    BY <2>1, <2>2, <2>3, <2>4
<1>9. TimerClient(t, n) = ip \o << ack >>
  BY <1>3 DEF ip
<1>10. TimerClient(t, n)[1] = setup /\ TimerClient(t, n)[Len(t) + 2] = ack
  BY <1>1, <1>7, <1>8, <1>9
<1>11. \A b \in 1 .. Len(t) : TimerClient(t, n)[1 + b] = putchar(t[b])
  BY <1>1, <1>2, <1>7, <1>8, <1>9
<1> QED
  BY <1>1, <1>8, <1>9, <1>10, <1>11 DEF setup, ack

-----------------------------------------------------------------------------
\* A block that leaves interrupts and the slave alone is all right as any block.
Plain(q) ==
  /\ Len(q) \in Nat \ {0}
  /\ \A s \in 1 .. Len(q) :
       /\ ProbesOK(q[s])
       /\ q[s].op \notin {"mret", "flag", "irq_setmask", "irq_setie", "slave_write", "slave_read"}

LEMMA CounterLaIsPlain == Plain(CounterLa)
<1>1. 0 \in Words
  BY UserProjectAssumption DEF Words
<1>2. ASSUME NEW s \in 1 .. 10 PROVE CounterLa[s].op \in {"la_oe", "la_data", "datal", "above"}
  BY CounterLaStatements DEF LaOe, LaData, Datal, PollAbove
<1>3. ASSUME NEW s \in 1 .. 10 PROVE ProbesOK(CounterLa[s])
  BY <1>1, CounterLaStatements DEF LaOe, LaData, Datal, PollAbove, ProbesOK
<1> QED
  BY <1>2, <1>3, CounterLaStatements DEF Plain

LEMMA CounterWbOps ==
  ASSUME NEW s \in 1 .. 5
  PROVE  /\ CounterWb[s].op \notin {"mret", "flag", "irq_setmask", "irq_setie"}
         /\ ProbesOK(CounterWb[s])
         /\ CounterWb[s].op \in {"slave_write", "slave_read"} => s \in {3, 5}
  BY CounterWbStatements DEF LaOe, Datal, SlaveWrite, SlaveRead, ProbesOK

LEMMA GcdTestIsPlain ==
  ASSUME NEW t \in Words \X Words
  PROVE  Plain(GcdTest(t))
<1>1. t[1] \in Words /\ t[2] \in Words
  OBVIOUS
<1> DEFINE g == GcdTest(t)
<1>2. /\ Len(g) = 12
      /\ g[1] = LaData(0, t[1]) /\ g[2] = LaData(1, t[2])
      /\ g[3] = LaOe(0, 1) /\ g[4] = LaOe(1, 1) /\ g[5] = LaOe(2, 0) /\ g[6] = LaOe(3, 0)
      /\ g[7] = Datal("AB40") /\ g[8] = LaOe(0, 0) /\ g[9] = LaOe(1, 0)
      /\ g[10] = PollEqual(Expect(t)) /\ g[11] = Datal("AB41") /\ g[12] = Datal("AB51")
  BY GcdStatements
<1> HIDE DEF g
<1>3. ASSUME NEW s \in 1 .. 6
      PROVE  g[s].op \in {"la_oe", "la_data", "datal", "equal"} /\ ProbesOK(g[s])
  BY <1>1, <1>2 DEF LaOe, LaData, ProbesOK
<1>4. ASSUME NEW s \in 7 .. 12
      PROVE  g[s].op \in {"la_oe", "la_data", "datal", "equal"} /\ ProbesOK(g[s])
  BY <1>2 DEF LaOe, Datal, PollEqual, ProbesOK
<1>5. \A s \in 1 .. 12 : s \in 1 .. 6 \/ s \in 7 .. 12
  OBVIOUS
<1>6. Plain(g)
  BY <1>2, <1>3, <1>4, <1>5 DEF Plain
<1> QED
  BY <1>6 DEF g

LEMMA PutcharIsPlain ==
  ASSUME NEW c
  PROVE  /\ Plain(putchar(c))
         /\ \A s \in 1 .. Len(putchar(c)) : putchar(c)[s].op # "datal"
<1>1. PutOne(c) = << PollTxFull, Csr("rxtx", c) >>
      /\ PutOne("cr") = << PollTxFull, Csr("rxtx", "cr") >>
  BY DEF PutOne
<1>2. CASE c # "nl"
  <2>1. putchar(c) = << PollTxFull, Csr("rxtx", c) >>
    BY <1>1, <1>2 DEF putchar
  <2> QED
    BY <2>1 DEF Plain, ProbesOK, PollTxFull, Csr
<1>3. CASE c = "nl"
  <2> DEFINE S == {PollTxFull, Csr("rxtx", "cr"), Csr("rxtx", c)}
  <2>1. putchar(c) = PutOne("cr") \o PutOne(c)
    BY <1>3 DEF putchar
  <2>2. PollTxFull \in S /\ Csr("rxtx", "cr") \in S /\ Csr("rxtx", c) \in S
    OBVIOUS
  <2>3. \A s \in S : s.op \in {"txfull", "rxtx"}
    BY DEF PollTxFull, Csr
  <2> HIDE DEF S
  <2>4. putchar(c) \in Seq(S) /\ Len(putchar(c)) = 4
    <3>1. PutOne("cr") \in Seq(S) /\ Len(PutOne("cr")) = 2
      BY <1>1, <2>2
    <3>2. PutOne(c) \in Seq(S) /\ Len(PutOne(c)) = 2
      BY <1>1, <2>2
    <3>3. /\ PutOne("cr") \o PutOne(c) \in Seq(S)
          /\ Len(PutOne("cr") \o PutOne(c)) = Len(PutOne("cr")) + Len(PutOne(c))
      BY ONLY <3>1, <3>2, Concatenation
    <3> QED
      BY <2>1, <3>1, <3>2, <3>3
  <2>5. ASSUME NEW s \in 1 .. 4 PROVE putchar(c)[s].op \in {"txfull", "rxtx"}
    BY <2>3, <2>4
  <2> QED
    BY <2>4, <2>5 DEF Plain, ProbesOK
<1> QED
  BY <1>2, <1>3

LEMMA PlainPrograms ==
  ASSUME IsCounterLa \/ IsGcdLa
  PROVE  Len(prog) \in Nat /\ \A b \in 1 .. Len(prog) : Plain(prog[b])
<1>1. CASE IsCounterLa
  <2>1. Len(prog) = 1 /\ prog[1] = CounterLa
    BY <1>1 DEF IsCounterLa
  <2> QED
    BY <2>1, CounterLaIsPlain
<1>2. CASE IsGcdLa
  BY <1>2, GcdBlocks, GcdTestIsPlain DEF IsGcdLa
<1> QED
  BY <1>1, <1>2

LEMMA TimerProgram ==
  ASSUME IsTimer
  PROVE  /\ Len(prog) \in Nat /\ Len(prog) > 0 /\ Len(prog[1]) = 7
         /\ \A b \in 1 .. Len(prog) : b # 1 =>
              Plain(prog[b]) /\ \A s \in 1 .. Len(prog[b]) : prog[b][s].op # "datal"
         /\ \A s \in 1 .. 7 : /\ prog[1][s].op \notin {"la_data", "la_oe", "datal", "mret", "flag",
                                                      "slave_write", "slave_read"}
                              /\ prog[1][s].op = "irq_setie" => s = 7
<1>1. PICK t \in Texts, n \in TimerValues : prog = TimerClient(t, n)
  BY DEF IsTimer
<1>2. /\ Len(t) \in Nat /\ Len(prog) = Len(t) + 2
      /\ prog[1] = << Csr("load", n), Csr("reload", n), Csr("ev_pending", 1),
                      Csr("ev_enable", 1), Csr("en", 1), IrqSetMask(1), IrqSetIe(1) >>
      /\ \A b \in 1 .. Len(t) : prog[1 + b] = putchar(t[b])
      /\ prog[Len(t) + 2] = << Csr("ev_pending", 1) >>
  BY <1>1, TimerBlocks
<1>3. ASSUME NEW b \in 1 .. Len(prog), b # 1
      PROVE  Plain(prog[b]) /\ \A s \in 1 .. Len(prog[b]) : prog[b][s].op # "datal"
  <2>1. CASE b = Len(t) + 2
    BY <2>1, <1>2 DEF Csr, Plain, ProbesOK
  <2>2. CASE b # Len(t) + 2
    <3>1. b - 1 \in 1 .. Len(t) /\ b = 1 + (b - 1)
      BY <1>2, <1>3, <2>2
    <3>2. prog[b] = putchar(t[b - 1])
      BY <3>1, <1>2
    <3> QED
      BY <3>2, PutcharIsPlain
  <2> QED
    BY <2>1, <2>2
<1>4. Len(prog[1]) = 7
  BY <1>2
<1>5. ASSUME NEW s \in 1 .. 7
      PROVE  /\ prog[1][s].op \notin {"la_data", "la_oe", "datal", "mret", "flag",
                                      "slave_write", "slave_read"}
             /\ prog[1][s].op = "irq_setie" => s = 7
  BY <1>2 DEF Csr, IrqSetMask, IrqSetIe
<1> QED
  BY <1>2, <1>3, <1>4, <1>5

\* The statements of each program are as they should be.
LEMMA ProgramStatements ==
  ASSUME Chip
  PROVE  Len(prog) \in Nat /\ StatementsOK(prog)
<1>1. CASE IsCounterLa \/ IsGcdLa
  BY <1>1, PlainPrograms DEF Plain, StatementsOK
<1>2. CASE IsCounterWb
  <2>1. Len(prog) = 1 /\ prog[1] = CounterWb
    BY <1>2 DEF IsCounterWb
  <2> QED
    BY <2>1, CounterWbOps, CounterWbStatements DEF StatementsOK
<1>3. CASE IsTimer
  <2>1. ASSUME NEW b \in 1 .. Len(prog)
        PROVE  /\ Len(prog[b]) \in Nat \ {0}
               /\ \A s \in 1 .. Len(prog[b]) :
                    /\ ProbesOK(prog[b][s]) /\ prog[b][s].op \notin {"mret", "flag"}
                    /\ prog[b][s].op \in {"irq_setmask", "irq_setie"} => b = 1
                    /\ prog[b][s].op = "irq_setie" => s = Len(prog[1])
    <3>1. CASE b = 1
      <4>1. /\ Len(prog[1]) = 7
            /\ \A s \in 1 .. 7 : /\ prog[1][s].op \notin {"la_data", "la_oe", "mret", "flag"}
                                 /\ prog[1][s].op = "irq_setie" => s = 7
        BY <1>3, TimerProgram
      <4>2. \A s \in 1 .. 7 : ProbesOK(prog[1][s])
        BY <4>1 DEF ProbesOK
      <4> QED
        BY <3>1, <4>1, <4>2
    <3>2. CASE b # 1
      BY <3>2, <1>3, TimerProgram DEF Plain
    <3> QED
      BY <3>1, <3>2
  <2> QED
    BY <1>3, <2>1, TimerProgram DEF StatementsOK
<1> QED
  BY <1>1, <1>2, <1>3 DEF Chip

\* Only counter_wb.c writes and reads the slave.
LEMMA SlaveStatements ==
  ASSUME Chip, NEW b \in 1 .. Len(prog), NEW s \in 1 .. Len(prog[b]),
         prog[b][s].op \in {"slave_write", "slave_read"}
  PROVE  /\ IsCounterWb /\ b = 1
         /\ \/ s = 3 /\ prog[b][s] = SlaveWrite(Started)
            \/ s = 5 /\ prog[b][s] = SlaveRead
<1>1. CASE IsCounterLa \/ IsGcdLa
  BY <1>1, PlainPrograms DEF Plain
<1>2. CASE IsCounterWb
  <2>1. Len(prog) = 1 /\ prog[1] = CounterWb /\ b = 1
    BY <1>2 DEF IsCounterWb
  <2> QED
    BY <1>2, <2>1, CounterWbOps, CounterWbStatements
<1>3. CASE IsTimer
  BY <1>3, TimerProgram DEF Plain
<1> QED
  BY <1>1, <1>2, <1>3 DEF Chip

-----------------------------------------------------------------------------
(* What a step does. *)

Probes(st) ==
  /\ la_out' = IF st.op = "la_data" THEN [la_out EXCEPT ![st.n] = st.v] ELSE la_out
  /\ la_oe' = IF st.op = "la_oe" THEN [la_oe EXCEPT ![st.n] = st.v] ELSE la_oe

\* The program stays where it is.
Stands == UNCHANGED << at, isr_at, laVars, wb, shown, mie, irq_mask, isr_runs >>

\* Statement st is done and the program goes on.
Done(st) ==
  /\ st.op \notin {"mret", "slave_write", "slave_read"}
  /\ Probes(st) /\ Advance
  /\ shown' = IF st.op = "datal" THEN st.v ELSE shown
  /\ st.op = "above" => regs1 > st.v
  /\ st.op = "equal" => regs1 = st.v
  /\ mie' = IF st.op = "irq_setie" THEN st.v ELSE mie
  /\ irq_mask' = IF st.op = "irq_setmask" THEN st.v ELSE irq_mask
  /\ UNCHANGED << wb, isr_runs >>

LEMMA Steps ==
  ASSUME TpNext, wb.we => wb.valid
  PROVE  /\ UserClock /\ UNCHANGED << prog, tests, text >>
         /\ \/ Stands
            \/ ~Ended /\ ~wb.valid /\ Done(Stmt)
            \/ /\ ~Ended /\ Stmt.op = "mret" /\ isr_at' = 0 /\ mie' = 1
               /\ UNCHANGED << at, laVars, wb, shown, irq_mask, isr_runs >>
            \/ ~Ended /\ ~wb.valid /\ StartSlave
            \/ ~Ended /\ EndSlave
            \/ TakeIrq
         /\ clocks' = IF EndSlave /\ wb.we THEN 0 ELSE LaterClocks
<1>1. CASE CoreAccess
  <2>1. UserClock /\ UNCHANGED << prog, tests, text >> /\ ~Ended
        /\ clocks' = IF wb.we THEN 0 ELSE LaterClocks
    BY <1>1 DEF CoreAccess
  <2>2. CASE EndSlave
    BY <2>1, <2>2 DEF EndSlave
  <2>3. CASE ~wb.valid /\ WriteLa
    <3>1. Done(Stmt)
      BY <2>3 DEF WriteLa, Done, Probes, irqVars
    <3> QED
      BY <2>1, <2>3, <3>1 DEF WriteLa
  <2>4. CASE ~wb.valid /\ WriteFlag
    <3>1. Done(Stmt)
      BY <2>4 DEF WriteFlag, Done, Probes, irqVars, laVars
    <3> QED
      BY <2>1, <2>4, <3>1 DEF WriteFlag
  <2>5. CASE ~wb.valid /\ WriteCsr
    <3>1. Done(Stmt)
      BY <2>5 DEF WriteCsr, Done, Probes, irqVars, laVars, CsrRegs
    <3> QED
      BY <2>1, <2>5, <3>1 DEF WriteCsr
  <2>6. CASE ~wb.valid /\ Poll
    <3>1. Stands \/ Done(Stmt)
      BY <2>6 DEF Poll, Done, Probes, irqVars, laVars, Stands, Repeat
    <3> QED
      BY <2>1, <2>6, <3>1 DEF Poll
  <2>7. CASE ~wb.valid /\ CoreOp
    <3>1. CASE Stmt.op = "mret"
      BY <2>1, <2>7, <3>1 DEF CoreOp
    <3>2. CASE Stmt.op # "mret"
      <4>1. Done(Stmt)
        BY <2>7, <3>2 DEF CoreOp, Done, Probes, laVars
      <4> QED
        BY <2>1, <2>7, <4>1 DEF CoreOp
    <3> QED
      BY <3>1, <3>2
  <2>8. CASE ~wb.valid /\ StartSlave
    BY <2>1, <2>8 DEF StartSlave
  <2> QED
    BY <1>1, <2>2, <2>3, <2>4, <2>5, <2>6, <2>7, <2>8 DEF CoreAccess
<1>2. CASE CoreWaits
  <2>1. ~EndSlave
    BY <1>2 DEF CoreWaits, EndSlave
  <2> QED
    BY <1>2, <2>1 DEF CoreWaits, Stands, irqVars
<1>3. CASE TakeIrq
  <2>1. ~EndSlave
    BY <1>3 DEF TakeIrq, EndSlave
  <2> QED
    BY <1>3, <2>1 DEF TakeIrq
<1> QED
  BY <1>1, <1>2, <1>3 DEF TpNext

-----------------------------------------------------------------------------
(* Where the program is and what it may do there. *)

AtOK ==
  /\ at \in (Nat \ {0}) \X (Nat \ {0})
  /\ at[1] <= Len(prog) => at[2] <= Len(prog[at[1]])

\* Only counter_wb.c is ever on the bus, in its two accesses of the slave.
SlaveOK ==
  \/ wb = NoWb
  \/ /\ IsCounterWb /\ at[1] = 1
     /\ \/ at[2] = 3 /\ wb = [valid |-> TRUE, we |-> TRUE, dat |-> Started]
        \/ at[2] = 5 /\ wb = [valid |-> TRUE, we |-> FALSE, dat |-> 0]

TpTypeOK ==
  /\ Chip /\ AtOK /\ SlaveOK
  /\ isr_at \in 0 .. 5
  /\ IsCounterLa \/ IsCounterWb \/ IsGcdLa => mie = 0 /\ isr_at = 0
  /\ la_out \in [0 .. 1 -> Words] /\ la_oe \in [0 .. 3 -> {0, 1}]
  /\ count \in Words

\* isr runs when its interrupt is allowed and has not run; the first thing it
\* does takes the permission away, and nothing gives it back.
IrqInv ==
  /\ isr_runs \in {0, 1}
  /\ isr_runs = 0 => isr_at = 0
  /\ mie = 1 => isr_at = 0
  /\ irq_mask = 1 => isr_runs = 0 \/ isr_at = 1
  /\ mie = 1 \/ isr_runs = 1 => at[1] >= 2

LEMMA ChipConstant ==
  ASSUME UNCHANGED << project, prog, tests >>
  PROVE  /\ IsCounterLa' = IsCounterLa
         /\ IsCounterWb' = IsCounterWb
         /\ IsGcdLa' = IsGcdLa
         /\ IsTimer' = IsTimer
         /\ Chip' = Chip
  BY DEF IsCounterLa, IsCounterWb, IsGcdLa, IsTimer, Chip

\* The statement to be run next is one of the program's, or of isr.
LEMMA NextStatement ==
  ASSUME TpTypeOK, ~Ended
  PROVE  /\ ProbesOK(Stmt)
         /\ ~InIsr => /\ at[1] \in 1 .. Len(prog) /\ at[2] \in 1 .. Len(prog[at[1]])
                      /\ Stmt = prog[at[1]][at[2]]
                      /\ Stmt.op \notin {"mret", "flag"}
                      /\ Stmt.op \in {"irq_setmask", "irq_setie"} => at[1] = 1
                      /\ Stmt.op = "irq_setie" => at[2] = Len(prog[1])
         /\ InIsr => /\ isr_at \in 1 .. 5 /\ Stmt = isr[isr_at]
                     /\ isr_at = 1 => Stmt = IrqSetMask(0)
                     /\ isr_at # 1 => Stmt.op \notin {"irq_setmask"}
                     /\ Stmt.op \notin {"irq_setie", "slave_write", "slave_read"}
                     /\ Stmt.op = "mret" <=> isr_at = 5
<1>1. Len(prog) \in Nat /\ StatementsOK(prog)
  BY ProgramStatements DEF TpTypeOK
<1>2. CASE ~InIsr
  <2>1. at[1] \in 1 .. Len(prog)
    BY <1>1, <1>2 DEF TpTypeOK, AtOK, Ended
  <2>2. Len(prog[at[1]]) \in Nat \ {0}
    BY <1>1, <2>1 DEF StatementsOK
  <2>3. at[2] \in 1 .. Len(prog[at[1]])
    BY <2>1, <2>2 DEF TpTypeOK, AtOK
  <2>4. Stmt = prog[at[1]][at[2]]
    BY <1>2 DEF Stmt
  <2> QED
    BY <1>1, <1>2, <2>1, <2>3, <2>4 DEF StatementsOK
<1>3. CASE InIsr
  <2>1. isr_at \in 1 .. 5 /\ Stmt = isr[isr_at]
    BY <1>3 DEF TpTypeOK, InIsr, Stmt
  <2>2. 10 % W \in Words /\ 131072 % W \in Words
    BY UserProjectAssumption DEF Words
  <2>3. ProbesOK(Stmt)
    BY <2>1, <2>2, IsrStatements DEF ProbesOK, IrqSetMask, LaData, SetFlag, Mret
  <2>4. /\ isr_at = 1 => Stmt = IrqSetMask(0)
        /\ isr_at # 1 => Stmt.op \notin {"irq_setmask"}
        /\ Stmt.op \notin {"irq_setie", "slave_write", "slave_read"}
        /\ Stmt.op = "mret" <=> isr_at = 5
    BY <2>1, IsrStatements DEF IrqSetMask, LaData, SetFlag, Mret
  <2> QED
    BY <1>3, <2>1, <2>3, <2>4
<1> QED
  BY <1>2, <1>3

LEMMA Advances ==
  ASSUME TpTypeOK, ~Ended, ~InIsr, Advance, prog' = prog
  PROVE  AtOK' /\ isr_at' = 0 /\ at' = Following
<1>1. at' = Following /\ isr_at' = 0
  BY DEF Advance, InIsr, TpTypeOK
<1>2. /\ at[1] \in 1 .. Len(prog) /\ at[2] \in 1 .. Len(prog[at[1]])
      /\ at[1] \in Nat \ {0} /\ at[2] \in Nat \ {0}
  BY NextStatement DEF TpTypeOK, AtOK
<1>3. Len(prog) \in Nat /\ \A b \in 1 .. Len(prog) : Len(prog[b]) \in Nat \ {0}
  BY ProgramStatements DEF TpTypeOK, StatementsOK
<1>4. CASE at[2] < Len(prog[at[1]])
  <2>1. at' = << at[1], at[2] + 1 >>
    BY <1>1, <1>4 DEF Following
  <2> QED
    BY <1>1, <1>2, <1>3, <1>4, <2>1 DEF AtOK
<1>5. CASE ~(at[2] < Len(prog[at[1]]))
  <2>1. at' = << at[1] + 1, 1 >>
    BY <1>1, <1>5 DEF Following
  <2> QED
    BY <1>1, <1>2, <1>3, <2>1 DEF AtOK
<1> QED
  BY <1>4, <1>5

LEMMA ProbesTyped ==
  ASSUME TpTypeOK, NEW st, ProbesOK(st), Probes(st)
  PROVE  la_out' \in [0 .. 1 -> Words] /\ la_oe' \in [0 .. 3 -> {0, 1}]
  BY DEF TpTypeOK, ProbesOK, Probes

\* The count stays a word.
LEMMA CountTyped ==
  ASSUME TpTypeOK, UserClock
  PROVE  count' \in Words
<1>1. CASE project = "gcd"
  BY <1>1 DEF UserClock, counterVars, TpTypeOK
<1>2. CASE Counter
  <2>1. wb.we => wb.dat \in Words
    BY TestProgramsAssumption DEF TpTypeOK, SlaveOK, NoWb
  <2>2. la_out[1] \in Words
    BY DEF TpTypeOK
  <2>3. (count + 1) % W \in Words
    BY UserProjectAssumption DEF TpTypeOK, Words
  <2> QED
    BY <1>2, <2>1, <2>2, <2>3 DEF Counter, CountFrom, CountOn
<1> QED
  BY <1>1, <1>2 DEF UserClock

\* Types hold at the start and after every step.
LEMMA TypesInit == TpInit => TpTypeOK
<1> SUFFICES ASSUME TpInit PROVE TpTypeOK
  OBVIOUS
<1>1. Chip
  BY DEF TpInit, Chip, IsCounterLa, IsCounterWb, IsGcdLa, IsTimer
<1>2. AtOK
  <2>1. at = << 1, 1 >>
    BY DEF TpInit
  <2>2. Len(prog) \in Nat /\ \A b \in 1 .. Len(prog) : Len(prog[b]) \in Nat \ {0}
    BY <1>1, ProgramStatements DEF StatementsOK
  <2> QED
    BY <2>1, <2>2 DEF AtOK
<1>3. 0 \in Words
  BY UserProjectAssumption DEF Words
<1>4. la_out \in [0 .. 1 -> Words] /\ la_oe \in [0 .. 3 -> {0, 1}] /\ wb = NoWb
  BY <1>3 DEF TpInit, ProjectInit
<1>5. count \in Words
  BY <1>3 DEF TpInit, ProjectInit
<1> QED
  BY <1>1, <1>2, <1>4, <1>5 DEF TpInit, TpTypeOK, SlaveOK

LEMMA NoIrqStatements ==
  ASSUME IsCounterLa \/ IsCounterWb \/ IsGcdLa,
         NEW b \in 1 .. Len(prog), NEW s \in 1 .. Len(prog[b])
  PROVE  prog[b][s].op \notin {"irq_setmask", "irq_setie"}
<1>1. CASE IsCounterLa \/ IsGcdLa
  BY <1>1, PlainPrograms DEF Plain
<1>2. CASE IsCounterWb
  <2>1. prog[b] = CounterWb
    BY <1>2 DEF IsCounterWb
  <2> QED
    BY <2>1, CounterWbOps, CounterWbStatements
<1> QED
  BY <1>1, <1>2

LEMMA TypesStep ==
  ASSUME TpTypeOK, TpNext
  PROVE  TpTypeOK'
<1>1. wb.we => wb.valid
  BY DEF TpTypeOK, SlaveOK, NoWb
<1>2. /\ UserClock /\ UNCHANGED << prog, tests, text >>
      /\ \/ Stands
         \/ ~Ended /\ ~wb.valid /\ Done(Stmt)
         \/ /\ ~Ended /\ Stmt.op = "mret" /\ isr_at' = 0 /\ mie' = 1
            /\ UNCHANGED << at, laVars, wb, shown, irq_mask, isr_runs >>
         \/ ~Ended /\ ~wb.valid /\ StartSlave
         \/ ~Ended /\ EndSlave
         \/ TakeIrq
  BY <1>1, Steps
<1>3. UNCHANGED << prog, tests, project >>
  BY <1>2 DEF UserClock
<1>4. Chip' /\ count' \in Words
  BY <1>2, <1>3, CountTyped, ChipConstant DEF TpTypeOK
<1> DEFINE Uninterrupted == IsCounterLa \/ IsCounterWb \/ IsGcdLa
<1>5. Uninterrupted' = Uninterrupted
  BY <1>3, ChipConstant
<1>6. ASSUME UNCHANGED << at, laVars, wb >>, isr_at' \in 0 .. 5,
             Uninterrupted => mie' = 0 /\ isr_at' = 0
      PROVE  TpTypeOK'
  <2>1. AtOK' /\ SlaveOK'
    BY <1>3, <1>6, ChipConstant DEF TpTypeOK, AtOK, SlaveOK, NoWb
  <2> QED
    BY <1>4, <1>5, <1>6, <2>1 DEF TpTypeOK, laVars
<1>7. CASE Stands
  BY <1>6, <1>7 DEF Stands, TpTypeOK
<1>8. CASE ~Ended /\ ~wb.valid /\ Done(Stmt)
  <2>1. wb = NoWb /\ wb' = NoWb
    BY <1>8 DEF TpTypeOK, SlaveOK, Done
  <2>2. la_out' \in [0 .. 1 -> Words] /\ la_oe' \in [0 .. 3 -> {0, 1}]
    BY <1>8, NextStatement, ProbesTyped DEF Done
  <2>3. CASE InIsr
    <3>1. isr_at \in 1 .. 5 /\ isr_at # 5
      BY <1>8, <2>3, NextStatement DEF Done
    <3>2. isr_at' = isr_at + 1 /\ at' = at
      BY <1>8, <2>3 DEF Done, Advance
    <3>3. AtOK'
      BY <1>3, <3>2 DEF TpTypeOK, AtOK
    <3>4. isr_at' \in 0 .. 5 /\ ~Uninterrupted
      BY <3>1, <3>2 DEF TpTypeOK
    <3> QED
      BY <1>4, <1>5, <2>1, <2>2, <3>3, <3>4 DEF TpTypeOK, SlaveOK
  <2>4. CASE ~InIsr
    <3>1. AtOK' /\ isr_at' = 0
      BY <1>3, <1>8, <2>4, Advances DEF Done
    <3>2. Uninterrupted => mie' = 0
      <4>1. Uninterrupted => Stmt.op # "irq_setie"
        BY <1>8, <2>4, NextStatement, NoIrqStatements
      <4> QED
        BY <1>8, <4>1 DEF Done, TpTypeOK
    <3> QED
      BY <1>4, <1>5, <2>1, <2>2, <3>1, <3>2 DEF TpTypeOK, SlaveOK
  <2> QED
    BY <2>3, <2>4
<1>9. CASE /\ ~Ended /\ Stmt.op = "mret" /\ isr_at' = 0 /\ mie' = 1
           /\ UNCHANGED << at, laVars, wb, shown, irq_mask, isr_runs >>
  <2>1. isr_at # 0
    BY <1>9, NextStatement DEF InIsr
  <2>2. ~Uninterrupted
    BY <2>1 DEF TpTypeOK
  <2> QED
    BY <1>6, <1>9, <2>2
<1>10. CASE ~Ended /\ ~wb.valid /\ StartSlave
  <2>1. Stmt.op \in {"slave_write", "slave_read"} /\ ~InIsr
    BY <1>10, NextStatement DEF StartSlave
  <2>2. /\ IsCounterWb /\ at[1] = 1
        /\ \/ at[2] = 3 /\ Stmt = SlaveWrite(Started)
           \/ at[2] = 5 /\ Stmt = SlaveRead
    BY <1>10, <2>1, NextStatement, SlaveStatements DEF TpTypeOK
  <2>3. UNCHANGED << at, isr_at, laVars, mie >>
        /\ wb' = [valid |-> TRUE, we |-> Stmt.op = "slave_write", dat |-> Stmt.v]
    BY <1>10 DEF StartSlave, Repeat, irqVars
  <2>4. CASE at[2] = 3 /\ Stmt = SlaveWrite(Started)
    <3>1. wb' = [valid |-> TRUE, we |-> TRUE, dat |-> Started]
      BY <2>3, <2>4 DEF SlaveWrite
    <3>2. SlaveOK' /\ AtOK'
      BY <1>3, <2>2, <2>3, <2>4, <3>1, ChipConstant DEF SlaveOK, TpTypeOK, AtOK
    <3> QED
      BY <1>4, <1>5, <2>3, <3>2 DEF TpTypeOK, laVars
  <2>5. CASE at[2] = 5 /\ Stmt = SlaveRead
    <3>1. wb' = [valid |-> TRUE, we |-> FALSE, dat |-> 0]
      BY <2>3, <2>5 DEF SlaveRead
    <3>2. SlaveOK' /\ AtOK'
      BY <1>3, <2>2, <2>3, <2>5, <3>1, ChipConstant DEF SlaveOK, TpTypeOK, AtOK
    <3> QED
      BY <1>4, <1>5, <2>3, <3>2 DEF TpTypeOK, laVars
  <2> QED
    BY <2>2, <2>4, <2>5
<1>11. CASE ~Ended /\ EndSlave
  <2>1. IsCounterWb /\ isr_at = 0
    BY <1>11 DEF EndSlave, TpTypeOK, SlaveOK, NoWb
  <2>2. AtOK' /\ isr_at' = 0
    BY <1>3, <1>11, <2>1, Advances DEF EndSlave, InIsr
  <2>3. wb' = NoWb /\ UNCHANGED << laVars, mie >>
    BY <1>11 DEF EndSlave, irqVars
  <2> QED
    BY <1>4, <1>5, <2>1, <2>2, <2>3 DEF TpTypeOK, SlaveOK, laVars
<1>12. CASE TakeIrq
  <2>1. mie = 1 /\ isr_at' = 1 /\ UNCHANGED << at, laVars, wb >>
    BY <1>12 DEF TakeIrq
  <2>2. ~Uninterrupted
    BY <2>1 DEF TpTypeOK
  <2> QED
    BY <1>6, <2>1, <2>2
<1> QED
  BY <1>2, <1>7, <1>8, <1>9, <1>10, <1>11, <1>12

LEMMA IrqStep ==
  ASSUME TpTypeOK, IrqInv, TpNext
  PROVE  IrqInv'
<1>1. wb.we => wb.valid
  BY DEF TpTypeOK, SlaveOK, NoWb
<1>2. /\ UNCHANGED prog
      /\ \/ Stands
         \/ ~Ended /\ ~wb.valid /\ Done(Stmt)
         \/ /\ ~Ended /\ Stmt.op = "mret" /\ isr_at' = 0 /\ mie' = 1
            /\ UNCHANGED << at, laVars, wb, shown, irq_mask, isr_runs >>
         \/ ~Ended /\ ~wb.valid /\ StartSlave
         \/ ~Ended /\ EndSlave
         \/ TakeIrq
  BY <1>1, Steps
<1>3. CASE Stands
  BY <1>3 DEF Stands, IrqInv
<1>4. CASE ~Ended /\ ~wb.valid /\ Done(Stmt)
  <2>1. /\ isr_runs' = isr_runs
        /\ mie' = IF Stmt.op = "irq_setie" THEN Stmt.v ELSE mie
        /\ irq_mask' = IF Stmt.op = "irq_setmask" THEN Stmt.v ELSE irq_mask
        /\ Advance /\ Stmt.op # "mret"
    BY <1>4 DEF Done
  <2>2. CASE InIsr
    <3>1. isr_at \in 1 .. 5 /\ isr_at' = isr_at + 1 /\ at' = at
      BY <1>4, <2>1, <2>2, NextStatement DEF Advance
    <3>2. mie' = mie
      BY <1>4, <2>1, <2>2, NextStatement
    <3>3. CASE isr_at = 1
      <4>1. irq_mask' = 0
        BY <1>4, <2>1, <2>2, <3>3, NextStatement DEF IrqSetMask
      <4> QED
        BY <2>1, <3>1, <3>2, <4>1 DEF IrqInv
    <3>4. CASE isr_at # 1
      <4>1. irq_mask' = irq_mask
        BY <1>4, <2>1, <2>2, <3>4, NextStatement
      <4> QED
        BY <2>1, <3>1, <3>2, <3>4, <4>1 DEF IrqInv
    <3> QED
      BY <3>3, <3>4
  <2>3. CASE ~InIsr
    <3>1. isr_at = 0 /\ isr_at' = 0 /\ at' = Following
      BY <1>2, <1>4, <2>1, <2>3, Advances DEF TpTypeOK, InIsr
    <3>2. at[1] \in Nat \ {0} /\ at[2] \in Nat \ {0}
      BY DEF TpTypeOK, AtOK
    <3>3. at'[1] >= at[1]
      BY <3>1, <3>2 DEF Following
    <3>4. at[1] # 1 => mie' = mie /\ irq_mask' = irq_mask
      BY <1>4, <2>1, <2>3, NextStatement
    <3>5. at[1] = 1 => isr_runs = 0 /\ mie # 1
      BY DEF IrqInv
    <3>6. at'[1] \in Nat
      BY <3>1, <3>2 DEF Following
    <3>7. mie' = 1 => at'[1] >= 2
      <4>1. CASE Stmt.op = "irq_setie"
        <5>1. at[1] = 1 /\ at[2] = Len(prog[at[1]])
          BY <1>4, <2>3, <4>1, NextStatement
        <5>2. at' = << 2, 1 >>
          BY <3>1, <5>1, <3>2 DEF Following
        <5> QED
          BY <5>2
      <4>2. CASE Stmt.op # "irq_setie"
        <5>1. mie' = mie
          BY <2>1, <4>2
        <5>2. mie = 1 => at[1] >= 2
          BY DEF IrqInv
        <5> QED
          BY <5>1, <5>2, <3>2, <3>3, <3>6
      <4> QED
        BY <4>1, <4>2
    <3> QED
      BY <2>1, <3>1, <3>2, <3>3, <3>4, <3>5, <3>6, <3>7 DEF IrqInv
  <2> QED
    BY <2>2, <2>3
<1>5. CASE /\ ~Ended /\ Stmt.op = "mret" /\ isr_at' = 0 /\ mie' = 1
           /\ UNCHANGED << at, laVars, wb, shown, irq_mask, isr_runs >>
  <2>1. isr_at = 5
    BY <1>5, NextStatement
  <2> QED
    BY <1>5, <2>1 DEF IrqInv
<1>6. CASE ~Ended /\ ~wb.valid /\ StartSlave
  BY <1>6 DEF StartSlave, Repeat, irqVars, IrqInv
<1>7. CASE ~Ended /\ EndSlave
  <2>1. isr_at = 0 /\ mie = 0
    BY <1>7 DEF EndSlave, TpTypeOK, SlaveOK, NoWb
  <2>2. isr_at' = 0 /\ at' = Following /\ UNCHANGED irqVars
    BY <1>2, <1>7, <2>1, Advances DEF EndSlave, InIsr
  <2>3. at[1] \in Nat \ {0} /\ at[2] \in Nat \ {0}
    BY DEF TpTypeOK, AtOK
  <2>4. at'[1] \in Nat /\ at'[1] >= at[1]
    BY <2>2, <2>3 DEF Following
  <2> QED
    BY <2>1, <2>2, <2>3, <2>4 DEF IrqInv, irqVars
<1>8. CASE TakeIrq
  BY <1>8 DEF TakeIrq, IrqInv
<1> QED
  BY <1>2, <1>3, <1>4, <1>5, <1>6, <1>7, <1>8

\* The invariant of every program.
LEMMA TypeInvariant == TpSpec => [](TpTypeOK /\ IrqInv)
<1>1. TpInit => TpTypeOK /\ IrqInv
  BY TypesInit DEF TpInit, IrqInv
<1>2. TpTypeOK /\ IrqInv /\ [TpNext]_allVars => TpTypeOK' /\ IrqInv'
  <2>1. ASSUME TpTypeOK, IrqInv, UNCHANGED allVars PROVE TpTypeOK' /\ IrqInv'
    <3>1. UNCHANGED << project, prog, tests, at, isr_at, la_out, la_oe, wb, mie, irq_mask, isr_runs, count >>
      BY <2>1 DEF allVars, testVars, projectVars, laVars, irqVars, counterVars
    <3> QED
      BY <2>1, <3>1, ChipConstant DEF TpTypeOK, IrqInv, AtOK, SlaveOK, NoWb
  <2> QED
    BY <2>1, TypesStep, IrqStep
<1> QED
  BY <1>1, <1>2, PTL DEF TpSpec

\* isr runs once at most: its write of the interrupt mask comes before the
\* return that would let the event still pending at the timer in again (isr.c).
THEOREM IsrRunsOnce == TpSpec => []IsrOnce
<1>1. IrqInv => IsrOnce
  BY DEF IrqInv, IsrOnce
<1> QED
  BY <1>1, TypeInvariant, PTL

-----------------------------------------------------------------------------
(* counter_wb.c *)

\* Clock for clock: the count runs from Started in the clock in which the write
\* is served; clocks counts from the clock after it.
SlaveInv ==
  IsCounterWb =>
    /\ la_oe[1] = 0
    /\ at[1] = 1 \/ at = << 2, 1 >>
    /\ ready => wb.valid
    /\ at = << 1, 3 >> /\ ready => count = Started
    /\ at \in {<< 1, 4 >>, << 1, 5 >>} =>
         clocks \in Words /\ count = (Started + 1 + clocks) % W
    /\ at = << 1, 5 >> /\ ready => rdata = (Started + clocks) % W

LEMMA ClocksModulo ==
  ASSUME NEW s \in Words, NEW c \in Words
  PROVE  /\ (c + 1) % W \in Words
         /\ (s + 1 + c) % W = (s + ((c + 1) % W)) % W
         /\ (((s + 1 + c) % W) + 1) % W = (s + 1 + ((c + 1) % W)) % W
<1> W \in Nat /\ W > 1
  BY UserProjectAssumption
<1>1. s \in 0 .. W - 1 /\ c \in 0 .. W - 1
  BY DEF Words
<1>2. \A n \in Nat : /\ n < W => n % W = n
                     /\ n >= W /\ n < 2 * W => n % W = n - W
  OBVIOUS
<1>3. CASE c + 1 = W
  BY <1>1, <1>2, <1>3 DEF Words
<1>4. CASE c + 1 < W
  BY <1>1, <1>2, <1>4 DEF Words
<1> QED
  BY <1>1, <1>3, <1>4

\* One clock of the counter while the probes are not driven.
LEMMA CounterClock ==
  ASSUME IsCounterWb, UserClock, la_oe[1] = 0
  PROVE  /\ ready' <=> wb.valid /\ ~ready
         /\ wb.valid /\ ~ready => rdata' = count
         /\ wb.valid /\ ~ready /\ wb.we => count' = wb.dat
         /\ ~(wb.valid /\ ~ready /\ wb.we) => count' = (count + 1) % W
<1>1. Counter
  BY DEF IsCounterWb, UserClock
<1>2. /\ ready' = (wb.valid /\ ~ready)
      /\ rdata' = IF wb.valid /\ ~ready THEN count ELSE rdata
      /\ IF (wb.valid /\ ~ready) /\ wb.we THEN CountFrom(wb.dat)
         ELSE IF la_oe[1] = 1 /\ ~wb.valid THEN CountFrom(la_out[1])
         ELSE CountOn
  BY <1>1 DEF Counter
<1>3. ready' <=> wb.valid /\ ~ready
  BY <1>2
<1>4. wb.valid /\ ~ready => rdata' = count
  BY <1>2
<1>5. wb.valid /\ ~ready /\ wb.we => count' = wb.dat
  BY <1>2 DEF CountFrom
<1>6. ~(wb.valid /\ ~ready /\ wb.we) => count' = (count + 1) % W
  BY <1>2 DEF CountOn
<1> QED
  BY <1>3, <1>4, <1>5, <1>6

LEMMA SlaveStep ==
  ASSUME TpTypeOK, SlaveInv, TpNext
  PROVE  SlaveInv'
<1> SUFFICES ASSUME IsCounterWb' PROVE SlaveInv'
  BY DEF SlaveInv
<1>1. wb.we => wb.valid
  BY DEF TpTypeOK, SlaveOK, NoWb
<1>2. /\ UserClock /\ UNCHANGED << prog, tests, text >>
      /\ clocks' = IF EndSlave /\ wb.we THEN 0 ELSE LaterClocks
  BY <1>1, Steps
<1>3. IsCounterWb /\ isr_at = 0 /\ mie = 0 /\ ~InIsr
  <2>1. project' = project
    BY <1>2 DEF UserClock
  <2>2. IsCounterWb
    BY <1>2, <2>1, ChipConstant
  <2> QED
    BY <2>2 DEF TpTypeOK, InIsr
<1>4. /\ la_oe[1] = 0
      /\ at[1] = 1 \/ at = << 2, 1 >>
      /\ ready => wb.valid
      /\ at = << 1, 3 >> /\ ready => count = Started
      /\ at \in {<< 1, 4 >>, << 1, 5 >>} =>
           clocks \in Words /\ count = (Started + 1 + clocks) % W
  BY <1>3 DEF SlaveInv
<1>5. Len(prog) = 1 /\ prog[1] = CounterWb /\ Len(CounterWb) = 5
  BY <1>3, CounterWbStatements DEF IsCounterWb
<1>6. at = << 2, 1 >> \/ at \in {<< 1, 1 >>, << 1, 2 >>, << 1, 3 >>, << 1, 4 >>, << 1, 5 >>}
  <2>1. CASE at[1] = 1
    <3>1. at[2] \in 1 .. 5
      <4>1. prog[at[1]] = CounterWb /\ at[1] <= Len(prog)
        BY <1>5, <2>1
      <4>2. at[2] \in Nat \ {0}
        BY DEF TpTypeOK, AtOK
      <4>3. at[2] <= 5
        BY <1>5, <4>1 DEF TpTypeOK, AtOK
      <4> QED
        BY <4>2, <4>3
    <3>2. at = << at[1], at[2] >>
      BY DEF TpTypeOK, AtOK
    <3> QED
      BY <2>1, <3>1, <3>2
  <2> QED
    BY <1>4, <2>1
<1> DEFINE Next1 == IF at[2] < 5 THEN << 1, at[2] + 1 >> ELSE << 2, 1 >>
<1>17. at[1] = 1 => Following = Next1
  <2>1. Following = IF at[2] < Len(prog[at[1]]) THEN << at[1], at[2] + 1 >>
                                                ELSE << at[1] + 1, 1 >>
    BY DEF Following
  <2>2. CASE at[1] = 1 /\ at[2] < 5
    <3>1. Following = << at[1], at[2] + 1 >>
      BY <1>5, <2>1, <2>2
    <3> QED
      BY <2>2, <3>1
  <2>3. CASE at[1] = 1 /\ ~(at[2] < 5)
    <3>1. Following = << at[1] + 1, 1 >>
      BY <1>5, <2>1, <2>3
    <3> QED
      BY <2>3, <3>1
  <2> QED
    BY <2>2, <2>3
<1>7. /\ ready' <=> wb.valid /\ ~ready
      /\ wb.valid /\ ~ready => rdata' = count
      /\ wb.valid /\ ~ready /\ wb.we => count' = wb.dat
      /\ ~(wb.valid /\ ~ready /\ wb.we) => count' = (count + 1) % W
  BY <1>2, <1>3, <1>4, CounterClock
<1>8. Started \in Words
  BY TestProgramsAssumption
\* The relation of clocks and count survives a clock in which neither is set.
<1>9. ASSUME at \in {<< 1, 4 >>, << 1, 5 >>}
      PROVE  /\ clocks' \in Words /\ count' = (Started + 1 + clocks') % W
             /\ ready' => rdata' = (Started + clocks') % W
  <2>1. clocks \in Words /\ count = (Started + 1 + clocks) % W
    BY <1>4, <1>9
  <2>2. ~wb.we
    BY <1>9 DEF TpTypeOK, SlaveOK, NoWb
  <2>3. clocks # X /\ ~Ended
    BY <1>3, <1>5, <1>9, <2>1 DEF Ended, X, Words
  <2>4. clocks' = (clocks + 1) % W
    BY <1>2, <2>2, <2>3 DEF LaterClocks
  <2>5. count' = (count + 1) % W
    BY <1>7, <2>2
  <2>6. ready' => rdata' = count
    BY <1>7
  <2> QED
    BY <1>8, <2>1, <2>4, <2>5, <2>6, ClocksModulo
<1>10. ASSUME at' = at, la_oe' = la_oe, wb' = wb PROVE SlaveInv'
  <2>1. la_oe'[1] = 0 /\ (at'[1] = 1 \/ at' = << 2, 1 >>)
    BY <1>4, <1>10
  <2>2. ready' => wb'.valid
    BY <1>7, <1>10
  <2>3. at' = << 1, 3 >> /\ ready' => count' = Started
    <3> SUFFICES ASSUME at' = << 1, 3 >>, ready' PROVE count' = Started
      OBVIOUS
    <3>1. wb.valid /\ ~ready
      BY <1>7
    <3>2. wb.we /\ wb.dat = Started
      BY <1>10, <3>1 DEF TpTypeOK, SlaveOK, NoWb
    <3> QED
      BY <1>7, <3>1, <3>2
  <2> QED
    BY <1>9, <1>10, <2>1, <2>2, <2>3 DEF SlaveInv
<1>11. CASE Stands
  BY <1>10, <1>11 DEF Stands, laVars
<1>12. CASE ~Ended /\ ~wb.valid /\ Done(Stmt)
  <2>1. at[1] = 1 /\ Stmt = CounterWb[at[2]]
    BY <1>3, <1>5, <1>12, NextStatement
  <2>2. at \in {<< 1, 1 >>, << 1, 2 >>, << 1, 4 >>}
    BY <1>6, <1>12, <2>1, CounterWbStatements DEF Done, SlaveWrite, SlaveRead
  <2>3. at' = Following /\ wb' = wb
    BY <1>2, <1>3, <1>12, Advances DEF Done
  <2>4. at' = << 1, at[2] + 1 >>
    <3>1. at[1] = 1 /\ at[2] \in {1, 2, 4}
      BY <2>2
    <3> QED
      BY <1>17, <2>3, <3>1
  <2>5. ~ready'
    BY <1>7, <1>12
  <2>6. la_oe'[1] = 0
    <3>1. Stmt.op = "la_oe" => Stmt.n = 2
      BY <2>1, <2>2, CounterWbStatements DEF LaOe, Datal
    <3> QED
      BY <1>4, <1>12, <3>1 DEF Done, Probes, TpTypeOK
  <2>7. at' \in {<< 1, 2 >>, << 1, 3 >>, << 1, 5 >>} /\ at'[1] = 1
    BY <2>2, <2>4
  <2>8. at' = << 1, 5 >> => at = << 1, 4 >>
    BY <2>2, <2>4
  <2>9. at' \in {<< 1, 4 >>, << 1, 5 >>} => clocks' \in Words /\ count' = (Started + 1 + clocks') % W
    BY <1>9, <2>7, <2>8
  <2> QED
    BY <2>5, <2>6, <2>7, <2>9 DEF SlaveInv
<1>13. CASE ~Ended /\ ~wb.valid /\ StartSlave
  <2>1. at' = at /\ la_oe' = la_oe /\ ~ready'
    BY <1>7, <1>13 DEF StartSlave, Repeat, laVars
  <2>2. at \in {<< 1, 4 >>, << 1, 5 >>} => clocks' \in Words /\ count' = (Started + 1 + clocks') % W
    BY <1>9
  <2> QED
    BY <1>4, <2>1, <2>2 DEF SlaveInv
<1>14. CASE ~Ended /\ EndSlave
  <2>1. wb.valid /\ ready /\ wb' = NoWb /\ la_oe' = la_oe
    BY <1>14 DEF EndSlave, laVars
  <2>2. at' = Following /\ ~ready' /\ count' = (count + 1) % W
    BY <1>2, <1>3, <1>7, <1>14, <2>1, Advances DEF EndSlave
  <2>3. CASE at[2] = 3 /\ wb.we
    <3>1. at = << 1, 3 >>
      BY <1>6, <2>3
    <3>2. at' = << 1, 4 >> /\ clocks' = 0
      <4>1. at[1] = 1 /\ at[2] = 3
        BY <3>1
      <4> QED
        BY <1>2, <1>14, <1>17, <2>2, <2>3, <4>1
    <3>3. count' = (Started + 1 + 0) % W
      BY <1>4, <1>8, <2>1, <2>2, <3>1 DEF Words
    <3>4. 0 \in Words
      BY UserProjectAssumption DEF Words
    <3> QED
      BY <1>4, <2>1, <2>2, <3>2, <3>3, <3>4 DEF SlaveInv
  <2>4. CASE at[2] = 5
    <3>1. at = << 1, 5 >>
      BY <1>6, <2>4
    <3>2. at' = << 2, 1 >>
      <4>1. at[1] = 1 /\ at[2] = 5
        BY <3>1
      <4> QED
        BY <1>17, <2>2, <4>1
    <3> QED
      BY <1>4, <2>1, <2>2, <3>2 DEF SlaveInv
  <2> QED
    BY <2>1, <2>3, <2>4 DEF TpTypeOK, SlaveOK, NoWb
<1> QED
  <2>1. ~TakeIrq
    BY <1>3 DEF TakeIrq
  <2>2. Stmt.op # "mret" \/ Ended
    BY <1>3, NextStatement
  <2> QED
    BY <1>1, <1>11, <1>12, <1>13, <1>14, <2>1, <2>2, Steps

\* counter_wb.c reads the count that its own write started, for every count it
\* starts from and however long the core takes from the one to the other.
THEOREM SlaveReadsItsCount == TpSpec => []SlaveReadTrue
<1>1. TpInit => SlaveInv
  <2> SUFFICES ASSUME TpInit PROVE SlaveInv
    OBVIOUS
  <2>1. at = << 1, 1 >> /\ ready = FALSE /\ la_oe[1] = 0
    BY DEF TpInit, ProjectInit
  <2> QED
    BY <2>1 DEF SlaveInv
<1>2. TpTypeOK /\ SlaveInv /\ [TpNext]_allVars => SlaveInv'
  <2>1. ASSUME SlaveInv, UNCHANGED allVars PROVE SlaveInv'
    BY <2>1, ChipConstant DEF SlaveInv, allVars, testVars, projectVars, laVars, counterVars
  <2> QED
    BY <2>1, SlaveStep
<1>3. TpTypeOK /\ SlaveInv => SlaveReadTrue
  BY DEF TpTypeOK, SlaveOK, NoWb, SlaveInv, AtOK, SlaveReadTrue
<1> QED
  BY <1>1, <1>2, <1>3, TypeInvariant, PTL DEF TpSpec

-----------------------------------------------------------------------------
(* seq_gcd: the remainders keep the common divisors. *)

SameDivisors(a, b, p) ==
  \A d \in Nat \ {0} : a % d = 0 /\ b % d = 0 <=> p[1] % d = 0 /\ p[2] % d = 0

LEMMA Multiple ==
  ASSUME NEW d \in Nat \ {0}, NEW k \in Int
  PROVE  (d * k) % d = 0
  OBVIOUS

LEMMA Quotient ==
  ASSUME NEW n \in Nat, NEW d \in Nat \ {0}
  PROVE  /\ n \div d \in Nat /\ n % d \in 0 .. d - 1
         /\ n = d * (n \div d) + (n % d)
  OBVIOUS

LEMMA CommonDivisors ==
  ASSUME NEW a \in Nat, NEW b \in Nat \ {0}, NEW d \in Nat \ {0}
  PROVE  a % d = 0 /\ b % d = 0 <=> b % d = 0 /\ (a % b) % d = 0
<1> DEFINE q == a \div b
           r == a % b
           k == b \div d
<1>1. q \in Nat /\ r \in Nat /\ a = b * q + r
  BY Quotient
<1>2. b % d = 0 => k \in Nat /\ b = d * k
  BY Quotient
<1> HIDE DEF q, r, k
<1>3. ASSUME b % d = 0, a % d = 0 PROVE r % d = 0
  <2> DEFINE m == a \div d
  <2>1. m \in Nat /\ a = d * m
    BY <1>3, Quotient
  <2> HIDE DEF m
  <2>2. r = d * (m - k * q)
    <3>1. k \in Nat /\ b = d * k
      BY <1>2, <1>3
    <3>2. r = d * m - (d * k) * q
      BY <1>1, <2>1, <3>1
    <3>3. (d * k) * q = d * (k * q) /\ k * q \in Nat
      BY <1>1, <3>1
    <3>4. d * m - d * (k * q) = d * (m - k * q)
      BY <2>1, <3>3
    <3> QED
      BY <3>2, <3>3, <3>4
  <2>3. m - k * q \in Int
    BY <1>1, <1>2, <1>3, <2>1
  <2> QED
    BY <2>2, <2>3, Multiple
<1>4. ASSUME b % d = 0, r % d = 0 PROVE a % d = 0
  <2> DEFINE m == r \div d
  <2>1. m \in Nat /\ r = d * m
    BY <1>1, <1>4, Quotient
  <2> HIDE DEF m
  <2>2. a = d * (k * q + m)
    <3>1. k \in Nat /\ b = d * k
      BY <1>2, <1>4
    <3>2. a = (d * k) * q + d * m
      BY <1>1, <2>1, <3>1
    <3>3. (d * k) * q = d * (k * q) /\ k * q \in Nat
      BY <1>1, <3>1
    <3>4. d * (k * q) + d * m = d * (k * q + m)
      BY <2>1, <3>3
    <3> QED
      BY <3>2, <3>3, <3>4
  <2>3. k * q + m \in Int
    BY <1>1, <1>2, <1>4, <2>1
  <2> QED
    BY <2>2, <2>3, Multiple
<1> QED
  BY <1>3, <1>4 DEF r

\* When the remainder is zero the last divisor is the greatest common one.
LEMMA LastDivisor ==
  ASSUME NEW a \in Words, NEW p \in Words \X Words, SameDivisors(a, 0, p)
  PROVE  a = Gcd(p[1], p[2])
<1> DEFINE x == p[1]
           y == p[2]
<1>1. W \in Nat /\ a \in Nat /\ a < W /\ x \in Nat /\ x < W /\ y \in Nat /\ y < W
  BY UserProjectAssumption DEF Words
<1>2. \A d \in Nat \ {0} : a % d = 0 <=> x % d = 0 /\ y % d = 0
  <2>1. \A d \in Nat \ {0} : 0 % d = 0
    OBVIOUS
  <2> QED
    BY <2>1 DEF SameDivisors
<1> HIDE DEF x, y
<1>3. \A n \in Nat, d \in Nat \ {0} : d > n => n % d = n
  OBVIOUS
<1>4. \A d \in Nat \ {0} : 0 % d = 0
  OBVIOUS
<1>5. \A n \in Nat \ {0}, d \in Nat \ {0} : n % d = 0 => d <= n
  BY <1>3
<1>6. \A n \in Nat \ {0} : n % n = 0
  BY Multiple
<1>7. CASE a = 0
  <2>1. x % (x + 1) = 0 /\ y % (y + 1) = 0
    <3>1. \A d \in Nat \ {0} : x % d = 0 /\ y % d = 0
      BY <1>2, <1>4, <1>7
    <3>2. x + 1 \in Nat \ {0} /\ y + 1 \in Nat \ {0}
      BY <1>1
    <3> QED
      BY <3>1, <3>2
  <2>2. x = 0 /\ y = 0
    BY <1>1, <1>3, <2>1
  <2> QED
    BY <1>7, <2>2 DEF Gcd, x, y
<1>8. CASE a # 0
  <2> DEFINE S == {d \in Words \ {0} : x % d = 0 /\ y % d = 0}
  <2>1. ~(x = 0 /\ y = 0)
    <3>1. a % (a + 1) # 0
      BY <1>1, <1>3, <1>8
    <3> QED
      BY <1>1, <1>2, <1>4, <3>1
  <2>2. a \in S
    BY <1>1, <1>2, <1>6, <1>8 DEF Words
  <2>3. \A d \in S : d <= a /\ d \in Nat
    <3> SUFFICES ASSUME NEW d \in S PROVE d <= a /\ d \in Nat
      OBVIOUS
    <3>1. d \in Nat \ {0} /\ x % d = 0 /\ y % d = 0
      BY <1>1 DEF Words
    <3>2. a % d = 0
      BY <1>2, <3>1
    <3>3. a \in Nat \ {0}
      BY <1>1, <1>8
    <3> QED
      BY <1>5, <3>1, <3>2, <3>3
  <2> HIDE DEF S
  <2>4. Max(S) = a
    <3>1. \E m \in S : \A z \in S : m >= z
      BY <1>1, <2>2, <2>3
    <3>2. Max(S) \in S /\ \A z \in S : Max(S) >= z
      BY <3>1 DEF Max
    <3>3. Max(S) >= a /\ Max(S) <= a /\ Max(S) \in Nat
      BY <2>2, <2>3, <3>2
    <3> QED
      BY <1>1, <3>3
  <2> QED
    BY <2>1, <2>4 DEF Gcd, S, x, y
<1> QED
  BY <1>7, <1>8

\* While it computes, the datapath holds two words with the common divisors of
\* the pair that was loaded.
ResInv ==
  /\ project \in Projects
  /\ project = "counter" => gcd_of = NoPair
  /\ project = "gcd" => CS \in {0, 1}
  /\ project = "gcd" /\ CS = 1 =>
       /\ loaded \in Words \X Words /\ a_q \in Words /\ b_q \in Words
       /\ SameDivisors(a_q, b_q, loaded)
  /\ gcd_o = IF gcd_of = NoPair THEN 0 ELSE Gcd(gcd_of[1], gcd_of[2])

LEMMA PairIsKnown ==
  ASSUME NEW p \in Words \X Words
  PROVE  p # NoPair /\ p[1] \in Words /\ p[2] \in Words
  BY UserProjectAssumption DEF NoPair, X, Words

\* One clock of seq_gcd.
LEMMA SeqGcdClock ==
  ASSUME project = "gcd", CS \in {0, 1}, UserClock
  PROVE  \/ /\ CS = 0 /\ la_load /\ CS' = 1
            /\ a_q' = la_out[0] /\ b_q' = la_out[1]
            /\ loaded' = << la_out[0], la_out[1] >> /\ UNCHANGED << gcd_o, gcd_of >>
         \/ CS = 0 /\ ~la_load /\ CS' = 0 /\ UNCHANGED << loaded, gcd_o, gcd_of >>
         \/ /\ CS = 1 /\ b_q = 0 /\ CS' = 0
            /\ gcd_o' = a_q /\ gcd_of' = loaded /\ loaded' = loaded
         \/ /\ CS = 1 /\ b_q # 0 /\ CS' = 1
            /\ a_q' = b_q /\ b_q' = Rem(a_q, b_q) /\ UNCHANGED << loaded, gcd_o, gcd_of >>
<1>1. SeqGcd
  BY DEF UserClock
<1>2. CASE CS = 0 /\ la_load
  BY <1>1, <1>2 DEF SeqGcd
<1>3. CASE CS = 0 /\ ~la_load
  BY <1>1, <1>3 DEF SeqGcd
<1>4. CASE CS = 1 /\ b_q = 0
  BY <1>1, <1>4 DEF SeqGcd
<1>5. CASE CS = 1 /\ b_q # 0
  BY <1>1, <1>5 DEF SeqGcd
<1> QED
  BY <1>2, <1>3, <1>4, <1>5

LEMMA ResStep ==
  ASSUME TpTypeOK, ResInv, UserClock
  PROVE  ResInv'
<1>1. project' = project
  BY DEF UserClock
<1>2. CASE project = "counter"
  <2>1. UNCHANGED << gcd_of, gcd_o >>
    BY <1>2 DEF UserClock, gcdVars
  <2> QED
    BY <1>1, <1>2, <2>1 DEF ResInv
<1>3. CASE project = "gcd"
  <2>0. CS \in {0, 1}
    BY <1>3 DEF ResInv
  <2>1. CASE /\ CS = 0 /\ la_load /\ CS' = 1
             /\ a_q' = la_out[0] /\ b_q' = la_out[1]
             /\ loaded' = << la_out[0], la_out[1] >> /\ UNCHANGED << gcd_o, gcd_of >>
    <3>1. la_out[0] \in Words /\ la_out[1] \in Words
      BY DEF TpTypeOK
    <3>2. loaded' \in Words \X Words /\ a_q' \in Words /\ b_q' \in Words
      BY <2>1, <3>1
    <3>3. SameDivisors(a_q, b_q, loaded)'
      BY <2>1 DEF SameDivisors
    <3> QED
      BY <1>1, <1>3, <2>1, <3>2, <3>3 DEF ResInv
  <2>2. CASE CS = 0 /\ ~la_load /\ CS' = 0 /\ UNCHANGED << loaded, gcd_o, gcd_of >>
    BY <1>1, <1>3, <2>2 DEF ResInv
  <2>3. CASE /\ CS = 1 /\ b_q = 0 /\ CS' = 0
             /\ gcd_o' = a_q /\ gcd_of' = loaded /\ loaded' = loaded
    <3>1. loaded \in Words \X Words /\ a_q \in Words /\ SameDivisors(a_q, 0, loaded)
      BY <1>3, <2>3 DEF ResInv
    <3>2. a_q = Gcd(loaded[1], loaded[2]) /\ loaded # NoPair
      BY <3>1, LastDivisor, PairIsKnown
    <3> QED
      BY <1>1, <1>3, <2>3, <3>2 DEF ResInv
  <2>4. CASE /\ CS = 1 /\ b_q # 0 /\ CS' = 1
             /\ a_q' = b_q /\ b_q' = Rem(a_q, b_q) /\ UNCHANGED << loaded, gcd_o, gcd_of >>
    <3>1. loaded \in Words \X Words /\ a_q \in Words /\ b_q \in Words
          /\ SameDivisors(a_q, b_q, loaded)
      BY <1>3, <2>4 DEF ResInv
    <3>2. a_q \in Nat /\ b_q \in Nat \ {0} /\ b_q < W /\ W \in Nat
      BY <2>4, <3>1, UserProjectAssumption DEF Words
    <3>3. b_q' = a_q % b_q
      BY <2>4, <3>2 DEF Rem, X
    <3>4. b_q' \in Words
      <4>1. a_q % b_q \in 0 .. b_q - 1
        BY <3>2, Quotient
      <4> QED
        BY <3>2, <3>3, <4>1 DEF Words
    <3>5. SameDivisors(a_q, b_q, loaded)'
      <4> SUFFICES ASSUME NEW d \in Nat \ {0}
                   PROVE  b_q % d = 0 /\ (a_q % b_q) % d = 0
                            <=> loaded[1] % d = 0 /\ loaded[2] % d = 0
        BY <2>4, <3>3 DEF SameDivisors
      <4>1. a_q % d = 0 /\ b_q % d = 0 <=> b_q % d = 0 /\ (a_q % b_q) % d = 0
        BY <3>2, CommonDivisors
      <4>2. a_q % d = 0 /\ b_q % d = 0 <=> loaded[1] % d = 0 /\ loaded[2] % d = 0
        BY <3>1 DEF SameDivisors
      <4> QED
        BY <4>1, <4>2
    <3> QED
      BY <1>1, <1>3, <2>4, <3>1, <3>4, <3>5 DEF ResInv
  <2> QED
    BY <1>3, <2>0, <2>1, <2>2, <2>3, <2>4, SeqGcdClock
<1> QED
  BY <1>2, <1>3 DEF ResInv, Projects

LEMMA ResInvariant == TpSpec => []ResInv
<1>1. TpInit => ResInv
  BY DEF TpInit, ProjectInit, ResInv, Projects
<1>2. TpTypeOK /\ ResInv /\ [TpNext]_allVars => ResInv'
  <2>1. ASSUME ResInv, UNCHANGED allVars PROVE ResInv'
    BY <2>1 DEF ResInv, allVars, projectVars, gcdVars, SameDivisors
  <2>2. TpNext => UserClock
    BY DEF TpNext, CoreAccess, CoreWaits, TakeIrq
  <2> QED
    BY <2>1, <2>2, ResStep
<1> QED
  BY <1>1, <1>2, TypeInvariant, PTL DEF TpSpec

\* What seq_gcd shows is the greatest common divisor of the pair it loaded: for
\* words of every size, every pair of operands, and whatever is on the probes
\* while it computes (user_proj_example.gcd.v).
THEOREM ResultIsTheGcd == TpSpec => []ResultIsGcd
<1>1. ResInv => ResultIsGcd
  BY DEF ResInv, ResultIsGcd
<1> QED
  BY <1>1, ResInvariant, PTL

-----------------------------------------------------------------------------
(* counter_la.c *)

\* The count is held at zero until the probes are let go, long enough for the
\* synchroniser to forget the counts before; from then on it is at or below
\* Limit, with all the copies of it, or it has been above.
CountInv ==
  IsCounterLa =>
    /\ wb = NoWb
    /\ la_out[1] = 0
    /\ at[1] = 1 \/ at = << 2, 1 >>
    /\ shown = "AB41" => at = << 1, 10 >>
    /\ at[1] = 1 =>
         /\ la_oe[1] = IF at[2] \in 3 .. 7 THEN 1 ELSE 0
         /\ at[2] \in 4 .. 7 => count = 0 /\ run = "set"
         /\ at[2] \in 5 .. 7 => regs0 = 0
         /\ at[2] \in 6 .. 7 => regs1 = 0
         /\ at[2] >= 8 =>
              \/ run = "above"
              \/ run = "set" /\ count <= Limit /\ {regs0, regs1} \subseteq 0 .. Limit
         /\ at[2] >= 9 => run = "above"

\* The statement after the one at at, in a program of one block.
LEMMA FollowingInBlock ==
  ASSUME NEW n \in Nat, Len(prog[1]) = n, at[1] = 1
  PROVE  /\ at[2] < n => Following = << 1, at[2] + 1 >>
         /\ ~(at[2] < n) => Following = << 2, 1 >>
<1>1. Following = IF at[2] < Len(prog[at[1]]) THEN << at[1], at[2] + 1 >>
                                              ELSE << at[1] + 1, 1 >>
  BY DEF Following
<1>2. CASE at[2] < n
  <2>1. Following = << at[1], at[2] + 1 >>
    BY <1>1, <1>2
  <2> QED
    BY <1>2, <2>1
<1>3. CASE ~(at[2] < n)
  <2>1. Following = << at[1] + 1, 1 >>
    BY <1>1, <1>3
  <2> QED
    BY <1>3, <2>1
<1> QED
  BY <1>2, <1>3

LEMMA CountStep ==
  ASSUME TpTypeOK, CountInv, TpNext
  PROVE  CountInv'
<1> SUFFICES ASSUME IsCounterLa' PROVE CountInv'
  BY DEF CountInv
<1>1. wb.we => wb.valid
  BY DEF TpTypeOK, SlaveOK, NoWb
<1>2. UserClock /\ UNCHANGED << prog, tests, text >>
  BY <1>1, Steps
<1>3. IsCounterLa /\ isr_at = 0 /\ mie = 0 /\ ~InIsr /\ wb = NoWb /\ ~wb.valid
  <2>1. project' = project
    BY <1>2 DEF UserClock
  <2>2. IsCounterLa
    BY <1>2, <2>1, ChipConstant
  <2> QED
    BY <2>2 DEF TpTypeOK, InIsr, CountInv, NoWb
<1>4. Len(prog) = 1 /\ prog[1] = CounterLa /\ Len(CounterLa) = 10
  BY <1>3, CounterLaStatements DEF IsCounterLa
<1>5. /\ la_out[1] = 0 /\ count \in Nat /\ count < W
      /\ W \in Nat /\ Limit \in Nat /\ Limit + 1 < W
  BY <1>3, UserProjectAssumption DEF CountInv, TpTypeOK, Words
<1>6. CASE at[1] # 1
  <2>1. at = << 2, 1 >> /\ Ended /\ shown # "AB41"
    BY <1>3, <1>4, <1>6 DEF CountInv, Ended
  <2>2. Stands
    BY <1>1, <1>3, <2>1, Steps DEF TakeIrq
  <2> QED
    BY <1>3, <1>5, <2>1, <2>2 DEF Stands, CountInv, laVars
<1>7. CASE at[1] = 1
  <2> DEFINE s == at[2]
  <2>1. s \in 1 .. 10
    <3>1. prog[at[1]] = CounterLa /\ at[1] <= Len(prog)
      BY <1>4, <1>7
    <3>2. s \in Nat \ {0} /\ s <= 10
      BY <1>4, <3>1 DEF TpTypeOK, AtOK
    <3> QED
      BY <3>2
  <2>2. /\ la_oe[1] = IF s \in 3 .. 7 THEN 1 ELSE 0
        /\ s \in 4 .. 7 => count = 0 /\ run = "set"
        /\ s \in 5 .. 7 => regs0 = 0
        /\ s \in 6 .. 7 => regs1 = 0
        /\ s >= 8 => \/ run = "above"
                     \/ run = "set" /\ count <= Limit /\ {regs0, regs1} \subseteq 0 .. Limit
        /\ s >= 9 => run = "above"
        /\ shown = "AB41" => s = 10
    BY <1>3, <1>7 DEF CountInv
  <2> HIDE DEF s
  \* One clock of the counter and of the synchroniser.
  <2>3. /\ s \in 3 .. 7 => count' = 0 /\ run' = "set"
        /\ s \notin 3 .. 7 =>
             /\ count' = (count + 1) % W
             /\ run' = IF run = "set" /\ count' > Limit THEN "above" ELSE run
        /\ regs0' = count /\ regs1' = regs0
    <3>1. Counter /\ Synchroniser /\ project = "counter"
      BY <1>2, <1>3 DEF UserClock, IsCounterLa
    <3>2. regs0' = count /\ regs1' = regs0
      BY <3>1 DEF Synchroniser, la_data_out
    <3>3. CASE s \in 3 .. 7
      <4>1. CountFrom(0)
        BY <1>3, <1>5, <2>2, <3>1, <3>3 DEF Counter
      <4> QED
        BY <1>5, <3>2, <3>3, <4>1 DEF CountFrom
    <3>4. CASE s \notin 3 .. 7
      <4>1. CountOn
        BY <1>3, <2>2, <3>1, <3>4 DEF Counter
      <4> QED
        BY <3>2, <3>4, <4>1 DEF CountOn, RunOn
    <3> QED
      BY <3>3, <3>4
  <2>4. /\ s \in 3 .. 7 => count' = 0 /\ run' = "set"
        /\ s \in 4 .. 7 => regs0' = 0
        /\ s \in 5 .. 7 => regs1' = 0
    BY <2>2, <2>3
  <2>5. s >= 8 =>
          \/ run' = "above"
          \/ run' = "set" /\ count' <= Limit /\ {regs0', regs1'} \subseteq 0 .. Limit
    <3> SUFFICES ASSUME s >= 8
                 PROVE  \/ run' = "above"
                        \/ run' = "set" /\ count' <= Limit /\ {regs0', regs1'} \subseteq 0 .. Limit
      OBVIOUS
    <3>1. CASE run = "above"
      BY <2>1, <2>3, <3>1
    <3>2. CASE run = "set" /\ count <= Limit /\ {regs0, regs1} \subseteq 0 .. Limit
      <4>1. (count + 1) % W = count + 1
        BY <1>5, <3>2
      <4>2. count' = count + 1 /\ run' = (IF count' > Limit THEN "above" ELSE "set")
        BY <2>1, <2>3, <3>2, <4>1
      <4> QED
        BY <1>5, <2>3, <3>2, <4>2
    <3> QED
      BY <2>2, <3>1, <3>2
  <2>6. s >= 9 => run' = "above"
    BY <2>1, <2>2, <2>3
  <2>7. CASE Stands
    <3>1. at' = at /\ shown' = shown /\ UNCHANGED << la_out, la_oe, wb >>
      BY <2>7 DEF Stands, laVars
    <3>2. /\ la_oe'[1] = IF s \in 3 .. 7 THEN 1 ELSE 0
          /\ s \in 4 .. 7 => count' = 0 /\ run' = "set"
          /\ s \in 5 .. 7 => regs0' = 0
          /\ s \in 6 .. 7 => regs1' = 0
      BY <2>1, <2>2, <2>4, <3>1
    <3> QED
      BY <1>3, <1>5, <1>7, <2>5, <2>6, <3>1, <3>2 DEF CountInv, s
  <2>8. CASE ~Ended /\ ~wb.valid /\ Done(Stmt)
    <3>1. Stmt = CounterLa[s] /\ at' = Following /\ wb' = wb
      BY <1>2, <1>3, <1>4, <1>7, <2>8, NextStatement, Advances DEF Done, s
    <3>2. /\ s < 10 => at' = << 1, s + 1 >>
          /\ s = 10 => at' = << 2, 1 >>
      BY <1>4, <1>7, <2>1, <3>1, FollowingInBlock DEF s
    <3>3. Probes(Stmt) /\ shown' = (IF Stmt.op = "datal" THEN Stmt.v ELSE shown)
      BY <2>8 DEF Done
    <3>4. la_oe \in [0 .. 3 -> {0, 1}] /\ la_out \in [0 .. 1 -> Words]
      BY DEF TpTypeOK
    <3>5. la_out'[1] = 0
      <4>1. Stmt.op = "la_data" => Stmt.n = 1 /\ Stmt.v = 0
        BY <2>1, <3>1, CounterLaStatements DEF LaOe, LaData, Datal, PollAbove
      <4> QED
        BY <1>5, <3>3, <3>4, <4>1 DEF Probes
    <3>6. la_oe'[1] = IF s \in 2 .. 6 THEN 1 ELSE 0
      <4>1. CASE s = 2
        BY <3>1, <3>3, <3>4, <4>1, CounterLaStatements DEF Probes, LaOe
      <4>2. CASE s = 7
        BY <3>1, <3>3, <3>4, <4>2, CounterLaStatements DEF Probes, LaOe
      <4>3. CASE s \notin {2, 7}
        <5>1. Stmt.op = "la_oe" => Stmt.n # 1
          BY <2>1, <3>1, <4>3, CounterLaStatements DEF LaOe, LaData, Datal, PollAbove
        <5>2. la_oe'[1] = la_oe[1]
          BY <3>3, <3>4, <5>1 DEF Probes
        <5> QED
          BY <2>1, <2>2, <4>3, <5>2
      <4> QED
        BY <4>1, <4>2, <4>3
    <3>7. shown' = "AB41" => s = 9
      <4>1. CASE s \in {5, 9, 10}
        BY <3>1, <3>3, <4>1, CounterLaStatements DEF Datal
      <4>2. CASE s \notin {5, 9, 10}
        <5>1. Stmt.op # "datal"
          BY <2>1, <3>1, <4>2, CounterLaStatements DEF LaOe, LaData, PollAbove
        <5> QED
          BY <2>2, <3>3, <4>2, <5>1
      <4> QED
        BY <4>1, <4>2
    \* The poll ends with a copy of the count above Limit.
    <3>8. s = 8 => run' = "above"
      <4> SUFFICES ASSUME s = 8 PROVE run' = "above"
        OBVIOUS
      <4>1. regs1 > Limit
        BY <2>8, <3>1, CounterLaStatements DEF Done, PollAbove
      <4>2. run = "above"
        BY <1>5, <2>2, <4>1
      <4> QED
        BY <2>3, <4>2
    <3>9. CASE s = 10
      BY <1>3, <3>1, <3>2, <3>5, <3>7, <3>9 DEF CountInv
    <3>10. CASE s < 10
      <4>1. at' = << 1, s + 1 >> /\ at'[1] = 1 /\ at'[2] = s + 1
        BY <3>2, <3>10
      <4>2. la_oe'[1] = IF s + 1 \in 3 .. 7 THEN 1 ELSE 0
        BY <2>1, <3>6
      <4>3. s + 1 \in 4 .. 7 => count' = 0 /\ run' = "set"
        BY <2>1, <2>4
      <4>4. s + 1 \in 5 .. 7 => regs0' = 0
        BY <2>1, <2>4
      <4>5. s + 1 \in 6 .. 7 => regs1' = 0
        BY <2>1, <2>4
      <4>6. s + 1 >= 8 =>
              \/ run' = "above"
              \/ run' = "set" /\ count' <= Limit /\ {regs0', regs1'} \subseteq 0 .. Limit
        BY <1>5, <2>1, <2>4, <2>5
      <4>7. s + 1 >= 9 => run' = "above"
        BY <2>1, <2>6, <3>8
      <4>8. shown' = "AB41" => at' = << 1, 10 >>
        BY <3>7, <4>1
      <4> QED
        BY <1>3, <3>1, <3>5, <4>1, <4>2, <4>3, <4>4, <4>5, <4>6, <4>7, <4>8 DEF CountInv
    <3> QED
      BY <2>1, <3>9, <3>10
  <2>9. ~Ended => Stmt.op \notin {"mret", "slave_write", "slave_read"}
    <3> SUFFICES ASSUME ~Ended PROVE Stmt.op \notin {"mret", "slave_write", "slave_read"}
      OBVIOUS
    <3>1. Stmt = CounterLa[s]
      BY <1>3, <1>4, <1>7, NextStatement DEF s
    <3> QED
      BY <1>4, <2>1, <3>1, CounterLaIsPlain DEF Plain
  <2> QED
    BY <1>1, <1>3, <2>7, <2>8, <2>9, Steps DEF StartSlave, EndSlave, TakeIrq
<1> QED
  BY <1>6, <1>7

-----------------------------------------------------------------------------
(* gcd_la.c *)

Result(p)     == IF p = NoPair THEN 0 ELSE Gcd(p[1], p[2])
PairBefore(b) == IF b = 1 THEN NoPair ELSE tests[b - 1]

\* From the pair p of the test before to the pair t of this one: what has been
\* loaded, what gcd_o is the result of, and the two copies of it the core sees
\* change over in this order.
Chain(p, t) ==
  /\ loaded \in {p, t} /\ gcd_of \in {p, t}
  /\ {regs0, regs1} \subseteq {Result(p), Result(t)}
  /\ gcd_of = t => loaded = t
  /\ regs0 = Result(t) => gcd_of = t
  /\ regs1 = Result(t) => regs0 = Result(t)

\* The probes drive a pair only while both its words are written.
GcdInv ==
  IsGcdLa =>
    /\ wb = NoWb
    /\ at[1] \in 1 .. Len(tests) + 1
    /\ shown = "AB41" => at[1] <= Len(tests) /\ at[2] = 12
    /\ at[1] <= Len(tests) =>
         /\ la_oe[0] = IF at[2] \in 4 .. 8 THEN 1 ELSE 0
         /\ la_oe[1] = IF at[2] \in 5 .. 9 THEN 1 ELSE 0
         /\ at[2] >= 2 => la_out[0] = tests[at[1]][1]
         /\ at[2] >= 3 => la_out[1] = tests[at[1]][2]
         /\ Chain(PairBefore(at[1]), tests[at[1]])
         /\ at[2] >= 11 => regs1 = Result(tests[at[1]])

LEMMA TestsDiffer ==
  ASSUME IsGcdLa, NEW b \in 1 .. Len(tests)
  PROVE  /\ tests[b] \in Words \X Words /\ tests[b] # NoPair
         /\ Result(tests[b]) = Expect(tests[b])
         /\ Result(PairBefore(b)) # Result(tests[b])
         /\ PairBefore(b + 1) = tests[b]
<1>1. /\ \A i \in 1 .. Len(tests) : tests[i] \in Words \X Words
      /\ Len(tests) \in Nat /\ tests \in GcdTests
  BY GcdBlocks DEF IsGcdLa
<1>2. \A i \in 1 .. Len(tests) : tests[i] # NoPair
  BY <1>1, PairIsKnown
<1>3. \A i \in 1 .. Len(tests) : Result(tests[i]) = Expect(tests[i])
  BY <1>2 DEF Result, Expect
<1>4. Expect(tests[b]) # IF b = 1 THEN 0 ELSE Expect(tests[b - 1])
  <2>1. DOMAIN tests = 1 .. Len(tests)
    <3>1. tests \in Seq(Words \X Words)
      BY <1>1, TestProgramsAssumption
    <3> QED
      BY <3>1
  <2> QED
    BY <1>1, <2>1, TestProgramsAssumption
<1>5. Result(PairBefore(b)) = IF b = 1 THEN 0 ELSE Expect(tests[b - 1])
  <2>1. CASE b = 1
    BY <2>1 DEF PairBefore, Result
  <2>2. CASE b # 1
    <3>1. b - 1 \in 1 .. Len(tests) /\ PairBefore(b) = tests[b - 1]
      BY <1>1, <2>2 DEF PairBefore
    <3> QED
      BY <1>3, <2>2, <3>1
  <2> QED
    BY <2>1, <2>2
<1>6. PairBefore(b + 1) = tests[b]
  <2>1. b + 1 # 1 /\ (b + 1) - 1 = b
    BY <1>1
  <2> QED
    BY <2>1 DEF PairBefore
<1> QED
  BY <1>1, <1>2, <1>3, <1>4, <1>5, <1>6

\* One clock of seq_gcd and of the synchroniser.
LEMMA ChainStep ==
  ASSUME NEW p, NEW t, Result(p) # Result(t), Chain(p, t),
         ResInv, project = "gcd", UserClock,
         la_load => << la_out[0], la_out[1] >> = t
  PROVE  /\ Chain(p, t)'
         /\ regs1 = Result(t) => regs1' = Result(t)
<1>1. CS \in {0, 1} /\ gcd_o = Result(gcd_of)
  BY DEF ResInv, Result
<1>2. regs0' = gcd_o /\ regs1' = regs0
  BY DEF UserClock, Synchroniser, la_data_out
<1>3. /\ loaded' = loaded \/ loaded' = t
      /\ gcd_of' = gcd_of \/ gcd_of' = loaded
  BY <1>1, SeqGcdClock
<1>4. /\ loaded' \in {p, t} /\ gcd_of' \in {p, t}
      /\ loaded = t => loaded' = t
      /\ gcd_of = t => gcd_of' = t
  BY <1>3 DEF Chain
<1>5. gcd_of' = t => loaded' = t
  BY <1>3, <1>4 DEF Chain
<1>6. regs0' = Result(t) => gcd_of' = t
  BY <1>1, <1>2, <1>4 DEF Chain
<1>7. regs0 = Result(t) => regs0' = Result(t)
  BY <1>1, <1>2 DEF Chain
<1>8. {regs0', regs1'} \subseteq {Result(p), Result(t)}
  BY <1>1, <1>2 DEF Chain
<1>9. Chain(p, t)'
  BY <1>2, <1>4, <1>5, <1>6, <1>7, <1>8 DEF Chain, Result
<1> QED
  BY <1>2, <1>9 DEF Chain

LEMMA GcdStep ==
  ASSUME TpTypeOK, ResInv, GcdInv, TpNext
  PROVE  GcdInv'
<1> SUFFICES ASSUME IsGcdLa' PROVE GcdInv'
  BY DEF GcdInv
<1>1. wb.we => wb.valid
  BY DEF TpTypeOK, SlaveOK, NoWb
<1>2. UserClock /\ UNCHANGED << prog, tests, text >>
  BY <1>1, Steps
<1>3. IsGcdLa /\ isr_at = 0 /\ mie = 0 /\ ~InIsr /\ wb = NoWb /\ ~wb.valid
  <2>1. project' = project
    BY <1>2 DEF UserClock
  <2>2. IsGcdLa
    BY <1>2, <2>1, ChipConstant
  <2> QED
    BY <2>2 DEF TpTypeOK, InIsr, GcdInv, NoWb
<1>4. /\ Len(tests) \in Nat /\ Len(prog) = Len(tests)
      /\ \A b \in 1 .. Len(tests) : prog[b] = GcdTest(tests[b])
  BY <1>3, GcdBlocks DEF IsGcdLa
<1>5. at[1] \in 1 .. Len(tests) + 1
  BY <1>3 DEF GcdInv
<1>6. CASE at[1] = Len(tests) + 1
  <2>1. ~(at[1] <= Len(tests)) /\ Ended /\ shown # "AB41"
    BY <1>3, <1>4, <1>6 DEF GcdInv, Ended
  <2>2. Stands
    BY <1>1, <1>3, <2>1, Steps DEF TakeIrq
  <2> QED
    BY <1>2, <1>3, <1>5, <2>1, <2>2 DEF Stands, GcdInv
<1>7. CASE at[1] # Len(tests) + 1
  <2>1. PICK b \in 1 .. Len(tests) : b = at[1]
    BY <1>4, <1>5, <1>7
  <2>2. PICK t : t = tests[b]
    OBVIOUS
  <2>3. PICK p : p = PairBefore(b)
    OBVIOUS
  <2> DEFINE s == at[2]
  <2>4. prog[at[1]] = GcdTest(t) /\ Len(prog[at[1]]) = 12
    BY <1>4, <2>1, <2>2, GcdStatements
  <2>5. s \in 1 .. 12
    <3>1. s \in Nat \ {0} /\ s <= 12
      BY <1>4, <2>1, <2>4 DEF TpTypeOK, AtOK
    <3> QED
      BY <3>1
  <2>6. /\ la_oe[0] = IF s \in 4 .. 8 THEN 1 ELSE 0
        /\ la_oe[1] = IF s \in 5 .. 9 THEN 1 ELSE 0
        /\ s >= 2 => la_out[0] = t[1]
        /\ s >= 3 => la_out[1] = t[2]
        /\ Chain(p, t)
        /\ s >= 11 => regs1 = Result(t)
        /\ shown = "AB41" => s = 12
    BY <1>3, <1>4, <2>1, <2>2, <2>3 DEF GcdInv
  <2>7. /\ t \in Words \X Words /\ Result(t) = Expect(t)
        /\ Result(p) # Result(t) /\ PairBefore(b + 1) = t
    BY <1>3, <2>2, <2>3, TestsDiffer
  <2> HIDE DEF s
  \* The probes drive both words of t, or nothing is loaded.
  <2>8. la_load => << la_out[0], la_out[1] >> = t
    <3> SUFFICES ASSUME la_load PROVE << la_out[0], la_out[1] >> = t
      OBVIOUS
    <3>1. s \in 4 .. 8 /\ s \in 5 .. 9
      BY <2>6 DEF la_load
    <3>2. la_out[0] = t[1] /\ la_out[1] = t[2]
      BY <2>6, <3>1
    <3> QED
      BY <2>7, <3>2
  <2>9. Chain(p, t)' /\ (regs1 = Result(t) => regs1' = Result(t))
    BY <1>2, <1>3, <2>6, <2>7, <2>8, ChainStep DEF IsGcdLa
  <2>10. CASE Stands
    <3>1. at' = at /\ shown' = shown /\ tests' = tests /\ UNCHANGED << la_out, la_oe, wb >>
      BY <1>2, <2>10 DEF Stands, laVars
    <3>2. at'[1] = b /\ at'[2] = s /\ tests'[at'[1]] = t
      BY <2>1, <2>2, <3>1 DEF s
    <3>3. Chain(PairBefore(at[1]), tests[at[1]])'
      BY <2>3, <2>9, <3>1, <3>2 DEF Chain, PairBefore, Result
    <3>4. s >= 11 => regs1' = Result(t)
      BY <2>6, <2>9
    <3>5. s >= 11 => regs1' = Result(tests[at[1]])'
      BY <3>2, <3>4 DEF Result
    <3> QED
      BY <1>3, <1>4, <2>1, <2>6, <3>1, <3>2, <3>3, <3>5 DEF GcdInv
  <2>11. CASE ~Ended /\ ~wb.valid /\ Done(Stmt)
    <3> DEFINE g == GcdTest(t)
    <3>0. /\ g[1] = LaData(0, t[1]) /\ g[2] = LaData(1, t[2])
          /\ g[3] = LaOe(0, 1) /\ g[4] = LaOe(1, 1) /\ g[5] = LaOe(2, 0) /\ g[6] = LaOe(3, 0)
          /\ g[7] = Datal("AB40") /\ g[8] = LaOe(0, 0) /\ g[9] = LaOe(1, 0)
          /\ g[10] = PollEqual(Expect(t)) /\ g[11] = Datal("AB41") /\ g[12] = Datal("AB51")
      BY GcdStatements
    <3>1. Stmt = g[s] /\ at' = Following /\ wb' = wb
      BY <1>2, <1>3, <2>4, <2>11, NextStatement, Advances DEF Done, s
    <3> HIDE DEF g
    <3>2. /\ s < 12 => at' = << b, s + 1 >>
          /\ s = 12 => at' = << b + 1, 1 >>
      <4>1. Following = IF s < 12 THEN << b, s + 1 >> ELSE << b + 1, 1 >>
        BY <2>1, <2>4 DEF Following, s
      <4> QED
        BY <3>1, <4>1
    <3>3. Probes(Stmt) /\ shown' = (IF Stmt.op = "datal" THEN Stmt.v ELSE shown)
      BY <2>11 DEF Done
    <3>4. la_oe \in [0 .. 3 -> {0, 1}] /\ la_out \in [0 .. 1 -> Words]
          /\ t[1] \in Words /\ t[2] \in Words
      BY <2>7 DEF TpTypeOK
    <3>5. /\ la_out'[0] = IF s = 1 THEN t[1] ELSE la_out[0]
          /\ la_out'[1] = IF s = 2 THEN t[2] ELSE la_out[1]
      <4>1. CASE s = 1
        BY <3>1, <3>3, <3>4, <4>1, <3>0 DEF LaData, Probes
      <4>2. CASE s = 2
        BY <3>1, <3>3, <3>4, <4>2, <3>0 DEF LaData, Probes
      <4>3. CASE s \notin {1, 2}
        <5>1. Stmt.op # "la_data"
          BY <2>5, <3>1, <4>3, <3>0 DEF LaOe, Datal, PollEqual
        <5> QED
          BY <3>3, <4>3, <5>1 DEF Probes
      <4> QED
        BY <4>1, <4>2, <4>3
    <3>6. /\ la_oe'[0] = IF s \in 3 .. 7 THEN 1 ELSE 0
          /\ la_oe'[1] = IF s \in 4 .. 8 THEN 1 ELSE 0
      <4>1. CASE s = 3
        BY <2>6, <3>1, <3>3, <3>4, <4>1, <3>0 DEF LaOe, Probes
      <4>2. CASE s = 4
        BY <2>6, <3>1, <3>3, <3>4, <4>2, <3>0 DEF LaOe, Probes
      <4>3. CASE s = 8
        BY <2>6, <3>1, <3>3, <3>4, <4>3, <3>0 DEF LaOe, Probes
      <4>4. CASE s = 9
        BY <2>6, <3>1, <3>3, <3>4, <4>4, <3>0 DEF LaOe, Probes
      <4>5. CASE s \notin {3, 4, 8, 9}
        <5>1. Stmt.op = "la_oe" => Stmt.n \in {2, 3}
          BY <2>5, <3>1, <4>5, <3>0 DEF LaOe, LaData, Datal, PollEqual
        <5>2. la_oe'[0] = la_oe[0] /\ la_oe'[1] = la_oe[1]
          BY <3>3, <3>4, <5>1 DEF Probes
        <5> QED
          BY <2>5, <2>6, <4>5, <5>2
      <4> QED
        BY <4>1, <4>2, <4>3, <4>4, <4>5
    <3>7. shown' = "AB41" => s = 11
      <4>1. CASE s \in {7, 11, 12}
        BY <3>1, <3>3, <4>1, <3>0 DEF Datal
      <4>2. CASE s \notin {7, 11, 12}
        <5>1. Stmt.op # "datal"
          BY <2>5, <3>1, <4>2, <3>0 DEF LaOe, LaData, PollEqual
        <5> QED
          BY <2>6, <3>3, <4>2, <5>1
      <4> QED
        BY <4>1, <4>2
    \* The poll ends with the result of this test in the synchroniser.
    <3>8. s >= 10 => regs1' = Result(t)
      <4>1. s = 10 => regs1 = Result(t)
        <5> SUFFICES ASSUME s = 10 PROVE regs1 = Result(t)
          OBVIOUS
        <5>1. Stmt = PollEqual(Expect(t))
          BY <3>1, <3>0
        <5> QED
          BY <2>7, <2>11, <5>1 DEF Done, PollEqual
      <4> QED
        BY <2>5, <2>6, <2>9, <4>1
    <3>9. CASE s < 12
      <4>1. at' = << b, s + 1 >> /\ at'[1] = b /\ at'[2] = s + 1 /\ tests'[at'[1]] = t
        BY <1>2, <2>2, <3>2, <3>9
      <4>2. Chain(PairBefore(at[1]), tests[at[1]])'
        BY <1>2, <2>3, <2>9, <4>1 DEF Chain, PairBefore, Result
      <4>3. s + 1 >= 11 => regs1' = Result(tests[at[1]])'
        BY <2>5, <3>8, <4>1 DEF Result
      <4>4. /\ la_oe'[0] = IF s + 1 \in 4 .. 8 THEN 1 ELSE 0
            /\ la_oe'[1] = IF s + 1 \in 5 .. 9 THEN 1 ELSE 0
        BY <2>5, <3>6
      <4>5. /\ s + 1 >= 2 => la_out'[0] = t[1]
            /\ s + 1 >= 3 => la_out'[1] = t[2]
        BY <2>5, <2>6, <3>5
      <4>6. shown' = "AB41" => s + 1 = 12
        BY <3>7
      <4> QED
        BY <1>2, <1>3, <1>4, <3>1, <4>1, <4>2, <4>3, <4>4, <4>5, <4>6 DEF GcdInv
    \* The end of a test is the beginning of the next one.
    <3>10. CASE s = 12
      <4>1. at' = << b + 1, 1 >> /\ at'[1] = b + 1 /\ at'[2] = 1
        BY <3>2, <3>10
      <4>2. shown' # "AB41" /\ wb' = NoWb /\ la_oe'[0] = 0 /\ la_oe'[1] = 0
        BY <1>3, <3>1, <3>6, <3>7, <3>10
      <4>3. ASSUME b + 1 \in 1 .. Len(tests)
            PROVE  Chain(PairBefore(at[1]), tests[at[1]])'
        <5>1. PICK u : u = tests[b + 1]
          OBVIOUS
        <5>2. Result(u) # Result(t)
          BY <1>3, <2>7, <4>3, <5>1, TestsDiffer
        <5>3. regs1' = Result(t)
          BY <3>8, <3>10
        <5>4. Chain(t, u)'
          BY <2>9, <5>2, <5>3 DEF Chain, Result
        <5>5. PairBefore(at[1])' = t /\ tests'[at'[1]] = u
          <6>1. b + 1 # 1 /\ (b + 1) - 1 = b
            OBVIOUS
          <6> QED
            BY <1>2, <2>2, <4>1, <5>1, <6>1 DEF PairBefore
        <5> QED
          BY <5>4, <5>5 DEF Chain, PairBefore, Result
      <4>4. b + 1 \in 1 .. Len(tests) + 1
        BY <1>4
      <4> QED
        BY <1>2, <1>3, <1>4, <4>1, <4>2, <4>3, <4>4 DEF GcdInv
    <3> QED
      BY <2>5, <3>9, <3>10
  <2>12. ~Ended => Stmt.op \notin {"mret", "slave_write", "slave_read"}
    <3> SUFFICES ASSUME ~Ended PROVE Stmt.op \notin {"mret", "slave_write", "slave_read"}
      OBVIOUS
    <3>1. Stmt = GcdTest(t)[s]
      BY <1>3, <2>4, NextStatement DEF s
    <3> QED
      BY <2>4, <2>5, <2>7, <3>1, GcdTestIsPlain DEF Plain
  <2> QED
    BY <1>1, <1>3, <2>10, <2>11, <2>12, Steps DEF StartSlave, EndSlave, TakeIrq
<1> QED
  BY <1>5, <1>6, <1>7

-----------------------------------------------------------------------------
(* The flags. *)

\* The other programs have no flag of a test that has passed.
NoPassInv == IsCounterWb \/ IsTimer => shown # "AB41"

LEMMA NoPassStep ==
  ASSUME TpTypeOK, NoPassInv, TpNext
  PROVE  NoPassInv'
<1> SUFFICES ASSUME (IsCounterWb \/ IsTimer)' PROVE shown' # "AB41"
  BY DEF NoPassInv
<1>1. wb.we => wb.valid
  BY DEF TpTypeOK, SlaveOK, NoWb
<1>2. UserClock /\ UNCHANGED << prog, tests, text >>
  BY <1>1, Steps
<1>3. (IsCounterWb \/ IsTimer) /\ shown # "AB41"
  <2>1. project' = project
    BY <1>2 DEF UserClock
  <2> QED
    BY <1>2, <2>1, ChipConstant DEF NoPassInv
<1>4. CASE ~Ended /\ ~wb.valid /\ Done(Stmt)
  <2> SUFFICES ASSUME Stmt.op = "datal" PROVE Stmt.v # "AB41"
    BY <1>3, <1>4 DEF Done
  <2>1. ~InIsr
    <3> SUFFICES ASSUME InIsr PROVE FALSE
      OBVIOUS
    <3>1. isr_at \in 1 .. 5 /\ Stmt = isr[isr_at]
      BY <1>4, NextStatement
    <3> QED
      BY <3>1, IsrStatements DEF IrqSetMask, LaData, SetFlag, Mret
  <2>2. at[1] \in 1 .. Len(prog) /\ at[2] \in 1 .. Len(prog[at[1]]) /\ Stmt = prog[at[1]][at[2]]
    BY <1>4, <2>1, NextStatement
  <2>3. CASE IsCounterWb
    <3>1. at[2] \in 1 .. 5 /\ Stmt = CounterWb[at[2]]
      BY <2>2, <2>3, CounterWbStatements DEF IsCounterWb
    <3> QED
      BY <3>1, CounterWbStatements DEF LaOe, Datal, SlaveWrite, SlaveRead
  <2>4. CASE IsTimer
    BY <2>2, <2>4, TimerProgram
  <2> QED
    BY <1>3, <2>3, <2>4
<1> QED
  BY <1>1, <1>3, <1>4, Steps DEF Stands, StartSlave, EndSlave, TakeIrq

LEMMA FlagsInvariant == TpSpec => [](CountInv /\ GcdInv /\ NoPassInv)
<1>1. TpInit => CountInv /\ GcdInv /\ NoPassInv
  <2> SUFFICES ASSUME TpInit PROVE CountInv /\ GcdInv /\ NoPassInv
    OBVIOUS
  <2>1. /\ at = << 1, 1 >> /\ at[1] = 1 /\ at[2] = 1 /\ shown = "none" /\ wb = NoWb
        /\ la_out[1] = 0 /\ la_oe[0] = 0 /\ la_oe[1] = 0
    BY DEF TpInit, ProjectInit
  <2>2. CountInv /\ NoPassInv
    BY <2>1 DEF CountInv, NoPassInv
  <2>3. ASSUME IsGcdLa PROVE GcdInv
    <3>1. 1 \in 1 .. Len(tests) + 1
      BY <2>3, GcdBlocks DEF IsGcdLa
    <3>2. PairBefore(1) = NoPair
      BY DEF PairBefore
    <3>3. /\ loaded = NoPair /\ gcd_of = NoPair /\ regs0 = Result(NoPair) /\ regs1 = Result(NoPair)
      BY <2>3 DEF TpInit, ProjectInit, IsGcdLa, Result
    <3>4. 1 <= Len(tests) => Chain(NoPair, tests[1])
      <4> SUFFICES ASSUME 1 \in 1 .. Len(tests) PROVE Chain(NoPair, tests[1])
        BY <2>3, GcdBlocks DEF IsGcdLa
      <4>1. Result(NoPair) # Result(tests[1]) /\ tests[1] # NoPair
        BY <2>3, <3>2, TestsDiffer
      <4> QED
        BY <3>3, <4>1 DEF Chain
    <3> QED
      BY <2>1, <3>1, <3>2, <3>4 DEF GcdInv
  <2>4. ~IsGcdLa => GcdInv
    BY DEF GcdInv
  <2> QED
    BY <2>2, <2>3, <2>4
<1>2. /\ TpTypeOK /\ ResInv
      /\ CountInv /\ GcdInv /\ NoPassInv
      /\ [TpNext]_allVars
      => CountInv' /\ GcdInv' /\ NoPassInv'
  <2>1. ASSUME CountInv, GcdInv, NoPassInv, UNCHANGED allVars
        PROVE  CountInv' /\ GcdInv' /\ NoPassInv'
    <3>1. UNCHANGED << project, prog, tests, at, shown, la_out, la_oe, wb, count, run, regs0, regs1,
                       loaded, gcd_of >>
      BY <2>1 DEF allVars, testVars, projectVars, laVars, counterVars, gcdVars
    <3>2. IsCounterLa' = IsCounterLa /\ IsCounterWb' = IsCounterWb
          /\ IsGcdLa' = IsGcdLa /\ IsTimer' = IsTimer
      BY <3>1, ChipConstant
    <3>3. CountInv'
      BY <2>1, <3>1, <3>2 DEF CountInv, NoWb
    <3>4. GcdInv'
      BY <2>1, <3>1, <3>2 DEF GcdInv, Chain, PairBefore, Result, NoWb
    <3> QED
      BY <2>1, <3>1, <3>2, <3>3, <3>4 DEF NoPassInv
  <2> QED
    BY <2>1, CountStep, GcdStep, NoPassStep
<1> QED
  BY <1>1, <1>2, TypeInvariant, ResInvariant, PTL DEF TpSpec

\* A test shown as passed has passed: the flag of gcd_la.c is up when seq_gcd
\* has computed the result of this test's operands, however many words the
\* tests are and however late the core polls, and that of counter_la.c when the
\* count has gone above Limit since it was set to zero.
THEOREM PassedIsHonest == TpSpec => []PassHonest
<1>1. TpTypeOK /\ CountInv /\ GcdInv /\ NoPassInv => PassHonest
  <2> SUFFICES ASSUME TpTypeOK, CountInv, GcdInv, NoPassInv, shown = "AB41"
               PROVE  PassHonest
    BY DEF PassHonest
  <2>1. IsCounterLa \/ IsGcdLa
    BY DEF TpTypeOK, Chip, NoPassInv
  <2>2. CASE IsCounterLa
    <3>1. at[1] = 1 /\ at[2] = 10
      BY <2>2 DEF CountInv
    <3>2. run = "above" /\ project # "gcd"
      BY <2>2, <3>1 DEF CountInv, IsCounterLa
    <3> QED
      BY <3>2 DEF PassHonest
  <2>3. CASE IsGcdLa
    <3>1. at[1] \in 1 .. Len(tests) /\ at[2] = 12 /\ Len(tests) \in Nat
      BY <2>3, GcdBlocks DEF GcdInv, IsGcdLa
    <3>2. Chain(PairBefore(at[1]), tests[at[1]]) /\ regs1 = Result(tests[at[1]])
      BY <2>3, <3>1 DEF GcdInv
    <3>3. gcd_of = tests[at[1]] /\ tests # << >> /\ project = "gcd"
      BY <2>3, <3>1, <3>2 DEF Chain, IsGcdLa
    <3> QED
      BY <3>3 DEF PassHonest, Running
  <2> QED
    BY <2>1, <2>2, <2>3
<1> QED
  BY <1>1, TypeInvariant, FlagsInvariant, PTL

-----------------------------------------------------------------------------
(* The text of print: where its characters stand on the line. *)

LEMMA PlaceStep ==
  ASSUME NEW t \in Seq(STRING), NEW i \in 1 .. Len(t)
  PROVE  Place(t, i) = Place(t, i - 1) + (IF t[i] = "nl" THEN 2 ELSE 1)
<1> DEFINE N(k) == {j \in 1 .. k : t[j] = "nl"}
<1>1. IsFiniteSet(1 .. i - 1)
  BY FS_Interval
<1>2. IsFiniteSet(N(i - 1)) /\ Cardinality(N(i - 1)) \in Nat /\ i \notin N(i - 1)
  <2>1. N(i - 1) \in SUBSET (1 .. i - 1)
    OBVIOUS
  <2> QED
    BY <1>1, <2>1, FS_Subset, FS_CardinalityType
<1>3. N(i) = IF t[i] = "nl" THEN N(i - 1) \cup {i} ELSE N(i - 1)
  OBVIOUS
<1>4. Cardinality(N(i - 1) \cup {i}) = Cardinality(N(i - 1)) + 1
  BY <1>2, FS_AddElement
<1>5. Cardinality(N(i)) = Cardinality(N(i - 1)) + (IF t[i] = "nl" THEN 1 ELSE 0)
  <2>1. CASE t[i] = "nl"
    BY <1>3, <1>4, <2>1
  <2>2. CASE t[i] # "nl"
    <3>1. N(i) = N(i - 1)
      BY <1>3, <2>2
    <3>2. Cardinality(N(i - 1)) + 0 = Cardinality(N(i - 1))
      BY <1>2
    <3> HIDE DEF N
    <3> QED
      BY <2>2, <3>1, <3>2
  <2> QED
    BY <2>1, <2>2
<1>6. Place(t, i) = i + Cardinality(N(i)) /\ Place(t, i - 1) = (i - 1) + Cardinality(N(i - 1))
  BY DEF Place
<1> HIDE DEF N
<1> QED
  BY <1>2, <1>5, <1>6

\* Later characters stand further on.
LEMMA PlaceGrows ==
  ASSUME NEW t \in Seq(STRING), NEW j \in 0 .. Len(t), NEW i \in 0 .. j
  PROVE  /\ Place(t, i) \in Nat /\ Place(t, j) \in Nat
         /\ Place(t, i) + (j - i) <= Place(t, j)
<1> DEFINE N(k) == {m \in 1 .. k : t[m] = "nl"}
<1>1. IsFiniteSet(1 .. j) /\ N(j) \in SUBSET (1 .. j)
  BY FS_Interval
<1>2. IsFiniteSet(N(j)) /\ N(i) \in SUBSET N(j)
  BY <1>1, FS_Subset
<1>3. IsFiniteSet(N(i)) /\ Cardinality(N(i)) <= Cardinality(N(j))
  BY <1>2, FS_Subset
<1>4. Cardinality(N(i)) \in Nat /\ Cardinality(N(j)) \in Nat
  BY <1>2, <1>3, FS_CardinalityType
<1>5. Place(t, i) = i + Cardinality(N(i)) /\ Place(t, j) = j + Cardinality(N(j))
  BY DEF Place
<1> HIDE DEF N
<1> QED
  BY <1>3, <1>4, <1>5

LEMMA PlaceZero ==
  ASSUME NEW t \in Seq(STRING)
  PROVE  Place(t, 0) = 0
<1>1. {j \in 1 .. 0 : t[j] = "nl"} = {}
  OBVIOUS
<1> QED
  BY <1>1, FS_EmptySet DEF Place

\* Character i of the line, and what stands before it if it is a newline.
LEMMA LineAt ==
  ASSUME NEW t \in Seq(STRING), NEW i \in 1 .. Len(t)
  PROVE  /\ Place(t, i) \in 1 .. Len(Line(t))
         /\ Line(t)[Place(t, i)] = t[i]
         /\ t[i] = "nl" => Line(t)[Place(t, i) - 1] = "cr"
<1>0. DOMAIN t = 1 .. Len(t) /\ Len(t) \in Nat /\ i \in 0 .. Len(t) /\ i - 1 \in 0 .. Len(t)
  OBVIOUS
<1>1. Place(t, Len(t)) \in Nat /\ Place(t, i) + (Len(t) - i) <= Place(t, Len(t))
  <2>1. Len(t) \in 0 .. Len(t)
    BY <1>0
  <2> QED
    BY <1>0, <2>1, PlaceGrows
<1>2. /\ Len(Line(t)) = Place(t, Len(t))
      /\ \A p \in 1 .. Place(t, Len(t)) :
           Line(t)[p] = IF \E k \in 1 .. Len(t) : Place(t, k) = p
                        THEN t[CHOOSE k \in 1 .. Len(t) : Place(t, k) = p] ELSE "cr"
  BY <1>0, <1>1 DEF Line
<1>3. /\ Place(t, i - 1) \in Nat /\ Place(t, i) \in Nat
      /\ Place(t, i) = Place(t, i - 1) + (IF t[i] = "nl" THEN 2 ELSE 1)
  <2>1. i - 1 \in 0 .. i /\ i \in 0 .. Len(t)
    BY <1>0
  <2> QED
    BY <2>1, PlaceStep, PlaceGrows
<1>5. Place(t, i) \in 1 .. Place(t, Len(t))
  BY <1>0, <1>1, <1>3
<1>6. ASSUME NEW k \in 1 .. Len(t)
      PROVE  /\ k < i => Place(t, k) <= Place(t, i - 1)
             /\ k > i => Place(t, k) > Place(t, i)
             /\ Place(t, k) \in Nat
  <2>1. CASE k < i
    <3>1. i - 1 \in 0 .. Len(t) /\ k \in 0 .. i - 1
      BY <2>1
    <3>2. Place(t, k) + ((i - 1) - k) <= Place(t, i - 1) /\ Place(t, k) \in Nat
      BY <3>1, PlaceGrows
    <3> QED
      BY <1>3, <2>1, <3>2
  <2>2. CASE k >= i
    <3>1. Place(t, i) + (k - i) <= Place(t, k) /\ Place(t, k) \in Nat
      BY <2>2, PlaceGrows
    <3> QED
      BY <1>3, <2>2, <3>1
  <2> QED
    BY <2>1, <2>2
<1>7. Line(t)[Place(t, i)] = t[i]
  <2> DEFINE k == CHOOSE k \in 1 .. Len(t) : Place(t, k) = Place(t, i)
  <2>1. k \in 1 .. Len(t) /\ Place(t, k) = Place(t, i)
    OBVIOUS
  <2>2. Line(t)[Place(t, i)] = t[k]
    BY <1>2, <1>5
  <2> HIDE DEF k
  <2>3. k = i
    BY <1>3, <1>6, <2>1
  <2> QED
    BY <2>2, <2>3
<1>8. ASSUME t[i] = "nl" PROVE Line(t)[Place(t, i) - 1] = "cr"
  <2>1. Place(t, i) - 1 \in 1 .. Place(t, Len(t))
    BY <1>1, <1>3, <1>5, <1>8
  <2>2. \A k \in 1 .. Len(t) : Place(t, k) # Place(t, i) - 1
    BY <1>3, <1>6, <1>8
  <2> QED
    BY <1>2, <2>1, <2>2
<1> QED
  BY <1>2, <1>5, <1>7, <1>8

-----------------------------------------------------------------------------
(* The way of a character: FIFO, output register, line. *)

\* The characters on the line ("cr" is a string, but the provers do not know).
Chars == STRING \cup {"cr"}

Out == sent \o tx_out \o tx_fifo

UartOK ==
  /\ sent \in Seq(Chars) /\ tx_out \in Seq(Chars) /\ tx_fifo \in Seq(Chars)
  /\ Len(tx_fifo) <= FifoDepth

LEMMA OneMovesOn ==
  ASSUME NEW s \in Seq(Chars), NEW f \in Seq(Chars), f # << >>
  PROVE  /\ << Head(f) >> \in Seq(Chars) /\ Tail(f) \in Seq(Chars)
         /\ Len(Tail(f)) = Len(f) - 1
         /\ (s \o << Head(f) >>) \o Tail(f) = s \o f
<1>1. /\ Head(f) \in Chars /\ Tail(f) \in Seq(Chars) /\ Len(Tail(f)) = Len(f) - 1
      /\ \A i \in 1 .. Len(Tail(f)) : Tail(f)[i] = f[i + 1]
  BY HeadTailProperties
<1>2. << Head(f) >> \in Seq(Chars) /\ Len(<< Head(f) >>) = 1 /\ << Head(f) >>[1] = f[1]
  BY <1>1
<1>3. << Head(f) >> \o Tail(f) = f
  <2> DEFINE g == << Head(f) >> \o Tail(f)
  <2>1. /\ g \in Seq(Chars) /\ Len(g) = 1 + (Len(f) - 1)
        /\ g[1] = f[1] /\ \A i \in 1 .. Len(f) - 1 : g[1 + i] = f[i + 1]
    BY <1>1, <1>2, Concatenation
  <2>2. Len(f) \in Nat /\ Len(f) # 0
    BY EmptySeq
  <2> HIDE DEF g
  <2>3. \A i \in 1 .. Len(f) : g[i] = f[i]
    <3> SUFFICES ASSUME NEW i \in 1 .. Len(f) PROVE g[i] = f[i]
      OBVIOUS
    <3>1. CASE i = 1
      BY <2>1, <3>1
    <3>2. CASE i # 1
      <4>1. i - 1 \in 1 .. Len(f) - 1 /\ 1 + (i - 1) = i /\ (i - 1) + 1 = i
        BY <2>2, <3>2
      <4> QED
        BY <2>1, <4>1
    <3> QED
      BY <3>1, <3>2
  <2>4. g = f
    BY <2>1, <2>2, <2>3, SeqEqual
  <2> QED
    BY <2>4 DEF g
<1> QED
  BY <1>1, <1>2, <1>3, ConcatAssociative

\* A clock without a write moves characters on and loses none.
LEMMA UartMoves ==
  ASSUME UartOK, NEW w, Uart(w)
  PROVE  LET move == tx_fifo # << >>
                     /\ (tx_out = << >> \/ (tx_out # << >> /\ phy_count = CharClocks - 1))
             rest == IF move THEN Tail(tx_fifo) ELSE tx_fifo
         IN /\ sent' \in Seq(Chars) /\ tx_out' \in Seq(Chars) /\ rest \in Seq(Chars)
            /\ Len(rest) <= Len(tx_fifo)
            /\ (sent' \o tx_out') \o rest = Out
            /\ tx_fifo' = IF w.reg = "rxtx" /\ ~uart_txfull THEN Append(rest, w.v) ELSE rest
<1> DEFINE goes == tx_out # << >> /\ phy_count = CharClocks - 1
           move == tx_fifo # << >> /\ (tx_out = << >> \/ goes)
           rest == IF move THEN Tail(tx_fifo) ELSE tx_fifo
<1>1. /\ sent \in Seq(Chars) /\ tx_out \in Seq(Chars) /\ tx_fifo \in Seq(Chars)
      /\ << >> \in Seq(Chars) /\ Len(tx_fifo) \in Nat
  BY EmptySeq DEF UartOK
<1>2. /\ tx_fifo' = IF w.reg = "rxtx" /\ ~uart_txfull THEN Append(rest, w.v) ELSE rest
      /\ tx_out' = IF move THEN << Head(tx_fifo) >> ELSE IF goes THEN << >> ELSE tx_out
      /\ sent' = IF goes THEN sent \o tx_out ELSE sent
  BY DEF Uart
<1>3. sent \o tx_out \in Seq(Chars)
  BY <1>1, ConcatProperties
<1> DEFINE Moved == /\ sent' \in Seq(Chars) /\ tx_out' \in Seq(Chars)
                    /\ rest \in Seq(Chars) /\ Len(rest) <= Len(tx_fifo)
                    /\ (sent' \o tx_out') \o rest = Out
<1>4. ASSUME move PROVE Moved
  <2>1. CASE goes
    BY <1>1, <1>2, <1>3, <1>4, <2>1, OneMovesOn DEF Out
  <2>2. CASE ~goes
    <3>1. tx_out = << >> /\ sent \o tx_out = sent
      BY <1>1, <1>4, <2>2, ConcatEmptySeq
    <3> QED
      BY <1>1, <1>2, <1>4, <2>2, <3>1, OneMovesOn DEF Out
  <2> QED
    BY <2>1, <2>2
<1>5. ASSUME ~move PROVE Moved
  <2>1. CASE goes
    <3>1. tx_fifo = << >> /\ sent' = sent \o tx_out /\ tx_out' = << >> /\ rest = tx_fifo
      BY <1>2, <1>5, <2>1
    <3>2. (sent \o tx_out) \o << >> = sent \o tx_out
      BY <1>3, ConcatEmptySeq
    <3>3. (sent' \o tx_out') \o tx_fifo = Out
      BY <3>1, <3>2 DEF Out
    <3> HIDE DEF move, goes, rest
    <3> QED
      BY <1>1, <1>3, <3>1, <3>3
  <2>2. CASE ~goes
    <3>1. sent' = sent /\ tx_out' = tx_out /\ rest = tx_fifo
      BY <1>2, <1>5, <2>2
    <3>2. (sent' \o tx_out') \o tx_fifo = Out
      BY <3>1 DEF Out
    <3> HIDE DEF move, goes, rest
    <3> QED
      BY <1>1, <3>1, <3>2
  <2> QED
    BY <2>1, <2>2
<1> QED
  BY <1>2, <1>4, <1>5

LEMMA UartKeeps ==
  ASSUME UartOK, NEW w, Uart(w), w.reg # "rxtx"
  PROVE  UartOK' /\ Out' = Out /\ Len(tx_fifo') <= Len(tx_fifo)
<1>1. PICK rest \in Seq(Chars) :
        /\ sent' \in Seq(Chars) /\ tx_out' \in Seq(Chars)
        /\ Len(rest) <= Len(tx_fifo)
        /\ (sent' \o tx_out') \o rest = Out
        /\ tx_fifo' = rest
  BY UartMoves
<1>2. FifoDepth \in Nat /\ Len(tx_fifo) \in Nat /\ Len(rest) \in Nat
  BY PeripheralsAssumption DEF PeripheralsAssumption, UartOK
<1>3. Out' = Out
  BY <1>1 DEF Out
<1> QED
  BY <1>1, <1>2, <1>3 DEF UartOK

\* A character written to a FIFO with room is the next one on its way.
LEMMA UartTakes ==
  ASSUME UartOK, NEW w, Uart(w), w.reg = "rxtx", w.v \in Chars, ~uart_txfull
  PROVE  /\ UartOK' /\ Out \in Seq(Chars) /\ Len(Out') = Len(Out) + 1
         /\ Out'[Len(Out) + 1] = w.v
         /\ \A p \in 1 .. Len(Out) : Out'[p] = Out[p]
<1>1. PICK rest \in Seq(Chars) :
        /\ sent' \in Seq(Chars) /\ tx_out' \in Seq(Chars)
        /\ Len(rest) <= Len(tx_fifo)
        /\ (sent' \o tx_out') \o rest = Out
        /\ tx_fifo' = Append(rest, w.v)
  BY UartMoves
<1>2. << w.v >> \in Seq(Chars) /\ Len(<< w.v >>) = 1 /\ << w.v >>[1] = w.v
      /\ Append(rest, w.v) = rest \o << w.v >>
      /\ Append(rest, w.v) \in Seq(Chars) /\ Len(Append(rest, w.v)) = Len(rest) + 1
  OBVIOUS
<1>3. sent' \o tx_out' \in Seq(Chars) /\ Out \in Seq(Chars)
  BY <1>1, ConcatProperties
<1>4. Out' = Out \o << w.v >>
  <2>1. Out' = (sent' \o tx_out') \o (rest \o << w.v >>)
    BY <1>1, <1>2 DEF Out
  <2>2. ((sent' \o tx_out') \o rest) \o << w.v >> = (sent' \o tx_out') \o (rest \o << w.v >>)
    BY <1>2, <1>3, ConcatAssociative
  <2> QED
    BY <1>1, <2>1, <2>2
<1>5. UartOK'
  BY <1>1, <1>2, PeripheralsAssumption
     DEF UartOK, uart_txfull, PeripheralsAssumption
<1> QED
  BY <1>2, <1>3, <1>4, <1>5, Concatenation

-----------------------------------------------------------------------------
(* How much of the text has been put at each place of the program.         *)

Prints == text \in Texts /\ project = "gcd" /\ \E n \in TimerValues : prog = TimerClient(text, n)

\* The length of what print has put.
Put == IF at[1] = 1 THEN 0
       ELSE IF at[1] > Len(text) + 1 THEN Place(text, Len(text))
       ELSE Place(text, at[1] - 2) + ((at[2] - 1) \div 2)

\* What is on its way is the beginning of the line that has been put, and when
\* the next statement writes a character the FIFO has room for it.
TextInv ==
  text # << >> =>
    /\ Prints /\ UartOK
    /\ Out \in Seq(Chars) /\ Len(Out) = Put
    /\ \A p \in 1 .. Put : Out[p] = Line(text)[p]
    /\ at[1] \in 2 .. Len(text) + 1 /\ at[2] \in {2, 4} => ~uart_txfull

LEMMA PutcharStatements ==
  ASSUME NEW c
  PROVE  /\ c # "nl" => /\ Len(putchar(c)) = 2 /\ putchar(c)[1] = PollTxFull
                        /\ putchar(c)[2] = Csr("rxtx", c)
         /\ c = "nl" => /\ Len(putchar(c)) = 4 /\ putchar(c)[1] = PollTxFull
                        /\ putchar(c)[2] = Csr("rxtx", "cr") /\ putchar(c)[3] = PollTxFull
                        /\ putchar(c)[4] = Csr("rxtx", c)
<1>1. PutOne(c) = << PollTxFull, Csr("rxtx", c) >>
      /\ PutOne("cr") = << PollTxFull, Csr("rxtx", "cr") >>
  BY DEF PutOne
<1>2. CASE c # "nl"
  <2>1. putchar(c) = << PollTxFull, Csr("rxtx", c) >>
    BY <1>1, <1>2 DEF putchar
  <2> QED
    BY <1>2, <2>1
<1>3. CASE c = "nl"
  <2> DEFINE S == {PollTxFull, Csr("rxtx", "cr"), Csr("rxtx", c)}
             q == PutOne("cr")
             r == PutOne(c)
  <2>1. PollTxFull \in S /\ Csr("rxtx", "cr") \in S /\ Csr("rxtx", c) \in S
    OBVIOUS
  <2> HIDE DEF S
  <2>2. /\ q \in Seq(S) /\ Len(q) = 2 /\ q[1] = PollTxFull /\ q[2] = Csr("rxtx", "cr")
        /\ r \in Seq(S) /\ Len(r) = 2 /\ r[1] = PollTxFull /\ r[2] = Csr("rxtx", c)
    <3>1. \A x \in S, y \in S :
            /\ << x, y >> \in Seq(S) /\ Len(<< x, y >>) = 2
            /\ << x, y >>[1] = x /\ << x, y >>[2] = y
      OBVIOUS
    <3>2. q = << PollTxFull, Csr("rxtx", "cr") >> /\ r = << PollTxFull, Csr("rxtx", c) >>
      BY <1>1
    <3> HIDE DEF q, r
    <3>3. /\ q \in Seq(S) /\ Len(q) = 2 /\ q[1] = PollTxFull /\ q[2] = Csr("rxtx", "cr")
      BY <2>1, <3>1, <3>2
    <3>4. /\ r \in Seq(S) /\ Len(r) = 2 /\ r[1] = PollTxFull /\ r[2] = Csr("rxtx", c)
      BY <2>1, <3>1, <3>2
    <3> QED
      BY <3>3, <3>4
  <2>3. putchar(c) = q \o r
    BY <1>3 DEF putchar
  <2> HIDE DEF q, r
  <2>4. /\ Len(q \o r) = 2 + 2
        /\ (q \o r)[1] = q[1] /\ (q \o r)[2] = q[2]
        /\ (q \o r)[2 + 1] = r[1] /\ (q \o r)[2 + 2] = r[2]
    BY <2>2, Concatenation
  <2>5. 2 + 1 = 3 /\ 2 + 2 = 4
    OBVIOUS
  <2> QED
    BY <1>3, <2>2, <2>3, <2>4, <2>5
<1> QED
  BY <1>2, <1>3

\* The statement to be run next while a text is printed.
LEMMA TextStatement ==
  ASSUME Prints, TpTypeOK, ~Ended, ~InIsr
  PROVE  /\ text \in Seq(STRING) /\ Len(text) \in Nat /\ Len(prog) = Len(text) + 2
         /\ at[1] \in 1 .. Len(text) + 2 /\ at[2] \in 1 .. Len(prog[at[1]])
         /\ at[1] \in {1, Len(text) + 2} => Stmt.op \notin {"rxtx", "txfull"}
         /\ at[1] \in 2 .. Len(text) + 1 =>
              /\ prog[at[1]] = putchar(text[at[1] - 1])
              /\ Stmt = putchar(text[at[1] - 1])[at[2]]
<1>1. PICK n \in TimerValues : prog = TimerClient(text, n)
  BY DEF Prints
<1>2. text \in Texts /\ text \in Seq(STRING)
  BY TestProgramsAssumption DEF Prints
<1>3. /\ Len(text) \in Nat /\ Len(prog) = Len(text) + 2
      /\ prog[1] = << Csr("load", n), Csr("reload", n), Csr("ev_pending", 1),
                      Csr("ev_enable", 1), Csr("en", 1), IrqSetMask(1), IrqSetIe(1) >>
      /\ \A b \in 1 .. Len(text) : prog[1 + b] = putchar(text[b])
      /\ prog[Len(text) + 2] = << Csr("ev_pending", 1) >>
  BY <1>1, <1>2, TimerBlocks
<1>4. /\ at[1] \in 1 .. Len(prog) /\ at[2] \in 1 .. Len(prog[at[1]])
      /\ Stmt = prog[at[1]][at[2]]
  BY NextStatement
<1>5. CASE at[1] = 1
  <2>1. Stmt.op \notin {"rxtx", "txfull"}
    <3>1. Len(prog[1]) = 7
      BY <1>3
    <3>2. at[2] \in 1 .. 7 /\ Stmt = prog[1][at[2]]
      BY <1>4, <1>5, <3>1
    <3> QED
      BY <1>3, <3>2 DEF Csr, IrqSetMask, IrqSetIe
  <2> QED
    BY <1>2, <1>3, <1>4, <1>5, <2>1
<1>6. CASE at[1] = Len(text) + 2
  <2>1. Len(prog[Len(text) + 2]) = 1
    BY <1>3
  <2>2. at[2] = 1 /\ Stmt = Csr("ev_pending", 1)
    BY <1>3, <1>4, <1>6, <2>1
  <2> QED
    BY <1>2, <1>3, <1>4, <1>6, <2>2 DEF Csr
<1>7. CASE at[1] \in 2 .. Len(text) + 1
  <2>1. at[1] - 1 \in 1 .. Len(text) /\ 1 + (at[1] - 1) = at[1]
    BY <1>3, <1>4, <1>7
  <2>2. prog[at[1]] = putchar(text[at[1] - 1])
    BY <1>3, <2>1
  <2> QED
    BY <1>2, <1>3, <1>4, <1>7, <2>2
<1> QED
  BY <1>3, <1>4, <1>5, <1>6, <1>7

\* What a step does to the transmitter and to the place in the program.
LEMMA TextSteps ==
  ASSUME TpTypeOK, TpNext
  PROVE  /\ UNCHANGED << text, prog, project >>
         /\ \E w :
              /\ Uart(w)
              /\ \/ w.reg # "rxtx" /\ at' = at
                 \/ /\ w.reg # "rxtx" /\ ~Ended /\ ~InIsr /\ at' = Following
                    /\ Stmt.op # "rxtx" /\ (Stmt.op = "txfull" => ~uart_txfull)
                 \/ /\ w.reg = "rxtx" /\ w.v = Stmt.v
                    /\ ~Ended /\ ~InIsr /\ at' = Following /\ Stmt.op = "rxtx"
<1>1. UNCHANGED << text, prog, project >>
  BY DEF TpNext, CoreAccess, CoreWaits, TakeIrq, UserClock, counterVars, gcdVars
<1>2. NoWrite.reg # "rxtx"
  BY DEF NoWrite
<1>3. CASE CoreWaits \/ TakeIrq
  BY <1>1, <1>2, <1>3 DEF CoreWaits, TakeIrq, PeriphClock
<1>4. CASE CoreAccess
  <2>1. ~Ended
    BY <1>4 DEF CoreAccess
  <2>2. InIsr => Stmt.op # "rxtx"
    BY <2>1, NextStatement, IsrStatements DEF IrqSetMask, LaData, SetFlag, Mret
  <2>3. Advance => at' = at \/ (~InIsr /\ at' = Following)
    BY DEF Advance
  <2>4. CASE EndSlave
    <3>1. Uart(NoWrite) /\ Advance
      BY <2>4 DEF EndSlave, PeriphClock
    <3>2. IsCounterWb /\ at[1] = 1 /\ at[2] \in {3, 5}
      BY <2>4 DEF EndSlave, TpTypeOK, SlaveOK, NoWb
    <3>3. Stmt = CounterWb[at[2]]
      BY <3>2, IsrStatements DEF TpTypeOK, InIsr, IsCounterWb, Stmt
    <3>4. Stmt.op \notin {"rxtx", "txfull"}
      BY <3>2, <3>3, CounterWbStatements DEF SlaveWrite, SlaveRead
    <3> QED
      BY <1>1, <1>2, <2>1, <2>3, <3>1, <3>4
  <2>5. CASE WriteCsr
    <3>1. Uart([reg |-> Stmt.op, v |-> Stmt.v]) /\ Advance /\ Stmt.op # "txfull"
      BY <2>5 DEF WriteCsr, PeriphClock, CsrRegs
    <3> DEFINE w == [reg |-> Stmt.op, v |-> Stmt.v]
    <3>2. w.reg = Stmt.op /\ w.v = Stmt.v /\ Uart(w)
      BY <3>1
    <3> HIDE DEF w
    <3>3. CASE at' = at /\ Stmt.op # "rxtx"
      BY <1>1, <3>2, <3>3
    <3>4. CASE ~InIsr /\ at' = Following /\ Stmt.op # "rxtx"
      BY <1>1, <2>1, <3>1, <3>2, <3>4
    <3>5. CASE ~InIsr /\ at' = Following /\ Stmt.op = "rxtx"
      BY <1>1, <2>1, <3>2, <3>5
    <3>6. Stmt.op = "rxtx" => ~InIsr /\ at' = Following
      BY <2>2, <3>1 DEF Advance
    <3> QED
      BY <2>3, <3>1, <3>3, <3>4, <3>5, <3>6
  <2>6. CASE Poll
    <3>1. /\ Uart(NoWrite) /\ Stmt.op \in {"above", "equal", "txfull"}
          /\ at' = at \/ (Advance /\ (Stmt.op = "txfull" => ~uart_txfull))
      BY <2>6 DEF Poll, PeriphClock, Repeat
    <3> QED
      BY <1>1, <1>2, <2>1, <2>3, <3>1
  <2>7. CASE WriteLa \/ WriteFlag \/ CoreOp \/ StartSlave
    <3>1. /\ Uart(NoWrite) /\ Stmt.op \notin {"rxtx", "txfull"}
          /\ at' = at \/ Advance
      BY <2>7 DEF WriteLa, WriteFlag, CoreOp, StartSlave, PeriphClock, Repeat
    <3> QED
      BY <1>1, <1>2, <2>1, <2>3, <3>1
  <2> QED
    BY <1>4, <2>4, <2>5, <2>6, <2>7 DEF CoreAccess
<1> QED
  BY <1>3, <1>4 DEF TpNext
\* print puts the characters of the line one by one, each after a look at the
\* FIFO, and no other statement of the program moves Put.
LEMMA PutMoves ==
  ASSUME Prints, text # << >>, TpTypeOK, ~Ended, ~InIsr, at' = Following,
         UNCHANGED << text, prog, project >>
  PROVE  /\ Stmt.op # "rxtx" => Put' = Put
         /\ Stmt.op = "rxtx" =>
              /\ at[1] \in 2 .. Len(text) + 1 /\ at[2] \in {2, 4}
              /\ Put \in Nat /\ Put' = Put + 1
              /\ Line(text)[Put + 1] = Stmt.v /\ Stmt.v \in Chars
         /\ at'[1] \in 2 .. Len(text) + 1 /\ at'[2] \in {2, 4} => Stmt.op = "txfull"
<1>1. /\ text \in Seq(STRING) /\ Len(text) \in Nat /\ Len(prog) = Len(text) + 2
      /\ at[1] \in 1 .. Len(text) + 2 /\ at[2] \in 1 .. Len(prog[at[1]])
      /\ at[1] \in {1, Len(text) + 2} => Stmt.op \notin {"rxtx", "txfull"}
      /\ at[1] \in 2 .. Len(text) + 1 =>
           /\ prog[at[1]] = putchar(text[at[1] - 1])
           /\ Stmt = putchar(text[at[1] - 1])[at[2]]
  BY TextStatement
<1>2. Len(text) # 0
  BY <1>1, EmptySeq
<1>3. CASE at[1] = 1
  <2>1. at' = << 1, at[2] + 1 >> \/ at' = << 2, 1 >>
    BY <1>3 DEF Following
  <2>2. Place(text, 0) = 0
    BY <1>1, PlaceZero
  <2>3. Put = 0 /\ Put' = 0
    <3>1. CASE at'[1] = 1
      BY <1>3, <3>1 DEF Put
    <3>2. CASE at' = << 2, 1 >>
      <4>1. at'[1] = 2 /\ at'[2] = 1 /\ 2 - 2 = 0 /\ (1 - 1) \div 2 = 0 /\ ~(2 > Len(text) + 1)
        BY <1>1, <1>2, <3>2
      <4>2. Put' = Place(text', at'[1] - 2) + ((at'[2] - 1) \div 2)
        BY <4>1 DEF Put
      <4> QED
        BY <1>3, <2>2, <4>1, <4>2 DEF Put
    <3> QED
      BY <2>1, <3>1, <3>2
  <2>4. ~(at'[1] \in 2 .. Len(text) + 1 /\ at'[2] \in {2, 4})
    BY <2>1
  <2> QED
    BY <1>1, <1>3, <2>3, <2>4
<1>4. CASE at[1] = Len(text) + 2
  <2>1. at'[1] \in {Len(text) + 2, Len(text) + 3}
    BY <1>1, <1>4 DEF Following
  <2>2. Put = Place(text, Len(text)) /\ Put' = Place(text, Len(text))
    BY <1>1, <1>2, <1>4, <2>1 DEF Put
  <2> QED
    BY <1>1, <1>4, <2>1, <2>2
<1>5. CASE at[1] \in 2 .. Len(text) + 1
  <2> DEFINE b == at[1] - 1
             k == at[2]
             c == text[b]
             m == Len(prog[b + 1])
  <2>1. /\ b \in 1 .. Len(text) /\ b \in Nat /\ b + 1 = at[1] /\ k \in 1 .. m
        /\ prog[b + 1] = putchar(c) /\ Stmt = putchar(c)[k] /\ c \in Chars
    BY <1>1, <1>5 DEF Chars
  <2>2. m = IF c = "nl" THEN 4 ELSE 2
    BY <2>1, PutcharStatements
  <2>3. at' = IF k < m THEN << b + 1, k + 1 >> ELSE << b + 2, 1 >>
    <3>1. at[1] = b + 1 /\ at[2] = k /\ m = Len(prog[at[1]]) /\ (b + 1) + 1 = b + 2
      BY <2>1
    <3> HIDE DEF b, k, m
    <3> QED
      BY <3>1 DEF Following
  <2>4. /\ Place(text, b) = Place(text, b - 1) + (IF c = "nl" THEN 2 ELSE 1)
        /\ Place(text, b - 1) \in Nat
        /\ Line(text)[Place(text, b)] = c
        /\ c = "nl" => Line(text)[Place(text, b) - 1] = "cr"
    <3>1. b - 1 \in 0 .. Len(text) /\ b - 1 \in 0 .. (b - 1)
      BY <1>1, <2>1
    <3> QED
      BY <1>1, <2>1, <3>1, PlaceStep, PlaceGrows, LineAt
  <2>5. Put = Place(text, b - 1) + ((k - 1) \div 2)
    <3>1. at[1] # 1 /\ ~(at[1] > Len(text) + 1) /\ at[1] - 2 = b - 1
      BY <1>1, <1>5
    <3> QED
      BY <3>1 DEF Put
  <2>6. Put' = IF k < m THEN Place(text, b - 1) + (k \div 2) ELSE Place(text, b)
    <3>1. CASE k < m
      <4>1. at'[1] = b + 1 /\ at'[2] = k + 1
        BY <2>3, <3>1
      <4>2. /\ b + 1 # 1 /\ ~(b + 1 > Len(text) + 1) /\ (b + 1) - 2 = b - 1
            /\ (k + 1) - 1 = k
        <5>1. k \in Nat
          BY <2>1, <2>2
        <5> HIDE DEF k, m
        <5> QED
          BY <1>1, <2>1, <5>1
      <4>3. Put' = Place(text, (b + 1) - 2) + (((k + 1) - 1) \div 2)
        <5> HIDE DEF b, k, m
        <5> QED
          BY <4>1, <4>2 DEF Put
      <4> HIDE DEF b, k, m
      <4> QED
        BY <3>1, <4>2, <4>3
    <3>2. CASE ~(k < m)
      <4>1. at'[1] = b + 2 /\ at'[2] = 1
        BY <2>3, <3>2
      <4>2. b + 2 # 1 /\ (b + 2) - 2 = b /\ (1 - 1) \div 2 = 0
        BY <2>1
      <4>3. CASE b = Len(text)
        <5> HIDE DEF b, k, m
        <5>1. b + 2 > Len(text) + 1
          BY <1>1, <4>3
        <5> QED
          BY <3>2, <4>1, <4>2, <4>3, <5>1 DEF Put
      <4>4. CASE b # Len(text)
        <5>1. ~(b + 2 > Len(text) + 1)
          BY <1>1, <2>1, <4>4
        <5>2. Put' = Place(text, (b + 2) - 2) + ((1 - 1) \div 2)
          <6> HIDE DEF b, k, m
          <6> QED
            BY <4>1, <4>2, <5>1 DEF Put
        <5>3. Place(text, b) \in Nat
          BY <2>4
        <5> HIDE DEF b, k, m
        <5> QED
          BY <3>2, <4>2, <5>2, <5>3
      <4> QED
        BY <4>3, <4>4
    <3> QED
      BY <3>1, <3>2
  <2>7. at'[1] \in 2 .. Len(text) + 1 /\ at'[2] \in {2, 4} => k < m /\ k \in {1, 3}
    BY <2>1, <2>2, <2>3
  <2>8. 0 \div 2 = 0 /\ 1 \div 2 = 0 /\ 2 \div 2 = 1 /\ 3 \div 2 = 1
    OBVIOUS
  <2>9. \A v : Csr("rxtx", v).op = "rxtx" /\ Csr("rxtx", v).v = v
    BY DEF Csr
  <2>10. PollTxFull.op = "txfull"
    BY DEF PollTxFull
  <2> HIDE DEF b, k, m, c
  <2>11. CASE c # "nl"
    <3>1. k = 1 \/ k = 2
      BY <2>1, <2>2, <2>11
    <3>2. CASE k = 1
      <4>1. Stmt.op = "txfull"
        BY <2>1, <2>10, <2>11, <3>2, PutcharStatements
      <4>2. Put = Place(text, b - 1) /\ Put' = Place(text, b - 1)
        BY <2>2, <2>4, <2>5, <2>6, <2>8, <2>11, <3>2
      <4> QED
        BY <4>1, <4>2
    <3>3. CASE k = 2
      <4>1. Stmt.op = "rxtx" /\ Stmt.v = c
        BY <2>1, <2>9, <2>11, <3>3, PutcharStatements
      <4>2. Put = Place(text, b - 1) /\ Put' = Place(text, b) /\ Place(text, b) = Place(text, b - 1) + 1
        BY <2>2, <2>4, <2>5, <2>6, <2>8, <2>11, <3>3
      <4> QED
        BY <1>5, <2>1, <2>4, <2>7, <3>3, <4>1, <4>2 DEF k
    <3> QED
      BY <3>1, <3>2, <3>3
  <2>12. CASE c = "nl"
    <3>1. k \in {1, 2, 3, 4}
      BY <2>1, <2>2, <2>12
    <3>2. CASE k \in {1, 3}
      <4>1. Stmt.op = "txfull"
        BY <2>1, <2>10, <2>12, <3>2, PutcharStatements
      <4>2. Put' = Put
        BY <2>2, <2>4, <2>5, <2>6, <2>8, <2>12, <3>2
      <4> QED
        BY <4>1, <4>2
    <3>3. CASE k = 2
      <4>1. Stmt.op = "rxtx" /\ Stmt.v = "cr"
        BY <2>1, <2>9, <2>12, <3>3, PutcharStatements
      <4>2. /\ Put = Place(text, b - 1) /\ Put' = Place(text, b - 1) + 1
            /\ Place(text, b) = Place(text, b - 1) + 2
        BY <2>2, <2>4, <2>5, <2>6, <2>8, <2>12, <3>3
      <4>3. Place(text, b) - 1 = Put + 1
        BY <2>4, <4>2
      <4>4. Line(text)[Put + 1] = Stmt.v /\ Stmt.v \in Chars
        <5>0. "cr" \in Chars
          BY DEF Chars
        <5>1. Line(text)[Place(text, b) - 1] = "cr"
          BY <2>4, <2>12
        <5>2. Line(text)[Put + 1] = Line(text)[Place(text, b) - 1]
          BY <4>3
        <5> QED
          BY <4>1, <5>0, <5>1, <5>2
      <4>5. at[2] = 2 /\ Put \in Nat /\ Put' = Put + 1
        BY <2>4, <3>3, <4>2 DEF k
      <4>6. ~(at'[1] \in 2 .. Len(text) + 1 /\ at'[2] \in {2, 4})
        BY <2>7, <3>3
      <4> QED
        BY <1>5, <4>1, <4>4, <4>5, <4>6
    <3>4. CASE k = 4
      <4>1. Stmt.op = "rxtx" /\ Stmt.v = c
        BY <2>1, <2>9, <2>12, <3>4, PutcharStatements
      <4>2. /\ Put = Place(text, b - 1) + 1 /\ Put' = Place(text, b)
            /\ Place(text, b) = Place(text, b - 1) + 2
        BY <2>2, <2>4, <2>5, <2>6, <2>8, <2>12, <3>4
      <4>3. Place(text, b) = Put + 1
        BY <2>4, <4>2
      <4> QED
        BY <1>5, <2>1, <2>4, <2>7, <3>4, <4>1, <4>2, <4>3 DEF k
    <3> QED
      BY <3>1, <3>2, <3>3, <3>4
  <2> QED
    BY <2>11, <2>12
<1> QED
  BY <1>1, <1>3, <1>4, <1>5
LEMMA TextInit == TpInit => TextInv
<1> SUFFICES ASSUME TpInit, text # << >> PROVE TextInv
  BY DEF TextInv
<1>1. Prints
  BY DEF TpInit, Prints
<1>2. /\ sent = << >> /\ tx_out = << >> /\ tx_fifo = << >> /\ at = << 1, 1 >>
      /\ FifoDepth \in Nat
  BY PeripheralsAssumption DEF TpInit, PeriphInit, PeripheralsAssumption
<1>3. << >> \in Seq(Chars) /\ Len(<< >>) = 0 /\ << >> \o << >> = << >>
  BY EmptySeq, ConcatEmptySeq
<1>4. UartOK /\ Out = << >>
  BY <1>2, <1>3 DEF UartOK, Out
<1>5. at[1] = 1 /\ Put = 0
  BY <1>2 DEF Put
<1>6. \A p \in 1 .. 0 : Out[p] = Line(text)[p]
  OBVIOUS
<1> QED
  BY <1>1, <1>3, <1>4, <1>5, <1>6 DEF TextInv

LEMMA TextStep ==
  ASSUME TextInv, TpTypeOK, TpNext
  PROVE  TextInv'
<1> SUFFICES ASSUME text' # << >> PROVE TextInv'
  BY DEF TextInv
<1>1. UNCHANGED << text, prog, project >>
  BY TextSteps
<1>2. /\ text # << >> /\ Prints /\ UartOK /\ Out \in Seq(Chars) /\ Len(Out) = Put
      /\ \A p \in 1 .. Put : Out[p] = Line(text)[p]
      /\ at[1] \in 2 .. Len(text) + 1 /\ at[2] \in {2, 4} => ~uart_txfull
  BY <1>1 DEF TextInv
<1>3. Prints' /\ Line(text)' = Line(text) /\ Len(text)' = Len(text)
  BY <1>1, <1>2 DEF Prints
<1>4. PICK w :
        /\ Uart(w)
        /\ \/ w.reg # "rxtx" /\ at' = at
           \/ /\ w.reg # "rxtx" /\ ~Ended /\ ~InIsr /\ at' = Following
              /\ Stmt.op # "rxtx" /\ (Stmt.op = "txfull" => ~uart_txfull)
           \/ /\ w.reg = "rxtx" /\ w.v = Stmt.v
              /\ ~Ended /\ ~InIsr /\ at' = Following /\ Stmt.op = "rxtx"
  BY TextSteps
<1>5. ASSUME w.reg # "rxtx", Put' = Put,
             at'[1] \in 2 .. Len(text) + 1 /\ at'[2] \in {2, 4} => ~uart_txfull
      PROVE  TextInv'
  <2>1. UartOK' /\ Out' = Out /\ Len(tx_fifo') <= Len(tx_fifo)
    BY <1>2, <1>4, <1>5, UartKeeps
  <2>2. ~uart_txfull => ~uart_txfull'
    <3>1. /\ Len(tx_fifo) \in Nat /\ Len(tx_fifo') \in Nat /\ FifoDepth \in Nat
          /\ Len(tx_fifo) <= FifoDepth
      BY <1>2, <2>1, PeripheralsAssumption DEF UartOK, PeripheralsAssumption
    <3> QED
      BY <2>1, <3>1 DEF uart_txfull
  <2>3. \A p \in 1 .. Put' : Out'[p] = Line(text)'[p]
    BY <1>2, <1>3, <1>5, <2>1
  <2>4. at'[1] \in 2 .. Len(text)' + 1 /\ at'[2] \in {2, 4} => ~uart_txfull'
    BY <1>3, <1>5, <2>2
  <2>5. Out' \in Seq(Chars) /\ Len(Out') = Put'
    BY <1>2, <1>5, <2>1
  <2> QED
    BY <1>3, <2>1, <2>3, <2>4, <2>5 DEF TextInv
<1>6. CASE w.reg # "rxtx" /\ at' = at
  <2>1. Put' = Put
    BY <1>1, <1>6 DEF Put
  <2> QED
    BY <1>2, <1>5, <1>6, <2>1
<1>7. CASE /\ w.reg # "rxtx" /\ ~Ended /\ ~InIsr /\ at' = Following
           /\ Stmt.op # "rxtx" /\ (Stmt.op = "txfull" => ~uart_txfull)
  <2>1. /\ Put' = Put
        /\ at'[1] \in 2 .. Len(text) + 1 /\ at'[2] \in {2, 4} => ~uart_txfull
    BY <1>1, <1>2, <1>7, PutMoves
  <2> QED
    BY <1>5, <1>7, <2>1
<1>8. CASE /\ w.reg = "rxtx" /\ w.v = Stmt.v
           /\ ~Ended /\ ~InIsr /\ at' = Following /\ Stmt.op = "rxtx"
  <2>1. /\ at[1] \in 2 .. Len(text) + 1 /\ at[2] \in {2, 4}
        /\ Put \in Nat /\ Put' = Put + 1
        /\ Line(text)[Put + 1] = w.v /\ w.v \in Chars
        /\ ~(at'[1] \in 2 .. Len(text) + 1 /\ at'[2] \in {2, 4})
    BY <1>1, <1>2, <1>8, PutMoves
  <2>2. ~uart_txfull
    BY <1>2, <2>1
  <2>3. /\ UartOK' /\ Len(Out') = Put + 1 /\ Out'[Put + 1] = w.v
        /\ \A p \in 1 .. Put : Out'[p] = Out[p]
    <3>1. /\ UartOK' /\ Len(Out') = Len(Out) + 1 /\ Out'[Len(Out) + 1] = w.v
          /\ \A p \in 1 .. Len(Out) : Out'[p] = Out[p]
      BY <1>2, <1>4, <1>8, <2>1, <2>2, UartTakes
    <3> QED
      BY <1>2, <3>1
  <2>4. Out' \in Seq(Chars)
    BY <2>3, ConcatProperties DEF UartOK, Out
  <2>5. ASSUME NEW p \in 1 .. Put + 1 PROVE Out'[p] = Line(text)[p]
    <3>1. p \in 1 .. Put \/ p = Put + 1
      BY <2>1, <2>5
    <3> QED
      BY <1>2, <2>1, <2>3, <3>1
  <2>6. \A p \in 1 .. Put' : Out'[p] = Line(text)'[p]
    BY <1>3, <2>1, <2>5
  <2>7. ~(at'[1] \in 2 .. Len(text)' + 1 /\ at'[2] \in {2, 4})
    BY <1>3, <2>1
  <2> QED
    BY <1>3, <2>1, <2>3, <2>4, <2>6, <2>7 DEF TextInv
<1> QED
  BY <1>4, <1>6, <1>7, <1>8

LEMMA TextInvariant == TpSpec => []TextInv
<1>1. TextInv /\ TpTypeOK /\ [TpNext]_allVars => TextInv'
  <2>1. ASSUME TextInv, UNCHANGED allVars PROVE TextInv'
    <3>1. UNCHANGED << text, prog, project, at, sent, tx_out, tx_fifo >>
      BY <2>1 DEF allVars, projectVars, periphVars, uartVars, testVars
    <3> QED
      BY <2>1, <3>1 DEF TextInv, Prints, UartOK, Out, Put, uart_txfull
  <2> QED
    BY <2>1, TextStep
<1> QED
  BY <1>1, TextInit, TypeInvariant, PTL DEF TpSpec

LEMMA LineIsASequence ==
  ASSUME NEW t \in Seq(STRING)
  PROVE  Line(t) \in Seq(Chars) /\ Len(Line(t)) = Place(t, Len(t)) /\ Len(Line(t)) \in Nat
<1>1. Len(t) \in 0 .. Len(t) /\ DOMAIN t = 1 .. Len(t)
  OBVIOUS
<1>2. Place(t, Len(t)) \in Nat
  BY <1>1, PlaceGrows
<1> DEFINE n == Place(t, Len(t))
           c(p) == IF \E i \in DOMAIN t : Place(t, i) = p
                   THEN t[CHOOSE i \in DOMAIN t : Place(t, i) = p] ELSE "cr"
<1>3. Line(t) = [p \in 1 .. n |-> c(p)]
  BY DEF Line
<1>4. ASSUME NEW p \in 1 .. n PROVE c(p) \in Chars
  <2>1. CASE \E i \in DOMAIN t : Place(t, i) = p
    <3>1. (CHOOSE i \in DOMAIN t : Place(t, i) = p) \in DOMAIN t
      BY <2>1
    <3> QED
      BY <1>1, <2>1, <3>1 DEF Chars
  <2>2. CASE ~ \E i \in DOMAIN t : Place(t, i) = p
    BY <2>2 DEF Chars
  <2> QED
    BY <2>1, <2>2
<1>5. n \in Nat
  BY <1>2
<1> HIDE DEF n, c
<1>6. Line(t) \in Seq(Chars) /\ Len(Line(t)) = n
  BY <1>3, <1>4, <1>5
<1> QED
  BY <1>5, <1>6 DEF n

LEMMA PutInLine ==
  ASSUME Prints, TpTypeOK, text # << >>
  PROVE  /\ Put \in 0 .. Place(text, Len(text))
         /\ Ended => Put = Place(text, Len(text))
<1>1. text \in Texts /\ text \in Seq(STRING)
  BY TestProgramsAssumption DEF Prints
<1>2. PICK n \in TimerValues : prog = TimerClient(text, n)
  BY DEF Prints
<1>3. /\ Len(text) \in Nat /\ Len(prog) = Len(text) + 2
      /\ \A b \in 1 .. Len(text) : prog[1 + b] = putchar(text[b])
  BY <1>1, <1>2, TimerBlocks
<1>4. /\ at[1] \in Nat \ {0} /\ at[2] \in Nat \ {0}
      /\ at[1] <= Len(prog) => at[2] <= Len(prog[at[1]])
  BY DEF TpTypeOK, AtOK
<1>5. Place(text, Len(text)) \in Nat
  BY <1>1, <1>3, LineIsASequence
<1>6. CASE at[1] = 1
  BY <1>3, <1>5, <1>6 DEF Put, Ended
<1>7. CASE at[1] > Len(text) + 1
  BY <1>3, <1>5, <1>7 DEF Put, Ended
<1>8. CASE at[1] \in 2 .. Len(text) + 1
  <2> DEFINE b == at[1] - 1
             k == at[2]
             c == text[b]
  <2>1. /\ b \in 1 .. Len(text) /\ 1 + b = at[1] /\ prog[1 + b] = putchar(c)
        /\ k \in Nat \ {0} /\ k <= Len(putchar(c))
    BY <1>3, <1>4, <1>8
  <2>2. k \in 1 .. (IF c = "nl" THEN 4 ELSE 2)
    <3>1. Len(putchar(c)) = IF c = "nl" THEN 4 ELSE 2
      BY PutcharStatements
    <3> HIDE DEF b, k, c
    <3>2. CASE c = "nl"
      BY <2>1, <3>1, <3>2
    <3>3. CASE c # "nl"
      BY <2>1, <3>1, <3>3
    <3> QED
      BY <3>2, <3>3
  <2>3. /\ Place(text, b) = Place(text, b - 1) + (IF c = "nl" THEN 2 ELSE 1)
        /\ Place(text, b - 1) \in Nat
        /\ Place(text, b) <= Place(text, Len(text))
    <3>1. /\ b - 1 \in 0 .. Len(text) /\ b - 1 \in 0 .. (b - 1)
          /\ b \in 0 .. Len(text) /\ Len(text) \in 0 .. Len(text) /\ Len(text) - b >= 0
      BY <1>3, <2>1
    <3>2. Place(text, b) \in Nat /\ Place(text, b) + (Len(text) - b) <= Place(text, Len(text))
      BY <1>1, <3>1, PlaceGrows
    <3>3. Place(text, b - 1) \in Nat
      BY <1>1, <3>1, PlaceGrows
    <3>4. Place(text, b) = Place(text, b - 1) + (IF c = "nl" THEN 2 ELSE 1)
      BY <1>1, <2>1, PlaceStep
    <3>5. Place(text, b) <= Place(text, Len(text))
      <4> HIDE DEF b
      <4> QED
        BY <1>3, <1>5, <2>1, <3>1, <3>2
    <3> QED
      BY <3>3, <3>4, <3>5
  <2>4. Put = Place(text, b - 1) + ((k - 1) \div 2)
    <3>1. at[1] # 1 /\ ~(at[1] > Len(text) + 1) /\ at[1] - 2 = b - 1
      BY <1>3, <1>8
    <3> QED
      BY <3>1 DEF Put
  <2>5. ~Ended
    BY <1>3, <1>8 DEF Ended
  <2> HIDE DEF b, k, c
  <2>6. (k - 1) \div 2 \in 0 .. (IF c = "nl" THEN 1 ELSE 0)
    <3>1. 0 \div 2 = 0 /\ 1 \div 2 = 0 /\ 2 \div 2 = 1 /\ 3 \div 2 = 1
      OBVIOUS
    <3>2. k \in {1, 2} \/ (c = "nl" /\ k \in {3, 4})
      BY <2>2
    <3>3. CASE k = 1
      BY <3>1, <3>3
    <3>4. CASE k = 2
      BY <3>1, <3>4
    <3>5. CASE c = "nl" /\ k = 3
      BY <3>1, <3>5
    <3>6. CASE c = "nl" /\ k = 4
      BY <3>1, <3>6
    <3> QED
      BY <3>2, <3>3, <3>4, <3>5, <3>6
  <2>7. Put \in 0 .. Place(text, b)
    BY <2>3, <2>4, <2>6
  <2> QED
    BY <1>5, <2>3, <2>5, <2>7
<1> QED
  BY <1>3, <1>4, <1>6, <1>7, <1>8

\* print of stub.c delivers the text: what has left on the line, what is being
\* sent and what waits in the FIFO are always the beginning of the text with a
\* CR before each LF, whatever the fill of the FIFO and wherever isr cuts in,
\* and the whole of it when the program has ended.
THEOREM TextArrives == TpSpec => []TextIntact
<1>1. TextInv /\ TpTypeOK => TextIntact
  <2> SUFFICES ASSUME TextInv, TpTypeOK, text # << >>
               PROVE  IsPrefix(Out, Line(text)) /\ (Ended => Out = Line(text))
    BY DEF TextIntact, Out
  <2>1. /\ Prints /\ Out \in Seq(Chars) /\ Len(Out) = Put
        /\ \A p \in 1 .. Put : Out[p] = Line(text)[p]
    BY DEF TextInv
  <2>2. text \in Seq(STRING)
    BY <2>1, TestProgramsAssumption DEF Prints
  <2>3. /\ Line(text) \in Seq(Chars) /\ Len(Line(text)) \in Nat
        /\ Put \in 0 .. Len(Line(text)) /\ (Ended => Put = Len(Line(text)))
    BY <2>1, <2>2, LineIsASequence, PutInLine
  <2> DEFINE r == Out
             l == Line(text)
             m == Len(Out)
  <2>4. /\ r \in Seq(Chars) /\ l \in Seq(Chars) /\ m = Len(r) /\ m \in Int /\ m >= 0
        /\ m <= Len(l) /\ \A p \in 1 .. m : r[p] \in Chars /\ l[p] \in Chars /\ r[p] = l[p]
    BY <2>1, <2>3
  <2>5. Ended => m = Len(l)
    BY <2>1, <2>3
  <2>6. IsPrefix(r, l) /\ (m = Len(l) => r = l)
    <3> HIDE DEF r, l, m
    <3>1. /\ SubSeq(r, 1, m) \in Seq(Chars) /\ Len(SubSeq(r, 1, m)) = m
          /\ \A p \in 1 .. m : SubSeq(r, 1, m)[p] = r[p]
      BY <2>4, SubSeqProperties
    <3>2. /\ SubSeq(l, 1, m) \in Seq(Chars) /\ Len(SubSeq(l, 1, m)) = m
          /\ \A p \in 1 .. m : SubSeq(l, 1, m)[p] = l[p]
      BY <2>4, SubSeqProperties
    <3>3. SubSeq(r, 1, m) = SubSeq(l, 1, m)
      BY <2>4, <3>1, <3>2, SeqEqual
    <3>4. m = Len(l) => r = l
      BY <2>4, SeqEqual
    <3> QED
      BY <2>4, <3>3, <3>4 DEF IsPrefix
  <2> QED
    BY <2>5, <2>6
<1> QED
  BY <1>1, TextInvariant, TypeInvariant, PTL

-----------------------------------------------------------------------------
(* timer0 *)

\* The statements that set timer0 up and what is left of them when it is on.
LEMMA TimerStatement ==
  ASSUME IsTimer, TpTypeOK, ~Ended, ~InIsr
  PROVE  /\ Len(prog[1]) = 7
         /\ at[1] = 1 =>
              /\ at[2] \in 1 .. 7
              /\ \E n \in TimerValues : at[2] \in {1, 2} => Stmt.v = n
              /\ at[2] \in {3, 4, 5} => Stmt.v = 1
              /\ Stmt.op = << "load", "reload", "ev_pending", "ev_enable", "en",
                              "irq_setmask", "irq_setie" >>[at[2]]
         /\ at[1] # 1 => Stmt.op \notin {"load", "reload", "ev_enable", "en"}
<1>1. PICK t \in Texts, n \in TimerValues : prog = TimerClient(t, n)
  BY DEF IsTimer
<1>2. /\ Len(t) \in Nat /\ Len(prog) = Len(t) + 2
      /\ prog[1] = << Csr("load", n), Csr("reload", n), Csr("ev_pending", 1),
                      Csr("ev_enable", 1), Csr("en", 1), IrqSetMask(1), IrqSetIe(1) >>
      /\ \A b \in 1 .. Len(t) : prog[1 + b] = putchar(t[b])
      /\ prog[Len(t) + 2] = << Csr("ev_pending", 1) >>
  BY <1>1, TimerBlocks
<1>3. /\ at[1] \in 1 .. Len(prog) /\ at[2] \in 1 .. Len(prog[at[1]])
      /\ Stmt = prog[at[1]][at[2]]
  BY NextStatement
<1>4. Len(prog[1]) = 7
  BY <1>2
<1>5. CASE at[1] = 1
  <2>1. at[2] \in 1 .. 7 /\ Stmt = prog[1][at[2]]
    BY <1>3, <1>4, <1>5
  <2>2. /\ at[2] \in {1, 2} => Stmt.v = n
        /\ at[2] \in {3, 4, 5} => Stmt.v = 1
        /\ Stmt.op = << "load", "reload", "ev_pending", "ev_enable", "en",
                        "irq_setmask", "irq_setie" >>[at[2]]
    BY <1>2, <2>1 DEF Csr, IrqSetMask, IrqSetIe
  <2> QED
    BY <1>4, <1>5, <2>1, <2>2
<1>6. CASE at[1] = Len(t) + 2
  <2>1. at[2] = 1 /\ Stmt = Csr("ev_pending", 1)
    BY <1>2, <1>3, <1>6
  <2> QED
    BY <1>2, <1>4, <1>6, <2>1 DEF Csr
<1>7. CASE at[1] # 1 /\ at[1] # Len(t) + 2
  <2>1. at[1] - 1 \in 1 .. Len(t) /\ 1 + (at[1] - 1) = at[1]
    BY <1>2, <1>3, <1>7
  <2>2. Stmt = putchar(t[at[1] - 1])[at[2]] /\ at[2] \in 1 .. Len(putchar(t[at[1] - 1]))
    BY <1>2, <1>3, <2>1
  <2>3. Stmt \in {PollTxFull, Csr("rxtx", "cr"), Csr("rxtx", t[at[1] - 1])}
    BY <2>2, PutcharStatements
  <2> QED
    BY <1>4, <1>7, <2>3 DEF PollTxFull, Csr
<1> QED
  BY <1>5, <1>6, <1>7

\* What a step does to timer0 and to the interrupt.
LEMMA TimerSteps ==
  ASSUME TpTypeOK, TpNext
  PROVE  /\ UNCHANGED << prog, project, tests >>
         /\ irq_next' = timer0_irq
         /\ isr_runs' = isr_runs \/ (irq_next /\ mie = 1)
         /\ \E w :
              /\ Timer0(w)
              /\ \/ w.reg \notin CsrRegs /\ at' = at
                 \/ /\ w.reg \notin CsrRegs /\ ~Ended /\ ~InIsr /\ at' = Following
                    /\ Stmt.op \notin CsrRegs
                 \/ /\ w.reg = Stmt.op /\ w.v = Stmt.v
                    /\ ~Ended /\ ~InIsr /\ at' = Following /\ Stmt.op \in CsrRegs
<1>1. UNCHANGED << prog, project, tests >>
  BY DEF TpNext, CoreAccess, CoreWaits, TakeIrq, UserClock, counterVars, gcdVars
<1>2. NoWrite.reg \notin CsrRegs
  BY DEF NoWrite, CsrRegs
<1>3. CASE CoreWaits \/ TakeIrq
  BY <1>1, <1>2, <1>3 DEF CoreWaits, TakeIrq, PeriphClock, irqVars
<1>4. CASE CoreAccess
  <2>1. ~Ended
    BY <1>4 DEF CoreAccess
  <2>2. InIsr => Stmt.op \notin CsrRegs
    BY <2>1, NextStatement, IsrStatements DEF IrqSetMask, LaData, SetFlag, Mret, CsrRegs
  <2>3. Advance => at' = at \/ (~InIsr /\ at' = Following)
    BY DEF Advance
  <2>4. CASE EndSlave
    <3>1. Timer0(NoWrite) /\ irq_next' = timer0_irq /\ isr_runs' = isr_runs /\ Advance
      BY <2>4 DEF EndSlave, PeriphClock, irqVars
    <3>2. IsCounterWb /\ at[1] = 1 /\ at[2] \in {3, 5}
      BY <2>4 DEF EndSlave, TpTypeOK, SlaveOK, NoWb
    <3>3. Stmt = CounterWb[at[2]]
      BY <3>2, IsrStatements DEF TpTypeOK, InIsr, IsCounterWb, Stmt
    <3>4. Stmt.op \notin CsrRegs
      BY <3>2, <3>3, CounterWbStatements DEF SlaveWrite, SlaveRead, CsrRegs
    <3> QED
      BY <1>1, <1>2, <2>1, <2>3, <3>1, <3>4
  <2>5. CASE WriteCsr
    <3>1. /\ Timer0([reg |-> Stmt.op, v |-> Stmt.v]) /\ irq_next' = timer0_irq
          /\ isr_runs' = isr_runs /\ Advance /\ Stmt.op \in CsrRegs
      BY <2>5 DEF WriteCsr, PeriphClock, irqVars
    <3>2. ~InIsr /\ at' = Following
      BY <2>2, <3>1 DEF Advance
    <3> DEFINE w == [reg |-> Stmt.op, v |-> Stmt.v]
    <3>3. w.reg = Stmt.op /\ w.v = Stmt.v /\ Timer0(w)
      BY <3>1
    <3> HIDE DEF w
    <3> QED
      BY <1>1, <2>1, <3>1, <3>2, <3>3
  <2>6. CASE WriteLa \/ WriteFlag \/ Poll \/ CoreOp \/ StartSlave
    <3>1. /\ Timer0(NoWrite) /\ irq_next' = timer0_irq /\ isr_runs' = isr_runs
          /\ Stmt.op \notin CsrRegs
          /\ at' = at \/ Advance
      BY <2>6 DEF WriteLa, WriteFlag, Poll, CoreOp, StartSlave, PeriphClock, Repeat, irqVars, CsrRegs
    <3> QED
      BY <1>1, <1>2, <2>1, <2>3, <3>1
  <2> QED
    BY <1>4, <2>4, <2>5, <2>6 DEF CoreAccess
<1> QED
  BY <1>3, <1>4 DEF TpNext

\* The write that turns timer0 on is done.
TimerOn == at[1] >= 2 \/ at[2] >= 6

\* Until timer0 has been on for load clocks no event is pending but the one it
\* has had since reset, which is on its way out when events are enabled, so
\* that the interrupt line is low.
AgeInv ==
  /\ ~IsTimer => isr_runs = 0
  /\ IsTimer =>
       /\ {load, reload, value, age} \subseteq Nat
       /\ {ev_enable, pending_re, zero_pending, zero_trigger_d} \subseteq BOOLEAN
       /\ en = IF TimerOn THEN 1 ELSE 0
       /\ ~TimerOn => /\ age = 0
                      /\ at[2] = 1 => load = 0 /\ value = 0
                      /\ at[2] = 2 => value \in {0, load}
                      /\ at[2] >= 2 /\ value = 0 => zero_trigger_d
                      /\ at[2] >= 3 => value = load
                      /\ at[2] <= 4 => ~ev_enable
                      /\ at[2] = 4 => pending_re \/ ~zero_pending
                      /\ at[2] = 5 => ~zero_pending
       /\ age <= load => /\ TimerOn => age + value = load /\ ~zero_pending
                         /\ ~irq_next /\ isr_runs = 0

LEMMA AgeInit == TpInit => AgeInv
<1> SUFFICES ASSUME TpInit PROVE AgeInv
  OBVIOUS
<1>1. at[1] = 1 /\ at[2] = 1 /\ isr_runs = 0
  BY DEF TpInit
<1>2. /\ load = 0 /\ reload = 0 /\ value = 0 /\ age = 0 /\ en = 0
      /\ ~ev_enable /\ ~zero_pending /\ ~irq_next
  BY DEF TpInit, PeriphInit
<1>3. {ev_enable, pending_re, zero_pending, zero_trigger_d} \subseteq BOOLEAN
  BY DEF TpInit, PeriphInit
<1>4. ~TimerOn
  BY <1>1 DEF TimerOn
<1> QED
  BY <1>1, <1>2, <1>3, <1>4 DEF AgeInv

LEMMA AgeStep ==
  ASSUME AgeInv, TpTypeOK, IrqInv, TpNext
  PROVE  AgeInv'
<1>1. /\ UNCHANGED << prog, project, tests >>
      /\ irq_next' = timer0_irq
      /\ isr_runs' = isr_runs \/ (irq_next /\ mie = 1)
  BY TimerSteps
<1>2. IsTimer' = IsTimer
  BY <1>1, ChipConstant
<1>3. CASE ~IsTimer
  <2>1. mie = 0
    BY <1>3 DEF TpTypeOK, Chip
  <2> QED
    BY <1>1, <1>2, <1>3, <2>1 DEF AgeInv
<1>4. CASE IsTimer
  <2>1. PICK w :
          /\ Timer0(w)
          /\ \/ w.reg \notin CsrRegs /\ at' = at
             \/ /\ w.reg \notin CsrRegs /\ ~Ended /\ ~InIsr /\ at' = Following
                /\ Stmt.op \notin CsrRegs
             \/ /\ w.reg = Stmt.op /\ w.v = Stmt.v
                /\ ~Ended /\ ~InIsr /\ at' = Following /\ Stmt.op \in CsrRegs
    BY TimerSteps
  <2>2. at[1] \in Nat \ {0} /\ at[2] \in Nat \ {0}
    BY DEF TpTypeOK, AtOK
  <2>3. /\ {load, reload, value, age} \subseteq Nat
        /\ {ev_enable, pending_re, zero_pending, zero_trigger_d} \subseteq BOOLEAN
        /\ en = IF TimerOn THEN 1 ELSE 0
        /\ ~TimerOn => /\ age = 0
                       /\ at[2] = 1 => load = 0 /\ value = 0
                       /\ at[2] = 2 => value \in {0, load}
                       /\ at[2] >= 2 /\ value = 0 => zero_trigger_d
                       /\ at[2] >= 3 => value = load
                       /\ at[2] <= 4 => ~ev_enable
                       /\ at[2] = 4 => pending_re \/ ~zero_pending
                       /\ at[2] = 5 => ~zero_pending
        /\ age <= load => /\ TimerOn => age + value = load /\ ~zero_pending
                          /\ ~irq_next /\ isr_runs = 0
    BY <1>4 DEF AgeInv
  <2>4. /\ load'   = IF w.reg = "load" THEN w.v ELSE load
        /\ reload' = IF w.reg = "reload" THEN w.v ELSE reload
        /\ en'     = IF w.reg = "en" THEN w.v ELSE en
        /\ value'  = IF en = 0 THEN load ELSE IF value = 0 THEN reload ELSE value - 1
        /\ zero_trigger_d' = (value = 0)
        /\ pending_re' = (w.reg = "ev_pending" /\ w.v = 1)
        /\ ev_enable'  = IF w.reg = "ev_enable" THEN w.v = 1 ELSE ev_enable
        /\ zero_pending' = ((value = 0 /\ ~zero_trigger_d) \/ (zero_pending /\ ~pending_re))
        /\ age' = IF en = 0 THEN 0 ELSE IF age <= load THEN age + 1 ELSE age
    BY <2>1 DEF Timer0, ZeroPending, zero_edge, zero_trigger
  <2>5. irq_next' = (zero_pending /\ ev_enable)
    BY <1>1 DEF timer0_irq
  <2>6. /\ {value, age}' \subseteq Nat
        /\ {ev_enable, pending_re, zero_pending, zero_trigger_d}' \subseteq BOOLEAN
    <3>1. value' \in Nat /\ age' \in Nat
      BY <2>3, <2>4
    <3>2. /\ ev_enable' \in BOOLEAN /\ pending_re' \in BOOLEAN
          /\ zero_pending' \in BOOLEAN /\ zero_trigger_d' \in BOOLEAN
      BY <2>3, <2>4, Zenon
    <3> QED
      BY <3>1, <3>2
  \* The timer is on and keeps on, its registers as they are.
  <2>7. ASSUME TimerOn, TimerOn', w.reg \notin {"load", "reload", "en", "ev_enable"}
        PROVE  AgeInv'
    <3>1. UNCHANGED << load, reload, en, ev_enable >> /\ en = 1
      BY <2>3, <2>4, <2>7
    <3>2. CASE age <= load
      <4>1. age' = age + 1 /\ value \in Nat /\ age \in Nat /\ load \in Nat /\ age + value = load
            /\ ~zero_pending /\ ~irq_next /\ isr_runs = 0
        BY <2>3, <2>4, <2>7, <3>1, <3>2
      <4>2. isr_runs' = 0 /\ ~irq_next'
        BY <1>1, <2>5, <4>1
      <4>3. age' <= load' => value # 0
        BY <3>1, <4>1
      <4>4. value # 0 => value' = value - 1 /\ ~zero_pending'
        <5>1. value # 0 => value' = value - 1
          BY <2>4, <3>1
        <5>2. value # 0 => ~zero_pending'
          BY <2>4, <4>1, Zenon
        <5> QED
          BY <5>1, <5>2
      <4>5. age' <= load' => age' + value' = load' /\ ~zero_pending'
        BY <3>1, <4>1, <4>3, <4>4
      <4> QED
        BY <1>2, <1>4, <2>3, <2>6, <2>7, <3>1, <4>2, <4>5 DEF AgeInv
    <3>3. CASE ~(age <= load)
      <4>1. age' = age /\ ~(age' <= load')
        BY <2>4, <3>1, <3>3
      <4> QED
        BY <1>2, <1>4, <2>3, <2>6, <2>7, <3>1, <4>1 DEF AgeInv
    <3> QED
      BY <3>2, <3>3
  <2>8. value = 0 => zero_trigger_d'
    BY <2>4, Zenon
  \* The timer is off.
  <2>9. ASSUME ~TimerOn
        PROVE  /\ at[1] = 1 /\ at[2] \in 1 .. 5 /\ en = 0
               /\ age = 0 /\ age <= load /\ ~irq_next /\ isr_runs = 0
               /\ age' = 0 /\ isr_runs' = 0 /\ value' = load /\ ~irq_next'
               /\ at[2] >= 2 => ~(value = 0 /\ ~zero_trigger_d)
    <3>1. at[1] = 1 /\ at[2] \in 1 .. 5 /\ en = 0
      BY <2>2, <2>3, <2>9 DEF TimerOn
    <3>2. age = 0 /\ age <= load
      BY <2>3, <2>9
    <3>3. ~irq_next /\ isr_runs = 0
      BY <2>3, <3>2
    <3>4. age' = 0 /\ value' = load /\ isr_runs' = 0
      BY <1>1, <2>4, <3>1, <3>3
    <3>5. ~irq_next'
      BY <2>3, <2>5, <2>9, <3>1
    <3> QED
      BY <2>3, <2>9, <3>1, <3>2, <3>3, <3>4, <3>5
  <2>10. CASE ~TimerOn /\ w.reg \notin CsrRegs /\ at' = at
    <3>1. UNCHANGED << load, reload, en, ev_enable >> /\ ~TimerOn' /\ at'[2] = at[2]
      BY <2>4, <2>10 DEF CsrRegs, TimerOn
    <3>2. at[2] >= 2 => (value' = 0 => zero_trigger_d')
      <4>1. CASE at[2] >= 3
        BY <2>3, <2>9, <2>10, <2>8, <4>1
      <4>2. CASE at[2] = 2
        BY <2>3, <2>9, <2>10, <2>8, <4>2
      <4> QED
        BY <2>9, <2>10, <4>1, <4>2
    <3>3. at[2] \in {4, 5} => ~zero_pending'
      BY <2>3, <2>4, <2>9, <2>10
    <3> QED
      BY <1>2, <1>4, <2>3, <2>6, <2>9, <2>10, <3>1, <3>2, <3>3 DEF AgeInv
  <2>11. CASE TimerOn /\ w.reg \notin CsrRegs /\ at' = at
    BY <2>7, <2>11 DEF CsrRegs, TimerOn
  <2>12. ASSUME ~Ended, ~InIsr, at' = Following
         PROVE  /\ at[1] = 1 /\ at[2] < 7 => at'[1] = 1 /\ at'[2] = at[2] + 1
                /\ TimerOn => TimerOn'
    <3>1. at[1] = 1 => /\ at[2] < 7 => at' = << 1, at[2] + 1 >>
                       /\ ~(at[2] < 7) => at' = << 2, 1 >>
      BY <1>4, <2>12, TimerStatement, FollowingInBlock
    <3>2. at[1] # 1 => at'[1] >= 2
      BY <2>2, <2>12 DEF Following
    <3> QED
      BY <2>2, <3>1, <3>2 DEF TimerOn
  <2>13. CASE /\ w.reg \notin CsrRegs /\ ~Ended /\ ~InIsr /\ at' = Following
              /\ Stmt.op \notin CsrRegs
    <3>1. TimerOn
      <4>1. ~TimerOn => Stmt.op \in CsrRegs
        BY <1>4, <2>9, <2>13, TimerStatement DEF CsrRegs
      <4> QED
        BY <2>13, <4>1
    <3> QED
      BY <2>7, <2>12, <2>13, <3>1 DEF CsrRegs
  <2>14. CASE /\ w.reg = Stmt.op /\ w.v = Stmt.v
              /\ ~Ended /\ ~InIsr /\ at' = Following /\ Stmt.op \in CsrRegs
    <3>1. CASE TimerOn
      <4>1. Stmt.op \notin {"load", "reload", "en", "ev_enable"}
        <5>1. CASE at[1] = 1
          <6>1. at[2] \in {6, 7}
            BY <1>4, <2>14, <3>1, <5>1, TimerStatement DEF TimerOn
          <6> QED
            BY <1>4, <2>14, <5>1, <6>1, TimerStatement
        <5>2. CASE at[1] # 1
          BY <1>4, <2>14, <5>2, TimerStatement
        <5> QED
          BY <5>1, <5>2
      <4> QED
        BY <2>7, <2>12, <2>14, <3>1, <4>1
    <3>2. CASE ~TimerOn
      <4>1. /\ at[1] = 1 /\ at[2] \in 1 .. 5 /\ at'[1] = 1 /\ at'[2] = at[2] + 1
            /\ at[2] \in {1, 2} => w.v \in Nat
            /\ at[2] \in {3, 4, 5} => w.v = 1
            /\ w.reg = << "load", "reload", "ev_pending", "ev_enable", "en",
                          "irq_setmask", "irq_setie" >>[at[2]]
        BY <1>4, <2>9, <2>12, <2>14, <3>2, TimerStatement, PeripheralsAssumption
           DEF PeripheralsAssumption
      <4>2. TimerOn' <=> at[2] = 5
        BY <4>1 DEF TimerOn
      <4>3. CASE at[2] = 1
        <5>1. /\ w.reg = "load" /\ load' \in Nat /\ UNCHANGED << reload, en, ev_enable >>
              /\ at'[2] = 2 /\ ~TimerOn'
          BY <2>4, <4>1, <4>2, <4>3
        <5>2. value' = 0 => zero_trigger_d'
          BY <2>3, <2>9, <2>8, <3>2, <4>3
        <5> QED
          BY <1>2, <1>4, <2>3, <2>6, <2>9, <3>2, <4>3, <5>1, <5>2 DEF AgeInv
      <4>4. CASE at[2] = 2
        <5>1. /\ w.reg = "reload" /\ reload' \in Nat /\ UNCHANGED << load, en, ev_enable >>
              /\ at'[2] = 3 /\ ~TimerOn'
          BY <2>4, <4>1, <4>2, <4>4
        <5>2. value' = 0 => zero_trigger_d'
          BY <2>3, <2>9, <2>8, <3>2, <4>4
        <5> QED
          BY <1>2, <1>4, <2>3, <2>6, <2>9, <3>2, <4>4, <5>1, <5>2 DEF AgeInv
      <4>5. CASE at[2] = 3
        <5>1. /\ w.reg = "ev_pending" /\ w.v = 1 /\ UNCHANGED << load, reload, en, ev_enable >>
              /\ at'[2] = 4 /\ ~TimerOn'
          BY <2>4, <4>1, <4>2, <4>5
        <5>2. value' = 0 => zero_trigger_d'
          BY <2>3, <2>9, <2>8, <3>2, <4>5
        <5>3. pending_re'
          BY <2>4, <5>1, Zenon
        <5> QED
          BY <1>2, <1>4, <2>3, <2>6, <2>9, <3>2, <4>5, <5>1, <5>2, <5>3 DEF AgeInv
      <4>6. CASE at[2] = 4
        <5>1. /\ w.reg = "ev_enable" /\ UNCHANGED << load, reload, en >>
              /\ at'[2] = 5 /\ ~TimerOn'
          BY <2>4, <4>1, <4>2, <4>6
        <5>2. value' = 0 => zero_trigger_d'
          BY <2>3, <2>9, <2>8, <3>2, <4>6
        <5>3. ~zero_pending'
          BY <2>3, <2>4, <2>9, <3>2, <4>6
        <5> QED
          BY <1>2, <1>4, <2>3, <2>6, <2>9, <3>2, <4>6, <5>1, <5>2, <5>3 DEF AgeInv
      <4>7. CASE at[2] = 5
        <5>1. /\ w.reg = "en" /\ en' = 1 /\ UNCHANGED << load, reload, ev_enable >> /\ TimerOn'
          BY <2>4, <4>1, <4>2, <4>7
        <5>2. ~zero_pending'
          BY <2>3, <2>4, <2>9, <3>2, <4>7
        <5>3. age' + value' = load'
          BY <2>3, <2>9, <3>2, <5>1
        <5> QED
          BY <1>2, <1>4, <2>3, <2>6, <2>9, <3>2, <5>1, <5>2, <5>3 DEF AgeInv
      <4> QED
        BY <4>1, <4>3, <4>4, <4>5, <4>6, <4>7
    <3> QED
      BY <3>1, <3>2
  <2> QED
    BY <2>1, <2>10, <2>11, <2>13, <2>14
<1> QED
  BY <1>3, <1>4

\* The interrupt of timer0 is for the time the program asked for (isr.c with the
\* timer macros of defs.h): for every text, every load value and every pace of
\* the core it comes no sooner than the timer has run for, and never for the
\* event that reset leaves pending (mgmt_core.v).
THEOREM InterruptIsForTimer == TpSpec => []IsrNotEarly
<1>1. AgeInv /\ TpTypeOK /\ IrqInv /\ [TpNext]_allVars => AgeInv'
  <2>1. ASSUME AgeInv, UNCHANGED allVars PROVE AgeInv'
    <3>1. UNCHANGED << prog, project, tests, at, isr_runs, periphVars, timerVars >>
      BY <2>1 DEF allVars, projectVars, periphVars, testVars, irqVars
    <3>2. IsTimer' = IsTimer
      BY <3>1, ChipConstant
    <3> QED
      BY <2>1, <3>1, <3>2 DEF AgeInv, TimerOn, periphVars, timerVars
  <2> QED
    BY <2>1, AgeStep
<1>2. AgeInv => IsrNotEarly
  <2>1. CASE IsTimer /\ AgeInv
    <3>1. age \in Nat /\ load \in Nat /\ (age <= load => isr_runs = 0)
      BY <2>1 DEF AgeInv
    <3> QED
      BY <3>1 DEF IsrNotEarly
  <2> QED
    BY <2>1 DEF AgeInv, IsrNotEarly
<1> QED
  BY <1>1, <1>2, AgeInit, TypeInvariant, PTL DEF TpSpec
=============================================================================
