---------------------------- MODULE SimpleSystem ----------------------------
(***************************************************************************)
(* firmware/simple_system_common.c, the run-time of the Ibex core: the     *)
(* 64-bit timer read and set through 32-bit words, the timer interrupt     *)
(* handler that counts elapsed periods, the performance counters, and the  *)
(* exception report.                                                       *)
(*                                                                         *)
(* One step is one access to a device, a CSR or a 32-bit word of memory by *)
(* the thread that runs, or one tick of the clock.  The main program calls *)
(* the functions in any order; the timer interrupt and an exception may    *)
(* strike between any two of its accesses.  The timer compares mtime with  *)
(* mtimecmp and holds its interrupt line while mtime >= mtimecmp; it and   *)
(* the core's trap entry are external, as the code uses them.              *)
(*                                                                         *)
(* Words have W values instead of 2^32, so a double word has W * W.  The   *)
(* ghosts: since, mtime when the call under way began; old, the compare    *)
(* value an update replaces (-1 once the handler has come in between);     *)
(* wrapped, the low word of time_elapsed overflowed during the call;       *)
(* clean, the timer was off when timer_enable was last called, at start.   *)
(***************************************************************************)
EXTENDS Integers, Sequences

CONSTANTS
  W,          \* values of one word
  Bases,      \* time_base arguments of timer_enable
  Deadlines,  \* new_time arguments of timecmp_update
  MaxTime,    \* bound: the clock stops here
  Counters,   \* number of performance counters, 31 in the code
  Programs,   \* programs, each the set of the functions it calls
  Faults,     \* exceptions that may strike: mepc, mcause, mtval
  HexDigits   \* digits puthex prints, 8 in the code

\* 16^n, the values of n hexadecimal digits.
Pow16[n \in Nat] == IF n = 0 THEN 1 ELSE 16 * Pow16[n - 1]

ASSUME SimpleSystemAssumption ==
  /\ W \in Nat \ {0, 1} /\ MaxTime \in Nat /\ Counters \in Nat \ {0}
  /\ Bases \subseteq Nat \ {0}
  /\ \A b \in Bases : MaxTime + b < W * W
  /\ Deadlines \subseteq 0 .. W * W - 1
  /\ Programs \subseteq SUBSET {"timer_enable", "timer_disable", "timer_read",
                                "timecmp_update", "get_elapsed_time", "pcount_reset",
                                "pcount_enable", "puts", "fault"}
  /\ HexDigits \in Nat \ {0}
  /\ LET Register == 0 .. Pow16[HexDigits] - 1
     IN Faults \subseteq [mepc : Register, mcause : Register, mtval : Register]

VARIABLES
  program,                    \* the program that runs
  mtime, cmph, cmpl,          \* the timer
  mie, mstatus,               \* timer interrupt enable, global enable
  elapsed, increment,         \* time_elapsed as << low, high >>, time_increment
  thr,                        \* the threads: the main program and the handler
  counter, inhibit,           \* performance counters << low, high >>, mcountinhibit
  exc, fault, log, halted,    \* the exception handler, the simulator log
  since, old, wrapped, clean, start  \* ghosts

timerVars == << cmph, cmpl >>
coreVars  == << mie, mstatus >>
dataVars  == << elapsed, increment >>
pcVars    == << counter, inhibit >>
excVars   == << exc, fault, log, halted >>
ghosts    == << since, old, wrapped, clean, start >>
vars == << program, mtime, timerVars, coreVars, dataVars, thr, pcVars, excVars, ghosts >>

Word   == 0 .. W - 1
cmp    == W * cmph + cmpl
Value(d) == d[1] + W * d[2]

\* pc: where the thread is, in which function; hi, lo: words read so far; new:
\* a compare value to be written, or a time_base on the way to it.
Threads == {"main", "irq"}
Idle    == [pc |-> "idle", fn |-> "none", hi |-> 0, lo |-> 0, new |-> 0]
Enter(function, l, n) == [Idle EXCEPT !.pc = l, !.fn = function, !.new = n]

NoFault == [mepc |-> 0, mcause |-> 0, mtval |-> 0]

Init ==
  /\ program \in Programs
  /\ mtime = 0 /\ cmph = 0 /\ cmpl = 0
  /\ mie = 0 /\ mstatus = 0
  /\ elapsed = << 0, 0 >> /\ increment = 0
  /\ thr = [x \in Threads |-> Idle]
  /\ counter = [c \in 1 .. Counters |-> << 0, 0 >>] /\ inhibit = 0
  /\ exc = 0 /\ fault = NoFault /\ log = << >> /\ halted = 0
  /\ since = [x \in Threads |-> 0] /\ old = [x \in Threads |-> -1]
  /\ wrapped = FALSE /\ clean = FALSE /\ start = 0

\* The thread that runs: the handler once entered, nobody after an exception.
Runs(x) == exc = 0 /\ (x = "main" => thr["irq"].pc = "idle")

At(x, l) == Runs(x) /\ thr[x].pc = l
Go(x, l) == thr' = [thr EXCEPT ![x].pc = l]

-----------------------------------------------------------------------------
(* The hardware. *)

Carry(d) == IF d[1] < W - 1 THEN << d[1] + 1, d[2] >> ELSE << 0, (d[2] + 1) % W >>

\* The clock; each performance counter that is not inhibited may count (they
\* are followed only in programs that use them).
Tick ==
  /\ mtime < MaxTime
  /\ mtime' = mtime + 1
  /\ \E C \in SUBSET (1 .. Counters) :
       /\ inhibit = 1 \/ "pcount_reset" \notin program => C = {}
       /\ counter' = [c \in 1 .. Counters |-> IF c \in C THEN Carry(counter[c])
                                                         ELSE counter[c]]
  /\ UNCHANGED << timerVars, coreVars, dataVars, thr, inhibit, excVars, ghosts >>

mtip == mtime >= cmp

\* Trap entry clears MIE; the handler starts with increment_timecmp.
TakeInterrupt ==
  /\ exc = 0 /\ thr["irq"].pc = "idle"
  /\ mtip /\ mie = 1 /\ mstatus = 1
  /\ mstatus' = 0
  /\ thr' = [thr EXCEPT !["irq"] = Enter("handler", "read_hi", increment)]
  /\ since' = [since EXCEPT !["irq"] = mtime]
  /\ old' = [old EXCEPT !["main"] = -1]
  /\ UNCHANGED << mtime, timerVars, mie, dataVars, pcVars, excVars, wrapped, clean, start >>

-----------------------------------------------------------------------------
(* timer_read and timecmp_update, called by either thread. *)

ReadHi(x) ==
  /\ At(x, "read_hi")
  /\ thr' = [thr EXCEPT ![x].pc = "read_lo", ![x].hi = mtime \div W]
  /\ UNCHANGED << mtime, timerVars, coreVars, dataVars, pcVars, excVars, ghosts >>

ReadLo(x) ==
  /\ At(x, "read_lo")
  /\ thr' = [thr EXCEPT ![x].pc = "read_again", ![x].lo = mtime % W]
  /\ UNCHANGED << mtime, timerVars, coreVars, dataVars, pcVars, excVars, ghosts >>

ReadTo(x, l) ==
  /\ At(x, "read_again")
  /\ Go(x, l)
  /\ UNCHANGED << mtime, timerVars, coreVars, dataVars, pcVars, excVars, ghosts >>

\* Mutant: the high word is not read again.
BugReadAgain(x) == ReadTo(x, "read_done")

ReadAgain(x) == ReadTo(x, IF mtime \div W # thr[x].hi THEN "read_hi" ELSE "read_done")

TimeRead(x) == W * thr[x].hi + thr[x].lo

ReadReturns(x, new) ==
  /\ At(x, "read_done")
  /\ thr' = [thr EXCEPT ![x] =
       IF @.fn = "timer_read" THEN [@ EXCEPT !.pc = "done"]
       ELSE [@ EXCEPT !.pc = "cmp_off", !.new = new]]
  /\ UNCHANGED << mtime, timerVars, coreVars, dataVars, pcVars, excVars, ghosts >>

\* Mutant: the period is not added.
BugReadDone(x) == ReadReturns(x, TimeRead(x))

\* timer_read returns: to the program, or to increment_timecmp, which adds.
ReadDone(x) == ReadReturns(x, (TimeRead(x) + thr[x].new) % (W * W))

\* A store to MTIMECMP or MTIMECMPH.
SetCmp(x, from, hi, lo, l) ==
  /\ At(x, from)
  /\ cmph' = hi /\ cmpl' = lo
  /\ Go(x, l)
  /\ old' = IF from = "cmp_off" THEN [old EXCEPT ![x] = cmp] ELSE old
  /\ UNCHANGED << mtime, coreVars, dataVars, pcVars, excVars, since, wrapped, clean, start >>

\* Mutant: the low word is not raised first.
BugCmpOff(x) == SetCmp(x, "cmp_off", cmph, cmpl, "cmp_hi")

CmpOff(x) == SetCmp(x, "cmp_off", cmph, W - 1, "cmp_hi")
CmpHi(x)  == SetCmp(x, "cmp_hi", thr[x].new \div W, cmpl, "cmp_lo")
CmpLo(x)  == SetCmp(x, "cmp_lo", cmph, thr[x].new % W,
                    CASE thr[x].fn = "timer_enable" -> "set_mie"
                      [] thr[x].fn = "handler"      -> "count"
                      [] OTHER                      -> "done")

(* The rest of simple_timer_handler. *)

CountTo(e) ==
  /\ At("irq", "count")
  /\ elapsed' = e
  /\ wrapped' = (wrapped \/ (elapsed[1] = W - 1 /\ thr["main"].pc # "idle"))
  /\ Go("irq", "mret")
  /\ UNCHANGED << mtime, timerVars, coreVars, increment, pcVars, excVars, since, old, clean, start >>

\* time_elapsed++.
Count == CountTo(Carry(elapsed))

Mret ==
  /\ At("irq", "mret")
  /\ mstatus' = 1
  /\ thr' = [thr EXCEPT !["irq"] = Idle]
  /\ since' = [since EXCEPT !["irq"] = 0] /\ old' = [old EXCEPT !["irq"] = -1]
  /\ UNCHANGED << mtime, timerVars, mie, dataVars, pcVars, excVars, wrapped, clean, start >>

-----------------------------------------------------------------------------
(* The program: one call at a time, in any order. *)

Call(function) == function \in program /\ At("main", "idle")
Begin(function, l, n) == thr' = [thr EXCEPT !["main"] = Enter(function, l, n)]

\* The call under way returns; the ghosts forget it.
Return ==
  /\ At("main", "done")
  /\ thr' = [thr EXCEPT !["main"] = Idle]
  /\ since' = [since EXCEPT !["main"] = 0] /\ old' = [old EXCEPT !["main"] = -1]
  /\ wrapped' = FALSE
  /\ UNCHANGED << mtime, timerVars, coreVars, dataVars, pcVars, excVars, clean, start >>

timer_read ==
  /\ Call("timer_read")
  /\ Begin("timer_read", "read_hi", 0)
  /\ since' = [since EXCEPT !["main"] = mtime]
  /\ UNCHANGED << mtime, timerVars, coreVars, dataVars, pcVars, excVars, old, wrapped,
                  clean, start >>

timecmp_update(new_time) ==
  /\ Call("timecmp_update")
  /\ Begin("timecmp_update", "cmp_off", new_time)
  /\ clean' = FALSE
  /\ UNCHANGED << mtime, timerVars, coreVars, dataVars, pcVars, excVars, since, old, wrapped,
                  start >>

\* timer_enable clears the two words of time_elapsed, sets the increment and
\* the compare value, and only then enables the interrupt.
timer_enable(time_base) ==
  /\ Call("timer_enable")
  /\ Begin("timer_enable", "clear_hi", time_base)
  /\ elapsed' = [elapsed EXCEPT ![1] = 0]
  /\ clean' = (mie = 0) /\ start' = mtime
  /\ since' = [since EXCEPT !["main"] = mtime]
  /\ UNCHANGED << mtime, timerVars, coreVars, increment, pcVars, excVars, old, wrapped >>

ClearHi ==
  /\ At("main", "clear_hi")
  /\ elapsed' = [elapsed EXCEPT ![2] = 0]
  /\ Go("main", "set_increment")
  /\ UNCHANGED << mtime, timerVars, coreVars, increment, pcVars, excVars, ghosts >>

\* time_increment = time_base: periods fit one word, the other stays zero.
SetIncrement ==
  /\ At("main", "set_increment")
  /\ increment' = thr["main"].new
  /\ Go("main", "read_hi")
  /\ UNCHANGED << mtime, timerVars, coreVars, elapsed, pcVars, excVars, ghosts >>

\* csrs mie, csrs mstatus.
SetMie ==
  /\ At("main", "set_mie")
  /\ mie' = 1
  /\ Go("main", "set_mstatus")
  /\ UNCHANGED << mtime, timerVars, mstatus, dataVars, pcVars, excVars, ghosts >>

SetMstatus ==
  /\ At("main", "set_mstatus")
  /\ mstatus' = 1
  /\ Go("main", "done")
  /\ UNCHANGED << mtime, timerVars, mie, dataVars, pcVars, excVars, ghosts >>

timer_disable ==
  /\ Call("timer_disable")
  /\ mie' = 0
  /\ UNCHANGED << mtime, timerVars, mstatus, dataVars, thr, pcVars, excVars, ghosts >>

\* get_elapsed_time: two loads, in the order the compiler chose; hi and lo
\* hold what was loaded.  since is the count when the call began.
get_elapsed_time ==
  /\ Call("get_elapsed_time")
  /\ \E first \in {"load_hi", "load_lo"} : Begin(first, "load", 0)
  /\ since' = [since EXCEPT !["main"] = Value(elapsed)]
  /\ wrapped' = FALSE
  /\ UNCHANGED << mtime, timerVars, coreVars, dataVars, pcVars, excVars, old, clean, start >>

LoadFirst ==
  /\ At("main", "load")
  /\ thr' = [thr EXCEPT !["main"] = IF @.fn = "load_hi"
               THEN [@ EXCEPT !.pc = "load_2", !.hi = elapsed[2]]
               ELSE [@ EXCEPT !.pc = "load_2", !.lo = elapsed[1]]]
  /\ UNCHANGED << mtime, timerVars, coreVars, dataVars, pcVars, excVars, ghosts >>

LoadOther(lo, hi) ==
  /\ At("main", "load_2")
  /\ thr' = [thr EXCEPT !["main"] = IF @.fn = "load_hi"
               THEN [@ EXCEPT !.pc = "done", !.lo = lo]
               ELSE [@ EXCEPT !.pc = "done", !.hi = hi]]
  /\ UNCHANGED << mtime, timerVars, coreVars, dataVars, pcVars, excVars, ghosts >>

\* Mutant: the same word is loaded twice.
BugLoadSecond == LoadOther(elapsed[2], elapsed[1])

LoadSecond == LoadOther(elapsed[1], elapsed[2])

-----------------------------------------------------------------------------
(* The performance counters. *)

\* pcount_reset writes one CSR after the other; new counts them.
pcount_reset ==
  /\ Call("pcount_reset")
  /\ Begin("pcount_reset", "csrw", 1)
  /\ since' = [since EXCEPT !["main"] = mtime]
  /\ UNCHANGED << mtime, timerVars, coreVars, dataVars, pcVars, excVars, old, wrapped,
                  clean, start >>

\* Mutant: every counter's high word before its low word.
BugResetOrder(i) == IF i <= Counters THEN << i, 2 >> ELSE << i - Counters, 1 >>

\* The i-th CSR written: << counter, word >>, the low words before the high.
ResetOrder(i) == IF i <= Counters THEN << i, 1 >> ELSE << i - Counters, 2 >>

ResetCsr ==
  /\ At("main", "csrw")
  /\ LET i == thr["main"].new
     IN /\ counter' = [counter EXCEPT ![ResetOrder(i)[1]][ResetOrder(i)[2]] = 0]
        /\ thr' = [thr EXCEPT !["main"].new = i + 1,
                              !["main"].pc = IF i = 2 * Counters THEN "done" ELSE "csrw"]
  /\ UNCHANGED << mtime, timerVars, coreVars, dataVars, inhibit, excVars, ghosts >>

pcount_enable(enable) ==
  /\ Call("pcount_enable")
  /\ inhibit' = 1 - enable
  /\ UNCHANGED << mtime, timerVars, coreVars, dataVars, thr, counter, excVars, ghosts >>

-----------------------------------------------------------------------------
(* The simulator log and the exception handler. *)

\* Mutant: letters from 'A' on for the digits from 0 on.
BugHexChar(d) == IF d < 10 THEN 48 + d ELSE 65 + d

\* The character of a digit: '0' + d, or 'A' - 10 + d.
HexChar(d) == IF d < 10 THEN 48 + d ELSE 65 - 10 + d

\* The top digit is printed and the number shifted up, as often as there are
\* digits.
puthex(h) ==
  LET shifted(i) == (h * Pow16[i - 1]) % Pow16[HexDigits]
  IN [i \in 1 .. HexDigits |-> HexChar(shifted(i) \div Pow16[HexDigits - 1])]

\* A string is one item of the log.
Banner    == << "EXCEPTION!!!", "rule" >>
Report(f) == << Banner, << "MEPC" >> \o puthex(f.mepc), << "MCAUSE" >> \o puthex(f.mcause),
                << "MTVAL" >> \o puthex(f.mtval), << "newline" >> >>

\* The program prints once.
puts ==
  /\ Call("puts")
  /\ log = << >>
  /\ log' = << "text" >>
  /\ UNCHANGED << mtime, timerVars, coreVars, dataVars, thr, pcVars, exc, fault, halted, ghosts >>

\* An exception in either thread: simple_exc_handler takes over for good.
Fault(f) ==
  /\ "fault" \in program /\ exc = 0
  /\ exc' = 1 /\ fault' = f
  /\ mstatus' = 0
  /\ UNCHANGED << mtime, timerVars, mie, dataVars, thr, pcVars, log, halted, ghosts >>

simple_exc_handler ==
  /\ exc \in 1 .. Len(Report(fault))
  /\ log' = log \o Report(fault)[exc]
  /\ exc' = exc + 1
  /\ UNCHANGED << mtime, timerVars, coreVars, dataVars, thr, pcVars, fault, halted, ghosts >>

\* sim_halt, then while (1).
sim_halt ==
  /\ exc = Len(Report(fault)) + 1
  /\ halted' = 1
  /\ UNCHANGED << mtime, timerVars, coreVars, dataVars, thr, pcVars, exc, fault, log, ghosts >>

-----------------------------------------------------------------------------
Thread(x) == ReadHi(x) \/ ReadLo(x) \/ ReadAgain(x) \/ ReadDone(x)
             \/ CmpOff(x) \/ CmpHi(x) \/ CmpLo(x)

Handler == Count \/ Mret

Program ==
  \/ timer_read \/ \E t \in Deadlines : timecmp_update(t)
  \/ \E b \in Bases : timer_enable(b)
  \/ ClearHi \/ SetIncrement \/ SetMie \/ SetMstatus \/ timer_disable
  \/ get_elapsed_time \/ LoadFirst \/ LoadSecond \/ Return
  \/ pcount_reset \/ ResetCsr \/ \E e \in {0, 1} : pcount_enable(e)
  \/ puts

Exception == (\E f \in Faults : Fault(f)) \/ simple_exc_handler \/ sim_halt

Next == /\ \/ Tick \/ TakeInterrupt
           \/ \E x \in Threads : Thread(x)
           \/ Handler \/ Program \/ Exception
        /\ UNCHANGED program

Spec == Init /\ [][Next]_vars

-----------------------------------------------------------------------------
\* timer_read returns a value mtime had during the call, although it reads two
\* words of a running counter and may itself be interrupted.
TimerReadTrue ==
  \A x \in Threads : thr[x].pc = "read_done" => TimeRead(x) \in since[x] .. mtime

\* While timecmp_update is half done the interrupt line is up only if the value
\* before or the value after asks for it, unless the handler has moved the
\* compare value in between.
NoSpuriousInterrupt ==
  \A x \in Threads :
    thr[x].pc \in {"cmp_hi", "cmp_lo"} /\ old[x] # -1 /\ mtip
      => mtime >= old[x] \/ mtime >= thr[x].new

\* Enabled from off, the timer never counts more periods than have passed.
ElapsedNotAhead ==
  clean /\ thr["main"].fn # "timer_enable" => increment * Value(elapsed) <= mtime - start

\* What get_elapsed_time loads is a count of the time of the call, unless the
\* low word overflowed during it: the two loads are not one.
ElapsedTornOnlyAtWrap ==
  thr["main"].pc = "done" /\ thr["main"].fn \in {"load_hi", "load_lo"} /\ ~wrapped
    => W * thr["main"].hi + thr["main"].lo \in since["main"] .. Value(elapsed)

\* After pcount_reset a counter holds no more than what it can have counted
\* since the call began.
CountersFresh ==
  thr["main"].pc = "done" /\ thr["main"].fn = "pcount_reset" =>
    \A c \in 1 .. Counters : Value(counter[c]) <= mtime - since["main"]

\* The digit a character stands for, and the number a sequence of them does.
HexVal(c) == IF c \in 48 .. 57 THEN c - 48 ELSE IF c \in 65 .. 70 THEN c - 55 ELSE -1
HexValue(s) ==
  LET sum[i \in 0 .. Len(s)] == IF i = 0 THEN 0 ELSE 16 * sum[i - 1] + HexVal(s[i])
  IN sum[Len(s)]

\* When the simulation is halted by an exception the log ends with the whole
\* report, and the numbers in it are those of the exception.
ReportComplete ==
  halted = 1 =>
    LET tail == SubSeq(log, Len(log) - 3 * HexDigits - 5, Len(log))
        hex(k) == HexValue(SubSeq(tail, 4 + (k - 1) * (HexDigits + 1),
                                  2 + k * (HexDigits + 1)))
    IN /\ SubSeq(tail, 1, 2) = Banner
       /\ << hex(1), hex(2), hex(3) >> = << fault.mepc, fault.mcause, fault.mtval >>
=============================================================================
