------------------------- MODULE SimpleSystem_proofs -------------------------
(***************************************************************************)
(* The run-time of the Ibex core for words of every size, every period and *)
(* every program.  The main program and the handler meet in four places:   *)
(* the words of the timer they both read, the compare value they both      *)
(* write, and the two words of time_elapsed one writes and the other       *)
(* loads; there is an invariant for each, and one for the counters.  The   *)
(* report of an exception has one of its own, and the numbers in it are    *)
(* read back by induction over their digits.                               *)
(***************************************************************************)
EXTENDS SimpleSystem, NaturalsInduction, WellFoundedInduction, TLAPS

Reading  == {"read_hi", "read_lo", "read_again", "read_done"}
Updating == {"cmp_off", "cmp_hi", "cmp_lo"}
Labels   == {"read_hi", "read_lo", "read_again", "read_done", "cmp_off", "cmp_hi", "cmp_lo",
             "idle", "clear_hi", "set_increment", "set_mie", "set_mstatus", "load", "load_2",
             "csrw", "done", "count", "mret"}
Calls    == {"none", "handler", "timer_read", "timecmp_update", "timer_enable", "load_hi",
             "load_lo", "pcount_reset"}
Record   == [pc : Labels, fn : Calls, hi : Nat, lo : Nat, new : Nat]

\* Every variable the invariants speak of has a value of its kind.
SysTypeOK ==
  /\ mtime \in 0 .. MaxTime /\ cmph \in Nat /\ cmpl \in Word
  /\ mie \in {0, 1} /\ mstatus \in {0, 1}
  /\ elapsed \in Word \X Word /\ increment \in Nat
  /\ thr \in [Threads -> Record]
  /\ counter \in [1 .. Counters -> Word \X Word]
  /\ since \in [Threads -> Nat] /\ old \in [Threads -> Int] /\ start \in Nat

\* Which function a thread is in, where it is.
ControlInv ==
  LET pc == thr["main"].pc
      fn == thr["main"].fn
  IN /\ pc \in Reading => fn \in {"timer_read", "timer_enable"}
     /\ pc \in Updating => fn \in {"timecmp_update", "timer_enable"}
     /\ pc \in {"clear_hi", "set_increment", "set_mie", "set_mstatus"} =>
          fn = "timer_enable"
     /\ pc \in {"load", "load_2"} => fn \in {"load_hi", "load_lo"}
     /\ pc = "csrw" => fn = "pcount_reset"
     /\ pc \notin {"count", "mret"}
     /\ pc = "idle" => fn = "none"
     /\ fn # "handler"
     /\ thr["irq"].pc \in Reading \cup Updating \cup {"idle", "count", "mret"}
     /\ thr["irq"].pc # "idle" => thr["irq"].fn = "handler" /\ old["main"] = -1

\* The words a thread has read are those of a value mtime had in the call: the
\* low word with a high word q no smaller than the one read before it.
ReadInv(x) ==
  LET pc == thr[x].pc
  IN /\ x = "irq" \/ pc \in Reading \cup {"clear_hi", "set_increment"} =>
          since[x] <= mtime
     /\ pc = "read_lo" => W * thr[x].hi <= mtime
     /\ pc = "read_again" =>
          /\ thr[x].lo \in Word
          /\ \E q \in Nat : thr[x].hi <= q /\ W * q + thr[x].lo \in since[x] .. mtime
     /\ pc = "read_done" => TimeRead(x) \in since[x] .. mtime

\* The compare value never falls below both the old and the new one.
UpdateInv(x) ==
  old[x] # -1 =>
    /\ thr[x].pc = "cmp_hi" => cmpl = W - 1 /\ cmp >= old[x]
    /\ thr[x].pc = "cmp_lo" => cmp >= thr[x].new

\* timer_enable has not reached its csrs mie.
SettingUp == thr["main"].fn = "timer_enable"
             /\ thr["main"].pc \notin {"set_mie", "set_mstatus", "done"}

\* Until then the interrupt is off, and the compare value that is being written
\* lies a period after the start.
SetUpInv ==
  LET pc == thr["main"].pc
      nw == thr["main"].new
  IN /\ mie = 0 /\ thr["irq"].pc = "idle" /\ start = since["main"] /\ start <= mtime
     /\ elapsed[1] = 0 /\ (pc # "clear_hi" => elapsed[2] = 0)
     /\ pc \in {"clear_hi", "set_increment"} => nw \in Bases
     /\ pc \notin {"clear_hi", "set_increment"} => increment \in Bases
     /\ pc \in Reading => nw = increment
     /\ pc \in Updating => nw >= start + increment
     /\ pc = "cmp_lo" => cmph = nw \div W

\* Afterwards every period counted has passed, and the compare value lies a
\* period after the last one counted; the handler knows that the next has passed.
MeterInv ==
  LET periods == increment * Value(elapsed)
      pc == thr["irq"].pc
      nw == thr["irq"].new
  IN /\ increment \in Bases /\ periods <= mtime - start
     /\ pc \in {"idle", "mret"} => periods + increment <= cmp - start
     /\ pc \in Reading \cup Updating \cup {"count"} =>
          periods + increment <= since["irq"] - start
     /\ pc \in Reading => nw = increment
     /\ pc \in Updating => nw >= since["irq"] + increment
     /\ pc = "cmp_lo" => cmph = nw \div W
     /\ pc = "count" => cmp >= since["irq"] + increment

ElapsedInv ==
  clean => /\ thr["main"].fn # "timecmp_update"
           /\ IF SettingUp THEN SetUpInv ELSE MeterInv

\* What get_elapsed_time has loaded, unless the low word has overflowed.
LoadInv ==
  LET t == thr["main"]
  IN t.fn \in {"load_hi", "load_lo"} /\ ~wrapped =>
       /\ t.pc \in {"load", "load_2"} => since["main"] \in W * elapsed[2] .. Value(elapsed)
       /\ t.pc = "load_2" /\ t.fn = "load_hi" => t.hi = elapsed[2]
       /\ t.pc = "load_2" /\ t.fn = "load_lo" =>
            W * elapsed[2] + t.lo \in since["main"] .. Value(elapsed)
       /\ t.pc = "done" => W * t.hi + t.lo \in since["main"] .. Value(elapsed)

\* The low words that pcount_reset has written, then the counters.
CounterInv ==
  LET t == thr["main"]
      spent == mtime - since["main"]
  IN t.fn = "pcount_reset" =>
       /\ since["main"] <= mtime
       /\ t.pc = "csrw" =>
            /\ t.new \in 1 .. 2 * Counters
            /\ \A c \in 1 .. Counters :
                 /\ c < t.new => counter[c][1] <= spent
                 /\ c + Counters < t.new => Value(counter[c]) <= spent
       /\ t.pc = "done" => \A c \in 1 .. Counters : Value(counter[c]) <= spent

SysInv == /\ SysTypeOK /\ ControlInv /\ \A x \in Threads : ReadInv(x) /\ UpdateInv(x)
          /\ ElapsedInv /\ LoadInv /\ CounterInv

-----------------------------------------------------------------------------
(* Arithmetic of words. *)

LEMMA WordFacts == W \in Nat /\ W > 1 /\ Counters \in Nat /\ Counters > 0 /\ MaxTime \in Nat
BY SimpleSystemAssumption DEF SimpleSystemAssumption

LEMMA Halves ==
  ASSUME NEW n \in Nat
  PROVE  n \div W \in Nat /\ n % W \in Word /\ n = W * (n \div W) + (n % W)
BY WordFacts DEF Word

LEMMA HighWord ==
  ASSUME NEW p \in Nat, NEW q \in Nat, p < q
  PROVE  W * p + W <= W * q
BY WordFacts

LEMMA Products == ASSUME NEW p \in Nat PROVE W * p \in Nat
BY WordFacts

LEMMA CarryType ==
  ASSUME NEW d \in Word \X Word
  PROVE  /\ Carry(d) \in Word \X Word
         /\ Carry(d)[1] <= d[1] + 1
         /\ Value(d) \in Nat
         /\ Value(Carry(d)) <= Value(d) + 1
         /\ d[1] # W - 1 => Carry(d) = << d[1] + 1, d[2] >>
<1>1. d = << d[1], d[2] >> /\ d[1] \in Word /\ d[2] \in Word
  OBVIOUS
<1>2. W * d[2] \in Nat
  BY <1>1, WordFacts, Products DEF Word
<1>3. CASE d[1] < W - 1
  BY <1>1, <1>2, <1>3, WordFacts DEF Carry, Value, Word
<1>4. CASE d[1] = W - 1
  <2>1. (d[2] + 1) % W \in Word /\ (d[2] + 1) % W <= d[2] + 1
    BY <1>1, WordFacts DEF Word
  <2>2. W * ((d[2] + 1) % W) <= W * (d[2] + 1) /\ W * ((d[2] + 1) % W) \in Nat
    <3> DEFINE k == (d[2] + 1) % W
    <3>1. k \in Nat /\ d[2] + 1 \in Nat /\ (k < d[2] + 1 \/ k = d[2] + 1)
      BY <1>1, <2>1, WordFacts DEF Word
    <3> HIDE DEF k
    <3>2. W * k <= W * (d[2] + 1)
      BY <3>1, WordFacts, HighWord, Products
    <3> QED
      BY <3>1, <3>2, Products DEF k
  <2>3. W * (d[2] + 1) = W * d[2] + W
    BY <1>1, WordFacts DEF Word
  <2>4. Carry(d) = << 0, (d[2] + 1) % W >>
    BY <1>1, <1>4, WordFacts DEF Carry, Word
  <2> QED
    BY <1>1, <1>2, <1>4, <2>1, <2>2, <2>3, <2>4, WordFacts DEF Value, Word
<1> QED
  BY <1>1, <1>3, <1>4, WordFacts DEF Word

-----------------------------------------------------------------------------
(* Types. *)

\* The steps that leave the timer, the threads and the counts as they are.
Aside == timer_disable \/ (\E e \in {0, 1} : pcount_enable(e)) \/ puts \/ Exception

LEMMA AsideStep ==
  ASSUME SysTypeOK, Aside
  PROVE  /\ UNCHANGED << mtime, cmph, cmpl, elapsed, increment, thr, counter, since, old,
                         wrapped, clean, start >>
         /\ mie' \in {0, mie} /\ mstatus' \in {0, mstatus}
<1>1. CASE timer_disable
  BY <1>1 DEF timer_disable, timerVars, dataVars, pcVars, ghosts
<1>2. CASE \E e \in {0, 1} : pcount_enable(e)
  BY <1>2 DEF pcount_enable, timerVars, coreVars, dataVars, ghosts
<1>3. CASE puts
  BY <1>3 DEF puts, timerVars, coreVars, dataVars, pcVars, ghosts
<1>4. CASE Exception
  BY <1>4 DEF Exception, Fault, simple_exc_handler, sim_halt, timerVars, coreVars, dataVars,
     pcVars, ghosts
<1> QED
  BY <1>1, <1>2, <1>3, <1>4 DEF Aside

LEMMA Names ==
  /\ "read_hi" \in Labels /\ "read_lo" \in Labels /\ "read_again" \in Labels
  /\ "read_done" \in Labels /\ "cmp_off" \in Labels /\ "cmp_hi" \in Labels
  /\ "cmp_lo" \in Labels /\ "idle" \in Labels /\ "clear_hi" \in Labels
  /\ "set_increment" \in Labels /\ "set_mie" \in Labels /\ "set_mstatus" \in Labels
  /\ "load" \in Labels /\ "load_2" \in Labels /\ "csrw" \in Labels
  /\ "done" \in Labels /\ "count" \in Labels /\ "mret" \in Labels
  /\ "none" \in Calls /\ "handler" \in Calls /\ "timer_read" \in Calls
  /\ "timecmp_update" \in Calls /\ "timer_enable" \in Calls /\ "load_hi" \in Calls
  /\ "load_lo" \in Calls /\ "pcount_reset" \in Calls
BY DEF Labels, Calls

LEMMA EnterType ==
  /\ Idle \in Record
  /\ \A f \in Calls, l \in Labels, n \in Nat : Enter(f, l, n) \in Record
BY Names DEF Idle, Enter, Record

LEMMA WordPairs ==
  ASSUME NEW d \in Word \X Word
  PROVE  /\ [d EXCEPT ![1] = 0] = << 0, d[2] >> /\ [d EXCEPT ![2] = 0] = << d[1], 0 >>
         /\ [d EXCEPT ![1] = 0] \in Word \X Word /\ [d EXCEPT ![2] = 0] \in Word \X Word
<1>1. d = << d[1], d[2] >> /\ d[1] \in Word /\ d[2] \in Word /\ 0 \in Word
  BY WordFacts DEF Word
<1>2. [d EXCEPT ![1] = 0] = << 0, d[2] >> /\ [d EXCEPT ![2] = 0] = << d[1], 0 >>
  BY <1>1
<1> QED
  BY <1>1, <1>2

LEMMA Minus == -1 \in Int
OBVIOUS

LEMMA SysTypeInit == ASSUME Init PROVE SysTypeOK
<1>2. thr \in [Threads -> Record]
  BY EnterType DEF Init
<1>3. since \in [Threads -> Nat] /\ old \in [Threads -> Int]
  BY DEF Init
<1>4. counter \in [1 .. Counters -> Word \X Word] /\ elapsed \in Word \X Word
  BY WordFacts DEF Init, Word
<1> QED
  BY <1>2, <1>3, <1>4, WordFacts DEF Init, SysTypeOK, Word

\* What the steps do to the threads: every step gives one thread a record.
LEMMA ThreadType ==
  ASSUME SysTypeOK, NEW x \in Threads, Thread(x)
  PROVE  thr' \in [Threads -> Record]
<1> USE Names DEF Record
<1>1. mtime \in Nat /\ thr \in [Threads -> Record]
  BY WordFacts DEF SysTypeOK
<1>2. CASE ReadHi(x)
  <2> DEFINE n == mtime \div W
  <2>1. n \in Nat /\ thr' = [thr EXCEPT ![x].pc = "read_lo", ![x].hi = n]
    BY <1>1, <1>2, Halves DEF ReadHi
  <2> HIDE DEF n
  <2> QED
    BY <1>1, <2>1
<1>3. CASE ReadLo(x)
  <2> DEFINE n == mtime % W
  <2>1. n \in Nat /\ thr' = [thr EXCEPT ![x].pc = "read_again", ![x].lo = n]
    BY <1>1, <1>3, Halves DEF ReadLo, Word
  <2> HIDE DEF n
  <2> QED
    BY <1>1, <2>1
<1>4. CASE ReadAgain(x)
  BY <1>1, <1>4 DEF ReadAgain, ReadTo, Go
<1>5. CASE ReadDone(x)
  <2>1. TimeRead(x) + thr[x].new \in Nat
    BY <1>1, Products, WordFacts DEF TimeRead
  <2>2. (TimeRead(x) + thr[x].new) % (W * W) \in Nat
    <3> DEFINE w == W * W
               n == TimeRead(x) + thr[x].new
    <3>1. w \in Nat /\ w > 0
      BY WordFacts
    <3> HIDE DEF w, n
    <3>2. n \in Nat => n % w \in Nat
      BY <3>1
    <3> QED
      BY <2>1, <3>2 DEF w, n
  <2>3. PICK n \in Nat : thr' = [thr EXCEPT ![x] =
          IF @.fn = "timer_read" THEN [@ EXCEPT !.pc = "done"]
          ELSE [@ EXCEPT !.pc = "cmp_off", !.new = n]]
    BY <1>5, <2>2 DEF ReadDone, ReadReturns
  <2> QED
    BY <1>1, <2>3
<1>6. CASE CmpOff(x)
  BY <1>1, <1>6 DEF CmpOff, SetCmp, Go
<1>7. CASE CmpHi(x)
  BY <1>1, <1>7 DEF CmpHi, SetCmp, Go
<1>8. CASE CmpLo(x)
  BY <1>1, <1>8 DEF CmpLo, SetCmp, Go
<1> QED
  BY <1>2, <1>3, <1>4, <1>5, <1>6, <1>7, <1>8 DEF Thread

LEMMA SysTypeStep ==
  ASSUME SysTypeOK, ControlInv, [Next]_vars
  PROVE  SysTypeOK'
<1>0. mtime \in Nat /\ Word \subseteq Nat /\ 0 \in Word /\ W - 1 \in Word
  BY WordFacts DEF Word, SysTypeOK
<1>8. thr \in [Threads -> Record] /\ since \in [Threads -> Nat] /\ old \in [Threads -> Int]
  BY DEF SysTypeOK
<1>9. /\ elapsed \in Word \X Word /\ counter \in [1 .. Counters -> Word \X Word]
      /\ increment \in Nat
  BY DEF SysTypeOK
<1>1. CASE Tick
  <2>1. PICK C \in SUBSET (1 .. Counters) :
          counter' = [c \in 1 .. Counters |-> IF c \in C THEN Carry(counter[c])
                                                         ELSE counter[c]]
    BY <1>1 DEF Tick
  <2>2. counter' \in [1 .. Counters -> Word \X Word]
    BY <1>9, <2>1, CarryType
  <2> QED
    BY <1>1, <2>2, WordFacts DEF SysTypeOK, Tick, timerVars, coreVars, dataVars, ghosts
<1>2. CASE TakeInterrupt
  <2>1. Enter("handler", "read_hi", increment) \in Record
    BY <1>9, EnterType, Names
  <2>2. thr' \in [Threads -> Record]
    BY <1>2, <1>8, <2>1 DEF TakeInterrupt
  <2>3. since' \in [Threads -> Nat] /\ old' \in [Threads -> Int]
    BY <1>0, <1>2, <1>8, Minus DEF TakeInterrupt
  <2> QED
    BY <1>2, <2>2, <2>3 DEF SysTypeOK, TakeInterrupt, timerVars, dataVars, pcVars
<1>3. ASSUME NEW x \in Threads, Thread(x) PROVE SysTypeOK'
  <2>1. thr' \in [Threads -> Record]
    BY <1>3, ThreadType
  <2>2. CASE ReadHi(x) \/ ReadLo(x) \/ ReadAgain(x) \/ ReadDone(x)
    BY <2>1, <2>2 DEF SysTypeOK, ReadHi, ReadLo, ReadAgain, ReadTo, ReadDone, ReadReturns, timerVars,
       coreVars, dataVars, pcVars, ghosts
  <2>3. CASE CmpOff(x) \/ CmpHi(x) \/ CmpLo(x)
    <3>1. cmph' \in Nat /\ cmpl' \in Word
      BY <1>0, <1>8, <2>3, Halves DEF SysTypeOK, Record, CmpOff, CmpHi, CmpLo, SetCmp
    <3>2. cmp \in Int
      BY <1>0, Products DEF SysTypeOK, cmp
    <3>3. old' \in [Threads -> Int]
      BY <1>8, <2>3, <3>2 DEF CmpOff, CmpHi, CmpLo, SetCmp
    <3> QED
      BY <2>1, <2>3, <3>1, <3>3 DEF SysTypeOK, CmpOff, CmpHi, CmpLo, SetCmp, coreVars, dataVars, pcVars
  <2> QED
    BY <1>3, <2>2, <2>3 DEF Thread
<1>4. CASE Handler
  <2>1. CASE Count
    <3>1. thr' \in [Threads -> Record] /\ elapsed' \in Word \X Word
      BY <1>8, <1>9, <2>1, CarryType, Names DEF Count, CountTo, Go, Record
    <3> QED
      BY <2>1, <3>1 DEF SysTypeOK, Count, CountTo, timerVars, coreVars, pcVars
  <2>2. CASE Mret
    <3>1. thr' \in [Threads -> Record] /\ since' \in [Threads -> Nat] /\ old' \in [Threads -> Int]
      BY <1>8, <2>2, EnterType, Minus DEF Mret
    <3> QED
      BY <2>2, <3>1 DEF SysTypeOK, Mret, timerVars, dataVars, pcVars
  <2> QED
    BY <1>4, <2>1, <2>2 DEF Handler
<1>5. CASE Program /\ ~Aside
  <2>1. CASE timer_read \/ get_elapsed_time \/ pcount_reset
    <3>1. Value(elapsed) \in Nat
      BY <1>9, CarryType
    <3>2. thr' \in [Threads -> Record]
      BY <1>8, <2>1, EnterType, Names DEF timer_read, get_elapsed_time, pcount_reset, Begin, Threads
    <3> QED
      BY <1>0, <2>1, <3>1, <3>2 DEF SysTypeOK, timer_read, get_elapsed_time, pcount_reset,
         timerVars, coreVars, dataVars, pcVars
  <2>2. ASSUME NEW t \in Deadlines, timecmp_update(t) PROVE SysTypeOK'
    <3>1. t \in Nat
      BY SimpleSystemAssumption DEF SimpleSystemAssumption
    <3>2. thr' \in [Threads -> Record]
      BY <1>8, <2>2, <3>1, EnterType, Names DEF timecmp_update, Begin, Threads
    <3> QED
      BY <2>2, <3>2 DEF SysTypeOK, timecmp_update, timerVars, coreVars, dataVars, pcVars
  <2>3. ASSUME NEW b \in Bases, timer_enable(b) PROVE SysTypeOK'
    <3>1. b \in Nat
      BY SimpleSystemAssumption DEF SimpleSystemAssumption
    <3>2. thr' \in [Threads -> Record]
      BY <1>8, <2>3, <3>1, EnterType, Names DEF timer_enable, Begin, Threads
    <3>3. elapsed' \in Word \X Word
      <4>1. elapsed' = [elapsed EXCEPT ![1] = 0]
        BY <2>3 DEF timer_enable
      <4> QED
        BY <1>9, <4>1, WordPairs
    <3> QED
      BY <1>0, <2>3, <3>2, <3>3 DEF SysTypeOK, timer_enable, timerVars, coreVars, pcVars
  <2>4. CASE ClearHi \/ SetIncrement \/ SetMie \/ SetMstatus
    <3>1. thr' \in [Threads -> Record]
      BY <1>8, <2>4, Names DEF ClearHi, SetIncrement, SetMie, SetMstatus, Go, Record
    <3>2. elapsed' \in Word \X Word
      <4>1. elapsed' = [elapsed EXCEPT ![2] = 0] \/ elapsed' = elapsed
        BY <2>4 DEF ClearHi, SetIncrement, SetMie, SetMstatus, dataVars
      <4> QED
        BY <1>9, <4>1, WordPairs
    <3>3. increment' \in Nat
      BY <1>8, <1>9, <2>4 DEF ClearHi, SetIncrement, SetMie, SetMstatus, dataVars, Threads,
         Record
    <3> QED
      BY <1>0, <2>4, <3>1, <3>2, <3>3 DEF SysTypeOK, ClearHi, SetIncrement, SetMie, SetMstatus, timerVars,
         coreVars, pcVars, ghosts
  <2>5. CASE LoadFirst \/ LoadSecond
    <3>1. elapsed[1] \in Nat /\ elapsed[2] \in Nat
      BY <1>0, <1>9
    <3>2. thr' \in [Threads -> Record]
      <4>1. PICK h \in {elapsed[2], thr["main"].hi}, l \in {elapsed[1], thr["main"].lo},
                 p \in {"load_2", "done"} :
              thr' = [thr EXCEPT !["main"] = [@ EXCEPT !.pc = p, !.hi = h, !.lo = l]]
        <5>1. thr["main"] \in Record
          BY <1>8 DEF Threads
        <5>2. CASE LoadFirst
          BY <1>8, <5>1, <5>2 DEF LoadFirst, Record
        <5>3. CASE LoadSecond
          BY <1>8, <5>1, <5>3 DEF LoadSecond, LoadOther, Record
        <5> QED
          BY <2>5, <5>2, <5>3
      <4>2. [thr["main"] EXCEPT !.pc = p, !.hi = h, !.lo = l] \in Record
        BY <1>8, <3>1, Names DEF Record, Threads
      <4> QED
        BY <1>8, <4>1, <4>2
    <3> QED
      BY <2>5, <3>2 DEF SysTypeOK, LoadFirst, LoadSecond, LoadOther, timerVars, coreVars, dataVars,
         pcVars, ghosts
  <2>6. CASE Return
    <3>1. thr' \in [Threads -> Record] /\ since' \in [Threads -> Nat]
      BY <1>8, <2>6, EnterType DEF Return
    <3>2. old' \in [Threads -> Int]
      BY <1>8, <2>6, Minus DEF Return
    <3> QED
      BY <2>6, <3>1, <3>2 DEF SysTypeOK, Return, timerVars, coreVars, dataVars, pcVars
  <2>7. CASE ResetCsr
    <3> DEFINE i == thr["main"].new
    <3>1. counter' \in [1 .. Counters -> Word \X Word]
      <4>1. counter' = [counter EXCEPT ![ResetOrder(i)[1]] =
                          [@ EXCEPT ![ResetOrder(i)[2]] = 0]]
        BY <2>7 DEF ResetCsr
      <4>2. ResetOrder(i)[2] \in {1, 2}
        BY DEF ResetOrder
      <4>3. \A d \in Word \X Word : [d EXCEPT ![ResetOrder(i)[2]] = 0] \in Word \X Word
        <5> SUFFICES ASSUME NEW d \in Word \X Word, NEW k \in {1, 2}
                     PROVE  [d EXCEPT ![k] = 0] \in Word \X Word
          BY <4>2
        <5>1. CASE k = 1
          BY <5>1, WordPairs
        <5>2. CASE k = 2
          BY <5>2, WordPairs
        <5> QED
          BY <5>1, <5>2
      <4> HIDE DEF i
      <4> QED
        BY <1>9, <4>1, <4>3
    <3>2. thr' \in [Threads -> Record]
      <4>1. thr["main"] \in Record /\ i + 1 \in Nat
        BY <1>8 DEF Threads, Record
      <4>2. PICK p \in Labels :
              thr' = [thr EXCEPT !["main"] = [@ EXCEPT !.new = i + 1, !.pc = p]]
        BY <2>7, Names DEF ResetCsr
      <4>3. [thr["main"] EXCEPT !.new = i + 1, !.pc = p] \in Record
        BY <4>1 DEF Record
      <4> QED
        BY <1>8, <4>2, <4>3
    <3> QED
      BY <2>7, <3>1, <3>2 DEF SysTypeOK, ResetCsr, timerVars, coreVars, dataVars, ghosts
  <2> QED
    BY <1>5, <2>1, <2>2, <2>3, <2>4, <2>5, <2>6, <2>7 DEF Program, Aside
<1>6. CASE Aside
  BY <1>6, AsideStep DEF SysTypeOK
<1>7. CASE UNCHANGED vars
  BY <1>7 DEF SysTypeOK, vars, timerVars, coreVars, dataVars, pcVars, ghosts
<1> QED
  BY <1>1, <1>2, <1>3, <1>4, <1>5, <1>6, <1>7 DEF Next, Aside

-----------------------------------------------------------------------------
(* What the steps of timer_read, timecmp_update and the program change. *)

\* A step of thread x leaves the other thread, the counts and the ghosts of the
\* calls alone; the main program steps only while the handler is idle.
LEMMA ThreadFrame ==
  ASSUME SysTypeOK, NEW x \in Threads, Thread(x)
  PROVE  /\ UNCHANGED << mtime, mie, elapsed, increment, counter, since, wrapped, clean,
                         start >>
         /\ \A y \in Threads \ {x} : thr'[y] = thr[y] /\ old'[y] = old[y]
         /\ x = "main" => thr["irq"].pc = "idle"
         /\ thr'[x].fn = thr[x].fn
<1> USE DEF SysTypeOK, timerVars, coreVars, dataVars, pcVars, excVars, ghosts
<1>1. thr \in [Threads -> Record] /\ old \in [Threads -> Int] /\ thr[x] \in Record
  OBVIOUS
<1>2. UNCHANGED << mtime, mie, elapsed, increment, counter, since, wrapped, clean, start >>
  BY DEF Thread, ReadHi, ReadLo, ReadAgain, ReadTo, ReadDone, ReadReturns,
     CmpOff, CmpHi, CmpLo, SetCmp
<1>3. \A y \in Threads \ {x} : thr'[y] = thr[y] /\ old'[y] = old[y]
  BY <1>1 DEF Thread, ReadHi, ReadLo, ReadAgain, ReadTo, ReadDone, ReadReturns,
     CmpOff, CmpHi, CmpLo, SetCmp, Go
<1>4. x = "main" => thr["irq"].pc = "idle"
  BY DEF Thread, ReadHi, ReadLo, ReadAgain, ReadTo, ReadDone, ReadReturns,
     CmpOff, CmpHi, CmpLo, SetCmp, At, Runs
<1>5. thr'[x].fn = thr[x].fn
  BY <1>1 DEF Thread, ReadHi, ReadLo, ReadAgain, ReadTo, ReadDone, ReadReturns,
     CmpOff, CmpHi, CmpLo, SetCmp, Go, Record
<1> QED
  BY <1>2, <1>3, <1>4, <1>5

\* timer_read, word by word.
LEMMA ReadSteps ==
  ASSUME SysTypeOK, NEW x \in Threads
  PROVE  /\ ReadHi(x) => thr[x].pc = "read_hi" /\ thr'[x].pc = "read_lo"
                         /\ thr'[x].hi = mtime \div W /\ thr'[x].new = thr[x].new
         /\ ReadLo(x) => thr[x].pc = "read_lo" /\ thr'[x].pc = "read_again"
                         /\ thr'[x].hi = thr[x].hi /\ thr'[x].lo = mtime % W
                         /\ thr'[x].new = thr[x].new
         /\ ReadAgain(x) => /\ thr[x].pc = "read_again"
                            /\ thr'[x] = [thr[x] EXCEPT !.pc =
                                 IF mtime \div W # thr[x].hi THEN "read_hi" ELSE "read_done"]
         /\ ReadDone(x) => /\ thr[x].pc = "read_done"
                           /\ IF thr[x].fn = "timer_read" THEN thr'[x].pc = "done"
                              ELSE /\ thr'[x].pc = "cmp_off"
                                   /\ thr'[x].new = (TimeRead(x) + thr[x].new) % (W * W)
         /\ ReadHi(x) \/ ReadLo(x) \/ ReadAgain(x) \/ ReadDone(x) =>
              UNCHANGED << cmph, cmpl, old >>
<1>1. thr \in [Threads -> Record] /\ thr[x] \in Record
  BY DEF SysTypeOK
<1>2. ReadHi(x) => thr[x].pc = "read_hi" /\ thr'[x].pc = "read_lo"
                         /\ thr'[x].hi = mtime \div W /\ thr'[x].new = thr[x].new
  <2> DEFINE n == mtime \div W
  <2>1. ReadHi(x) => thr[x].pc = "read_hi"
                     /\ thr' = [thr EXCEPT ![x].pc = "read_lo", ![x].hi = n]
    BY DEF ReadHi, At
  <2> HIDE DEF n
  <2>2. ReadHi(x) => thr[x].pc = "read_hi" /\ thr'[x].pc = "read_lo"
                     /\ thr'[x].hi = n /\ thr'[x].new = thr[x].new
    BY <1>1, <2>1 DEF Record
  <2> QED
    BY <2>2 DEF n
<1>3. ReadLo(x) => thr[x].pc = "read_lo" /\ thr'[x].pc = "read_again"
                         /\ thr'[x].hi = thr[x].hi /\ thr'[x].lo = mtime % W
                         /\ thr'[x].new = thr[x].new
  <2> DEFINE n == mtime % W
  <2>1. ReadLo(x) => thr[x].pc = "read_lo"
                     /\ thr' = [thr EXCEPT ![x].pc = "read_again", ![x].lo = n]
    BY DEF ReadLo, At
  <2> HIDE DEF n
  <2>2. ReadLo(x) => thr[x].pc = "read_lo" /\ thr'[x].pc = "read_again"
                     /\ thr'[x].hi = thr[x].hi /\ thr'[x].lo = n /\ thr'[x].new = thr[x].new
    BY <1>1, <2>1 DEF Record
  <2> QED
    BY <2>2 DEF n
<1>4. ReadAgain(x) => /\ thr[x].pc = "read_again"
                      /\ thr'[x] = [thr[x] EXCEPT !.pc =
                           IF mtime \div W # thr[x].hi THEN "read_hi" ELSE "read_done"]
  BY <1>1 DEF ReadAgain, ReadTo, At, Go
<1>5. ReadDone(x) => /\ thr[x].pc = "read_done"
                     /\ IF thr[x].fn = "timer_read" THEN thr'[x].pc = "done"
                        ELSE /\ thr'[x].pc = "cmp_off"
                             /\ thr'[x].new = (TimeRead(x) + thr[x].new) % (W * W)
  <2> DEFINE n == (TimeRead(x) + thr[x].new) % (W * W)
  <2>1. ReadDone(x) => /\ thr[x].pc = "read_done"
                       /\ thr' = [thr EXCEPT ![x] =
                            IF @.fn = "timer_read" THEN [@ EXCEPT !.pc = "done"]
                            ELSE [@ EXCEPT !.pc = "cmp_off", !.new = n]]
    BY DEF ReadDone, ReadReturns, At
  <2> HIDE DEF n
  <2>2. ReadDone(x) => /\ thr[x].pc = "read_done"
                       /\ IF thr[x].fn = "timer_read" THEN thr'[x].pc = "done"
                          ELSE thr'[x].pc = "cmp_off" /\ thr'[x].new = n
    <3>1. ReadDone(x) => thr'[x] = IF thr[x].fn = "timer_read"
                                   THEN [thr[x] EXCEPT !.pc = "done"]
                                   ELSE [thr[x] EXCEPT !.pc = "cmp_off", !.new = n]
      BY <1>1, <2>1
    <3> QED
      BY <1>1, <2>1, <3>1 DEF Record
  <2> QED
    BY <2>2 DEF n
<1>6. ReadHi(x) \/ ReadLo(x) \/ ReadAgain(x) \/ ReadDone(x) => UNCHANGED << cmph, cmpl, old >>
  BY DEF ReadHi, ReadLo, ReadAgain, ReadTo, ReadDone, ReadReturns, timerVars, ghosts
<1> QED
  BY <1>2, <1>3, <1>4, <1>5, <1>6

\* timecmp_update, store by store.
LEMMA UpdateSteps ==
  ASSUME SysTypeOK, NEW x \in Threads
  PROVE  /\ CmpOff(x) => /\ thr[x].pc = "cmp_off" /\ thr'[x].pc = "cmp_hi"
                         /\ cmph' = cmph /\ cmpl' = W - 1 /\ old'[x] = cmp
         /\ CmpHi(x) => /\ thr[x].pc = "cmp_hi" /\ thr'[x].pc = "cmp_lo"
                        /\ cmph' = thr[x].new \div W /\ cmpl' = cmpl /\ old' = old
         /\ CmpLo(x) => /\ thr[x].pc = "cmp_lo"
                        /\ thr'[x].pc = CASE thr[x].fn = "timer_enable" -> "set_mie"
                                          [] thr[x].fn = "handler"      -> "count"
                                          [] OTHER                      -> "done"
                        /\ cmph' = cmph /\ cmpl' = thr[x].new % W /\ old' = old
         /\ CmpOff(x) \/ CmpHi(x) \/ CmpLo(x) =>
              thr'[x].new = thr[x].new /\ thr'[x].hi = thr[x].hi /\ thr'[x].lo = thr[x].lo
<1>1. thr \in [Threads -> Record] /\ thr[x] \in Record /\ old \in [Threads -> Int]
  BY DEF SysTypeOK
<1>2. CmpOff(x) => /\ thr[x].pc = "cmp_off" /\ thr'[x].pc = "cmp_hi"
                   /\ cmph' = cmph /\ cmpl' = W - 1 /\ old'[x] = cmp
  BY <1>1 DEF CmpOff, SetCmp, At, Go, Record
<1>3. CmpHi(x) => /\ thr[x].pc = "cmp_hi" /\ thr'[x].pc = "cmp_lo"
                  /\ cmph' = thr[x].new \div W /\ cmpl' = cmpl /\ old' = old
  BY <1>1 DEF CmpHi, SetCmp, At, Go, Record
<1>4. CmpLo(x) => /\ thr[x].pc = "cmp_lo"
                  /\ thr'[x].pc = CASE thr[x].fn = "timer_enable" -> "set_mie"
                                    [] thr[x].fn = "handler"      -> "count"
                                    [] OTHER                      -> "done"
                  /\ cmph' = cmph /\ cmpl' = thr[x].new % W /\ old' = old
  BY <1>1 DEF CmpLo, SetCmp, At, Go, Record
<1>5. CmpOff(x) \/ CmpHi(x) \/ CmpLo(x) =>
        thr'[x].new = thr[x].new /\ thr'[x].hi = thr[x].hi /\ thr'[x].lo = thr[x].lo
  BY <1>1 DEF CmpOff, CmpHi, CmpLo, SetCmp, Go, Record
<1> QED
  BY <1>2, <1>3, <1>4, <1>5

\* A call or a step of the main program that uses the timer or the counters.
MainAction ==
  \/ timer_read \/ \E t \in Deadlines : timecmp_update(t)
  \/ \E b \in Bases : timer_enable(b)
  \/ ClearHi \/ SetIncrement \/ SetMie \/ SetMstatus
  \/ get_elapsed_time \/ LoadFirst \/ LoadSecond \/ Return \/ pcount_reset \/ ResetCsr

LEMMA MainFrame ==
  ASSUME SysTypeOK, MainAction
  PROVE  /\ UNCHANGED << mtime, cmph, cmpl >> /\ thr["irq"].pc = "idle"
         /\ thr'["irq"] = thr["irq"] /\ since'["irq"] = since["irq"]
         /\ old'["irq"] = old["irq"] /\ old'["main"] \in {old["main"], -1}
<1> USE DEF MainAction, timer_read, timecmp_update, timer_enable, ClearHi, SetIncrement,
            SetMie, SetMstatus, get_elapsed_time, LoadFirst, LoadSecond, LoadOther, Return,
            pcount_reset, ResetCsr
<1>1. /\ thr \in [Threads -> Record] /\ "irq" \in Threads /\ "main" \in Threads
      /\ since \in [Threads -> Nat] /\ old \in [Threads -> Int]
  BY DEF SysTypeOK, Threads
<1>2. UNCHANGED << mtime, cmph, cmpl >> /\ thr["irq"].pc = "idle"
  BY DEF Call, At, Runs, timerVars
<1>3. thr'["irq"] = thr["irq"]
  BY <1>1 DEF Begin, Go
<1>4. /\ since'["irq"] = since["irq"] /\ old'["irq"] = old["irq"]
      /\ old'["main"] \in {old["main"], -1}
  BY <1>1 DEF ghosts
<1> QED
  BY <1>2, <1>3, <1>4

\* The calls, as the thread and the ghosts see them.
LEMMA MainCalls ==
  ASSUME SysTypeOK
  PROVE  /\ timer_read =>
              /\ thr'["main"] = Enter("timer_read", "read_hi", 0) /\ since'["main"] = mtime
              /\ UNCHANGED << mie, elapsed, increment, counter, wrapped, clean, start >>
         /\ \A t \in Deadlines : timecmp_update(t) =>
              /\ thr'["main"] = Enter("timecmp_update", "cmp_off", t) /\ clean' = FALSE
              /\ UNCHANGED << elapsed, increment, counter, since, wrapped, start >>
         /\ \A b \in Bases : timer_enable(b) =>
              /\ thr'["main"] = Enter("timer_enable", "clear_hi", b)
              /\ elapsed' = [elapsed EXCEPT ![1] = 0] /\ clean' = (mie = 0)
              /\ start' = mtime /\ since'["main"] = mtime
              /\ UNCHANGED << mie, increment, counter, wrapped >>
         /\ get_elapsed_time =>
              /\ \E f \in {"load_hi", "load_lo"} : thr'["main"] = Enter(f, "load", 0)
              /\ since'["main"] = Value(elapsed) /\ wrapped' = FALSE
              /\ UNCHANGED << mie, elapsed, increment, counter, clean, start >>
         /\ pcount_reset =>
              /\ thr'["main"] = Enter("pcount_reset", "csrw", 1) /\ since'["main"] = mtime
              /\ UNCHANGED << mie, elapsed, increment, counter, wrapped, clean, start >>
         /\ timer_read \/ (\E t \in Deadlines : timecmp_update(t))
            \/ (\E b \in Bases : timer_enable(b)) \/ get_elapsed_time \/ pcount_reset =>
              thr["main"].pc = "idle"
<1>1. thr \in [Threads -> Record] /\ "main" \in Threads /\ since \in [Threads -> Nat]
  BY DEF SysTypeOK, Threads
<1>2. timer_read =>
        /\ thr'["main"] = Enter("timer_read", "read_hi", 0) /\ since'["main"] = mtime
        /\ UNCHANGED << mie, elapsed, increment, counter, wrapped, clean, start >>
  BY <1>1 DEF timer_read, Begin, coreVars, dataVars, pcVars
<1>3. \A t \in Deadlines : timecmp_update(t) =>
        /\ thr'["main"] = Enter("timecmp_update", "cmp_off", t) /\ clean' = FALSE
        /\ UNCHANGED << elapsed, increment, counter, since, wrapped, start >>
  BY <1>1 DEF timecmp_update, Begin, coreVars, dataVars, pcVars
<1>4. \A b \in Bases : timer_enable(b) =>
        /\ thr'["main"] = Enter("timer_enable", "clear_hi", b)
        /\ elapsed' = [elapsed EXCEPT ![1] = 0] /\ clean' = (mie = 0)
        /\ start' = mtime /\ since'["main"] = mtime
        /\ UNCHANGED << mie, increment, counter, wrapped >>
  <2> SUFFICES ASSUME NEW b \in Bases, timer_enable(b)
               PROVE  /\ thr'["main"] = Enter("timer_enable", "clear_hi", b)
                      /\ elapsed' = [elapsed EXCEPT ![1] = 0] /\ clean' = (mie = 0)
                      /\ start' = mtime /\ since'["main"] = mtime
                      /\ UNCHANGED << mie, increment, counter, wrapped >>
    OBVIOUS
  <2>1. clean' = (mie = 0)
    BY Zenon DEF timer_enable
  <2>2. thr'["main"] = Enter("timer_enable", "clear_hi", b) /\ since'["main"] = mtime
    BY <1>1 DEF timer_enable, Begin
  <2> QED
    BY <2>1, <2>2 DEF timer_enable, coreVars, pcVars
<1>5. get_elapsed_time =>
        /\ \E f \in {"load_hi", "load_lo"} : thr'["main"] = Enter(f, "load", 0)
        /\ since'["main"] = Value(elapsed) /\ wrapped' = FALSE
        /\ UNCHANGED << mie, elapsed, increment, counter, clean, start >>
  BY <1>1 DEF get_elapsed_time, Begin, coreVars, dataVars, pcVars
<1>6. pcount_reset =>
        /\ thr'["main"] = Enter("pcount_reset", "csrw", 1) /\ since'["main"] = mtime
        /\ UNCHANGED << mie, elapsed, increment, counter, wrapped, clean, start >>
  BY <1>1 DEF pcount_reset, Begin, coreVars, dataVars, pcVars
<1>7. timer_read \/ (\E t \in Deadlines : timecmp_update(t))
      \/ (\E b \in Bases : timer_enable(b)) \/ get_elapsed_time \/ pcount_reset =>
        thr["main"].pc = "idle"
  BY DEF timer_read, timecmp_update, timer_enable, get_elapsed_time, pcount_reset, Call, At
<1> QED
  BY <1>2, <1>3, <1>4, <1>5, <1>6, <1>7

\* The steps of a call, likewise.
LEMMA MainSteps ==
  ASSUME SysTypeOK
  PROVE  /\ ClearHi => /\ thr["main"].pc = "clear_hi"
                       /\ thr'["main"] = [thr["main"] EXCEPT !.pc = "set_increment"]
                       /\ elapsed' = [elapsed EXCEPT ![2] = 0]
                       /\ UNCHANGED << mie, increment >>
         /\ SetIncrement => /\ thr["main"].pc = "set_increment"
                            /\ thr'["main"] = [thr["main"] EXCEPT !.pc = "read_hi"]
                            /\ increment' = thr["main"].new
                            /\ UNCHANGED << mie, elapsed >>
         /\ SetMie => /\ thr["main"].pc = "set_mie"
                      /\ thr'["main"] = [thr["main"] EXCEPT !.pc = "set_mstatus"]
                      /\ UNCHANGED << elapsed, increment >>
         /\ SetMstatus => /\ thr["main"].pc = "set_mstatus"
                          /\ thr'["main"] = [thr["main"] EXCEPT !.pc = "done"]
                          /\ UNCHANGED << mie, elapsed, increment >>
         /\ ClearHi \/ SetIncrement \/ SetMie \/ SetMstatus =>
              UNCHANGED << counter, since, old, wrapped, clean, start >>
         /\ Return => thr["main"].pc = "done" /\ thr'["main"] = Idle
                      /\ UNCHANGED << mie, elapsed, increment, counter, clean, start >>
         /\ ResetCsr =>
              LET i == thr["main"].new
              IN /\ thr["main"].pc = "csrw"
                 /\ counter' = [counter EXCEPT ![ResetOrder(i)[1]] =
                                  [@ EXCEPT ![ResetOrder(i)[2]] = 0]]
                 /\ thr'["main"] = [thr["main"] EXCEPT
                      !.new = i + 1, !.pc = IF i = 2 * Counters THEN "done" ELSE "csrw"]
                 /\ UNCHANGED << mie, elapsed, increment, since, old, wrapped, clean, start >>
         /\ LoadFirst => /\ thr["main"].pc = "load"
                         /\ thr'["main"] = IF thr["main"].fn = "load_hi"
                              THEN [thr["main"] EXCEPT !.pc = "load_2", !.hi = elapsed[2]]
                              ELSE [thr["main"] EXCEPT !.pc = "load_2", !.lo = elapsed[1]]
         /\ LoadSecond => /\ thr["main"].pc = "load_2"
                          /\ thr'["main"] = IF thr["main"].fn = "load_hi"
                               THEN [thr["main"] EXCEPT !.pc = "done", !.lo = elapsed[1]]
                               ELSE [thr["main"] EXCEPT !.pc = "done", !.hi = elapsed[2]]
         /\ LoadFirst \/ LoadSecond =>
              UNCHANGED << mie, elapsed, increment, counter, since, old, wrapped, clean, start >>
<1>1. thr \in [Threads -> Record] /\ "main" \in Threads /\ thr["main"] \in Record
  BY DEF SysTypeOK, Threads
<1>2. ClearHi => /\ thr["main"].pc = "clear_hi"
                 /\ thr'["main"] = [thr["main"] EXCEPT !.pc = "set_increment"]
                 /\ elapsed' = [elapsed EXCEPT ![2] = 0]
                 /\ UNCHANGED << mie, increment >>
  BY <1>1 DEF ClearHi, At, Go, coreVars
<1>3. SetIncrement => /\ thr["main"].pc = "set_increment"
                      /\ thr'["main"] = [thr["main"] EXCEPT !.pc = "read_hi"]
                      /\ increment' = thr["main"].new
                      /\ UNCHANGED << mie, elapsed >>
  BY <1>1 DEF SetIncrement, At, Go, coreVars
<1>4. SetMie => /\ thr["main"].pc = "set_mie"
                /\ thr'["main"] = [thr["main"] EXCEPT !.pc = "set_mstatus"]
                /\ UNCHANGED << elapsed, increment >>
  BY <1>1 DEF SetMie, At, Go, dataVars
<1>5. SetMstatus => /\ thr["main"].pc = "set_mstatus"
                    /\ thr'["main"] = [thr["main"] EXCEPT !.pc = "done"]
                    /\ UNCHANGED << mie, elapsed, increment >>
  BY <1>1 DEF SetMstatus, At, Go, dataVars
<1>6. ClearHi \/ SetIncrement \/ SetMie \/ SetMstatus =>
        UNCHANGED << counter, since, old, wrapped, clean, start >>
  BY DEF ClearHi, SetIncrement, SetMie, SetMstatus, pcVars, ghosts
<1>7. Return => thr["main"].pc = "done" /\ thr'["main"] = Idle
                /\ UNCHANGED << mie, elapsed, increment, counter, clean, start >>
  BY <1>1 DEF Return, At, coreVars, dataVars, pcVars
<1>8. ResetCsr =>
        LET i == thr["main"].new
        IN /\ thr["main"].pc = "csrw"
           /\ counter' = [counter EXCEPT ![ResetOrder(i)[1]] =
                            [@ EXCEPT ![ResetOrder(i)[2]] = 0]]
           /\ thr'["main"] = [thr["main"] EXCEPT
                !.new = i + 1, !.pc = IF i = 2 * Counters THEN "done" ELSE "csrw"]
           /\ UNCHANGED << mie, elapsed, increment, since, old, wrapped, clean, start >>
  <2>1. ASSUME ResetCsr
        PROVE  thr'["main"] = [thr["main"] EXCEPT !.new = thr["main"].new + 1,
                 !.pc = IF thr["main"].new = 2 * Counters THEN "done" ELSE "csrw"]
    BY <1>1, <2>1 DEF ResetCsr, At
  <2> QED
    BY <2>1 DEF ResetCsr, At, coreVars, dataVars, ghosts
<1>9. LoadFirst => /\ thr["main"].pc = "load"
                   /\ thr'["main"] = IF thr["main"].fn = "load_hi"
                        THEN [thr["main"] EXCEPT !.pc = "load_2", !.hi = elapsed[2]]
                        ELSE [thr["main"] EXCEPT !.pc = "load_2", !.lo = elapsed[1]]
  BY <1>1 DEF LoadFirst, At
<1>10. LoadSecond => /\ thr["main"].pc = "load_2"
                     /\ thr'["main"] = IF thr["main"].fn = "load_hi"
                          THEN [thr["main"] EXCEPT !.pc = "done", !.lo = elapsed[1]]
                          ELSE [thr["main"] EXCEPT !.pc = "done", !.hi = elapsed[2]]
  BY <1>1 DEF LoadSecond, LoadOther, At
<1>11. LoadFirst \/ LoadSecond =>
         UNCHANGED << mie, elapsed, increment, counter, since, old, wrapped, clean, start >>
  BY DEF LoadFirst, LoadSecond, LoadOther, coreVars, dataVars, pcVars, ghosts
<1> QED
  BY <1>2, <1>3, <1>4, <1>5, <1>6, <1>7, <1>8, <1>9, <1>10, <1>11

\* The handler.
LEMMA HandlerSteps ==
  ASSUME SysTypeOK
  PROVE  /\ TakeInterrupt =>
              /\ thr["irq"].pc = "idle" /\ mtime >= cmp /\ mie = 1
              /\ thr'["irq"] = Enter("handler", "read_hi", increment)
              /\ since'["irq"] = mtime /\ old'["main"] = -1 /\ old'["irq"] = old["irq"]
              /\ UNCHANGED << elapsed, wrapped >>
         /\ Count =>
              /\ thr["irq"].pc = "count" /\ thr'["irq"] = [thr["irq"] EXCEPT !.pc = "mret"]
              /\ elapsed' = Carry(elapsed)
              /\ ~wrapped' => ~wrapped /\ (elapsed[1] = W - 1 => thr["main"].pc = "idle")
              /\ UNCHANGED << since, old >>
         /\ Mret => /\ thr["irq"].pc = "mret" /\ thr'["irq"] = Idle
                    /\ since'["irq"] = 0 /\ old'["irq"] = -1 /\ old'["main"] = old["main"]
                    /\ UNCHANGED << elapsed, wrapped >>
         /\ TakeInterrupt \/ Count \/ Mret =>
              /\ thr'["main"] = thr["main"] /\ since'["main"] = since["main"]
              /\ UNCHANGED << mtime, cmph, cmpl, mie, increment, counter, clean, start >>
<1>1. /\ thr \in [Threads -> Record] /\ "irq" \in Threads /\ "main" \in Threads
      /\ since \in [Threads -> Nat] /\ old \in [Threads -> Int]
  BY DEF SysTypeOK, Threads
<1>2. TakeInterrupt =>
        /\ thr["irq"].pc = "idle" /\ mtime >= cmp /\ mie = 1
        /\ thr'["irq"] = Enter("handler", "read_hi", increment)
        /\ since'["irq"] = mtime /\ old'["main"] = -1 /\ old'["irq"] = old["irq"]
        /\ UNCHANGED << elapsed, wrapped >>
  BY <1>1 DEF TakeInterrupt, mtip, dataVars
<1>3. Count =>
        /\ thr["irq"].pc = "count" /\ thr'["irq"] = [thr["irq"] EXCEPT !.pc = "mret"]
        /\ elapsed' = Carry(elapsed)
        /\ ~wrapped' => ~wrapped /\ (elapsed[1] = W - 1 => thr["main"].pc = "idle")
        /\ UNCHANGED << since, old >>
  BY <1>1 DEF Count, CountTo, At, Go
<1>4. Mret => /\ thr["irq"].pc = "mret" /\ thr'["irq"] = Idle
              /\ since'["irq"] = 0 /\ old'["irq"] = -1 /\ old'["main"] = old["main"]
              /\ UNCHANGED << elapsed, wrapped >>
  BY <1>1 DEF Mret, At, dataVars
<1>5. TakeInterrupt \/ Count \/ Mret =>
        /\ thr'["main"] = thr["main"] /\ since'["main"] = since["main"]
        /\ UNCHANGED << mtime, cmph, cmpl, mie, increment, counter, clean, start >>
  BY <1>1 DEF TakeInterrupt, Count, CountTo, Mret, Go, timerVars, coreVars, dataVars, pcVars
<1> QED
  BY <1>2, <1>3, <1>4, <1>5

\* Every step is one of these.
LEMMA Steps ==
  ASSUME [Next]_vars
  PROVE  \/ Tick \/ TakeInterrupt \/ Count \/ Mret
         \/ (\E x \in Threads : Thread(x)) \/ MainAction \/ Aside \/ UNCHANGED vars
BY DEF Next, Handler, Program, MainAction, Aside

\* The clock, the steps aside and a stutter leave the threads alone.
LEMMA Rest ==
  ASSUME SysTypeOK, Tick \/ Aside \/ UNCHANGED vars
  PROVE  /\ UNCHANGED << cmph, cmpl, elapsed, increment, thr, since, old, wrapped, clean, start >>
         /\ mie' \in {0, mie}
         /\ \/ mtime' = mtime /\ counter' = counter
            \/ Tick /\ mtime' = mtime + 1
<1>1. CASE Tick
  BY <1>1 DEF Tick, timerVars, coreVars, dataVars, ghosts
<1>2. CASE Aside
  BY <1>2, AsideStep
<1>3. CASE UNCHANGED vars
  BY <1>3 DEF vars, timerVars, coreVars, dataVars, pcVars, ghosts
<1> QED
  BY <1>1, <1>2, <1>3

-----------------------------------------------------------------------------
(* One lemma per invariant. *)

LEMMA ControlStep ==
  ASSUME SysTypeOK, SysTypeOK', ControlInv, [Next]_vars
  PROVE  ControlInv'
<1> USE DEF ControlInv, Reading, Updating
<1>1. /\ thr["main"] \in Record /\ thr["irq"] \in Record
      /\ "main" \in Threads /\ "irq" \in Threads /\ Threads = {"main", "irq"}
  BY DEF SysTypeOK, Threads
<1>2. ASSUME NEW x \in Threads, Thread(x) PROVE ControlInv'
  <2>1. /\ \A y \in Threads \ {x} : thr'[y] = thr[y] /\ old'[y] = old[y]
        /\ x = "main" => thr["irq"].pc = "idle"
        /\ thr'[x].fn = thr[x].fn
    BY <1>2, ThreadFrame
  <2>2. ReadAgain(x) => thr'[x].pc \in {"read_hi", "read_done"} /\ thr[x].pc = "read_again"
    BY <1>1, ReadSteps DEF Record
  <2>3. ReadDone(x) => thr[x].pc = "read_done" /\ thr'[x].pc =
                         IF thr[x].fn = "timer_read" THEN "done" ELSE "cmp_off"
    BY ReadSteps
  <2>4. thr[x].pc \in Reading \cup Updating
    BY <1>2, ReadSteps, UpdateSteps DEF Thread
  <2>5. CASE x = "main"
    BY <1>1, <1>2, <2>1, <2>2, <2>3, <2>4, <2>5, ReadSteps, UpdateSteps DEF Thread
  <2>6. CASE x = "irq"
    BY <1>1, <1>2, <2>1, <2>2, <2>3, <2>4, <2>6, ReadSteps, UpdateSteps DEF Thread
  <2> QED
    BY <1>1, <2>5, <2>6
<1>3. CASE TakeInterrupt \/ Count \/ Mret
  <2>1. thr'["main"] = thr["main"] /\ (thr["irq"].pc # "idle" => old'["main"] = -1)
    BY <1>1, <1>3, HandlerSteps
  <2>2. CASE TakeInterrupt
    BY <2>1, <2>2, HandlerSteps DEF Enter, Idle
  <2>3. CASE Count
    BY <1>1, <2>1, <2>3, HandlerSteps DEF Record
  <2>4. CASE Mret
    BY <2>1, <2>4, HandlerSteps DEF Idle
  <2> QED
    BY <1>3, <2>2, <2>3, <2>4
<1>4. CASE MainAction
  <2>1. thr'["irq"] = thr["irq"] /\ thr["irq"].pc = "idle"
    BY <1>4, MainFrame
  <2>2. CASE timer_read \/ (\E t \in Deadlines : timecmp_update(t))
             \/ (\E b \in Bases : timer_enable(b)) \/ get_elapsed_time \/ pcount_reset
    <3>1. CASE timer_read \/ pcount_reset
      BY <2>1, <3>1, MainCalls DEF Enter, Idle
    <3>2. CASE \E t \in Deadlines : timecmp_update(t)
      BY <2>1, <3>2, MainCalls DEF Enter, Idle
    <3>3. CASE \E b \in Bases : timer_enable(b)
      BY <2>1, <3>3, MainCalls DEF Enter, Idle
    <3>4. CASE get_elapsed_time
      BY <2>1, <3>4, MainCalls DEF Enter, Idle
    <3> QED
      BY <2>2, <3>1, <3>2, <3>3, <3>4
  <2>3. CASE ClearHi \/ SetIncrement \/ SetMie \/ SetMstatus \/ Return \/ ResetCsr
             \/ LoadFirst \/ LoadSecond
    <3>1. CASE ClearHi \/ SetIncrement \/ SetMie \/ SetMstatus
      BY <1>1, <2>1, <3>1, MainSteps DEF Record
    <3>2. CASE Return
      BY <2>1, <3>2, MainSteps DEF Idle
    <3>3. CASE ResetCsr
      <4>1. thr'["main"].fn = thr["main"].fn /\ thr'["main"].pc \in {"done", "csrw"}
        BY <1>1, <3>3, MainSteps DEF Record
      <4> QED
        BY <1>1, <2>1, <3>3, <4>1, MainSteps
    <3>4. CASE LoadFirst \/ LoadSecond
      <4>1. thr'["main"].fn = thr["main"].fn /\ thr'["main"].pc \in {"load_2", "done"}
        BY <1>1, <3>4, MainSteps DEF Record
      <4> QED
        BY <1>1, <2>1, <3>4, <4>1, MainSteps
    <3> QED
      BY <2>3, <3>1, <3>2, <3>3, <3>4
  <2> QED
    BY <1>4, <2>2, <2>3 DEF MainAction
<1>5. CASE Tick \/ Aside \/ UNCHANGED vars
  BY <1>5, Rest
<1> QED
  BY <1>2, <1>3, <1>4, <1>5, Steps

\* A thread that moves keeps the words it has read those of the clock.
LEMMA ReadStep ==
  ASSUME SysTypeOK, ControlInv, [Next]_vars, NEW x \in Threads, ReadInv(x)
  PROVE  ReadInv(x)'
<1> USE DEF ReadInv, Reading
<1>1. /\ \A y \in Threads : thr[y] \in Record /\ since[y] \in Nat
      /\ "main" \in Threads /\ "irq" \in Threads /\ Threads = {"main", "irq"}
      /\ mtime \in Nat
  BY WordFacts DEF SysTypeOK, Threads
<1>2. ASSUME thr'[x] = thr[x], since'[x] = since[x], mtime' \in {mtime, mtime + 1}
      PROVE  ReadInv(x)'
  <2>1. thr[x].pc = "read_lo" => W * thr[x].hi \in Nat
    BY <1>1, Products DEF Record
  <2>2. TimeRead(x) \in Int /\ TimeRead(x)' = TimeRead(x)
    BY <1>1, <1>2, Products, WordFacts DEF Record, TimeRead
  <2>3. \A q \in Nat : W * q + thr[x].lo \in Int
    BY <1>1, Products DEF Record
  <2> QED
    BY <1>1, <1>2, <2>1, <2>2, <2>3
<1>3. CASE Tick \/ Aside \/ UNCHANGED vars
  BY <1>2, <1>3, Rest
<1>4. CASE TakeInterrupt \/ Count \/ Mret
  <2>1. CASE x = "main"
    BY <1>2, <1>4, <2>1, HandlerSteps
  <2>2. CASE x = "irq"
    <3>1. CASE TakeInterrupt
      <4>1. thr'[x].pc = "read_hi" /\ since'[x] = mtime /\ mtime' = mtime
        BY <2>2, <3>1, HandlerSteps DEF Enter, Idle
      <4> QED
        BY <1>1, <4>1
    <3>2. CASE Count
      BY <1>1, <2>2, <3>2, HandlerSteps DEF Record
    <3>3. CASE Mret
      BY <1>1, <2>2, <3>3, HandlerSteps DEF Idle
    <3> QED
      BY <1>4, <3>1, <3>2, <3>3
  <2> QED
    BY <1>1, <2>1, <2>2
<1>5. CASE MainAction
  <2>1. CASE x = "irq"
    BY <1>2, <1>5, <2>1, MainFrame
  <2>2. mtime' = mtime
    BY <1>5, MainFrame
  <2>3. ASSUME x = "main", thr'[x].pc \notin Reading \cup {"clear_hi", "set_increment"}
        PROVE  ReadInv(x)'
    BY <2>3
  <2>4. CASE x = "main"
    <3>1. CASE timer_read
      <4>1. thr'[x].pc = "read_hi" /\ since'[x] = mtime
        BY <2>4, <3>1, MainCalls DEF Enter, Idle
      <4> QED
        BY <1>1, <2>2, <4>1
    <3>2. CASE \E b \in Bases : timer_enable(b)
      <4>1. thr'[x].pc = "clear_hi" /\ since'[x] = mtime
        BY <2>4, <3>2, MainCalls DEF Enter, Idle
      <4> QED
        BY <1>1, <2>2, <4>1
    <3>3. CASE (\E t \in Deadlines : timecmp_update(t)) \/ get_elapsed_time \/ pcount_reset
      BY <2>3, <2>4, <3>3, MainCalls DEF Enter, Idle
    <3>4. CASE ClearHi \/ SetIncrement
      BY <1>1, <2>2, <2>4, <3>4, MainSteps DEF Record
    <3>5. CASE SetMie \/ SetMstatus
      BY <1>1, <2>3, <2>4, <3>5, MainSteps DEF Record
    <3>6. CASE Return
      BY <2>3, <2>4, <3>6, MainSteps DEF Idle
    <3>7. CASE ResetCsr
      BY <1>1, <2>3, <2>4, <3>7, MainSteps DEF Record
    <3>8. CASE LoadFirst \/ LoadSecond
      BY <1>1, <2>3, <2>4, <3>8, MainSteps DEF Record
    <3> QED
      BY <1>5, <3>1, <3>2, <3>3, <3>4, <3>5, <3>6, <3>7, <3>8 DEF MainAction
  <2> QED
    BY <1>1, <2>1, <2>4
<1>6. ASSUME NEW y \in Threads, Thread(y) PROVE ReadInv(x)'
  <2>1. /\ UNCHANGED << mtime, since >>
        /\ x # y => thr'[x] = thr[x]
    BY <1>6, ThreadFrame
  <2>2. CASE x # y
    BY <1>2, <2>1, <2>2
  <2>3. CASE x = y
    <3>1. CASE ReadHi(x)
      <4>1. W * (mtime \div W) <= mtime
        BY <1>1, Halves, Products, WordFacts DEF Word
      <4>2. thr'[x].pc = "read_lo" /\ thr[x].pc = "read_hi" /\ thr'[x].hi = mtime \div W
        BY <3>1, ReadSteps
      <4> QED
        BY <1>1, <2>1, <4>1, <4>2
    <3>2. CASE ReadLo(x)
      <4> DEFINE q == mtime \div W
                 r == mtime % W
      <4>1. q \in Nat /\ r \in Word /\ W * q + r = mtime
        BY <1>1, Halves
      <4>2. thr'[x].pc = "read_again" /\ thr'[x].hi = thr[x].hi /\ thr'[x].lo = r
            /\ thr[x].pc = "read_lo"
        BY <3>2, ReadSteps
      <4> HIDE DEF q, r
      <4>3. thr[x].hi <= q
        <5>1. SUFFICES ASSUME q < thr[x].hi PROVE FALSE
          BY <1>1, <4>1 DEF Record
        <5>2. W * q + W <= W * thr[x].hi
          BY <1>1, <4>1, <5>1, HighWord DEF Record
        <5> QED
          BY <1>1, <4>1, <4>2, <5>2, WordFacts, Products DEF Word, Record
      <4>4. W * q + r \in since[x] .. mtime
        BY <1>1, <4>1, <4>2
      <4> QED
        BY <2>1, <4>1, <4>2, <4>3, <4>4, <1>1
    <3>3. CASE ReadAgain(x)
      <4>1. thr[x].pc = "read_again" /\ thr'[x].hi = thr[x].hi /\ thr'[x].lo = thr[x].lo
            /\ thr'[x].pc = IF mtime \div W # thr[x].hi THEN "read_hi" ELSE "read_done"
        BY <1>1, <3>3, ReadSteps DEF Record
      <4>2. CASE mtime \div W # thr[x].hi
        BY <1>1, <2>1, <4>1, <4>2
      <4>3. CASE mtime \div W = thr[x].hi
        <5>1. PICK q \in Nat : thr[x].hi <= q /\ W * q + thr[x].lo \in since[x] .. mtime
          BY <4>1
        <5>2. thr[x].lo \in Word /\ thr[x].hi \in Nat
          BY <1>1, <4>1 DEF Record
        <5>3. mtime < W * thr[x].hi + W
          BY <1>1, <4>3, <5>2, Halves, Products, WordFacts DEF Word
        <5>4. q = thr[x].hi
          <6>1. SUFFICES ASSUME thr[x].hi < q PROVE FALSE
            BY <5>1, <5>2
          <6>2. W * thr[x].hi + W <= W * q
            BY <5>1, <5>2, <6>1, HighWord
          <6> QED
            BY <1>1, <5>1, <5>2, <5>3, <6>2, WordFacts, Products DEF Word
        <5>5. TimeRead(x)' \in since[x] .. mtime
          BY <4>1, <5>1, <5>4 DEF TimeRead
        <5> QED
          BY <2>1, <4>1, <4>3, <5>5, <1>1
      <4> QED
        BY <4>2, <4>3
    <3>4. CASE ReadDone(x)
      <4>1. thr'[x].pc \in {"done", "cmp_off"} /\ thr[x].pc = "read_done"
        BY <3>4, ReadSteps
      <4> QED
        BY <2>1, <4>1
    <3>5. CASE CmpOff(x) \/ CmpHi(x) \/ CmpLo(x)
      <4>1. thr'[x].pc \in {"cmp_hi", "cmp_lo", "set_mie", "count", "done"}
        BY <3>5, UpdateSteps
      <4> QED
        BY <2>1, <4>1
    <3> QED
      BY <1>6, <2>3, <3>1, <3>2, <3>3, <3>4, <3>5 DEF Thread
  <2> QED
    BY <2>2, <2>3
<1> QED
  BY <1>3, <1>4, <1>5, <1>6, Steps

\* The low word goes out of the way before the high word moves.
LEMMA UpdateStep ==
  ASSUME SysTypeOK, ControlInv, [Next]_vars, NEW x \in Threads, UpdateInv(x)
  PROVE  UpdateInv(x)'
<1> USE DEF UpdateInv
<1>1. /\ \A y \in Threads : thr[y] \in Record
      /\ "main" \in Threads /\ "irq" \in Threads /\ Threads = {"main", "irq"}
      /\ cmph \in Nat /\ cmpl \in Word /\ W \in Nat /\ W > 1
  BY WordFacts DEF SysTypeOK, Threads
<1>2. ASSUME thr'[x] = thr[x], old'[x] = old[x], UNCHANGED << cmph, cmpl >>
      PROVE  UpdateInv(x)'
  BY <1>2 DEF cmp
<1>3. ASSUME thr'[x].pc \notin {"cmp_hi", "cmp_lo"} PROVE UpdateInv(x)'
  BY <1>3
<1>4. CASE Tick \/ Aside \/ UNCHANGED vars
  BY <1>2, <1>4, Rest
<1>5. CASE TakeInterrupt \/ Count \/ Mret
  <2>1. CASE x = "main"
    <3>1. CASE TakeInterrupt
      BY <2>1, <3>1, HandlerSteps
    <3>2. CASE Count \/ Mret
      BY <1>2, <2>1, <3>2, HandlerSteps
    <3> QED
      BY <1>5, <3>1, <3>2
  <2>2. CASE x = "irq"
    <3>1. CASE TakeInterrupt
      BY <1>3, <2>2, <3>1, HandlerSteps DEF Enter, Idle
    <3>2. CASE Count
      BY <1>1, <1>3, <2>2, <3>2, HandlerSteps DEF Record
    <3>3. CASE Mret
      BY <1>3, <2>2, <3>3, HandlerSteps DEF Idle
    <3> QED
      BY <1>5, <3>1, <3>2, <3>3
  <2> QED
    BY <1>1, <2>1, <2>2
<1>6. CASE MainAction
  <2>1. CASE x = "irq"
    BY <1>2, <1>6, <2>1, MainFrame
  <2>2. CASE x = "main"
    <3>1. CASE timer_read \/ (\E b \in Bases : timer_enable(b))
               \/ (\E t \in Deadlines : timecmp_update(t)) \/ get_elapsed_time
               \/ pcount_reset
      BY <1>3, <2>2, <3>1, MainCalls DEF Enter, Idle
    <3>2. CASE ClearHi \/ SetIncrement \/ SetMie \/ SetMstatus
      BY <1>1, <1>3, <2>2, <3>2, MainSteps DEF Record
    <3>3. CASE Return
      BY <1>3, <2>2, <3>3, MainSteps DEF Idle
    <3>4. CASE ResetCsr
      BY <1>1, <1>3, <2>2, <3>4, MainSteps DEF Record
    <3>5. CASE LoadFirst \/ LoadSecond
      BY <1>1, <1>3, <2>2, <3>5, MainSteps DEF Record
    <3> QED
      BY <1>6, <3>1, <3>2, <3>3, <3>4, <3>5 DEF MainAction
  <2> QED
    BY <1>1, <2>1, <2>2
<1>7. ASSUME NEW y \in Threads, Thread(y) PROVE UpdateInv(x)'
  <2>1. CASE x # y
    <3>1. thr'[x] = thr[x] /\ old'[x] = old[x]
      BY <1>7, <2>1, ThreadFrame
    <3>2. CASE x = "irq"
      BY <1>1, <1>3, <1>7, <2>1, <3>1, <3>2, ThreadFrame
    <3>3. CASE x = "main"
      <4>1. thr["irq"].pc # "idle"
        BY <1>1, <1>7, <2>1, <3>3, ReadSteps, UpdateSteps DEF Thread
      <4> QED
        BY <3>1, <3>3, <4>1 DEF ControlInv
    <3> QED
      BY <1>1, <3>2, <3>3
  <2>2. CASE x = y
    <3>1. CASE ReadHi(x) \/ ReadLo(x) \/ ReadDone(x)
      BY <1>3, <3>1, ReadSteps
    <3>2. CASE ReadAgain(x)
      BY <1>1, <1>3, <3>2, ReadSteps DEF Record
    <3>3. CASE CmpOff(x)
      <4>1. thr'[x].pc = "cmp_hi" /\ cmph' = cmph /\ cmpl' = W - 1 /\ old'[x] = cmp
        BY <3>3, UpdateSteps
      <4> QED
        <5>1. cmp' = W * cmph + (W - 1)
          BY <4>1 DEF cmp
        <5>2. cmp = W * cmph + cmpl /\ W * cmph \in Nat /\ cmpl \in Nat /\ cmpl <= W - 1
          BY <1>1, Products DEF cmp, Word
        <5> QED
          BY <1>1, <4>1, <5>1, <5>2
    <3>4. CASE CmpHi(x)
      <4> DEFINE h == thr[x].new \div W
      <4>1. /\ thr[x].pc = "cmp_hi" /\ thr'[x].pc = "cmp_lo" /\ cmph' = h /\ cmpl' = cmpl
            /\ old' = old /\ thr'[x].new = thr[x].new
        BY <3>4, UpdateSteps
      <4> DEFINE r == thr[x].new % W
      <4>2. thr[x].new \in Nat
        BY <1>1 DEF Record
      <4>3. h \in Nat /\ r \in Word /\ thr[x].new = W * h + r
        BY <4>2, Halves
      <4> HIDE DEF h, r
      <4>4. W * h \in Nat /\ W * h + (W - 1) >= thr[x].new
        BY <1>1, <4>3, Products DEF Word
      <4> QED
        BY <4>1, <4>4 DEF cmp
    <3>5. CASE CmpLo(x)
      BY <1>3, <3>5, UpdateSteps
    <3> QED
      BY <1>7, <2>2, <3>1, <3>2, <3>3, <3>4, <3>5 DEF Thread
  <2> QED
    BY <2>1, <2>2
<1> QED
  BY <1>4, <1>5, <1>6, <1>7, Steps

\* What get_elapsed_time has loaded and what it still has to load.
LEMMA LoadStep ==
  ASSUME SysTypeOK, ControlInv, LoadInv, [Next]_vars
  PROVE  LoadInv'
<1> USE DEF LoadInv
<1>1. /\ \A y \in Threads : thr[y] \in Record
      /\ "main" \in Threads /\ "irq" \in Threads /\ Threads = {"main", "irq"}
      /\ elapsed \in Word \X Word /\ Value(elapsed) = elapsed[1] + W * elapsed[2]
      /\ elapsed[1] \in Nat /\ elapsed[2] \in Nat /\ W * elapsed[2] \in Nat
  BY WordFacts, Products DEF SysTypeOK, Threads, Value, Word
<1>2. ASSUME thr'["main"] = thr["main"], since'["main"] = since["main"],
             UNCHANGED << elapsed, wrapped >>
      PROVE  LoadInv'
  BY <1>2 DEF Value
<1>3. ASSUME thr'["main"].fn \notin {"load_hi", "load_lo"} PROVE LoadInv'
  BY <1>3
<1>4. CASE Tick \/ Aside \/ UNCHANGED vars
  BY <1>2, <1>4, Rest
<1>5. CASE TakeInterrupt \/ Mret
  BY <1>2, <1>5, HandlerSteps
<1>6. CASE Count
  <2>1. thr'["main"] = thr["main"] /\ since'["main"] = since["main"]
        /\ elapsed' = Carry(elapsed)
    BY <1>6, HandlerSteps
  <2>2. SUFFICES ASSUME ~wrapped', thr["main"].fn \in {"load_hi", "load_lo"}
                 PROVE  LoadInv'
    BY <2>1
  <2>3. ~wrapped /\ elapsed[1] # W - 1
    <3>1. thr["main"].pc # "idle"
      BY <2>2 DEF ControlInv
    <3> QED
      BY <1>6, <2>2, <3>1, HandlerSteps
  <2>4. elapsed' = << elapsed[1] + 1, elapsed[2] >>
    BY <1>1, <2>1, <2>3, CarryType
  <2>5. elapsed'[2] = elapsed[2] /\ Value(elapsed)' = Value(elapsed) + 1
        /\ Value(elapsed) \in Nat
    BY <1>1, <2>4 DEF Value
  <2>6. W * thr["main"].hi + thr["main"].lo \in Int /\ W * elapsed[2] + thr["main"].lo \in Int
        /\ since["main"] \in Nat
    <3>1. thr["main"].hi \in Nat /\ thr["main"].lo \in Nat /\ since["main"] \in Nat
      BY <1>1 DEF Record, SysTypeOK
    <3> QED
      BY <1>1, <3>1, Products
  <2>7. W * elapsed'[2] = W * elapsed[2]
    BY <2>5
  <2> HIDE DEF LoadInv
  <2>8. LoadInv
    OBVIOUS
  <2> QED
    BY <1>1, <2>1, <2>3, <2>5, <2>6, <2>7, <2>8 DEF LoadInv
<1>7. CASE MainAction
  <2>1. CASE timer_read \/ (\E b \in Bases : timer_enable(b))
             \/ (\E t \in Deadlines : timecmp_update(t)) \/ pcount_reset
    BY <1>3, <2>1, MainCalls DEF Enter, Idle
  <2>2. CASE get_elapsed_time
    <3>1. thr'["main"].pc = "load" /\ since'["main"] = Value(elapsed) /\ elapsed' = elapsed
      BY <2>2, MainCalls DEF Enter, Idle
    <3> QED
      BY <1>1, <3>1 DEF Value
  <2>3. CASE ClearHi \/ SetIncrement \/ SetMie \/ SetMstatus
    <3>1. thr'["main"].fn = "timer_enable"
      BY <1>1, <2>3, MainSteps DEF ControlInv, Record
    <3> QED
      BY <1>3, <3>1
  <2>4. CASE Return
    BY <1>3, <2>4, MainSteps DEF Idle
  <2>5. CASE ResetCsr
    <3>1. thr'["main"].fn = "pcount_reset"
      BY <1>1, <2>5, MainSteps DEF ControlInv, Record
    <3> QED
      BY <1>3, <3>1
  <2>6. CASE LoadFirst
    <3>1. /\ thr["main"].pc = "load" /\ thr'["main"].pc = "load_2"
          /\ thr'["main"].fn = thr["main"].fn
          /\ thr["main"].fn = "load_hi" => thr'["main"].hi = elapsed[2]
          /\ thr["main"].fn # "load_hi" => thr'["main"].lo = elapsed[1]
      BY <1>1, <2>6, MainSteps DEF Record
    <3>2. UNCHANGED << elapsed, since, wrapped >>
      BY <2>6, MainSteps
    <3> QED
      BY <1>1, <3>1, <3>2 DEF Value, SysTypeOK
  <2>7. CASE LoadSecond
    <3>1. /\ thr["main"].pc = "load_2" /\ thr'["main"].pc = "done"
          /\ thr'["main"].fn = thr["main"].fn
          /\ thr["main"].fn = "load_hi" =>
               thr'["main"].hi = thr["main"].hi /\ thr'["main"].lo = elapsed[1]
          /\ thr["main"].fn # "load_hi" =>
               thr'["main"].hi = elapsed[2] /\ thr'["main"].lo = thr["main"].lo
      BY <1>1, <2>7, MainSteps DEF Record
    <3>2. UNCHANGED << elapsed, since, wrapped >>
      BY <2>7, MainSteps
    <3> QED
      BY <1>1, <3>1, <3>2 DEF Value, SysTypeOK
  <2> QED
    BY <1>7, <2>1, <2>2, <2>3, <2>4, <2>5, <2>6, <2>7 DEF MainAction
<1>8. ASSUME NEW y \in Threads, Thread(y) PROVE LoadInv'
  <2>1. UNCHANGED << elapsed, since, wrapped >> /\ (y # "main" => thr'["main"] = thr["main"])
        /\ thr'[y].fn = thr[y].fn
    BY <1>1, <1>8, ThreadFrame
  <2>2. CASE y # "main"
    BY <1>2, <2>1, <2>2
  <2>3. CASE y = "main"
    <3>1. thr["main"].pc \in Reading \cup Updating
      BY <1>8, <2>3, ReadSteps, UpdateSteps DEF Thread, Reading, Updating
    <3> QED
      BY <1>3, <2>1, <2>3, <3>1 DEF ControlInv
  <2> QED
    BY <2>2, <2>3
<1> QED
  BY <1>4, <1>5, <1>6, <1>7, <1>8, Steps

\* The counters count a clock at most once, and are written low words first.
LEMMA CounterStep ==
  ASSUME SysTypeOK, ControlInv, CounterInv, [Next]_vars
  PROVE  CounterInv'
<1> USE DEF CounterInv
<1>1. /\ \A y \in Threads : thr[y] \in Record
      /\ "main" \in Threads /\ "irq" \in Threads /\ Threads = {"main", "irq"}
      /\ mtime \in Nat /\ since["main"] \in Nat /\ Counters \in Nat /\ Counters > 0
      /\ thr["main"].new \in Nat
  BY WordFacts DEF SysTypeOK, Threads, Record
<1>2. \A c \in 1 .. Counters :
        counter[c] \in Word \X Word /\ counter[c][1] \in Nat /\ Value(counter[c]) \in Nat
  <2> SUFFICES ASSUME NEW c \in 1 .. Counters
               PROVE  counter[c] \in Word \X Word /\ counter[c][1] \in Nat
                      /\ Value(counter[c]) \in Nat
    OBVIOUS
  <2>1. counter[c] \in Word \X Word
    BY DEF SysTypeOK
  <2> QED
    BY <2>1, CarryType, WordFacts DEF Word
<1>3. ASSUME thr'["main"] = thr["main"], since'["main"] = since["main"],
             UNCHANGED << counter, mtime >>
      PROVE  CounterInv'
  BY <1>3 DEF Value
<1>4. ASSUME thr'["main"].fn # "pcount_reset" PROVE CounterInv'
  BY <1>4
<1>5. CASE Tick
  <2>1. PICK C \in SUBSET (1 .. Counters) :
          counter' = [c \in 1 .. Counters |-> IF c \in C THEN Carry(counter[c])
                                                         ELSE counter[c]]
    BY <1>5 DEF Tick
  <2>2. thr' = thr /\ since' = since /\ mtime' = mtime + 1
    BY <1>5 DEF Tick, ghosts
  <2>3. \A c \in 1 .. Counters :
          /\ counter'[c][1] <= counter[c][1] + 1 /\ counter'[c][1] \in Nat
          /\ Value(counter'[c]) <= Value(counter[c]) + 1 /\ Value(counter'[c]) \in Nat
    <3> SUFFICES ASSUME NEW c \in 1 .. Counters
                 PROVE  /\ counter'[c][1] <= counter[c][1] + 1 /\ counter'[c][1] \in Nat
                        /\ Value(counter'[c]) <= Value(counter[c]) + 1
                        /\ Value(counter'[c]) \in Nat
      OBVIOUS
    <3>1. counter[c] \in Word \X Word /\ counter[c][1] \in Nat /\ Value(counter[c]) \in Nat
      BY <1>2
    <3>2. counter'[c] = Carry(counter[c]) \/ counter'[c] = counter[c]
      BY <2>1
    <3>3. CASE counter'[c] = Carry(counter[c])
      <4>1. Carry(counter[c]) \in Word \X Word
        BY <3>1, CarryType
      <4>2. Carry(counter[c])[1] \in Nat /\ Value(Carry(counter[c])) \in Nat
        BY <4>1, CarryType, WordFacts DEF Word
      <4> QED
        BY <3>1, <3>3, <4>2, CarryType
    <3>4. CASE counter'[c] = counter[c]
      BY <3>1, <3>4
    <3> QED
      BY <3>2, <3>3, <3>4
  <2>4. \A c \in 1 .. Counters : Value(counter[c])' = Value(counter'[c])
    BY DEF Value
  <2> QED
    BY <1>1, <1>2, <2>2, <2>3, <2>4
<1>6. CASE Aside \/ UNCHANGED vars
  <2>1. UNCHANGED << thr, since, counter, mtime >>
    BY <1>6, AsideStep DEF vars, pcVars, ghosts
  <2> QED
    BY <1>3, <2>1
<1>7. CASE TakeInterrupt \/ Count \/ Mret
  BY <1>3, <1>7, HandlerSteps
<1>8. CASE MainAction
  <2>1. CASE timer_read \/ (\E b \in Bases : timer_enable(b))
             \/ (\E t \in Deadlines : timecmp_update(t)) \/ get_elapsed_time
    BY <1>4, <2>1, MainCalls DEF Enter, Idle
  <2>2. CASE pcount_reset
    <3>1. /\ thr'["main"].pc = "csrw" /\ thr'["main"].new = 1 /\ since'["main"] = mtime
          /\ mtime' = mtime
      BY <1>8, <2>2, MainCalls, MainFrame DEF Enter, Idle
    <3> QED
      BY <1>1, <3>1
  <2>3. CASE ClearHi \/ SetIncrement \/ SetMie \/ SetMstatus
    <3>1. thr'["main"].fn = "timer_enable"
      BY <1>1, <2>3, MainSteps DEF ControlInv, Record
    <3> QED
      BY <1>4, <3>1
  <2>4. CASE Return
    BY <1>4, <2>4, MainSteps DEF Idle
  <2>5. CASE LoadFirst \/ LoadSecond
    <3>1. thr["main"].fn \in {"load_hi", "load_lo"}
      BY <2>5, MainSteps DEF ControlInv
    <3>2. thr'["main"].fn = thr["main"].fn
      BY <1>1, <2>5, MainSteps DEF Record
    <3> QED
      BY <1>4, <3>1, <3>2
  <2>6. CASE ResetCsr
    <3> DEFINE i == thr["main"].new
    <3>1. /\ thr["main"].pc = "csrw" /\ thr["main"].fn = "pcount_reset"
          /\ thr'["main"].new = i + 1
          /\ thr'["main"].pc = IF i = 2 * Counters THEN "done" ELSE "csrw"
          /\ thr'["main"].fn = thr["main"].fn /\ since' = since /\ mtime' = mtime
      BY <1>1, <1>8, <2>6, MainSteps, MainFrame DEF ControlInv, Record
    <3>2. i \in 1 .. 2 * Counters /\ since["main"] <= mtime
      BY <3>1
    <3>3. counter' = [counter EXCEPT ![ResetOrder(i)[1]] = [@ EXCEPT ![ResetOrder(i)[2]] = 0]]
      BY <2>6, MainSteps
    <3>4. CASE i <= Counters
      <4>1. counter' = [counter EXCEPT ![i] = [@ EXCEPT ![1] = 0]] /\ i \in 1 .. Counters
        BY <3>2, <3>3, <3>4 DEF ResetOrder
      <4>2. counter'[i][1] = 0 /\ \A c \in 1 .. Counters \ {i} : counter'[c] = counter[c]
        BY <1>2, <4>1, WordPairs DEF SysTypeOK
      <4>3. i # 2 * Counters
        BY <1>1, <3>4
      <4> QED
        <5>1. \A c \in 1 .. Counters : c < i + 1 => c < i \/ c = i
          BY <1>1, <3>4
        <5>2. \A c \in 1 .. Counters : ~(c + Counters < i + 1)
          BY <1>1, <3>4
        <5>3. \A c \in 1 .. Counters : c < i + 1 => counter'[c][1] <= mtime - since["main"]
          BY <1>1, <3>1, <3>2, <4>2, <5>1
        <5> QED
          BY <1>1, <3>1, <3>2, <4>3, <5>2, <5>3
    <3>5. CASE i > Counters
      <4> DEFINE k == i - Counters
      <4>1. counter' = [counter EXCEPT ![k] = [@ EXCEPT ![2] = 0]] /\ k \in 1 .. Counters
        <5>1. ResetOrder(i) = << k, 2 >>
          BY <1>1, <3>2, <3>5 DEF ResetOrder
        <5>2. k \in 1 .. Counters
          BY <1>1, <3>2, <3>5
        <5> QED
          BY <3>3, <5>1, <5>2
      <4>2. /\ counter'[k] = << counter[k][1], 0 >>
            /\ \A c \in 1 .. Counters \ {k} : counter'[c] = counter[c]
        BY <1>2, <4>1, WordPairs DEF SysTypeOK
      <4>3. counter'[k][1] = counter[k][1] /\ Value(counter'[k]) = counter[k][1]
        BY <1>2, <4>1, <4>2, WordFacts DEF Value
      <4>4. \A c \in 1 .. Counters : Value(counter[c])' = Value(counter'[c])
        BY DEF Value
      <4>5. \A c \in 1 .. Counters :
              /\ counter'[c][1] <= mtime - since["main"]
              /\ c + Counters < i + 1 => Value(counter'[c]) <= mtime - since["main"]
        <5> SUFFICES ASSUME NEW c \in 1 .. Counters
                     PROVE  /\ counter'[c][1] <= mtime - since["main"]
                            /\ c + Counters < i + 1 =>
                                 Value(counter'[c]) <= mtime - since["main"]
          OBVIOUS
        <5>1. counter[c][1] <= mtime - since["main"]
          BY <1>1, <3>1, <3>2, <3>5
        <5>2. CASE c = k
          BY <4>3, <5>1, <5>2
        <5>3. CASE c # k
          <6>1. counter'[c] = counter[c]
            BY <4>2, <5>3
          <6>2. c + Counters < i + 1 => c + Counters < i
            BY <1>1, <4>1, <5>3
          <6>3. c + Counters < i => Value(counter[c]) <= mtime - since["main"]
            BY <3>1
          <6> QED
            BY <5>1, <6>1, <6>2, <6>3
        <5> QED
          BY <5>2, <5>3
      <4> QED
        BY <1>1, <3>1, <3>2, <3>5, <4>4, <4>5
    <3> QED
      BY <1>1, <3>4, <3>5
  <2> QED
    BY <1>8, <2>1, <2>2, <2>3, <2>4, <2>5, <2>6 DEF MainAction
<1>9. ASSUME NEW y \in Threads, Thread(y) PROVE CounterInv'
  <2>1. UNCHANGED << counter, since, mtime >> /\ (y # "main" => thr'["main"] = thr["main"])
        /\ thr'[y].fn = thr[y].fn
    BY <1>1, <1>9, ThreadFrame
  <2>2. CASE y # "main"
    BY <1>3, <2>1, <2>2
  <2>3. CASE y = "main"
    <3>1. thr["main"].pc \in Reading \cup Updating
      BY <1>9, <2>3, ReadSteps, UpdateSteps DEF Thread, Reading, Updating
    <3> QED
      BY <1>4, <2>1, <2>3, <3>1 DEF ControlInv
  <2> QED
    BY <2>2, <2>3
<1> QED
  BY <1>5, <1>6, <1>7, <1>8, <1>9, Steps

LEMMA Periods ==
  ASSUME NEW p \in Nat, NEW e \in Nat, NEW f \in Nat, f <= e + 1
  PROVE  p * e \in Nat /\ p * f \in Nat /\ p * f <= p * e + p
<1>1. p * (e + 1 - f) \in Nat
  OBVIOUS
<1>2. p * (e + 1 - f) = p * e + p - p * f
  OBVIOUS
<1> QED
  BY <1>1, <1>2

\* A period added to a value of the clock does not overflow.
LEMMA NextDeadline ==
  ASSUME NEW t \in 0 .. MaxTime, NEW b \in Bases
  PROVE  (t + b) % (W * W) = t + b
<1> DEFINE w == W * W
<1>1. t + b \in Nat /\ t + b < w /\ w \in Nat
  BY WordFacts, SimpleSystemAssumption DEF SimpleSystemAssumption
<1> HIDE DEF w
<1>2. (t + b) % w = t + b
  BY <1>1
<1> QED
  BY <1>2 DEF w

\* The compare value once both words have been written.
LEMMA WholeCmp ==
  ASSUME NEW n \in Nat, cmph' = n \div W, cmpl' = n % W
  PROVE  cmp' = n
BY Halves DEF cmp

LEMMA ElapsedStep ==
  ASSUME SysTypeOK, SysTypeOK', ControlInv, \A x \in Threads : ReadInv(x), ElapsedInv, [Next]_vars
  PROVE  ElapsedInv'
<1>1. /\ \A y \in Threads : thr[y] \in Record /\ since[y] \in Nat /\ thr[y].new \in Nat
      /\ "main" \in Threads /\ "irq" \in Threads /\ Threads = {"main", "irq"}
      /\ mtime \in 0 .. MaxTime /\ MaxTime \in Nat /\ increment \in Nat /\ start \in Nat
      /\ Value(elapsed) \in Nat /\ Bases \subseteq Nat /\ increment * Value(elapsed) \in Nat
  BY WordFacts, CarryType, Periods, SimpleSystemAssumption
     DEF SysTypeOK, Threads, Record, SimpleSystemAssumption
<1>2. cmp \in Nat
  <2>1. cmph \in Nat /\ cmpl \in Nat
    BY WordFacts DEF SysTypeOK, Word
  <2> QED
    BY <2>1, Products DEF cmp
<1>3. ASSUME MeterInv, UNCHANGED << increment, elapsed, cmph, cmpl, start >>,
             mtime' \in {mtime, mtime + 1}, thr'["irq"] = thr["irq"],
             since'["irq"] = since["irq"]
      PROVE  MeterInv'
  BY <1>1, <1>3 DEF MeterInv, Value, cmp
<1>4. SUFFICES ASSUME clean'
               PROVE  /\ thr'["main"].fn # "timecmp_update"
                      /\ IF SettingUp' THEN SetUpInv' ELSE MeterInv'
  BY DEF ElapsedInv
<1>5. CASE Tick \/ Aside \/ UNCHANGED vars
  <2>1. /\ UNCHANGED << cmph, cmpl, elapsed, increment, thr, since, clean, start >>
        /\ mie' \in {0, mie} /\ mtime' \in {mtime, mtime + 1}
    BY <1>5, Rest
  <2>2. CASE SettingUp
    BY <1>1, <1>4, <2>1, <2>2 DEF ElapsedInv, SettingUp, SetUpInv
  <2>3. CASE ~SettingUp
    BY <1>3, <1>4, <2>1, <2>3 DEF ElapsedInv, SettingUp
  <2> QED
    BY <2>2, <2>3
<1>6. CASE TakeInterrupt \/ Count \/ Mret
  <2>1. /\ thr'["main"] = thr["main"] /\ since'["main"] = since["main"]
        /\ UNCHANGED << mtime, cmph, cmpl, mie, increment, clean, start >>
    BY <1>6, HandlerSteps
  <2>2. ~SettingUp /\ thr["main"].fn # "timecmp_update" /\ MeterInv
    <3>1. mie = 1 \/ thr["irq"].pc # "idle"
      BY <1>6, HandlerSteps
    <3> QED
      BY <1>4, <2>1, <3>1 DEF ElapsedInv, SetUpInv
  <2>3. CASE TakeInterrupt
    <3>1. /\ thr["irq"].pc = "idle" /\ mtime >= cmp /\ elapsed' = elapsed
          /\ thr'["irq"].pc = "read_hi" /\ thr'["irq"].new = increment
          /\ since'["irq"] = mtime
      BY <2>3, HandlerSteps DEF Enter, Idle
    <3>2. MeterInv'
      BY <1>1, <1>2, <2>1, <2>2, <3>1 DEF MeterInv, Value, Reading, Updating
    <3> QED
      BY <2>1, <2>2, <3>2 DEF SettingUp
  <2>4. CASE Count
    <3>1. /\ thr["irq"].pc = "count" /\ thr'["irq"].pc = "mret" /\ since' = since
          /\ elapsed' = Carry(elapsed)
      BY <1>1, <2>4, HandlerSteps DEF Record
    <3>2. Value(elapsed)' \in Nat /\ Value(elapsed)' <= Value(elapsed) + 1
      <4>1. Value(elapsed)' = Value(Carry(elapsed))
        BY <3>1 DEF Value
      <4>2. elapsed \in Word \X Word /\ Carry(elapsed) \in Word \X Word
        BY CarryType DEF SysTypeOK
      <4> QED
        BY <4>1, <4>2, CarryType
    <3> DEFINE p == increment * Value(elapsed)
               n == increment * Value(elapsed)'
    <3>3. p \in Nat /\ n \in Nat /\ n <= p + increment /\ n = (increment * Value(elapsed))'
      BY <1>1, <2>1, <3>2, Periods
    <3>4. /\ p + increment <= since["irq"] - start /\ cmp >= since["irq"] + increment
          /\ increment \in Bases /\ since["irq"] <= mtime
      BY <1>1, <2>2, <3>1 DEF MeterInv, ReadInv, Reading, Updating
    <3> HIDE DEF p, n
    <3>5. n <= mtime - start /\ n + increment <= cmp - start
      BY <1>1, <1>2, <3>3, <3>4
    <3>6. MeterInv'
      BY <1>1, <2>1, <3>1, <3>3, <3>4, <3>5 DEF MeterInv, Reading, Updating, cmp
    <3> QED
      BY <2>1, <2>2, <3>6 DEF SettingUp
  <2>5. CASE Mret
    <3>1. thr["irq"].pc = "mret" /\ thr'["irq"].pc = "idle" /\ elapsed' = elapsed
      BY <2>5, HandlerSteps DEF Idle
    <3>2. MeterInv'
      BY <1>1, <2>1, <2>2, <3>1 DEF MeterInv, Value, Reading, Updating, cmp
    <3> QED
      BY <2>1, <2>2, <3>2 DEF SettingUp
  <2> QED
    BY <1>6, <2>3, <2>4, <2>5
<1>7. CASE MainAction
  <2>1. /\ UNCHANGED << mtime, cmph, cmpl >> /\ thr["irq"].pc = "idle"
        /\ thr'["irq"] = thr["irq"] /\ since'["irq"] = since["irq"]
    BY <1>7, MainFrame
  <2>2. ASSUME UNCHANGED << elapsed, increment, clean, start >>, ~SettingUp, ~SettingUp',
               thr'["main"].fn # "timecmp_update"
        PROVE  thr'["main"].fn # "timecmp_update"
               /\ IF SettingUp' THEN SetUpInv' ELSE MeterInv'
    BY <1>3, <1>4, <2>1, <2>2 DEF ElapsedInv
  <2>3. CASE timer_read \/ get_elapsed_time \/ pcount_reset
    <3>1. /\ thr["main"].pc = "idle" /\ thr["main"].fn # "timer_enable"
          /\ thr'["main"].fn \in {"timer_read", "load_hi", "load_lo", "pcount_reset"}
          /\ UNCHANGED << elapsed, increment, clean, start >>
      BY <2>3, MainCalls DEF Enter, Idle, ControlInv
    <3> QED
      BY <2>2, <3>1 DEF SettingUp
  <2>4. ASSUME NEW t \in Deadlines, timecmp_update(t) PROVE FALSE
    BY <1>4, <2>4, MainCalls
  <2>5. ASSUME NEW b \in Bases, timer_enable(b)
        PROVE  thr'["main"].fn # "timecmp_update"
               /\ IF SettingUp' THEN SetUpInv' ELSE MeterInv'
    <3>1. /\ thr'["main"].fn = "timer_enable" /\ thr'["main"].pc = "clear_hi"
          /\ thr'["main"].new = b
      BY <2>5, MainCalls DEF Enter, Idle
    <3>2. /\ elapsed' = [elapsed EXCEPT ![1] = 0] /\ start' = mtime /\ since'["main"] = mtime
          /\ mie' = mie /\ clean' = (mie = 0)
      BY <2>5, MainCalls
    <3>3. elapsed'[1] = 0
      BY <3>2, WordPairs DEF SysTypeOK
    <3>4. mie = 0
      BY <1>4, <3>2
    <3>5. SettingUp' /\ SetUpInv'
      BY <1>1, <2>1, <3>1, <3>2, <3>3, <3>4 DEF SettingUp, SetUpInv, Reading, Updating
    <3> QED
      BY <3>1, <3>5
  <2>6. CASE ClearHi \/ SetIncrement
    <3>1. /\ thr["main"].fn = "timer_enable" /\ thr'["main"].fn = "timer_enable"
          /\ thr'["main"].new = thr["main"].new /\ UNCHANGED << mie, since, clean, start >>
      BY <1>1, <2>6, MainSteps DEF Record, ControlInv
    <3>2. SettingUp /\ SetUpInv
      BY <1>4, <2>6, <3>1, MainSteps DEF SettingUp, ElapsedInv
    <3>3. CASE ClearHi
      <4>1. thr'["main"].pc = "set_increment" /\ elapsed' = [elapsed EXCEPT ![2] = 0]
        BY <1>1, <3>3, MainSteps DEF Record
      <4>2. elapsed'[1] = 0 /\ elapsed'[2] = 0 /\ thr["main"].pc = "clear_hi"
        <5>1. elapsed \in Word \X Word /\ elapsed[1] = 0
          BY <3>2 DEF SetUpInv, SysTypeOK
        <5>2. elapsed' = << elapsed[1], 0 >>
          BY <4>1, <5>1, WordPairs
        <5> QED
          BY <3>3, <5>1, <5>2, MainSteps
      <4>3. SettingUp' /\ SetUpInv'
        BY <2>1, <3>1, <3>2, <4>1, <4>2 DEF SettingUp, SetUpInv, Reading, Updating
      <4> QED
        BY <3>1, <4>3
    <3>4. CASE SetIncrement
      <4>1. /\ thr["main"].pc = "set_increment" /\ thr'["main"].pc = "read_hi"
            /\ increment' = thr["main"].new /\ elapsed' = elapsed
        BY <1>1, <3>4, MainSteps DEF Record
      <4>2. SettingUp' /\ SetUpInv'
        BY <2>1, <3>1, <3>2, <4>1 DEF SettingUp, SetUpInv, Reading, Updating
      <4> QED
        BY <3>1, <4>2
    <3> QED
      BY <2>6, <3>3, <3>4
  <2>7. CASE SetMie \/ SetMstatus
    <3>1. /\ thr["main"].pc \in {"set_mie", "set_mstatus"}
          /\ thr'["main"].pc \in {"set_mstatus", "done"} /\ thr'["main"].fn = "timer_enable"
          /\ UNCHANGED << elapsed, increment, clean, start >>
      BY <1>1, <2>7, MainSteps DEF Record, ControlInv
    <3> QED
      BY <2>2, <3>1 DEF SettingUp
  <2>8. CASE Return
    <3>1. /\ thr["main"].pc = "done" /\ thr'["main"].fn = "none"
          /\ UNCHANGED << elapsed, increment, clean, start >>
      BY <2>8, MainSteps DEF Idle
    <3> QED
      BY <2>2, <3>1 DEF SettingUp
  <2>9. CASE ResetCsr \/ LoadFirst \/ LoadSecond
    <3>1. /\ thr["main"].fn \in {"pcount_reset", "load_hi", "load_lo"}
          /\ UNCHANGED << elapsed, increment, clean, start >>
      BY <2>9, MainSteps DEF ControlInv
    <3>2. thr'["main"].fn = thr["main"].fn
      BY <1>1, <2>9, MainSteps DEF Record
    <3> QED
      BY <2>2, <3>1, <3>2 DEF SettingUp
  <2> QED
    BY <1>7, <2>3, <2>4, <2>5, <2>6, <2>7, <2>8, <2>9 DEF MainAction
<1>8. ASSUME NEW y \in Threads, Thread(y)
      PROVE  thr'["main"].fn # "timecmp_update"
             /\ IF SettingUp' THEN SetUpInv' ELSE MeterInv'
  <2>1. /\ UNCHANGED << mtime, mie, elapsed, increment, since, clean, start >>
        /\ \A z \in Threads \ {y} : thr'[z] = thr[z]
        /\ y = "main" => thr["irq"].pc = "idle"
        /\ thr'[y].fn = thr[y].fn
    BY <1>8, ThreadFrame
  <2>2. thr[y].pc \in Reading \cup Updating
    BY <1>8, ReadSteps, UpdateSteps DEF Thread, Reading, Updating
  <2>3. thr'["main"].fn = thr["main"].fn /\ thr["main"].fn # "timecmp_update" /\ clean
    BY <1>1, <1>4, <2>1 DEF ElapsedInv
  \* What the thread has in new, once it has read the clock.
  <2>4. ASSUME ReadDone(y), thr[y].fn # "timer_read", thr[y].new = increment, increment \in Bases
        PROVE  thr'[y].pc = "cmp_off" /\ thr'[y].new >= since[y] + increment
    <3>1. /\ thr[y].pc = "read_done" /\ thr'[y].pc = "cmp_off"
          /\ thr'[y].new = (TimeRead(y) + thr[y].new) % (W * W)
      BY <2>4, ReadSteps
    <3>2. TimeRead(y) \in since[y] .. mtime
      BY <3>1 DEF ReadInv
    <3>3. TimeRead(y) \in 0 .. MaxTime
      BY <1>1, <3>2
    <3>4. thr'[y].new = TimeRead(y) + increment
      BY <2>4, <3>1, <3>3, NextDeadline
    <3> QED
      BY <1>1, <3>1, <3>2, <3>4
  <2>5. ReadHi(y) \/ ReadLo(y) \/ ReadAgain(y) =>
          /\ thr[y].pc \in Reading /\ thr'[y].pc \in Reading /\ thr'[y].new = thr[y].new
          /\ UNCHANGED << cmph, cmpl >>
    BY <1>1, ReadSteps DEF Record, Reading
  <2>6. CASE y = "irq"
    <3>1. ~SettingUp /\ ~SettingUp' /\ MeterInv
      <4>1. thr["irq"].pc # "idle"
        BY <2>2, <2>6 DEF Reading, Updating
      <4> QED
        BY <1>1, <2>1, <2>3, <2>6, <4>1 DEF ElapsedInv, SetUpInv, SettingUp
    <3>2. (increment * Value(elapsed))' = increment * Value(elapsed) /\ since' = since
          /\ start' = start /\ mtime' = mtime /\ increment' = increment
      BY <2>1 DEF Value
    <3>3. CASE ReadHi(y) \/ ReadLo(y) \/ ReadAgain(y)
      BY <1>1, <2>3, <2>5, <2>6, <3>1, <3>2, <3>3 DEF MeterInv, Reading, Updating
    <3>4. CASE ReadDone(y)
      <4>1. thr[y].pc = "read_done" /\ thr[y].fn = "handler" /\ thr[y].new = increment
            /\ increment \in Bases
        BY <2>6, <3>1, <3>4, ReadSteps DEF MeterInv, Reading, ControlInv
      <4> QED
        BY <1>1, <2>3, <2>4, <2>6, <3>1, <3>2, <3>4, <4>1 DEF MeterInv, Reading, Updating
    <3>5. CASE CmpOff(y) \/ CmpHi(y)
      <4>1. /\ thr[y].pc \in Updating /\ thr'[y].pc \in {"cmp_hi", "cmp_lo"}
            /\ thr'[y].new = thr[y].new
            /\ thr'[y].pc = "cmp_lo" => cmph' = thr[y].new \div W
        BY <3>5, UpdateSteps DEF Updating
      <4> QED
        BY <1>1, <2>3, <2>6, <3>1, <3>2, <4>1 DEF MeterInv, Reading, Updating
    <3>6. CASE CmpLo(y)
      <4>1. thr[y].pc = "cmp_lo" /\ thr'[y].pc = "count" /\ cmph' = cmph
            /\ cmpl' = thr[y].new % W
        BY <2>6, <3>6, UpdateSteps DEF ControlInv
      <4>2. cmp' = thr[y].new
        BY <1>1, <2>6, <3>1, <4>1, WholeCmp DEF MeterInv
      <4> QED
        BY <1>1, <2>3, <2>6, <3>1, <3>2, <4>1, <4>2 DEF MeterInv, Reading, Updating
    <3> QED
      BY <1>8, <3>3, <3>4, <3>5, <3>6 DEF Thread
  <2>7. CASE y = "main" /\ thr["main"].fn = "timer_enable"
    <3>1. SettingUp /\ SetUpInv /\ thr'["irq"] = thr["irq"] /\ thr["main"].pc \in Labels
      BY <1>1, <2>1, <2>2, <2>3, <2>7 DEF ElapsedInv, SettingUp, Reading, Updating, Record
    <3>2. CASE ReadHi(y) \/ ReadLo(y) \/ ReadAgain(y)
      <4>1. SettingUp' /\ SetUpInv'
        BY <2>1, <2>5, <2>7, <3>1, <3>2 DEF SettingUp, SetUpInv, Reading, Updating
      <4> QED
        BY <2>3, <4>1
    <3>3. CASE ReadDone(y)
      <4>1. thr[y].pc = "read_done" /\ thr[y].new = increment /\ increment \in Bases
        BY <2>7, <3>1, <3>3, ReadSteps DEF SetUpInv, Reading
      <4>2. thr'[y].pc = "cmp_off" /\ thr'[y].new >= since[y] + increment
        BY <2>4, <2>7, <3>3, <4>1
      <4>3. SettingUp' /\ SetUpInv'
        BY <2>1, <2>7, <3>1, <4>1, <4>2 DEF SettingUp, SetUpInv, Reading, Updating
      <4> QED
        BY <2>3, <4>3
    <3>4. CASE CmpOff(y) \/ CmpHi(y)
      <4>1. /\ thr[y].pc \in Updating /\ thr'[y].pc \in {"cmp_hi", "cmp_lo"}
            /\ thr'[y].new = thr[y].new
            /\ thr'[y].pc = "cmp_lo" => cmph' = thr[y].new \div W
        BY <3>4, UpdateSteps DEF Updating
      <4>2. SettingUp' /\ SetUpInv'
        BY <2>1, <2>7, <3>1, <4>1 DEF SettingUp, SetUpInv, Reading, Updating
      <4> QED
        BY <2>3, <4>2
    <3>5. CASE CmpLo(y)
      <4>1. thr[y].pc = "cmp_lo" /\ thr'[y].pc = "set_mie" /\ cmph' = cmph
            /\ cmpl' = thr[y].new % W
        BY <2>7, <3>5, UpdateSteps
      <4>2. cmp' = thr[y].new
        BY <1>1, <2>7, <3>1, <4>1, WholeCmp DEF SetUpInv
      <4>3. elapsed[1] = 0 /\ elapsed[2] = 0 /\ Value(elapsed)' = 0
        BY <2>1, <2>7, <3>1, <4>1, WordFacts DEF SetUpInv, Value
      <4>4. ~SettingUp' /\ (increment * Value(elapsed))' = 0
        BY <1>1, <2>1, <2>7, <4>1, <4>3 DEF SettingUp
      <4>5. /\ thr'["irq"].pc = "idle" /\ increment' \in Bases /\ start' <= mtime'
            /\ cmp' >= start' + increment' /\ start' \in Nat /\ increment' \in Nat
            /\ cmp' \in Nat /\ mtime' \in Nat
        BY <1>1, <2>1, <2>7, <3>1, <4>1, <4>2 DEF SetUpInv, Reading, Updating
      <4>6. MeterInv'
        BY <4>4, <4>5 DEF MeterInv, Reading, Updating
      <4> QED
        BY <2>3, <4>4, <4>6
    <3> QED
      BY <1>8, <3>2, <3>3, <3>4, <3>5 DEF Thread
  <2>8. CASE y = "main" /\ thr["main"].fn # "timer_enable"
    <3>1. thr["main"].pc \in Reading /\ thr["main"].fn = "timer_read"
      BY <2>2, <2>3, <2>8 DEF ControlInv
    <3>2. ~SettingUp /\ ~SettingUp' /\ MeterInv
      BY <2>1, <2>3, <2>8 DEF ElapsedInv, SettingUp
    <3>3. UNCHANGED << cmph, cmpl >>
      BY <1>8, <2>8, <3>1, ReadSteps, UpdateSteps DEF Thread, Reading
    <3>4. thr'["irq"] = thr["irq"]
      BY <1>1, <2>1, <2>8
    <3> QED
      BY <1>3, <2>1, <2>3, <3>2, <3>3, <3>4
  <2> QED
    BY <1>1, <2>6, <2>7, <2>8
<1> QED
  BY <1>5, <1>6, <1>7, <1>8, Steps

-----------------------------------------------------------------------------
(* The invariant, and what it says of each function. *)

LEMMA SysInit == ASSUME Init PROVE SysInv
<1>1. \A x \in Threads : thr[x] = Idle /\ since[x] = 0 /\ old[x] = -1
  BY DEF Init
<1>2. "main" \in Threads /\ "irq" \in Threads /\ mtime = 0 /\ ~clean
  BY DEF Init, Threads
<1>3. ControlInv
  BY <1>1, <1>2 DEF ControlInv, Idle, Reading, Updating
<1>4. \A x \in Threads : ReadInv(x) /\ UpdateInv(x)
  BY <1>1, <1>2 DEF ReadInv, UpdateInv, Idle, Reading
<1>5. ElapsedInv /\ LoadInv /\ CounterInv
  BY <1>1, <1>2 DEF ElapsedInv, LoadInv, CounterInv, Idle
<1> QED
  BY <1>3, <1>4, <1>5, SysTypeInit DEF SysInv

LEMMA SysStep == ASSUME SysInv, [Next]_vars PROVE SysInv'
<1>1. SysTypeOK'
  BY SysTypeStep DEF SysInv
<1>2. ControlInv' /\ ElapsedInv'
  BY <1>1, ControlStep, ElapsedStep DEF SysInv
<1>3. LoadInv' /\ CounterInv'
  BY LoadStep, CounterStep DEF SysInv
<1>4. \A x \in Threads : ReadInv(x)' /\ UpdateInv(x)'
  BY ReadStep, UpdateStep DEF SysInv
<1> QED
  BY <1>1, <1>2, <1>3, <1>4 DEF SysInv

LEMMA SysInvariant == Spec => []SysInv
<1>1. Init => SysInv
  BY SysInit
<1>2. SysInv /\ [Next]_vars => SysInv'
  BY SysStep
<1> QED
  BY <1>1, <1>2, PTL DEF Spec

\* timer_read (simple_system_common.c) returns a value the 64-bit timer had
\* during the call, for words of every size and however often it is
\* interrupted between its three loads.
THEOREM TimerReadIsTrue == Spec => []TimerReadTrue
<1>1. SysInv => TimerReadTrue
  BY DEF SysInv, ReadInv, TimerReadTrue
<1> QED
  BY <1>1, SysInvariant, PTL

\* timecmp_update never raises the interrupt line for a moment in between the
\* old and the new compare value, whichever word of the two carries.
THEOREM UpdateIsSilent == Spec => []NoSpuriousInterrupt
<1>1. SysInv => NoSpuriousInterrupt
  <2> SUFFICES ASSUME SysInv, NEW x \in Threads, thr[x].pc \in {"cmp_hi", "cmp_lo"},
                      old[x] # -1, mtip
               PROVE  mtime >= old[x] \/ mtime >= thr[x].new
    BY DEF NoSpuriousInterrupt
  <2>1. UpdateInv(x) /\ mtime \in Nat /\ old[x] \in Int /\ thr[x].new \in Nat
    BY WordFacts DEF SysInv, SysTypeOK, Record
  <2>2. cmp \in Int /\ mtime >= cmp
    <3>1. cmph \in Nat /\ cmpl \in Nat
      BY WordFacts DEF SysInv, SysTypeOK, Word
    <3> QED
      BY <3>1, Products DEF cmp, mtip
  <2> QED
    BY <2>1, <2>2 DEF UpdateInv
<1> QED
  BY <1>1, SysInvariant, PTL

\* A timer enabled while it was off never counts more periods in time_elapsed
\* than have passed since timer_enable was called.
THEOREM ElapsedIsNotAhead == Spec => []ElapsedNotAhead
<1>1. SysInv => ElapsedNotAhead
  BY DEF SysInv, ElapsedInv, SettingUp, MeterInv, ElapsedNotAhead
<1> QED
  BY <1>1, SysInvariant, PTL

\* The two loads of get_elapsed_time, in either order and with the handler
\* between them, give a count of the time of the call, unless the low word of
\* time_elapsed overflowed in it.
THEOREM ElapsedIsTornOnlyAtWrap == Spec => []ElapsedTornOnlyAtWrap
<1>1. SysInv => ElapsedTornOnlyAtWrap
  BY DEF SysInv, LoadInv, ElapsedTornOnlyAtWrap
<1> QED
  BY <1>1, SysInvariant, PTL

\* pcount_reset, which writes the counters word by word while they count,
\* leaves none of them above the clocks the call has taken.
THEOREM CountersAreFresh == Spec => []CountersFresh
<1>1. SysInv => CountersFresh
  BY DEF SysInv, CounterInv, CountersFresh
<1> QED
  BY <1>1, SysInvariant, PTL

-----------------------------------------------------------------------------
(* Induction and recursion over the naturals, the property given as a set  *)
(* and the step as a function: every nonempty set of naturals has a least  *)
(* element.                                                                *)

LEMMA LeastElement ==
  ASSUME NEW T, T \subseteq Nat, T # {}
  PROVE  \E x \in T : \A y \in T : x <= y
<1>1. IsWellFoundedOn(OpToRel(<, Nat), Nat)
  BY NatLessThanWellFounded
<1>2. PICK x \in T : \A y \in T : ~(<< y, x >> \in OpToRel(<, Nat))
  BY <1>1, WFMin
<1>3. \A y \in T : ~(y < x)
  BY <1>2 DEF OpToRel
<1> QED
  BY <1>3

LEMMA Induction ==
  ASSUME NEW T, 0 \in T, \A n \in Nat : n \in T => n + 1 \in T
  PROVE  \A n \in Nat : n \in T
<1> SUFFICES ASSUME NEW m \in Nat, m \notin T PROVE FALSE
  OBVIOUS
<1>1. PICK x \in Nat \ T : \A y \in Nat \ T : x <= y
  BY LeastElement
<1>2. x # 0 /\ x - 1 \in Nat
  BY <1>1
<1>3. x - 1 \in T
  BY <1>1, <1>2
<1> QED
  BY <1>1, <1>2, <1>3

\* The functions f on the naturals that begin with c and go on by the step S.
StepsOn(V)    == [Nat -> [V -> V]]
Goes(f, c, S) == f[0] = c /\ \A n \in Nat : f[n + 1] = S[n + 1][f[n]]

\* There is one.
LEMMA Recursion ==
  ASSUME NEW V, NEW c, NEW S, c \in V, S \in StepsOn(V)
  PROVE  \E f : f \in [Nat -> V] /\ Goes(f, c, S)
<1> USE DEF StepsOn
<1> DEFINE Begins(g, n) == /\ g \in [0 .. n -> V] /\ g[0] = c
                           /\ \A i \in 0 .. n - 1 : g[i + 1] = S[i + 1][g[i]]
           Known == {n \in Nat : \E g \in [0 .. n -> V] : Begins(g, n)}
           Same(n) == \A m \in Nat : \A g \in [0 .. n -> V], h \in [0 .. m -> V] :
                        n <= m /\ Begins(g, n) /\ Begins(h, m) => g[n] = h[n]
           Agreed == {n \in Nat : Same(n)}
<1>1. \A n \in Nat : n \in Known
  <2>1. 0 \in Known
    <3> DEFINE g == [i \in 0 .. 0 |-> c]
    <3>1. Begins(g, 0)
      OBVIOUS
    <3> QED
      BY <3>1
  <2>2. ASSUME NEW n \in Nat, n \in Known PROVE n + 1 \in Known
    <3>1. PICK g \in [0 .. n -> V] : Begins(g, n)
      BY <2>2
    <3> DEFINE h == [i \in 0 .. n + 1 |-> IF i <= n THEN g[i] ELSE S[i][g[n]]]
    <3>2. g[n] \in V /\ S[n + 1][g[n]] \in V
      OBVIOUS
    <3>3. h \in [0 .. n + 1 -> V]
      BY <3>2
    <3>4. h[0] = c
      BY <3>1
    <3>5. ASSUME NEW i \in 0 .. n PROVE h[i + 1] = S[i + 1][h[i]]
      <4>1. h[i] = g[i]
        OBVIOUS
      <4>2. CASE i = n
        BY <4>1, <4>2
      <4>3. CASE i < n
        <5>1. h[i + 1] = g[i + 1] /\ i \in 0 .. n - 1
          BY <4>3
        <5> QED
          BY <3>1, <4>1, <5>1
      <4> QED
        BY <4>2, <4>3
    <3>6. Begins(h, n + 1)
      <4> HIDE DEF h
      <4> QED
        BY <3>3, <3>4, <3>5
    <3> HIDE DEF Begins, h
    <3> QED
      BY <3>3, <3>6
  <2> HIDE DEF Known
  <2> QED
    BY <2>1, <2>2, Induction
<1>2. \A n \in Nat : n \in Agreed
  <2>1. 0 \in Agreed
    <3>1. Same(0)
      OBVIOUS
    <3> HIDE DEF Same
    <3> QED
      BY <3>1
  <2>2. ASSUME NEW n \in Nat, n \in Agreed PROVE n + 1 \in Agreed
    <3> SUFFICES ASSUME NEW m \in Nat, NEW g \in [0 .. n + 1 -> V], NEW h \in [0 .. m -> V],
                        n + 1 <= m, Begins(g, n + 1), Begins(h, m)
                 PROVE  g[n + 1] = h[n + 1]
      <4> HIDE DEF Begins
      <4> QED
        OBVIOUS
    <3> DEFINE low == [i \in 0 .. n |-> g[i]]
    <3>1. low \in [0 .. n -> V]
      OBVIOUS
    <3>2. low[0] = c /\ \A i \in 0 .. n - 1 : low[i + 1] = S[i + 1][low[i]]
      <4>1. \A i \in 0 .. n : i \in 0 .. n + 1 /\ low[i] = g[i]
        OBVIOUS
      <4> HIDE DEF low
      <4> QED
        BY <4>1
    <3>3. Begins(low, n)
      BY <3>1, <3>2
    <3>4. low[n] = g[n] /\ n <= m
      OBVIOUS
    <3>5. Same(n)
      BY <2>2
    <3>6. low[n] = h[n]
      <4> HIDE DEF low, Begins
      <4> QED
        BY <3>1, <3>3, <3>4, <3>5
    <3>7. n \in 0 .. (n + 1) - 1 /\ n \in 0 .. m - 1
      OBVIOUS
    <3>8. g[n + 1] = S[n + 1][g[n]] /\ h[n + 1] = S[n + 1][h[n]]
      BY <3>7
    <3> QED
      BY <3>4, <3>6, <3>8
  <2> HIDE DEF Agreed
  <2> QED
    BY <2>1, <2>2, Induction
<1>3. PICK firsts \in [Nat -> UNION {[0 .. n -> V] : n \in Nat}] :
        \A n \in Nat : firsts[n] \in [0 .. n -> V] /\ Begins(firsts[n], n)
  <2> DEFINE pick == [n \in Nat |-> CHOOSE g \in [0 .. n -> V] : Begins(g, n)]
  <2>1. \A n \in Nat : pick[n] \in [0 .. n -> V] /\ Begins(pick[n], n)
    BY <1>1
  <2>2. pick \in [Nat -> UNION {[0 .. n -> V] : n \in Nat}]
    BY <2>1
  <2> HIDE DEF pick
  <2> QED
    BY <2>1, <2>2
<1> DEFINE f == [n \in Nat |-> firsts[n][n]]
<1>4. f \in [Nat -> V]
  BY <1>3
<1>5. f[0] = c
  BY <1>3
<1>6. ASSUME NEW n \in Nat PROVE f[n + 1] = S[n + 1][f[n]]
  <2>1. firsts[n + 1][n + 1] = S[n + 1][firsts[n + 1][n]]
    BY <1>3
  <2>2. /\ firsts[n] \in [0 .. n -> V] /\ Begins(firsts[n], n)
        /\ firsts[n + 1] \in [0 .. n + 1 -> V] /\ Begins(firsts[n + 1], n + 1)
    BY <1>3
  <2>3. Same(n) /\ n + 1 \in Nat /\ n <= n + 1
    <3> HIDE DEF Same
    <3> QED
      BY <1>2
  <2>4. firsts[n][n] = firsts[n + 1][n]
    <3> HIDE DEF Begins
    <3>1. \A g \in [0 .. n -> V], h \in [0 .. n + 1 -> V] :
            Begins(g, n) /\ Begins(h, n + 1) => g[n] = h[n]
      BY <2>3
    <3> QED
      BY <2>2, <3>1
  <2>5. f[n] = firsts[n][n] /\ f[n + 1] = firsts[n + 1][n + 1]
    OBVIOUS
  <2> HIDE DEF f
  <2> QED
    BY <2>1, <2>4, <2>5
<1> QED
  BY <1>4, <1>5, <1>6 DEF Goes

-----------------------------------------------------------------------------
(* The hexadecimal digits of the exception report.                         *)

LEMMA Powers ==
  /\ Pow16[0] = 1
  /\ \A n \in Nat : Pow16[n] \in Nat \ {0} /\ Pow16[n + 1] = 16 * Pow16[n]
<1> DEFINE V == Nat \ {0}
           S == [n \in Nat |-> [x \in V |-> 16 * x]]
           Def(f) == f = [n \in Nat |-> IF n = 0 THEN 1 ELSE 16 * f[n - 1]]
<1>1. 1 \in V /\ S \in StepsOn(V)
  BY DEF StepsOn
<1>2. PICK f : f \in [Nat -> V] /\ Goes(f, 1, S)
  <2> HIDE DEF V, S
  <2> QED
    BY <1>1, Recursion, Zenon
<1>3. f[0] = 1 /\ \A n \in Nat : f[n + 1] = 16 * f[n]
  <2>1. \A n \in Nat : f[n] \in V /\ n + 1 \in Nat
    BY <1>2
  <2>2. \A n \in Nat, x \in V : S[n][x] = 16 * x
    OBVIOUS
  <2> HIDE DEF S, V
  <2> QED
    BY <1>2, <2>1, <2>2 DEF Goes
<1>4. \A n \in Nat : n # 0 => f[n] = 16 * f[n - 1]
  <2> SUFFICES ASSUME NEW n \in Nat, n # 0 PROVE f[n] = 16 * f[n - 1]
    OBVIOUS
  <2>1. n - 1 \in Nat /\ (n - 1) + 1 = n
    OBVIOUS
  <2> QED
    BY <1>3, <2>1
<1>5. Def(f)
  BY <1>2, <1>3, <1>4
<1>6. Def(Pow16)
  <2>1. Pow16 = CHOOSE g : Def(g)
    BY DEF Pow16
  <2> HIDE DEF Def
  <2> QED
    BY <1>5, <2>1
<1>7. \A n \in Nat : Pow16[n + 1] = 16 * Pow16[n]
  BY <1>6
<1> DEFINE T == {m \in Nat : Pow16[m] \in Nat \ {0}}
<1>8. \A n \in Nat : n \in T
  <2>1. Pow16[0] = 1
    BY <1>6
  <2>2. 0 \in T /\ \A n \in Nat : n \in T => n + 1 \in T
    BY <1>7, <2>1
  <2> HIDE DEF T
  <2> QED
    BY <2>2, Induction
<1> QED
  BY <1>6, <1>7, <1>8

\* The partial sums of HexValue.
LEMMA PartialSums ==
  ASSUME NEW s \in Seq(Int)
  PROVE  \E sum \in [0 .. Len(s) -> Int] :
           /\ sum[0] = 0
           /\ \A i \in 1 .. Len(s) : sum[i] = 16 * sum[i - 1] + HexVal(s[i])
           /\ HexValue(s) = sum[Len(s)]
<1> DEFINE v(i) == IF i \in 1 .. Len(s) THEN HexVal(s[i]) ELSE 0
           S == [i \in Nat |-> [x \in Int |-> 16 * x + v(i)]]
           Def(f) == f = [i \in 0 .. Len(s) |->
                            IF i = 0 THEN 0 ELSE 16 * f[i - 1] + HexVal(s[i])]
<1>1. \A i \in Nat : v(i) \in Int
  BY DEF HexVal
<1>2. 0 \in Int /\ S \in StepsOn(Int)
  <2> HIDE DEF v
  <2> QED
    BY <1>1 DEF StepsOn
<1>3. PICK f : f \in [Nat -> Int] /\ Goes(f, 0, S)
  <2> HIDE DEF S
  <2> QED
    BY <1>2, Recursion, Zenon
<1>4. ASSUME NEW n \in 1 .. Len(s) PROVE f[n] = 16 * f[n - 1] + HexVal(s[n])
  <2>1. n - 1 \in Nat /\ (n - 1) + 1 = n /\ v(n) = HexVal(s[n])
    OBVIOUS
  <2>2. f[n] = S[n][f[n - 1]] /\ f[n - 1] \in Int
    BY <1>3, <2>1 DEF Goes
  <2>3. S[n][f[n - 1]] = 16 * f[n - 1] + v(n)
    BY <2>2
  <2> QED
    BY <2>1, <2>2, <2>3
<1> DEFINE sum == [i \in 0 .. Len(s) |-> f[i]]
<1>5. sum \in [0 .. Len(s) -> Int] /\ sum[0] = 0
  BY <1>3 DEF Goes
<1>6. \A i \in 1 .. Len(s) : sum[i] = 16 * sum[i - 1] + HexVal(s[i])
  BY <1>4
<1>7. Def(sum)
  <2> HIDE DEF sum
  <2> QED
    BY <1>5, <1>6
<1> DEFINE total == CHOOSE g : Def(g)
<1>8. HexValue(s) = total[Len(s)]
  BY DEF HexValue
<1>9. Def(total)
  <2> HIDE DEF Def, sum
  <2> QED
    BY <1>7
<1>10. total \in [0 .. Len(s) -> Int] /\ \A i \in 0 .. Len(s) : total[i] = sum[i]
  <2> DEFINE T == {i \in Nat : i <= Len(s) => total[i] = sum[i]}
  <2> HIDE DEF total, sum
  <2>1. 0 \in T
    BY <1>5, <1>9
  <2>2. ASSUME NEW n \in Nat, n \in T PROVE n + 1 \in T
    <3> SUFFICES ASSUME n + 1 <= Len(s) PROVE total[n + 1] = sum[n + 1]
      OBVIOUS
    <3>1. total[n] = sum[n]
      BY <2>2
    <3>2. n + 1 \in 1 .. Len(s) /\ (n + 1) - 1 = n /\ n + 1 \in 0 .. Len(s)
      OBVIOUS
    <3>3. total[n + 1] = 16 * total[n] + HexVal(s[n + 1])
      BY <1>9, <3>2
    <3>4. sum[n + 1] = 16 * sum[n] + HexVal(s[n + 1])
      BY <1>6, <3>2
    <3> QED
      BY <3>1, <3>3, <3>4
  <2>3. \A n \in Nat : n \in T
    <3> HIDE DEF T
    <3> QED
      BY <2>1, <2>2, Induction
  <2>4. \A i \in 0 .. Len(s) : total[i] = sum[i]
    BY <2>3
  <2>5. DOMAIN total = 0 .. Len(s)
    BY <1>9
  <2>6. total = [i \in 0 .. Len(s) |-> total[i]]
    BY <1>9
  <2> QED
    BY <1>5, <2>4, <2>6
<1>11. HexValue(s) = sum[Len(s)]
  <2>1. Len(s) \in 0 .. Len(s)
    OBVIOUS
  <2> HIDE DEF total, sum
  <2> QED
    BY <1>8, <1>10, <2>1
<1> HIDE DEF sum
<1> QED
  BY <1>5, <1>6, <1>11

LEMMA NextDigit ==
  ASSUME NEW x \in Nat, NEW Q \in Nat \ {0}
  PROVE  LET d == (x % (16 * Q)) \div Q
         IN d \in 0 .. 15 /\ (16 * x) \div (16 * Q) = 16 * (x \div (16 * Q)) + d
<1> DEFINE c == x \div (16 * Q)
           y == x % (16 * Q)
           d == y \div Q
           z == y % Q
<1>1. c \in Nat /\ y \in 0 .. 16 * Q - 1 /\ x = (16 * Q) * c + y
  <2> DEFINE R == 16 * Q
  <2>1. R \in Nat \ {0}
    OBVIOUS
  <2> HIDE DEF R
  <2>2. x \div R \in Nat /\ x % R \in 0 .. R - 1 /\ x = R * (x \div R) + (x % R)
    BY <2>1
  <2> QED
    BY <2>2 DEF R
<1>2. d \in Nat /\ z \in 0 .. Q - 1 /\ y = Q * d + z
  BY <1>1
<1> HIDE DEF c, y, d, z
<1>3. d < 16
  <2> SUFFICES ASSUME d >= 16 PROVE FALSE
    BY <1>2
  <2>1. Q * d >= 16 * Q
    BY <1>2
  <2> QED
    BY <1>1, <1>2, <2>1
<1>4. x \div Q = 16 * c + d
  BY <1>1, <1>2
<1>5. (16 * x) \div (16 * Q) = x \div Q
  OBVIOUS
<1> QED
  BY <1>2, <1>3, <1>4, <1>5 DEF c, y, d

LEMMA DigitRead ==
  ASSUME NEW d \in 0 .. 15
  PROVE  HexChar(d) \in Nat /\ HexVal(HexChar(d)) = d
<1>1. CASE d < 10
  BY <1>1 DEF HexChar, HexVal
<1>2. CASE d >= 10
  BY <1>2 DEF HexChar, HexVal
<1> QED
  BY <1>1, <1>2

\* The characters puthex prints are the number it was given, digit by digit.
THEOREM PrintedTrue ==
  ASSUME NEW h \in 0 .. Pow16[HexDigits] - 1
  PROVE  /\ puthex(h) \in Seq(Nat) /\ Len(puthex(h)) = HexDigits
         /\ HexValue(puthex(h)) = h
<1> DEFINE P == Pow16[HexDigits]
           Q == Pow16[HexDigits - 1]
           x(i) == h * Pow16[i]
           d(i) == (x(i) % P) \div Q
           s == puthex(h)
<1>1. HexDigits \in Nat \ {0} /\ HexDigits - 1 \in Nat /\ (HexDigits - 1) + 1 = HexDigits
  BY SimpleSystemAssumption
<1>2. P \in Nat \ {0} /\ Q \in Nat \ {0} /\ P = 16 * Q /\ Pow16[0] = 1
  BY <1>1, Powers
<1>3. \A i \in Nat : x(i) \in Nat /\ x(i + 1) = 16 * x(i)
  <2> SUFFICES ASSUME NEW i \in Nat PROVE x(i) \in Nat /\ x(i + 1) = 16 * x(i)
    OBVIOUS
  <2> DEFINE q == Pow16[i]
  <2>1. q \in Nat /\ Pow16[i + 1] = 16 * q
    BY Powers
  <2>2. h \in Nat
    BY <1>2
  <2> HIDE DEF q
  <2>3. h * q \in Nat /\ h * (16 * q) = 16 * (h * q)
    BY <2>1, <2>2
  <2> QED
    BY <2>1, <2>3 DEF q
<1>4. x(0) = h /\ x(HexDigits) = h * P
  BY <1>2
<1>5. h \in 0 .. P - 1
  OBVIOUS
<1>6. s = [i \in 1 .. HexDigits |-> HexChar(d(i - 1))]
  BY DEF puthex
<1> HIDE DEF x, P, Q, s
<1>7. \A i \in Nat : d(i) \in 0 .. 15 /\ x(i + 1) \div P = 16 * (x(i) \div P) + d(i)
  <2> SUFFICES ASSUME NEW i \in Nat
               PROVE  d(i) \in 0 .. 15 /\ x(i + 1) \div P = 16 * (x(i) \div P) + d(i)
    OBVIOUS
  <2> QED
    BY <1>2, <1>3, NextDigit
<1> HIDE DEF d
<1>8. \A i \in 1 .. HexDigits : i - 1 \in Nat /\ s[i] = HexChar(d(i - 1)) /\ s[i] \in Nat
                                 /\ HexVal(s[i]) = d(i - 1)
  <2> SUFFICES ASSUME NEW i \in 1 .. HexDigits
               PROVE  /\ i - 1 \in Nat /\ s[i] = HexChar(d(i - 1)) /\ s[i] \in Nat
                      /\ HexVal(s[i]) = d(i - 1)
    OBVIOUS
  <2>1. i - 1 \in Nat /\ s[i] = HexChar(d(i - 1))
    BY <1>1, <1>6
  <2>2. d(i - 1) \in 0 .. 15
    BY <1>7, <2>1
  <2> QED
    BY <2>1, <2>2, DigitRead
<1>9. s \in Seq(Nat) /\ Len(s) = HexDigits
  BY <1>1, <1>6, <1>8
<1>10. PICK sum \in [0 .. Len(s) -> Int] :
         /\ sum[0] = 0
         /\ \A i \in 1 .. Len(s) : sum[i] = 16 * sum[i - 1] + HexVal(s[i])
         /\ HexValue(s) = sum[Len(s)]
  <2>1. s \in Seq(Int)
    BY <1>9
  <2> QED
    BY <2>1, PartialSums
<1> DEFINE T == {i \in Nat : i <= HexDigits => sum[i] = x(i) \div P}
<1>11. \A i \in Nat : i \in T
  <2>1. 0 \in T
    BY <1>2, <1>4, <1>5, <1>10
  <2>2. ASSUME NEW i \in Nat, i \in T PROVE i + 1 \in T
    <3> SUFFICES ASSUME i + 1 <= HexDigits PROVE sum[i + 1] = x(i + 1) \div P
      OBVIOUS
    <3>1. sum[i] = x(i) \div P
      BY <2>2, <1>1
    <3>2. i + 1 \in 1 .. Len(s) /\ i + 1 \in 1 .. HexDigits /\ (i + 1) - 1 = i
      BY <1>1, <1>9
    <3>3. sum[i + 1] = 16 * sum[i] + d(i)
      BY <1>8, <1>10, <3>2
    <3> QED
      BY <1>7, <3>1, <3>3
  <2> HIDE DEF T
  <2> QED
    BY <2>1, <2>2, Induction
<1>12. sum[HexDigits] = (h * P) \div P
  BY <1>1, <1>4, <1>11
<1>13. (h * P) \div P = h
  BY <1>2, <1>5
<1> QED
  BY <1>9, <1>10, <1>12, <1>13 DEF s

-----------------------------------------------------------------------------
(* The log: a text of the program or none, then the pieces of the report   *)
(* the exception handler has printed so far, each at its place.            *)

Items == {"text", "EXCEPTION!!!", "rule", "MEPC", "MCAUSE", "MTVAL", "newline"} \cup Nat

\* Where piece k of the report begins: a banner of two, three numbers each
\* behind its name, a newline.
PieceAt(k) ==
  IF k <= 1 THEN 0 ELSE IF k = 6 THEN 3 * HexDigits + 6 ELSE 2 + (k - 2) * (HexDigits + 1)

\* The first pieces of the report lie behind the first p items of the log.
Printed(p) ==
  /\ Len(log) = p + PieceAt(exc)
  /\ \A k \in 1 .. exc - 1 : \A i \in 1 .. Len(Report(fault)[k]) :
       log[p + PieceAt(k) + i] = Report(fault)[k][i]

LogInv ==
  /\ exc \in 0 .. 6 /\ (exc > 0 => fault \in Faults)
  /\ halted = 1 => exc = 6
  /\ log \in Seq(Items) /\ \E p \in {0, 1} : Printed(p)

LEMMA Concat ==
  ASSUME NEW X, NEW s \in Seq(X), NEW t \in Seq(X)
  PROVE  /\ s \o t \in Seq(X) /\ Len(s \o t) = Len(s) + Len(t)
         /\ \A i \in 1 .. Len(s) : (s \o t)[i] = s[i]
         /\ \A i \in 1 .. Len(t) : (s \o t)[Len(s) + i] = t[i]
  OBVIOUS

LEMMA SamePlaces ==
  ASSUME NEW X, NEW s \in Seq(X), NEW t \in Seq(X), Len(s) = Len(t),
         \A i \in 1 .. Len(t) : s[i] = t[i]
  PROVE  s = t
  OBVIOUS

LEMMA Slice ==
  ASSUME NEW X, NEW s \in Seq(X), NEW a \in Nat \ {0}, NEW n \in Nat, a + n - 1 <= Len(s)
  PROVE  /\ SubSeq(s, a, a + n - 1) \in Seq(X) /\ Len(SubSeq(s, a, a + n - 1)) = n
         /\ \A i \in 1 .. n : SubSeq(s, a, a + n - 1)[i] = s[a + i - 1]
  OBVIOUS

LEMMA FaultNumbers ==
  ASSUME NEW f \in Faults
  PROVE  \A h \in {f.mepc, f.mcause, f.mtval} :
           /\ puthex(h) \in Seq(Items) /\ Len(puthex(h)) = HexDigits
           /\ HexValue(puthex(h)) = h
<1>1. \A h \in {f.mepc, f.mcause, f.mtval} : h \in 0 .. Pow16[HexDigits] - 1
  BY SimpleSystemAssumption
<1>2. \A s \in Seq(Nat) : s \in Seq(Items)
  BY DEF Items
<1> QED
  BY <1>1, <1>2, PrintedTrue

LEMMA ReportPieces ==
  ASSUME NEW f \in Faults
  PROVE  /\ Len(Report(f)) = 5
         /\ \A k \in 1 .. 5 : /\ Report(f)[k] \in Seq(Items)
                              /\ Len(Report(f)[k]) = PieceAt(k + 1) - PieceAt(k)
<1> DEFINE number(name, h) == << name >> \o puthex(h)
           end == << "newline" >>
<1>1. HexDigits \in Nat
  BY SimpleSystemAssumption
<1>2. ASSUME NEW h \in {f.mepc, f.mcause, f.mtval}, NEW name \in {"MEPC", "MCAUSE", "MTVAL"}
      PROVE  number(name, h) \in Seq(Items) /\ Len(number(name, h)) = HexDigits + 1
  <2>1. << name >> \in Seq(Items) /\ Len(<< name >>) = 1
    BY DEF Items
  <2>2. puthex(h) \in Seq(Items) /\ Len(puthex(h)) = HexDigits
    BY FaultNumbers
  <2> QED
    BY <1>1, <2>1, <2>2, Concat
<1> HIDE DEF number
<1>3. Report(f) = << Banner, number("MEPC", f.mepc), number("MCAUSE", f.mcause),
                     number("MTVAL", f.mtval), end >>
  BY DEF Report, number
<1>4. /\ Banner \in Seq(Items) /\ Len(Banner) = 2
      /\ end \in Seq(Items) /\ Len(end) = 1
  BY DEF Banner, Items
<1>5. /\ Report(f)[1] = Banner /\ Report(f)[2] = number("MEPC", f.mepc)
      /\ Report(f)[3] = number("MCAUSE", f.mcause) /\ Report(f)[4] = number("MTVAL", f.mtval)
      /\ Report(f)[5] = end /\ Len(Report(f)) = 5
  BY <1>3
<1> HIDE DEF end
<1>6. /\ PieceAt(1) = 0 /\ PieceAt(2) = 2 /\ PieceAt(3) = HexDigits + 3
      /\ PieceAt(4) = 2 * HexDigits + 4 /\ PieceAt(5) = 3 * HexDigits + 5
      /\ PieceAt(6) = 3 * HexDigits + 6
  BY <1>1 DEF PieceAt
<1>7. ASSUME NEW k \in 1 .. 5
      PROVE  Report(f)[k] \in Seq(Items) /\ Len(Report(f)[k]) = PieceAt(k + 1) - PieceAt(k)
  <2>1. CASE k = 1
    <3>1. Report(f)[k] = Banner /\ PieceAt(k + 1) = 2 /\ PieceAt(k) = 0
      BY <1>5, <1>6, <2>1
    <3> QED
      BY <1>4, <3>1
  <2>2. CASE k = 2
    BY <1>1, <1>2, <1>5, <1>6, <2>2
  <2>3. CASE k = 3
    BY <1>1, <1>2, <1>5, <1>6, <2>3
  <2>4. CASE k = 4
    BY <1>1, <1>2, <1>5, <1>6, <2>4
  <2>5. CASE k = 5
    <3>1. /\ Report(f)[k] = end /\ PieceAt(k + 1) = 3 * HexDigits + 6
          /\ PieceAt(k) = 3 * HexDigits + 5
      BY <1>5, <1>6, <2>5
    <3> QED
      BY <1>1, <1>4, <3>1
  <2> QED
    BY <2>1, <2>2, <2>3, <2>4, <2>5
<1> QED
  BY <1>5, <1>7

LEMMA PieceOrder ==
  \A k \in 0 .. 6 : PieceAt(k) \in Nat /\ \A j \in 0 .. k : PieceAt(j) <= PieceAt(k)
<1>1. HexDigits \in Nat
  BY SimpleSystemAssumption
<1>2. /\ PieceAt(0) = 0 /\ PieceAt(1) = 0 /\ PieceAt(2) = 2 /\ PieceAt(3) = HexDigits + 3
      /\ PieceAt(4) = 2 * HexDigits + 4 /\ PieceAt(5) = 3 * HexDigits + 5
      /\ PieceAt(6) = 3 * HexDigits + 6
  BY <1>1 DEF PieceAt
<1> HIDE DEF PieceAt
<1> QED
  BY <1>1, <1>2

\* Another piece of the report.
LEMMA PieceStep ==
  ASSUME LogInv, simple_exc_handler
  PROVE  LogInv'
<1> DEFINE piece == Report(fault)[exc]
<1>1. /\ exc \in 1 .. 5 /\ fault \in Faults /\ halted # 1
      /\ log \in Seq(Items) /\ piece \in Seq(Items)
      /\ Len(piece) = PieceAt(exc + 1) - PieceAt(exc)
  <2>1. /\ exc \in 0 .. 6 /\ (exc > 0 => fault \in Faults) /\ (halted = 1 => exc = 6)
        /\ log \in Seq(Items) /\ exc \in 1 .. Len(Report(fault))
    BY DEF LogInv, simple_exc_handler
  <2>2. fault \in Faults
    BY <2>1
  <2>3. /\ Len(Report(fault)) = 5
        /\ \A k \in 1 .. 5 : /\ Report(fault)[k] \in Seq(Items)
                             /\ Len(Report(fault)[k]) = PieceAt(k + 1) - PieceAt(k)
    BY <2>2, ReportPieces
  <2> QED
    BY <2>1, <2>2, <2>3
<1>2. log' = log \o piece /\ exc' = exc + 1 /\ fault' = fault /\ halted' = halted
  BY DEF simple_exc_handler
<1>3. PICK p \in {0, 1} : Printed(p)
  BY DEF LogInv
<1>4. /\ PieceAt(exc) \in Nat /\ PieceAt(exc + 1) \in Nat
      /\ \A k \in 1 .. exc : PieceAt(k) \in Nat /\ PieceAt(k + 1) <= PieceAt(exc + 1)
      /\ \A k \in 1 .. exc - 1 : PieceAt(k + 1) <= PieceAt(exc)
  <2>1. ASSUME NEW j \in 0 .. 6, NEW k \in 0 .. j
        PROVE  PieceAt(j) \in Nat /\ PieceAt(k) \in Nat /\ PieceAt(k) <= PieceAt(j)
    <3>1. k \in 0 .. 6
      OBVIOUS
    <3> QED
      BY <3>1, PieceOrder
  <2>2. exc \in 0 .. 6 /\ exc + 1 \in 0 .. 6 /\ exc \in 0 .. exc /\ exc + 1 \in 0 .. exc + 1
    BY <1>1
  <2>3. \A k \in 1 .. exc : k \in 0 .. exc /\ k + 1 \in 0 .. exc + 1
    BY <1>1
  <2>4. \A k \in 1 .. exc - 1 : k + 1 \in 0 .. exc
    BY <1>1
  <2> QED
    BY <2>1, <2>2, <2>3, <2>4
<1>5. Len(log) = p + PieceAt(exc)
  BY <1>3 DEF Printed
<1> HIDE DEF piece
<1>6. /\ log' \in Seq(Items) /\ Len(log') = p + PieceAt(exc')
      /\ \A i \in 1 .. Len(log) : log'[i] = log[i]
      /\ \A i \in 1 .. Len(piece) : log'[Len(log) + i] = piece[i]
  <2>1. /\ log \o piece \in Seq(Items) /\ Len(log \o piece) = Len(log) + Len(piece)
        /\ \A i \in 1 .. Len(log) : (log \o piece)[i] = log[i]
        /\ \A i \in 1 .. Len(piece) : (log \o piece)[Len(log) + i] = piece[i]
    <3>1. log \in Seq(Items) /\ piece \in Seq(Items)
      BY <1>1
    <3> QED
      BY <3>1, Concat
  <2>2. Len(log) + Len(piece) = p + PieceAt(exc + 1)
    BY <1>1, <1>4, <1>5
  <2>3. Len(log') = p + PieceAt(exc')
    BY <1>2, <2>1, <2>2
  <2> QED
    BY <1>2, <2>1, <2>3
<1>7. ASSUME NEW k \in 1 .. exc, NEW i \in 1 .. Len(Report(fault)[k])
      PROVE  log'[p + PieceAt(k) + i] = Report(fault)[k][i]
  <2>1. CASE k = exc
    <3>1. p + PieceAt(k) + i = Len(log) + i
      BY <1>5, <2>1
    <3> QED
      BY <1>6, <2>1, <3>1 DEF piece
  <2>2. CASE k # exc
    <3>1. k \in 1 .. exc - 1 /\ k \in 1 .. 5
      BY <1>1, <2>2
    <3>2. Len(Report(fault)[k]) = PieceAt(k + 1) - PieceAt(k) /\ PieceAt(k + 1) <= PieceAt(exc)
      BY <1>1, <1>4, <3>1, ReportPieces
    <3>3. PieceAt(k) \in Nat /\ PieceAt(k + 1) \in Nat
      BY <3>1, PieceOrder
    <3>4. p + PieceAt(k) + i \in 1 .. Len(log)
      BY <1>4, <1>5, <3>2, <3>3
    <3>5. log[p + PieceAt(k) + i] = Report(fault)[k][i]
      BY <1>3, <3>1 DEF Printed
    <3> QED
      BY <1>6, <3>4, <3>5
  <2> QED
    BY <2>1, <2>2
<1>8. Printed(p)'
  <2>1. exc' - 1 = exc
    BY <1>1, <1>2
  <2> QED
    BY <1>2, <1>6, <1>7, <2>1 DEF Printed
<1> QED
  BY <1>1, <1>2, <1>6, <1>8 DEF LogInv

LEMMA LogStep ==
  ASSUME LogInv, [Next]_vars
  PROVE  LogInv'
<1>1. CASE UNCHANGED excVars
  BY <1>1 DEF LogInv, Printed, excVars
<1>2. CASE puts
  <2>1. exc = 0 /\ exc' = 0 /\ halted # 1 /\ halted' = halted /\ log' = << "text" >>
    BY <1>2 DEF puts, Call, At, Runs, LogInv
  <2>2. log' \in Seq(Items) /\ Len(log') = 1
    BY <2>1 DEF Items
  <2>3. PieceAt(0) = 0
    BY DEF PieceAt
  <2>4. Printed(1)'
    BY <2>1, <2>2, <2>3 DEF Printed
  <2> QED
    BY <2>1, <2>2, <2>4 DEF LogInv
<1>3. CASE \E f \in Faults : Fault(f)
  <2>1. exc = 0 /\ exc' = 1 /\ fault' \in Faults /\ halted # 1 /\ UNCHANGED << log, halted >>
    BY <1>3 DEF Fault, LogInv
  <2>2. PICK p \in {0, 1} : Len(log) = p + PieceAt(0)
    BY <2>1 DEF LogInv, Printed
  <2>3. PieceAt(0) = 0 /\ PieceAt(1) = 0
    BY DEF PieceAt
  <2>4. Printed(p)'
    BY <2>1, <2>2, <2>3 DEF Printed
  <2> QED
    BY <2>1, <2>4 DEF LogInv
<1>4. CASE simple_exc_handler
  BY <1>4, PieceStep
<1>5. CASE sim_halt
  <2>1. exc \in 0 .. 6
    BY DEF LogInv
  <2>2. exc > 0
    <3>1. exc = Len(Report(fault)) + 1
      BY <1>5 DEF sim_halt
    <3>2. Len(Report(fault)) = 5
      BY DEF Report
    <3> QED
      BY <3>1, <3>2
  <2>3. exc = 6
    <3>1. exc = Len(Report(fault)) + 1 /\ fault \in Faults
      BY <1>5, <2>2 DEF sim_halt, LogInv
    <3>2. Len(Report(fault)) = 5
      BY <3>1, ReportPieces
    <3> QED
      BY <3>1, <3>2
  <2> QED
    BY <1>5, <2>3 DEF sim_halt, LogInv, Printed
<1>6. CASE UNCHANGED vars
  BY <1>1, <1>6 DEF vars, excVars
<1>7. CASE Tick \/ TakeInterrupt \/ Handler \/ \E x \in Threads : Thread(x)
  BY <1>1, <1>7 DEF Tick, TakeInterrupt, Handler, Count, CountTo, Mret, Thread, ReadHi, ReadLo,
                    ReadAgain, ReadTo, ReadDone, ReadReturns, CmpOff, CmpHi, CmpLo, SetCmp
<1>8. CASE Program
  BY <1>1, <1>2, <1>8
     DEF Program, timer_read, timecmp_update, timer_enable, ClearHi, SetIncrement, SetMie,
         SetMstatus, timer_disable, get_elapsed_time, LoadFirst, LoadSecond, LoadOther, Return,
         pcount_reset, ResetCsr, pcount_enable
<1> QED
  BY <1>3, <1>4, <1>5, <1>6, <1>7, <1>8 DEF Next, Exception

LEMMA LogInvariant == Spec => []LogInv
<1>1. Init => LogInv
  <2> SUFFICES ASSUME Init PROVE LogInv
    OBVIOUS
  <2>1. exc = 0 /\ halted = 0 /\ log = << >> /\ PieceAt(0) = 0
    BY DEF Init, PieceAt
  <2>2. Printed(0) /\ log \in Seq(Items)
    BY <2>1 DEF Printed
  <2> QED
    BY <2>1, <2>2 DEF LogInv
<1>2. LogInv /\ [Next]_vars => LogInv'
  BY LogStep
<1> QED
  BY <1>1, <1>2, PTL DEF Spec

\* An exception at any moment of any program is reported in full before the
\* simulation is halted, with the numbers of the exception.
THEOREM ReportIsComplete == Spec => []ReportComplete
<1>1. LogInv => ReportComplete
  <2> SUFFICES ASSUME LogInv, halted = 1 PROVE ReportComplete
    BY DEF ReportComplete
  <2> DEFINE D == HexDigits
             tail == SubSeq(log, Len(log) - 3 * HexDigits - 5, Len(log))
             digits(k) == SubSeq(tail, 4 + (k - 1) * (HexDigits + 1), 2 + k * (HexDigits + 1))
  <2>1. exc = 6 /\ fault \in Faults /\ log \in Seq(Items) /\ D \in Nat \ {0}
    BY SimpleSystemAssumption DEF LogInv
  <2>2. PICK p \in {0, 1} : Printed(p)
    BY DEF LogInv
  <2>3. /\ PieceAt(1) = 0 /\ PieceAt(2) = 2 /\ PieceAt(3) = D + 3 /\ PieceAt(4) = 2 * D + 4
        /\ PieceAt(6) = 3 * D + 6
    BY <2>1 DEF PieceAt
  <2>4. Len(log) = p + 3 * D + 6
    BY <2>1, <2>2, <2>3 DEF Printed
  <2>5. /\ tail \in Seq(Items) /\ Len(tail) = 3 * D + 6
        /\ \A i \in 1 .. 3 * D + 6 : tail[i] = log[p + i]
    <3>1. Len(log) - 3 * HexDigits - 5 = p + 1
      BY <2>1, <2>4
    <3> QED
      BY <2>1, <2>4, <3>1
  <2>6. \A k \in 1 .. 5 : \A i \in 1 .. Len(Report(fault)[k]) :
          log[p + PieceAt(k) + i] = Report(fault)[k][i]
    BY <2>1, <2>2 DEF Printed
  <2> HIDE DEF tail
  <2>7. SubSeq(tail, 1, 2) = Banner
    <3>1. tail[1] = Banner[1] /\ tail[2] = Banner[2]
      <4>1. Report(fault)[1] = Banner /\ Len(Banner) = 2
        BY DEF Report, Banner
      <4>2. \A i \in 1 .. 2 : log[p + 0 + i] = Banner[i]
        <5>1. \A i \in 1 .. Len(Report(fault)[1]) :
                log[p + PieceAt(1) + i] = Report(fault)[1][i]
          BY <2>6
        <5> QED
          BY <2>3, <4>1, <5>1
      <4> QED
        BY <2>1, <2>5, <4>2
    <3>2. Banner \in Seq(Items) /\ Len(Banner) = 2
      BY DEF Banner, Items
    <3>3. SubSeq(tail, 1, 2) \in Seq(Items) /\ Len(SubSeq(tail, 1, 2)) = 2
          /\ \A i \in 1 .. 2 : SubSeq(tail, 1, 2)[i] = tail[i]
      BY <2>1, <2>5
    <3> QED
      BY <3>1, <3>2, <3>3, SamePlaces
  <2>8. ASSUME NEW k \in 1 .. 3, NEW name, NEW h \in {fault.mepc, fault.mcause, fault.mtval},
               Report(fault)[k + 1] = << name >> \o puthex(h), name \in Items
        PROVE  HexValue(digits(k)) = h
    <3> DEFINE s == puthex(h)
               a == 4 + (k - 1) * (HexDigits + 1)
               b == 2 + k * (HexDigits + 1)
    <3>1. s \in Seq(Items) /\ Len(s) = D /\ HexValue(s) = h
      BY <2>1, FaultNumbers
    <3>2. /\ a = PieceAt(k + 1) + 2 /\ b = a + D - 1 /\ a \in 4 .. 2 * D + 6
          /\ PieceAt(k + 1) \in Nat
      BY <2>1, <2>3
    <3> HIDE DEF s, a, b
    <3>3. /\ << name >> \o s \in Seq(Items) /\ Len(<< name >> \o s) = D + 1
          /\ \A i \in 1 .. D : (<< name >> \o s)[1 + i] = s[i]
      <4>1. << name >> \in Seq(Items) /\ Len(<< name >>) = 1
        BY <2>8
      <4> QED
        BY <2>1, <3>1, <4>1, Concat
    <3>4. ASSUME NEW i \in 1 .. D PROVE tail[a + i - 1] = s[i]
      <4>1. a + i - 1 \in 1 .. 3 * D + 6
        BY <2>1, <3>2
      <4>2. tail[a + i - 1] = log[p + (a + i - 1)]
        BY <2>5, <4>1
      <4>3. p + (a + i - 1) = p + PieceAt(k + 1) + (1 + i)
        <5>1. a = PieceAt(k + 1) + 2 /\ PieceAt(k + 1) \in Nat /\ p \in Nat /\ i \in Nat
          BY <2>1, <3>2
        <5> QED
          BY <5>1
      <4>4. 1 + i \in 1 .. Len(Report(fault)[k + 1]) /\ k + 1 \in 1 .. 5
        BY <2>1, <2>8, <3>3 DEF s
      <4>5. log[p + PieceAt(k + 1) + (1 + i)] = Report(fault)[k + 1][1 + i]
        BY <2>6, <4>4
      <4>6. Report(fault)[k + 1][1 + i] = s[i]
        BY <2>8, <3>3 DEF s
      <4> QED
        BY <4>2, <4>3, <4>5, <4>6
    <3>5. /\ SubSeq(tail, a, b) \in Seq(Items) /\ Len(SubSeq(tail, a, b)) = D
          /\ \A i \in 1 .. D : SubSeq(tail, a, b)[i] = tail[a + i - 1]
      <4>1. D \in Nat /\ tail \in Seq(Items) /\ Len(tail) = 3 * D + 6
        BY <2>1, <2>5
      <4> HIDE DEF D
      <4>2. a \in Nat \ {0} /\ a + D - 1 <= Len(tail)
        BY <3>2, <4>1
      <4>3. /\ SubSeq(tail, a, a + D - 1) \in Seq(Items)
            /\ Len(SubSeq(tail, a, a + D - 1)) = D
            /\ \A i \in 1 .. D : SubSeq(tail, a, a + D - 1)[i] = tail[a + i - 1]
        BY <4>1, <4>2, Slice
      <4> QED
        BY <3>2, <4>3
    <3>6. SubSeq(tail, a, b) = s
      BY <3>1, <3>4, <3>5, SamePlaces
    <3> QED
      BY <3>1, <3>6 DEF a, b
  <2>9. /\ Report(fault)[2] = << "MEPC" >> \o puthex(fault.mepc)
        /\ Report(fault)[3] = << "MCAUSE" >> \o puthex(fault.mcause)
        /\ Report(fault)[4] = << "MTVAL" >> \o puthex(fault.mtval)
    BY DEF Report
  <2>10. "MEPC" \in Items /\ "MCAUSE" \in Items /\ "MTVAL" \in Items
    BY DEF Items
  <2> HIDE DEF digits
  <2>11. HexValue(digits(1)) = fault.mepc
    BY <2>8, <2>9, <2>10
  <2>12. HexValue(digits(2)) = fault.mcause
    BY <2>8, <2>9, <2>10
  <2>13. HexValue(digits(3)) = fault.mtval
    <3>1. 3 \in 1 .. 3 /\ 3 + 1 = 4
      OBVIOUS
    <3> QED
      BY <2>8, <2>9, <2>10, <3>1
  <2> QED
    BY <2>7, <2>11, <2>12, <2>13 DEF ReportComplete, tail, digits
<1> QED
  BY <1>1, LogInvariant, PTL
=============================================================================
