----------------------------- MODULE UserProject -----------------------------
(***************************************************************************)
(* The two example user projects (user_proj_example.counter.v and          *)
(* user_proj_example.gcd.v) with the logic-analyser registers of           *)
(* mgmt_core.v that drive them and the synchroniser through which the core *)
(* sees their output.  caravel.v wires them straight to each other.        *)
(*                                                                         *)
(* The enable words of the logic analyser are all ones or zero, one bit    *)
(* each here.  A remainder by zero is X, the unknown value of the          *)
(* simulator.  gcd_of (the operands gcd_o was computed from), loaded and   *)
(* run (free until count is first set, then whether it has been above      *)
(* Limit since) are ghosts.                                                *)
(***************************************************************************)
EXTENDS Integers, Sequences, FiniteSetsExt

CONSTANTS
  W,       \* values of a word (2^32 in the code)
  Limit    \* the count the test program waits for (0x1F4 in the code)

ASSUME UserProjectAssumption == W \in Nat \ {0, 1} /\ Limit \in 0 .. W - 2

Words == 0 .. W - 1
X     == 0 - 1
NoPair == << X, X >>

VARIABLES
  project,                       \* the user project on this chip
  la_out, la_oe,                 \* the logic-analyser registers of the core
  regs0, regs1,                  \* the synchroniser of la_input
  wb,                            \* the wishbone access to the user project
  count, ready, rdata,           \* counter
  a_q, b_q, CS, gcd_o,           \* seq_gcd
  loaded, gcd_of, run            \* ghosts

laVars      == << la_out, la_oe >>
counterVars == << count, ready, rdata, run >>
gcdVars     == << a_q, b_q, CS, gcd_o, loaded, gcd_of >>
projectVars == << project, laVars, regs0, regs1, wb, counterVars, gcdVars >>

Projects == {"counter", "gcd"}
NoWb     == [valid |-> FALSE, we |-> FALSE, dat |-> 0]

\* The count when the program gets to its test is whatever it happens to be.
ProjectInit ==
  /\ project \in Projects
  /\ la_out = [n \in 0 .. 1 |-> 0] /\ la_oe = [n \in 0 .. 3 |-> 0]
  /\ count \in IF project = "counter" THEN Words ELSE {0}
  /\ regs0 = count /\ regs1 = count
  /\ wb = NoWb
  /\ ready = FALSE /\ rdata = 0
  /\ a_q = 0 /\ b_q = 0 /\ CS = 0 /\ gcd_o = 0
  /\ loaded = NoPair /\ gcd_of = NoPair
  /\ run = "free"

la_data_out == IF project = "counter" THEN count ELSE gcd_o

\* The synchroniser, two flops deep.
Synchroniser == regs0' = la_data_out /\ regs1' = regs0

-----------------------------------------------------------------------------
(* user_proj_example.counter.v *)

RunOn == run' = IF run = "set" /\ count' > Limit THEN "above" ELSE run

CountFrom(n) == count' = n /\ run' = IF n > Limit THEN "above" ELSE "set"

CountOn == count' = (count + 1) % W /\ RunOn

\* Mutant: an access is served again in the clock of its acknowledge.
BugCounter ==
  LET la_write == la_oe[1] = 1 /\ ~wb.valid
      serve    == wb.valid
  IN
  /\ ready' = serve
  /\ rdata' = IF serve THEN count ELSE rdata
  /\ IF serve /\ wb.we THEN CountFrom(wb.dat)
     ELSE IF la_write  THEN CountFrom(la_out[1])
     ELSE CountOn

\* One clock: a wishbone write beats the logic analyser, which beats counting.
Counter ==
  LET la_write == la_oe[1] = 1 /\ ~wb.valid
      serve    == wb.valid /\ ~ready
  IN
  /\ ready' = serve
  /\ rdata' = IF serve THEN count ELSE rdata
  /\ IF serve /\ wb.we THEN CountFrom(wb.dat)
     ELSE IF la_write  THEN CountFrom(la_out[1])
     ELSE CountOn

-----------------------------------------------------------------------------
(* user_proj_example.gcd.v *)

Rem(a, b) == IF b \in {0, X} \/ a = X THEN X ELSE a % b

\* Mutant: the operands are loaded only when the clock word is driven too.
BugLaLoad == la_oe[0] = 1 /\ la_oe[1] = 1 /\ la_oe[2] = 1 /\ ~wb.valid

\* All bits of both words are driven by the core.
la_load == la_oe[0] = 1 /\ la_oe[1] = 1 /\ ~wb.valid

\* Mutant: the result is taken one remainder too early.
BugSeqGcd ==
  LET load_int == CS = 0 /\ la_load
      done_o   == CS = 1 /\ Rem(a_q, b_q) \in {0, X}
  IN
  /\ a_q' = IF load_int THEN la_out[0] ELSE b_q
  /\ b_q' = IF load_int THEN la_out[1] ELSE Rem(a_q, b_q)
  /\ gcd_o' = IF done_o THEN a_q ELSE gcd_o
  /\ CS' = IF load_int \/ (CS = 1 /\ ~done_o) THEN 1 ELSE 0
  /\ loaded' = IF load_int THEN << la_out[0], la_out[1] >> ELSE loaded
  /\ gcd_of' = IF done_o THEN loaded ELSE gcd_of

SeqGcd ==
  LET load_int == CS = 0 /\ la_load
      done_o   == CS = 1 /\ b_q = 0
  IN
  /\ a_q' = IF load_int THEN la_out[0] ELSE b_q
  /\ b_q' = IF load_int THEN la_out[1] ELSE Rem(a_q, b_q)
  /\ gcd_o' = IF done_o THEN a_q ELSE gcd_o
  /\ CS' = IF load_int \/ (CS = 1 /\ ~done_o) THEN 1 ELSE 0
  /\ loaded' = IF load_int THEN << la_out[0], la_out[1] >> ELSE loaded
  /\ gcd_of' = IF done_o THEN loaded ELSE gcd_of

\* One clock of the user project on this chip.  Its clock is wb_clk_i unless
\* the core drives probe 64, which no program does.
UserClock ==
  /\ la_oe[2] = 0
  /\ \/ project = "counter" /\ Counter /\ UNCHANGED gcdVars
     \/ project = "gcd" /\ SeqGcd /\ UNCHANGED counterVars
  /\ Synchroniser
  /\ UNCHANGED project

-----------------------------------------------------------------------------
\* The reference: the greatest common divisor, gcd(0, 0) being 0.
Gcd(a, b) ==
  IF a = 0 /\ b = 0 THEN 0
  ELSE Max({d \in Words \ {0} : a % d = 0 /\ b % d = 0})

\* For every pair of operands, whatever the probes do while it computes,
\* gcd_o is the greatest common divisor of the pair that was loaded
\* (seq_gcd), and never an unknown value although the datapath of an idle
\* seq_gcd divides by zero.
ResultIsGcd == gcd_of # NoPair => gcd_o = Gcd(gcd_of[1], gcd_of[2])
=============================================================================
