--------------------------- MODULE MCSimpleSystem ---------------------------
(***************************************************************************)
(* An instance of SimpleSystem for four kinds of program.                  *)
(***************************************************************************)
EXTENDS SimpleSystem

\* Programs that use the timer, that keep time, that count events, and that
\* may fail while they do something else.
MCPrograms ==
  {{"timer_enable", "timer_disable", "timer_read", "timecmp_update"},
   {"timer_enable", "get_elapsed_time"},
   {"pcount_reset", "pcount_enable"},
   {"timer_read", "puts", "fault"}}

MCFaults == {[mepc |-> 10, mcause |-> 9, mtval |-> 175]}
=============================================================================
