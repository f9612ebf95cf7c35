SPECIFICATION Spec
CONSTANTS
  W = 3
  Bases = {1, 2}
  Deadlines = {3, 7}
  MaxTime = 5
  Counters = 2
  Programs <- MCPrograms
  Faults <- MCFaults
  HexDigits = 2
INVARIANTS
  TimerReadTrue
  NoSpuriousInterrupt
  ElapsedNotAhead
  ElapsedTornOnlyAtWrap
  CountersFresh
  ReportComplete
