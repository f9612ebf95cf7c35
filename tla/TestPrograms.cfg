SPECIFICATION TpSpec
CONSTANTS
  W = 16
  Limit = 5
  GcdTests <- MCGcdTests
  Started = 9
  Wanted = 14
  MaxPace = 3
  FifoDepth = 2
  CharClocks = 5
  TimerValues = {3, 7}
  Texts <- MCTexts
INVARIANTS
  ResultIsGcd
  PassHonest
  SlaveReadTrue
  TextIntact
  IsrOnce
  IsrNotEarly
PROPERTIES
  TestsFinish
