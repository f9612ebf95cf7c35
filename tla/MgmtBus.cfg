SPECIFICATION Spec
CONSTANTS
  Accesses <- MCAccesses
  Timeout = 10
  LineWords = 2
  ErrorLimit = 0
INVARIANTS
  
  NotCutShort
  
PROPERTIES
  EveryAccessEnds
