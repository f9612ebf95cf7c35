SPECIFICATION Spec
CONSTANTS
  Accesses <- MCHkAccesses
  Timeout = 12
  LineWords = 3
  ErrorLimit = 1
INVARIANTS
  AckAfterAllBytes
