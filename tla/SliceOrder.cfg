SPECIFICATION WalkSpec
CONSTANTS
  BusWords <- MCBusWords
  MaxArray = 1
INVARIANTS
  SlicesAsCommented
