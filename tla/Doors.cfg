SPECIFICATION MixSpec
CONSTANTS
  Commands <- MCCommands
  Addresses <- MCAddresses
  DataBytes <- MCDataBytes
  Accesses <- MCMixAccesses
  RegAddrs <- MCMixRegs
  GpioIn = 165
  MinTicks = 3
INVARIANTS
  BackDoorWriteLands
  BackDoorReadsTrue
  PassThroughQuiet
PROPERTIES
  OnlyAskedFor
  ResetSparesRegisters
  AccessCompletes
