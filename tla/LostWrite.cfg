SPECIFICATION HkSpec
CONSTANTS
  Commands <- MCWrite
  Addresses <- MCAddress
  DataBytes <- MCData
  Accesses <- MCTrimAccesses
  RegAddrs <- MCTrimRegs
  GpioIn = 165
  MinTicks = 3
PROPERTIES
  FrontDoorWriteLands
