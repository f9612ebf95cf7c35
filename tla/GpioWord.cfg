SPECIFICATION HkSpec
CONSTANTS
  Commands <- MCWrite
  Addresses <- MCAddress
  DataBytes <- MCData
  Accesses <- MCGpioAccesses
  RegAddrs <- MCNoRegs
  GpioIn = 165
  MinTicks = 1
INVARIANTS
  GpioWriteLands
