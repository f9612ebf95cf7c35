SPECIFICATION PassSpec
CONSTANTS
  Commands <- MCCommands
  Addresses <- MCAddresses
  DataBytes <- MCDataBytes
  RegAddrs <- MCRegAddrs
INVARIANTS
  PassThroughInReset
  FlashHearsMaster
PROPERTIES
  ResetHeld
  ImplementsBytes
  OneFlashOwner
