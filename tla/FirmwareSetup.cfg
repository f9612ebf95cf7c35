SPECIFICATION FwSpec
CONSTANTS
  Pads1 = 19
  IoCtrlBits = 13
  LowBits = 8
  CtrlWrites <- MCNoWrites
  ConfigWrites <- MCNoWrites
  ResetConfig <- RealResetConfig
  GpioDefaults <- RealGpioDefaults
  FwPrograms <- RealPrograms
  FwConfig <- RealFwConfig
  AccessClocks = 10
INVARIANTS
  LoadDelivers
  BusyBitMeansDone
PROPERTIES
  SetupCompletes
