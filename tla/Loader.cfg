SPECIFICATION Spec
CONSTANTS
  Pads1 = 1
  IoCtrlBits = 2
  LowBits = 1
  CtrlWrites <- MCBitBang
  ConfigWrites <- MCConfigWrites
  ResetConfig <- MCResetConfig
  GpioDefaults <- MCGpioDefaults
INVARIANTS
  TypeOK
  LoaderInv
PROPERTY TransferCompletes
