CONSTANTS
  Tiles <- MCTiles
  Place <- MCPlace
  NX = 8
  TX = 6
  TY = 1
  R = 3
SPECIFICATION BarrierSpec
INVARIANTS KernelTypeOK HaloReady OutputRight
PROPERTIES ImplementsKernel KernelReturns
CHECK_DEADLOCK FALSE
