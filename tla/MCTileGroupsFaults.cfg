\* A client names a kernel the program does not have, memory runs out, and programs restart.
SPECIFICATION Spec
CONSTANTS
  Pods = {pod1}
  MeshX = 3
  MeshY = 1
  Dims <- RowDims
  GridDims <- RowGridDims
  Names <- FaultNames
  Binaries <- FaultBinaries
  ResponderFails = TRUE
  MemoryRunsOut = TRUE
  MaxGroups = 3
  MaxPrograms = 2
  MaxChatter = 1
CHECK_DEADLOCK FALSE
INVARIANTS TileOwnership BuffersOfHolders KernelReferences
