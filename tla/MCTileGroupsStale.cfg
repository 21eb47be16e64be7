\* A client names a kernel the program does not have, and restarts programs.
SPECIFICATION Spec
CONSTANTS
  Pods = {pod1}
  MeshX = 2
  MeshY = 1
  Dims <- RowDims
  GridDims <- RowGridDims
  Names <- FaultNames
  Binaries <- FaultBinaries
  ResponderFails = TRUE
  MemoryRunsOut = FALSE
  MaxGroups = 3
  MaxPrograms = 2
  MaxChatter = 1
CHECK_DEADLOCK FALSE
PROPERTY ExecuteCompletes
