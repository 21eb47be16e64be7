\* A client asks for a tile group that is larger than the mesh.
SPECIFICATION FairSpec
CONSTANTS
  Pods = {pod1}
  MeshX = 2
  MeshY = 1
  Dims <- OversizedDims
  GridDims <- RowGridDims
  Names <- MCNames
  Binaries <- MCBinaries
  ResponderFails = FALSE
  MemoryRunsOut = FALSE
  MaxGroups = 2
  MaxPrograms = 1
  MaxChatter = 0
CHECK_DEADLOCK FALSE
PROPERTY ExecuteReturns
