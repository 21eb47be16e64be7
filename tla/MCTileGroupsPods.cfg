\* Two pods, each a mesh of one row of two tiles; podv_kernels_execute.
SPECIFICATION FairSpec
CONSTANTS
  Pods = {pod1, pod2}
  MeshX = 2
  MeshY = 1
  Dims <- RowDims
  GridDims <- RowGridDims
  Names <- MCNames
  Binaries <- MCBinaries
  ResponderFails = FALSE
  MemoryRunsOut = FALSE
  MaxGroups = 2
  MaxPrograms = 1
  MaxChatter = 0
INVARIANTS NoRoomLeft WaitHasSender
PROPERTIES ExecuteReturns PlacedIsRetired
