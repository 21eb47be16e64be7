\* One pod with a 2x2 mesh: every shape, up to three groups.
SPECIFICATION Spec
CONSTANTS
  Pods = {pod1}
  MeshX = 2
  MeshY = 2
  Dims <- MCDims
  GridDims <- MCGridDims
  Names <- MCNames
  Binaries <- MCBinaries
  ResponderFails = FALSE
  MemoryRunsOut = FALSE
  MaxGroups = 3
  MaxPrograms = 2
  MaxChatter = 1
INVARIANTS TypeOK RunningOwned FinishIdentifiesSender NoRoomLeft
PROPERTIES ExecuteCompletes ImplementsQueue
