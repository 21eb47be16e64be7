CONSTANTS
  Nodes    = {dram, tile}
  Addrs    <- MCAddrs
  BadNodes = {outside}
  Drams    = {dram}
  WordMod  = 2
  Cap      = 2
  Credits  = 2
  TxDepth  = 1
  MaxWords = 3
  ReadLists <- MCReadLists
  dram     = dram
  tile     = tile
  outside  = outside
SPECIFICATION Spec
CHECK_DEADLOCK FALSE
INVARIANTS
  TypeOK
  LoadIdConserved
  ResponsesFit
PROPERTIES
  WriteLanded
  ImplementsMemory
  CallReturns
