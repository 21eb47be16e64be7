CONSTANTS
  Stripe    = 2
  Cols      = 2
  ColSpan   = 2
  MaxEpa    = 4
  LineWords = 2
  Sets      = 1
  Ways      = 1
  Vals      = {0, 1}
  Calls     <- MCCalls
  TileWords = {0, 9}
  W = 2
  H = 2
  PX = 2
  PY = 2
  HostX = 0
  HostY = 0
  Dmem = 4
SPECIFICATION Spec
INVARIANTS
  CopiesTypeOK
  Coherent
  InvalidationLosesNothing
  FlushedForDma
  ReadsReturnLatest
PROPERTIES
  CopiesReturn
