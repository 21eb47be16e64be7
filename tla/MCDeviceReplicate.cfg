\* Two pods of six units of memory; coalescing above two free buffers
\* instead of four.
SPECIFICATION Spec
CONSTANTS
  Start = 4
  Size = 12
  Alignment = 2
  Threshold = 2
  ProgramEnd = 3
  EvaBits = 5
  NumPods = 2
  Requests <- MCRequests
  ArgvSize = 2
  Groups = 2
  MaxFailed = 1
INVARIANTS MemoryTypeOK Partition LongListCoalesced FreeSizeExact SuccessIsEverywhere NothingStranded
PROPERTY ImplementsAllocator
