\* One pod: malloc when its memory is full.
SPECIFICATION Spec
CONSTANTS
  Start = 4
  Size = 14
  Alignment = 2
  Threshold = 2
  ProgramEnd = 3
  EvaBits = 5
  NumPods = 1
  Requests <- MCRequests
  ArgvSize = 2
  Groups = 1
  MaxFailed = 1
INVARIANT MallocSuccessIsLive
