\* Three buffers of two units each and a program with a hardware barrier.
SPECIFICATION LeakSpec
CONSTANTS
  Start = 4
  Size = 24
  Alignment = 2
  Threshold = 4
  ProgramEnd = 3
  EvaBits = 5
  NumPods = 1
  Buffers = 3
  Width = 4
  Launch <- MCLaunch
INVARIANT AddressesMatch
