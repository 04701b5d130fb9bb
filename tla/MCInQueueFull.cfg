SPECIFICATION Spec
CONSTANTS
  NBytes = 6
  MaxIn = 4
  Buf = 2
INVARIANT PauseKeepsBytes
