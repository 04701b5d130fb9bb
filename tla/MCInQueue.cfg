SPECIFICATION FairSpec
CONSTANTS
  NBytes = 6
  MaxIn = 4
  Buf = 2
INVARIANTS ReadInOrder PausedHasData CleanEnd
PROPERTY EndReaches
