SPECIFICATION FairSpec
CONSTANTS
  w1 = w1
  w2 = w2
  Writers <- MCWriters
  Chunks <- MCChunks
  Page = 9
  Previous <- MCPrevious
  Seeks <- MCSeeks
  MaxWrites = 2
  MaxReads = 2
  MaxSeeks = 1
  MaxRemoves = 1
INVARIANTS TypeOK OneHandlesFile LandedIsWhole PlainReads
PROPERTIES WritesReturn ClosedPutsEnd
CHECK_DEADLOCK FALSE
