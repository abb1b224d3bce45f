SPECIFICATION FairSpec
CONSTANTS
  h1 = h1
  h2 = h2
  Handles <- MCHandles
  Byte = {0, 1, 2}
  Zero = 0
  Payloads <- MCPayloads
  Previous <- MCPrevious
  MaxWrites <- MCMaxWrites
  MaxCloses = 2
INVARIANTS
  TypeOK
  CloseOkMeansStored
  SoleWriterReadsBack
  ErrorsReachClose
PROPERTIES
  WholeFilesOnly
  RefinesAtomicPut
  WritesReturn
  FirstCloseReturns
  ClosedLeavesNoGoroutine
CHECK_DEADLOCK FALSE
