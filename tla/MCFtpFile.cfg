SPECIFICATION FairSpec
CONSTANTS
  Byte = {0, 1, 2}
  Payloads <- MCPayloads
  Previous <- MCPrevious
  Seeks <- MCSeeks
  Word = 16
  MaxCalls = 3
  MaxCloses = 2
INVARIANTS
  TypeOK
  QuietErrMeansStored
  PanicOnlyOnMixedUse
  CloseReleases
  ReadsFollowSeek
PROPERTIES
  CallsReturn
CHECK_DEADLOCK FALSE
