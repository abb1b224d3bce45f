SPECIFICATION Spec
CONSTANTS
  Byte = {0, 1, 2}
  Payloads <- MCFewPayloads
  Previous <- MCPrevious
  Seeks <- MCFewSeeks
  Word = 16
  MaxCalls = 2
  MaxCloses = 1
INVARIANTS
  CloseOkMeansStored
CHECK_DEADLOCK FALSE
