SPECIFICATION Spec
CONSTANTS
  h1 = h1
  h2 = h2
  Handles <- MCHandles
  Byte = {0, 1, 2}
  Zero = 0
  Payloads <- MCPayloads
  Previous <- MCPrevious
  MaxWrites <- MCMaxWrites
  MaxCloses = 1
PROPERTY PlaceholderOnlyForNewFile
CHECK_DEADLOCK FALSE
