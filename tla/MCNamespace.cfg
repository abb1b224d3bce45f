SPECIFICATION Spec
CONSTANTS
  a = a
  b = b
  base = base
  Clients = {c1, c2}
  Names <- MCNames
  Paths <- MCPaths
  Backends = {"webdav", "ftp"}
  Base <- MCBase
  Trees <- MCTrees
  Sizes <- MCSizes
  Written <- MCWritten
  Calls <- AllCalls
  MaxCalls = 2
  MaxFaults = 1
INVARIANTS
  TypeOK
  ContractHolds
  MkdirAllNeverLosesRace
  MkdirAllOkMeansDirectory
  UntouchedFilesExported
SYMMETRY Symmetry
CHECK_DEADLOCK FALSE
