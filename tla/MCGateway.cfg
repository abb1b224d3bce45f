SPECIFICATION Spec
CONSTANTS
  FilePaths <- MCFilePaths
  DirPaths <- MCDirPaths
  Trees <- MCTrees
  Blocks = {"x", "y", "z"}
  Data = {"z"}
  MaxBlocks = 2
  Handles = {h1, h2}
  Fronts = {"fuse", "ftp", "dav"}
  Callers = {c1, c2}
  MaxCalls = 2
  MaxEvents = 3
  MaxFaults = 1
INVARIANTS
  TypeOK
  ReadsAtOffset
  StoredWhole
  GoneStaysGone
  PutStatFindsFile
SYMMETRY Symmetry
CHECK_DEADLOCK FALSE
