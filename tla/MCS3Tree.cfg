SPECIFICATION Spec
CONSTANTS
  a = a
  b = b
  ab = ab
  Clients = {c1, c2}
  Names = {a, b, ab}
  Holder = holder
  ShortOf <- NoShort
  BasePath = TRUE
  Paths <- TreePaths
  Start <- Prepared
  Calls <- AllCalls
  MaxCalls = 5
  MaxFaults = 1
INVARIANTS
  TypeOK
  ContractHolds
  SafeContentsSurvive
  HoldersFirst
SYMMETRY Symmetry
CHECK_DEADLOCK FALSE
