SPECIFICATION Spec
CONSTANTS
  a = a
  b = b
  ab = ab
  Clients = {c1}
  Names = {a, b, ab}
  Holder = holder
  ShortOf <- NoShort
  BasePath = FALSE
  Paths <- FewPaths
  Start <- Empty
  Calls <- AllCalls
  MaxCalls = 3
  MaxFaults = 0
INVARIANTS
  ContractHolds
CHECK_DEADLOCK FALSE
