CONSTANTS
  Calls = {c1, c2, c3}
  c1 = c1
  c2 = c2
  c3 = c3
  Providers = {openai}
  openai = openai
  KeysPerProvider = 1
  Models = {m1}
  m1 = m1
  Cap <- MCCap
  MaxEstimate = 2
  MaxCost = 3
  LastMonth = 2
SPECIFICATION Spec
INVARIANTS
  HeldAsPromised
  CapHolds
CHECK_DEADLOCK FALSE
