CONSTANTS
  groq = groq
  openai = openai
  m1 = m1
  r1 = r1
  r2 = r2
  Providers = {groq, openai}
  KeysPerProvider = 1
  Models = {m1}
  PROVIDER_FAILURE_THRESHOLD = 1
  PROVIDER_COOLDOWN = 0
  CONNECTION_COOLDOWN = 0
  MODEL_LOCKOUT = 0
  MODEL_NOT_FOUND_LOCKOUT = 0
  Calls = {r1}
  Cap <- CapBoth
  MaxEstimate = 1
  LastMonth = 2
  Chains <- Fallback
  MAX_RETRIES_PER_PROVIDER = 1
  Verdicts = {"auth", "rate", "missing", "invalid", "outage", "timeout"}
  Kinds = {TRUE, FALSE}
  MaxCost = 1
SPECIFICATION FairSpec
INVARIANTS
  EstimatesFollowCalls
  BilledOnce
PROPERTY
  EveryRequestEnds
