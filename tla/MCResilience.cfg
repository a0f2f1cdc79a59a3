\* Two providers of one key and one model each, with durations short enough
\* for every wait to be outlived and long enough to be interrupted.
CONSTANTS
  Providers = {groq, openai}
  groq = groq
  openai = openai
  KeysPerProvider = 1
  Models = {m1}
  m1 = m1
  PROVIDER_FAILURE_THRESHOLD = 3
  PROVIDER_COOLDOWN = 1
  CONNECTION_COOLDOWN = 1
  MODEL_LOCKOUT = 1
  MODEL_NOT_FOUND_LOCKOUT = 2
SPECIFICATION FairSpec
INVARIANTS
  OpenExactlyOnOutages
PROPERTIES
  OneProbePerWindow
  ProbedAgain
