CONSTANTS
  Adapters = {"openai", "anthropic", "gemini"}
  Dialects = {"chat", "anthropic", "responses", "ollama"}
  MaxSaid = 5
  Names = {"f", "g"}
  MaxTurns = 5
  MaxMessages = 6
  anthropic = anthropic
  groq = groq
  ollama = ollama
  Nobody = Nobody
  Configured <- MCConfigured
  Profile <- MCProfile
  PromptTokens = 5
  LongContext = 6
  Lucks <- MCLucks
  Observations <- MCObservations
  Custom <- MCCustom
SPECIFICATION RequestSpec
INVARIANT PrivateStaysLocal
CHECK_DEADLOCK FALSE
