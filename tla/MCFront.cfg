CONSTANTS
  Clients = {c1, c2, c3}
  MAX_BUCKETS = 2
  COST = 2
  Configs <- MCConfigs
  MaxIdle = 4
  Requests = {r1, r2, r3}
  Questions = {q1, q2, q3}
  Nothing = Nothing
  MAX_ENTRIES = 2
  TTL = 1
  Secrets = {s1, s2}
  s1 = s1
  s2 = s2
  NoSecret = NoSecret
  NoKey = NoKey
  Missing = Missing
  Free = Free
  MaxKeys = 2
  Names = {ann, bob}
  MaxAgents = 2
  Corrupt = Corrupt
  Idle = Idle
  Placeholder = Placeholder
  NoToken = NoToken
  CODE_TTL = 2
  MaxCodes = 2
  MaxClock = 4
  Plain = {k1, k2}
  Quoted = {e1}
  Unset = Unset
  Mangled = Mangled
  MaxLines = 3
  MaxSaves = 2
  Said = {"personal", "latent", "injection"}
  Policies <- MCPolicies
  Users = {a, b}
  Partitions = {p}
  Unnamed = Unnamed
  Served = {r1}
  MaxSwitches = 1
  MaxRows = 1
  MaxCached = 1
  Sessions = {m1, m2}
  Default = Default
  Texts = {t, i}
  Injected = {i}
  Recallers = {r1}
  MaxMemories = 2
  MaxBoots = 1
  Channels = {ch}
  Closed = Closed
  MaxRotations = 1
  Peers = {q1, q2}
  NoId = NoId
  NoTask = NoTask
  MAX_TASKS = 2
  MaxTasks = 3
  MaxBatch = 2
  p1 = p1
  p2 = p2
  p3 = p3
  Tiers <- MCTiers
  NoTier = NoTier
  Rolling = Rolling
  MINUTE = 2
  DAY = 4
  FLUSH_MS = 1
  Tokens = {0, 2}
  MaxCalls = 3
  MaxTime = 5
SPECIFICATION FrontSpec
SYMMETRY Symmetry
INVARIANTS
  BurstBounded
  RetryAfterIsEnough
  SavedSurvives
  LetIn
  OrderIsRecency
  KeyOutlivesTheProcess
  SentAsGuarded
  OwnWordsOnly
  ReadOnlyIsSo
  AnsweredIsFound
  UsedIsAsked
PROPERTY RecallIsOwn
CHECK_DEADLOCK FALSE
