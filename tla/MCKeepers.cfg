CONSTANTS
  None = None
  Connectors <- MCConnectors
  Roles = {"member", "owner"}
  PAGE = 1
  SEEN_MAX = 2
  MAX_PAGES = 2
  WINDOW = 1
  MaxRecords = 3
  MaxNow = 3
  MaxPulls = 2
  NoPush = NoPush
  MaxPushes = 3
  MaxLost = 1
  Legacy = 1
  MaxRows = 3
  Trusts <- MCTrusts
  ProxyCalls = {c1, c2}
  OpenHooks = {h1}
  ClosedHooks = {h2}
  NoConn = NoConn
  MaxConns = 2
  MaxHubs = 2
  MaxChanges = 1
  Services = {"a", "b"}
  Profiles <- MCProfiles
  NoChild = NoChild
  MaxChildren = 3
  MaxGateways = 2
  NoMark = NoMark
  BATCH = 1
  MaxLines = 2
  MaxRestarts = 2
  MaxRotations = 1
  Pids = {1, 2, 3, 4}
  Commands = {"a", "b"}
  Reported = {"a"}
  NoCommand = NoCommand
  NoEntry = NoEntry
  NoAction = NoAction
  MAX_PER_HOST = 3
  MAX_DEPTH = 2
  MaxProcesses = 4
  MaxQueue = 1
  Sources = {u, v}
  WINDOW_MS = 1
  MAX_SLOTS = 1
  MaxEvents = 3
  MaxClock = 1
  MaxRefusals = 3
SPECIFICATION KeepersSpec
INVARIANTS
  NothingSkippedSilently
  PushIsWhatWasRecorded
  LedgerAgrees
  TearCostsOneMore
  RecordedIsTrue
  NoHiddenChild
  LeftBehindArrived
  ExplanationsAreEarned
  NothingFlaggedIsLost
CHECK_DEADLOCK FALSE
