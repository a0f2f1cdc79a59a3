CONSTANTS
  ProxyCalls = {c1, c2}
  OpenHooks = {h1}
  ClosedHooks = {h2}
  NoConn = NoConn
  MaxConns = 2
  MaxHubs = 2
  MaxChanges = 1
INIT CaptureInit
NEXT ProxyNext
INVARIANT SpawnedOnce
CHECK_DEADLOCK FALSE
