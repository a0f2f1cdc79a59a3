CONSTANTS
  Channels = {ch}
  Closed = Closed
  MaxRotations = 1
INIT ToolsInit
NEXT ToolsNext
INVARIANT TakesEffectAtOnce
CHECK_DEADLOCK FALSE
