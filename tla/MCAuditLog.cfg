CONSTANTS
  Processes = {gateway, cli}
  gateway = gateway
  cli = cli
  Nobody = Nobody
  MaxEvents = 3
  Trusts = {{"quick holders", "lone takeover", "patience"}, {}}
SPECIFICATION FairSpec
INVARIANTS
  LockKeepsTheLog
  NoSilentLoss
PROPERTY AppendEnds
CHECK_DEADLOCK FALSE
