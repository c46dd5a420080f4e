CONSTANTS
  MaxCreated = 1
  Targets = {n1}
  Requested <- PrunesByHand
  MaxOps = 1
  MaxRestarts = 1
  Schedules = {s1}
  Nodes = {n1}
  Kinds = {"prune_node", "gather_refresh"}
  Interval = 2
  WaiterTimeout = 1
  StuckAfter = 2
  Horizon = 3
  MaxFires = 2
  MaxRunNows = 0
  MaxFaults = 1
SPECIFICATION FairSchedSpec
INVARIANTS NoGhostRows TickFiresSpaced
PROPERTIES LastRunIsFireMoment NeverSkippedForever
CHECK_DEADLOCK FALSE
