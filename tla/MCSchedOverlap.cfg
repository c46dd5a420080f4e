CONSTANTS
  MaxCreated = 3
  Targets = {n1}
  Requested <- NoRequests
  MaxOps = 3
  MaxRestarts = 0
  Schedules = {s1}
  Nodes = {n1}
  Kinds = {"prune_all_nodes"}
  Interval = 1
  WaiterTimeout = 8
  StuckAfter = 9
  Horizon = 10
  MaxFires = 3
  MaxRunNows = 0
  MaxFaults = 0
SPECIFICATION SchedSpec
INVARIANTS PrunePassesDoNotOverlap
CHECK_DEADLOCK FALSE
