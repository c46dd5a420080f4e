CONSTANTS
  MaxCreated = 3
  Targets = {n1, n2}
  Requested <- NoRequests
  MaxOps = 1
  MaxRestarts = 0
  Schedules = {s1}
  Nodes = {n1, n2}
  Kinds = {"prune_node", "prune_all_nodes"}
  Interval = 2
  WaiterTimeout = 1
  StuckAfter = 2
  Horizon = 3
  MaxFires = 2
  MaxRunNows = 1
  MaxFaults = 0
SPECIFICATION SchedSpec
SYMMETRY NodeSymmetry
INVARIANTS SchedTypeOK PruneNodeRunsDoNotOverlap RowTellsTheOutcome
CHECK_DEADLOCK FALSE
