CONSTANTS
  Reads = {"services", "nodes", "stacks"}
  MaxFleet = 2
  Callers = {"background"}
  MaxFailures = 0
  MaxRestarts = 0
SPECIFICATION GcSpec
INVARIANT StaleUntilRebuilt
CHECK_DEADLOCK FALSE
