CONSTANTS
  Reads = {"services", "nodes"}
  MaxFleet = 2
  Callers = {"background", "scheduler"}
  MaxFailures = 2
  MaxRestarts = 1
SPECIFICATION FairGcSpec
INVARIANTS CacheTypeOK DirectItemsOnce FreshShowsInvalidated
PROPERTIES CacheNeverGoesBack CacheCatchesUp
CHECK_DEADLOCK FALSE
