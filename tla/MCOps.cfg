CONSTANTS
  MaxCreated = 4
  Targets = {svc}
  Requested <- AskedTypes
  MaxOps = 2
  MaxRestarts = 1
SPECIFICATION FairOpsSpec
INVARIANTS OpsTypeOK NoConflictingOps RunningIsRegistered HistoryFaithful
PROPERTIES EveryOpEnds ImplementsLocks
CHECK_DEADLOCK FALSE
