CONSTANTS
  MaxCreated = 2
  Targets = {app}
  Requested <- AskedTypes
  MaxOps = 1
  MaxRestarts = 1
  Images = 1
SPECIFICATION FairFetchSpec
PROPERTIES ImplementsOps
CHECK_DEADLOCK FALSE
