CONSTANTS
  MaxCreated = 2
  Targets = {app}
  Requested <- AskedTypes
  MaxOps = 1
  MaxRestarts = 1
  Images = 2
SPECIFICATION FetchSpec
INVARIANTS FetchTypeOK SwapOnlyWithImages OrphansExplained SweepRemovesOrphans
PROPERTIES AwaitedJobStays GreenOnlyWhenStill
CHECK_DEADLOCK FALSE
