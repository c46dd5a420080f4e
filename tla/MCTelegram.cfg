CONSTANTS
  Announced <- OneAnnounced
  Quiet <- OneQuiet
  MaxUpdates = 3
  MaxEdits = 2
  MaxFaults = 1
  MaxRestarts = 1
  MaxRepeats = 1
SPECIFICATION ListenerSpec
INVARIANTS ReadsAreCurrent ChangesAreCounted HandledAtMostOnce LostOnlyIfCut ActionRunsOnce
CHECK_DEADLOCK FALSE
