CONSTANTS
  Hosts = {h}
  RoundChoices <- Thresholds
  DefaultRounds = 2
  MaxCount = 2
  MaxEvents = 2
SPECIFICATION FairHostSpec
INVARIANTS HostTypeOK PausedEnough OrphansAreStray
PROPERTIES PauseStands FailingPairIsPaused HealthyPairIsClear
CHECK_DEADLOCK FALSE
