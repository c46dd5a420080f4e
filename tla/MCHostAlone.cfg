CONSTANTS
  Hosts = {h}
  RoundChoices <- Thresholds
  DefaultRounds = 2
  MaxCount = 2
  MaxEvents = 0
SPECIFICATION FairHostSpec
PROPERTIES FailingHostLeftAlone
CHECK_DEADLOCK FALSE
