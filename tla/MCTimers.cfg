CONSTANTS
  r1 = r1
  NoResource = NoResource
  Resource <- OneResource
  Delays <- SomeDelays
  Repeats <- AllRepeats
  MaxTimer = 2
  MaxGeneration = 3
  MaxFired = 3
  MaxElapsed = 2
SPECIFICATION FairSpec
INVARIANTS
  FireLimit
  HandleTellsTruth
PROPERTIES
  DroppedStaysSilent
  NoFireAcrossRestart
  ScheduledTimerFires
