\* The whole pipeline: a full queue, drops, pauses, a task that may fail, requests
\* that are aborted and sent again.
SPECIFICATION FairSpec
CONSTANTS
  TotalRollout = 7
  MaxRequired = 4
  ServerSlots = 2
  PendingSize = 2
  CanFail = {2}
  RequiredSamples = 1
  TriggerSteps = 2
  SaveFreq = 2
  TestFreq = 2
  PartialRollout = TRUE
INVARIANTS
  TypeOK
  StaleBounded
  NothingLeftBehind
PROPERTIES
  JobEnds
