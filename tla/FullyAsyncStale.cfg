\* One request for each of two slots, staleness_threshold = 2.
SPECIFICATION Spec
CONSTANTS
  TotalRollout = 5
  MaxRequired = 3
  ServerSlots = 2
  PendingSize = 2
  CanFail = {}
  RequiredSamples = 1
  TriggerSteps = 1
  SaveFreq = 1
  TestFreq = 2
  PartialRollout = FALSE
INVARIANTS
  AtMostRolloutNum
