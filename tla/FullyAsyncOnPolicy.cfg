\* staleness_threshold = 0 and trigger_parameter_sync_step = 1.
SPECIFICATION FairSpec
CONSTANTS
  TotalRollout = 4
  MaxRequired = 2
  ServerSlots = 2
  PendingSize = 2
  CanFail = {}
  RequiredSamples = 2
  TriggerSteps = 1
  SaveFreq = 1
  TestFreq = 2
  PartialRollout = FALSE
PROPERTIES
  TrainerIsServed
