\* max_actor_ckpt_to_keep=1 and one interruption.
SPECIFICATION Spec
CONSTANTS
  WorldSize = 2
  MaxStep = 6
  UseCritic = FALSE
  MaxToKeep = 1
  SaveContents <- ModelAndOptimizer
  TotalSteps = 2
  TotalEpochs = 2
  EpochLength = 2
  SaveFreq = 1
  TestFreq = 2
  CriticWarmup = 0
  FilterGroups = FALSE
  TrainBatchSize = 1
  MaxGenBatches = 0
  ResumeModes = {"auto"}
  PathStep = 1
  ResumeFromPath = FALSE
  ValOnly = {FALSE}
  MaxJobs = 2
INVARIANTS
  TrackerNamesComplete
