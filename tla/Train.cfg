\* Actor and critic on two ranks, three jobs, a save at every second step of
\* which two are kept, and filter_groups gathering a prompt from batches any of
\* which may be rejected.
SPECIFICATION Spec
CONSTANTS
  WorldSize = 2
  MaxStep = 10
  UseCritic = TRUE
  MaxToKeep = 2
  SaveContents <- ModelOnly
  TotalSteps = 6
  TotalEpochs = 2
  EpochLength = 3
  SaveFreq = 2
  TestFreq = 3
  CriticWarmup = 2
  FilterGroups = TRUE
  TrainBatchSize = 1
  MaxGenBatches = 2
  ResumeModes = {"auto", "resume_path"}
  PathStep = 1
  ResumeFromPath = TRUE
  ValOnly = {TRUE, FALSE}
  MaxJobs = 3
INVARIANTS
  TrainTypeOK
  TrackerNamesComplete
  ResumesFromLastSave
  StepsCountUpdates
  EachBatchOnce
  LosesFewUpdates
PROPERTIES
  JobsEnd
