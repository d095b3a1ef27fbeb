\* Rows of up to three model turns, cut and padded, in every shaping mode, each
\* followed through a step of two generation batches at most.
SPECIFICATION Spec
CONSTANTS
  Searches <- AllSearches
  LastTurns <- AllLastTurns
  ToolTurns <- AllToolTurns
  MaxRounds = 3
  ResponseLengthTotals = {4, 20}
  FormatPenalty = 1
  Prices <- ScriptPrices
  BatchSize = 2
  N = 2
  TrainBatchSize = 3
  FilterGroups = {TRUE, FALSE}
  MaxGenBatches = 2
  UseKlLoss = {TRUE, FALSE}
  Ranks = 2
  LogProbMicroBatchSizes = {1, 2, 4}
  MiniBatchSizes = {1, 2, 3}
  MicroBatchSizes = {1, 2}
  PpoEpochs = 2
  OtherRows <- FewRows
INVARIANTS
  ResponsesAreTurns
  RewardedOnce
  ThresholdTellsCorrect
  GroupsArePrompts
  AdvantagesCancel
  CorrectIsAhead
  EachRowOncePerEpoch
