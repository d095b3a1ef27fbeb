\* The proxy on padded rows.
SPECIFICATION Spec
CONSTANTS
  Searches <- AllSearches
  LastTurns <- AllLastTurns
  ToolTurns <- AllToolTurns
  MaxRounds = 3
  ResponseLengthTotals = {20}
  FormatPenalty = 1
  Prices <- ScriptPrices
  BatchSize = 1
  N = 2
  TrainBatchSize = 1
  FilterGroups = {FALSE}
  MaxGenBatches = 1
  UseKlLoss = {TRUE}
  Ranks = 1
  LogProbMicroBatchSizes = {1}
  MiniBatchSizes = {1}
  MicroBatchSizes = {1}
  PpoEpochs = 1
  OtherRows <- FewRows
INVARIANT ProxyNeedsObservation
