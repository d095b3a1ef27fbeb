\* Two prompts of two samples each, both tools, two threads, calls that raise.
SPECIFICATION Spec
CONSTANTS
  BatchSize = 2
  N = 2
  Validate = FALSE
  MaxGenRound = 3
  ImageSearchLimit = 2
  TextSearchLimit = 1
  MaxModelLen = 100
  ResponseLengthTotal = 100
  ParallelToolCall = TRUE
  Threads = 2
  PrefixLength = 1
  Outputs <- AskOutputs
  TextResults <- TextOnly
  ImageResults <- ImageHitsOrRaised
INVARIANTS
  ModelHasLastWord
  ResultsAreOwn
  SearchesOwnImage
PROPERTIES
  Completes
  IsSearchDialogue
