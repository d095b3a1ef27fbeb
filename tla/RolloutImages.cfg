\* Searched images, odd outputs, and limits that some conversations reach and
\* others, with two images, do not.
SPECIFICATION Spec
CONSTANTS
  BatchSize = 1
  N = 2
  Validate = FALSE
  MaxGenRound = 3
  ImageSearchLimit = 2
  TextSearchLimit = 1
  MaxModelLen = 13
  ResponseLengthTotal = 12
  ParallelToolCall = TRUE
  Threads = 2
  PrefixLength = 1
  Outputs <- OddOutputs
  TextResults <- TextOnly
  ImageResults <- ImageHits
INVARIANTS
  TypeOK
  ResponseMaskMatchesAuthor
  PadsMatchImages
  MarkedTokensAttended
  MaskMatchesAuthor
