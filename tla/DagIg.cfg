SPECIFICATION Spec
CONSTANTS
  Words <- MCWords
  Modes <- AllModes
  Samples <- MCSamples
  Limit <- MCLimit
  Observations <- MCObservations
  PolicyOutputs <- MCPolicyOutputs
  Answers <- MCAnswers
  RawGains <- MCRawGains
  MaxSummaryTokens = 2
  MaxAnchor = 2
  MaxPerType = 2
  CfSamples = 2
  MinFutureIg = 2
INVARIANTS
  TypeOK
  ComparedWithOthers
  AnswerHidden
  RewardsOnOwnTokens
  EdgesAreEarned
PROPERTY ScoringKeepsPool
