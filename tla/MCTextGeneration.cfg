\* two clients at a time, three stages
CONSTANTS
  P <- Three
  Threads <- TwoThreads
  Requests <- Asked
  LogProb <- LogProbTable
  MaxPosition = 5
  MaxTokens = 12
  Threshold = 4
SPECIFICATION FairSpec
INVARIANTS
  OwnContext
  AnswerRight
  BestKept
PROPERTY EveryRequestAnswered
