\* the rotary embedding of a prompt in micro batches
CONSTANTS
  P <- Three
  Threads <- TwoThreads
  Requests <- Asked
  LogProb <- LogProbTable
  MaxPosition = 5
  MaxTokens = 12
  Threshold = 4
SPECIFICATION Spec
INVARIANT QueriesRotated
