\* A job on three ranks: save after every second iteration, exit after every
\* third, and two crashes, signals or ends of the allotted time.  One pipeline
\* and a ramp-up with batch sizes 2, 2, 4, 6, 6, which leave one of 21 batches.
CONSTANTS
  Ranks <- ThreeRanks
  Writers <- TwoWriters
  NumPipelines = 1
  StartBatch = 2
  Increment = 2
  RampSamples = 5
  GlobalBatch = 6
  TrainSamples = 21
  SaveInterval = 2
  ExitInterval = 3
  MaxStops = 2
SPECIFICATION FairSpec
INVARIANTS
  TypeOK
  DamageOnlyInWindow
  DataFollowsSamples
PROPERTIES
  PublishedComplete
  LosesAtMostInterval
  Ends
