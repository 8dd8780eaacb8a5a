\* Two pipelines: both read the same batches.
CONSTANTS
  Ranks <- ThreeRanks
  Writers <- TwoWriters
  NumPipelines = 2
  StartBatch = 4
  Increment = 2
  RampSamples = 1
  GlobalBatch = 4
  TrainSamples = 20
  SaveInterval = 2
  ExitInterval = 3
  MaxStops = 2
SPECIFICATION Spec
INVARIANT EachBatchOnce
