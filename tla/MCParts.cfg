\* every part
CONSTANTS
  P <- FourDevices
  Absent = Absent
  \* random states: two layers, so that the order of the recomputations shows, and
  \* three microbatches, so that one is forward, one kept and one backward
  Depth = 2
  PerStep = 3
  MaxSteps = 2
  Samplers <- AllSamplers
  Permuted <- EpochPermutation
  MaxBatches = 6
  RateLaunches <- AllRateLaunches
  BatchSizes = {2, 3}
  MaxSamples = 6
  Launches <- SmallLaunches
  RunParts = {"layers", "optimizer", "tensor", "random", "data", "sampler", "conversion", "groups", "rates", "sharded", "preprocess", "retrieval", "sentences", "launch", "model", "corpus", "forward"}
  TensorParallels <- SoundConfigs
SPECIFICATION PartsSpec
INVARIANTS
  StagesTile
  ReplicasMatch
  SplitAsWhole
  DrawsAsPlain
  SamplesAsPromised
  CyclesAsPlanned
  ConvertedWhole
  GroupsFit
  RatesFollowSamples
  ShardedAsWhole
  PreparedAsWritten
  RetrievalAsBuilt
  SentencesAsWritten
PROPERTY
  ImplementsSerial
\* launches are built, steps reduced, trainings over, conversions done
CHECK_DEADLOCK FALSE
