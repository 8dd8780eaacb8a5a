\* a frozen product whose sum of gradients was to be asynchronous
CONSTANTS
  P <- FourDevices
  Absent = Absent
  Depth = 2
  PerStep = 3
  MaxSteps = 2
  Samplers <- AllSamplers
  Permuted <- EpochPermutation
  MaxBatches = 6
  RateLaunches <- AllRateLaunches
  BatchSizes = {2, 3}
  MaxSamples = 6
  Launches <- SmallLaunches
  RunParts = {"tensor"}
  TensorParallels <- FrozenAsyncConfigs
SPECIFICATION PartsSpec
INVARIANT FrozenGivesInputGradient
CHECK_DEADLOCK FALSE
