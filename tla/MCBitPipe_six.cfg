\* a training step on six devices, two units of microbatches
CONSTANTS
  P <- SixDevices
  N <- SixByTwelve
  ForwardOnly = FALSE
  OverlapP2P = FALSE
  GradSyncFunc = TRUE
SPECIFICATION Spec
INVARIANTS
  RightTensor
PROPERTIES
  SynchronizedWhenComplete
