\* a training step on four devices, three units of microbatches
CONSTANTS
  P <- FourDevices
  N <- FourByTwelve
  ForwardOnly = FALSE
  OverlapP2P = FALSE
  GradSyncFunc = FALSE
SPECIFICATION FairSpec
INVARIANTS
  TypeOK
  RightTensor
  StorageBounded
  StepComplete
  SameLayersReduced
PROPERTIES
  ImplementsFlow
  Termination
