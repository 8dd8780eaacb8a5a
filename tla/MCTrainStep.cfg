\* three training steps: gradients of the first, rebound ones after it
CONSTANTS
  P <- FourDevices
  N <- FourDevices
  InitialWeight <- Distinct
  MbGrad <- Distinct
  MaxIters = 3
SPECIFICATION Spec
INVARIANTS
  ReplicasAgree
PROPERTY UpdatesRight
