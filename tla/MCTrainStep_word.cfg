\* WordGradientReduced: two training steps
CONSTANTS
  P <- FourDevices
  N <- FourDevices
  InitialWeight <- Distinct
  MbGrad <- Distinct
  MaxIters = 2
SPECIFICATION Spec
INVARIANT WordGradientReduced
