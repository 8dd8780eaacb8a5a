\* EveryGradientReduced: 1F1B with torch DDP
CONSTANTS
  Configs <- DDPCalls
SPECIFICATION Spec
INVARIANT EveryGradientReduced
