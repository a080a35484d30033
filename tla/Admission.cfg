CONSTANTS
  Waves <- MCWaves
  Sizes = {4}
  MinGrant = 2
  Limit = 3
  BeamWidth = 2
  ParkLimit = 1
  NodeLimit = 4
SPECIFICATION Spec
INVARIANTS
  CertifiedOptimum
  CompletionSettles
  BoundAdmissible
  GreedyLowerBound
  WaveWithinBudget
  MaxMinFair
  NobodyForgotten
