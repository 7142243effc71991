SPECIFICATION Spec
CONSTANTS
  EnergyUnit <- MCEnergyUnit
  JoulePerKg <- MCJoulePerKg
  GenDepth = 20
  SubDepth = 30
  ProbIceOf <- MCProbIceOf
  SnowIce <- MCSnowIce
  LayeredSnowIce <- MCLayeredSnowIce
  LogMelt <- MCLogMelt
  Cutoff = 515
  RateMin = 1
  Grids <- MCGrids
  ChunkSize = 2
  Missing = Missing
  TraceAmount = 2
INVARIANTS
  ProductionMatchesReference
  TypeFitsSurface
  AreasAlternate
  CrossingsAreDefined
  IconClassifiesEveryActiveColumn
CHECK_DEADLOCK FALSE
