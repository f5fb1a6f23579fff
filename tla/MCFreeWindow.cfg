CONSTANTS
  Candidates <- MCCandidates
  Today = 7
  TrendMonths = 6
  SpikePercent = 30
  SpikeMinimum = 5
  SpikeLookback = 3
  PatternWindow = 6
  PatternMinimum = 3
  PatternPercent = 10
  PublicMinimum = 3
  FreeMonths = 3
  NoFigure = NoFigure
INIT InitFigures
NEXT NextFigures
INVARIANTS
  FreeSeesOnlyTheWindow
