\* The pure algorithms over bounded inputs.
SPECIFICATION AlgorithmsSpec

CONSTANTS
  Sma5 = 2
  Sma20 = 3
  Sma60 = 5
  Atr14 = 2
  BoxLookback = 3
  PullbackLookback = 3
  PullbackVolumeLookback = 1
  RangeLookback = 2
  ShortLookback = 1
  LongLookback = 3
  MinimumHistory = 5
  MinimumClose = 100
  MinimumValue = 480
  MinimumCandidateScore = 8000
  MaximumCandidates = 2
  MonthLength = 2
  MaxTrades = 3
  MaxBars = 7
  MaxResults = 3

\* The inputs are bounded, so every behaviour ends.
CHECK_DEADLOCK FALSE

INVARIANTS
  StatisticsHold
  MetricsMatchAnalysis
  WindowsAreFull
  SetupsAreSound
  RankingIsSound
  FramesAgree
  AnalysisIsBacked
