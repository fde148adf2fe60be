SPECIFICATION MCSpec
CONSTANTS
  D = 10
  SlippageRate = 1
  CommissionRate = 1
  SellTaxRate = 2
  StopLossPct = 2
  TakeProfitPct = 2
  MaxHoldingDays = 2
  Quantum = 100
  Symbols = {1, 2}
  LastDay = 5
  SignalDays = {1, 2}
  Prices <- MCPrices
  InitialCapital = 60
  MaxOpenChoices = {1, 2}
  PositionSizePct = 6
  MinimumCashBufferPct = 1
INVARIANT MissingBarsAreCarried
