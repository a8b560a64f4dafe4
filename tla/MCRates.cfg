SPECIFICATION LiveSpec
CONSTANTS
  c1 = c1
  c2 = c2
  s1 = s1
  Codes = {c1, c2}
  Stocks = {s1}
  StockCurrency <- MCStockCurrency
  Trading <- MCTrading
  Users = {u1}
  Writers = {w1}
  NoUnit = NoUnit
  Backfill = 1
  MaxDay = 1
INVARIANT
  NoSignalLost
  NoGaps
PROPERTY
  EverySeriesTried
