SPECIFICATION Spec
CONSTANTS
  Text = Text
  None = None
  usd = usd
  eur = eur
  acme = acme
  n0 = n0
  n1 = n1
  a = a
  NoQuery = NoQuery
  NoName = NoName
  Queries = {a}
  Units = {usd, acme}
  InitialUnits = {usd}
  FoundUnits <- MCFoundUnits
  MaxFetches = 1
  Names = {n1}
  Orders = {}
  Currencies = {eur}
  InitialRows <- MCInitialRows
  MaxRows <- MCMaxRows
  MaxForms = 2
  MaxSubmits = 2
  MaxFaults = 1
CHECK_DEADLOCK FALSE
INVARIANTS
  RowsAreSaved
PROPERTIES
  SaveKeepsUntouched
