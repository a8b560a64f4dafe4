SPECIFICATION Spec
CONSTANTS
  Sessions = {s1}
  Accounts = {a1}
  Currencies = {usd}
  Stocks = {}
  People = {}
  Trips = {}
  Tags = {}
  TripKey <- MCTripKey
  Events = {}
  Amounts = {1}
  OpeningAmounts = {0, 1}
  RatedCurrencies = {usd}
  EditRepayments = FALSE
  NoName = NoName
  NoAccount = NoAccount
  Forms = {"ADD_ACCOUNT", "UPDATE_ACCOUNT"}
  MaxId = 3
INVARIANT
  PageRenders
