SPECIFICATION Spec
CONSTANTS
  Sessions = {s1}
  Accounts = {a1}
  Currencies = {usd}
  Stocks = {}
  People = {ann}
  Trips = {}
  Tags = {}
  TripKey <- MCTripKey
  Events = {}
  Amounts = {1}
  OpeningAmounts = {0}
  RatedCurrencies = {usd}
  EditRepayments = TRUE
  NoName = NoName
  NoAccount = NoAccount
  Forms = {"PAID_SELF_NOT_SHARED", "PAID_OTHER_REPAID", "ADD_ACCOUNT"}
  MaxId = 6
INVARIANT
  OneHeadPerChain
