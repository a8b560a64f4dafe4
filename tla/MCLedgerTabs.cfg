SPECIFICATION Spec
CONSTANTS
  Sessions = {s1, s2}
  Accounts = {a1}
  Currencies = {usd}
  Stocks = {}
  People = {ann}
  Trips = {}
  Tags = {}
  TripKey <- MCTripKey
  Events = {e1}
  Amounts = {1}
  OpeningAmounts = {0, 1, 2}
  RatedCurrencies = {usd}
  EditRepayments = TRUE
  NoName = NoName
  NoAccount = NoAccount
  Forms = {"PAID_OTHER_REPAID", "PAID_SELF_NOT_SHARED", "ADD_ACCOUNT", "UPDATE_ACCOUNT"}
  MaxId = 4
SYMMETRY SessionSymmetry
INVARIANT
  ChainsKeepIid
  RepaymentsSettle
  RepaymentsFollow
  OriginsResolve
  NewestOpeningAgrees
