SPECIFICATION Spec
CONSTANTS
  Sessions = {s1}
  Accounts = {a1, a2}
  Currencies = {usd}
  Stocks = {acme}
  People = {ann}
  Trips = {"Rome", "rome"}
  Tags = {}
  TripKey <- MCTripKey
  Events = {}
  Amounts = {1}
  OpeningAmounts = {1}
  RatedCurrencies = {usd}
  EditRepayments = FALSE
  NoName = NoName
  NoAccount = NoAccount
  Forms = {"PAID_SELF_NOT_SHARED", "PAID_SELF_SHARED", "PAID_OTHER_OWED",
           "PAID_OTHER_REPAID", "INCOME", "INCOME_SHARED", "TRANSFER",
           "ADD_ACCOUNT", "UPDATE_ACCOUNT"}
  MaxId = 4
INVARIANT
  OneHeadPerChain
  PageRenders
  BooksBalance
  OneRowPerName
PROPERTY
  ImplementsEventLog
