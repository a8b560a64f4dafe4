SPECIFICATION Spec
CONSTANTS
    None = None
    New = New
    Garbled = Garbled
    Accounts <- MCAccounts
    FirstAccount = "current"
    UnitOf <- MCUnitOf
    Currencies = {"USD", "EUR"}
    DisplayCurrency = "USD"
    Categories = {"rest", "food"}
    FirstCategory = "rest"
    Names = {"ann"}
    Transactions <- MCTransactions
    Drafts <- MCDrafts
    Usual <- MCUsual
    Origins = {"e"}
    Edits <- MCEdits
INVARIANTS NoHiddenIssue HiddenAmountsFollow RepaymentIffRepaid
PROPERTIES EditKeepsCategory
