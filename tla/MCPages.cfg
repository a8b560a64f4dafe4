SPECIFICATION Spec
CONSTANTS
    None = None
    Core <- MCCore
    NanosMultiplier = 10
    DayLength = 2
    StaleThreshold = 3
    StockCurrency <- MCStockCurrency
    DisplayCurrency = "USD"
    PeriodLength <- MCPeriodLength
    AverageWindow = 12
    TopItems = 1
    Quoted <- MCQuoted
    Unlexed = {}
    Lower <- MCLower
    PartOf = {}
    AmountOf <- MCAmountOf
    DateOf <- MCDateOf
    VendorTexts <- MCVendorTexts
    FilterDays <- MCFilterDays
    TypedQueries <- MCTypedQueries
    MaxChosen = 2
    FirstItems = 2
    MoreItems = {2}
    MaxItems = 4
    DefaultExcluded = {2}
    PickedDays = {47, 51}
    MaxExcluded = 1
    LongFailures = 1
    SampleCount = 5
    RecentWindow = 7
    Ranges = {"1M", "1Y", "ALL"}
    Snapshots <- MCSnapshots
    AnswersAt <- MCAnswersAt
    FirstMoment = 106
    Ticks = {3}
INVARIANTS FiltersFindChosen FoundAddsUp ChartsAddUp NothingDropped
    RatesLookBack NetWorthReplays BanksMakeNetWorth PlacesAgree
PROPERTIES TypedQueryStays
