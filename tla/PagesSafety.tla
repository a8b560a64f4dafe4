----------------------------- MODULE PagesSafety -----------------------------
(***************************************************************************)
(* What the pages must not get wrong, whatever was clicked, typed or saved *)
(* before: the same transactions, counted along different ways, give the   *)
(* same amounts.  They are said of what is drawn: without a market model   *)
(* that can be built a page shows its error and no amount.                 *)
(***************************************************************************)
EXTENDS Pages

SumOf(bars) == SumFunction(bars)

(* The types of what a tab keeps.  The text of the search box is one that  *)
(* was typed, unless the form of filters wrote it.                         *)
FormType ==
    [types : SUBSET TransactionTypes, vendor : VendorTexts \cup {<<>>},
     accounts : SUBSET DOMAIN Core.accounts, categories : SUBSET DOMAIN Core.categories,
     trips : SUBSET DOMAIN Core.trips, tags : SUBSET DOMAIN Core.tags,
     from : DOMAIN FilterDays \cup {None}, to : DOMAIN FilterDays \cup {None},
     allTags : BOOLEAN]

TypeOK ==
    /\ now \in DOMAIN AnswersAt /\ loaded \in DOMAIN AnswersAt
    /\ snapshot \in DOMAIN Snapshots
    /\ page \in AllPages
    /\ filters \in FormType
    /\ searchText \in TypedQueries \cup {<<>>} \/ searchText = GenerateQuery(filters)
    /\ showFilters \in BOOLEAN /\ showStats \in BOOLEAN /\ displayLimit \in Nat
    /\ duration \in [start : Int, end : Int]
    /\ excluded \subseteq DefaultExcluded \cup DOMAIN Core.categories
    /\ sorting \in {"DATE_ASC", "DATE_DESC", "AMOUNT_ASC", "AMOUNT_DESC"}
    /\ showAll \in BOOLEAN
    /\ range \in Ranges \cup {"1Y"} /\ hideBalances \in BOOLEAN /\ cookie \in BOOLEAN

------------------------------------------------------------------------------
(* The form of filters finds what it says: what is chosen in one field are *)
(* alternatives (all of the tags, when that is asked for), and fields      *)
(* narrow each other down.  For names of one word only: the words of a     *)
(* longer one are looked for apart (UpdateQueryOnFormChange, search).      *)
ChosenByForm(t) ==
    LET HasAccount == \E a \in filters.accounts : a \in BankAccountsOf(t)
        HasType == \/ "personal" \in filters.types /\ IsPersonalExpense(t)
                   \/ "external" \in filters.types /\ IsThirdPartyExpense(t)
                   \/ "transfer" \in filters.types /\ IsTransfer(t)
                   \/ "income" \in filters.types /\ IsIncome(t)
        Plain == ~IsOpeningBalance(t)
    IN  /\ filters.types = {} \/ HasType
        /\ \/ filters.vendor = <<>>
           \/ IsExpense(t) /\ filters.vendor[1] \in Range(t.vendor)
        /\ filters.accounts = {} \/ HasAccount
        /\ filters.categories # {} => Plain /\ t.category \in filters.categories
        /\ filters.trips # {} => OnTrip(t) /\ t.trip \in filters.trips
        /\ filters.from = None \/ t.time >= StartOfDay(filters.from)
        /\ filters.to = None \/ t.time < StartOfDay(filters.to + 1)
        /\ filters.tags # {} =>
              /\ Plain
              /\ IF filters.allTags THEN filters.tags \subseteq t.tags
                 ELSE filters.tags \cap t.tags # {}

OneWordNames == \A trip \in filters.trips : Len(Core.trips[trip]) = 1

FiltersFindChosen ==
    page.kind = "transactions" /\ searchText = GenerateQuery(filters) /\ OneWordNames
        => Filtered = {t \in transactions : ChosenByForm(t)}

(* What the user typed over the generated query is kept until the form is  *)
(* changed: data that arrives must not write it again                      *)
(* (UpdateQueryOnFormChange's dependencies).                               *)
TypedQueryStays ==
    [][page' = page /\ filters' = filters /\ searchText' # searchText
            => searchText' \in TypedQueries]_vars

(* The statistics about what was found account for all of it: every        *)
(* transaction is one of the counts or an opening balance or named as not  *)
(* converted, the bars of each chart add up to the total, and percentiles  *)
(* go up to the largest month (TransactionStats, Timeseries).              *)
CountsAddUp(found, input, text) ==
    /\ text.matched + Cardinality(input.failed) = Cardinality(found)
    /\ text.matched = text.personal + text.external + text.transfers + text.income
                          + Cardinality({x \in input.xs : IsOpeningBalance(x.t)})

AmountsAddUp(stats) ==
    /\ SumOf(stats.grossByMonth) = stats.gross
    /\ SumOf(stats.netByMonth) = stats.net
    /\ SumOf(stats.netByYear) = stats.net
    /\ SumOf(stats.topCategory) = stats.net

PercentilesGrow(entries, percentiles) ==
    /\ percentiles[100] = Max(Range(Series(Own(entries), "month")))
    /\ percentiles[25] <= percentiles[50] /\ percentiles[75] <= percentiles[100]

PanelAddsUp(found, input) ==
    /\ CountsAddUp(found, input, TextSummary(input))
    /\ AmountsAddUp(IncomeOrExpenseStats(Expenses(input), input.interval))
    /\ Expenses(input) # {} =>
          PercentilesGrow(Expenses(input), Percentiles(Own(Expenses(input))))

StatsAddUp(found) == found # {} => PanelAddsUp(found, FoundInput(found))

FoundAddsUp ==
    MarketModelBuilds /\ page.kind = "transactions" /\ showStats => StatsAddUp(Filtered)

------------------------------------------------------------------------------
(* The charts over time show all of the interval, whichever way its ends   *)
(* lie and wherever in a month they fall: by month, by category, by root   *)
(* category and by year they add up to the same (stats/expense, cashflow). *)
SumOfStacks(stack) == SumOf([name \in DOMAIN stack |-> SumOf(stack[name])])

LastOf(bars) == IF bars = <<>> THEN 0 ELSE Last(bars)

CashflowAddsUp(charts, total, yearly) ==
    /\ SumOf(charts.cashflow) = total.delta
    /\ SumOf(charts.expense) = total.spent
    /\ SumOf(charts.income) = total.received
    /\ LastOf(charts.cumulative) = total.delta
    /\ LastOf(charts.yearlySoFar) = total.delta
    /\ yearly => SumOf(charts.yearly) = total.delta

ExpenseAddsUp(charts, total, yearly) ==
    /\ SumOf(charts.expense) = total.spent
    /\ SumOfStacks(charts.byTopCategory) = total.spent
    /\ SumOfStacks(charts.byCategory) = total.spent
    /\ SumOf([root \in DOMAIN charts.fanout |-> SumOfStacks(charts.fanout[root])])
          = total.spent
    /\ yearly => SumOf(charts.yearly) = total.spent

IncomeAddsUp(charts, total, yearly) ==
    /\ SumOf(charts.income) = total.received
    /\ SumOfStacks(charts.byCategory) = total.received
    /\ yearly => SumOf(charts.yearly) = total.received

InputAddsUp(kind, input) ==
    CASE kind = "cashflow" ->
            CashflowAddsUp(CashflowCharts(input), PeriodSummary(input), SpansYear(input))
      [] kind = "expense" ->
            ExpenseAddsUp(ExpenseCharts(input), PeriodSummary(input), SpansYear(input))
      [] kind = "income" ->
            IncomeAddsUp(IncomeCharts(input), PeriodSummary(input), SpansYear(input))

(* The periods to choose from cover the history without an overlap: what   *)
(* their summaries say was spent and received adds up to all of it, and    *)
(* within each the categories and the vendors add up to what was spent     *)
(* (Navigation, sliceInterval, TopN).                                      *)
OfPeriods(kind, Said(_)) ==
    SumOf([i \in DOMAIN Slices(kind) |->
              Said(PeriodSummary(StatsPageProps(excluded, Slices(kind)[i])))])

PeriodAddsUp(shown) ==
    /\ SumOf(shown.byCategory) = shown.summary.spent
    /\ SumOf(shown.byTopCategory) = shown.summary.spent
    /\ SumOf(shown.incomes) = shown.summary.received
    /\ SumOf([i \in DOMAIN shown.vendors.bars |-> shown.vendors.bars[i].amount])
          + shown.vendors.other.amount = shown.summary.spent

HistoryAddsUp(kind, input) ==
    /\ OfPeriods(kind, LAMBDA s : s.spent) = SumFunction(Own(ExpensesAllTime(input)))
    /\ OfPeriods(kind, LAMBDA s : s.received) = SumFunction(Own(IncomeAllTime(input)))
    /\ PeriodAddsUp(PeriodStats(kind, input))

ChartsAddUp ==
    MarketModelBuilds =>
        /\ page.kind \in DurationPages => InputAddsUp(page.kind, StatsInput(page.kind))
        /\ page.kind \in PeriodPages /\ transactions # {} =>
              HistoryAddsUp(page.kind, StatsInput(page.kind))

(* No expense and no income is dropped silently: each is charted, or named *)
(* as not converted, or lies in a category the user excluded, itself or by *)
(* one above it; and the lists show each once, in any order                *)
(* (filterExcludedTransactions, useExchangedTransactions).                 *)
IsExcluded(t) ==
    \E c \in excluded : c = t.category \/ c \in Range(GetAncestors(t.category))

NothingDropped ==
    MarketModelBuilds /\ page.kind \in StatsPages =>
        LET input == StatsInput(page.kind)
            kept  == {x.t : x \in ExpensesAllTime(input) \cup IncomeAllTime(input)}
        IN  /\ kept \cup input.failed =
                  {t \in transactions : ~IsExcluded(t) /\ (IsExpense(t) \/ IsIncome(t))}
            /\ kept \cap input.failed = {}
            /\ page.kind \in PeriodPages =>
                  LET listed == {x.t : x \in Expenses(input)}
                      rows   == SortedTransactions(listed, sorting)
                  IN  /\ Range(rows) \cup FailedToSort(listed, sorting) = listed
                      /\ Len(rows) = Cardinality(Range(rows))

------------------------------------------------------------------------------
(* An amount is converted at the last value known on its day, and before   *)
(* the first known day at that day's: never at one from a later day        *)
(* (ExchangeRates, StockQuotes and their backfill).                        *)
KnownOn(series, when) ==
    LET past == {d \in DOMAIN series : d <= DayOf(when)}
    IN  series[IF past = {} THEN Min(DOMAIN series) ELSE Max(past)]

RatesLookBack ==
    MarketModelBuilds =>
        \A when \in {t.time : t \in transactions} \cup {loaded, now} :
            /\ \A pair \in DOMAIN market.rates :
                  FindRate(pair[1], pair[2], when) = KnownOn(market.rates[pair], when)
            /\ \A stock \in DOMAIN market.quotes :
                  FindQuote(stock, when) = KnownOn(market.quotes[stock], when)

(* The line of net worth, drawn in one sweep over the history, has at each *)
(* point what adding up the transactions until then gives, and ends at the *)
(* amount above it when nothing became due since the data came             *)
(* (netWorthTimeline, sweep).                                              *)
EffectOf(t, a) ==
    IF IsOpeningBalance(t) THEN IF t.account = a THEN t.amount ELSE 0
    ELSE BalanceEffect(t, a)

BalanceUntil(a, when) ==
    SumFunction([t \in {u \in transactions : IsOpeningBalance(u) \/ u.time <= when}
                    |-> EffectOf(t, a)])

BalancesUntil(when) == [a \in DOMAIN Core.accounts |-> BalanceUntil(a, when)]

WorthOf(bank, when) == SumOfBalances(BalancesUntil(when), AccountsForBank(bank), when)

NetWorthReplays ==
    MarketModelBuilds /\ page.kind = "overview" =>
        \A line \in {NetWorthHero(range, now)} :
            /\ \A i \in DOMAIN line :
                  line[i].amount = SumOfBalances(BalancesUntil(line[i].time),
                                                 DOMAIN Core.accounts, line[i].time)
            /\ line # <<>> /\ loaded = now => line[Len(line)].amount = NetWorth
            /\ \A b \in DOMAIN Core.banks : BankChange(b, now) # None =>
                  BankChange(b, now) =
                      WorthOf(b, loaded) - WorthOf(b, now - PeriodLength["month"])

(* The totals of the banks are the net worth, archived accounts included   *)
(* (BanksListItem, NetWorthHero).                                          *)
BanksMakeNetWorth ==
    MarketModelBuilds /\ page.kind = "overview" /\ NetWorth # None =>
        SumOf([b \in DOMAIN Core.banks |-> BankTotal(b)]) = NetWorth

AccountRowsAddUp ==
    page.kind = "account" =>
        LET due == {t \in transactions : /\ BelongsToAccount(t, page.of)
                                         /\ t.time <= loaded \/ IsOpeningBalance(t)}
        IN  SumFunction([t \in due |-> RowAmount(t, page.of)]) = CurrentBalances[page.of]

TripCostsAgree ==
    page.kind \in {"trips", "trip"} =>
        \A trip \in DOMAIN Core.trips :
            /\ \A t \in TransactionsOfTrip(trip) : ~IsIncome(t)
            /\ TripTotalSpend(trip) # None
            => TripTotalSpend(trip) = TripTextSummary(trip).gross

(* What two places show of one thing agrees.  The rows that an account's   *)
(* page lists, those that are not due yet left aside, add up to the        *)
(* balance above them (TransactionsList, BalanceCard).  What the list of   *)
(* trips says a trip cost, when nothing came back and every amount can be  *)
(* converted, is what its own page says (TripsList, TripDetails).          *)
PlacesAgree == MarketModelBuilds => AccountRowsAddUp /\ TripCostsAgree
=============================================================================
