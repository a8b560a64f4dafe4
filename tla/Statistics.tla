----------------------------- MODULE Statistics -----------------------------
(***************************************************************************)
(* What the statistics and trip pages compute: every expense and income in *)
(* the display currency, cut to an interval, summed by period, category    *)
(* and vendor.  A chart is the sequence of its bars, or a function from    *)
(* what its bars stand for; rounding to whole units is layout and left out.*)
(*                                                                         *)
(* The calendar has equal months: a period is its number, counted from     *)
(* moment 0, and an interval holds both of its ends.                       *)
(***************************************************************************)
EXTENDS Market, SequencesExt

CONSTANTS
    DisplayCurrency,
    PeriodLength,       \* [granularity -> moments]
    AverageWindow,      \* 12
    TopItems            \* 10

ASSUME PeriodsAssumption ==
    \A granularity \in {"month", "quarter", "year"} :
        /\ granularity \in DOMAIN PeriodLength
        /\ PeriodLength[granularity] \in Nat \ {0}

ASSUME TopItemsAssumption == TopItems \in Nat

(* Array.sort: what has a key, the smallest key first; what has the same   *)
(* key stays in the order it was in.                                       *)
SortedByKey(key) ==
    LET items == SetToSeq(DOMAIN key)
        Before(j, i) == \/ key[items[j]] < key[items[i]]
                        \/ key[items[j]] = key[items[i]] /\ j <= i
        Place(i) == Cardinality({j \in DOMAIN items : Before(j, i)})
    IN  [n \in DOMAIN items |-> items[CHOOSE i \in DOMAIN items : Place(i) = n]]

Interval(start, end) == [start |-> start, end |-> end]

PeriodOf(when, granularity) == when \div PeriodLength[granularity]

PeriodInterval(period, granularity) ==
    Interval(period * PeriodLength[granularity],
             (period + 1) * PeriodLength[granularity] - 1)

IsWithinOpenEnd(when, interval) ==
    /\ Min({interval.start, interval.end}) <= when
    /\ when < Max({interval.start, interval.end})

(* The ends in either order, as the date library has it.                   *)
IsWithin(when, interval) ==
    /\ Min({interval.start, interval.end}) <= when
    /\ when <= Max({interval.start, interval.end})

(* Slicing up to, and not through, the last period.                        *)
SliceUpToEnd(interval, granularity) ==
    LET first == PeriodOf(interval.start, granularity)
        last  == PeriodOf(interval.end, granularity)
    IN  [i \in 1 .. last - first |-> first + i - 1]

(* The periods an interval touches, from its start to its end.             *)
SliceInterval(interval, granularity) ==
    LET first == PeriodOf(interval.start, granularity)
        last  == PeriodOf(interval.end, granularity)
    IN  IF interval.start <= interval.end
        THEN [i \in 1 .. last - first + 1 |-> first + i - 1]
        ELSE [i \in 1 .. first - last + 1 |-> first - i + 1]

------------------------------------------------------------------------------
(* Timeseries: period -> sum of the values of its entries.                 *)
Series(values, granularity) ==
    LET In(period) == {x \in DOMAIN values : PeriodOf(x.t.time, granularity) = period}
    IN  [period \in {PeriodOf(x.t.time, granularity) : x \in DOMAIN values} |->
            SumFunctionOnSet(values, In(period))]

ValueIn(series, period) == IF period \in DOMAIN series THEN series[period] ELSE 0

(* The average of the last `window` periods that have an entry.            *)
RunningAverage(series, window) ==
    LET Recent(period) ==
            {p \in DOMAIN series :
                /\ p <= period
                /\ Cardinality({q \in DOMAIN series : p < q /\ q <= period}) < window}
        Rounded(sum, count) == (2 * sum + count) \div (2 * count)
    IN  [period \in DOMAIN series |->
            Rounded(SumFunctionOnSet(series, Recent(period)), Cardinality(Recent(period)))]

(* p in 1 .. 100, over the periods that have an entry.                     *)
Percentile(series, p) ==
    LET sorted == SortedByKey(series)
    IN  series[sorted[(Len(sorted) * p + 99) \div 100]]

TopN(data, n) ==
    LET sorted == SortedByKey([k \in DOMAIN data |-> -data[k]])
        other  == {sorted[i] : i \in n + 1 .. Len(sorted)}
    IN  [top        |-> SubSeq(sorted, 1, Min({n, Len(sorted)})),
         otherSum   |-> SumFunctionOnSet(data, other),
         otherCount |-> Cardinality(other)]

(* currencyAppendMap: key -> sum of the values of the entries with it.     *)
SumBy(keys, values) ==
    [k \in Range(keys) |->
        SumFunctionOnSet(values, {x \in DOMAIN keys : keys[x] = k})]

Bar(series, interval, granularity) ==
    LET slices == SliceInterval(interval, granularity)
    IN  [i \in DOMAIN slices |-> ValueIn(series, slices[i])]

StackedBar(stack, interval, granularity) ==
    [name \in DOMAIN stack |-> Bar(stack[name], interval, granularity)]

------------------------------------------------------------------------------
(* Amounts in the display currency, at the rates of their own date.        *)
AmountAllParties(t) ==
    Exchange(t.amount, TransactionUnit(t), DisplayCurrency, t.time)
AmountOwnShare(t) ==
    Exchange(OwnShare(t), TransactionUnit(t), DisplayCurrency, t.time)

HasNoShare(t) == IsTransfer(t) \/ IsOpeningBalance(t)

ExchangedTransaction(t) ==
    IF HasNoShare(t) THEN [t |-> t, own |-> 0, all |-> 0]
    ELSE [t |-> t, own |-> AmountOwnShare(t), all |-> AmountAllParties(t)]

FailsToExchange(x) == x.own = None \/ x.all = None

Separated(entries, interval) ==
    [xs       |-> {x \in entries : ~FailsToExchange(x)},
     failed   |-> {x.t : x \in {y \in entries : FailsToExchange(y)}},
     interval |-> interval]

ExchangedIntervalTransactions(ts, interval) ==
    Separated({ExchangedTransaction(t) : t \in ts}, interval)
ExchangedTransactions(ts) == ExchangedIntervalTransactions(ts, None)

FilterDirectlyExcluded(excluded) ==
    {t \in transactions : ~IsOpeningBalance(t) /\ t.category \notin excluded}

(* A transaction in an excluded category or below one does not count.      *)
FilterExcluded(excluded) ==
    LET exclude == excluded \cup UNION {GetDescendants(c) : c \in excluded}
    IN  {t \in transactions : ~IsOpeningBalance(t) /\ t.category \notin exclude}

StatsPageProps(excluded, interval) ==
    ExchangedIntervalTransactions(FilterExcluded(excluded), interval)

ExpensesAllTime(input) == {x \in input.xs : IsExpense(x.t)}
IncomeAllTime(input)   == {x \in input.xs : IsIncome(x.t)}
Expenses(input) == {x \in ExpensesAllTime(input) : IsWithin(x.t.time, input.interval)}
Income(input)   == {x \in IncomeAllTime(input) : IsWithin(x.t.time, input.interval)}
Transfers(input) == {x.t : x \in {y \in input.xs : IsTransfer(y.t)}}

(* What is counted of entries, and what they are counted by.               *)
Own(entries)        == [x \in entries |-> x.own]
All(entries)        == [x \in entries |-> x.all]
Cashflow(entries)   == [x \in entries |-> IF IsIncome(x.t) THEN x.own ELSE -x.own]
One(entries)        == [x \in entries |-> 1]
Categories(entries) == [x \in entries |-> x.t.category]
Roots(entries)      == [x \in entries |-> FindRoot(x.t.category)]
Vendors(entries)    == [x \in entries |-> x.t.vendor]

------------------------------------------------------------------------------
(* Charts over time.                                                       *)
MonthlyExpense(input) ==
    Bar(Series(Own(Expenses(input)), "month"), input.interval, "month")
MonthlyIncome(input) ==
    Bar(Series(Own(Income(input)), "month"), input.interval, "month")
MonthlyCashflow(input) ==
    Bar(Series(Cashflow(Income(input) \cup Expenses(input)), "month"),
        input.interval, "month")
MonthlyTransactionCount(input) ==
    Bar(Series(One(input.xs), "month"), input.interval, "month")

MonthlyExpenseAverage(input) ==
    Bar(RunningAverage(Series(Own(ExpensesAllTime(input)), "month"), AverageWindow),
        input.interval, "month")
MonthlyIncomeAverage(input) ==
    Bar(RunningAverage(Series(Own(IncomeAllTime(input)), "month"), AverageWindow),
        input.interval, "month")
MonthlyCashflowAverage(input) ==
    Bar(RunningAverage(
            Series(Cashflow(IncomeAllTime(input) \cup ExpensesAllTime(input)), "month"),
            AverageWindow),
        input.interval, "month")

Cumulative(bars) ==
    LET upTo[i \in 0 .. Len(bars)] == IF i = 0 THEN 0 ELSE upTo[i - 1] + bars[i]
    IN  [i \in DOMAIN bars |-> upTo[i]]

MonthlyCashflowCumulative(input) == Cumulative(MonthlyCashflow(input))

CashflowPerYear(input) ==
    Bar(Series(Cashflow(Income(input) \cup Expenses(input)), "year"),
        input.interval, "year")
YearlyCashflowCumulative(input) == Cumulative(CashflowPerYear(input))

(* A chart by year is shown for an interval of a year at least.            *)
SpansYear(input) ==
    input.interval.end - input.interval.start >= PeriodLength["year"]
YearlyCashflow(input) ==
    IF SpansYear(input) THEN CashflowPerYear(input) ELSE <<>>
YearlyExpense(input) ==
    IF SpansYear(input)
    THEN Bar(Series(Own(Expenses(input)), "year"), input.interval, "year") ELSE <<>>
YearlyIncome(input) ==
    IF SpansYear(input)
    THEN Bar(Series(Own(Income(input)), "year"), input.interval, "year") ELSE <<>>

TimelineAmounts(values, interval, granularity) ==
    Bar(Series(values, granularity), interval, granularity)

MonthlyByKey(keys, input) ==
    StackedBar([k \in Range(keys) |->
                    Series(Own({x \in DOMAIN keys : keys[x] = k}), "month")],
               input.interval, "month")
MonthlyExpenseByCategory(input) == MonthlyByKey(Categories(Expenses(input)), input)
MonthlyIncomeByCategory(input)  == MonthlyByKey(Categories(Income(input)), input)
MonthlyExpenseByTopCategory(input) ==
    MonthlyByKey(Roots(Expenses(input)), input)

(* One chart for each root that has an expense in its subtree.             *)
IsRoot(c) == Core.categories[c].parent = None
InSubtree(root, entries) ==
    {x \in entries : SubtreeIncludes(root, x.t.category)}
FanoutByRootCategory(input) ==
    [root \in {c \in DOMAIN Core.categories :
                    IsRoot(c) /\ InSubtree(c, Expenses(input)) # {}} |->
        MonthlyByKey(Categories(InSubtree(root, Expenses(input))), input)]

------------------------------------------------------------------------------
(* Charts by category and by vendor.                                       *)
ExpenseByCategory(input) == SumBy(Categories(Expenses(input)), Own(Expenses(input)))
IncomeByCategory(input)  == SumBy(Categories(Income(input)), Own(Income(input)))
ExpenseByTopCategory(entries) == SumBy(Roots(entries), Own(entries))

(* The items that have a bar of their own: one more when the bar of the    *)
(* others would stand for a single item.                                   *)
TopItemsCount(data) ==
    IF TopItems = Cardinality(DOMAIN data) - 1 THEN TopItems + 1 ELSE TopItems

TopWithOthers(data) ==
    LET best == TopN(data, TopItemsCount(data))
    IN  [bars  |-> [i \in DOMAIN best.top |-> [name |-> best.top[i], amount |-> data[best.top[i]]]],
         other |-> [count |-> best.otherCount, amount |-> best.otherSum]]

VendorsByAmount(input) ==
    TopWithOthers(SumBy(Vendors(Expenses(input)), Own(Expenses(input))))
VendorsByTransactionCount(input) ==
    TopWithOthers(SumBy(Vendors(Expenses(input)), One(Expenses(input))))

------------------------------------------------------------------------------
(* Summaries.                                                              *)
OnSomeTrip(t) == (IsExpense(t) \/ IsIncome(t)) /\ t.trip # None

Summary(spent, received, onTrips) ==
    [spent |-> spent, received |-> received, delta |-> received - spent, trips |-> onTrips]

PeriodSummary(input) ==
    Summary(SumFunction(Own(Expenses(input))),
            SumFunction(Own(Income(input))),
            SumFunction(Own({x \in Expenses(input) : OnSomeTrip(x.t)})))

TransactionsOfTrip(trip) == {t \in transactions : OnSomeTrip(t) /\ t.trip = trip}

(* The list of trips takes what came back off the spend.                   *)
SpendOf(t) == IF IsExpense(t) THEN AmountAllParties(t) ELSE -AmountAllParties(t)

TripTotalSpend(trip) ==
    IF \E t \in TransactionsOfTrip(trip) : AmountAllParties(t) = None THEN None
    ELSE SumFunction([t \in TransactionsOfTrip(trip) |-> SpendOf(t)])

(* The page of a trip sums what it can convert, expenses only.             *)
TripTextSummary(trip) ==
    LET Spent == {x \in ExchangedTransactions(TransactionsOfTrip(trip)).xs : IsExpense(x.t)}
    IN  [gross |-> SumFunction(All(Spent)), net |-> SumFunction(Own(Spent))]

TripsByTimestamp(now) ==
    LET Newest(trip) == Max({t.time : t \in TransactionsOfTrip(trip)})
        Epoch(trip) == IF TransactionsOfTrip(trip) = {} THEN now ELSE Newest(trip)
    IN  SortedByKey([trip \in DOMAIN Core.trips |-> -Epoch(trip)])

------------------------------------------------------------------------------
(* A list of transactions that can be sorted by date or by amount.         *)
SortingAmount(t) ==
    Exchange(t.amount, TransactionUnit(t), DisplayCurrency, t.time)

SortedTransactions(ts, sorting) ==
    LET known == {t \in ts : SortingAmount(t) # None}
    IN  CASE sorting = "DATE_ASC"    -> SortedByKey([t \in ts |-> t.time])
          [] sorting = "DATE_DESC"   -> SortedByKey([t \in ts |-> -t.time])
          [] sorting = "AMOUNT_ASC"  -> SortedByKey([t \in known |-> SortingAmount(t)])
          [] sorting = "AMOUNT_DESC" -> SortedByKey([t \in known |-> -SortingAmount(t)])

FailedToSort(ts, sorting) ==
    IF sorting \in {"AMOUNT_ASC", "AMOUNT_DESC"}
    THEN {t \in ts : SortingAmount(t) = None} ELSE {}
=============================================================================
