----------------------------- MODULE StatsPages -----------------------------
(***************************************************************************)
(* The state of the statistics pages and of the page of a trip.  The pages *)
(* "cashflow", "expense" and "income" take an interval from the duration   *)
(* selector, which starts at the last six months; the pages "month",       *)
(* "quarter" and "year" are named after their granularity and take one of  *)
(* the periods of the history, which starts at the current one.            *)
(***************************************************************************)
EXTENDS Statistics

CONSTANTS
    DefaultExcluded,    \* the categories the user's settings exclude
    PickedDays,         \* what is picked in a date field
    MaxExcluded,        \* bound on the categories excluded at once
    LongFailures        \* failures that are no longer all shown, 6

ASSUME PickedDaysAssumption == PickedDays \subseteq Int

VARIABLES duration, excluded, sorting, showAll

statsVars == <<duration, excluded, sorting, showAll>>

DurationPages == {"cashflow", "expense", "income"}
PeriodPages   == {"month", "quarter", "year"}
StatsPages    == DurationPages \cup PeriodPages

------------------------------------------------------------------------------
(* The duration selector.                                                  *)
StartOfMonth(when) == PeriodInterval(PeriodOf(when, "month"), "month").start

(* The current month is one of them.                                       *)
LastMonths(months, now) ==
    Interval((PeriodOf(now, "month") - (months - 1)) * PeriodLength["month"], now)

(* Of every transaction, openings included; there has to be one.           *)
FirstTransactionMonth == StartOfMonth(Min({t.time : t \in transactions}))

CommonIntervals(now) ==
    {LastMonths(6, now), LastMonths(12, now), Interval(FirstTransactionMonth, now)}

(* Navigation: the periods of the whole history.                           *)
AllDataInterval ==
    Interval(Min({t.time : t \in transactions}), Max({t.time : t \in transactions}))

Slices(granularity) ==
    LET periods == SliceInterval(AllDataInterval, granularity)
    IN  [i \in DOMAIN periods |-> PeriodInterval(periods[i], granularity)]

InitialDuration(kind, now) ==
    IF kind \in PeriodPages THEN PeriodInterval(PeriodOf(now, kind), kind)
    ELSE LastMonths(6, now)

(* The page of a trip starts with the oldest, the others with the largest. *)
InitialSorting(kind) == IF kind = "trip" THEN "DATE_ASC" ELSE "AMOUNT_DESC"

StatsInit(kind, now) ==
    /\ duration = InitialDuration(kind, now)
    /\ excluded = DefaultExcluded
    /\ sorting = InitialSorting(kind)
    /\ showAll = FALSE

(* A page that is opened anew starts over.                                 *)
StatsOpened(kind, now) ==
    /\ duration' = InitialDuration(kind, now)
    /\ excluded' = DefaultExcluded
    /\ sorting' = InitialSorting(kind)
    /\ showAll' = FALSE

------------------------------------------------------------------------------
SetDuration(interval) ==
    /\ duration' = interval
    /\ UNCHANGED <<excluded, sorting, showAll>>

PickCommonInterval(kind, now) ==
    /\ kind \in DurationPages
    /\ \E interval \in CommonIntervals(now) : SetDuration(interval)

(* A day stands for its midnight; a field that is cleared for the first    *)
(* month of the history and for now.                                       *)
PickedDay(day, cleared) == IF day = None THEN cleared ELSE StartOfDay(day)

SetFrom(kind) ==
    /\ kind \in DurationPages
    /\ \E day \in PickedDays \cup {None} :
          SetDuration([duration EXCEPT !.start = PickedDay(day, FirstTransactionMonth)])

SetTo(kind, now) ==
    /\ kind \in DurationPages
    /\ \E day \in PickedDays \cup {None} :
          SetDuration([duration EXCEPT !.end = PickedDay(day, now)])

(* The button of the selected period is disabled.                          *)
SelectPeriod(kind) ==
    /\ kind \in PeriodPages
    /\ \E interval \in Range(Slices(kind)) \ {duration} : SetDuration(interval)

SelectExcluded(kind) ==
    /\ kind \in StatsPages
    /\ \E c \in DOMAIN Core.categories :
          LET chosen == IF c \in excluded THEN excluded \ {c} ELSE excluded \cup {c}
          IN  /\ Cardinality(chosen) <= MaxExcluded
              /\ excluded' = chosen
    /\ UNCHANGED <<duration, sorting, showAll>>

(* The two buttons above a list: each turns its own order around.          *)
SortByDate(kind) ==
    /\ kind \in PeriodPages \cup {"trip"}
    /\ sorting' = IF sorting = "DATE_ASC" THEN "DATE_DESC" ELSE "DATE_ASC"
    /\ UNCHANGED <<duration, excluded, showAll>>

SortByAmount(kind) ==
    /\ kind \in PeriodPages \cup {"trip"}
    /\ sorting' = IF sorting = "AMOUNT_DESC" THEN "AMOUNT_ASC" ELSE "AMOUNT_DESC"
    /\ UNCHANGED <<duration, excluded, showAll>>

StatsInput(kind) == StatsPageProps(excluded, duration)

ShowAll(kind) ==
    /\ kind \in StatsPages
    /\ Cardinality(StatsInput(kind).failed) > LongFailures
    /\ ~showAll
    /\ showAll' = TRUE
    /\ UNCHANGED <<duration, excluded, sorting>>

VisibleFailures(failed) ==
    IF ~showAll /\ Cardinality(failed) > LongFailures THEN LongFailures - 1
    ELSE Cardinality(failed)

StatsNext(kind, now) ==
    \/ PickCommonInterval(kind, now) \/ SetFrom(kind) \/ SetTo(kind, now)
    \/ SelectPeriod(kind) \/ SelectExcluded(kind)
    \/ SortByDate(kind) \/ SortByAmount(kind) \/ ShowAll(kind)
------------------------------------------------------------------------------
(* What the pages show of their input.  The three pages by period were     *)
(* written by copying.                                                     *)
CashflowCharts(input) ==
    [cashflow       |-> MonthlyCashflow(input),
     cumulative     |-> MonthlyCashflowCumulative(input),
     average        |-> MonthlyCashflowAverage(input),
     expense        |-> MonthlyExpense(input),
     income         |-> MonthlyIncome(input),
     yearly         |-> YearlyCashflow(input),
     yearlySoFar    |-> YearlyCashflowCumulative(input),
     yearlyExpense  |-> YearlyExpense(input),
     yearlyIncome   |-> YearlyIncome(input)]

ExpenseCharts(input) ==
    [expense       |-> MonthlyExpense(input),
     average       |-> MonthlyExpenseAverage(input),
     yearly        |-> YearlyExpense(input),
     byTopCategory |-> MonthlyExpenseByTopCategory(input),
     byCategory    |-> MonthlyExpenseByCategory(input),
     fanout        |-> FanoutByRootCategory(input)]

IncomeCharts(input) ==
    [income     |-> MonthlyIncome(input),
     average    |-> MonthlyIncomeAverage(input),
     yearly     |-> YearlyIncome(input),
     byCategory |-> MonthlyIncomeByCategory(input)]

MonthlyStats(input) ==
    [summary       |-> PeriodSummary(input),
     byTopCategory |-> ExpenseByTopCategory(Expenses(input)),
     byCategory    |-> ExpenseByCategory(input),
     expenses      |-> SortedTransactions({x.t : x \in Expenses(input)}, sorting),
     incomes       |-> IncomeByCategory(input),
     vendors       |-> VendorsByAmount(input),
     visits        |-> VendorsByTransactionCount(input)]
QuarterlyStats(input) == MonthlyStats(input)
YearlyStats(input)    == MonthlyStats(input)

PeriodStats(kind, input) ==
    CASE kind = "month"   -> MonthlyStats(input)
      [] kind = "quarter" -> QuarterlyStats(input)
      [] kind = "year"    -> YearlyStats(input)
=============================================================================
