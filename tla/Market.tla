------------------------------- MODULE Market -------------------------------
(***************************************************************************)
(* Exchange rates and stock quotes in the browser (lib/ClientSideModel):   *)
(* how an amount in any unit is converted at the date of a transaction.    *)
(*                                                                         *)
(* A snapshot is what the backend answers a page with: the transactions,   *)
(* and the market, whose rates map <<from, to>>, and whose quotes map a    *)
(* stock, to a series: day -> nanos.  A page builds its model once, at     *)
(* `loaded`; time is counted in parts of a day, DayLength to the day.      *)
(* An amount that cannot be converted is None.                             *)
(***************************************************************************)
EXTENDS ClientTransactions

CONSTANTS
    Snapshots,          \* [name -> [transactions, market]]
    NanosMultiplier,    \* nanos to the unit
    DayLength,          \* moments to the day
    StaleThreshold,     \* days after which a warning is shown
    StockCurrency       \* [stock -> the currency it is quoted in]

(* A series has at least the rate that it was made for.                    *)
IsSeries(series) ==
    /\ IsFiniteSet(DOMAIN series) /\ DOMAIN series \subseteq Int /\ DOMAIN series # {}
    /\ \A d \in DOMAIN series : series[d] \in Int

ASSUME UnitsAssumption == NanosMultiplier \in Nat \ {0} /\ DayLength \in Nat \ {0}

ASSUME SnapshotsAssumption ==
    \A name \in DOMAIN Snapshots :
        LET answer == Snapshots[name]
        IN  /\ IsFiniteSet(answer.transactions)
            /\ \A t \in answer.transactions : WellFormed(t)
            /\ \A pair \in DOMAIN answer.market.rates : pair = <<pair[1], pair[2]>>
            /\ \A series \in Range(answer.market.rates) \cup Range(answer.market.quotes) :
                  IsSeries(series)

VARIABLES snapshot, loaded

transactions == Snapshots[snapshot].transactions
market       == Snapshots[snapshot].market

IsStock(unit)   == unit \in DOMAIN StockCurrency
DayOf(when)     == when \div DayLength
StartOfDay(day) == day * DayLength

(* Division of two bigints drops the fraction, towards zero.               *)
Truncated(a, b) == IF a < 0 THEN -((-a) \div b) ELSE a \div b

------------------------------------------------------------------------------
(* The days of a series and today, one after the other: what lies between  *)
(* two of them gets the value of the first, which has to have one.  Today  *)
(* comes twice when the series has it already.                             *)
NextKnown(series, day) ==
    Min({d \in DOMAIN series : d >= day} \cup {Max(DOMAIN series)})
LastKnown(series, day) == Max({d \in DOMAIN series : d <= day})

Backfills(series) ==
    LET today == DayOf(loaded)
        days  == DOMAIN series \cup {today}
        IsLast(d) == d \notin DOMAIN series \cap {today} /\ \A e \in days : e <= d
    IN  \A d \in days : ~IsLast(d) => d \in DOMAIN series /\ series[d] # 0

Backfilled(series) ==
    LET days == DOMAIN series \cup {DayOf(loaded)}
    IN  [d \in (Min(days) .. Max(days)) \ ({DayOf(loaded)} \ DOMAIN series) |->
            series[LastKnown(series, d)]]

MarketModelBuilds ==
    \A series \in Range(market.rates) \cup Range(market.quotes) : Backfills(series)

Distance(a, b) == IF a < b THEN b - a ELSE a - b

ClosestTo(days, when) ==
    CHOOSE d \in days : \A e \in days :
        Distance(StartOfDay(d), when) <= Distance(StartOfDay(e), when)

(* The value of the day, else of the known day that starts closest.        *)
ValueOrClosest(filled, when) ==
    IF DayOf(when) \in DOMAIN filled /\ filled[DayOf(when)] # 0
    THEN filled[DayOf(when)] ELSE filled[ClosestTo(DOMAIN filled, when)]

ValueAt(series, when) == ValueOrClosest(Backfilled(series), when)

FindRate(from, to, when) ==
    IF <<from, to>> \in DOMAIN market.rates
    THEN ValueAt(market.rates[<<from, to>>], when) ELSE 0

FindQuote(stock, when) ==
    IF stock \in DOMAIN market.quotes THEN ValueAt(market.quotes[stock], when) ELSE 0

(* An amount at a rate or a price; 0 stands for none that is known.        *)
AtRate(amount, rate) ==
    IF rate = 0 THEN None ELSE Truncated(amount * rate, NanosMultiplier)

ExchangeCurrency(amount, from, to, when) ==
    CASE amount = None -> None
      [] amount # None /\ from = to -> amount
      [] amount = 0 /\ from # to    -> 0
      [] OTHER -> AtRate(amount, FindRate(from, to, when))

(* What a number of shares is worth in the currency of their quotes.       *)
StockValue(amount, stock, when) ==
    IF amount = 0 THEN 0 ELSE AtRate(amount, FindQuote(stock, when))

ExchangeStock(amount, stock, to, when) ==
    ExchangeCurrency(StockValue(amount, stock, when), StockCurrency[stock], to, when)

Exchange(amount, unit, to, when) ==
    IF IsStock(unit) THEN ExchangeStock(amount, unit, to, when)
    ELSE ExchangeCurrency(amount, unit, to, when)

------------------------------------------------------------------------------
(* The warning above every page: the series whose newest value is old.     *)
FindStale(family, now) ==
    {key \in DOMAIN family :
        (now - StartOfDay(Max(DOMAIN family[key]))) \div DayLength > StaleThreshold}

StaleCurrencyPairs(now) == FindStale(market.rates, now)
StaleStockQuotes(now)   == FindStale(market.quotes, now)
=============================================================================
