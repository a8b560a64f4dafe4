------------------------------ MODULE Balances ------------------------------
(***************************************************************************)
(* Balances and net worth (lib/model/balances.ts, the overview, bank and   *)
(* account pages).  A sweep replays the transactions in the order of their *)
(* time; its snapshot maps every account to a balance in the unit of the   *)
(* account.                                                                *)
(***************************************************************************)
EXTENDS Statistics

CONSTANTS
    SampleCount,        \* points of the net worth line, 192
    RecentWindow        \* days of the list of recent transactions, 7

ASSUME SamplesAssumption == SampleCount \in Nat

(* What a transaction adds to the balance of account a.                    *)
BalanceEffect(t, a) ==
    CASE IsIncome(t) -> IF t.account = a THEN t.amount ELSE 0
      [] IsPersonalExpense(t) -> IF t.account = a THEN -t.amount ELSE 0
      [] IsThirdPartyExpense(t) -> 0
      [] IsTransfer(t) -> (IF t.account = a THEN -t.amount ELSE 0)
                            + (IF t.to = a THEN t.received ELSE 0)

(* The opening balances, whenever they were recorded.                      *)
Seeded ==
    [a \in DOMAIN Core.accounts |->
        SumFunction([t \in {u \in transactions : IsOpeningBalance(u) /\ u.account = a}
                        |-> t.amount])]

Replayed == SortedByKey([t \in {u \in transactions : ~IsOpeningBalance(u)} |-> t.time])

(* The cursor's loop: how far a sweep gets, from where it stopped.         *)
ReachesStrictly(sorted, cursor, asOf) ==
    Max({cursor} \cup {i \in DOMAIN sorted : i > cursor /\ sorted[i].time < asOf})
Reaches(sorted, cursor, asOf) ==
    Max({cursor} \cup {i \in DOMAIN sorted : i > cursor /\ sorted[i].time <= asOf})

(* advanceTo: the state of a sweep is its balances and its cursor.         *)
AdvanceTo(sorted, sweep, asOf) ==
    LET cursor == Reaches(sorted, sweep.cursor, asOf)
    IN  [cursor   |-> cursor,
         balances |-> [a \in DOMAIN sweep.balances |->
            sweep.balances[a] + SumFunction(
                [i \in sweep.cursor + 1 .. cursor |-> BalanceEffect(sorted[i], a)])]]

BalanceSweep == [cursor |-> 0, balances |-> Seeded]

BalancesAsOf(asOf) == AdvanceTo(Replayed, BalanceSweep, asOf).balances

(* The value of a set of accounts at the rates of that moment.             *)
SumKnown(values) ==
    IF None \in Range(values) THEN None ELSE SumFunction(values)

SumOfBalances(balances, accounts, asOf) ==
    SumKnown([a \in accounts |->
        Exchange(balances[a], Core.accounts[a].unit, DisplayCurrency, asOf)])

(* Evenly spaced moments, both ends included exactly, rounded in between.  *)
EvenlySpaced(start, end, count) ==
    IF count <= 1 \/ start = end THEN <<end>>
    ELSE [i \in 1 .. count |->
            start + (2 * (end - start) * (i - 1) + count - 1) \div (2 * (count - 1))]

(* One sweep passes over the samples; a point that cannot be converted is  *)
(* left out.                                                               *)
Sweeps(sorted, samples) ==
    LET sweeps[i \in 0 .. Len(samples)] ==
            IF i = 0 THEN BalanceSweep
            ELSE AdvanceTo(sorted, sweeps[i - 1], samples[i])
    IN  sweeps

PointsOf(sweeps, samples) ==
    LET amounts == [i \in DOMAIN samples |->
                       SumOfBalances(sweeps[i].balances, DOMAIN Core.accounts, samples[i])]
        known   == SortedByKey([i \in {j \in DOMAIN samples : amounts[j] # None} |-> i])
    IN  [n \in DOMAIN known |-> [time |-> samples[known[n]], amount |-> amounts[known[n]]]]

TimelineAt(samples) == PointsOf(Sweeps(Replayed, samples), samples)

NetWorthTimeline(start, end) == TimelineAt(EvenlySpaced(start, end, SampleCount))

------------------------------------------------------------------------------
(* The overview.  The current balances are those of the moment the data    *)
(* came; the line of net worth ends at the moment it is drawn.             *)
CurrentBalances == BalancesAsOf(loaded)

NetWorth ==
    SumOfBalances(CurrentBalances, DOMAIN Core.accounts, loaded)

RangeStart(range, now) ==
    CASE range = "ALL" -> Min({now} \cup {t.time : t \in transactions})
      [] range # "ALL" -> now - PeriodLength[range]

NetWorthHero(range, now) ==
    IF NetWorth = None THEN <<>>
    ELSE NetWorthTimeline(RangeStart(range, now), now)

ActiveAccountsForBank(bank) ==
    {a \in DOMAIN Core.accounts : Core.accounts[a].bank = bank /\ ~Core.accounts[a].archived}

AccountsForBank(bank) ==
    {a \in DOMAIN Core.accounts : Core.accounts[a].bank = bank}

BankTotal(bank) ==
    SumOfBalances(CurrentBalances, AccountsForBank(bank), loaded)

(* What changed over the last month: each end at its own rates, nothing    *)
(* when one of them is not known.                                          *)
Change(before, after) == IF None \in {before, after} THEN None ELSE after - before

BankChange(bank, now) ==
    LET since == now - PeriodLength["month"]
    IN  Change(SumOfBalances(BalancesAsOf(since), AccountsForBank(bank), since),
               BankTotal(bank))

RecentTransactions(now) ==
    {t \in transactions : (now - t.time) \div DayLength <= RecentWindow}

(* The balance of an account in the currency its unit is quoted in, else   *)
(* as it is, and in the display currency when that says more.              *)
NativeCurrency(a) ==
    LET unit == Core.accounts[a].unit
    IN  IF IsStock(unit) THEN StockCurrency[unit] ELSE unit

AccountBalance(a, now) ==
    LET balance == CurrentBalances[a]
        native  == Exchange(balance, Core.accounts[a].unit, NativeCurrency(a), now)
        shown   == Exchange(balance, Core.accounts[a].unit, DisplayCurrency, now)
    IN  [native  |-> IF native = None THEN balance ELSE native,
         display |-> IF native \in {None, 0} \/ NativeCurrency(a) = DisplayCurrency
                     THEN None ELSE shown]

PricePerShare(stock, now) ==
    ExchangeStock(NanosMultiplier, stock, StockCurrency[stock], now)

(* The list of an account: its rows, and the amount that each shows.       *)
BelongsToAccount(t, a) == a \in BankAccountsOf(t)

AmountSentAlways(t, a) ==
    IF IsExpense(t) \/ IsTransfer(t) THEN -t.amount ELSE t.amount

RowAmount(t, a) ==
    CASE IsExpense(t) -> -t.amount
      [] IsTransfer(t) /\ t.to = a -> t.received
      [] IsTransfer(t) /\ t.to # a -> -t.amount
      [] OTHER -> t.amount

(* remote maps the accounts that have a connection to what the bank said.  *)
SyncDelta(remote, a) ==
    IF a \in DOMAIN remote THEN CurrentBalances[a] - remote[a] ELSE None
=============================================================================
