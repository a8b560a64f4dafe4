-------------------------------- MODULE Rates --------------------------------
(***************************************************************************)
(* Exchange rates and stock quotes: the scheduler goroutine of              *)
(* backend/rates, and the requests that change what it has to fetch or      *)
(* wake it up (UpsertBankAccount with EnsureStock, WriteTransactionForm and *)
(* UpdateDisplaySettings of backend/ledger).  A round lists the pairs of a  *)
(* used and a display currency, and then the stocks, and fetches what is    *)
(* new of each; rounds begin when the server starts, at every tick, and     *)
(* when a request has put a signal into a channel of one slot.              *)
(*                                                                          *)
(* Requests are split where the scheduler can run between their statements; *)
(* a database transaction takes effect when it commits.  Prices are known   *)
(* by their day alone, as rates and quotes are stored by UTC day.           *)
(***************************************************************************)
EXTENDS Integers

CONSTANTS
  Codes,          \* currency codes
  Stocks,         \* (exchange, ticker) pairs
  StockCurrency,  \* the currency a stock is quoted in
  Trading,        \* external: the days a series has a price on
  Users,
  Writers,        \* requests in flight at once
  NoUnit,
  Backfill,       \* initialFetchWindowDays
  MaxDay          \* bound: days; the database and the server fail before it

ASSUME UnitsAssumption ==
  /\ Codes \cap Stocks = {}
  /\ NoUnit \notin Codes \cup Stocks
  /\ StockCurrency \in [Stocks -> Codes]

ASSUME DaysAssumption == Backfill \in Nat /\ MaxDay \in Nat

\* The server is installed on day 0; there are stored from before.
Days == (-Backfill) .. MaxDay

Pairs == {p \in Codes \X Codes : p[1] # p[2]}

\* What is fetched: the rates of a (sell, buy) pair, the quotes of a stock.
Series == Pairs \cup Stocks

ASSUME TradingAssumption == Trading \in [Series -> SUBSET Days]

VARIABLES
  today,
  codes,     \* currency codes on BankAccount and EntryLine rows
  stocks,    \* Stock rows
  display,   \* DisplaySettings rows
  stored,    \* ExchangeRate and StockQuote rows: the days stored
  trigger,   \* Service.trigger holds a signal
  sched,     \* the scheduler goroutine
  writer,    \* each request's progress
  unlisted   \* history: codes a request saved and no round has looked for

vars == <<today, codes, stocks, display, stored, trigger, sched, writer,
          unlisted>>

ledger == <<codes, stocks, display>>

IdleWriter == [pc |-> "idle", unit |-> NoUnit, isNew |-> FALSE]

\* pc, and the local variables that are still read.
Scheduler(pc, phase, used, todo) ==
  [pc |-> pc, phase |-> phase, used |-> used, todo |-> todo,
   x |-> NoUnit, from |-> 0, got |-> {}]

StartOfRound == Scheduler("listing", "pairs", {}, {})
Waiting == Scheduler("waiting", "pairs", {}, {})
NextSeries(todo) == Scheduler("next", sched.phase, {}, todo)

\* The server has just started: StartScheduler runs an immediate update.
Init ==
  /\ today = 0
  /\ codes = {} /\ stocks = {}
  /\ display \in [Users -> Codes]
  /\ stored = [x \in Series |-> {}]
  /\ trigger = FALSE
  /\ sched = StartOfRound
  /\ writer = [w \in Writers |-> IdleWriter]
  /\ unlisted = {}

Faulty == today < MaxDay

------------------------------------------------------------------------------
\* The requests.

Announced(table, code) == [table |-> table, code |-> code]

\* isNewCurrency: no rate from or to the code is in the snapshot, which the
\* read fixes.
Mentioned(c) == \E p \in Pairs : stored[p] # {} /\ c \in {p[1], p[2]}

BeginCurrencyAccount(w) ==
  /\ writer[w].pc = "idle"
  /\ \E c \in Codes :
       writer' = [writer EXCEPT ![w] =
                    [pc |-> "writing", unit |-> c, isNew |-> ~Mentioned(c)]]
  /\ UNCHANGED <<today, ledger, stored, trigger, sched, unlisted>>

\* EnsureStock: SELECT COUNT(*), and LookupStock when there is no row.
BeginStockAccount(w) ==
  /\ writer[w].pc = "idle"
  /\ \E s \in Stocks :
       writer' = [writer EXCEPT ![w] =
                    [pc |-> IF s \in stocks THEN "writing" ELSE "looking_up",
                     unit |-> s, isNew |-> FALSE]]
  /\ UNCHANGED <<today, ledger, stored, trigger, sched, unlisted>>

\* EnsureStock's INSERT is not part of the account's transaction; a row that
\* another request inserted meanwhile is a duplicate key, which fails this one.
InsertStock(w) ==
  /\ writer[w].pc = "looking_up"
  /\ writer' = [writer EXCEPT ![w] =
                  IF writer[w].unit \in stocks
                  THEN IdleWriter
                  ELSE [writer[w] EXCEPT !.pc = "writing"]]
  /\ stocks' = stocks \cup {writer[w].unit}
  /\ UNCHANGED <<today, codes, display, stored, trigger, sched, unlisted>>

\* The account row, with or without opening balance lines in its unit.  The
\* row may be an update that was the last to hold some other code (codes does
\* not say which rows hold one: entry lines, never deleted, keep theirs).
AccountWritten(unit) ==
  codes' \in {(codes \ gone) \cup ({unit} \cap Codes) :
                 gone \in {{}} \cup {{c} : c \in Codes}}

\* UpsertBankAccount commits, and its caller hears of it.
CommitAccount(w) ==
  /\ writer[w].pc = "writing"
  /\ AccountWritten(writer[w].unit)
  /\ IF writer[w].isNew
     THEN /\ writer' = [writer EXCEPT ![w].pc = "triggering"]
          /\ unlisted' = unlisted \cup {Announced("used", writer[w].unit)}
     ELSE /\ writer' = [writer EXCEPT ![w] = IdleWriter]
          /\ UNCHANGED unlisted
  /\ UNCHANGED <<today, stocks, display, stored, trigger, sched>>

\* UpdateDisplaySettings: one UPDATE, of the currency or of the excluded
\* categories, whose answer may be lost.
UpdateDisplaySettings(w) ==
  /\ writer[w].pc = "idle"
  /\ \E u \in Users, c \in Codes :
       /\ display' = [display EXCEPT ![u] = c]
       /\ \/ /\ unlisted' = unlisted \cup {Announced("display", c)}
             /\ writer' = [writer EXCEPT ![w].pc = "triggering"]
          \/ UNCHANGED <<unlisted, writer>>
  /\ UNCHANGED <<today, codes, stocks, stored, trigger, sched>>

\* Mutant: a channel without a slot, so only a waiting scheduler receives.
TriggerFetchUnbuffered(w) ==
  /\ writer[w].pc = "triggering"
  /\ trigger' = (trigger \/ sched.pc = "waiting")
  /\ writer' = [writer EXCEPT ![w] = IdleWriter]
  /\ UNCHANGED <<today, ledger, stored, sched, unlisted>>

TriggerFetch(w) ==
  /\ writer[w].pc = "triggering"
  /\ trigger' = TRUE
  /\ writer' = [writer EXCEPT ![w] = IdleWriter]
  /\ UNCHANGED <<today, ledger, stored, sched, unlisted>>

\* WriteTransactionForm: a third-party expense names its currency.
WriteTransactionForm ==
  /\ \E c \in Codes : codes' = codes \cup {c}
  /\ UNCHANGED <<today, stocks, display, stored, trigger, sched, writer,
                 unlisted>>

\* A request that fails: before its commit, or when the answer to the commit
\* is lost, and then the rows are there and no signal is sent.
Fail(w) ==
  /\ writer[w].pc \in {"looking_up", "writing"}
  /\ \/ UNCHANGED codes
     \/ writer[w].pc = "writing" /\ AccountWritten(writer[w].unit)
  /\ writer' = [writer EXCEPT ![w] = IdleWriter]
  /\ UNCHANGED <<today, stocks, display, stored, trigger, sched, unlisted>>

------------------------------------------------------------------------------
\* runUpdate.

\* The three SELECTs of usedCurrencyCodes.
UsedCurrencyCodes ==
  {c \in Codes :
     \/ c \in codes
     \/ \E s \in stocks : StockCurrency[s] = c}

DisplayCurrencies == {display[u] : u \in Users}

BuildPairs(used, displays) == {p \in used \X displays : p[1] # p[2]}

ListUsed ==
  /\ sched.pc = "listing"
  /\ sched' = Scheduler("displays", "pairs", UsedCurrencyCodes, {})
  /\ unlisted' = {n \in unlisted : n.table # "used"}
  /\ UNCHANGED <<today, ledger, stored, trigger, writer>>

ListDisplays ==
  /\ sched.pc = "displays"
  /\ sched' = NextSeries(BuildPairs(sched.used, DisplayCurrencies))
  /\ unlisted' = {n \in unlisted : n.table # "display"}
  /\ UNCHANGED <<today, ledger, stored, trigger, writer>>

\* activePairs fails: the round ends before the stocks, too.
ListFails ==
  /\ Faulty
  /\ sched.pc \in {"listing", "displays"}
  /\ sched' = Waiting
  /\ unlisted' = {}
  /\ UNCHANGED <<today, ledger, stored, trigger, writer>>

\* Mutant: the day after today's rate is not asked for again, and neither is
\* the day after that of an older one.
NextFetchAfterSkipping(day) == IF day >= today THEN day ELSE day + 2

\* nextFetchAfter: today again, or the day after the latest one stored.
NextFetchAfter(day) == IF day >= today THEN day ELSE day + 1

\* ORDER BY ... DESC LIMIT 1.
Latest(x) == {d \in stored[x] : \A e \in stored[x] : e <= d}

\* nextFetchStartForPair, nextFetchStartForStock.
NextFetchStart(x) ==
  IF stored[x] = {}
  THEN {today - Backfill}
  ELSE {NextFetchAfter(latest) : latest \in Latest(x)}

StartFetch(x) ==
  /\ sched.pc = "next" /\ x \in sched.todo
  /\ \E from \in NextFetchStart(x) :
       sched' = [sched EXCEPT !.pc = "fetching", !.todo = @ \ {x}, !.x = x,
                              !.from = from]
  /\ UNCHANGED <<today, ledger, stored, trigger, writer, unlisted>>

\* fetchChart: what Yahoo has between from and the time of the call, which
\* may be before the first price of the day.
FetchChart ==
  /\ sched.pc = "fetching"
  /\ \E until \in {today - 1, today} :
       LET got == Trading[sched.x] \cap (sched.from .. until) IN
         sched' = IF got = {}
                  THEN NextSeries(sched.todo)
                  ELSE [sched EXCEPT !.pc = "storing", !.got = got]
  /\ UNCHANGED <<today, ledger, stored, trigger, writer, unlisted>>

\* INSERT ... ON DUPLICATE KEY UPDATE, all the rows in one statement.
Store ==
  /\ sched.pc = "storing"
  /\ stored' = [stored EXCEPT ![sched.x] = @ \cup sched.got]
  /\ sched' = NextSeries(sched.todo)
  /\ UNCHANGED <<today, ledger, trigger, writer, unlisted>>

\* Mutant: one series that fails ends the round.
RefreshFailsRound ==
  /\ sched.pc \in {"fetching", "storing"}
  /\ sched' = Waiting
  /\ UNCHANGED <<today, ledger, stored, trigger, writer, unlisted>>

\* The call or the INSERT fails: the error is counted or logged, and the
\* round goes on.
RefreshFails ==
  /\ sched.pc \in {"fetching", "storing"}
  /\ sched' = NextSeries(sched.todo)
  /\ UNCHANGED <<today, ledger, stored, trigger, writer, unlisted>>

\* refreshAllStocks begins when the pairs are done.
ListStocks ==
  /\ sched.pc = "next" /\ sched.phase = "pairs" /\ sched.todo = {}
  /\ sched' = Scheduler("next", "stocks", {}, stocks)
  /\ UNCHANGED <<today, ledger, stored, trigger, writer, unlisted>>

ListStocksFails ==
  /\ Faulty
  /\ sched.pc = "next" /\ sched.phase = "pairs" /\ sched.todo = {}
  /\ sched' = Waiting
  /\ UNCHANGED <<today, ledger, stored, trigger, writer, unlisted>>

EndRound ==
  /\ sched.pc = "next" /\ sched.phase = "stocks" /\ sched.todo = {}
  /\ sched' = Waiting
  /\ UNCHANGED <<today, ledger, stored, trigger, writer, unlisted>>

\* The select of StartScheduler: the ticker, or the signal.
Tick ==
  /\ sched.pc = "waiting"
  /\ sched' = StartOfRound
  /\ UNCHANGED <<today, ledger, stored, trigger, writer, unlisted>>

Triggered ==
  /\ sched.pc = "waiting" /\ trigger
  /\ trigger' = FALSE
  /\ sched' = StartOfRound
  /\ UNCHANGED <<today, ledger, stored, writer, unlisted>>

------------------------------------------------------------------------------
\* The world around.

NextDay ==
  /\ today < MaxDay
  /\ today' = today + 1
  /\ UNCHANGED <<ledger, stored, trigger, sched, writer, unlisted>>

\* The server stops and starts again: requests in flight, the signal and the
\* round are gone, and what had not been committed with them.
Restart ==
  /\ Faulty
  /\ trigger' = FALSE
  /\ sched' = StartOfRound
  /\ writer' = [w \in Writers |-> IdleWriter]
  /\ UNCHANGED <<today, ledger, stored, unlisted>>

RunUpdate ==
  \/ ListUsed
  \/ ListDisplays
  \/ ListFails
  \/ \E x \in Series : StartFetch(x)
  \/ FetchChart
  \/ Store
  \/ RefreshFails
  \/ ListStocks
  \/ ListStocksFails
  \/ EndRound

SchedulerNext == RunUpdate \/ Tick \/ Triggered

Next ==
  \/ SchedulerNext
  \/ \E w \in Writers :
       \/ BeginCurrencyAccount(w)
       \/ BeginStockAccount(w)
       \/ InsertStock(w)
       \/ CommitAccount(w)
       \/ UpdateDisplaySettings(w)
       \/ TriggerFetch(w)
       \/ Fail(w)
  \/ WriteTransactionForm
  \/ NextDay
  \/ Restart

Spec == Init /\ [][Next]_vars
==============================================================================
