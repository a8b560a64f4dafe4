# Verification of prosper

TLA+ models of prosper, a personal-finance application: a Go backend that keeps
a double-entry ledger in MySQL, fetches bank feeds, exchange rates and stock
quotes, and signs users in; and a Next.js client that reads and writes it over
gRPC. The modules cover the server's state and what the browser computes and
lets its user do. They are model-checked with TLC on small instances, and the
safety properties are proved with TLAPS for all instances, those of the charts
and balances that the browser computes included.

Paths below are relative to `src/`. "Row" is a row of a MySQL table, "request"
a gRPC call in flight, "round" one pass of a scheduler goroutine.

Contents: [the system](#the-system) · [the modules](#the-modules) ·
[what the runs show](#what-the-runs-show) · [fairness](#fairness) ·
[what is proved](#what-is-proved) · [findings](#findings) ·
[known divergences](#known-divergences) ·
[what is not modelled](#what-is-not-modelled) · [plan](#plan) ·
[running](#running-the-checks)

## The system

### Inventory

| Component | State it keeps | Operations | Correct when |
|---|---|---|---|
| **Ledger write path, forms** (`backend/ledger/txform/*`, `ledger/common/common.go`) | Transaction, EntryLine, SplitContext, TransactionLink, TransactionOrigin; LedgerAccount, Trip, Tag rows created on demand | WriteTransactionForm: four sharing types of expense, two of income, transfer; each fresh or superseding an older row | every transaction nets to zero in every unit; a chain of edits stands for one event; a repayment settles what it pays for |
| **Ledger write path, accounts** (`ledger/bank_account.go`, `opening_balance.go`) | BankAccount, its ASSET LedgerAccount, its chain of opening balances | UpsertBankAccount | the balance on the account and the newest opening balance agree |
| **Ledger reads** (`ledger/service.go`, `ledger/conversion.go`, `ledger/snapshot`) | none (indexes built per request) | GetTransactions, snapshot.Load, CurrentVersion | readers agree on which rows are current |
| **User-scoped access** (`backend/userdb`, `backend/db`) | none | BeginTx, Commit, Rollback, statements bound to a user | a transaction is all or nothing |
| **Open banking fetches** (`openbanking/fetch.go`, `scheduler.go`, `service.go`) | OpenBankingFetch, OpenBankingTransaction, the links between them | scheduled round, FetchNow, StoredTransactions | stored once; each fetch linked to what it returned; not fetched too often; every account served |
| **Open banking connections** (`openbanking/{gocardless,truelayer,starling}`, `*_handlers.go`, `service.go`) | a token table per provider, GoCardlessRequisition, ExternalAccountMapping | connect, complete, refresh, map, reconnect, disconnect | a disconnected bank stays disconnected; the mappings of a bank are one submission |
| **Bank clients** (`openbanking/*/transactions.go`, `httpx`) | none | HTTP and parsing | |
| **Rates** (`backend/rates`) | ExchangeRate, StockQuote, Stock; a channel of one slot | scheduler rounds, TriggerFetch, EnsureStock | no wake-up lost; no hole in a history; every series fetched |
| **Sign-up and sessions** (`backend/auth`, `frontend/lib/auth`, `frontend/actions/auth`) | User, Session | Register, Authenticate, CreateSession, ValidateSession, DeleteSession, sweeper | signed out stays out; idle sessions expire; used sessions go on; one user per login |
| **Suggestions** (`backend/suggest`) | none | pair transfer legs, recall recorded events, rank by history | each leg ends in one draft; a recorded event is recalled |
| **Categories, banks, display settings** (`ledger/service.go`, `frontend/actions/config`, `frontend/app/(authenticated)/config`) | Category, Bank, BankAccount, DisplaySettings; the rows and the open forms of a settings page | one-row upserts; open, fill in, submit and close forms; search a unit | the page shows the rows as saved; a save changes what its user changed |
| **Migrations** (`backend/db/migrate.go`) | `_migrations`, the schema | run what is not recorded | a rerun after a crash completes |
| **Server** (`backend/cmd/backend`) | none | start, graceful stop | |
| **Client model** (`frontend/lib/ClientSideModel.tsx`, `lib/model`) | the page's data | build the page, or throw; convert an amount at a date | the page renders; no amount is converted at a later day's rate |
| **Balances** (`frontend/lib/model/balances.ts`) | a sweep position | balance at a date, net worth line | equals the sum of the transactions up to the date |
| **Forms in the browser** (`frontend/components/txform`, `actions/txform`) | the values of the form, a save in flight | type, toggle, switch type, take a suggestion, save | no field that is not shown blocks a save or holds a stale value |
| **Views** (search, charts, statistics, trips, overview) | filters, the query, intervals, excluded categories, sorting | functions of the client model and of this state | what is counted along two ways agrees; nothing is dropped silently |
| **Amounts** (`backend/moneyutil`, `frontend/lib/Amount*`) | none | conversions between nanos and decimals | |

### How the parts interact

* **Through MySQL.** Handlers, the two schedulers and the session sweeper share
  nothing but tables. A ledger write is one REPEATABLE READ transaction: its
  first plain SELECT fixes the snapshot that its later plain SELECTs read, its
  INSERTs take ids from AUTO_INCREMENT at once, and its rows appear to others
  at the commit. Locks come from UPDATEs, unique indexes and foreign keys only;
  no SELECT of the write path locks.
* **Through a channel.** A ledger request that introduces a currency, or
  changes the display currency, calls `rates.Service.TriggerFetch`, which puts
  a signal in a channel of one slot or drops it.
* **Through the page.** A tab sees the ledger as it was when the page loaded;
  the ids it submits (the row to supersede, the parent of a refund, the
  origins of a draft) come from there, and may be out of date by then.
* **With the outside.** Banks and Yahoo answer late, wrong, or not at all, and
  change what they report between two calls.

### Where it is hard

Rows are immutable: an edit inserts a row that supersedes another, and each of
three readers works out on its own which rows are current. The write path
finds the row to supersede by following what an *older* request wrote (a link,
an opening balance with a line on the account). Requests of several tabs
interleave between any two statements, and a request may be lost before or
after its commit. Schedulers run concurrently with the requests that change
what they list. Connecting and disconnecting a bank is a row of statements and
calls, each of which commits by itself, and any use of a token may refresh it
meanwhile. In the browser, React effects rewrite one field of a form when
another changes, forms answer in an order of their own, and every page works
out the same sums its own way. `PROJECT.json` lists these hazards at their lines, each with
the properties that cover it or the reason none does.

## The modules

```
Books ── LedgerView ── Ledger ── LedgerSafety ── LedgerEvents ──┬── MCLedger
                                                      │         └── LedgerProofs
                                                      └ INSTANCE EventLog
Feeds ── FeedsSafety ──┬── MCFeeds          Rates ── RatesSafety ──┬── MCRates
                       └── FeedsProofs                             └── RatesProofs
Sessions ── SessionsSafety ──┬── MCSessions
                             └── SessionsProofs
Connections ── ConnectionsSafety ──┬── MCConnections
                                   └── ConnectionsProofs

FormValues ── TransactionForm ── TransactionFormSafety ──┬── MCTransactionForm
                                                         └── TransactionFormProofs
UnitSelect ── Config ── ConfigSafety ──┬── MCConfig
                                       └── ConfigProofs

                       Query ── Matchers ── TransactionsPage ──┐
                                   │            │              │
ClientTransactions ── Market ──────┴── Statistics ── StatsPages ── Pages ── PagesSafety ──┬── MCPages
                                           └── Balances ───────┘                          └── PagesProofs
```

(`A ── B`: B extends A. In the last group, `Matchers` extends `Query` and `Market`, `TransactionsPage` extends
`Matchers` and `Statistics`, and `Pages` extends the three modules left of it.) A component has a module of its state
and actions, a `…Safety` module with its type invariant and properties, an `MC…` module with
values for TLC, and a `…Proofs` module. Operators named "mutant" in a comment
are deliberately wrong variants: each property is known to fail when one of
them replaces the definition that follows it, so none of the properties holds
by the mere shape of the model.

### Ledger: `Books`, `LedgerView`, `Ledger`, `LedgerSafety`

`Books` turns each form into entry lines, as `buildExpenseLines`,
`writeIncome`, `buildTransferLines` and `syncOpeningBalance` do.
`LedgerView` is the readers: `Heads` (`ChainHead`), `LatestVersions`
(`snapshot.New`, `latestVersionOnly`), `CurrentVersion` (the walk recall
makes), and `Renders`: the conversions of the client that throw.

`Ledger` is the write path. Its state:

| Variable | In the code |
|---|---|
| `db.txs` | Transaction rows with their EntryLine, SplitContext and TransactionTag rows |
| `db.links`, `db.origins` | TransactionLink, TransactionOrigin |
| `db.names` | RECEIVABLE LedgerAccount, Trip and Tag rows |
| `db.acct` | BankAccount rows: unit and initial balance |
| `nextId`, `nextName` | AUTO_INCREMENT; ids that were taken and not committed stay taken |
| `pc`, `view`, `plan` | each tab's request: its state, its snapshot, its uncommitted rows |
| `shown` | the rows a tab offers for editing |
| `rateTrigger` | a call of TriggerFetch after the commit |

A request is `Begin` (the snapshot), one `Write…`/`AddAccount`/`UpdateAccount`
(all its statements between the first SELECT and the commit) and `Commit` or
`Rollback`; other tabs run in between. Merging the statements of a request is
sound because until the commit nobody sees its rows, because its plain SELECTs
read its snapshot whenever they run, and because `Unlocked` and `Untouched`
keep it from running while another transaction holds a row lock it needs. The
one exception is a stock account, whose first SELECT comes after the account
row is locked: `AccountView`.

An origin (`TransactionOrigin`) is what a draft carries of the bank events it
was filled from; only a fresh transaction has one.

`EventLog` is the abstract specification: a function from each recorded event
to its one current version, and writes that move one or two events to newer
versions. `LedgerEvents` maps the tables to it.

### Feeds: `Feeds`, `FeedsSafety`

`fetchAccount` in six steps per process (call, answer, insert the fetch row,
insert the transactions, read their ids back and commit), run by the scheduler
and by any number of FetchNow requests for the same accounts. `HashesHeld` is
the unique index on (userId, rawHash) that makes an INSERT IGNORE wait for the
transaction that holds the hash; `Linked` is `fetchTransactionIDsByHash`, whose
snapshot is taken after the INSERT. `round` is the list `runScheduled` walks;
`CheckDue` and `StartScheduled` are apart because other steps may run between
the due check and the fetch. `feed` is external: what the bank reports.

### Rates: `Rates`, `RatesSafety`

`sched` is the goroutine of `StartScheduler`: it lists used currencies, display
currencies, fetches pairs, lists stocks, fetches stocks, waits. `trigger` is the
one-slot channel. `writer` holds requests that change what a round lists, split
at their commits and at `EnsureStock`'s own INSERT. `stored` keeps the days of
the rows of each series. `unlisted` is a history variable: what a request saved
with success and no round has looked for yet. Two merges of the code's data
only add behaviours: `codes` does not distinguish codes of BankAccount rows
(which an update may remove) from those of EntryLine rows (which stay).

### Sessions: `Sessions`, `SessionsSafety`

`ValidateSession` statement by statement (SELECT, then DELETE or UPDATE), for
page requests and sign-outs; `signUp` as the capacity check, `Register`'s
SELECT, INSERT and COMMIT, and `CreateSession`; the sweeper at any time.
`used`, `lapsed` and `signedOut` are history variables. Session ids are fresh
(`Tokens \ Issued`): the frontend hashes a random token.

### Connections: `Connections`, `ConnectionsSafety`

`token` has a row per bank and provider, as the three token tables do, and says
how long the row is good: "fresh", "stale" (only the refresh token is valid),
"expired". `requisition` is the GoCardlessRequisition row, `mapped` the
ExternalAccountMapping rows, `listed` what an open mapping page shows. `proc`
holds each request in flight with the statement it has come to. `UseToken`,
`Refreshed` and `UpdateToken` are `accessToken` with its refresh, which fetches,
lists, reconnects and disconnects all go through; `Exchanged`, `StoreToken`,
`Authorise` and `Record` are a connect (`ExchangeCode`, `SetToken`,
`ensureToken`, `CreateRequisition`); `Return` and `Complete` are
`CompleteRequisition`, for a browser that comes back at any time, twice or
never; `DropRequisition`, `DropToken` and `DropMapping` are the three DELETEs of
a disconnect. `Fail` stops any request at any statement: a database error, a
cancelled request, a restart. `links` and `returned` remember which references a
browser was sent to and came back with. `providerForBank` and the SELECT that
follows it in a disconnect are one step.

### The form of a transaction: `FormValues`, `TransactionForm`

`FormValues` is what the form holds in each of its three variants (expense,
income, transfer), how it is filled (defaults, a recorded transaction, a draft,
another variant), which fields it shows and what zod and the handlers say of it.
`TransactionForm` is the form while it is open. A step is one event, and
`Settle` runs the effects that the render after it runs:
`UpdateOwnShareOnAmountChange`, `UpdateReceivedAmountOnAmountChange`,
`UpdateCategoryOnChange`. None depends on a field another writes, so each runs
once. What the server
makes of a submission is in `Ledger`, which takes any submission that passes
validation; `TransactionForm` shows which ones a user comes to.

### Settings: `UnitSelect`, `Config`, `ConfigSafety`

`Config` is a tab on the three settings pages. `rows` are the page's own copies,
`saved` the tables, `forms` the open forms, `queue` the server actions that
Next.js sends one after the other. `touched` and `behind` in a form are history:
which fields the user changed, and whether a save of the row was under way or
unheard when the form took its values. `unseen` are the rows that a call whose
answer was lost has changed. `UnitSelect` is the list an account's unit is
searched in, with its debounce, its two effects and answers in any order; its
state is part of `Config`'s.

### Pages: `ClientTransactions` … `Pages`, `PagesSafety`

`ClientTransactions` is `lib/model`: kinds of transactions and the amounts
pages compute from them. `Market` is exchange rates and quotes as the browser
looks them up. `Query` is the grammar of the search box, over lexemes, and
`Matchers` the visitor that decides which transactions a tree keeps.
`Statistics` is everything between a set of transactions and the bars of a
chart: expansion, exclusion, conversion, intervals, periods, top-N, moving
averages, percentiles. `Balances` is the sweep and the net worth line.

Those are functions; state is in `TransactionsPage` (filters, query, list,
panel), `StatsPages` (interval or period, excluded categories, sorting) and
`Pages`, which adds the overview's own (range, hidden amounts) and composes them
into one tab that opens pages, gets newer data while a page is open, and sees the clock move past
the moment its model was built (`loaded`). The calendar has months of equal
length: what matters is where a moment falls in a period, not how long it is.

## What the runs show

"Exhaustive" below means: every reachable state within the bounds. The numbers
of distinct states are after symmetry where a configuration declares it
(sessions, requests, tabs and tokens are interchangeable: no definition or property
tells them apart; no run with a liveness property declares any).

| Run | Shows | Instance and bounds | States |
|---|---|---|---|
| `ledger_tabs` | `ChainsKeepIid`, `RepaymentsSettle`, `RepaymentsFollow`, `OriginsResolve`, `NewestOpeningAgrees` | 2 tabs, 1 account, 1 companion, 1 bank event; repaid and plain expenses; repayment rows edited, too; the account edited to the balances 0, 1, 2; ids ≤ 4 | 0.31 M |
| `ledger_one_tab` | `OneHeadPerChain`, `PageRenders`, `BooksBalance`, `OneRowPerName`, `ImplementsEventLog` | 1 tab, 2 accounts, a currency and a stock, 1 companion, trips "Rome" and "rome", one under the collation; every form; nonzero balances; repayments edited through their expense; ids ≤ 4 | 0.50 M |
| `feeds_safety` | `StoredOnce`, `LinksComplete`, `ScheduledSpaced` | the scheduler and 1 FetchNow on 1 account, 2 transactions, interval 2, 2 ticks, 2 fetch rows; cuts, failed reads, restarts, long errors | 3.6 M |
| `feeds_served` | `EveryAccountServed` | the scheduler, 2 accounts, 2 fetch rows, interval 1; cuts, disconnections, long errors | 33 k |
| `rates` | `NoSignalLost`, `NoGaps`, `EverySeriesTried` | 2 currencies (2 pairs), 1 stock, 1 user, 1 request; backfill 1 day, 2 days of operation; a series with a price every day, one with a day off, one without any | 0.40 M |
| `sessions` | `SignedOutStaysOut`, `IdleSessionsExpire`, `ActiveSessionsSurvive`, `OneUserPerLogin` | 2 requests, 1 login, 2 tokens, TTL 6, a request lasts ≤ 1 tick, 9 ticks | 6.3 M |
| `connections` | `StaysDisconnected`, `CompletedOnReturn`, `RequisitionHasToken`, `DisconnectForgets` | 1 bank at 3 providers, 2 requests of the pages and 1 fetch, 1 account, 2 requisitions; connects and disconnects of the bank one after the other | 4.1 M |
| `tx_form` | `NoHiddenIssue`, `HiddenAmountsFollow`, `RepaymentIffRepaid`, `EditKeepsCategory` | 3 accounts of 2 units, 2 categories, 1 name, amounts −1, 1, 2 and one that does not parse typed, 0 from defaults; 4 drafts, a recorded transaction of each kind | 0.89 M |
| `config` | `RowsAreSaved`, `SaveKeepsUntouched` | a bank with an account, a category below another; 1 new row of bank and account each; 2 forms open, 2 submissions, 1 failed or unanswered | 2.8 M |
| `pages` | `FiltersFindChosen`, `TypedQueryStays`, `FoundAddsUp`, `ChartsAddUp`, `NothingDropped`, `RatesLookBack`, `NetWorthReplays`, `BanksMakeNetWorth`, `PlacesAgree` | every page; 2 snapshots of data, in between which the user saved; 2 choices in the filters, 2 queries typed over the generated one; 1 more excluded category, 2 ends to pick | 51 k |
| `zero_opening_balance` | `PageRenders` fails | 1 tab, 1 account, balances 0 and 1 | finding |
| `edited_repayment` | `OneHeadPerChain` fails | 1 tab that edits repayment rows | finding |

Why the bounds are enough for what they are used for:

* **Ledger, `MaxId`.** A repaid expense takes two ids; 4 ids hold a repaid
  expense and its repaid edit, or an edit of an edit of an edit, or four
  concurrent single writes. That is the shortest instance of every hazard
  listed for the write path, and each mutant is found within it (editing a
  repayment and then its expense, `edited_repayment`, has 6). The chain properties
  relate a row to the one row before it, which is also why they could be
  proved without a bound.
* **Amounts.** One or two amounts suffice because no guard compares amounts
  except with zero; `own` ranges over `0 .. amount`, so both ends of a split
  are reached. `BooksBalance` is proved for all amounts.
* **Two accounts** are needed for transfers, two units for the transfer that
  goes through CURRENCY_EXCHANGE.
* **Feeds.** Two overlapping processes and two fetch rows are the smallest
  instance in which one fetch links a row that another stored; two
  transactions distinguish "some" from "all". Two ticks with interval 2 let a
  fetch be too early, just in time and late. Two accounts let one starve the
  other.
* **Rates.** Three days (one of backfill) make a latest day before, on and
  after a day off; a round may straddle midnight (`FetchChart`, `NextDay`).
* **Sessions.** TTL 6 has its half at 3, with an odd and an even side;
  MaxTime 9 lets a session lapse, expire, and be extended twice.
* **Connections.** Two requests and a fetch are the smallest instance in which
  a refresh, a connect and a browser that comes back late meet; two
  requisitions let one replace another. Banks do not share rows, so one
  suffices. `OneAtATime` says that connects and disconnects *of one bank* do not
  overlap: the pages offer one or the other, and its user does one at a time.
  `RequisitionHasToken` and `DisconnectForgets` fail without it (a connect that
  checked for its token before a disconnect deleted it records its requisition
  afterwards); `StaysDisconnected` and `CompletedOnReturn` do not need it and
  are proved without it.
* **The form.** No effect, guard or message compares amounts except for
  equality, sign and order, and names except for being the same; −1 to 2 and one
  text that is not a number reach each of them (the fields are free text, so a
  negative amount can be typed). Three accounts give a transfer
  within a unit and one across units. The drafts and the recorded transactions
  are one of each shape that fills the form differently.
* **Settings.** Two forms open at once are what an answer can be mistaken
  between; two submissions let one be under way behind the other; one new row of
  a table tells an answer that adds from one that replaces.
* **Pages.** The charts are functions, so their inputs matter more than their
  number: the snapshots hold every kind of transaction, amounts without a rate,
  transactions on the first and the last moments of months and of years, one
  that is not due yet and categories two deep. Intervals are picked with either
  end first.

The configuration of `ledger_one_tab` excludes what breaks its properties: the
findings (zero amounts: 1; editing a repayment row: 2) and what two tabs do
(shared iids, forked chains and duplicate names, see
[known divergences](#known-divergences)). Each exclusion is a constant
(`Sessions`, `Amounts` and `OpeningAmounts`, `EditRepayments`), and the run of a
finding is the same specification with the constant changed. `ledger_tabs` keeps
all of these: two tabs may fork a chain or share an iid there, a page that does
not render offers nothing to edit (`Offered`), and its properties hold all the
same. It has two sharing types only, for size; their proofs, where there are
any, have all.

Bounds are constants named in the modules (`MaxId`, `MaxTime`, `MaxFetches`,
`MaxUserId`, `MaxLag`, `MaxDay`) and stand in the guards of the actions that
would exceed them. Deadlock is checked in every run: a stopped system is
impossible because a page can always be loaded, an account connected, a round
started, or a session row swept. The exception is `config`, which says
CHECK_DEADLOCK FALSE: once the submissions and faults its bounds allow are used
up and the picker's requests are spent, nothing is left to do.

## Fairness

Safety properties use `Spec`, which has no fairness; the connections, the form,
the settings and the pages have safety properties only, as nothing in them is
scheduled: a request that stops is not resumed, and what happens next is the
user's choice. Two liveness properties
use `LiveSpec`:

* **Feeds**: `WF_vars(SchedulerNext)`. One goroutine takes all these steps.
  It cannot be blocked for ever: every HTTP client has a 30 s timeout
  (`openbanking/httpx/httpx.go:12`), statements return, row locks are held by
  transactions that end, and a ticker starts the next round. Nothing is
  assumed of the bank (`Answer` may report an error for ever), of the requests
  or of the restarts. The property allows that an account is disconnected.
  `feeds_served` leaves out restarts and failed due checks: if they may go on
  for ever nothing can be promised. It leaves out FetchNow requests because
  they could only help.
* **Rates**: `WF_vars(SchedulerNext)` for the same reasons
  (`rates/yahoo.go:36`), and `WF_vars(NextDay)`: time passes. The database and
  the server may fail only while `Faulty` (`today < MaxDay`), so they stop
  failing eventually; the Yahoo calls and the INSERTs may fail for ever and
  the property still holds, because it promises that a series is *tried*.
  Without this bound a round could fail at its first SELECT every time.

No fairness is assumed of users.

## What is proved

TLAPS checks the theorems below for every value of the constants, under the
named assumptions, which TLC also evaluates in the runs.

| Theorem | Statement | For any |
|---|---|---|
| `LedgerProofs!LedgerTypes` | `Spec => []TypeOK` | number of tabs, accounts, people, amounts, ids |
| `LedgerProofs!BooksAlwaysBalance` | `Spec => []BooksBalance` | ″ |
| `LedgerProofs!ChainsAlwaysKeepIid` | `Spec => []ChainsKeepIid` | ″ |
| `LedgerProofs!RepaymentsAlwaysSettle` | `Spec => []RepaymentsSettle` | ″ |
| `LedgerProofs!RepaymentsAlwaysFollow` | `Spec => []RepaymentsFollow` | ″ |
| `LedgerProofs!BalancesAlwaysAgree` | `Spec => []NewestOpeningAgrees` | ″ |
| `LedgerProofs!OriginsAlwaysResolve` | `Spec => []OriginsResolve` | ″ |
| `LedgerProofs!HeadsAreSingle` | `OneTab` gives `Spec => []OneHeadPerChain` | accounts, people, amounts, ids; one tab, see below |
| `LedgerProofs!PagesAlwaysRender` | `OneTab` gives `Spec => []PageRenders` | ″ |
| `LedgerProofs!NamesStaySingle` | `OneTab` gives `Spec => []OneRowPerName` | ″ |
| `LedgerProofs!LedgerIsEventLog` | `OneTab` gives `Spec => ImplementsEventLog` | ″ |
| `FeedsProofs!TransactionsStoredOnce` | `Spec => []StoredOnce` | number of clients, accounts, transactions |
| `FeedsProofs!FetchesLinkedCompletely` | `Spec => []LinksComplete` | ″ |
| `FeedsProofs!ScheduledFetchesSpaced` | `Spec => []ScheduledSpaced` | ″, and any interval |
| `RatesProofs!RatesTypes` | `Spec => []TypeOK` | currencies, stocks, users, requests |
| `RatesProofs!SignalsNeverLost` | `Spec => []NoSignalLost` | ″ |
| `RatesProofs!HistoriesHaveNoGaps` | `Spec => []NoGaps` | ″, trading days, backfill, days |
| `SessionsProofs!NoSessionReturns` | `Spec => []SignedOutStaysOut` | number of requests, tokens, logins |
| `SessionsProofs!EverySessionExpires` | `Spec => []IdleSessionsExpire` | ″, and any TTL |
| `SessionsProofs!LoginsStayUnique` | `Spec => []OneUserPerLogin` | ″ |
| `SessionsProofs!UsedSessionsGoOn` | `2 * MaxLag <= TTL` gives `Spec => []ActiveSessionsSurvive` | ″, requests that take at most half the TTL |
| `ConnectionsProofs!BanksStayDisconnected` | `Spec => StaysDisconnected` | number of banks, requests, fetches, requisitions; overlapping or not |
| `ConnectionsProofs!CompletedOnlyOnReturn` | `Spec => []CompletedOnReturn` | ″ |
| `ConnectionsProofs!RequisitionsHaveTokens` | `OneAtATime` gives `Spec => []RequisitionHasToken` | ″, not overlapping at one bank |
| `ConnectionsProofs!DisconnectsForget` | `OneAtATime` gives `Spec => []DisconnectForgets` | ″ |
| `TransactionFormProofs!FormInvariant` | `Spec => []FormInv` | accounts, categories, names, amounts typed, suggestions and recorded transactions |
| `TransactionFormProofs!RepaymentsComeAndGo` | `Spec => []RepaymentIffRepaid` | ″ |
| `TransactionFormProofs!HiddenAmountsAlwaysFollow` | `Spec => []HiddenAmountsFollow` | ″ |
| `TransactionFormProofs!HiddenFieldsNeverBlock` | `Spec => []NoHiddenIssue` | ″ |
| `TransactionFormProofs!EditsNeverRecategorise` | `Spec => EditKeepsCategory` | ″ |
| `ConfigProofs!ConfigInvariant` | `Spec => []ConfigInv` | rows, values typed, forms open at once, submissions and failures |
| `ConfigProofs!RowsShownAreSaved` | `Spec => []RowsAreSaved` | ″ |
| `ConfigProofs!SavesKeepUntouched` | `Spec => SaveKeepsUntouched` | ″ |
| `PagesProofs!PagesTypeCorrect` | `Spec => []TypeOK` | data, inputs, queries, ranges, moments |
| `PagesProofs!TypedQueryIsKept` | `Spec => TypedQueryStays` | ″ |
| `PagesProofs!RatesNeverLookAhead` | `Spec => []RatesLookBack` | ″: histories of rates and quotes with any holes |
| `PagesProofs!NoExpenseIsDropped` | `Spec => []NothingDropped` | ″: transactions, forests of categories, exclusions |
| `PagesProofs!NetWorthIsReplayed` | `Spec => []NetWorthReplays` | ″: accounts, ranges, numbers of samples |
| `PagesProofs!BankTotalsMakeNetWorth` | `Spec => []BanksMakeNetWorth` | ″: banks and accounts |
| `PagesProofs!PlacesShowTheSame` | `Spec => []PlacesAgree` | ″: accounts and trips |
| `PagesProofs!ChartsShowEverything` | `Spec => []ChartsAddUp` | ″: intervals, calendars of equal months, categories, vendors |
| `PagesProofs!WhatIsFoundAddsUp` | `Spec => []FoundAddsUp` | ″: whatever was searched for |

Those of the pages rest on `TypeOK` and on lemmas about what is computed. Each
of the others rests on an inductive invariant (`LedgerInvariant`, `FeedsInvariant`,
`RatesInvariant`, `AuthInvariant`, `ConnectionsInvariant`, `FormInvariant`,
`ConfigInvariant`), proved one action at a time. The ledger's repayments, opening
balances and readers add invariants of their own to `LedgerInvariant`; those of
the readers come last.

**Ledger.** A property of the committed rows is not inductive by itself: a
commit publishes rows written earlier, from a snapshot taken earlier still,
that supersede a row chosen from a page loaded before that. `LedgerInv`
therefore says of each of these what the step after it needs:

* `Sound(db)`: ids are unique, no iid exceeds its row's id, lines balance, repayments
  settle, and a row that settles a debt is an expense. `Chained`: superseding
  rows continue the row they supersede. `Below`: no id reaches `nextId`.
* `ViewsInv`: every snapshot is `Sound` and a subset of the committed rows
  (rows are never changed or deleted, so a stale snapshot is still right about
  what it shows).
* `PlansInv`: uncommitted rows are sound by themselves, continue *committed*
  rows, and share no id with committed rows or other tabs' rows.
* `ShownInv`: what a page offers is committed, and in the snapshot of the
  request that came from it (`Begin` comes after `Load`); no opening balance
  is offered. Without it an edit could supersede a row its snapshot does not
  have, and `AllocateIID` would find no iid to copy.

Lemmas about the entry lines (`ExpenseLinesGood`, `TransferLinesGood`, …),
about `AllocateIID`, `RepaymentSupersedes` and `GetOrCreate` carry the
arithmetic; each action then has one short proof.

**Ledger: repayments.** A repaid expense is edited from a snapshot that may be
older than other edits of it. `FollowInv`: every expense row has at most one
debt link (`OneDebt`); the rows of every request in flight, and the committed
ones, supersede the repayment that the superseded expense has in the committed
tables (`Follows`); and a snapshot that has an expense row has its link too
(`Within`), because one transaction commits both. So `RepaymentSupersedes` finds
the right row in a stale snapshot, or the row it supersedes has no repayment at
all.

**Ledger: opening balances.** The balance on the account's row is overwritten
and the one in the ledger appended, by requests that chose from their own
snapshots. `OpeningInv`: a request writes both or neither (`WritesBoth`), for its
own account only (`OpensOwn`); no two requests hold the lock of one account row
(`LocksApart`); so a request's opening row is newer than all committed ones of
the account it has locked (`Newest`), and whoever commits last has both.

**Ledger: origins.** `OriginsInv`: no row is void (the column is never
inserted, see finding 1) and an origin names a row that is committed with it.
`Chained` then makes `CurrentVersion` end at a current row: `WalkExists` shows,
by a least counterexample, that its recursive definition has a solution, and
`WalkEndsCurrent`, likewise, that the walk loses no event.

**Ledger: one tab.** `OneTab` is what `ledger_one_tab` assumes and the findings
show to be needed: one session, repayments edited through their expense, no
zero amounts. Then `TabInv` holds: the snapshot of a running request is the
committed database; a page offers current rows only, and no repayment; and the
tables are `Tidy`. That is one head per event, rows the client can convert,
links between rows of the right kinds, unique names, and what keeps these true:
a repayment is superseded only together with its expense (`Tied`), so that no
link loses its end, and an opening row by one that posts to the same account
(`StaysOn`), so that the next change of the balance finds one head to supersede.
`Fits` says of the rows a request is about to commit what leaves the tables tidy
(`JoinTidy`): at most two rows, each the start of an event or a successor of its
head. `TidyRenders` gives the three invariants. For the refinement, the heads
after a commit are those of the committed rows and the old ones of other events
(`JoinedHeads`), so a commit is one `Write` of `EventLog` (`CommitWrites`) and every
other step a stutter (`StepWrites`).

**Feeds.** `RowsInv`: the rows of processes in flight have hashes nobody else
holds and ids below `nextTx`: this is what the wait on the unique index buys.
`LinksInv` holds when a fetch commits, as it links the stored and its own rows
by hash, and stays as rows are never deleted. `SpacedInv`: from the due check
on, every scheduled fetch recorded for the account is an interval older than
the check, because only the scheduler itself records scheduled fetches.

**Rates.** `FetchInv`: while a series is fetched, the start lies no later than
the day after the latest one stored (`Resumes`), and what the provider returned
is all it has between the start and some later day (`Contiguous`); stored rows
only grow, and only this goroutine stores. `NoSignalLost` is inductive.

**Sessions.** `SessionsInv`: rows and in-flight requests name issued ids, and a
signed-out id has no row; ids are never issued twice. `ExpiryInv` is the
property; `UsersInv` says that an uncommitted user shares no login and no id
with any other. `ActiveInv` is about sessions in use: such a session was used
less than half the TTL ago, less `MaxLag`, and its row is good for half the TTL
since (`GoesOn`); an extension writes a time at most `MaxLag` old (`Prompt`), and
what a request is about to delete as expired is in use no more
(`DeletesNoActive`). Only this theorem needs `2 * MaxLag <= TTL`; the TTL is seven
days.

**Connections.** That a row says "completed" only on a return is not inductive:
the row may be replaced between the SELECT and the UPDATE of
`CompleteRequisition`. `ReturnInv` adds that the reference a request completes
came back, and is not the one that stands for no row. `KindInv` says what a
request is from where it stands: only a connect comes to `StoreToken`, which is
the one step that makes a row, and that gives `StaysDisconnected`. `ApartInv`
(connects and disconnects of one bank follow one another) and `CredentialsInv`
(a connect past `ensureToken` has its row; a disconnect past a DELETE has not
its row) are kept only under `OneAtATime`.

**Transaction form.** `FormInv` adds to the types what the two variants with an
own share and the transfer hide (`Hides`) and when an expense has repayment
details (`Repays`). The lemmas are about the steps the handlers are made of:
`SettleGood` and `SettleHides` say what the effects leave of a form (the hidden
amount is that of before, or of an input that is shown), `FilledByDraft`,
`FilledByTransaction` and `Switched` what a form is after it is filled or changes
its variant; each input and toggle then has one short proof (`…Keeps`).
`NoHiddenIssue` follows without an invariant of its own (`IssuesAreShown`): a
hidden amount parses if the shown ones do, and where it is refused all the same
it is the copy of a shown one that is refused, too (`OwnShareIssue`): the own
share of what is not shared and is negative, or what is received of a negative
or zero transfer.
It rests on two facts about suggestions that the form does not check and the
backend keeps (`DraftsAssumption`): an own share comes only with the proposal to
split (`suggest/history_fields.go`, `proposeSharing`), and the legs of a transfer
are of one amount (`suggest/pair_open_banking_transfers.go`).

**Settings.** A form holds a copy of a row of the page, which is a copy of a row
of the database, and the call it makes a copy of the form. `ConfigInv` says when
these agree. `Agrees`: what nobody touched in a form, or in a call not yet
written, is what is saved, unless the form was `behind` when it opened. `Owns`: a
form that is not behind waits for every call of its row there is, and that call
has its values. `Ordered`: of two calls of one row the later is behind; so the
one that writes the row finds nobody who relies on the old one. `IdsOK`: ids are
numbered from 1 without a gap, so a new row takes no other's place, and the page
has no row the database lacks. Answers may come to forms that are folded away,
closed or replaced: `Follows` and `Keeps` say what is left of the calls and of the
forms, once for all the steps that write nothing.

**Pages.** What the pages compute is a function of their state, so `TypeOK` is
all the invariant there is; the work is in the functions, for data of any size.
Induction is done by a least counterexample (`LeastNatural`; `FromZero` and
`FromEmpty` say it of the naturals and of the subsets of a finite set), with the
statement that holds named by the set of what it holds for.

* *Sums.* `SumFunction` folds over a set in the order that CHOOSE gives. That the
  fold has a value and that its order makes no difference is proved first; then
  `SumOfUnion`, `SumReindexed` and `SumByKey`: a sum by groups is the whole sum.
* *Sorting.* `SortedFacts`: what the sort returns has every key once and in
  order, which is also that a one-to-one map of a finite set into itself is onto.
* *Charts.* `SlicesCover`: months, quarters and years that an interval is cut into
  meet end to start and cover it, whichever way its ends lie. So each entry is in
  one bar (`BarAddsUp`), in one bar of one stack (`StacksAddUp`), below one root
  (`OneRoot`) and in one period to choose from. The last two also need the search
  for a parent to stop within the number of categories.
* *Balances.* `IsSweptTo` is the invariant of `BalanceSweep`: its cursor is at the
  last entry that is due and its balances are the sums up to it. Advancing keeps
  it, so the line of net worth and the current balances are both the sums of
  `BalancesUntil`.
* *Rates.* `LastKnown` walks back from a day to one that is stored. The nearest
  stored day and the last one agree after the backfill, which leaves no hole.

Amounts are said of what is drawn: `MarketModelBuilds` is that the constructors of
rates and quotes do not throw, and the pages that choose from periods throw
without a transaction (see [known divergences](#known-divergences)).

Assumptions: `AmountsAssumption` (form amounts are natural numbers: the form
schemas refuse others), `MaxIdAssumption`, `NoAccountAssumption`,
`TxsAssumption` (finitely many bank transactions), `OwnerAssumption`,
`IntervalAssumption` (a zero interval disables the scheduler),
`SchedulerAssumption`, `UnitsAssumption`, `DaysAssumption`,
`TradingAssumption`, `TTLAssumption`, `LimitsAssumption`, `BoundsAssumption`,
`ProcessesAssumption`; of the form, `FormAssumption`, `InputsAssumption`,
`DraftsAssumption` (above) and `TransactionsAssumption` (a recorded transaction is
one of the client's variants, with the fields that variant has:
`lib/model/transaction/*.tsx`); of the settings, `UnitSelectAssumption` and
`ConfigAssumption` (rows have the columns of their table, ids count from 1, and
there is one row of display settings, inserted at sign-up: `auth/seed.go:56`); of
the pages, `CoreAssumption` (an account has a bank: a foreign key),
`CategoriesAssumption` (below), `SnapshotsAssumption` (transactions point into the
data they come with, or its conversion throws; a transfer has two accounts; a
series of rates has a rate: it is made from one), `UnitsAssumption` of `Market`,
`PeriodsAssumption`, `SamplesAssumption`, `TopItemsAssumption`,
`ItemsAssumption`, `PickedDaysAssumption`, `AnswersAssumption` and
`RangesAssumption` (numbers, lengths and days are numbers).

`CategoriesAssumption` says that categories are a forest. The server does not
check it (see [known divergences](#known-divergences)), but no page survives its
opposite: `makeCategoryTree` throws for a parent that is missing, and
`getAncestors` never returns for a category below itself
(`lib/model/Category.tsx:49`, `98`). What the pages draw, they draw of a forest.

**Only model-checked.** `FiltersFindChosen` puts what the form wrote through the
grammar and the visitor: for every query that can be generated, a proof would need
an induction over lists and trees, besides conditions on names (that none contains the text
of an id) which the instance keeps and users need not.
`EveryAccountServed` and `EverySeriesTried` are liveness under fairness and stay
with TLC: the prover handles neither fairness arguments over data nor ENABLED.

## Findings

Two runs end in a counterexample of what the repository says of itself.
`PROJECT.json` quotes the lines.

1. **A zero opening balance breaks every page** (`zero_opening_balance`).
   `syncOpeningBalance` sets IsVoid for a zero amount
   (`ledger/opening_balance.go:44-46`), `InsertTransactionRow` does not insert
   the column (`ledger/common/common.go:149`), so the row is live, has no lines,
   and the client throws "expected 1 asset line". Add an account with a nonzero
   balance, set it to zero.
2. **An edited repayment gets two heads** (`edited_repayment`). Editing the
   repayment row itself leaves the DEBT_SETTLING link at the old row; the next
   edit of the expense supersedes the old row a second time.

The abstraction `EventLog` holds exactly where these are excluded.

## Known divergences

Met while modelling and read in the code; not all have a run of their own.

*Ledger.*
* After finding 1, the next edit does not see the zero row (it posts no line to
  the account), supersedes an older one, and forks the chain
  (`ledger/opening_balance.go:100`).
* A repayment outlives its expense's repaid form: editing a repaid expense into
  any other sharing type leaves the repayment row current
  (`txform/expense.go:273`).
* `AllocateIID` is MAX + 1 in a snapshot, without a lock or a unique index
  (`common/common.go:261`), so two requests at once give two transactions one
  iid, "Per-user incrementing ID, stable across edits" (`ledger.proto:243`);
  the client takes them for two versions of one transaction and throws
  (`ClientSideModel.tsx:440`). `OneHeadPerChain` fails on it in two tabs.
* An edit supersedes the row its page shows (`txform/expense.go:75`, and the
  other forms alike), superseded since or not, and nothing locks that row
  exclusively: of two tabs that show one version each can edit it, and the chain
  has two heads, where "There must be exactly one head per chain"
  (`common/common.go:211-213`). `ledger_tabs` keeps both, and its properties hold.
* Two requests create one RECEIVABLE account, trip or tag each for a new name
  ("returns the existing RECEIVABLE ledger account", `common/common.go:80`).
* A save whose answer is lost and is submitted again records a second
  transaction (`frontend/actions/txform/index.ts:51`).
* Editing a parent expense loses its refund link (documented in
  `frontend/lib/model/TransactionLink.tsx:54-62`); editing a repayment row saves
  it as an expense paid by oneself; an expense edited repaid → owed → repaid has
  two repayments; the unit of a repayment may differ from its expense's.
* `isNewCurrency` looks in the global ExchangeRate table, although it "reports
  whether the supplied unit introduces a currency the user has never used
  before" (`bank_account.go:119`).
* `UpdateDisplaySettings` with unchanged values affects no row (the DSN does not
  set clientFoundRows) and reports "DisplaySettings missing"
  (`ledger/service.go:367-373`).
* The pages of GetTransactions and `snapshot.Load` read their tables by separate
  statements; a commit in between makes them inconsistent.

*Open banking.*
* `StoredTransactions` returns "the most recent successful fetch"
  (`service.go:149`), which is the one recorded last (`MAX(id)`, line 244), not
  the one that asked last.
* `refreshInterval` is "the minimum age of a bank's last fetch before the
  scheduler fetches it again" (`service.go:40`); a manual fetch in flight, or
  recorded after the due check, does not count, so only the *scheduled* fetches
  are an interval apart.
* An error text longer than VARCHAR(1024) fails the INSERT, and the failed fetch
  is not recorded (`fetch.go:62`), so the account is tried again at every tick.
* `allConnectedAccounts` lists mapped accounts, not those "whose bank has a
  stored provider token" (`scheduler.go:68`); the two differ after a disconnect
  that failed half way (`service.go:295-304`).
* A fetch in flight across a remap is recorded for the new mapping.
* "At most one will hold a row" (`service.go:80`): an authorisation page that
  answers late, or a second tab, connects a bank at a second provider, and
  `providerForBank` then takes the first of its list.
* A refresh in flight writes over the tokens of a connection made meanwhile
  (`truelayer/truelayer.go:107`, `gocardless/token.go:67`): the UPDATE names the
  bank, not the token it refreshed.
* A disconnect that stops between its token and its mapping cannot be repeated:
  `providerForBank` finds no provider (`service.go:291`), and the mapping stays.
  So does one saved from a page that is older than a disconnect.
* A connect that overlaps a disconnect of the same bank can leave a requisition
  without a token.
* Reconnecting at GoCardless keeps the `createdAt` of the row
  (`requisition.go:77-81`), from which `ConnectionExpiresAt` counts
  (`requisition.go:168-182`): the warning about the old connection stays.
* The mapping page offers "None" (0), which violates the foreign key, and starts
  at -1, which the route refuses; the answer 400 is stored as the mappings and
  shown as "Success!" (`config/open-banking/mapping/client.tsx:78`).
* An abandoned GoCardless connection leaves a token (`ensureToken` then reports
  a reconnect, `gocardless/token.go:111-114`), and an abandoned reconnect has
  replaced the requisition of the working one (`requisition.go:73`).

*Rates.*
* A price stored while its day is not over stays the day's price unless it is
  fetched again that day (`scheduler.go:193-196`; "daily close rates",
  `yahoo.go:40`).
* A third-party expense, a new stock and the currency chosen at sign-up do not
  call TriggerFetch; a commit whose answer is lost does not either. The next
  tick finds them (`EverySeriesTried`).

*Forms.*
* An emptied form has no account after a third-party expense
  (`TransactionForm.tsx:129`).
* The name, note and amount inputs stay enabled while a save is under way; its
  success resets what was typed meanwhile. A dialog closed during a save and
  opened for another transaction is closed by the answer
  (`TransactionsList.tsx:399-407`).
* Opening a split expense for editing replaces its own share by half of the
  amount when it is mounted, and an unshared income keeps its companion and
  becomes a shared expense when the type is switched.
* The category that a toggle gives a repayment is the one of the last render
  (`useSharingTypeActions.ts:22`), not of the moment.

*Settings.*
* The row that saving an account returns has no unit, and opening its form again
  before the page is reloaded throws (`AccountForm.tsx:233`,
  `actions/config/bank-account.ts:52`).
* The display order of a bank is text once typed, and the schema wants a number:
  it cannot be changed in the form (`BankForm.tsx`).
* The list of units, after a search is cleared, may end with the answer to it,
  or stay at "Loading…" (`UnitSelect.tsx:133,170`).
* A category may be moved below itself, which hides its subtree (`ledger/
  service.go:296`). A second tab writes whole rows over the first one's.
* Display settings that cannot be saved say nothing (`display-settings/
  client.tsx:55-64`).

*Pages.*
* The bank page uses a component that needs `HideBalancesContext`, which only
  the overview provides, and throws (`overview/hide-balances.tsx:46`,
  `OverviewPage.tsx:24`).
* Search: the words of a name with several words are looked for apart, so such
  names hide rows when they are alternatives; `account:1` also matches names
  with "1" in them; a filter by category leaves its subcategories out; what
  follows an unexpected token is ignored; amounts of 0 never match.
* Statistics: percentiles and averages skip months without transactions; the end
  day of the selector is excluded after midnight; pages without transactions
  throw (`DurationSelector.tsx:42-45`); the bar "Other" is drawn for no vendors;
  the trip list shows what was spent net, the page of the trip gross.

*Suggestions.* `pairTransfers` offers each deposit one withdrawal and "prefers
the withdrawal closest before the deposit" by the smallest signed difference,
which prefers a withdrawal *after* it (`pair_open_banking_transfers.go:51`).

*Sessions.* A request that found a session expired deletes it by its id
(`auth/service.go:58`): an extension written since it was read is deleted with
it, and its user signs in again. `ActiveSessionsSurvive` speaks of sessions
that are used again within half of the TTL, less what a request lasts; this
cannot reach them.

*Sign-up.* Sign-ups at once can exceed the user limit: the check is a call of
its own (`frontend/actions/auth/signup.ts:41`).

## What is not modelled

* **Data without control**: notes, vendors, categories, timestamps, names,
  balances reported by banks, prices (only their days), passwords.
* **Other users**: every statement carries a userId; one user's ledger, feeds
  and connections are modelled. Rates and sessions have several users.
* **Suggestions**: `pairTransfers` and the frequencies of `history_*.go` are
  functions of what is stored; recall's walk is in `LedgerView`.
* **Migrations**: what a crash leaves behind depends on the SQL of each script,
  MySQL committing every DDL statement by itself; the runner has no state of its
  own but the list of scripts that were run.
* **Authentication of requests, server start and shutdown**: pass an id along,
  or wire the parts; the restarts are in the modules of what is restarted.
* **Torn page reads**: `Load` reads all tables in one step.
* **Lock cycles**: the deadlocks InnoDB resolves appear as `Rollback`/`Fail`, not
  as a cycle of waits. A lock wait is a disabled action.
* **Pure I/O and generated code**: bank clients, the gRPC schema, generated
  marshalling; end-to-end tests, deployment, scripts.
* **Drawing**: charts, colours, labels, number and date formats, layout.
* **The browser**: the router's cache of pages, cookies other than that of hidden
  amounts, several tabs of the settings. Next.js is external: it sends the
  server actions of a tab one at a time and drops the answers for pages that
  were left. The client's calendar has months of equal length.
* **Dates, tags and trips in the form**: kept by every switch or dropped by it,
  without a guard that reads them.
* **Integer widths**: nanos are int64; amounts the forms accept are far from
  2^63.

## Plan

Done: the ledger's write path, feeds, rates, sessions, connections, the
transaction form, the settings and the pages, each with its safety proved but
for `FiltersFindChosen`.

What would add most from here:

1. **The query of the filters**: that the parser gives back the groups that
   `GenerateQuery` wrote, by induction over their parts.
2. **Feeds over Connections**: the token and the mapping of a bank in `Feeds` as
   an abstraction of those in `Connections`.
3. **LedgerReads**: page reads table by table against commits of `Ledger`, and
   what the client does with a torn page.
4. **Suggest**: pairing of legs into transfers against a definition (each leg in
   exactly one draft), as operators over bounded inputs.

## Running the checks

```
tlc -workers 2 -config MCLedgerTabs.cfg MCLedger    # and so on for each run
tlapm LedgerProofs.tla                              # and so on for each proof
```

`PROJECT.json` lists the runs with their modules and configurations, the source
lines each definition models, the mutant that breaks each property, the hazards
and the theorems.
