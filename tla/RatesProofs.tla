----------------------------- MODULE RatesProofs -----------------------------
(***************************************************************************)
(* Proofs about Rates, for any currencies, stocks, users, requests at once, *)
(* trading days and length of the backfill.                                 *)
(***************************************************************************)
EXTENDS RatesSafety, TLAPS

\* A fetch that starts on a day will leave no hole: nothing is stored after
\* the day, and everything from the first day stored up to it is.
Resumes(x, from) ==
  /\ \A f \in stored[x] : f <= from
  /\ \A d \in Trading[x] :
       d < from /\ (\E e \in stored[x] : e <= d) => d \in stored[x]

\* What a fetch returned is what there is from its first day to its last.
Contiguous(x, from, got) ==
  /\ got \subseteq Trading[x]
  /\ \A g \in got : from <= g
  /\ \A d \in Trading[x] :
       from <= d /\ (\E g \in got : d <= g) => d \in got

FetchInv ==
  /\ sched.pc \in {"fetching", "storing"} => Resumes(sched.x, sched.from)
  /\ sched.pc = "storing" => Contiguous(sched.x, sched.from, sched.got)

RatesInv == TypeOK /\ NoSignalLost /\ NoGaps /\ FetchInv

------------------------------------------------------------------------------
\* Type correctness.

LEMMA TradingDays ==
  ASSUME NEW x \in Series
  PROVE  Trading[x] \subseteq Days /\ Days \subseteq Int
  BY TradingAssumption, DaysAssumption DEF Days

LEMMA SchedulerTyped ==
  ASSUME NEW pc \in {"listing", "displays", "next", "waiting"},
         NEW phase \in {"pairs", "stocks"}, NEW used \in SUBSET Codes,
         NEW todo \in SUBSET Series
  PROVE  /\ Scheduler(pc, phase, used, todo) \in SchedulerState
         /\ Scheduler(pc, phase, used, todo).pc = pc
  BY DEF Scheduler, SchedulerState

LEMMA NextSeriesTyped ==
  ASSUME TypeOK
  PROVE  /\ NextSeries(sched.todo) \in SchedulerState
         /\ NextSeries(sched.todo).pc = "next"
  <1>1. sched.phase \in {"pairs", "stocks"} /\ sched.todo \in SUBSET Series
    BY DEF TypeOK, SchedulerState
  <1>2. {} \in SUBSET Codes
    OBVIOUS
  <1> QED
    BY <1>1, <1>2, SchedulerTyped DEF NextSeries

LEMMA PairsBuilt ==
  ASSUME NEW used \in SUBSET Codes, NEW displays \in SUBSET Codes
  PROVE  BuildPairs(used, displays) \in SUBSET Series
  BY DEF BuildPairs, Series, Pairs

LEMMA FetchStarts ==
  ASSUME TypeOK, NEW x \in Series, NEW from \in NextFetchStart(x)
  PROVE  from \in Int
  BY TradingDays, DaysAssumption
     DEF TypeOK, NextFetchStart, NextFetchAfter, Latest, Days

\* The scheduler's own record stays typed.
LEMMA SchedNext ==
  ASSUME TypeOK, RunUpdate
  PROVE  /\ sched' \in SchedulerState
         /\ sched'.pc \in {"fetching", "storing"} => sched'.x \in Series
  <1> sched \in SchedulerState /\ stocks \in SUBSET Series
    BY DEF TypeOK, Series
  <1>1. CASE ListUsed
    <2>1. UsedCurrencyCodes \in SUBSET Codes
      BY DEF UsedCurrencyCodes
    <2> QED
      BY <1>1, <2>1, SchedulerTyped DEF ListUsed
  <1>2. CASE ListDisplays
    <2>1. DisplayCurrencies \in SUBSET Codes
      BY DEF TypeOK, DisplayCurrencies
    <2>2. sched.used \in SUBSET Codes /\ sched.phase \in {"pairs", "stocks"}
      BY DEF SchedulerState
    <2>3. BuildPairs(sched.used, DisplayCurrencies) \in SUBSET Series
      BY <2>1, <2>2, PairsBuilt
    <2> QED
      BY <1>2, <2>2, <2>3, SchedulerTyped DEF ListDisplays, NextSeries
  <1>3. CASE \E x \in Series : StartFetch(x)
    <2>1. PICK x \in Series : StartFetch(x)
      BY <1>3
    <2>2. PICK from \in NextFetchStart(x) :
            sched' = [sched EXCEPT !.pc = "fetching", !.todo = @ \ {x},
                                   !.x = x, !.from = from]
      BY <2>1 DEF StartFetch
    <2>3. from \in Int
      BY FetchStarts
    <2> QED
      BY <2>2, <2>3 DEF SchedulerState
  <1>4. CASE FetchChart
    <2>1. sched.x \in Series
      BY <1>4 DEF FetchChart, TypeOK
    <2>2. PICK until \in {today - 1, today} :
            LET got == Trading[sched.x] \cap (sched.from .. until) IN
              sched' = IF got = {}
                       THEN NextSeries(sched.todo)
                       ELSE [sched EXCEPT !.pc = "storing", !.got = got]
      BY <1>4 DEF FetchChart
    <2>3. Trading[sched.x] \in SUBSET Days
      BY <2>1, TradingDays
    <2> QED
      BY <2>1, <2>2, <2>3, NextSeriesTyped DEF SchedulerState
  <1>5. CASE Store \/ RefreshFails
    BY <1>5, NextSeriesTyped DEF Store, RefreshFails
  <1>6. CASE ListFails \/ ListStocks \/ ListStocksFails \/ EndRound
    BY <1>6, SchedulerTyped
       DEF ListFails, ListStocks, ListStocksFails, EndRound, Waiting
  <1> QED
    BY <1>1, <1>2, <1>3, <1>4, <1>5, <1>6 DEF RunUpdate

LEMMA IdleWriterTyped == IdleWriter \in Writer /\ IdleWriter.pc = "idle"
  BY DEF IdleWriter, Writer, Unit

\* A step that gives one request a new record keeps all of them typed.
LEMMA WriterTyped ==
  ASSUME TypeOK, NEW w \in Writers, NEW r \in Writer,
         r.pc = "looking_up" => r.unit \in Stocks,
         writer' = [writer EXCEPT ![w] = r]
  PROVE  /\ writer' \in [Writers -> Writer]
         /\ \A v \in Writers :
              writer'[v].pc = "looking_up" => writer'[v].unit \in Stocks
  BY DEF TypeOK

WriterStep(w) ==
  \/ BeginCurrencyAccount(w) \/ BeginStockAccount(w) \/ InsertStock(w)
  \/ CommitAccount(w) \/ UpdateDisplaySettings(w) \/ TriggerFetch(w) \/ Fail(w)

\* The record that a step of request w gives it.
LEMMA WriterStepRecord ==
  ASSUME TypeOK, NEW w \in Writers, WriterStep(w)
  PROVE  \E r \in Writer :
           /\ r.pc = "looking_up" => r.unit \in Stocks
           /\ writer' = [writer EXCEPT ![w] = r]
  <1> writer \in [Writers -> Writer] /\ writer[w] \in Writer
    BY DEF TypeOK
  <1>1. CASE BeginCurrencyAccount(w)
    <2>1. PICK c \in Codes :
            writer' = [writer EXCEPT ![w] =
              [pc |-> "writing", unit |-> c, isNew |-> ~Mentioned(c)]]
      BY <1>1 DEF BeginCurrencyAccount
    <2> DEFINE isNew == ~Mentioned(c)
    <2>2. isNew \in BOOLEAN
      OBVIOUS
    <2> HIDE DEF isNew
    <2> DEFINE r == [pc |-> "writing", unit |-> c, isNew |-> isNew]
    <2>3. r \in Writer /\ r.pc = "writing"
      BY <2>2 DEF Writer, Unit
    <2>4. writer' = [writer EXCEPT ![w] = r]
      BY <2>1 DEF isNew
    <2> QED
      BY <2>3, <2>4
  <1>2. CASE BeginStockAccount(w)
    <2>1. PICK s \in Stocks :
            writer' = [writer EXCEPT ![w] =
              [pc |-> IF s \in stocks THEN "writing" ELSE "looking_up",
               unit |-> s, isNew |-> FALSE]]
      BY <1>2 DEF BeginStockAccount
    <2> DEFINE pc == IF s \in stocks THEN "writing" ELSE "looking_up"
               r == [pc |-> pc, unit |-> s, isNew |-> FALSE]
    <2>2. pc \in {"writing", "looking_up"}
      OBVIOUS
    <2>3. writer' = [writer EXCEPT ![w] = r]
      BY <2>1
    <2> HIDE DEF pc
    <2>4. r \in Writer /\ r.unit \in Stocks
      BY <2>2 DEF Writer, Unit
    <2> QED
      BY <2>3, <2>4
  <1>3. CASE InsertStock(w)
    <2> DEFINE r == IF writer[w].unit \in stocks
                    THEN IdleWriter
                    ELSE [writer[w] EXCEPT !.pc = "writing"]
    <2>1. r \in Writer /\ r.pc # "looking_up"
      BY IdleWriterTyped DEF Writer
    <2>2. writer' = [writer EXCEPT ![w] = r]
      BY <1>3 DEF InsertStock
    <2> QED
      BY <2>1, <2>2
  <1>4. CASE CommitAccount(w) \/ UpdateDisplaySettings(w)
    <2>1. [writer[w] EXCEPT !.pc = "triggering"] \in Writer
          /\ [writer[w] EXCEPT !.pc = "triggering"].pc = "triggering"
      BY DEF Writer
    <2>2. \/ writer' = [writer EXCEPT ![w] =
                          [writer[w] EXCEPT !.pc = "triggering"]]
          \/ writer' = [writer EXCEPT ![w] = IdleWriter]
          \/ writer' = writer /\ writer[w].pc = "idle"
      BY <1>4 DEF CommitAccount, UpdateDisplaySettings
    <2>3. writer = [writer EXCEPT ![w] = writer[w]]
      OBVIOUS
    <2> QED
      BY <2>1, <2>2, <2>3, IdleWriterTyped
  <1>5. CASE TriggerFetch(w) \/ Fail(w)
    BY <1>5, IdleWriterTyped DEF TriggerFetch, Fail
  <1> QED
    BY <1>1, <1>2, <1>3, <1>4, <1>5 DEF WriterStep

LEMMA WriterStepTypes ==
  ASSUME TypeOK, NEW w \in Writers, WriterStep(w)
  PROVE  TypeOK'
  <1>1. /\ writer' \in [Writers -> Writer]
        /\ \A v \in Writers :
             writer'[v].pc = "looking_up" => writer'[v].unit \in Stocks
    BY WriterStepRecord, WriterTyped
  <1>2. /\ today' = today /\ stored' = stored /\ sched' = sched
        /\ trigger' \in BOOLEAN
    BY DEF WriterStep, TypeOK, BeginCurrencyAccount, BeginStockAccount,
           InsertStock, CommitAccount, UpdateDisplaySettings, TriggerFetch,
           Fail
  <1>3. codes' \subseteq Codes
    BY DEF WriterStep, TypeOK, BeginCurrencyAccount, BeginStockAccount,
           InsertStock, CommitAccount, UpdateDisplaySettings, TriggerFetch,
           Fail, AccountWritten, ledger
  <1>4. stocks' \subseteq Stocks
    BY DEF WriterStep, TypeOK, BeginCurrencyAccount, BeginStockAccount,
           InsertStock, CommitAccount, UpdateDisplaySettings, TriggerFetch,
           Fail, ledger
  <1>5. display' \in [Users -> Codes]
    BY DEF WriterStep, TypeOK, BeginCurrencyAccount, BeginStockAccount,
           InsertStock, CommitAccount, UpdateDisplaySettings, TriggerFetch,
           Fail, ledger
  <1>6. unlisted' \subseteq Announcement
    <2>1. writer[w].unit \in Unit
      BY DEF TypeOK, Writer
    <2> QED
      BY <2>1 DEF WriterStep, TypeOK, BeginCurrencyAccount, BeginStockAccount,
           InsertStock, CommitAccount, UpdateDisplaySettings, TriggerFetch,
           Fail, Announced, Announcement, Unit
  <1> QED
    BY <1>1, <1>2, <1>3, <1>4, <1>5, <1>6 DEF TypeOK

LEMMA RunUpdateTypes ==
  ASSUME TypeOK, RunUpdate
  PROVE  TypeOK'
  <1>1. UNCHANGED <<today, ledger, trigger, writer>>
    BY DEF RunUpdate, ListUsed, ListDisplays, ListFails, StartFetch,
           FetchChart, Store, RefreshFails, ListStocks, ListStocksFails,
           EndRound
  <1>2. unlisted' \subseteq unlisted
    BY DEF RunUpdate, ListUsed, ListDisplays, ListFails, StartFetch,
           FetchChart, Store, RefreshFails, ListStocks, ListStocksFails,
           EndRound
  <1>3. stored' \in [Series -> SUBSET Days]
    <2>1. CASE Store
      <3>1. sched.got \in SUBSET Days
        BY DEF TypeOK, SchedulerState
      <3> QED
        BY <2>1, <3>1 DEF Store, TypeOK
    <2>2. CASE ~Store
      <3>1. stored' = stored
        BY <2>2 DEF RunUpdate, ListUsed, ListDisplays, ListFails, StartFetch,
             FetchChart, RefreshFails, ListStocks, ListStocksFails, EndRound
      <3> QED
        BY <3>1 DEF TypeOK
    <2> QED
      BY <2>1, <2>2
  <1> QED
    BY <1>1, <1>2, <1>3, SchedNext DEF TypeOK, ledger

LEMMA RoundTyped ==
  /\ StartOfRound \in SchedulerState /\ StartOfRound.pc = "listing"
  /\ Waiting \in SchedulerState /\ Waiting.pc = "waiting"
  BY SchedulerTyped DEF StartOfRound, Waiting

LEMMA TypeNext ==
  ASSUME TypeOK, [Next]_vars
  PROVE  TypeOK'
  <1>1. CASE RunUpdate
    BY <1>1, RunUpdateTypes
  <1>2. CASE Tick \/ Triggered
    BY <1>2, RoundTyped DEF Tick, Triggered, TypeOK, ledger
  <1>3. CASE \E w \in Writers : WriterStep(w)
    BY <1>3, WriterStepTypes
  <1>4. CASE WriteTransactionForm
    BY <1>4 DEF WriteTransactionForm, TypeOK
  <1>5. CASE NextDay
    BY <1>5, DaysAssumption DEF NextDay, TypeOK, ledger
  <1>6. CASE Restart
    BY <1>6, RoundTyped, IdleWriterTyped DEF Restart, TypeOK, ledger
  <1>7. CASE UNCHANGED vars
    BY <1>7 DEF vars, TypeOK
  <1> QED
    BY <1>1, <1>2, <1>3, <1>4, <1>5, <1>6, <1>7
       DEF Next, SchedulerNext, WriterStep

------------------------------------------------------------------------------
\* Signals.

\* A request's step loses no announcement: one that commits is about to
\* trigger, and one that triggers leaves the channel full.
LEMMA WriterStepSignals ==
  ASSUME TypeOK, NoSignalLost, NEW w \in Writers, WriterStep(w)
  PROVE  NoSignalLost'
  <1> writer \in [Writers -> Writer]
    BY DEF TypeOK
  <1>1. sched' = sched /\ (trigger => trigger')
    BY DEF WriterStep, TypeOK, BeginCurrencyAccount, BeginStockAccount,
           InsertStock, CommitAccount, UpdateDisplaySettings, TriggerFetch,
           Fail
  <1>2. CASE TriggerFetch(w)
    BY <1>2 DEF TriggerFetch, NoSignalLost
  <1>3. CASE ~TriggerFetch(w)
    <2>1. unlisted' = unlisted \/ writer'[w].pc = "triggering"
      <3>1. CASE CommitAccount(w) /\ writer[w].isNew
        BY <3>1 DEF CommitAccount, TypeOK, Writer
      <3>2. CASE CommitAccount(w) /\ ~writer[w].isNew
        BY <3>2 DEF CommitAccount
      <3>3. CASE UpdateDisplaySettings(w)
        BY <3>3 DEF UpdateDisplaySettings, TypeOK, Writer
      <3>4. CASE ~(CommitAccount(w) \/ UpdateDisplaySettings(w))
        BY <1>3, <3>4 DEF WriterStep, BeginCurrencyAccount, BeginStockAccount,
               InsertStock, Fail
      <3> QED
        BY <3>1, <3>2, <3>3, <3>4
    <2>2. writer[w].pc # "triggering"
      BY <1>3 DEF WriterStep, BeginCurrencyAccount, BeginStockAccount,
             InsertStock, CommitAccount, UpdateDisplaySettings, Fail
    <2>3. PICK r \in Writer : writer' = [writer EXCEPT ![w] = r]
      BY WriterStepRecord
    <2>4. \A v \in Writers :
            writer[v].pc = "triggering" => writer'[v].pc = "triggering"
      BY <2>2, <2>3
    <2>5. CASE writer'[w].pc = "triggering"
      BY <2>5 DEF NoSignalLost
    <2>6. CASE unlisted' = unlisted
      BY <1>1, <2>4, <2>6 DEF NoSignalLost
    <2> QED
      BY <2>1, <2>5, <2>6
  <1> QED
    BY <1>2, <1>3

\* A step of a round loses none either: a SELECT takes the announcements it
\* answers, and past both there are none but those a signal stands for.
LEMMA RunUpdateSignals ==
  ASSUME TypeOK, NoSignalLost, RunUpdate
  PROVE  NoSignalLost'
  <1>1. UNCHANGED <<trigger, writer>>
    BY DEF RunUpdate, ListUsed, ListDisplays, ListFails, StartFetch,
           FetchChart, Store, RefreshFails, ListStocks, ListStocksFails,
           EndRound
  <1>2. CASE ListUsed
    <2>1. sched'.pc = "displays"
      BY <1>2 DEF ListUsed, Scheduler
    <2>2. \A n \in unlisted' : n.table = "display"
      BY <1>2 DEF ListUsed, TypeOK, Announcement
    <2> QED
      BY <2>1, <2>2 DEF NoSignalLost
  <1>3. CASE ListDisplays
    <2>1. sched.pc = "displays"
      BY <1>3 DEF ListDisplays
    <2>2. unlisted' \subseteq unlisted /\ \A n \in unlisted' : n.table # "display"
      BY <1>3 DEF ListDisplays
    <2> QED
      BY <1>1, <2>1, <2>2 DEF NoSignalLost
  <1>4. CASE ListFails
    BY <1>4 DEF ListFails, NoSignalLost
  <1>5. CASE ~(ListUsed \/ ListDisplays \/ ListFails)
    <2>1. unlisted' = unlisted /\ sched.pc \in {"next", "fetching", "storing"}
      BY <1>5 DEF RunUpdate, StartFetch, FetchChart, Store, RefreshFails,
             ListStocks, ListStocksFails, EndRound
    <2> QED
      BY <1>1, <2>1 DEF NoSignalLost
  <1> QED
    BY <1>2, <1>3, <1>4, <1>5

LEMMA SignalsNext ==
  ASSUME TypeOK, NoSignalLost, [Next]_vars
  PROVE  NoSignalLost'
  <1>1. CASE RunUpdate
    BY <1>1, RunUpdateSignals
  <1>2. CASE Tick \/ Triggered \/ Restart
    BY <1>2, RoundTyped DEF Tick, Triggered, Restart, NoSignalLost
  <1>3. CASE \E w \in Writers : WriterStep(w)
    BY <1>3, WriterStepSignals
  <1>4. CASE WriteTransactionForm \/ NextDay \/ UNCHANGED vars
    BY <1>4 DEF WriteTransactionForm, NextDay, vars, NoSignalLost
  <1> QED
    BY <1>1, <1>2, <1>3, <1>4 DEF Next, SchedulerNext, WriterStep

------------------------------------------------------------------------------
\* Histories without holes.

\* refreshPair and refreshStock resume where they should.
LEMMA StartResumes ==
  ASSUME TypeOK, NoGaps, NEW x \in Series, NEW from \in NextFetchStart(x)
  PROVE  Resumes(x, from)
  <1> stored[x] \subseteq Int /\ Trading[x] \subseteq Int /\ today \in Int
    BY TradingDays, DaysAssumption DEF TypeOK
  <1>1. CASE stored[x] = {}
    BY <1>1 DEF Resumes
  <1>2. CASE stored[x] # {}
    <2>1. PICK latest \in Latest(x) : from = NextFetchAfter(latest)
      BY <1>2 DEF NextFetchStart
    <2>2. latest \in stored[x] /\ \A e \in stored[x] : e <= latest
      BY <2>1 DEF Latest
    <2>3. from \in {latest, latest + 1}
      BY <2>1 DEF NextFetchAfter
    <2>4. \A f \in stored[x] : f <= from
      BY <2>2, <2>3
    <2>5. ASSUME NEW d \in Trading[x], d < from,
                 NEW e \in stored[x], e <= d
          PROVE  d \in stored[x]
      <3>1. d <= latest
        BY <2>2, <2>3, <2>5
      <3> QED
        BY <2>2, <2>5, <3>1 DEF NoGaps
    <2> QED
      BY <2>4, <2>5 DEF Resumes
  <1> QED
    BY <1>1, <1>2

\* Storing what a fetch returned leaves no hole.
LEMMA StoreKeepsGapless ==
  ASSUME TypeOK, NoGaps, FetchInv, Store
  PROVE  NoGaps'
  <1> DEFINE s == sched.x
             got == sched.got
             from == sched.from
  <1>1. s \in Series /\ Resumes(s, from) /\ Contiguous(s, from, got)
    BY DEF Store, TypeOK, FetchInv
  <1>2. /\ stored[s] \subseteq Int /\ Trading[s] \subseteq Int
        /\ from \in Int /\ got \subseteq Int
    BY <1>1, TradingDays DEF TypeOK, SchedulerState
  <1>3. \A x \in Series :
          stored'[x] = IF x = s THEN stored[s] \cup got ELSE stored[x]
    BY DEF Store, TypeOK
  <1> HIDE DEF s, got, from
  <1>4. ASSUME NEW d \in Trading[s], NEW e \in stored[s] \cup got,
               NEW f \in stored[s] \cup got, e <= d, d <= f
        PROVE  d \in stored[s] \cup got
    <2>1. CASE d < from
      <3>1. e \notin got
        <4>1. e \in got => from <= e
          BY <1>1 DEF Contiguous
        <4>2. e \in Int /\ d \in Int
          BY <1>2, <1>4
        <4> QED
          BY <1>2, <1>4, <2>1, <4>1, <4>2
      <3> QED
        BY <1>1, <1>4, <2>1, <3>1 DEF Resumes
    <2>2. CASE from <= d /\ f \in got
      BY <1>1, <1>4, <2>2 DEF Contiguous
    <2>3. CASE from <= d /\ f \in stored[s]
      <3>1. f <= from
        BY <1>1, <2>3 DEF Resumes
      <3>2. d = f
        BY <1>2, <1>4, <2>3, <3>1
      <3> QED
        BY <2>3, <3>2
    <2> QED
      BY <1>2, <2>1, <2>2, <2>3
  <1>5. ASSUME NEW x \in Series, NEW d \in Trading[x],
               NEW e \in stored'[x], NEW f \in stored'[x], e <= d, d <= f
        PROVE  d \in stored'[x]
    <2>1. CASE x = s
      BY <1>3, <1>4, <1>5, <2>1
    <2>2. CASE x # s
      BY <1>3, <1>5, <2>2 DEF NoGaps
    <2> QED
      BY <2>1, <2>2
  <1> QED
    BY <1>5 DEF NoGaps

LEMMA GapsNext ==
  ASSUME TypeOK, NoGaps, FetchInv, [Next]_vars
  PROVE  NoGaps'
  <1>1. CASE Store
    BY <1>1, StoreKeepsGapless
  <1>2. CASE ~Store
    <2>1. stored' = stored
      BY <1>2 DEF Next, SchedulerNext, RunUpdate, ListUsed, ListDisplays,
             ListFails, StartFetch, FetchChart, RefreshFails, ListStocks,
             ListStocksFails, EndRound, Tick, Triggered, BeginCurrencyAccount,
             BeginStockAccount, InsertStock, CommitAccount,
             UpdateDisplaySettings, TriggerFetch, Fail, WriteTransactionForm,
             NextDay, Restart, vars
    <2> QED
      BY <2>1 DEF NoGaps
  <1> QED
    BY <1>1, <1>2

\* The round's fetch keeps resuming where it should while it is under way.
LEMMA FetchNext ==
  ASSUME TypeOK, NoGaps, FetchInv, [Next]_vars
  PROVE  FetchInv'
  <1> sched \in SchedulerState
    BY DEF TypeOK
  <1>1. CASE \E x \in Series : StartFetch(x)
    <2>1. PICK x \in Series : StartFetch(x)
      BY <1>1
    <2>2. PICK from \in NextFetchStart(x) :
            sched' = [sched EXCEPT !.pc = "fetching", !.todo = @ \ {x},
                                   !.x = x, !.from = from]
      BY <2>1 DEF StartFetch
    <2>3. sched'.pc = "fetching" /\ sched'.x = x /\ sched'.from = from
      BY <2>2 DEF SchedulerState
    <2>4. stored' = stored
      BY <2>1 DEF StartFetch
    <2> QED
      BY <2>3, <2>4, StartResumes DEF FetchInv, Resumes
  <1>2. CASE FetchChart
    <2>1. PICK until \in {today - 1, today} :
            LET got == Trading[sched.x] \cap (sched.from .. until) IN
              sched' = IF got = {}
                       THEN NextSeries(sched.todo)
                       ELSE [sched EXCEPT !.pc = "storing", !.got = got]
      BY <1>2 DEF FetchChart
    <2> DEFINE got == Trading[sched.x] \cap (sched.from .. until)
    <2>2. CASE got = {}
      BY <2>1, <2>2, NextSeriesTyped DEF FetchInv
    <2>3. CASE got # {}
      <3>1. /\ sched'.pc = "storing" /\ sched'.x = sched.x
            /\ sched'.from = sched.from /\ sched'.got = got
        BY <2>1, <2>3 DEF SchedulerState
      <3>2. Contiguous(sched.x, sched.from, got)
        <4>1. sched.x \in Series /\ sched.from \in Int /\ today \in Int
          BY <1>2, DaysAssumption DEF FetchChart, TypeOK, SchedulerState
        <4>2. Trading[sched.x] \subseteq Int
          BY <4>1, TradingDays
        <4> QED
          BY <4>1, <4>2 DEF Contiguous
      <3>3. Resumes(sched.x, sched.from) /\ stored' = stored
        BY <1>2 DEF FetchChart, FetchInv
      <3> HIDE DEF got
      <3> QED
        BY <3>1, <3>2, <3>3 DEF FetchInv, Resumes, Contiguous
    <2> QED
      BY <2>2, <2>3
  <1>3. CASE sched' = sched /\ stored' = stored
    BY <1>3 DEF FetchInv, Resumes, Contiguous
  <1>4. CASE sched'.pc \notin {"fetching", "storing"}
    BY <1>4 DEF FetchInv
  <1>5. ASSUME ListUsed \/ ListDisplays \/ ListFails \/ Store \/ RefreshFails
               \/ ListStocks \/ ListStocksFails \/ EndRound \/ Tick
               \/ Triggered \/ Restart
        PROVE  sched'.pc \notin {"fetching", "storing"}
    BY <1>5, RoundTyped, NextSeriesTyped
       DEF ListUsed, ListDisplays, ListFails, Store, RefreshFails, ListStocks,
           ListStocksFails, EndRound, Tick, Triggered, Restart, NextSeries,
           Scheduler
  <1>6. ASSUME \/ \E w \in Writers : WriterStep(w)
               \/ WriteTransactionForm \/ NextDay \/ UNCHANGED vars
        PROVE  sched' = sched /\ stored' = stored
    BY <1>6 DEF WriterStep, BeginCurrencyAccount, BeginStockAccount,
           InsertStock, CommitAccount, UpdateDisplaySettings, TriggerFetch,
           Fail, WriteTransactionForm, NextDay, vars
  <1> QED
    BY <1>1, <1>2, <1>3, <1>4, <1>5, <1>6
       DEF Next, SchedulerNext, RunUpdate, WriterStep

------------------------------------------------------------------------------
LEMMA RatesInit == Init => RatesInv
  <1> SUFFICES ASSUME Init PROVE RatesInv
    OBVIOUS
  <1>1. TypeOK
    <2>1. stored \in [Series -> SUBSET Days]
      BY DEF Init
    <2>2. /\ writer \in [Writers -> Writer]
          /\ \A w \in Writers : writer[w].pc = "idle"
      BY IdleWriterTyped DEF Init
    <2>3. sched \in SchedulerState /\ sched.pc = "listing"
      BY RoundTyped DEF Init
    <2>4. today \in 0 .. MaxDay
      BY DaysAssumption DEF Init
    <2>5. /\ trigger \in BOOLEAN
          /\ codes \subseteq Codes /\ stocks \subseteq Stocks
          /\ display \in [Users -> Codes] /\ unlisted \subseteq Announcement
      BY DEF Init
    <2> QED
      BY <2>1, <2>2, <2>3, <2>4, <2>5 DEF TypeOK
  <1>2. NoSignalLost /\ NoGaps
    BY DEF Init, NoSignalLost, NoGaps
  <1>3. FetchInv
    BY RoundTyped DEF Init, FetchInv
  <1> QED
    BY <1>1, <1>2, <1>3 DEF RatesInv

\* Every reachable state of the refreshing of rates satisfies RatesInv.
THEOREM RatesInvariant == Spec => []RatesInv
  <1>1. RatesInv /\ [Next]_vars => RatesInv'
    BY TypeNext, SignalsNext, GapsNext, FetchNext DEF RatesInv
  <1> QED
    BY <1>1, RatesInit, PTL DEF Spec

\* The tables, the round under way and the requests stay well typed.
THEOREM RatesTypes == Spec => []TypeOK
  BY RatesInvariant, PTL DEF RatesInv

\* TriggerFetch never loses a wake-up that no round has answered, although it
\* drops the signal when the slot of the channel is taken.
THEOREM SignalsNeverLost == Spec => []NoSignalLost
  BY RatesInvariant, PTL DEF RatesInv

\* Failed fetches, missed days and restarts leave no hole in the history of a
\* pair or a stock.
THEOREM HistoriesHaveNoGaps == Spec => []NoGaps
  BY RatesInvariant, PTL DEF RatesInv
=============================================================================
