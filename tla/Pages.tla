-------------------------------- MODULE Pages --------------------------------
(***************************************************************************)
(* A tab of the browser: the page it is on, the data the server sent and   *)
(* the state the page keeps while it is open.  Opening a page fetches the  *)
(* data anew and starts its state over; data that arrives while a page is  *)
(* open (the user saved a transaction) is drawn with the state it has.     *)
(* What was computed when the data came, the market model and the current  *)
(* balances, stays as it was at `loaded`; what is computed when a page is  *)
(* drawn sees the clock.                                                   *)
(***************************************************************************)
EXTENDS TransactionsPage, StatsPages, Balances

CONSTANTS
    AnswersAt,      \* [moment -> the snapshots the server may answer with],
                    \* for every moment the clock reaches
    FirstMoment,    \* the clock when the tab is opened
    Ticks,          \* what the clock advances by
    Ranges          \* of the net worth line

ASSUME AnswersAssumption ==
    /\ DOMAIN AnswersAt \subseteq Int /\ FirstMoment \in DOMAIN AnswersAt
    /\ \A moment \in DOMAIN AnswersAt : AnswersAt[moment] \subseteq DOMAIN Snapshots

(* All of the history, or a time before now; a year to begin with.         *)
ASSUME RangesAssumption ==
    \A r \in (Ranges \cup {"1Y"}) \ {"ALL"} :
        r \in DOMAIN PeriodLength /\ PeriodLength[r] \in Nat

VARIABLES now, page

(* The overview page's own state: the range of the net worth line, and     *)
(* whether amounts are hidden, which a cookie keeps from one visit to the  *)
(* next.                                                                   *)
VARIABLES range, hideBalances, cookie

overviewVars == <<range, hideBalances, cookie>>

OverviewInit ==
    /\ range = "1Y"
    /\ cookie = FALSE
    /\ hideBalances = FALSE

OverviewOpened ==
    /\ range' = "1Y"
    /\ hideBalances' = cookie
    /\ UNCHANGED cookie

(* The tabs are there when the line has two points.                        *)
ChooseRange ==
    /\ Len(NetWorthHero(range, now)) >= 2
    /\ range' \in Ranges
    /\ UNCHANGED <<hideBalances, cookie>>

ToggleHideBalances ==
    /\ hideBalances' = ~hideBalances
    /\ cookie' = ~hideBalances
    /\ UNCHANGED range

OverviewNext == ChooseRange \/ ToggleHideBalances

vars == <<snapshot, loaded, now, page, searchVars, statsVars, overviewVars>>

Page(kind, of) == [kind |-> kind, of |-> of]

AllPages ==
    {Page(kind, None) : kind \in StatsPages \cup {"overview", "transactions", "trips"}}
        \cup {Page("bank", b) : b \in DOMAIN Core.banks}
        \cup {Page("account", a) : a \in DOMAIN Core.accounts}
        \cup {Page("trip", trip) : trip \in DOMAIN Core.trips}

Init ==
    /\ now = FirstMoment
    /\ loaded = FirstMoment
    /\ snapshot \in AnswersAt[FirstMoment]
    /\ page = Page("overview", None)
    /\ SearchInit
    /\ StatsInit("overview", now)
    /\ OverviewInit

FetchAppData ==
    /\ loaded' = now
    /\ snapshot' \in AnswersAt[now]
    /\ UNCHANGED now

Navigate ==
    /\ page' \in AllPages \ {page}
    /\ FetchAppData
    /\ ForgetSearch
    /\ StatsOpened(page'.kind, now)
    /\ OverviewOpened

Refresh ==
    /\ FetchAppData
    /\ SearchRefreshed
    /\ UNCHANGED <<page, statsVars, overviewVars>>

Tick == \E tick \in Ticks :
    /\ now + tick \in DOMAIN AnswersAt
    /\ now' = now + tick
    /\ UNCHANGED <<snapshot, loaded, page, searchVars, statsVars, overviewVars>>

Data == <<snapshot, loaded, now, page>>

OnTransactions ==
    /\ page.kind = "transactions"
    /\ SearchNext
    /\ UNCHANGED <<Data, statsVars, overviewVars>>

(* The page of an account has the search box and not the form.             *)
OnAccount ==
    /\ page.kind = "account"
    /\ TypeQuery
    /\ UNCHANGED <<Data, statsVars, overviewVars>>

(* Without a transaction there is no first month, and nothing to sort.     *)
OnStats ==
    /\ page.kind \in StatsPages \cup {"trip"}
    /\ transactions # {}
    /\ StatsNext(page.kind, now)
    /\ UNCHANGED <<Data, searchVars, overviewVars>>

OnOverview ==
    /\ page.kind = "overview"
    /\ OverviewNext
    /\ UNCHANGED <<Data, searchVars, statsVars>>

Next == Navigate \/ Refresh \/ Tick \/ OnTransactions \/ OnAccount \/ OnStats \/ OnOverview

Spec == Init /\ [][Next]_vars
=============================================================================
