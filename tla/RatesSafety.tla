----------------------------- MODULE RatesSafety -----------------------------
(***************************************************************************)
(* What the refreshing of rates and quotes must keep true.                  *)
(***************************************************************************)
EXTENDS Rates

Unit == Codes \cup Stocks \cup {NoUnit}

SchedulerState ==
  [pc : {"listing", "displays", "next", "fetching", "storing", "waiting"},
   phase : {"pairs", "stocks"}, used : SUBSET Codes, todo : SUBSET Series,
   x : Series \cup {NoUnit}, from : Int, got : SUBSET Days]

Writer ==
  [pc : {"idle", "looking_up", "writing", "triggering"}, unit : Unit,
   isNew : BOOLEAN]

Announcement == [table : {"used", "display"}, code : Unit]

\* The type invariant.
TypeOK ==
  /\ today \in 0 .. MaxDay
  /\ codes \subseteq Codes
  /\ stocks \subseteq Stocks
  /\ display \in [Users -> Codes]
  /\ stored \in [Series -> SUBSET Days]
  /\ trigger \in BOOLEAN
  /\ sched \in SchedulerState
  /\ sched.pc \in {"fetching", "storing"} => sched.x \in Series
  /\ writer \in [Writers -> Writer]
  /\ \A w \in Writers : writer[w].pc = "looking_up" => writer[w].unit \in Stocks
  /\ unlisted \subseteq Announcement

\* No wake-up is lost: a currency that a request introduced, or a display
\* currency it set, is looked for by a round that begins after its commit.
\* As long as none has looked, one is on its way: the signal is in the
\* channel, or about to be put there, or a round stands before the SELECT.
\* (TriggerFetch drops a signal when the slot is full, at any point of a
\* round that may already have listed the currencies.)
NoSignalLost ==
  \A n \in unlisted :
    \/ trigger
    \/ \E w \in Writers : writer[w].pc = "triggering"
    \/ sched.pc = "listing"
    \/ n.table = "display" /\ sched.pc = "displays"

\* The history of a series has no holes: between the first and the last day
\* stored, every day with a price is stored, whatever fetches failed
\* and however long the server was down (refreshPair: "from the latest known
\* timestamp through today").
NoGaps ==
  \A x \in Series : \A d \in Trading[x] :
    (\E e, f \in stored[x] : e <= d /\ d <= f) => d \in stored[x]

------------------------------------------------------------------------------
\* Fairness: the goroutine keeps running, its ticker ticks, every HTTP call
\* has a timeout and every statement returns.  Days pass.  The database and
\* the server stop failing for good some day (Faulty), Yahoo need not.
LiveSpec == Spec /\ WF_vars(SchedulerNext) /\ WF_vars(NextDay)

Active(x) ==
  \/ x \in BuildPairs(UsedCurrencyCodes, DisplayCurrencies)
  \/ x \in stocks

\* Every series in use is fetched: a pair or a stock that stays in use is
\* tried, whether or not a signal announced it, and whatever fails for the
\* series before it in the round.
EverySeriesTried ==
  \A x \in Series :
    Active(x) ~> \/ ~Active(x)
                 \/ sched.pc = "fetching" /\ sched.x = x
==============================================================================
