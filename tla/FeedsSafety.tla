----------------------------- MODULE FeedsSafety -----------------------------
(***************************************************************************)
(* What the fetching of open banking feeds must keep true.                  *)
(***************************************************************************)
EXTENDS Feeds

StoredRow == [id : Nat \ {0}, hash : Txs]

FetchRow ==
  [id : Nat, acct : Accounts, ok : BOOLEAN, scheduled : BOOLEAN,
   started : Nat, got : SUBSET Txs, links : SUBSET (Nat \ {0})]

Process ==
  [pc : {"idle", "due", "calling", "answered", "inserted", "stored"},
   acct : Accounts \cup {NoAccount}, started : Nat, ok : BOOLEAN,
   got : SUBSET Txs, id : Nat, rows : SUBSET StoredRow]

\* The type invariant.
TypeOK ==
  /\ now \in Nat
  /\ mapped \subseteq Accounts /\ token \subseteq Accounts
  /\ feed \in [Accounts -> SUBSET Txs]
  /\ fetches \subseteq FetchRow
  /\ stored \subseteq StoredRow
  /\ nextFetch \in Nat \ {0} /\ nextTx \in Nat \ {0}
  /\ proc \in [Procs -> Process]
  /\ \A p \in Procs : proc[p].pc # "idle" => proc[p].acct \in Accounts
  /\ round \subseteq Accounts /\ asked \subseteq Accounts

------------------------------------------------------------------------------
\* "INSERT IGNORE deduplicates on (userId, rawHash)" (recordTransactions):
\* however many fetches return a transaction, and however they overlap, it is
\* stored once, under one id.
StoredOnce ==
  \A r, s \in stored : r.hash = s.hash \/ r.id = s.id => r = s

\* A committed fetch is linked to a stored row for each transaction the
\* provider returned, and to nothing else: rows an overlapping or earlier
\* fetch stored are linked too (recordTransactions reads the ids back after
\* the INSERT IGNORE).  StoredTransactions shows exactly these rows.
LinksComplete ==
  \A f \in fetches :
    {r.hash : r \in {s \in stored : s.id \in f.links}} = f.got

\* The scheduler never fetches an account twice within the refresh interval,
\* not even one whose fetches fail (dueForFetch: "of any outcome"), and not
\* across a restart.
ScheduledSpaced ==
  \A f, g \in fetches :
    f.scheduled /\ g.scheduled /\ f.acct = g.acct /\ f # g =>
      \/ f.started - g.started >= Interval
      \/ g.started - f.started >= Interval

------------------------------------------------------------------------------
\* Fairness: the goroutine keeps running.  Every HTTP call has a timeout and
\* every statement returns, so each of its steps is taken in the end, and the
\* ticker starts a new round after the last one ended.
LiveSpec == Spec /\ WF_vars(SchedulerNext)

Connected(a) == a \in mapped \cap token

\* The scheduler serves every account: one that stays connected is fetched,
\* whatever happens to the fetches of the others (runScheduled goes on to the
\* next account after each error).
EveryAccountServed ==
  \A a \in Accounts : Connected(a) ~> (a \in asked \/ ~Connected(a))
==============================================================================
