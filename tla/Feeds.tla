-------------------------------- MODULE Feeds --------------------------------
(***************************************************************************)
(* Fetching open banking feeds (backend/openbanking: fetch.go, scheduler.go *)
(* and the fetch half of service.go).  The scheduler goroutine walks every  *)
(* mapped account, round after round, and fetches the ones that are due;    *)
(* FetchNow requests fetch one account at once.  A fetch asks the provider  *)
(* for the account's transactions and then records, in one database         *)
(* transaction, a fetch row, the transactions not stored yet and the links  *)
(* between the two.  Nothing keeps two fetches of one account apart.        *)
(*                                                                          *)
(* Ids are taken when a row is inserted, rows are seen by others when their *)
(* transaction commits, and the unique index on (userId, rawHash) makes an  *)
(* INSERT wait for the transaction that has inserted the same hash.  One    *)
(* user is modelled: fetches of different users share only the scheduler.   *)
(***************************************************************************)
EXTENDS Integers, FiniteSets

CONSTANTS
  Accounts,     \* internal accounts
  Txs,          \* raw transaction JSON, by hash
  Owner,        \* the account whose transaction the JSON describes
  Clients,      \* FetchNow requests in flight at once
  Scheduler,    \* the scheduler goroutine
  Interval,     \* refreshInterval, in clock ticks
  Faults,       \* what may go wrong: "cut", "unread", "restart"
  LongErrors,   \* whether a provider's error text can exceed VARCHAR(1024)
  MaxTime,      \* bound: ticks of the clock
  MaxFetches    \* bound: fetch rows

ASSUME TxsAssumption == IsFiniteSet(Txs)

ASSUME OwnerAssumption == Owner \in [Txs -> Accounts]

ASSUME IntervalAssumption == Interval \in Nat \ {0}

ASSUME BoundsAssumption == MaxTime \in Nat /\ MaxFetches \in Nat

ASSUME SchedulerAssumption == Scheduler \notin Clients

Procs == Clients \cup {Scheduler}

VARIABLES
  now,        \* the clock
  mapped,     \* accounts with an ExternalAccountMapping row
  token,      \* accounts whose bank has a token row
  feed,       \* external: what the bank reports for each account
  fetches,    \* committed OpenBankingFetch rows with their links
  stored,     \* committed OpenBankingTransaction rows
  nextFetch,  \* AUTO_INCREMENT of the two tables
  nextTx,
  proc,       \* each process's fetch in progress
  round,      \* accounts the scheduler's round has still to visit
  asked       \* history: accounts a provider was asked about

vars == <<now, mapped, token, feed, fetches, stored, nextFetch, nextTx, proc,
          round, asked>>

NoAccount == "none"

Idle == [pc |-> "idle", acct |-> NoAccount, started |-> 0, ok |-> FALSE,
         got |-> {}, id |-> 0, rows |-> {}]

Init ==
  /\ now = 0
  /\ mapped = {} /\ token = {}
  /\ feed = [a \in Accounts |-> {}]
  /\ fetches = {} /\ stored = {}
  /\ nextFetch = 1 /\ nextTx = 1
  /\ proc = [p \in Procs |-> Idle]
  /\ round = {}
  /\ asked = {}

tables == <<fetches, stored, nextFetch, nextTx>>
world == <<now, mapped, token, feed>>

------------------------------------------------------------------------------
\* The clock, the bank, and the connection pages.

Tick ==
  /\ now < MaxTime
  /\ now' = now + 1
  /\ UNCHANGED <<mapped, token, feed, tables, proc, round, asked>>

\* Transactions appear at the bank, and leave it (a pending one settles under
\* other JSON).
BankChanges(a) ==
  /\ \E t \in {u \in Txs : Owner[u] = a} :
       \/ feed' = [feed EXCEPT ![a] = @ \cup {t}]
       \/ feed' = [feed EXCEPT ![a] = @ \ {t}]
  /\ UNCHANGED <<now, mapped, token, tables, proc, round, asked>>

Connect(a) ==
  /\ mapped' = mapped \cup {a}
  /\ token' = token \cup {a}
  /\ UNCHANGED <<now, feed, tables, proc, round, asked>>

\* Disconnect deletes the token first and the mapping in a later statement.
DropToken(a) ==
  /\ token' = token \ {a}
  /\ UNCHANGED <<now, mapped, feed, tables, proc, round, asked>>

DropMapping(a) ==
  /\ mapped' = mapped \ {a}
  /\ UNCHANGED <<now, token, feed, tables, proc, round, asked>>

------------------------------------------------------------------------------
\* fetchAccount.

FetchesOf(a) == {f \in fetches : f.acct = a}

\* time.Now() and the call to the provider.
Call(p, a) ==
  /\ proc' = [proc EXCEPT ![p] =
                [Idle EXCEPT !.pc = "calling", !.acct = a, !.started = now]]
  /\ asked' = asked \cup {a}
  /\ UNCHANGED <<world, tables>>

\* The provider answers with the account's transactions as they are now, or
\* with an error (its own, a timeout, or a token deleted meanwhile).
Answer(p) ==
  /\ proc[p].pc = "calling"
  /\ \E ok \in BOOLEAN :
       proc' = [proc EXCEPT ![p].pc = "answered", ![p].ok = ok,
                            ![p].got = IF ok THEN feed[proc[p].acct] ELSE {}]
  /\ UNCHANGED <<world, tables, round, asked>>

\* recordFetch: INSERT INTO OpenBankingFetch.
InsertFetch(p) ==
  /\ proc[p].pc = "answered"
  /\ nextFetch <= MaxFetches
  /\ proc' = [proc EXCEPT ![p].pc = "inserted", ![p].id = nextFetch]
  /\ nextFetch' = nextFetch + 1
  /\ UNCHANGED <<world, fetches, stored, nextTx, round, asked>>

\* The text of the error does not fit its column: the INSERT fails, and with
\* it recordFetch.
InsertFetchTooLong(p) ==
  /\ LongErrors
  /\ proc[p].pc = "answered" /\ ~proc[p].ok
  /\ proc' = [proc EXCEPT ![p] = Idle]
  /\ UNCHANGED <<world, tables, round, asked>>

\* Mutant: no unique index to wait for.
HashesHeldByNobody(p) == {}

\* Hashes other transactions have inserted and not committed.
HashesHeld(p) ==
  UNION {{r.hash : r \in proc[q].rows} : q \in Procs \ {p}}

\* INSERT IGNORE: a row for every hash that has none, under the next ids.
Fresh(p) == proc[p].got \ {r.hash : r \in stored}

NewRows(p) ==
  {rows \in SUBSET [id : nextTx .. nextTx + Cardinality(Fresh(p)) - 1,
                    hash : Fresh(p)] :
     /\ {r.hash : r \in rows} = Fresh(p)
     /\ \A q, r \in rows : q.id = r.id \/ q.hash = r.hash => q = r}

InsertTransactions(p) ==
  /\ proc[p].pc = "inserted"
  /\ proc[p].got \cap HashesHeld(p) = {}
  /\ \E rows \in NewRows(p) :
       proc' = [proc EXCEPT ![p].pc = "stored", ![p].rows = rows]
  /\ nextTx' = nextTx + Cardinality(Fresh(p))
  /\ UNCHANGED <<world, fetches, stored, nextFetch, round, asked>>

\* Mutant: only the rows this fetch inserted are linked to it.
LinkedNew(p) == {r.id : r \in proc[p].rows}

\* fetchTransactionIDsByHash: the first plain SELECT of the transaction, so
\* it sees every row committed before it.
Linked(p) ==
  {r.id : r \in {s \in stored \cup proc[p].rows : s.hash \in proc[p].got}}

Commit(p) ==
  /\ proc[p].pc = "stored"
  /\ fetches' = fetches \cup
       {[id |-> proc[p].id, acct |-> proc[p].acct, ok |-> proc[p].ok,
         scheduled |-> p = Scheduler, started |-> proc[p].started,
         got |-> proc[p].got, links |-> Linked(p)]}
  /\ stored' = stored \cup proc[p].rows
  /\ proc' = [proc EXCEPT ![p] = Idle]
  /\ UNCHANGED <<world, nextFetch, nextTx, round, asked>>

\* A cancelled request, a database error or a deadlock: nothing is recorded,
\* and the ids taken do not come back.
Fail(p) ==
  /\ "cut" \in Faults
  /\ proc[p].pc \notin {"idle", "due"}
  /\ proc' = [proc EXCEPT ![p] = Idle]
  /\ UNCHANGED <<world, tables, round, asked>>

FetchAccount(p) ==
  \/ Answer(p)
  \/ InsertFetch(p)
  \/ InsertFetchTooLong(p)
  \/ InsertTransactions(p)
  \/ Commit(p)
  \/ Fail(p)

------------------------------------------------------------------------------
\* The two callers of fetchAccount.

FetchNow(p) ==
  /\ proc[p].pc = "idle"
  /\ \E a \in mapped \cap token : Call(p, a)
  /\ UNCHANGED round

\* Mutant: failed fetches do not count.
DueForFetchSuccessful(a) ==
  {f \in FetchesOf(a) : f.ok /\ now - f.started < Interval} = {}

\* dueForFetch: the newest fetch of any outcome is old enough.
DueForFetch(a) == {f \in FetchesOf(a) : now - f.started < Interval} = {}

\* runScheduled lists the accounts; SQL leaves their order open.
RunScheduled ==
  /\ round = {} /\ proc[Scheduler].pc = "idle"
  /\ mapped # {}
  /\ round' = mapped
  /\ UNCHANGED <<world, tables, proc, asked>>

\* dueForFetch, then providerForBank; the fetch starts in a later step.
CheckDue(a) ==
  /\ a \in round /\ proc[Scheduler].pc = "idle"
  /\ DueForFetch(a) /\ a \in token
  /\ round' = round \ {a}
  /\ proc' = [proc EXCEPT ![Scheduler].pc = "due", ![Scheduler].acct = a]
  /\ UNCHANGED <<world, tables, asked>>

\* Mutant: an account that cannot be fetched ends the round.
SkipEndsRound(a) ==
  /\ a \in round /\ proc[Scheduler].pc = "idle"
  /\ ~(DueForFetch(a) /\ a \in token) \/ "unread" \in Faults
  /\ round' = {}
  /\ UNCHANGED <<world, tables, proc, asked>>

\* Not due, no provider for its bank, or a read that failed: on to the next
\* account.
Skip(a) ==
  /\ a \in round /\ proc[Scheduler].pc = "idle"
  /\ ~(DueForFetch(a) /\ a \in token) \/ "unread" \in Faults
  /\ round' = round \ {a}
  /\ UNCHANGED <<world, tables, proc, asked>>

StartScheduled ==
  /\ proc[Scheduler].pc = "due"
  /\ Call(Scheduler, proc[Scheduler].acct)
  /\ UNCHANGED round

\* The server stops; the next one begins with a round of its own.
Restart ==
  /\ "restart" \in Faults
  /\ proc' = [p \in Procs |-> Idle]
  /\ round' = {}
  /\ UNCHANGED <<world, tables, asked>>

SchedulerNext ==
  \/ RunScheduled
  \/ StartScheduled
  \/ FetchAccount(Scheduler)
  \/ \E a \in Accounts : CheckDue(a) \/ Skip(a)

Next ==
  \/ SchedulerNext
  \/ \E p \in Clients : FetchNow(p) \/ FetchAccount(p)
  \/ \E a \in Accounts :
       BankChanges(a) \/ Connect(a) \/ DropToken(a) \/ DropMapping(a)
  \/ Tick
  \/ Restart

Spec == Init /\ [][Next]_vars
==============================================================================
