----------------------------- MODULE FeedsProofs -----------------------------
(***************************************************************************)
(* Proofs about Feeds: whatever fetches overlap, fail or are cut short,     *)
(* every transaction is stored once and every committed fetch is linked to  *)
(* exactly the transactions it returned, and scheduled fetches of one       *)
(* account keep their distance.                                             *)
(***************************************************************************)
EXTENDS FeedsSafety, FiniteSetTheorems, TLAPS

\* Rows of one set, or of two, never share an id or a hash.
Once(R) == \A r, s \in R : r.id = s.id \/ r.hash = s.hash => r = s

Apart(R, S) == \A r \in R, s \in S : r.id # s.id /\ r.hash # s.hash

\* Rows a process has inserted exist only until it commits, and cover, with
\* the committed rows, what the provider returned.
ProcRows(p) ==
  /\ proc[p].pc # "stored" => proc[p].rows = {}
  /\ proc[p].pc = "stored" =>
       \A h \in proc[p].got : \E r \in stored \cup proc[p].rows : r.hash = h
  /\ Once(proc[p].rows)
  /\ Apart(proc[p].rows, stored)
  /\ \A r \in proc[p].rows : r.id < nextTx

RowsInv ==
  /\ Once(stored)
  /\ \A r \in stored : r.id < nextTx
  /\ \A p \in Procs : ProcRows(p)
  /\ \A p, q \in Procs : p # q => Apart(proc[p].rows, proc[q].rows)

\* A fetch is linked to committed rows, one for each transaction it returned.
LinkedTo(f, R) ==
  /\ \A i \in f.links : \E r \in R : r.id = i
  /\ \A h \in f.got : \E r \in R : r.id \in f.links /\ r.hash = h
  /\ \A r \in R : r.id \in f.links => r.hash \in f.got

LinksInv == \A f \in fetches : LinkedTo(f, stored)

\* When the scheduler has found an account due, or is fetching it, the
\* scheduled fetches recorded for it are old enough.
Since == IF proc[Scheduler].pc = "due" THEN now ELSE proc[Scheduler].started

SpacedInv ==
  /\ ScheduledSpaced
  /\ proc[Scheduler].pc # "idle" =>
       \A f \in fetches :
         f.scheduled /\ f.acct = proc[Scheduler].acct =>
           Since - f.started >= Interval

FeedsInv == TypeOK /\ RowsInv /\ LinksInv /\ SpacedInv

------------------------------------------------------------------------------
\* Type correctness.

LEMMA IdleIsTyped == Idle \in Process
  BY DEF Idle, Process, StoredRow, NoAccount

LEMMA TypeInit == Init => TypeOK
  <1> SUFFICES ASSUME Init PROVE TypeOK
    OBVIOUS
  <1>1. proc \in [Procs -> Process] /\ \A p \in Procs : proc[p].pc = "idle"
    BY IdleIsTyped DEF Init, Idle
  <1>2. feed \in [Accounts -> SUBSET Txs]
    BY DEF Init
  <1> QED
    BY <1>1, <1>2 DEF Init, TypeOK

\* A step that gives one process a new record keeps all of them typed.
LEMMA ProcTyped ==
  ASSUME TypeOK, NEW p \in Procs, NEW r \in Process,
         r.pc # "idle" => r.acct \in Accounts,
         proc' = [proc EXCEPT ![p] = r]
  PROVE  /\ proc' \in [Procs -> Process]
         /\ \A q \in Procs : proc'[q].pc # "idle" => proc'[q].acct \in Accounts
  <1>1. proc \in [Procs -> Process]
    BY DEF TypeOK
  <1>2. \A q \in Procs : proc'[q] = IF q = p THEN r ELSE proc[q]
    BY <1>1
  <1>3. \A q \in Procs : proc[q].pc # "idle" => proc[q].acct \in Accounts
    BY DEF TypeOK
  <1> QED
    BY <1>1, <1>2, <1>3

LEMMA FreshFinite ==
  ASSUME TypeOK, NEW p \in Procs
  PROVE  Cardinality(Fresh(p)) \in Nat
  <1>1. Fresh(p) \subseteq Txs
    BY DEF Fresh, TypeOK, Process
  <1> QED
    BY <1>1, TxsAssumption, FS_Subset, FS_CardinalityType

LEMMA NewRowsTyped ==
  ASSUME TypeOK, NEW p \in Procs, NEW rows \in NewRows(p)
  PROVE  rows \subseteq StoredRow
  <1>1. Cardinality(Fresh(p)) \in Nat
    BY FreshFinite
  <1>2. \A i \in nextTx .. nextTx + Cardinality(Fresh(p)) - 1 : i \in Nat \ {0}
    BY <1>1 DEF TypeOK
  <1>3. Fresh(p) \subseteq Txs
    BY DEF Fresh, TypeOK, Process
  <1> QED
    BY <1>2, <1>3 DEF NewRows, StoredRow

LEMMA CommitTyped ==
  ASSUME TypeOK, NEW p \in Procs, Commit(p)
  PROVE  fetches' \subseteq FetchRow /\ stored' \subseteq StoredRow
  <1>1. proc[p] \in Process
    BY DEF TypeOK
  <1>2. stored' \subseteq StoredRow
    BY <1>1 DEF Commit, TypeOK, Process
  <1>3. Linked(p) \subseteq Nat \ {0}
    BY <1>1 DEF Linked, TypeOK, Process, StoredRow
  <1>4. proc[p].acct \in Accounts
    BY <1>1 DEF Commit, TypeOK
  <1>5. proc[p].id \in Nat
    BY <1>1 DEF Process
  <1> DEFINE b == (p = Scheduler)
  <1>6. b \in BOOLEAN
    OBVIOUS
  <1>7. [id |-> proc[p].id, acct |-> proc[p].acct, ok |-> proc[p].ok,
         scheduled |-> b, started |-> proc[p].started,
         got |-> proc[p].got, links |-> Linked(p)] \in FetchRow
    <2> HIDE DEF b
    <2> QED
      BY <1>1, <1>3, <1>4, <1>5, <1>6 DEF FetchRow, Process
  <1> QED
    BY <1>2, <1>7 DEF Commit, TypeOK

\* Types of the processes.
ProcsTyped ==
  /\ proc \in [Procs -> Process]
  /\ \A p \in Procs : proc[p].pc # "idle" => proc[p].acct \in Accounts

LEMMA FetchAccountTyped ==
  ASSUME TypeOK, NEW p \in Procs, FetchAccount(p)
  PROVE  TypeOK'
  <1> proc[p] \in Process /\ (proc[p].pc # "idle" => proc[p].acct \in Accounts)
    BY DEF TypeOK
  <1>1. CASE Answer(p)
    <2>1. PICK ok \in BOOLEAN :
            proc' = [proc EXCEPT ![p].pc = "answered", ![p].ok = ok,
                       ![p].got = IF ok THEN feed[proc[p].acct] ELSE {}]
      BY <1>1 DEF Answer
    <2> DEFINE r == [proc[p] EXCEPT !.pc = "answered", !.ok = ok,
                       !.got = IF ok THEN feed[proc[p].acct] ELSE {}]
    <2>2. proc[p].acct \in Accounts
      BY <1>1 DEF Answer
    <2>3. r \in Process /\ r.acct \in Accounts
      BY <2>2 DEF Process, TypeOK
    <2>4. proc' = [proc EXCEPT ![p] = r]
      BY <2>1 DEF TypeOK
    <2>5. ProcsTyped'
      BY <2>3, <2>4, ProcTyped DEF ProcsTyped
    <2> QED
      BY <1>1, <2>5 DEF Answer, TypeOK, ProcsTyped, tables, world
  <1>2. CASE InsertFetch(p)
    <2> DEFINE r == [proc[p] EXCEPT !.pc = "inserted", !.id = nextFetch]
    <2>1. r \in Process /\ r.acct \in Accounts
      BY <1>2 DEF Process, TypeOK, InsertFetch
    <2>2. proc' = [proc EXCEPT ![p] = r]
      BY <1>2 DEF InsertFetch, TypeOK
    <2>3. ProcsTyped'
      BY <2>1, <2>2, ProcTyped DEF ProcsTyped
    <2> QED
      BY <1>2, <2>3 DEF InsertFetch, TypeOK, ProcsTyped, world
  <1>3. CASE InsertFetchTooLong(p) \/ Fail(p)
    <2>1. ProcsTyped'
      BY <1>3, IdleIsTyped, ProcTyped
         DEF InsertFetchTooLong, Fail, ProcsTyped, Idle
    <2> QED
      BY <1>3, <2>1
         DEF InsertFetchTooLong, Fail, TypeOK, ProcsTyped, tables, world
  <1>4. CASE InsertTransactions(p)
    <2>1. nextTx' \in Nat \ {0}
      BY <1>4, FreshFinite DEF InsertTransactions, TypeOK
    <2>2. PICK rows \in NewRows(p) :
            proc' = [proc EXCEPT ![p].pc = "stored", ![p].rows = rows]
      BY <1>4 DEF InsertTransactions
    <2> DEFINE r == [proc[p] EXCEPT !.pc = "stored", !.rows = rows]
    <2>3. r \in Process /\ r.acct \in Accounts
      BY <1>4, NewRowsTyped DEF Process, InsertTransactions
    <2>4. proc' = [proc EXCEPT ![p] = r]
      BY <2>2 DEF TypeOK
    <2>5. ProcsTyped'
      BY <2>3, <2>4, ProcTyped DEF ProcsTyped
    <2> QED
      BY <1>4, <2>1, <2>5
         DEF InsertTransactions, TypeOK, ProcsTyped, world
  <1>5. CASE Commit(p)
    <2>1. ProcsTyped'
      BY <1>5, IdleIsTyped, ProcTyped DEF Commit, ProcsTyped, Idle
    <2> QED
      BY <1>5, <2>1, CommitTyped DEF Commit, TypeOK, ProcsTyped, world
  <1> QED
    BY <1>1, <1>2, <1>3, <1>4, <1>5 DEF FetchAccount

LEMMA CallTyped ==
  ASSUME TypeOK, NEW p \in Procs, NEW a \in Accounts, Call(p, a),
         round' \subseteq Accounts
  PROVE  TypeOK'
  <1> DEFINE r == [Idle EXCEPT !.pc = "calling", !.acct = a, !.started = now]
  <1>1. r \in Process /\ r.acct = a
    BY IdleIsTyped DEF Idle, Process, TypeOK
  <1>2. ProcsTyped'
    BY <1>1, ProcTyped DEF Call, ProcsTyped
  <1> QED
    BY <1>2 DEF Call, TypeOK, ProcsTyped, tables, world

LEMMA TypeNext == TypeOK /\ [Next]_vars => TypeOK'
  <1> SUFFICES ASSUME TypeOK, [Next]_vars PROVE TypeOK'
    OBVIOUS
  <1> USE IdleIsTyped
  <1> Scheduler \in Procs
    BY DEF Procs
  <1>1. CASE UNCHANGED vars
    BY <1>1 DEF TypeOK, vars
  <1>2. CASE Tick \/ RunScheduled
    BY <1>2 DEF TypeOK, Tick, RunScheduled, tables, world
  <1>9. CASE Restart
    <2>1. ProcsTyped'
      BY <1>9 DEF Restart, ProcsTyped, Idle
    <2> QED
      BY <1>9, <2>1 DEF Restart, TypeOK, ProcsTyped, tables, world
  <1>3. CASE StartScheduled
    BY <1>3, CallTyped DEF StartScheduled, TypeOK
  <1>4. ASSUME NEW a \in Accounts, CheckDue(a)
        PROVE  TypeOK'
    <2> DEFINE r == [proc[Scheduler] EXCEPT !.pc = "due", !.acct = a]
    <2>1. r \in Process /\ r.acct = a /\ proc' = [proc EXCEPT ![Scheduler] = r]
      BY <1>4 DEF CheckDue, Process, TypeOK
    <2>2. ProcsTyped'
      BY <2>1, ProcTyped DEF ProcsTyped
    <2> QED
      BY <1>4, <2>2 DEF CheckDue, TypeOK, ProcsTyped, tables, world
  <1>5. ASSUME NEW a \in Accounts, Skip(a)
        PROVE  TypeOK'
    BY <1>5 DEF TypeOK, Skip, tables, world
  <1>6. ASSUME NEW p \in Clients, FetchNow(p)
        PROVE  TypeOK'
    BY <1>6, CallTyped DEF FetchNow, TypeOK, Procs
  <1>7. ASSUME NEW a \in Accounts, BankChanges(a)
        PROVE  TypeOK'
    <2>1. feed' \in [Accounts -> SUBSET Txs]
      BY <1>7 DEF BankChanges, TypeOK
    <2> QED
      BY <1>7, <2>1 DEF TypeOK, BankChanges, tables
  <1>8. ASSUME NEW a \in Accounts,
               Connect(a) \/ DropToken(a) \/ DropMapping(a)
        PROVE  TypeOK'
    BY <1>8 DEF TypeOK, Connect, DropToken, DropMapping, tables
  <1> QED
    BY <1>1, <1>2, <1>3, <1>4, <1>5, <1>6, <1>7, <1>8, <1>9, FetchAccountTyped
       DEF Next, SchedulerNext, Procs

------------------------------------------------------------------------------
\* Stored rows.

\* A step that stores nothing and leaves every process alone or without rows.
LEMMA QuietRows ==
  ASSUME RowsInv, stored' = stored, nextTx' = nextTx,
         \A p \in Procs : \/ proc'[p] = proc[p]
                          \/ proc'[p].pc # "stored" /\ proc'[p].rows = {}
  PROVE  RowsInv'
  <1>1. \A p \in Procs : ProcRows(p)'
    <2> SUFFICES ASSUME NEW p \in Procs PROVE ProcRows(p)'
      OBVIOUS
    <2>1. ProcRows(p)
      BY DEF RowsInv
    <2>2. CASE proc'[p] = proc[p]
      BY <2>1, <2>2 DEF ProcRows, Once, Apart
    <2>3. CASE proc'[p].pc # "stored" /\ proc'[p].rows = {}
      BY <2>3 DEF ProcRows, Once, Apart
    <2> QED
      BY <2>2, <2>3
  <1>2. \A p, q \in Procs : p # q => Apart(proc[p].rows, proc[q].rows)'
    BY DEF RowsInv, Apart
  <1> QED
    BY <1>1, <1>2 DEF RowsInv, Once

LEMMA InsertTransactionsRows ==
  ASSUME TypeOK, RowsInv, NEW p \in Procs, InsertTransactions(p)
  PROVE  RowsInv'
  <1>1. PICK rows \in NewRows(p) :
          proc' = [proc EXCEPT ![p].pc = "stored", ![p].rows = rows]
    BY DEF InsertTransactions
  <1>2. /\ proc'[p].pc = "stored" /\ proc'[p].rows = rows
        /\ proc'[p].got = proc[p].got
        /\ \A q \in Procs \ {p} : proc'[q] = proc[q]
    BY <1>1 DEF TypeOK, Process
  <1>3. stored' = stored /\ nextTx' = nextTx + Cardinality(Fresh(p))
    BY DEF InsertTransactions
  <1>4. nextTx \in Nat /\ Cardinality(Fresh(p)) \in Nat
    BY FreshFinite DEF TypeOK
  <1>5. \A r \in rows : nextTx <= r.id /\ r.id < nextTx' /\ r.hash \in Fresh(p)
    BY <1>3, <1>4 DEF NewRows
  <1>6. Once(rows) /\ \A h \in Fresh(p) : \E r \in rows : r.hash = h
    BY DEF NewRows, Once
  <1>7. stored \subseteq StoredRow /\ \A q \in Procs : proc[q].rows \subseteq StoredRow
    BY DEF TypeOK, Process
  <1>8. Apart(rows, stored)
    BY <1>4, <1>5, <1>7 DEF Apart, Fresh, RowsInv, StoredRow
  <1>9. \A q \in Procs \ {p} :
          Apart(rows, proc[q].rows) /\ Apart(proc[q].rows, rows)
    <2> SUFFICES ASSUME NEW q \in Procs \ {p}, NEW r \in rows,
                        NEW s \in proc[q].rows
                 PROVE  r.id # s.id /\ r.hash # s.hash
      BY DEF Apart
    <2>1. s.hash \in HashesHeld(p)
      BY DEF HashesHeld
    <2>2. r.hash \in proc[p].got
      BY <1>5 DEF Fresh
    <2>3. s.id < nextTx /\ s.id \in Nat
      BY <1>7 DEF RowsInv, ProcRows, StoredRow
    <2> QED
      BY <1>4, <1>5, <2>1, <2>2, <2>3 DEF InsertTransactions
  <1>10. ProcRows(p)'
    <2>1. \A h \in proc[p].got : \E r \in stored \cup rows : r.hash = h
      BY <1>6 DEF Fresh
    <2> QED
      BY <1>2, <1>3, <1>5, <1>6, <1>8, <2>1 DEF ProcRows
  <1>11. \A q \in Procs \ {p} : ProcRows(q)'
    <2> SUFFICES ASSUME NEW q \in Procs \ {p} PROVE ProcRows(q)'
      OBVIOUS
    <2>1. ProcRows(q)
      BY DEF RowsInv
    <2>2. \A r \in proc[q].rows : r.id < nextTx'
      BY <1>3, <1>4, <1>7, <2>1 DEF ProcRows, StoredRow
    <2> QED
      BY <1>2, <1>3, <2>1, <2>2 DEF ProcRows
  <1>12. \A r \in stored' : r.id < nextTx'
    BY <1>3, <1>4, <1>7 DEF RowsInv, StoredRow
  <1>13. \A q, u \in Procs : q # u => Apart(proc'[q].rows, proc'[u].rows)
    BY <1>2, <1>9 DEF RowsInv
  <1>14. Once(stored')
    BY <1>3 DEF RowsInv
  <1> QED
    BY <1>10, <1>11, <1>12, <1>13, <1>14 DEF RowsInv

LEMMA CommitRows ==
  ASSUME TypeOK, RowsInv, NEW p \in Procs, Commit(p)
  PROVE  RowsInv'
  <1>1. /\ proc'[p] = Idle
        /\ \A q \in Procs \ {p} : proc'[q] = proc[q]
        /\ stored' = stored \cup proc[p].rows
        /\ nextTx' = nextTx
    BY DEF Commit, TypeOK
  <1>2. Once(stored')
    BY <1>1 DEF RowsInv, ProcRows, Once, Apart
  <1>3. \A r \in stored' : r.id < nextTx'
    BY <1>1 DEF RowsInv, ProcRows
  <1>4. ProcRows(p)'
    BY <1>1 DEF ProcRows, Idle, Once, Apart
  <1>5. \A q \in Procs \ {p} : ProcRows(q)'
    <2> SUFFICES ASSUME NEW q \in Procs \ {p} PROVE ProcRows(q)'
      OBVIOUS
    <2>1. ProcRows(q) /\ Apart(proc[q].rows, proc[p].rows)
      BY DEF RowsInv
    <2>2. Apart(proc[q].rows, stored')
      BY <1>1, <2>1 DEF ProcRows, Apart
    <2> QED
      BY <1>1, <2>1, <2>2 DEF ProcRows
  <1>6. \A q, u \in Procs : q # u => Apart(proc'[q].rows, proc'[u].rows)
    BY <1>1 DEF RowsInv, Idle, Apart
  <1> QED
    BY <1>2, <1>3, <1>4, <1>5, <1>6 DEF RowsInv

\* Every other step of a process gives up its rows or has none.
LEMMA OneProcessRows ==
  ASSUME TypeOK, RowsInv, NEW p \in Procs, NEW r,
         proc' = [proc EXCEPT ![p] = r], r.pc # "stored", r.rows = {},
         stored' = stored, nextTx' = nextTx
  PROVE  RowsInv'
  <1>1. \A q \in Procs : proc'[q] = IF q = p THEN r ELSE proc[q]
    BY DEF TypeOK
  <1> QED
    BY <1>1, QuietRows

LEMMA FetchAccountRows ==
  ASSUME TypeOK, RowsInv, NEW p \in Procs, FetchAccount(p)
  PROVE  RowsInv'
  <1> proc[p] \in Process /\ (proc[p].pc # "stored" => proc[p].rows = {})
    BY DEF TypeOK, RowsInv, ProcRows
  <1>1. CASE Answer(p)
    <2>1. PICK ok \in BOOLEAN :
            proc' = [proc EXCEPT ![p].pc = "answered", ![p].ok = ok,
                       ![p].got = IF ok THEN feed[proc[p].acct] ELSE {}]
      BY <1>1 DEF Answer
    <2> DEFINE r == [proc[p] EXCEPT !.pc = "answered", !.ok = ok,
                       !.got = IF ok THEN feed[proc[p].acct] ELSE {}]
    <2>2. proc' = [proc EXCEPT ![p] = r]
      BY <2>1 DEF TypeOK
    <2>3. r.pc # "stored" /\ r.rows = {}
      BY <1>1 DEF Answer, Process
    <2> QED
      BY <1>1, <2>2, <2>3, OneProcessRows DEF Answer, tables
  <1>2. CASE InsertFetch(p)
    <2> DEFINE r == [proc[p] EXCEPT !.pc = "inserted", !.id = nextFetch]
    <2>1. proc' = [proc EXCEPT ![p] = r]
      BY <1>2 DEF InsertFetch, TypeOK
    <2>2. r.pc # "stored" /\ r.rows = {}
      BY <1>2 DEF InsertFetch, Process
    <2> QED
      BY <1>2, <2>1, <2>2, OneProcessRows DEF InsertFetch
  <1>3. CASE InsertFetchTooLong(p) \/ Fail(p)
    <2>1. Idle.pc # "stored" /\ Idle.rows = {}
      BY DEF Idle
    <2> QED
      BY <1>3, <2>1, OneProcessRows DEF InsertFetchTooLong, Fail, tables
  <1> QED
    BY <1>1, <1>2, <1>3, InsertTransactionsRows, CommitRows DEF FetchAccount

LEMMA CallRows ==
  ASSUME TypeOK, RowsInv, NEW p \in Procs, NEW a, Call(p, a)
  PROVE  RowsInv'
  <1> DEFINE r == [Idle EXCEPT !.pc = "calling", !.acct = a, !.started = now]
  <1>1. r.pc # "stored" /\ r.rows = {}
    BY DEF Idle
  <1>2. proc' = [proc EXCEPT ![p] = r] /\ stored' = stored /\ nextTx' = nextTx
    BY DEF Call, tables
  <1> QED
    BY <1>1, <1>2, OneProcessRows

LEMMA RowsNext == TypeOK /\ RowsInv /\ [Next]_vars => RowsInv'
  <1> SUFFICES ASSUME TypeOK, RowsInv, [Next]_vars PROVE RowsInv'
    OBVIOUS
  <1> Scheduler \in Procs
    BY DEF Procs
  <1>1. CASE UNCHANGED <<stored, nextTx, proc>>
    BY <1>1, QuietRows
  <1>2. ASSUME NEW a \in Accounts, CheckDue(a)
        PROVE  RowsInv'
    <2> DEFINE r == [proc[Scheduler] EXCEPT !.pc = "due", !.acct = a]
    <2>1. proc[Scheduler] \in Process /\ proc[Scheduler].rows = {}
      BY <1>2 DEF TypeOK, RowsInv, ProcRows, CheckDue
    <2>2. proc' = [proc EXCEPT ![Scheduler] = r]
      BY <1>2 DEF CheckDue, TypeOK
    <2>3. r.pc # "stored" /\ r.rows = {}
      BY <2>1 DEF Process
    <2> QED
      BY <1>2, <2>2, <2>3, OneProcessRows DEF CheckDue, tables
  <1>3. CASE StartScheduled
    BY <1>3, CallRows DEF StartScheduled
  <1>4. ASSUME NEW p \in Clients, FetchNow(p)
        PROVE  RowsInv'
    BY <1>4, CallRows DEF FetchNow, Procs
  <1>5. CASE Restart
    BY <1>5, QuietRows DEF Restart, tables, Idle
  <1>6. CASE Tick \/ RunScheduled
    BY <1>6, <1>1 DEF Tick, RunScheduled, tables
  <1>7. ASSUME NEW a \in Accounts,
               \/ Skip(a) \/ BankChanges(a)
               \/ Connect(a) \/ DropToken(a) \/ DropMapping(a)
        PROVE  RowsInv'
    BY <1>7, <1>1
       DEF Skip, BankChanges, Connect, DropToken, DropMapping, tables
  <1>8. CASE UNCHANGED vars
    BY <1>8, <1>1 DEF vars
  <1> QED
    BY <1>2, <1>3, <1>4, <1>5, <1>6, <1>7, <1>8, FetchAccountRows
       DEF Next, SchedulerNext, Procs

------------------------------------------------------------------------------
\* Links.

LEMMA CommitLinks ==
  ASSUME TypeOK, RowsInv, LinksInv, NEW p \in Procs, Commit(p)
  PROVE  LinksInv'
  <1>1. ProcRows(p) /\ proc[p].pc = "stored" /\ Once(stored)
    BY DEF RowsInv, Commit
  <1>2. stored' = stored \cup proc[p].rows
    BY DEF Commit
  <1>3. Once(stored')
    BY CommitRows DEF RowsInv
  <1>4. \A f \in fetches : LinkedTo(f, stored')
    <2> SUFFICES ASSUME NEW f \in fetches PROVE LinkedTo(f, stored')
      OBVIOUS
    <2>1. LinkedTo(f, stored)
      BY DEF LinksInv
    <2>2. \A r \in proc[p].rows : r.id \notin f.links
      BY <1>1, <2>1 DEF LinkedTo, ProcRows, Apart
    <2> QED
      BY <1>2, <2>1, <2>2 DEF LinkedTo
  <1>5. \A f \in fetches' \ fetches :
          f.got = proc[p].got /\ f.links = Linked(p)
    BY DEF Commit
  <1>6. \A f \in fetches' \ fetches : LinkedTo(f, stored')
    <2> SUFFICES ASSUME NEW f \in fetches' \ fetches PROVE LinkedTo(f, stored')
      OBVIOUS
    <2>1. f.got = proc[p].got /\ f.links = Linked(p)
      BY <1>5
    <2>2. \A i : i \in f.links <=>
            \E r \in stored' : r.id = i /\ r.hash \in f.got
      BY <1>2, <2>1 DEF Linked
    <2>3. \A h \in f.got : \E r \in stored' : r.hash = h
      BY <1>1, <1>2, <2>1 DEF ProcRows
    <2>4. \A r \in stored' : r.id \in f.links => r.hash \in f.got
      BY <1>3, <2>2 DEF Once
    <2> QED
      BY <2>2, <2>3, <2>4 DEF LinkedTo
  <1> QED
    BY <1>4, <1>6 DEF LinksInv

\* Only Commit writes the tables.
LEMMA OnlyCommitStores ==
  ASSUME [Next]_vars
  PROVE  \/ fetches' = fetches /\ stored' = stored
         \/ \E p \in Procs : Commit(p)
  <1>1. \A p \in Procs : FetchAccount(p) =>
          Commit(p) \/ (fetches' = fetches /\ stored' = stored)
    BY DEF FetchAccount, Answer, InsertFetch, InsertFetchTooLong,
           InsertTransactions, Fail, tables
  <1>2. \A p, a : Call(p, a) => fetches' = fetches /\ stored' = stored
    BY DEF Call, tables
  <1>3. SchedulerNext =>
          \/ fetches' = fetches /\ stored' = stored
          \/ FetchAccount(Scheduler)
    BY <1>2 DEF SchedulerNext, RunScheduled, StartScheduled, CheckDue, Skip,
                tables
  <1>4. \A p \in Clients : FetchNow(p) => fetches' = fetches /\ stored' = stored
    BY <1>2 DEF FetchNow
  <1>5. \A a \in Accounts :
          BankChanges(a) \/ Connect(a) \/ DropToken(a) \/ DropMapping(a) =>
            fetches' = fetches /\ stored' = stored
    BY DEF BankChanges, Connect, DropToken, DropMapping, tables
  <1>6. Tick \/ Restart \/ UNCHANGED vars =>
          fetches' = fetches /\ stored' = stored
    BY DEF Tick, Restart, vars, tables
  <1> QED
    BY <1>1, <1>3, <1>4, <1>5, <1>6 DEF Next, Procs

LEMMA LinksNext ==
  TypeOK /\ RowsInv /\ LinksInv /\ [Next]_vars => LinksInv'
  BY OnlyCommitStores, CommitLinks DEF LinksInv, LinkedTo

LEMMA LinkedToIsComplete ==
  ASSUME NEW f, NEW R, LinkedTo(f, R)
  PROVE  {r.hash : r \in {s \in R : s.id \in f.links}} = f.got
  BY DEF LinkedTo

------------------------------------------------------------------------------
\* Scheduled fetches.

\* A step that records nothing, leaves the clock and leaves the scheduler's
\* account and time alone, or makes it idle.
LEMMA QuietSpaced ==
  ASSUME SpacedInv, fetches' = fetches, now' = now,
         \/ proc'[Scheduler] = proc[Scheduler]
         \/ proc'[Scheduler].pc = "idle"
         \/ /\ proc[Scheduler].pc \notin {"idle", "due"}
            /\ proc'[Scheduler].pc # "due"
            /\ proc'[Scheduler].acct = proc[Scheduler].acct
            /\ proc'[Scheduler].started = proc[Scheduler].started
  PROVE  SpacedInv'
  BY DEF SpacedInv, ScheduledSpaced, Since

\* What a process fetches for, and since when, does not change on the way.
LEMMA FetchAccountSpaced ==
  ASSUME TypeOK, SpacedInv, NEW p \in Procs, FetchAccount(p), ~Commit(p)
  PROVE  SpacedInv'
  <1>1. Scheduler \in Procs /\ proc \in [Procs -> Process]
    BY DEF Procs, TypeOK
  <1>2. \/ proc'[p].pc = "idle"
        \/ /\ proc[p].pc \notin {"idle", "due"}
           /\ proc'[p].pc # "due"
           /\ proc'[p].acct = proc[p].acct
           /\ proc'[p].started = proc[p].started
    <2> proc[p] \in Process
      BY <1>1
    <2>1. CASE Answer(p)
      BY <1>1, <2>1 DEF Answer, Process
    <2>2. CASE InsertFetch(p)
      BY <1>1, <2>2 DEF InsertFetch, Process
    <2>3. CASE InsertTransactions(p)
      BY <1>1, <2>3 DEF InsertTransactions, Process
    <2>4. CASE InsertFetchTooLong(p) \/ Fail(p)
      BY <1>1, <2>4 DEF InsertFetchTooLong, Fail, Idle
    <2> QED
      BY <2>1, <2>2, <2>3, <2>4 DEF FetchAccount
  <1>3. \A q \in Procs \ {p} : proc'[q] = proc[q]
    BY <1>1 DEF FetchAccount, Answer, InsertFetch, InsertTransactions,
                InsertFetchTooLong, Fail
  <1>4. fetches' = fetches /\ now' = now
    BY DEF FetchAccount, Answer, InsertFetch, InsertTransactions,
           InsertFetchTooLong, Fail, tables, world
  <1> QED
    BY <1>1, <1>2, <1>3, <1>4, QuietSpaced

LEMMA CommitSpaced ==
  ASSUME TypeOK, SpacedInv, NEW p \in Procs, Commit(p)
  PROVE  SpacedInv'
  <1>1. Scheduler \in Procs /\ proc \in [Procs -> Process]
    BY DEF Procs, TypeOK
  <1>2. now' = now
    BY DEF Commit, world
  <1>3. proc'[p].pc = "idle" /\ \A q \in Procs \ {p} : proc'[q] = proc[q]
    BY <1>1 DEF Commit, Idle
  <1> DEFINE b == (p = Scheduler)
  <1>4. \A f \in fetches' \ fetches :
          /\ f.acct = proc[p].acct /\ f.started = proc[p].started
          /\ f.scheduled = b
    <2>1. fetches' = fetches \cup
            {[id |-> proc[p].id, acct |-> proc[p].acct, ok |-> proc[p].ok,
              scheduled |-> b, started |-> proc[p].started,
              got |-> proc[p].got, links |-> Linked(p)]}
      BY DEF Commit
    <2> HIDE DEF b
    <2> QED
      BY <2>1
  <1>5. CASE p # Scheduler
    <2>1. proc'[Scheduler] = proc[Scheduler]
      BY <1>1, <1>3, <1>5
    <2>2. \A f \in fetches' : f.scheduled => f \in fetches
      BY <1>4, <1>5
    <2> QED
      BY <1>2, <2>1, <2>2 DEF SpacedInv, ScheduledSpaced, Since
  <1>6. CASE p = Scheduler
    <2>1. proc[p].started \in Nat
      BY <1>1 DEF Process
    <2>2. \A f \in fetches : f.scheduled /\ f.acct = proc[p].acct =>
            proc[p].started - f.started >= Interval
      BY <1>6 DEF SpacedInv, Since, Commit
    <2>3. \A f, g \in fetches' \ fetches : f = g
      BY DEF Commit
    <2>4. ScheduledSpaced'
      BY <1>4, <2>2, <2>3 DEF SpacedInv, ScheduledSpaced
    <2> QED
      BY <1>3, <1>6, <2>4 DEF SpacedInv
  <1> QED
    BY <1>5, <1>6

LEMMA CallSpaced ==
  ASSUME TypeOK, SpacedInv, NEW p \in Procs, NEW a, Call(p, a),
         p = Scheduler => proc[p].pc = "due" /\ a = proc[p].acct
  PROVE  SpacedInv'
  <1>1. Scheduler \in Procs
    BY DEF Procs
  <1>2. fetches' = fetches /\ now' = now
    BY DEF Call, tables, world
  <1> DEFINE r == [Idle EXCEPT !.pc = "calling", !.acct = a, !.started = now]
  <1>3. r.pc = "calling" /\ r.acct = a /\ r.started = now
    BY DEF Idle
  <1>4. proc' = [proc EXCEPT ![p] = r]
    BY DEF Call
  <1>5. \A q \in Procs : proc'[q] = IF q = p THEN r ELSE proc[q]
    BY <1>4 DEF TypeOK
  <1>6. CASE p # Scheduler
    BY <1>1, <1>2, <1>5, <1>6, QuietSpaced
  <1>7. CASE p = Scheduler
    <2> HIDE DEF r
    <2> QED
      BY <1>2, <1>3, <1>5, <1>7 DEF SpacedInv, ScheduledSpaced, Since
  <1> QED
    BY <1>6, <1>7

LEMMA SpacedNext == TypeOK /\ SpacedInv /\ [Next]_vars => SpacedInv'
  <1> SUFFICES ASSUME TypeOK, SpacedInv, [Next]_vars PROVE SpacedInv'
    OBVIOUS
  <1> Scheduler \in Procs
    BY DEF Procs
  <1>1. CASE UNCHANGED <<fetches, now, proc>>
    BY <1>1, QuietSpaced
  <1>2. CASE Tick
    <2>1. now \in Nat /\ now' = now + 1 /\ UNCHANGED <<fetches, proc>>
      BY <1>2 DEF Tick, TypeOK, tables
    <2>2. fetches \subseteq FetchRow
      BY DEF TypeOK
    <2>3. \A f \in fetches :
            now - f.started >= Interval => now' - f.started >= Interval
      BY <2>1, <2>2, IntervalAssumption DEF FetchRow
    <2> QED
      BY <2>1, <2>3 DEF SpacedInv, ScheduledSpaced, Since
  <1>3. ASSUME NEW a \in Accounts, CheckDue(a)
        PROVE  SpacedInv'
    <2>1. proc'[Scheduler].pc = "due" /\ proc'[Scheduler].acct = a
      BY <1>3 DEF CheckDue, TypeOK, Process
    <2>2. fetches' = fetches /\ now' = now
      BY <1>3 DEF CheckDue, tables, world
    <2>3. \A f \in fetches : f.acct = a => now - f.started >= Interval
      BY <1>3, IntervalAssumption
         DEF CheckDue, DueForFetch, FetchesOf, TypeOK, FetchRow
    <2> QED
      BY <2>1, <2>2, <2>3 DEF SpacedInv, ScheduledSpaced, Since
  <1>4. CASE StartScheduled
    BY <1>4, CallSpaced DEF StartScheduled
  <1>5. ASSUME NEW p \in Clients, FetchNow(p)
        PROVE  SpacedInv'
    BY <1>5, CallSpaced, SchedulerAssumption DEF FetchNow, Procs
  <1>6. CASE Restart
    BY <1>6, QuietSpaced DEF Restart, tables, world, Idle
  <1>7. CASE RunScheduled
    BY <1>7, <1>1 DEF RunScheduled, tables, world
  <1>8. ASSUME NEW a \in Accounts,
               \/ Skip(a) \/ BankChanges(a)
               \/ Connect(a) \/ DropToken(a) \/ DropMapping(a)
        PROVE  SpacedInv'
    BY <1>8, <1>1
       DEF Skip, BankChanges, Connect, DropToken, DropMapping, tables, world
  <1>9. CASE UNCHANGED vars
    BY <1>9, <1>1 DEF vars
  <1> QED
    BY <1>2, <1>3, <1>4, <1>5, <1>6, <1>7, <1>8, <1>9, FetchAccountSpaced,
       CommitSpaced DEF Next, SchedulerNext, Procs

------------------------------------------------------------------------------
\* The invariant and what follows from it.

LEMMA FeedsInit == Init => FeedsInv
  <1> SUFFICES ASSUME Init PROVE FeedsInv
    OBVIOUS
  <1>1. \A p \in Procs : proc[p] = Idle
    BY DEF Init
  <1>2. RowsInv
    BY <1>1 DEF Init, RowsInv, ProcRows, Once, Apart, Idle
  <1>3. LinksInv
    BY DEF Init, LinksInv
  <1>4. SpacedInv
    BY DEF Init, SpacedInv, ScheduledSpaced
  <1> QED
    BY <1>2, <1>3, <1>4, TypeInit DEF FeedsInv

\* However fetches overlap, fail or are cut short by a restart, the rows,
\* links and times of every reachable state satisfy FeedsInv.
THEOREM FeedsInvariant == Spec => []FeedsInv
  <1>1. FeedsInv /\ [Next]_vars => FeedsInv'
    BY TypeNext, RowsNext, LinksNext, SpacedNext DEF FeedsInv
  <1> QED
    BY <1>1, FeedsInit, PTL DEF Spec

\* INSERT IGNORE on (userId, rawHash) stores every transaction once.
THEOREM TransactionsStoredOnce == Spec => []StoredOnce
  <1>1. FeedsInv => StoredOnce
    BY DEF FeedsInv, RowsInv, Once, StoredOnce
  <1> QED
    BY <1>1, FeedsInvariant, PTL

\* Reading the ids back after INSERT IGNORE links every committed fetch to
\* exactly what the provider returned.
THEOREM FetchesLinkedCompletely == Spec => []LinksComplete
  <1>1. FeedsInv => LinksComplete
    BY LinkedToIsComplete DEF FeedsInv, LinksInv, LinksComplete
  <1> QED
    BY <1>1, FeedsInvariant, PTL

\* dueForFetch keeps the scheduler's fetches of one account refreshInterval
\* apart, restarts and failures included.
THEOREM ScheduledFetchesSpaced == Spec => []ScheduledSpaced
  <1>1. FeedsInv => ScheduledSpaced
    BY DEF FeedsInv, SpacedInv
  <1> QED
    BY <1>1, FeedsInvariant, PTL
=============================================================================
