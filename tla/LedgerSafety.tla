---------------------------- MODULE LedgerSafety ----------------------------
(***************************************************************************)
(* What the ledger's write path must keep true of the committed tables.     *)
(***************************************************************************)
EXTENDS Ledger

Split == [who : People, share : Int, paid : Int]

TransactionTypes ==
  {"EXPENSE", "THIRD_PARTY_EXPENSE", "INCOME", "TRANSFER", "OPENING_BALANCE"}

Transaction ==
  [id : 1 .. MaxId, iid : 1 .. MaxId, type : TransactionTypes,
   sup : 0 .. MaxId, void : BOOLEAN, lines : Seq(EntryLine),
   splits : SUBSET Split, trip : Nat, tag : Nat]

Link == [source : 1 .. MaxId, linked : 1 .. MaxId,
         type : {"REFUND", "DEBT_SETTLING"}]

Name == [id : Nat \ {0}, table : {"RECEIVABLE", "TRIP", "TAG"},
         name : People \cup Tags \cup {TripKey[t] : t \in Trips}]

Origin == [tx : 1 .. MaxId, key : Events]

AccountRow == [unit : Units, balance : OpeningAmounts]

Database ==
  [txs : SUBSET Transaction, links : SUBSET Link, names : SUBSET Name,
   origins : SUBSET Origin, acct : [Accounts -> AccountRow \cup {NoAccount}]]

Plan ==
  [txs : SUBSET Transaction, links : SUBSET Link, names : SUBSET Name,
   origins : SUBSET Origin, acct : Accounts \cup {NoAccount},
   row : AccountRow \cup {NoAccount}, newCurrency : BOOLEAN]

\* The type invariant: the tables and every request in flight are well formed.
TypeOK ==
  /\ db \in Database
  /\ nextId \in 1 .. MaxId + 1
  /\ nextName \in Nat \ {0}
  /\ pc \in [Sessions -> {"idle", "begun", "written"}]
  /\ shown \in [Sessions -> SUBSET (1 .. MaxId)]
  /\ view \in [Sessions -> Database]
  /\ plan \in [Sessions -> Plan]
  /\ rateTrigger \in BOOLEAN

------------------------------------------------------------------------------
\* Books balance: every committed transaction nets to zero in every unit,
\* whatever form wrote it (buildExpenseLines, buildTransferLines,
\* writeRepayment, syncOpeningBalance).
Balanced(txs) == \A t \in txs : LinesBalance(t.lines)

BooksBalance == Balanced(db.txs)

\* A superseding row stands for the event of the row it supersedes: it is
\* newer, has the same iid ("iid carries over so the user-facing stable id is
\* kept", proto/prosper/v1/ledger.proto) and an opening balance is superseded
\* by an opening balance only.  AllocateIID and repaymentSupersedes each copy
\* an iid on their own.
Continues(t, u) ==
  /\ u.id = t.sup
  /\ u.id < t.id
  /\ u.iid = t.iid
  /\ (u.type = "OPENING_BALANCE") = (t.type = "OPENING_BALANCE")

Chained(rows, txs) ==
  \A t \in rows : t.sup # NoId => \E u \in txs : Continues(t, u)

ChainsKeepIid == Chained(db.txs, db.txs)

\* A repayment settles exactly what its third-party expense made the user
\* owe: both post to one RECEIVABLE account, with opposite amounts.  The two
\* rows look the account up separately (GetOrCreateReceivable in
\* buildThirdPartyLines and in writeRepayment).
Settles(r, e) ==
  \E i \in LinesOn(e.lines, "RECEIVABLE"),
     j \in LinesOn(r.lines, "RECEIVABLE") :
    /\ e.lines[i].acct = r.lines[j].acct
    /\ e.lines[i].amt + r.lines[j].amt = 0

Settled(d) ==
  \A l \in DebtLinks(d) :
    \E e, r \in d.txs :
      /\ e.id = l.source
      /\ r.id = l.linked
      /\ Settles(r, e)

RepaymentsSettle == Settled(db)

\* The versions of a repayment run in step with those of its expense: when an
\* edit of a repaid expense is repaid again, the repayment it writes supersedes
\* that of the row it supersedes, whichever page it was made on, and does not
\* stand beside it (repaymentSupersedes finds the old one through the link,
\* LIMIT 1).  An edit to another sharing type writes no repayment and leaves
\* the old one; nothing is said of it here.
RepaymentsFollow ==
  \A l, m \in DebtLinks(db) :
    TxOf(db, m.source).sup = l.source =>
      /\ TxOf(db, m.linked).sup = l.linked
      /\ TxOf(db, m.linked).iid = TxOf(db, l.linked).iid

\* The initial balance kept on the account row and the newest opening-balance
\* row posted to the account agree, in the account's unit.  The two copies
\* are written by two statements of UpsertBankAccount, and concurrent
\* requests for one account may commit in either order.
NewestOpeningAgrees ==
  \A a \in Existing(db) : db.acct[a].balance # 0 =>
    \E t \in OpeningRows(db, a) :
      /\ \A u \in OpeningRows(db, a) : u.id <= t.id
      /\ t.lines = OpeningLines(a, db.acct[a].unit, db.acct[a].balance)

\* An event recorded from a bank transaction stays recorded: from the row the
\* origin names the chain of edits leads to a current row of the same event
\* (snapshot.CurrentVersion, which recall shows the user), although edits do
\* not repeat the origin.
OriginsResolve ==
  \A o \in db.origins :
    \E t \in LatestVersions(db) :
      /\ t.id = CurrentVersion(db, MaxId)[o.tx]
      /\ \E u \in db.txs : u.id = o.tx /\ u.iid = t.iid

\* The client can build a page from the committed tables.
PageRenders == Renders(db)

\* Every reader sees one current row per event (common.ChainHead: "There must
\* be exactly one head per chain; any other count is a data integrity error").
OneHeadPerChain == OneVersionPerIid(db)

\* Companions, trips and tags: one row per name a lookup tells apart
\* (GetOrCreateReceivable, GetOrCreateTrip and getOrCreateTagIDs return "the
\* existing" row and insert one only if it is missing).
OneRowPerName ==
  \A n, m \in db.names : n.table = m.table /\ n.name = m.name => n = m
==============================================================================
