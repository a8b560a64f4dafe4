------------------------------- MODULE Ledger -------------------------------
(***************************************************************************)
(* The write path of the ledger service: WriteTransactionForm (an expense,  *)
(* income or transfer form, fresh or superseding an existing row) and       *)
(* UpsertBankAccount, each one MySQL transaction at REPEATABLE READ.        *)
(*                                                                          *)
(* A session is one browser tab with at most one request in flight.  Its    *)
(* request opens the transaction (Begin: the first SELECT fixes the         *)
(* snapshot every later plain SELECT reads), inserts its rows (a Write...   *)
(* action: ids come from AUTO_INCREMENT, nobody else sees the rows), and    *)
(* commits or rolls back.  Other sessions run between any two of these.     *)
(* The ledger of one user is modelled: every query is scoped to the user.   *)
(***************************************************************************)
EXTENDS LedgerView

CONSTANTS
  Sessions,         \* browser tabs
  People,           \* companions and third-party payers
  Trips, Tags,      \* names of trips and tags
  TripKey,          \* what a trip name compares as under the column collation
  Events,           \* external events a draft is made from
  Amounts,          \* amounts of expenses, incomes and transfers
  OpeningAmounts,   \* initial balances entered in the account form
  RatedCurrencies,  \* currencies the ExchangeRate table already knows
  EditRepayments,   \* whether tabs edit repayment rows themselves
  NoName,           \* an empty trip or tag field
  NoAccount,        \* a bank account that has not been added
  Forms,            \* the handlers the tabs of this instance call
  MaxId             \* bound: no transaction row gets a greater id

\* The form schemas refuse amounts that are not positive; a balance may be of
\* either sign.
ASSUME AmountsAssumption == Amounts \subseteq Nat /\ OpeningAmounts \subseteq Int

ASSUME MaxIdAssumption == MaxId \in Nat

ASSUME NoAccountAssumption ==
  NoAccount \notin Accounts \cup [unit : Units, balance : OpeningAmounts]

VARIABLES
  db,           \* the committed tables
  nextId,       \* AUTO_INCREMENT of Transaction
  nextName,     \* AUTO_INCREMENT of LedgerAccount, Trip and Tag
  pc,           \* where each session's request is
  shown,        \* the rows each tab offers for editing
  view,         \* the snapshot each request reads
  plan,         \* the rows each request has inserted and not committed
  rateTrigger   \* a rates fetch has been asked for

vars == <<db, nextId, nextName, pc, shown, view, plan, rateTrigger>>

NoPlan == [txs |-> {}, links |-> {}, names |-> {}, origins |-> {},
           acct |-> NoAccount, row |-> NoAccount, newCurrency |-> FALSE]

EmptyDb == [txs |-> {}, links |-> {}, names |-> {}, origins |-> {},
            acct |-> [a \in Accounts |-> NoAccount]]

------------------------------------------------------------------------------
\* The write primitives (package common).

Max0(S) == IF S = {} THEN 0 ELSE CHOOSE m \in S : \A n \in S : n <= m

\* Mutant: an edit gets an iid of its own.
AllocateIIDAlways(v, sup) == Max0({t.iid : t \in v.txs}) + 1

AllocateIID(v, sup) ==
  IF sup # NoId
  THEN TxOf(v, sup).iid
  ELSE Max0({t.iid : t \in v.txs}) + 1

\* The INSERT lists every column but isVoid, which takes its default.
InsertTransactionRow(t) == [t EXCEPT !.void = FALSE]

Row(id, iid, type, sup, lines) ==
  [id |-> id, iid |-> iid, type |-> type, sup |-> sup, void |-> FALSE,
   lines |-> lines, splits |-> {}, trip |-> NoId, tag |-> NoId]

\* Mutant: every lookup goes to the companions' accounts.
NamedCompanion(v, table, name) ==
  {n \in v.names : n.table = "RECEIVABLE" /\ n.name = name}

Named(v, table, name) == {n \in v.names : n.table = table /\ n.name = name}

MinId(S) == CHOOSE n \in {r.id : r \in S} : \A r \in S : n <= r.id

\* The get-or-create helpers: use a row the snapshot has, else insert one.
GetOrCreate(v, table, name, fresh) ==
  IF Named(v, table, name) = {} THEN fresh ELSE MinId(Named(v, table, name))

Created(v, table, name, fresh) ==
  IF Named(v, table, name) = {}
  THEN {[id |-> fresh, table |-> table, name |-> name]}
  ELSE {}

\* Mutant: the old repayment is not looked for.
RepaymentSupersedesNothing(v, e) ==
  [sup |-> NoId, iid |-> Max0({t.iid : t \in v.txs \cup {e}}) + 1]

\* repaymentSupersedes: the new repayment replaces the one linked to the
\* expense row being edited; e is the row of the edited expense itself.
RepaymentSupersedes(v, e) ==
  LET old == {l.linked : l \in {k \in DebtLinks(v) : k.source = e.sup}}
  IN  IF e.sup = NoId \/ old = {}
      THEN [sup |-> NoId,
            iid |-> Max0({t.iid : t \in v.txs \cup {e}}) + 1]
      ELSE LET r == CHOOSE n \in old : TRUE
           IN  [sup |-> r, iid |-> TxOf(v, r).iid]

------------------------------------------------------------------------------
\* Row locks.  An UPDATE of a bank account locks its BankAccount and ASSET
\* LedgerAccount rows until the end of the transaction, and inserting an
\* entry line share-locks the ledger account it names (foreign key).

AssetsOf(txs) == {a \in Accounts : \E t \in txs : PostsTo(t.lines, Asset(a))}

Unlocked(s, accts) ==
  \A o \in Sessions \ {s} : pc[o] = "written" => plan[o].acct \notin accts

Untouched(s, a) ==
  \A o \in Sessions \ {s} :
    pc[o] = "written" => plan[o].acct # a /\ a \notin AssetsOf(plan[o].txs)

Write(s, p, nrows) ==
  /\ nextId + nrows - 1 <= MaxId
  /\ Unlocked(s, AssetsOf(p.txs))
  /\ plan' = [plan EXCEPT ![s] = p]
  /\ pc' = [pc EXCEPT ![s] = "written"]
  /\ nextId' = nextId + nrows
  /\ UNCHANGED <<db, shown, view, rateTrigger>>

------------------------------------------------------------------------------
\* The transaction form.

Existing(v) == {a \in Accounts : v.acct[a] # NoAccount}

UnitOf(v, a) == v.acct[a].unit

\* txform.Write: what every form variant shares.  t is the row of the form,
\* others the rows written with it, links and recv what the variant adds.
WriteForm(s, t, others, links, recv, trip, tag, origins) ==
  LET v == view[s]
      tripId == IF trip = NoName THEN NoId
                ELSE GetOrCreate(v, "TRIP", TripKey[trip], nextName + 1)
      newTrip == IF trip = NoName THEN {}
                 ELSE Created(v, "TRIP", TripKey[trip], nextName + 1)
      tagId == IF tag = NoName THEN NoId
               ELSE GetOrCreate(v, "TAG", tag, nextName + 2)
      newTag == IF tag = NoName THEN {}
                ELSE Created(v, "TAG", tag, nextName + 2)
      row == InsertTransactionRow([t EXCEPT !.trip = tripId, !.tag = tagId])
  IN  /\ Write(s,
               [NoPlan EXCEPT
                  !.txs = {row} \cup {InsertTransactionRow(o) : o \in others},
                  !.links = links,
                  !.names = recv \cup newTrip \cup newTag,
                  !.origins = {[tx |-> t.id, key |-> e] : e \in origins}],
               1 + Cardinality(others))
      /\ nextName' = nextName + 3

\* The row a form supersedes (NoId for a new transaction), its tags and, for
\* a new transaction, the events of the draft it was filled from.
Inputs(s) ==
  {i \in [sup : {NoId} \cup shown[s], tag : Tags \cup {NoName},
          origins : SUBSET Events] :
     i.origins # {} => i.sup = NoId}

Ready(s, form) == form \in Forms /\ pc[s] = "begun"

WriteExpensePaidSelf(s) ==
  /\ Ready(s, "PAID_SELF_NOT_SHARED")
  /\ \E i \in Inputs(s), trip \in Trips \cup {NoName},
        a \in Existing(view[s]), amount \in Amounts :
       WriteForm(s,
         Row(nextId, AllocateIID(view[s], i.sup), "EXPENSE", i.sup,
             PaidSelfLines(a, UnitOf(view[s], a), amount)),
         {}, {}, {}, trip, i.tag, i.origins)

WriteExpenseShared(s) ==
  /\ Ready(s, "PAID_SELF_SHARED")
  /\ \E i \in Inputs(s), trip \in Trips \cup {NoName}, who \in People,
        a \in Existing(view[s]), amount \in Amounts :
       \E own \in 0 .. amount :
         LET recv == GetOrCreate(view[s], "RECEIVABLE", who, nextName)
             row == Row(nextId, AllocateIID(view[s], i.sup), "EXPENSE", i.sup,
                        PaidSelfSharedLines(a, UnitOf(view[s], a), amount,
                                            own, recv))
         IN  WriteForm(s,
               [row EXCEPT !.splits =
                  {[who |-> who, share |-> amount - own, paid |-> 0]}],
               {}, {}, Created(view[s], "RECEIVABLE", who, nextName),
               trip, i.tag, i.origins)

ThirdPartyRow(s, i, who, unit, amount, own) ==
  LET recv == GetOrCreate(view[s], "RECEIVABLE", who, nextName)
      row == Row(nextId, AllocateIID(view[s], i.sup), "THIRD_PARTY_EXPENSE",
                 i.sup, ThirdPartyLines(unit, own, recv))
  IN  [row EXCEPT !.splits =
         {[who |-> who, share |-> amount - own, paid |-> amount]}]

WriteExpenseOwed(s) ==
  /\ Ready(s, "PAID_OTHER_OWED")
  /\ \E i \in Inputs(s), trip \in Trips \cup {NoName}, who \in People,
        unit \in Currencies, amount \in Amounts :
       \E own \in 0 .. amount :
         WriteForm(s, ThirdPartyRow(s, i, who, unit, amount, own),
           {}, {}, Created(view[s], "RECEIVABLE", who, nextName),
           trip, i.tag, i.origins)

\* Mutant: the account created for the expense is not carried over.
RepaymentRowForgetful(s, e, who, a, own) ==
  LET recv == GetOrCreate(view[s], "RECEIVABLE", who, nextName + 1)
      old == RepaymentSupersedes(view[s], e)
  IN  Row(nextId + 1, old.iid, "EXPENSE", old.sup,
          RepaymentLines(a, UnitOf(view[s], a), own, recv))

\* The repayment goes to the RECEIVABLE row the expense used: accts carries
\* a row created for the expense over to the repayment.
RepaymentRow(s, e, who, a, own) ==
  LET recv == GetOrCreate(view[s], "RECEIVABLE", who, nextName)
      old == RepaymentSupersedes(view[s], e)
  IN  Row(nextId + 1, old.iid, "EXPENSE", old.sup,
          RepaymentLines(a, UnitOf(view[s], a), own, recv))

WriteExpenseRepaid(s) ==
  /\ Ready(s, "PAID_OTHER_REPAID")
  /\ \E i \in Inputs(s), trip \in Trips \cup {NoName}, who \in People,
        unit \in Currencies, a \in Existing(view[s]), amount \in Amounts :
       \E own \in 0 .. amount :
         LET e == ThirdPartyRow(s, i, who, unit, amount, own)
             r == RepaymentRow(s, e, who, a, own)
         IN  WriteForm(s, e, {r},
               {[source |-> e.id, linked |-> r.id, type |-> "DEBT_SETTLING"]},
               Created(view[s], "RECEIVABLE", who, nextName),
               trip, i.tag, i.origins)

\* Expenses the tab offers as the parent of a refund.
Parents(s) == {p \in shown[s] : IsExpense(TxOf(view[s], p))}

\* Mutant: source and linked row swapped.
RefundLinksReversed(parent, id) ==
  IF parent = NoId THEN {}
  ELSE {[source |-> id, linked |-> parent, type |-> "REFUND"]}

RefundLinks(parent, id) ==
  IF parent = NoId THEN {}
  ELSE {[source |-> parent, linked |-> id, type |-> "REFUND"]}

WriteIncomeSolo(s) ==
  /\ Ready(s, "INCOME")
  /\ \E i \in Inputs(s), a \in Existing(view[s]), amount \in Amounts,
        parent \in {NoId} \cup Parents(s) :
       WriteForm(s,
         Row(nextId, AllocateIID(view[s], i.sup), "INCOME", i.sup,
             SoloIncomeLines(a, UnitOf(view[s], a), amount)),
         {}, RefundLinks(parent, nextId), {}, NoName, i.tag, i.origins)

WriteIncomeShared(s) ==
  /\ Ready(s, "INCOME_SHARED")
  /\ \E i \in Inputs(s), a \in Existing(view[s]), amount \in Amounts,
        who \in People, parent \in {NoId} \cup Parents(s) :
       \E own \in 0 .. amount :
         LET recv == GetOrCreate(view[s], "RECEIVABLE", who, nextName)
             row == Row(nextId, AllocateIID(view[s], i.sup), "INCOME", i.sup,
                        SharedIncomeLines(a, UnitOf(view[s], a), amount,
                                          own, recv))
         IN  WriteForm(s,
               [row EXCEPT !.splits =
                  {[who |-> who, share |-> amount - own, paid |-> 0]}],
               {}, RefundLinks(parent, nextId),
               Created(view[s], "RECEIVABLE", who, nextName),
               NoName, i.tag, i.origins)

\* The form refuses equal accounts and keeps the received amount equal to
\* the sent one when both accounts have one unit.
WriteTransfer(s) ==
  /\ Ready(s, "TRANSFER")
  /\ \E i \in Inputs(s), from \in Existing(view[s]), to \in Existing(view[s]),
        sent \in Amounts, received \in Amounts :
       /\ from # to
       /\ UnitOf(view[s], from) = UnitOf(view[s], to) => received = sent
       /\ WriteForm(s,
            Row(nextId, AllocateIID(view[s], i.sup), "TRANSFER", i.sup,
                TransferLines(from, to, UnitOf(view[s], from),
                              UnitOf(view[s], to), sent, received)),
            {}, {}, {}, NoName, i.tag, i.origins)

------------------------------------------------------------------------------
\* UpsertBankAccount.

\* Opening-balance rows with an entry line on the account: a zero balance is
\* recorded as a row without lines, which this query does not see.
OpeningRows(v, a) ==
  {t \in v.txs : t.type = "OPENING_BALANCE" /\ PostsTo(t.lines, Asset(a))}

OpeningHead(v, a) == CHOOSE t \in Heads(OpeningRows(v, a)) : TRUE

\* isNewCurrency runs a SELECT for a currency only, so the snapshot of a
\* stock account is fixed later, after the account row is locked.
AccountView(s, unit) == IF unit \in Currencies THEN view[s] ELSE db

NewOpeningRow(v, a, unit, amount) ==
  LET old == OpeningRows(v, a)
      sup == IF old = {} THEN NoId ELSE OpeningHead(v, a).id
      row == Row(nextId, AllocateIID(v, sup), "OPENING_BALANCE", sup,
                 IF amount = 0 THEN << >> ELSE OpeningLines(a, unit, amount))
  IN  InsertTransactionRow([row EXCEPT !.void = (amount = 0)])

\* Mutant: a balance the account already has writes no row.
SyncOpeningBalanceIfChanged(s, v, a, unit, amount) ==
  LET skip == IF v.acct[a] = NoAccount THEN amount = 0
              ELSE v.acct[a].balance = amount
      rows == IF skip THEN {} ELSE {NewOpeningRow(v, a, unit, amount)}
  IN  Write(s,
        [NoPlan EXCEPT !.txs = rows, !.acct = a,
           !.row = [unit |-> unit, balance |-> amount]],
        Cardinality(rows))

\* ChainHead fails the request unless the account has one head.
SyncOpeningBalance(s, v, a, unit, amount) ==
  LET skip == OpeningRows(v, a) = {} /\ amount = 0
      rows == IF skip THEN {} ELSE {NewOpeningRow(v, a, unit, amount)}
  IN  /\ OpeningRows(v, a) # {} => HasOneHead(OpeningRows(v, a))
      /\ Write(s,
           [NoPlan EXCEPT !.txs = rows, !.acct = a,
              !.row = [unit |-> unit, balance |-> amount],
              !.newCurrency = unit \in Currencies \ RatedCurrencies],
           Cardinality(rows))

AddAccount(s) ==
  /\ Ready(s, "ADD_ACCOUNT")
  /\ \E a \in Accounts, unit \in Units, amount \in OpeningAmounts :
       /\ db.acct[a] = NoAccount
       /\ Untouched(s, a)
       /\ SyncOpeningBalance(s, AccountView(s, unit), a, unit, amount)
  /\ UNCHANGED nextName

UpdateAccount(s) ==
  /\ Ready(s, "UPDATE_ACCOUNT")
  /\ \E a \in Existing(view[s]), unit \in Units, amount \in OpeningAmounts :
       /\ Untouched(s, a)
       /\ SyncOpeningBalance(s, AccountView(s, unit), a, unit, amount)
  /\ UNCHANGED nextName

------------------------------------------------------------------------------
\* The life of a request, and of the page it was sent from.

Begin(s) ==
  /\ pc[s] = "idle"
  /\ pc' = [pc EXCEPT ![s] = "begun"]
  /\ view' = [view EXCEPT ![s] = db]
  /\ UNCHANGED <<db, nextId, nextName, shown, plan, rateTrigger>>

\* Mutant: superseded rows can be edited too.
OfferedStale(d) == {t.id : t \in {u \in d.txs : u.type # "OPENING_BALANCE"}}

\* Rows a freshly loaded page offers for editing; opening balances are
\* edited on the account page.  A page that does not render offers nothing.
Offered(d) ==
  IF Renders(d)
  THEN {t.id : t \in {u \in LatestVersions(d) :
                        /\ u.type # "OPENING_BALANCE"
                        /\ EditRepayments \/ u.id \notin Repayments(d)}}
  ELSE {}

Finish(s) ==
  /\ pc' = [pc EXCEPT ![s] = "idle"]
  /\ view' = [view EXCEPT ![s] = EmptyDb]
  /\ plan' = [plan EXCEPT ![s] = NoPlan]

\* The response of a committed request carries the reloaded page.
Commit(s) ==
  LET p == plan[s]
  IN  /\ pc[s] = "written"
      /\ db' = [txs |-> db.txs \cup p.txs,
                links |-> db.links \cup p.links,
                names |-> db.names \cup p.names,
                origins |-> db.origins \cup p.origins,
                acct |-> IF p.acct = NoAccount THEN db.acct
                         ELSE [db.acct EXCEPT ![p.acct] = p.row]]
      /\ shown' = [shown EXCEPT ![s] = Offered(db')]
      /\ rateTrigger' = (rateTrigger \/ p.newCurrency)
      /\ Finish(s)
      /\ UNCHANGED <<nextId, nextName>>

\* Any error before the commit, a cancelled request, or a deadlock MySQL
\* resolved: the rows vanish, the ids they took do not come back.
Rollback(s) ==
  /\ pc[s] \in {"begun", "written"}
  /\ Finish(s)
  /\ UNCHANGED <<db, nextId, nextName, shown, rateTrigger>>

Load(s) ==
  /\ pc[s] = "idle"
  /\ shown' = [shown EXCEPT ![s] = Offered(db)]
  /\ UNCHANGED <<db, nextId, nextName, pc, view, plan, rateTrigger>>

Init ==
  /\ db = EmptyDb
  /\ nextId = 1
  /\ nextName = 1
  /\ pc = [s \in Sessions |-> "idle"]
  /\ shown = [s \in Sessions |-> {}]
  /\ view = [s \in Sessions |-> EmptyDb]
  /\ plan = [s \in Sessions |-> NoPlan]
  /\ rateTrigger = FALSE

Next ==
  \E s \in Sessions :
    \/ Begin(s)
    \/ WriteExpensePaidSelf(s)
    \/ WriteExpenseShared(s)
    \/ WriteExpenseOwed(s)
    \/ WriteExpenseRepaid(s)
    \/ WriteIncomeSolo(s)
    \/ WriteIncomeShared(s)
    \/ WriteTransfer(s)
    \/ AddAccount(s)
    \/ UpdateAccount(s)
    \/ Commit(s)
    \/ Rollback(s)
    \/ Load(s)

Spec == Init /\ [][Next]_vars
==============================================================================
