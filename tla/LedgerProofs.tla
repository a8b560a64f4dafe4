---------------------------- MODULE LedgerProofs ----------------------------
(***************************************************************************)
(* Proofs about the ledger, for any number of tabs, accounts, companions,   *)
(* amounts and rows.  The write path first: LedgerInv, the invariant of the *)
(* rows that requests write, and two that rest on it, for the versions of a *)
(* repayment and for the two copies of an account's initial balance.  Then  *)
(* what the readers of those rows meet: the walk of CurrentVersion ends at  *)
(* a current row of the same event and, with one tab, an event has one      *)
(* current row, every page renders, names stay unique, and the ledger       *)
(* implements EventLog.                                                     *)
(***************************************************************************)
EXTENDS LedgerEvents, FiniteSetTheorems, WellFoundedInduction, TLAPS

------------------------------------------------------------------------------
\* Smallest and greatest elements, which MinId and Max0 choose.

LEMMA LessIsWellFounded ==
  \E R : /\ IsWellFoundedOn(R, Nat)
         /\ \A m, n \in Nat : n < m => <<n, m>> \in R
<1>1. IsWellFoundedOn(OpToRel(<, Nat), Nat)
  BY NatLessThanWellFounded
<1>2. \A m, n \in Nat : n < m => <<n, m>> \in OpToRel(<, Nat)
  BY DEF OpToRel
<1> QED BY <1>1, <1>2

LEMMA MinExists ==
  ASSUME NEW S, S \subseteq Nat, S # {}
  PROVE  \E m \in S : \A n \in S : m <= n
<1>1. PICK R : /\ IsWellFoundedOn(R, Nat)
               /\ \A m, n \in Nat : n < m => <<n, m>> \in R
  BY LessIsWellFounded, Zenon
<1>2. PICK m \in S : \A n \in S : <<n, m>> \notin R
  BY <1>1, WFMin, Zenon
<1>3. ASSUME NEW n \in S PROVE m <= n
  <2>1. ~(n < m)
    BY <1>1, <1>2
  <2> QED BY <2>1
<1> QED BY <1>3

LEMMA MaxExists ==
  ASSUME NEW N \in Nat, NEW S, S \subseteq 0 .. N, S # {}
  PROVE  \E m \in S : \A n \in S : n <= m
<1> DEFINE T == {k \in Nat : \E n \in S : n = N - k}
<1>1. \A n \in S : n \in Int /\ n <= N /\ n >= 0
  OBVIOUS
<1>2. T \subseteq Nat /\ T # {}
  <2>1. PICK n \in S : TRUE
    OBVIOUS
  <2>2. N - n \in Nat /\ n = N - (N - n)
    BY <1>1, <2>1
  <2> QED BY <2>1, <2>2
<1>3. PICK t \in T : \A u \in T : t <= u
  BY <1>2, MinExists, Zenon
<1>4. PICK m \in S : m = N - t
  BY <1>3
<1>5. ASSUME NEW n \in S PROVE n <= m
  <2>1. N - n \in Nat /\ n = N - (N - n)
    BY <1>1
  <2>2. N - n \in T
    BY <2>1
  <2>3. t <= N - n
    BY <2>2, <1>3
  <2> QED BY <2>3, <1>4, <1>1, <1>3
<1> QED BY <1>5

LEMMA Max0Bounds ==
  ASSUME NEW N \in Nat, NEW S, S \subseteq 0 .. N
  PROVE  Max0(S) \in 0 .. N /\ \A n \in S : n <= Max0(S)
<1>1. CASE S = {}
  BY <1>1 DEF Max0
<1>2. CASE S # {}
  <2>1. \E m \in S : \A n \in S : n <= m
    BY <1>2, MaxExists
  <2> QED BY <1>2, <2>1 DEF Max0
<1> QED BY <1>1, <1>2
LEMMA MinIdBounds ==
  ASSUME NEW S, S # {}, \A r \in S : r.id \in Nat
  PROVE  \E r \in S : MinId(S) = r.id
<1> DEFINE I == {r.id : r \in S}
<1>1. I \subseteq Nat /\ I # {}
  OBVIOUS
<1>2. \E m \in I : \A n \in I : m <= n
  BY <1>1, MinExists, Zenon
<1>3. \E m \in I : \A r \in S : m <= r.id
  BY <1>2
<1>4. MinId(S) \in I
  BY <1>3 DEF MinId
<1> QED BY <1>4

------------------------------------------------------------------------------
\* The line builders make typed lines that net to zero in every unit.

LEMMA PostType ==
  ASSUME NEW acct \in LedgerAccounts, NEW unit \in Units, NEW amt \in Int
  PROVE  Post(acct, unit, amt) \in EntryLine
BY DEF Post, EntryLine

LEMMA AccountTypes ==
  /\ \A a \in Accounts : Asset(a) \in LedgerAccounts
  /\ \A n \in Nat : Receivable(n) \in LedgerAccounts
  /\ Expense \in LedgerAccounts
  /\ Income \in LedgerAccounts
  /\ Equity \in LedgerAccounts
  /\ CurrencyExchange \in LedgerAccounts
BY DEF LedgerAccounts, Asset, Receivable, Expense, Income, Equity,
       CurrencyExchange

LEMMA TwoLines ==
  ASSUME NEW x \in LedgerAccounts, NEW y \in LedgerAccounts,
         NEW unit \in Units, NEW n \in Int, NEW k \in Int, n + k = 0,
         NEW lines, lines = << Post(x, unit, n), Post(y, unit, k) >>
  PROVE  lines \in Seq(EntryLine) /\ LinesBalance(lines)
<1>1. lines \in Seq(EntryLine)
  BY PostType
<1>2. ASSUME NEW u \in Units PROVE UnitSum(lines, u) = 0
  <2>1. AmountAt(lines, 1, u) + AmountAt(lines, 2, u) = 0
    BY DEF AmountAt, Post
  <2>2. AmountAt(lines, 3, u) = 0 /\ AmountAt(lines, 4, u) = 0
    BY DEF AmountAt
  <2>3. AmountAt(lines, 1, u) \in Int /\ AmountAt(lines, 2, u) \in Int
    BY DEF AmountAt, Post
  <2> QED BY <2>1, <2>2, <2>3 DEF UnitSum
<1> QED BY <1>1, <1>2 DEF LinesBalance

LEMMA ThreeLines ==
  ASSUME NEW x \in LedgerAccounts, NEW y \in LedgerAccounts,
         NEW z \in LedgerAccounts, NEW unit \in Units,
         NEW n \in Int, NEW k \in Int, NEW l \in Int, n + k + l = 0,
         NEW lines, lines = << Post(x, unit, n), Post(y, unit, k), Post(z, unit, l) >>
  PROVE  lines \in Seq(EntryLine) /\ LinesBalance(lines)
<1>1. lines \in Seq(EntryLine)
  BY PostType
<1>2. ASSUME NEW u \in Units PROVE UnitSum(lines, u) = 0
  <2>1. AmountAt(lines, 1, u) + AmountAt(lines, 2, u) + AmountAt(lines, 3, u) = 0
    BY DEF AmountAt, Post
  <2>2. AmountAt(lines, 4, u) = 0
    BY DEF AmountAt
  <2> QED BY <2>1, <2>2 DEF UnitSum
<1> QED BY <1>1, <1>2 DEF LinesBalance

LEMMA FourLines ==
  ASSUME NEW x \in LedgerAccounts, NEW y \in LedgerAccounts,
         NEW z \in LedgerAccounts,
         NEW unit \in Units, NEW other \in Units, NEW n \in Int, NEW k \in Int,
         NEW lines,
         lines = << Post(x, unit, -n), Post(y, unit, n),
                    Post(y, other, -k), Post(z, other, k) >>
  PROVE  lines \in Seq(EntryLine) /\ LinesBalance(lines)
<1>1. lines \in Seq(EntryLine)
  BY PostType
<1>2. ASSUME NEW u \in Units PROVE UnitSum(lines, u) = 0
  <2>1. /\ AmountAt(lines, 1, u) = IF u = unit THEN -n ELSE 0
        /\ AmountAt(lines, 2, u) = IF u = unit THEN n ELSE 0
        /\ AmountAt(lines, 3, u) = IF u = other THEN -k ELSE 0
        /\ AmountAt(lines, 4, u) = IF u = other THEN k ELSE 0
    BY DEF AmountAt, Post
  <2> QED BY <2>1 DEF UnitSum
<1> QED BY <1>1, <1>2 DEF LinesBalance

LEMMA EmptyLines == << >> \in Seq(EntryLine) /\ LinesBalance(<< >>)
BY DEF LinesBalance, UnitSum, AmountAt

\* Good(lines): well typed and balanced.
Good(lines) == lines \in Seq(EntryLine) /\ LinesBalance(lines)

LEMMA ExpenseLinesGood ==
  ASSUME NEW a \in Accounts, NEW unit \in Units, NEW amount \in Int,
         NEW own \in Int, NEW recv \in Nat
  PROVE  /\ Good(PaidSelfLines(a, unit, amount))
         /\ Good(PaidSelfSharedLines(a, unit, amount, own, recv))
         /\ Good(ThirdPartyLines(unit, own, recv))
         /\ Good(RepaymentLines(a, unit, own, recv))
<1>1. Good(PaidSelfLines(a, unit, amount))
  BY AccountTypes, TwoLines, -amount \in Int, -amount + amount = 0
  DEF Good, PaidSelfLines
<1>2. Good(PaidSelfSharedLines(a, unit, amount, own, recv))
  BY AccountTypes, ThreeLines, -amount \in Int, amount - own \in Int,
     -amount + own + (amount - own) = 0
  DEF Good, PaidSelfSharedLines
<1>3. Good(ThirdPartyLines(unit, own, recv))
  BY AccountTypes, TwoLines, -own \in Int, own + (-own) = 0
  DEF Good, ThirdPartyLines
<1>4. Good(RepaymentLines(a, unit, own, recv))
  BY AccountTypes, TwoLines, -own \in Int, -own + own = 0
  DEF Good, RepaymentLines
<1> QED BY <1>1, <1>2, <1>3, <1>4

LEMMA IncomeLinesGood ==
  ASSUME NEW a \in Accounts, NEW unit \in Units, NEW amount \in Int,
         NEW own \in Int, NEW recv \in Nat
  PROVE  /\ Good(SoloIncomeLines(a, unit, amount))
         /\ Good(SharedIncomeLines(a, unit, amount, own, recv))
<1>1. Good(SoloIncomeLines(a, unit, amount))
  BY AccountTypes, TwoLines, -amount \in Int, amount + (-amount) = 0
  DEF Good, SoloIncomeLines
<1>2. Good(SharedIncomeLines(a, unit, amount, own, recv))
  BY AccountTypes, ThreeLines, -own \in Int, -(amount - own) \in Int,
     amount + (-own) + (-(amount - own)) = 0
  DEF Good, SharedIncomeLines
<1> QED BY <1>1, <1>2

LEMMA TransferLinesGood ==
  ASSUME NEW from \in Accounts, NEW to \in Accounts,
         NEW fromUnit \in Units, NEW toUnit \in Units,
         NEW sent \in Int, NEW received \in Int,
         fromUnit = toUnit => received = sent
  PROVE  Good(TransferLines(from, to, fromUnit, toUnit, sent, received))
<1>1. CASE fromUnit = toUnit
  <2>1. TransferLines(from, to, fromUnit, toUnit, sent, received)
          = << Post(Asset(from), fromUnit, -sent), Post(Asset(to), fromUnit, sent) >>
    BY <1>1 DEF TransferLines
  <2> QED
    BY <2>1, AccountTypes, TwoLines, -sent \in Int, -sent + sent = 0 DEF Good
<1>2. CASE fromUnit # toUnit
  <2>1. TransferLines(from, to, fromUnit, toUnit, sent, received)
          = << Post(Asset(from), fromUnit, -sent),
               Post(CurrencyExchange, fromUnit, sent),
               Post(CurrencyExchange, toUnit, -received),
               Post(Asset(to), toUnit, received) >>
    BY <1>2 DEF TransferLines
  <2> QED BY <2>1, AccountTypes, FourLines DEF Good
<1> QED BY <1>1, <1>2

LEMMA OpeningLinesGood ==
  ASSUME NEW a \in Accounts, NEW unit \in Units, NEW amount \in Int
  PROVE  Good(OpeningLines(a, unit, amount)) /\ Good(<< >>)
<1>1. Good(OpeningLines(a, unit, amount))
  BY AccountTypes, TwoLines, -amount \in Int, amount + (-amount) = 0
  DEF Good, OpeningLines
<1> QED BY <1>1, EmptyLines DEF Good

\* A repayment takes back what the third-party expense posted.
LEMMA RepaymentLinesSettle ==
  ASSUME NEW e, NEW r, NEW a, NEW unit, NEW other, NEW own \in Int, NEW recv,
         e.lines = ThirdPartyLines(unit, own, recv),
         r.lines = RepaymentLines(a, other, own, recv)
  PROVE  Settles(r, e)
<1>1. 2 \in LinesOn(e.lines, "RECEIVABLE") /\ 2 \in LinesOn(r.lines, "RECEIVABLE")
  BY DEF LinesOn, ThirdPartyLines, RepaymentLines, Post, Receivable
<1>2. e.lines[2].acct = r.lines[2].acct /\ e.lines[2].amt + r.lines[2].amt = 0
  BY DEF ThirdPartyLines, RepaymentLines, Post
<1> QED BY <1>1, <1>2 DEF Settles

------------------------------------------------------------------------------
\* The inductive invariant.

UniqueIds(txs) == \A t, u \in txs : t.id = u.id => t = u
Ordered(txs) == \A t \in txs : t.iid <= t.id
Below(txs, n) == \A t \in txs : t.id < n
Apart(txs, rows) == \A t \in txs, u \in rows : t.id # u.id

\* Rows a repayment link leads to are expenses, so that no edit of one takes
\* over an opening balance.
RepaysExpenses(d) ==
  \A l \in DebtLinks(d), t \in d.txs : t.id = l.linked => t.type = "EXPENSE"

\* A database, or the rows of one request, seen on its own.
Sound(d) ==
  /\ UniqueIds(d.txs)
  /\ Ordered(d.txs)
  /\ Balanced(d.txs)
  /\ Settled(d)
  /\ RepaysExpenses(d)

\* The rows with the given ids exist and can be edited with the form.
Editable(ids, txs) ==
  \A n \in ids : \E t \in txs : t.id = n /\ t.type # "OPENING_BALANCE"

PlanSound(p, txs) ==
  /\ Sound(p)
  /\ Chained(p.txs, txs)
  /\ p.acct # NoAccount => p.row \in AccountRow

ViewsInv ==
  \A s \in Sessions :
    /\ Sound(view[s])
    /\ view[s].txs \subseteq db.txs

PlansInv ==
  \A s \in Sessions :
    /\ PlanSound(plan[s], db.txs)
    /\ Below(plan[s].txs, nextId)
    /\ Apart(plan[s].txs, db.txs)
    /\ \A o \in Sessions \ {s} : Apart(plan[s].txs, plan[o].txs)

ShownInv ==
  \A s \in Sessions :
    /\ Editable(shown[s], db.txs)
    /\ pc[s] = "begun" => Editable(shown[s], view[s].txs)

LedgerInv ==
  /\ TypeOK
  /\ Sound(db)
  /\ Chained(db.txs, db.txs)
  /\ Below(db.txs, nextId)
  /\ ViewsInv
  /\ PlansInv
  /\ ShownInv

LEMMA EmptyPlan == NoPlan \in Plan /\ \A txs : PlanSound(NoPlan, txs)
BY NoAccountAssumption
DEF NoPlan, Plan, PlanSound, Sound, UniqueIds, Ordered, Balanced, Settled,
    RepaysExpenses, DebtLinks, Chained

LEMMA EmptyDatabase == EmptyDb \in Database /\ Sound(EmptyDb)
BY DEF EmptyDb, Database, Sound, UniqueIds, Ordered, Balanced, Settled,
       RepaysExpenses, DebtLinks

LEMMA InitInv == Init => LedgerInv
<1> SUFFICES ASSUME Init PROVE LedgerInv
  OBVIOUS
<1>1. TypeOK
  <2>1. db \in Database /\ view \in [Sessions -> Database]
    BY EmptyDatabase DEF Init
  <2>2. plan \in [Sessions -> Plan]
    BY EmptyPlan DEF Init
  <2>3. nextId \in 1 .. MaxId + 1 /\ nextName \in Nat \ {0}
    BY MaxIdAssumption DEF Init
  <2>4. /\ pc \in [Sessions -> {"idle", "begun", "written"}]
        /\ shown \in [Sessions -> SUBSET (1 .. MaxId)]
        /\ rateTrigger \in BOOLEAN
    BY DEF Init
  <2> QED BY <2>1, <2>2, <2>3, <2>4 DEF TypeOK
<1>2. db.txs = {} /\ \A s \in Sessions : view[s] = EmptyDb /\ plan[s] = NoPlan
  BY DEF Init, EmptyDb
<1>3. NoPlan.txs = {} /\ EmptyDb.txs = {}
  BY DEF NoPlan, EmptyDb
<1>4. Sound(db) /\ Chained(db.txs, db.txs) /\ Below(db.txs, nextId)
  BY <1>2, EmptyDatabase DEF Init, Chained, Below
<1>5. ViewsInv
  BY <1>2, <1>3, EmptyDatabase DEF ViewsInv
<1>6. PlansInv
  BY <1>2, <1>3, EmptyPlan DEF PlansInv, Below, Apart
<1>7. ShownInv
  BY DEF Init, ShownInv, Editable
<1> QED BY <1>1, <1>4, <1>5, <1>6, <1>7 DEF LedgerInv

------------------------------------------------------------------------------
\* The rows a request writes.

LEMMA WriteStep ==
  ASSUME LedgerInv, NEW s \in Sessions, NEW p \in Plan, NEW k \in Nat,
         Write(s, p, k), nextName' \in Nat \ {0}, PlanSound(p, db.txs),
         \A t \in p.txs : nextId <= t.id /\ t.id < nextId + k
  PROVE  LedgerInv'
<1>1. /\ UNCHANGED <<db, shown, view, rateTrigger>>
      /\ plan' = [plan EXCEPT ![s] = p]
      /\ pc' = [pc EXCEPT ![s] = "written"]
      /\ nextId' = nextId + k
      /\ nextId + k - 1 <= MaxId
  BY DEF Write
<1>2. TypeOK /\ nextId \in Nat /\ nextId <= nextId'
  BY <1>1, MaxIdAssumption DEF LedgerInv, TypeOK
<1>3. TypeOK'
  <2>1. nextId' \in 1 .. MaxId + 1
    BY <1>1, <1>2, MaxIdAssumption DEF TypeOK
  <2>2. plan' \in [Sessions -> Plan]
    BY <1>1, <1>2 DEF TypeOK
  <2>3. pc' \in [Sessions -> {"idle", "begun", "written"}]
    BY <1>1, <1>2 DEF TypeOK
  <2> QED BY <1>1, <1>2, <2>1, <2>2, <2>3 DEF TypeOK
<1>4. /\ plan'[s] = p
      /\ \A o \in Sessions \ {s} : plan'[o] = plan[o] /\ pc'[o] = pc[o]
      /\ pc'[s] = "written"
  BY <1>1, <1>2 DEF TypeOK
<1>5. \A t \in db.txs : t.id < nextId /\ t.id \in Nat
  BY <1>2 DEF LedgerInv, Below, TypeOK, Database, Transaction
<1>6. \A o \in Sessions : \A t \in plan[o].txs : t.id < nextId /\ t.id \in Nat
  BY <1>2 DEF LedgerInv, PlansInv, Below, TypeOK, Plan, Transaction
<1>7. \A t \in p.txs : t.id \in Nat
  BY DEF Plan, Transaction
<1>8. Below(db'.txs, nextId')
  BY <1>1, <1>2, <1>5 DEF Below
<1>9. PlansInv'
  <2> SUFFICES ASSUME NEW o \in Sessions
               PROVE  /\ PlanSound(plan'[o], db'.txs)
                      /\ Below(plan'[o].txs, nextId')
                      /\ Apart(plan'[o].txs, db'.txs)
                      /\ \A q \in Sessions \ {o} :
                           Apart(plan'[o].txs, plan'[q].txs)
    BY DEF PlansInv
  <2>1. CASE o = s
    <3>1. PlanSound(plan'[o], db'.txs) /\ Below(plan'[o].txs, nextId')
      BY <2>1, <1>1, <1>4 DEF Below
    <3>2. Apart(plan'[o].txs, db'.txs)
      BY <2>1, <1>1, <1>2, <1>4, <1>5, <1>7 DEF Apart
    <3>3. ASSUME NEW q \in Sessions \ {o} PROVE Apart(plan'[o].txs, plan'[q].txs)
      BY <2>1, <1>2, <1>4, <1>6, <1>7 DEF Apart
    <3> QED BY <3>1, <3>2, <3>3
  <2>2. CASE o # s
    <3>1. plan'[o] = plan[o]
      BY <2>2, <1>4
    <3>2. /\ PlanSound(plan[o], db.txs)
          /\ Apart(plan[o].txs, db.txs)
      BY DEF LedgerInv, PlansInv
    <3>3. Below(plan[o].txs, nextId')
      BY <1>2, <1>6, <1>3 DEF Below, TypeOK
    <3>4. ASSUME NEW q \in Sessions \ {o} PROVE Apart(plan'[o].txs, plan'[q].txs)
      <4>1. CASE q = s
        BY <4>1, <3>1, <1>2, <1>4, <1>6, <1>7 DEF Apart
      <4>2. CASE q # s
        BY <4>2, <3>1, <1>4 DEF LedgerInv, PlansInv
      <4> QED BY <4>1, <4>2
    <3> QED BY <1>1, <3>1, <3>2, <3>3, <3>4
  <2> QED BY <2>1, <2>2
<1>10. ShownInv'
  BY <1>1, <1>4 DEF LedgerInv, ShownInv
<1>11. ViewsInv' /\ Sound(db)' /\ Chained(db.txs, db.txs)'
  BY <1>1 DEF LedgerInv, ViewsInv
<1> QED BY <1>3, <1>8, <1>9, <1>10, <1>11 DEF LedgerInv

------------------------------------------------------------------------------
\* The life of a request keeps the invariant.

LEMMA OfferedRows ==
  ASSUME NEW d \in Database
  PROVE  Offered(d) \in SUBSET (1 .. MaxId) /\ Editable(Offered(d), d.txs)
<1>1. \A t \in LatestVersions(d) : t \in d.txs
  BY DEF LatestVersions, Heads
<1>2. \A n \in Offered(d) :
        \E t \in d.txs : t.id = n /\ t.type # "OPENING_BALANCE"
  BY <1>1 DEF Offered
<1>3. \A t \in d.txs : t.id \in 1 .. MaxId
  BY DEF Database, Transaction
<1> QED BY <1>2, <1>3 DEF Editable

\* Ending a request drops its rows and its snapshot.
LEMMA FinishInv ==
  ASSUME LedgerInv, NEW s \in Sessions, Finish(s), nextId' = nextId,
         db.txs \subseteq db'.txs,
         \A o \in Sessions \ {s} : Apart(plan[o].txs, db'.txs)
  PROVE  /\ ViewsInv' /\ PlansInv'
         /\ pc' \in [Sessions -> {"idle", "begun", "written"}]
         /\ view' \in [Sessions -> Database]
         /\ plan' \in [Sessions -> Plan]
<1>1. /\ pc' = [pc EXCEPT ![s] = "idle"]
      /\ view' = [view EXCEPT ![s] = EmptyDb]
      /\ plan' = [plan EXCEPT ![s] = NoPlan]
  BY DEF Finish
<1>2. /\ pc \in [Sessions -> {"idle", "begun", "written"}]
      /\ view \in [Sessions -> Database]
      /\ plan \in [Sessions -> Plan]
  BY DEF LedgerInv, TypeOK
<1>3. /\ pc' \in [Sessions -> {"idle", "begun", "written"}]
      /\ view' \in [Sessions -> Database]
      /\ plan' \in [Sessions -> Plan]
  BY <1>1, <1>2, EmptyPlan, EmptyDatabase
<1>4. /\ view'[s] = EmptyDb /\ plan'[s] = NoPlan
      /\ \A o \in Sessions \ {s} : view'[o] = view[o] /\ plan'[o] = plan[o]
  BY <1>1, <1>2
<1>5. EmptyDb.txs = {} /\ NoPlan.txs = {}
  BY DEF EmptyDb, NoPlan
<1>6. ViewsInv'
  <2> SUFFICES ASSUME NEW o \in Sessions
               PROVE  Sound(view'[o]) /\ view'[o].txs \subseteq db'.txs
    BY DEF ViewsInv, Sound, UniqueIds, Ordered, Balanced, Settled, RepaysExpenses
  <2>1. CASE o = s
    BY <2>1, <1>4, <1>5, EmptyDatabase
  <2>2. CASE o # s
    BY <2>2, <1>4 DEF LedgerInv, ViewsInv
  <2> QED BY <2>1, <2>2
<1>7. PlansInv'
  <2> SUFFICES ASSUME NEW o \in Sessions
               PROVE  /\ PlanSound(plan'[o], db'.txs)
                      /\ Below(plan'[o].txs, nextId')
                      /\ Apart(plan'[o].txs, db'.txs)
                      /\ \A q \in Sessions \ {o} :
                           Apart(plan'[o].txs, plan'[q].txs)
    BY DEF PlansInv
  <2>1. CASE o = s
    BY <2>1, <1>4, <1>5, EmptyPlan DEF Below, Apart
  <2>2. CASE o # s
    <3>1. plan'[o] = plan[o]
      BY <2>2, <1>4
    <3>2. /\ PlanSound(plan[o], db.txs)
          /\ Below(plan[o].txs, nextId)
          /\ \A q \in Sessions \ {o} : Apart(plan[o].txs, plan[q].txs)
      BY DEF LedgerInv, PlansInv
    <3>3. PlanSound(plan[o], db'.txs)
      BY <3>2 DEF PlanSound, Chained
    <3>4. \A q \in Sessions \ {o} : Apart(plan[o].txs, plan'[q].txs)
      BY <3>2, <1>4, <1>5 DEF Apart
    <3> QED BY <2>2, <3>1, <3>2, <3>3, <3>4
  <2> QED BY <2>1, <2>2
<1> QED BY <1>3, <1>6, <1>7

LEMMA BeginStep == ASSUME LedgerInv, NEW s \in Sessions, Begin(s) PROVE LedgerInv'
<1>1. /\ pc' = [pc EXCEPT ![s] = "begun"]
      /\ view' = [view EXCEPT ![s] = db]
      /\ UNCHANGED <<db, nextId, nextName, shown, plan, rateTrigger>>
  BY DEF Begin
<1>2. TypeOK
  BY DEF LedgerInv
<1>3. TypeOK'
  BY <1>1, <1>2 DEF TypeOK
<1>4. /\ view'[s] = db
      /\ \A o \in Sessions \ {s} : view'[o] = view[o] /\ pc'[o] = pc[o]
  BY <1>1, <1>2 DEF TypeOK
<1>5. ViewsInv'
  <2> SUFFICES ASSUME NEW o \in Sessions
               PROVE  Sound(view'[o]) /\ view'[o].txs \subseteq db'.txs
    BY DEF ViewsInv, Sound, UniqueIds, Ordered, Balanced, Settled, RepaysExpenses
  <2>1. CASE o = s
    BY <2>1, <1>1, <1>4 DEF LedgerInv
  <2>2. CASE o # s
    BY <2>2, <1>1, <1>4 DEF LedgerInv, ViewsInv
  <2> QED BY <2>1, <2>2
<1>6. ShownInv'
  BY <1>1, <1>4 DEF LedgerInv, ShownInv
<1>7. PlansInv' /\ Sound(db)' /\ Chained(db.txs, db.txs)' /\ Below(db.txs, nextId)'
  BY <1>1 DEF LedgerInv, PlansInv
<1> QED BY <1>3, <1>5, <1>6, <1>7 DEF LedgerInv

LEMMA LoadStep == ASSUME LedgerInv, NEW s \in Sessions, Load(s) PROVE LedgerInv'
<1>1. /\ shown' = [shown EXCEPT ![s] = Offered(db)]
      /\ UNCHANGED <<db, nextId, nextName, pc, view, plan, rateTrigger>>
      /\ pc[s] = "idle"
  BY DEF Load
<1>2. TypeOK /\ db \in Database
  BY DEF LedgerInv, TypeOK
<1>3. Offered(db) \in SUBSET (1 .. MaxId) /\ Editable(Offered(db), db.txs)
  BY <1>2, OfferedRows
<1>4. TypeOK'
  BY <1>1, <1>2, <1>3 DEF TypeOK
<1>5. /\ shown'[s] = Offered(db)
      /\ \A o \in Sessions \ {s} : shown'[o] = shown[o]
  BY <1>1, <1>2 DEF TypeOK
<1>6. ShownInv'
  BY <1>1, <1>3, <1>5 DEF LedgerInv, ShownInv
<1>7. /\ ViewsInv' /\ PlansInv' /\ Sound(db)'
      /\ Chained(db.txs, db.txs)' /\ Below(db.txs, nextId)'
  BY <1>1 DEF LedgerInv, ViewsInv, PlansInv
<1> QED BY <1>4, <1>6, <1>7 DEF LedgerInv

LEMMA RollbackStep ==
  ASSUME LedgerInv, NEW s \in Sessions, Rollback(s) PROVE LedgerInv'
<1>1. Finish(s) /\ UNCHANGED <<db, nextId, nextName, shown, rateTrigger>>
  BY DEF Rollback
<1>2. \A o \in Sessions \ {s} : Apart(plan[o].txs, db'.txs)
  BY <1>1 DEF LedgerInv, PlansInv
<1>3. /\ ViewsInv' /\ PlansInv'
      /\ pc' \in [Sessions -> {"idle", "begun", "written"}]
      /\ view' \in [Sessions -> Database]
      /\ plan' \in [Sessions -> Plan]
  BY <1>1, <1>2, FinishInv
<1>4. TypeOK'
  BY <1>1, <1>3 DEF LedgerInv, TypeOK
<1>5. /\ pc'[s] = "idle"
      /\ \A o \in Sessions \ {s} : pc'[o] = pc[o] /\ view'[o] = view[o]
  BY <1>1 DEF LedgerInv, TypeOK, Finish
<1>6. ShownInv'
  BY <1>1, <1>5 DEF LedgerInv, ShownInv
<1> QED BY <1>1, <1>3, <1>4, <1>6 DEF LedgerInv

LEMMA CommitStep == ASSUME LedgerInv, NEW s \in Sessions, Commit(s) PROVE LedgerInv'
<1> DEFINE p == plan[s]
<1>1. /\ Finish(s) /\ UNCHANGED <<nextId, nextName>>
      /\ db' = [txs |-> db.txs \cup p.txs,
                links |-> db.links \cup p.links,
                names |-> db.names \cup p.names,
                origins |-> db.origins \cup p.origins,
                acct |-> IF p.acct = NoAccount THEN db.acct
                         ELSE [db.acct EXCEPT ![p.acct] = p.row]]
      /\ shown' = [shown EXCEPT ![s] = Offered(db')]
      /\ rateTrigger' = (rateTrigger \/ p.newCurrency)
  BY DEF Commit
<1>2. TypeOK /\ p \in Plan /\ db \in Database
  BY DEF LedgerInv, TypeOK
<1>3. /\ PlanSound(p, db.txs) /\ Below(p.txs, nextId) /\ Apart(p.txs, db.txs)
      /\ \A o \in Sessions \ {s} :
           Apart(plan[o].txs, db.txs) /\ Apart(plan[o].txs, p.txs)
  BY DEF LedgerInv, PlansInv
<1>4. db' \in Database
  <2>1. p.acct # NoAccount => p.acct \in Accounts /\ p.row \in AccountRow
    BY <1>2, <1>3 DEF Plan, PlanSound
  <2>2. (IF p.acct = NoAccount THEN db.acct ELSE [db.acct EXCEPT ![p.acct] = p.row])
          \in [Accounts -> AccountRow \cup {NoAccount}]
    BY <1>2, <2>1 DEF Database
  <2> QED BY <1>1, <1>2, <2>2 DEF Database, Plan
<1>5. db'.txs = db.txs \cup p.txs /\ db'.links = db.links \cup p.links
  BY <1>1
<1>6. \A o \in Sessions \ {s} : Apart(plan[o].txs, db'.txs)
  BY <1>3, <1>5 DEF Apart
<1>7. /\ ViewsInv' /\ PlansInv'
      /\ pc' \in [Sessions -> {"idle", "begun", "written"}]
      /\ view' \in [Sessions -> Database]
      /\ plan' \in [Sessions -> Plan]
  BY <1>1, <1>5, <1>6, FinishInv
<1>8. Offered(db') \in SUBSET (1 .. MaxId) /\ Editable(Offered(db'), db'.txs)
  BY <1>4, OfferedRows
<1>9. TypeOK'
  BY <1>1, <1>2, <1>4, <1>7, <1>8 DEF TypeOK, Plan
<1>10. Sound(db) /\ Chained(db.txs, db.txs) /\ Below(db.txs, nextId)
  BY DEF LedgerInv
<1>11. /\ UniqueIds(db'.txs) /\ Ordered(db'.txs) /\ Balanced(db'.txs)
       /\ Chained(db'.txs, db'.txs) /\ Below(db'.txs, nextId')
  <2>1. UniqueIds(db'.txs)
    BY <1>3, <1>5, <1>10 DEF PlanSound, Sound, UniqueIds, Apart
  <2>2. Ordered(db'.txs) /\ Balanced(db'.txs) /\ Below(db'.txs, nextId')
    BY <1>1, <1>3, <1>5, <1>10 DEF PlanSound, Sound, Ordered, Balanced, Below
  <2>3. Chained(db'.txs, db'.txs)
    BY <1>3, <1>5, <1>10 DEF PlanSound, Chained
  <2> QED BY <2>1, <2>2, <2>3
<1>12. \A l \in DebtLinks(db') : l \in DebtLinks(db) \/ l \in DebtLinks(p)
  BY <1>5 DEF DebtLinks
<1>13. Settled(db')
  BY <1>3, <1>5, <1>10, <1>12 DEF PlanSound, Sound, Settled
<1>14. RepaysExpenses(db')
  <2> SUFFICES ASSUME NEW l \in DebtLinks(db'), NEW t \in db'.txs, t.id = l.linked
               PROVE  t.type = "EXPENSE"
    BY DEF RepaysExpenses
  <2>1. CASE l \in DebtLinks(db)
    <3>1. PICK r \in db.txs : r.id = l.linked
      BY <2>1, <1>10 DEF Sound, Settled
    <3>2. t \in db.txs
      BY <3>1, <1>3, <1>5 DEF Apart
    <3> QED BY <2>1, <3>2, <1>10 DEF Sound, RepaysExpenses
  <2>2. CASE l \in DebtLinks(p)
    <3>1. PICK r \in p.txs : r.id = l.linked
      BY <2>2, <1>3 DEF PlanSound, Sound, Settled
    <3>2. t \in p.txs
      BY <3>1, <1>3, <1>5 DEF Apart
    <3> QED BY <2>2, <3>2, <1>3 DEF PlanSound, Sound, RepaysExpenses
  <2> QED BY <2>1, <2>2, <1>12
<1>15. Sound(db)'
  BY <1>11, <1>13, <1>14 DEF Sound, UniqueIds, Ordered, Balanced, Settled,
     RepaysExpenses
<1>16. ShownInv'
  <2>1. /\ shown'[s] = Offered(db') /\ pc'[s] = "idle"
        /\ \A o \in Sessions \ {s} :
             shown'[o] = shown[o] /\ pc'[o] = pc[o] /\ view'[o] = view[o]
    BY <1>1, <1>2 DEF TypeOK, Finish
  <2>2. \A o \in Sessions : Editable(shown'[o], db'.txs)
    BY <2>1, <1>5, <1>8 DEF LedgerInv, ShownInv, Editable
  <2> QED BY <2>1, <2>2 DEF LedgerInv, ShownInv
<1> QED BY <1>7, <1>9, <1>11, <1>15, <1>16 DEF LedgerInv

------------------------------------------------------------------------------
\* What the write primitives return.

\* A row with iid that supersedes sup (or nothing) continues an event of v.
Revises(v, sup, iid, opening) ==
  sup # NoId =>
    \E u \in v.txs :
      /\ u.id = sup
      /\ u.iid = iid
      /\ (u.type = "OPENING_BALANCE") = opening

LEMMA TxOfFound ==
  ASSUME NEW d, NEW id, \E t \in d.txs : t.id = id
  PROVE  TxOf(d, id) \in d.txs /\ TxOf(d, id).id = id
BY DEF TxOf

LEMMA IidsBounded ==
  ASSUME NEW v \in Database, Ordered(v.txs), NEW n \in Nat, n # 0, Below(v.txs, n)
  PROVE  \A t \in v.txs : t.iid \in 1 .. n - 1 /\ t.id \in 1 .. n - 1
<1> SUFFICES ASSUME NEW t \in v.txs
             PROVE  t.iid \in 1 .. n - 1 /\ t.id \in 1 .. n - 1
  OBVIOUS
<1>1. t \in Transaction
  BY DEF Database
<1>2. t.id \in Nat /\ t.iid \in Nat /\ t.iid >= 1 /\ t.id >= 1
  BY <1>1, MaxIdAssumption DEF Transaction
<1>3. t.iid <= t.id /\ t.id < n
  BY DEF Ordered, Below
<1> QED BY <1>2, <1>3

LEMMA AllocateIIDResult ==
  ASSUME NEW v \in Database, Ordered(v.txs), NEW n \in Nat, n # 0,
         Below(v.txs, n), NEW sup,
         sup # NoId => \E t \in v.txs : t.id = sup /\ t.type # "OPENING_BALANCE"
  PROVE  /\ AllocateIID(v, sup) \in 1 .. n
         /\ UniqueIds(v.txs) => Revises(v, sup, AllocateIID(v, sup), FALSE)
<1>1. \A t \in v.txs : t.iid \in 1 .. n - 1
  BY IidsBounded
<1>2. CASE sup # NoId
  <2>1. TxOf(v, sup) \in v.txs /\ TxOf(v, sup).id = sup
    BY <1>2, TxOfFound
  <2>2. AllocateIID(v, sup) = TxOf(v, sup).iid
    BY <1>2 DEF AllocateIID
  <2>3. UniqueIds(v.txs) => TxOf(v, sup).type # "OPENING_BALANCE"
    BY <1>2, <2>1 DEF UniqueIds
  <2> QED BY <1>1, <2>1, <2>2, <2>3 DEF Revises
<1>3. CASE sup = NoId
  <2> DEFINE I == {t.iid : t \in v.txs}
  <2>1. I \subseteq 0 .. n - 1 /\ n - 1 \in Nat
    BY <1>1
  <2>2. Max0(I) \in 0 .. n - 1
    BY <2>1, Max0Bounds
  <2>3. AllocateIID(v, sup) = Max0(I) + 1
    BY <1>3 DEF AllocateIID
  <2> QED BY <1>3, <2>2, <2>3 DEF Revises
<1> QED BY <1>2, <1>3

LEMMA RepaymentSupersedesResult ==
  ASSUME NEW v \in Database, Sound(v), NEW n \in Nat, n # 0, Below(v.txs, n),
         NEW e, e.iid \in 1 .. n
  PROVE  /\ RepaymentSupersedes(v, e).iid \in 1 .. n + 1
         /\ RepaymentSupersedes(v, e).sup # NoId =>
              RepaymentSupersedes(v, e).sup \in 1 .. n - 1
         /\ Revises(v, RepaymentSupersedes(v, e).sup,
                    RepaymentSupersedes(v, e).iid, FALSE)
<1> DEFINE old == {l.linked : l \in {k \in DebtLinks(v) : k.source = e.sup}}
<1>1. \A t \in v.txs : t.iid \in 1 .. n - 1 /\ t.id \in 1 .. n - 1
  BY IidsBounded DEF Sound
<1>2. CASE e.sup = NoId \/ old = {}
  <2> DEFINE I == {t.iid : t \in v.txs \cup {e}}
  <2>1. I \subseteq 0 .. n
    BY <1>1
  <2>2. Max0(I) \in 0 .. n
    BY <2>1, Max0Bounds
  <2>3. RepaymentSupersedes(v, e) = [sup |-> NoId, iid |-> Max0(I) + 1]
    BY <1>2 DEF RepaymentSupersedes
  <2> QED BY <2>2, <2>3 DEF Revises
<1>3. CASE e.sup # NoId /\ old # {}
  <2>1. PICK r \in old :
          RepaymentSupersedes(v, e) = [sup |-> r, iid |-> TxOf(v, r).iid]
    BY <1>3 DEF RepaymentSupersedes
  <2>2. PICK l \in DebtLinks(v) : r = l.linked
    BY <2>1
  <2>3. \E t \in v.txs : t.id = r
    BY <2>2 DEF Sound, Settled
  <2>4. PICK u \in v.txs : u = TxOf(v, r) /\ u.id = r
    BY <2>3, TxOfFound
  <2>5. u.type = "EXPENSE"
    BY <2>2, <2>4 DEF Sound, RepaysExpenses
  <2>6. RepaymentSupersedes(v, e).sup = r /\ RepaymentSupersedes(v, e).iid = u.iid
    BY <2>1, <2>4
  <2>7. u.iid \in 1 .. n - 1 /\ r \in 1 .. n - 1
    BY <1>1, <2>4
  <2>8. Revises(v, r, u.iid, FALSE)
    BY <2>4, <2>5 DEF Revises
  <2>9. u.iid \in 1 .. n + 1
    BY <2>7
  <2> QED BY <2>6, <2>7, <2>8, <2>9
<1> QED BY <1>2, <1>3

LEMMA GetOrCreateResult ==
  ASSUME NEW v \in Database, NEW table, NEW name, NEW fresh \in Nat
  PROVE  GetOrCreate(v, table, name, fresh) \in Nat
<1> DEFINE N == Named(v, table, name)
<1>1. \A r \in N : r.id \in Nat
  BY DEF Named, Database, Name
<1>2. N # {} => MinId(N) \in Nat
  BY <1>1, MinIdBounds
<1> QED BY <1>2 DEF GetOrCreate

LEMMA CreatedResult ==
  ASSUME NEW v, NEW table \in {"RECEIVABLE", "TRIP", "TAG"},
         NEW name \in People \cup Tags \cup {TripKey[t] : t \in Trips},
         NEW fresh \in Nat \ {0}
  PROVE  Created(v, table, name, fresh) \in SUBSET Name
BY DEF Created, Name

LEMMA RowType ==
  ASSUME NEW id \in 1 .. MaxId, NEW iid \in 1 .. MaxId,
         NEW type \in TransactionTypes, NEW sup \in 0 .. MaxId,
         NEW lines \in Seq(EntryLine)
  PROVE  Row(id, iid, type, sup, lines) \in Transaction
BY DEF Row, Transaction, NoId

\* x is the row o, up to its trip, its tag and isVoid.
SameRow(x, o) ==
  /\ x.id = o.id
  /\ x.iid = o.iid
  /\ x.type = o.type
  /\ x.sup = o.sup
  /\ x.lines = o.lines

LEMMA StoredType ==
  ASSUME NEW t \in Transaction, NEW trip \in Nat, NEW tag \in Nat
  PROVE  /\ InsertTransactionRow([t EXCEPT !.trip = trip, !.tag = tag])
              \in Transaction
         /\ SameRow(InsertTransactionRow([t EXCEPT !.trip = trip, !.tag = tag]), t)
BY DEF Transaction, InsertTransactionRow, SameRow

LEMMA InsertType ==
  ASSUME NEW t \in Transaction
  PROVE  InsertTransactionRow(t) \in Transaction /\ SameRow(InsertTransactionRow(t), t)
BY DEF Transaction, InsertTransactionRow, SameRow

------------------------------------------------------------------------------
\* A form's rows.

NewRow(s, x, k) ==
  /\ x.id \in Nat
  /\ nextId <= x.id /\ x.id <= nextId + k
  /\ x.iid <= x.id
  /\ x.type # "OPENING_BALANCE"
  /\ LinesBalance(x.lines)
  /\ Revises(view[s], x.sup, x.iid, FALSE)

\* Debt links join the form's row to a repayment written with it.
PaysBack(links, t, others) ==
  \A l \in links : l.type = "DEBT_SETTLING" =>
    /\ l.source = t.id
    /\ \E r \in others : l.linked = r.id /\ r.type = "EXPENSE" /\ Settles(r, t)

LEMMA NewRowContinues ==
  ASSUME LedgerInv, NEW s \in Sessions, NEW k \in Nat, NEW x,
         NewRow(s, x, k), x.sup # NoId
  PROVE  \E u \in db.txs : Continues(x, u)
<1>1. PICK u \in view[s].txs :
        u.id = x.sup /\ u.iid = x.iid /\ (u.type = "OPENING_BALANCE") = FALSE
  BY DEF NewRow, Revises
<1>2. u \in db.txs
  BY <1>1 DEF LedgerInv, ViewsInv
<1>3. u.id < nextId /\ u.id \in Nat /\ nextId \in Nat
  BY <1>2, MaxIdAssumption DEF LedgerInv, Below, TypeOK, Database, Transaction
<1>5. u.id < x.id
  BY <1>3 DEF NewRow
<1>6. (u.type = "OPENING_BALANCE") = (x.type = "OPENING_BALANCE")
  BY <1>1 DEF NewRow
<1> QED BY <1>1, <1>2, <1>5, <1>6 DEF Continues

\* What a form has to know of the rows and links it hands to WriteForm.
FormOK(s, t, others, links, k) ==
  /\ Cardinality(others) = k
  /\ nextId + k <= MaxId =>
       /\ t \in Transaction
       /\ others \in SUBSET Transaction
       /\ links \in SUBSET Link
  /\ \A x \in {t} \cup others : NewRow(s, x, k)
  /\ UniqueIds(others)
  /\ \A o \in others : o.id # t.id
  /\ PaysBack(links, t, others)

LEMMA FormStep ==
  ASSUME LedgerInv, NEW s \in Sessions, NEW k \in Nat, NEW t, NEW others,
         NEW links, FormOK(s, t, others, links, k),
         NEW recv \in SUBSET Name,
         NEW trip \in Trips \cup {NoName}, NEW tag \in Tags \cup {NoName},
         NEW origins \in SUBSET Events,
         WriteForm(s, t, others, links, recv, trip, tag, origins)
  PROVE  LedgerInv'
<1> DEFINE v == view[s]
           tripId == IF trip = NoName THEN NoId
                     ELSE GetOrCreate(v, "TRIP", TripKey[trip], nextName + 1)
           newTrip == IF trip = NoName THEN {}
                      ELSE Created(v, "TRIP", TripKey[trip], nextName + 1)
           tagId == IF tag = NoName THEN NoId
                    ELSE GetOrCreate(v, "TAG", tag, nextName + 2)
           newTag == IF tag = NoName THEN {}
                     ELSE Created(v, "TAG", tag, nextName + 2)
           row == InsertTransactionRow([t EXCEPT !.trip = tripId, !.tag = tagId])
           rest == {InsertTransactionRow(o) : o \in others}
           keys == {[tx |-> t.id, key |-> e] : e \in origins}
           p == [NoPlan EXCEPT !.txs = {row} \cup rest,
                   !.links = links,
                   !.names = recv \cup newTrip \cup newTag,
                   !.origins = keys]
<1>0. /\ nextId + k <= MaxId =>
           /\ t \in Transaction
           /\ others \in SUBSET Transaction
           /\ links \in SUBSET Link
      /\ \A x \in {t} \cup others : NewRow(s, x, k)
      /\ UniqueIds(others)
      /\ \A o \in others : o.id # t.id
      /\ PaysBack(links, t, others)
  BY DEF FormOK
<1>1. Write(s, p, 1 + k) /\ nextName' = nextName + 3
  BY DEF WriteForm, FormOK
<1>2. /\ nextName \in Nat /\ nextId \in Nat /\ nextName # 0
      /\ v \in Database /\ MaxId \in Nat
  BY MaxIdAssumption DEF LedgerInv, TypeOK
<1>3. nextId + k <= MaxId
  BY <1>1, <1>2 DEF Write
<1>4. /\ t \in Transaction
      /\ others \in SUBSET Transaction
      /\ links \in SUBSET Link
  BY <1>0, <1>3
<1>5. tripId \in Nat /\ tagId \in Nat
  <2>1. nextName + 1 \in Nat /\ nextName + 2 \in Nat
    BY <1>2
  <2> QED BY <1>2, <2>1, GetOrCreateResult DEF NoId
<1>6. newTrip \in SUBSET Name /\ newTag \in SUBSET Name
  <2>1. nextName + 1 \in Nat \ {0} /\ nextName + 2 \in Nat \ {0}
    BY <1>2
  <2>2. CASE trip # NoName /\ trip \in Trips
    <3>1. TripKey[trip] \in People \cup Tags \cup {TripKey[x] : x \in Trips}
      BY <2>2
    <3>2. newTrip \in SUBSET Name
      BY <2>1, <3>1, CreatedResult
    <3>3. tag # NoName => newTag \in SUBSET Name
      BY <2>1, CreatedResult
    <3> QED BY <3>2, <3>3
  <2>3. CASE trip = NoName
    <3>1. tag # NoName => newTag \in SUBSET Name
      BY <2>1, CreatedResult
    <3> QED BY <2>3, <3>1
  <2> QED BY <2>2, <2>3
<1>7. row \in Transaction /\ SameRow(row, t)
  BY <1>4, <1>5, StoredType
<1>8. \A x \in rest : x \in Transaction /\ \E o \in others :
        SameRow(x, o) /\ x = InsertTransactionRow(o)
  BY <1>4, InsertType
<1>9. \A o \in others : \E x \in rest : SameRow(x, o)
  BY <1>4, InsertType
<1> HIDE DEF row, rest, tripId, newTrip, tagId, newTag
<1>10. keys \in SUBSET Origin
  BY <1>4 DEF Transaction, Origin
<1> HIDE DEF keys
<1>11. /\ p.txs = {row} \cup rest /\ p.links = links
       /\ p.acct = NoAccount
       /\ p \in Plan
  BY <1>4, <1>6, <1>7, <1>8, <1>10 DEF NoPlan, Plan
<1> HIDE DEF p
<1>12. \A x \in p.txs : \E o \in {t} \cup others : SameRow(x, o)
  BY <1>7, <1>8, <1>11
<1>13. ASSUME NEW x \in p.txs PROVE NewRow(s, x, k)
  <2>1. PICK o \in {t} \cup others : SameRow(x, o)
    BY <1>12
  <2>2. NewRow(s, o, k)
    BY <1>0
  <2>3. /\ x.id = o.id /\ x.iid = o.iid /\ x.type = o.type
        /\ x.sup = o.sup /\ x.lines = o.lines
    BY <2>1 DEF SameRow
  <2> QED BY <2>2, <2>3 DEF NewRow
<1>14. UniqueIds(p.txs)
  <2> SUFFICES ASSUME NEW x \in p.txs, NEW y \in p.txs, x.id = y.id
               PROVE  x = y
    BY DEF UniqueIds
  <2>1. CASE x = row /\ y = row
    BY <2>1
  <2>2. CASE x \in rest /\ y \in rest
    <3>1. PICK o \in others : x.id = o.id /\ x = InsertTransactionRow(o)
      BY <2>2, <1>8 DEF SameRow
    <3>2. PICK q \in others : y.id = q.id /\ y = InsertTransactionRow(q)
      BY <2>2, <1>8 DEF SameRow
    <3>3. o = q
      BY <1>0, <3>1, <3>2 DEF UniqueIds
    <3> QED BY <3>1, <3>2, <3>3
  <2>3. CASE x = row /\ y \in rest
    BY <1>0, <2>3, <1>7, <1>8 DEF SameRow
  <2>4. CASE x \in rest /\ y = row
    BY <1>0, <2>4, <1>7, <1>8 DEF SameRow
  <2> QED BY <2>1, <2>2, <2>3, <2>4, <1>11
<1>15. Sound(p) /\ Chained(p.txs, db.txs)
  <2>1. Ordered(p.txs) /\ Balanced(p.txs)
    BY <1>13 DEF Ordered, Balanced, NewRow
  <2>2. Chained(p.txs, db.txs)
    BY <1>13, NewRowContinues DEF Chained
  <2>3. ASSUME NEW l \in DebtLinks(p)
        PROVE  \E x \in rest : /\ l.source = row.id /\ l.linked = x.id
                              /\ x.type = "EXPENSE" /\ Settles(x, row)
    <3>1. PICK r \in others : /\ l.source = t.id /\ l.linked = r.id
                              /\ r.type = "EXPENSE" /\ Settles(r, t)
      BY <1>0, <1>11 DEF DebtLinks, PaysBack
    <3>2. PICK x \in rest : SameRow(x, r)
      BY <1>9
    <3>3. Settles(x, row)
      BY <3>1, <3>2, <1>7 DEF Settles, LinesOn, SameRow
    <3> QED BY <3>1, <3>2, <3>3, <1>7 DEF SameRow
  <2>4. Settled(p)
    BY <2>3, <1>11 DEF Settled
  <2>5. RepaysExpenses(p)
    BY <2>3, <1>11, <1>14 DEF RepaysExpenses, UniqueIds
  <2> QED BY <1>14, <2>1, <2>2, <2>4, <2>5 DEF Sound
<1>16. PlanSound(p, db.txs)
  BY <1>11, <1>15 DEF PlanSound
<1>17. \A x \in p.txs : nextId <= x.id /\ x.id < nextId + (1 + k)
  <2> SUFFICES ASSUME NEW x \in p.txs
               PROVE  nextId <= x.id /\ x.id < nextId + (1 + k)
    OBVIOUS
  <2>1. x.id \in Nat /\ nextId <= x.id /\ x.id <= nextId + k
    BY <1>13 DEF NewRow
  <2> QED BY <1>2, <2>1
<1>18. nextName' \in Nat \ {0} /\ 1 + k \in Nat
  BY <1>1, <1>2
<1> QED BY <1>1, <1>11, <1>16, <1>17, <1>18, WriteStep

------------------------------------------------------------------------------
\* The forms.

LEMMA InputsResult ==
  ASSUME LedgerInv, NEW s \in Sessions, pc[s] = "begun", NEW i \in Inputs(s)
  PROVE  /\ i.sup \in 0 .. MaxId
         /\ i.tag \in Tags \cup {NoName}
         /\ i.origins \in SUBSET Events
         /\ i.sup # NoId =>
              \E u \in view[s].txs : u.id = i.sup /\ u.type # "OPENING_BALANCE"
         /\ AllocateIID(view[s], i.sup) \in 1 .. nextId
         /\ Revises(view[s], i.sup, AllocateIID(view[s], i.sup), FALSE)
<1>1. i.sup \in {NoId} \cup shown[s] /\ i.tag \in Tags \cup {NoName}
      /\ i.origins \in SUBSET Events
  BY DEF Inputs
<1>2. /\ view[s] \in Database /\ shown[s] \in SUBSET (1 .. MaxId)
      /\ nextId \in Nat /\ nextId # 0
  BY MaxIdAssumption DEF LedgerInv, TypeOK
<1>3. /\ Ordered(view[s].txs) /\ UniqueIds(view[s].txs)
      /\ view[s].txs \subseteq db.txs
  BY DEF LedgerInv, ViewsInv, Sound
<1>4. Below(view[s].txs, nextId)
  BY <1>3 DEF LedgerInv, Below
<1>5. i.sup # NoId =>
        \E u \in view[s].txs : u.id = i.sup /\ u.type # "OPENING_BALANCE"
  BY <1>1 DEF LedgerInv, ShownInv, Editable
<1>6. /\ AllocateIID(view[s], i.sup) \in 1 .. nextId
      /\ Revises(view[s], i.sup, AllocateIID(view[s], i.sup), FALSE)
  BY <1>2, <1>3, <1>4, <1>5, AllocateIIDResult
<1>7. i.sup \in 0 .. MaxId
  BY <1>1, <1>2, MaxIdAssumption DEF NoId
<1> QED BY <1>1, <1>5, <1>6, <1>7

LEMMA UnitOfResult ==
  ASSUME LedgerInv, NEW s \in Sessions, NEW a \in Existing(view[s])
  PROVE  a \in Accounts /\ UnitOf(view[s], a) \in Units
<1>1. view[s] \in Database
  BY DEF LedgerInv, TypeOK
<1>2. a \in Accounts /\ view[s].acct[a] # NoAccount
  BY DEF Existing
<1>3. view[s].acct[a] \in AccountRow
  BY <1>1, <1>2 DEF Database
<1> QED BY <1>2, <1>3 DEF UnitOf, AccountRow

LEMMA FormRowType ==
  ASSUME LedgerInv, NEW s \in Sessions, pc[s] = "begun", NEW i \in Inputs(s),
         nextId <= MaxId, NEW type \in TransactionTypes, NEW lines, Good(lines)
  PROVE  Row(nextId, AllocateIID(view[s], i.sup), type, i.sup, lines) \in Transaction
<1>1. nextId \in 1 .. MaxId
  BY MaxIdAssumption DEF LedgerInv, TypeOK
<1>2. AllocateIID(view[s], i.sup) \in 1 .. nextId /\ i.sup \in 0 .. MaxId
  BY InputsResult
<1>3. AllocateIID(view[s], i.sup) \in 1 .. MaxId
  BY <1>1, <1>2, MaxIdAssumption
<1> QED BY <1>1, <1>2, <1>3, RowType DEF Good

\* A form row that stands alone.
LEMMA OneRowOK ==
  ASSUME LedgerInv, NEW s \in Sessions, pc[s] = "begun", NEW i \in Inputs(s),
         NEW type, type \in TransactionTypes \ {"OPENING_BALANCE"},
         NEW lines, Good(lines), NEW t,
         SameRow(t, Row(nextId, AllocateIID(view[s], i.sup), type, i.sup, lines)),
         nextId <= MaxId => t \in Transaction,
         NEW links, nextId <= MaxId => links \in SUBSET Link,
         \A l \in links : l.type # "DEBT_SETTLING"
  PROVE  FormOK(s, t, {}, links, 0)
<1>1. nextId \in Nat
  BY MaxIdAssumption DEF LedgerInv, TypeOK
<1>2. /\ t.id = nextId /\ t.iid = AllocateIID(view[s], i.sup) /\ t.type = type
      /\ t.sup = i.sup /\ t.lines = lines
  BY DEF SameRow, Row
<1>3. NewRow(s, t, 0)
  <2>1. /\ AllocateIID(view[s], i.sup) \in 1 .. nextId
        /\ Revises(view[s], i.sup, AllocateIID(view[s], i.sup), FALSE)
    BY InputsResult
  <2>2. t.iid <= t.id /\ nextId <= t.id /\ t.id <= nextId + 0
    BY <1>1, <1>2, <2>1
  <2> QED BY <1>1, <1>2, <2>1, <2>2 DEF NewRow, Good
<1>4. Cardinality({}) = 0
  BY FS_EmptySet
<1>5. UniqueIds({}) /\ PaysBack(links, t, {}) /\ {} \in SUBSET Transaction
  BY DEF UniqueIds, PaysBack
<1>6. nextId + 0 <= MaxId => nextId <= MaxId
  BY <1>1
<1> QED BY <1>3, <1>4, <1>5, <1>6 DEF FormOK

LEMMA PaidSelfStep ==
  ASSUME LedgerInv, NEW s \in Sessions, WriteExpensePaidSelf(s)
  PROVE  LedgerInv'
<1>1. PICK i \in Inputs(s), trip \in Trips \cup {NoName},
           a \in Existing(view[s]), amount \in Amounts :
        WriteForm(s,
          Row(nextId, AllocateIID(view[s], i.sup), "EXPENSE", i.sup,
              PaidSelfLines(a, UnitOf(view[s], a), amount)),
          {}, {}, {}, trip, i.tag, i.origins)
  BY DEF WriteExpensePaidSelf
<1> DEFINE lines == PaidSelfLines(a, UnitOf(view[s], a), amount)
           t == Row(nextId, AllocateIID(view[s], i.sup), "EXPENSE", i.sup, lines)
<1>2. pc[s] = "begun" /\ "EXPENSE" \in TransactionTypes \ {"OPENING_BALANCE"}
  BY DEF WriteExpensePaidSelf, Ready, TransactionTypes
<1>3. Good(lines)
  BY UnitOfResult, ExpenseLinesGood, AmountsAssumption, 0 \in Int
<1> HIDE DEF lines
<1>4. nextId <= MaxId => t \in Transaction
  BY <1>2, <1>3, FormRowType
<1>5. SameRow(t, t)
  BY DEF SameRow
<1>6. FormOK(s, t, {}, {}, 0)
  BY <1>2, <1>3, <1>4, <1>5, OneRowOK
<1>7. i.tag \in Tags \cup {NoName} /\ i.origins \in SUBSET Events
  BY <1>2, InputsResult
<1>8. {} \in SUBSET Name /\ WriteForm(s, t, {}, {}, {}, trip, i.tag, i.origins)
  BY <1>1 DEF lines
<1> QED BY <1>6, <1>7, <1>8, FormStep


LEMMA SplitsType ==
  ASSUME NEW t, NEW x \in SUBSET Split,
         NEW id, NEW iid, NEW type, NEW sup, NEW lines,
         t = Row(id, iid, type, sup, lines)
  PROVE  /\ SameRow([t EXCEPT !.splits = x], t)
         /\ t \in Transaction => [t EXCEPT !.splits = x] \in Transaction
BY DEF Row, SameRow, Transaction

LEMMA SplitType ==
  ASSUME NEW who \in People, NEW amount \in Amounts, NEW own \in 0 .. amount,
         NEW paid \in Int
  PROVE  {[who |-> who, share |-> amount - own, paid |-> paid]} \in SUBSET Split
<1>1. amount \in Int /\ own \in Int
  BY AmountsAssumption
<1>2. amount - own \in Int
  BY <1>1
<1> QED BY <1>2 DEF Split

LEMMA ReceivableResult ==
  ASSUME LedgerInv, NEW s \in Sessions, NEW who \in People
  PROVE  /\ GetOrCreate(view[s], "RECEIVABLE", who, nextName) \in Nat
         /\ Created(view[s], "RECEIVABLE", who, nextName) \in SUBSET Name
<1>1. view[s] \in Database /\ nextName \in Nat /\ nextName \in Nat \ {0}
  BY DEF LedgerInv, TypeOK
<1>2. GetOrCreate(view[s], "RECEIVABLE", who, nextName) \in Nat
  BY <1>1, GetOrCreateResult
<1>3. Created(view[s], "RECEIVABLE", who, nextName) \in SUBSET Name
  BY <1>1, CreatedResult
<1> QED BY <1>2, <1>3

\* The write of one shared expense, its inputs chosen.
SharedForm(s, i, trip, who, a, amount, own) ==
  LET recv == GetOrCreate(view[s], "RECEIVABLE", who, nextName)
      row == Row(nextId, AllocateIID(view[s], i.sup), "EXPENSE", i.sup,
                 PaidSelfSharedLines(a, UnitOf(view[s], a), amount,
                                     own, recv))
  IN  WriteForm(s,
        [row EXCEPT !.splits =
           {[who |-> who, share |-> amount - own, paid |-> 0]}],
        {}, {}, Created(view[s], "RECEIVABLE", who, nextName),
        trip, i.tag, i.origins)

LEMMA SharedStep ==
  ASSUME LedgerInv, NEW s \in Sessions, WriteExpenseShared(s)
  PROVE  LedgerInv'
<1>1. PICK i \in Inputs(s), trip \in Trips \cup {NoName}, who \in People,
           a \in Existing(view[s]), amount \in Amounts :
        \E own \in 0 .. amount : SharedForm(s, i, trip, who, a, amount, own)
  BY DEF WriteExpenseShared, SharedForm
<1>0. PICK own \in 0 .. amount : SharedForm(s, i, trip, who, a, amount, own)
  BY <1>1
<1> DEFINE recv == GetOrCreate(view[s], "RECEIVABLE", who, nextName)
           made == Created(view[s], "RECEIVABLE", who, nextName)
           lines == PaidSelfSharedLines(a, UnitOf(view[s], a), amount, own, recv)
           row == Row(nextId, AllocateIID(view[s], i.sup), "EXPENSE", i.sup, lines)
           splits == {[who |-> who, share |-> amount - own, paid |-> 0]}
           t == [row EXCEPT !.splits = splits]
<1>2. pc[s] = "begun" /\ "EXPENSE" \in TransactionTypes \ {"OPENING_BALANCE"}
  BY DEF WriteExpenseShared, Ready, TransactionTypes
<1>3. made \in SUBSET Name /\ recv \in Nat /\ amount \in Int /\ own \in Int
  BY ReceivableResult, AmountsAssumption
<1>4. splits \in SUBSET Split
  BY SplitType, 0 \in Int
<1>5. WriteForm(s, t, {}, {}, made, trip, i.tag, i.origins)
  BY <1>0 DEF SharedForm
<1> HIDE DEF made, recv, splits
<1>6. Good(lines)
  BY <1>3, UnitOfResult, ExpenseLinesGood
<1> HIDE DEF lines
<1>7. nextId <= MaxId => row \in Transaction
  BY <1>2, <1>6, FormRowType
<1>8. SameRow(t, row) /\ (nextId <= MaxId => t \in Transaction)
  BY <1>4, <1>7, SplitsType
<1> HIDE DEF t
<1>9. FormOK(s, t, {}, {}, 0)
  BY <1>2, <1>6, <1>8, OneRowOK
<1>10. i.tag \in Tags \cup {NoName} /\ i.origins \in SUBSET Events
  BY <1>2, InputsResult
<1> QED BY <1>3, <1>5, <1>9, <1>10, FormStep

\* The row both kinds of third-party expense write.
LEMMA ThirdPartyRowResult ==
  ASSUME LedgerInv, NEW s \in Sessions, pc[s] = "begun", NEW i \in Inputs(s),
         NEW who \in People, NEW unit \in Currencies, NEW amount \in Amounts,
         NEW own \in 0 .. amount
  PROVE  LET recv == GetOrCreate(view[s], "RECEIVABLE", who, nextName)
             lines == ThirdPartyLines(unit, own, recv)
             row == Row(nextId, AllocateIID(view[s], i.sup),
                        "THIRD_PARTY_EXPENSE", i.sup, lines)
             t == ThirdPartyRow(s, i, who, unit, amount, own)
         IN  /\ Good(lines)
             /\ SameRow(t, row)
             /\ nextId <= MaxId => t \in Transaction
<1> DEFINE recv == GetOrCreate(view[s], "RECEIVABLE", who, nextName)
           lines == ThirdPartyLines(unit, own, recv)
           row == Row(nextId, AllocateIID(view[s], i.sup),
                      "THIRD_PARTY_EXPENSE", i.sup, lines)
           splits == {[who |-> who, share |-> amount - own, paid |-> amount]}
           t == ThirdPartyRow(s, i, who, unit, amount, own)
<1>1. recv \in Nat /\ amount \in Int /\ own \in Int /\ unit \in Units
  BY ReceivableResult, AmountsAssumption DEF Units
<1>2. "THIRD_PARTY_EXPENSE" \in TransactionTypes
  BY DEF TransactionTypes
<1>3. splits \in SUBSET Split
  BY <1>1, SplitType
<1>4. t = [row EXCEPT !.splits = splits]
  BY DEF ThirdPartyRow
<1> HIDE DEF t, splits, recv
<1>5. Good(lines)
  <2>1. CASE Accounts # {}
    BY <2>1, <1>1, ExpenseLinesGood
  <2>2. CASE Accounts = {}
    BY <1>1, AccountTypes, TwoLines, -own \in Int, own + (-own) = 0
    DEF Good, ThirdPartyLines
  <2> QED BY <2>1, <2>2
<1> HIDE DEF lines
<1>6. nextId <= MaxId => row \in Transaction
  BY <1>2, <1>5, FormRowType
<1>7. SameRow(t, row) /\ (nextId <= MaxId => t \in Transaction)
  BY <1>3, <1>4, <1>6, SplitsType
<1> QED BY <1>5, <1>7 DEF lines, recv, t

LEMMA OwedStep ==
  ASSUME LedgerInv, NEW s \in Sessions, WriteExpenseOwed(s)
  PROVE  LedgerInv'
<1>1. PICK i \in Inputs(s), trip \in Trips \cup {NoName}, who \in People,
           unit \in Currencies, amount \in Amounts :
        \E own \in 0 .. amount :
          WriteForm(s, ThirdPartyRow(s, i, who, unit, amount, own),
            {}, {}, Created(view[s], "RECEIVABLE", who, nextName),
            trip, i.tag, i.origins)
  BY DEF WriteExpenseOwed
<1>0. PICK own \in 0 .. amount :
        WriteForm(s, ThirdPartyRow(s, i, who, unit, amount, own),
          {}, {}, Created(view[s], "RECEIVABLE", who, nextName),
          trip, i.tag, i.origins)
  BY <1>1
<1> DEFINE made == Created(view[s], "RECEIVABLE", who, nextName)
           lines == ThirdPartyLines(unit, own,
                      GetOrCreate(view[s], "RECEIVABLE", who, nextName))
           t == ThirdPartyRow(s, i, who, unit, amount, own)
<1>2. /\ pc[s] = "begun"
      /\ "THIRD_PARTY_EXPENSE" \in TransactionTypes \ {"OPENING_BALANCE"}
  BY DEF WriteExpenseOwed, Ready, TransactionTypes
<1>3. made \in SUBSET Name
  BY ReceivableResult
<1>4. /\ Good(lines)
      /\ SameRow(t, Row(nextId, AllocateIID(view[s], i.sup),
                        "THIRD_PARTY_EXPENSE", i.sup, lines))
      /\ nextId <= MaxId => t \in Transaction
  BY <1>2, ThirdPartyRowResult
<1>5. WriteForm(s, t, {}, {}, made, trip, i.tag, i.origins)
  BY <1>0
<1> HIDE DEF made, lines, t
<1>6. FormOK(s, t, {}, {}, 0)
  BY <1>2, <1>4, OneRowOK
<1>7. i.tag \in Tags \cup {NoName} /\ i.origins \in SUBSET Events
  BY <1>2, InputsResult
<1> QED BY <1>3, <1>5, <1>6, <1>7, FormStep

\* The write of one repaid expense, its inputs chosen.
RepaidForm(s, i, trip, who, unit, a, amount, own) ==
  LET e == ThirdPartyRow(s, i, who, unit, amount, own)
      r == RepaymentRow(s, e, who, a, own)
  IN  WriteForm(s, e, {r},
        {[source |-> e.id, linked |-> r.id, type |-> "DEBT_SETTLING"]},
        Created(view[s], "RECEIVABLE", who, nextName),
        trip, i.tag, i.origins)

LEMMA RepaymentRowResult ==
  ASSUME LedgerInv, NEW s \in Sessions, NEW e, e.iid \in 1 .. nextId,
         NEW who \in People, NEW a \in Existing(view[s]), NEW own \in Int
  PROVE  LET recv == GetOrCreate(view[s], "RECEIVABLE", who, nextName)
             r == RepaymentRow(s, e, who, a, own)
         IN  /\ r.id = nextId + 1
             /\ r.type = "EXPENSE"
             /\ r.lines = RepaymentLines(a, UnitOf(view[s], a), own, recv)
             /\ NewRow(s, r, 1)
             /\ nextId + 1 <= MaxId => r \in Transaction
<1> DEFINE recv == GetOrCreate(view[s], "RECEIVABLE", who, nextName)
           old == RepaymentSupersedes(view[s], e)
           lines == RepaymentLines(a, UnitOf(view[s], a), own, recv)
           r == Row(nextId + 1, old.iid, "EXPENSE", old.sup, lines)
<1>1. recv \in Nat
  BY ReceivableResult
<1>2. /\ view[s] \in Database /\ nextId \in Nat /\ nextId # 0
      /\ nextId <= MaxId + 1 /\ MaxId \in Nat
  BY MaxIdAssumption DEF LedgerInv, TypeOK
<1>3. Sound(view[s]) /\ Below(view[s].txs, nextId)
  BY DEF LedgerInv, ViewsInv, Below
<1>4. /\ old.iid \in 1 .. nextId + 1
      /\ old.sup # NoId => old.sup \in 1 .. nextId - 1
      /\ Revises(view[s], old.sup, old.iid, FALSE)
  BY <1>2, <1>3, RepaymentSupersedesResult
<1> HIDE DEF recv, old
<1>5. Good(lines)
  BY <1>1, UnitOfResult, ExpenseLinesGood
<1>6. r = RepaymentRow(s, e, who, a, own)
  BY DEF RepaymentRow, recv, old
<1> HIDE DEF lines
<1>7. /\ r.id = nextId + 1 /\ r.iid = old.iid /\ r.type = "EXPENSE"
      /\ r.sup = old.sup /\ r.lines = lines
  BY DEF Row
<1>8. NewRow(s, r, 1)
  <2>1. r.id \in Nat /\ nextId <= r.id /\ r.id <= nextId + 1 /\ r.iid <= r.id
    BY <1>2, <1>4, <1>7
  <2> QED BY <2>1, <1>4, <1>5, <1>7 DEF NewRow, Good
<1>9. ASSUME nextId + 1 <= MaxId PROVE r \in Transaction
  <2>1. nextId + 1 \in 1 .. MaxId /\ old.iid \in 1 .. MaxId
    BY <1>2, <1>4, <1>9
  <2>2. old.sup \in 0 .. MaxId
    BY <1>2, <1>4 DEF NoId
  <2>3. "EXPENSE" \in TransactionTypes /\ lines \in Seq(EntryLine)
    BY <1>5 DEF TransactionTypes, Good
  <2> QED BY <2>1, <2>2, <2>3, RowType
<1> QED BY <1>6, <1>7, <1>8, <1>9 DEF lines, recv

\* An expense row and the repayment written with it.
LEMMA RepaidOK ==
  ASSUME LedgerInv, NEW s \in Sessions, NEW e, NEW r,
         e.id = nextId, r.id = nextId + 1, r.type = "EXPENSE",
         NewRow(s, e, 1), NewRow(s, r, 1), Settles(r, e),
         nextId + 1 <= MaxId => e \in Transaction /\ r \in Transaction
  PROVE  FormOK(s, e, {r},
           {[source |-> e.id, linked |-> r.id, type |-> "DEBT_SETTLING"]}, 1)
<1> DEFINE links == {[source |-> e.id, linked |-> r.id, type |-> "DEBT_SETTLING"]}
<1>1. nextId \in Nat /\ nextId # 0 /\ MaxId \in Nat
  BY MaxIdAssumption DEF LedgerInv, TypeOK
<1>2. Cardinality({r}) = 1
  BY FS_Singleton
<1>3. nextId + 1 <= MaxId => links \in SUBSET Link
  <2>1. nextId + 1 <= MaxId => e.id \in 1 .. MaxId /\ r.id \in 1 .. MaxId
    BY <1>1
  <2> QED BY <2>1 DEF Link
<1>4. nextId + 1 <= MaxId => {r} \in SUBSET Transaction
  OBVIOUS
<1>5. UniqueIds({r}) /\ (\A o \in {r} : o.id # e.id)
  BY <1>1 DEF UniqueIds
<1>6. PaysBack(links, e, {r})
  BY DEF PaysBack
<1>7. \A x \in {e} \cup {r} : NewRow(s, x, 1)
  OBVIOUS
<1> HIDE DEF links
<1>8. FormOK(s, e, {r}, links, 1)
  BY <1>2, <1>3, <1>4, <1>5, <1>6, <1>7 DEF FormOK
<1> QED BY <1>8 DEF links

LEMMA RepaidStep ==
  ASSUME LedgerInv, NEW s \in Sessions, WriteExpenseRepaid(s)
  PROVE  LedgerInv'
<1>1. PICK i \in Inputs(s), trip \in Trips \cup {NoName}, who \in People,
           unit \in Currencies, a \in Existing(view[s]), amount \in Amounts :
        \E own \in 0 .. amount :
          RepaidForm(s, i, trip, who, unit, a, amount, own)
  BY DEF WriteExpenseRepaid, RepaidForm
<1>2. PICK own \in 0 .. amount : RepaidForm(s, i, trip, who, unit, a, amount, own)
  BY <1>1
<1> DEFINE recv == GetOrCreate(view[s], "RECEIVABLE", who, nextName)
           made == Created(view[s], "RECEIVABLE", who, nextName)
           iid == AllocateIID(view[s], i.sup)
           lines == ThirdPartyLines(unit, own, recv)
           e == ThirdPartyRow(s, i, who, unit, amount, own)
           r == RepaymentRow(s, e, who, a, own)
           links == {[source |-> e.id, linked |-> r.id, type |-> "DEBT_SETTLING"]}
<1>3. WriteForm(s, e, {r}, links, made, trip, i.tag, i.origins)
  BY <1>2 DEF RepaidForm
<1>4. pc[s] = "begun"
  BY DEF WriteExpenseRepaid, Ready
<1>5. /\ i.tag \in Tags \cup {NoName} /\ i.origins \in SUBSET Events
      /\ iid \in 1 .. nextId /\ Revises(view[s], i.sup, iid, FALSE)
  BY <1>4, InputsResult
<1>6. /\ Good(lines)
      /\ SameRow(e, Row(nextId, iid, "THIRD_PARTY_EXPENSE", i.sup, lines))
      /\ nextId <= MaxId => e \in Transaction
  BY <1>4, ThirdPartyRowResult
<1>7. /\ e.id = nextId /\ e.iid = iid /\ e.type = "THIRD_PARTY_EXPENSE"
      /\ e.sup = i.sup /\ e.lines = lines
  BY <1>6 DEF SameRow, Row
<1>8. made \in SUBSET Name /\ own \in Int
  BY ReceivableResult, AmountsAssumption
<1>9. /\ r.id = nextId + 1 /\ r.type = "EXPENSE"
      /\ r.lines = RepaymentLines(a, UnitOf(view[s], a), own, recv)
      /\ NewRow(s, r, 1)
      /\ nextId + 1 <= MaxId => r \in Transaction
  BY <1>5, <1>7, <1>8, RepaymentRowResult
<1>10. Settles(r, e)
  BY <1>7, <1>8, <1>9, RepaymentLinesSettle
<1> HIDE DEF made, lines, recv, r, e, iid
<1>11. nextId \in Nat /\ (nextId + 1 <= MaxId => nextId <= MaxId)
  BY MaxIdAssumption DEF LedgerInv, TypeOK
<1>12. NewRow(s, e, 1)
  <2>1. e.id \in Nat /\ nextId <= e.id /\ e.id <= nextId + 1 /\ e.iid <= e.id
    BY <1>5, <1>7, <1>11
  <2> QED BY <2>1, <1>5, <1>6, <1>7 DEF NewRow, Good
<1>13. FormOK(s, e, {r}, links, 1)
  BY <1>6, <1>7, <1>9, <1>10, <1>11, <1>12, RepaidOK
<1> HIDE DEF links
<1> QED BY <1>3, <1>5, <1>8, <1>13, FormStep

\* The rows a refund can be linked to exist.
LEMMA RefundLinksResult ==
  ASSUME LedgerInv, NEW s \in Sessions, NEW parent \in {NoId} \cup Parents(s)
  PROVE  /\ nextId <= MaxId => RefundLinks(parent, nextId) \in SUBSET Link
         /\ \A l \in RefundLinks(parent, nextId) : l.type # "DEBT_SETTLING"
<1>1. parent # NoId => parent \in 1 .. MaxId
  BY DEF Parents, LedgerInv, TypeOK
<1>2. nextId <= MaxId => nextId \in 1 .. MaxId
  BY MaxIdAssumption DEF LedgerInv, TypeOK
<1>3. \A l \in RefundLinks(parent, nextId) :
        /\ parent # NoId
        /\ l = [source |-> parent, linked |-> nextId, type |-> "REFUND"]
  BY DEF RefundLinks
<1> QED BY <1>1, <1>2, <1>3 DEF Link

LEMMA IncomeSoloStep ==
  ASSUME LedgerInv, NEW s \in Sessions, WriteIncomeSolo(s)
  PROVE  LedgerInv'
<1>1. PICK i \in Inputs(s), a \in Existing(view[s]), amount \in Amounts,
           parent \in {NoId} \cup Parents(s) :
        WriteForm(s,
          Row(nextId, AllocateIID(view[s], i.sup), "INCOME", i.sup,
              SoloIncomeLines(a, UnitOf(view[s], a), amount)),
          {}, RefundLinks(parent, nextId), {}, NoName, i.tag, i.origins)
  BY DEF WriteIncomeSolo
<1> DEFINE lines == SoloIncomeLines(a, UnitOf(view[s], a), amount)
           t == Row(nextId, AllocateIID(view[s], i.sup), "INCOME", i.sup, lines)
           links == RefundLinks(parent, nextId)
<1>2. pc[s] = "begun" /\ "INCOME" \in TransactionTypes \ {"OPENING_BALANCE"}
  BY DEF WriteIncomeSolo, Ready, TransactionTypes
<1>3. Good(lines)
  BY UnitOfResult, IncomeLinesGood, AmountsAssumption, 0 \in Int
<1>4. WriteForm(s, t, {}, links, {}, NoName, i.tag, i.origins)
  BY <1>1
<1> HIDE DEF lines
<1>5. nextId <= MaxId => t \in Transaction
  BY <1>2, <1>3, FormRowType
<1>6. SameRow(t, t)
  BY DEF SameRow
<1>7. /\ nextId <= MaxId => links \in SUBSET Link
      /\ \A l \in links : l.type # "DEBT_SETTLING"
  BY RefundLinksResult
<1> HIDE DEF links
<1>8. FormOK(s, t, {}, links, 0)
  BY <1>2, <1>3, <1>5, <1>6, <1>7, OneRowOK
<1>9. /\ i.tag \in Tags \cup {NoName} /\ i.origins \in SUBSET Events
      /\ {} \in SUBSET Name /\ NoName \in Trips \cup {NoName}
  BY <1>2, InputsResult
<1> QED BY <1>4, <1>8, <1>9, FormStep

\* The write of one shared income, its inputs chosen.
SharedIncomeForm(s, i, who, a, amount, own, parent) ==
  LET recv == GetOrCreate(view[s], "RECEIVABLE", who, nextName)
      row == Row(nextId, AllocateIID(view[s], i.sup), "INCOME", i.sup,
                 SharedIncomeLines(a, UnitOf(view[s], a), amount, own, recv))
  IN  WriteForm(s,
        [row EXCEPT !.splits =
           {[who |-> who, share |-> amount - own, paid |-> 0]}],
        {}, RefundLinks(parent, nextId),
        Created(view[s], "RECEIVABLE", who, nextName),
        NoName, i.tag, i.origins)

LEMMA IncomeSharedStep ==
  ASSUME LedgerInv, NEW s \in Sessions, WriteIncomeShared(s)
  PROVE  LedgerInv'
<1>1. PICK i \in Inputs(s), a \in Existing(view[s]), amount \in Amounts,
           who \in People, parent \in {NoId} \cup Parents(s) :
        \E own \in 0 .. amount :
          SharedIncomeForm(s, i, who, a, amount, own, parent)
  BY DEF WriteIncomeShared, SharedIncomeForm
<1>2. PICK own \in 0 .. amount : SharedIncomeForm(s, i, who, a, amount, own, parent)
  BY <1>1
<1> DEFINE recv == GetOrCreate(view[s], "RECEIVABLE", who, nextName)
           made == Created(view[s], "RECEIVABLE", who, nextName)
           lines == SharedIncomeLines(a, UnitOf(view[s], a), amount, own, recv)
           row == Row(nextId, AllocateIID(view[s], i.sup), "INCOME", i.sup, lines)
           splits == {[who |-> who, share |-> amount - own, paid |-> 0]}
           t == [row EXCEPT !.splits = splits]
           links == RefundLinks(parent, nextId)
<1>3. pc[s] = "begun" /\ "INCOME" \in TransactionTypes \ {"OPENING_BALANCE"}
  BY DEF WriteIncomeShared, Ready, TransactionTypes
<1>4. made \in SUBSET Name /\ recv \in Nat /\ amount \in Int /\ own \in Int
  BY ReceivableResult, AmountsAssumption
<1>5. splits \in SUBSET Split
  BY SplitType, 0 \in Int
<1>6. WriteForm(s, t, {}, links, made, NoName, i.tag, i.origins)
  BY <1>2 DEF SharedIncomeForm
<1> HIDE DEF made, recv, splits
<1>7. Good(lines)
  BY <1>4, UnitOfResult, IncomeLinesGood
<1> HIDE DEF lines
<1>8. nextId <= MaxId => row \in Transaction
  BY <1>3, <1>7, FormRowType
<1>9. SameRow(t, row) /\ (nextId <= MaxId => t \in Transaction)
  BY <1>5, <1>8, SplitsType
<1>10. /\ nextId <= MaxId => links \in SUBSET Link
       /\ \A l \in links : l.type # "DEBT_SETTLING"
  BY RefundLinksResult
<1> HIDE DEF t, links
<1>11. FormOK(s, t, {}, links, 0)
  BY <1>3, <1>7, <1>9, <1>10, OneRowOK
<1>12. /\ i.tag \in Tags \cup {NoName} /\ i.origins \in SUBSET Events
       /\ NoName \in Trips \cup {NoName}
  BY <1>3, InputsResult
<1> QED BY <1>4, <1>6, <1>11, <1>12, FormStep

LEMMA TransferStep ==
  ASSUME LedgerInv, NEW s \in Sessions, WriteTransfer(s)
  PROVE  LedgerInv'
<1>1. PICK i \in Inputs(s), from \in Existing(view[s]), to \in Existing(view[s]),
           sent \in Amounts, received \in Amounts :
        /\ UnitOf(view[s], from) = UnitOf(view[s], to) => received = sent
        /\ WriteForm(s,
             Row(nextId, AllocateIID(view[s], i.sup), "TRANSFER", i.sup,
                 TransferLines(from, to, UnitOf(view[s], from),
                               UnitOf(view[s], to), sent, received)),
             {}, {}, {}, NoName, i.tag, i.origins)
  BY DEF WriteTransfer
<1> DEFINE lines == TransferLines(from, to, UnitOf(view[s], from),
                                  UnitOf(view[s], to), sent, received)
           t == Row(nextId, AllocateIID(view[s], i.sup), "TRANSFER", i.sup, lines)
<1>2. pc[s] = "begun" /\ "TRANSFER" \in TransactionTypes \ {"OPENING_BALANCE"}
  BY DEF WriteTransfer, Ready, TransactionTypes
<1>3. sent \in Int /\ received \in Int
  BY AmountsAssumption
<1>4. Good(lines)
  BY <1>1, <1>3, UnitOfResult, TransferLinesGood
<1>5. WriteForm(s, t, {}, {}, {}, NoName, i.tag, i.origins)
  BY <1>1
<1> HIDE DEF lines
<1>6. nextId <= MaxId => t \in Transaction
  BY <1>2, <1>4, FormRowType
<1>7. SameRow(t, t)
  BY DEF SameRow
<1>8. FormOK(s, t, {}, {}, 0)
  BY <1>2, <1>4, <1>6, <1>7, OneRowOK
<1>9. /\ i.tag \in Tags \cup {NoName} /\ i.origins \in SUBSET Events
      /\ {} \in SUBSET Name /\ NoName \in Trips \cup {NoName}
  BY <1>2, InputsResult
<1> QED BY <1>5, <1>8, <1>9, FormStep

------------------------------------------------------------------------------
\* Bank accounts.

\* A set of rows with one head has a head.
LEMMA OpeningHeadFound ==
  ASSUME NEW v, NEW a, HasOneHead(OpeningRows(v, a))
  PROVE  OpeningHead(v, a) \in v.txs /\ OpeningHead(v, a).type = "OPENING_BALANCE"
<1>1. Heads(OpeningRows(v, a)) # {}
  BY FS_EmptySet DEF HasOneHead
<1>2. OpeningHead(v, a) \in Heads(OpeningRows(v, a))
  BY <1>1 DEF OpeningHead
<1> QED BY <1>2 DEF Heads, OpeningRows

\* A snapshot an account request may read.
Readable(v) == v \in Database /\ Sound(v) /\ v.txs \subseteq db.txs

LEMMA AccountViewReadable ==
  ASSUME LedgerInv, NEW s \in Sessions, NEW unit
  PROVE  Readable(AccountView(s, unit))
<1>1. Readable(view[s])
  BY DEF LedgerInv, TypeOK, ViewsInv, Readable
<1>2. Readable(db)
  BY DEF LedgerInv, TypeOK, Readable
<1> QED BY <1>1, <1>2 DEF AccountView

\* InsertTransactionRow drops the isVoid the row was given.
LEMMA VoidedType ==
  ASSUME NEW id, NEW iid, NEW type, NEW sup, NEW lines, NEW b \in BOOLEAN,
         NEW row, row = Row(id, iid, type, sup, lines),
         NEW x, x = InsertTransactionRow([row EXCEPT !.void = b])
  PROVE  /\ x.id = id /\ x.iid = iid /\ x.type = type
         /\ x.sup = sup /\ x.lines = lines
         /\ row \in Transaction => x \in Transaction
<1> DEFINE y == [row EXCEPT !.void = b]
<1>1. /\ y.id = id /\ y.iid = iid /\ y.type = type
      /\ y.sup = sup /\ y.lines = lines
  BY DEF Row
<1>2. row \in Transaction => y \in Transaction
  BY DEF Row, Transaction
<1>3. /\ InsertTransactionRow(y).id = y.id
      /\ InsertTransactionRow(y).iid = y.iid
      /\ InsertTransactionRow(y).type = y.type
      /\ InsertTransactionRow(y).sup = y.sup
      /\ InsertTransactionRow(y).lines = y.lines
  BY DEF Row, InsertTransactionRow
<1> HIDE DEF y
<1>4. y \in Transaction => InsertTransactionRow(y) \in Transaction
  BY InsertType
<1> QED BY <1>1, <1>2, <1>3, <1>4 DEF y

LEMMA NewOpeningRowResult ==
  ASSUME LedgerInv, NEW v, Readable(v), NEW a \in Accounts, NEW unit \in Units,
         NEW amount \in OpeningAmounts,
         OpeningRows(v, a) # {} => HasOneHead(OpeningRows(v, a))
  PROVE  LET x == NewOpeningRow(v, a, unit, amount)
         IN  /\ x.id = nextId
             /\ x.iid <= x.id
             /\ LinesBalance(x.lines)
             /\ x.sup # NoId => \E u \in db.txs : Continues(x, u)
             /\ nextId <= MaxId => x \in Transaction
<1> DEFINE old == OpeningRows(v, a)
           sup == IF old = {} THEN NoId ELSE OpeningHead(v, a).id
           iid == AllocateIID(v, sup)
           lines == IF amount = 0 THEN << >> ELSE OpeningLines(a, unit, amount)
           row == Row(nextId, iid, "OPENING_BALANCE", sup, lines)
           x == InsertTransactionRow([row EXCEPT !.void = (amount = 0)])
<1>1. /\ nextId \in Nat /\ nextId # 0 /\ nextId <= MaxId + 1 /\ MaxId \in Nat
      /\ v \in Database /\ UniqueIds(v.txs) /\ Ordered(v.txs)
      /\ v.txs \subseteq db.txs
  BY MaxIdAssumption DEF LedgerInv, TypeOK, Readable, Sound
<1>2. Below(v.txs, nextId)
  BY <1>1 DEF LedgerInv, Below
<1>3. \A t \in v.txs : t.iid \in 1 .. nextId - 1 /\ t.id \in 1 .. nextId - 1
  BY <1>1, <1>2, IidsBounded
<1>4. sup # NoId => \E u \in v.txs :
        u.id = sup /\ u.iid = iid /\ u.type = "OPENING_BALANCE"
  <2> SUFFICES ASSUME sup # NoId
               PROVE  \E u \in v.txs :
                        u.id = sup /\ u.iid = iid /\ u.type = "OPENING_BALANCE"
    OBVIOUS
  <2>1. /\ OpeningHead(v, a) \in v.txs /\ sup = OpeningHead(v, a).id
        /\ OpeningHead(v, a).type = "OPENING_BALANCE"
    BY OpeningHeadFound
  <2>2. TxOf(v, sup) = OpeningHead(v, a)
    BY <2>1, <1>1, TxOfFound DEF UniqueIds
  <2>3. iid = TxOf(v, sup).iid
    BY DEF AllocateIID
  <2> QED BY <2>1, <2>2, <2>3
<1>5. iid \in 1 .. nextId
  <2>1. CASE sup = NoId
    BY <2>1, <1>1, <1>2, AllocateIIDResult
  <2>2. CASE sup # NoId
    <3>1. PICK u \in v.txs : u.iid = iid
      BY <2>2, <1>4
    <3>2. u.iid \in 1 .. nextId - 1
      BY <1>3
    <3> QED BY <3>1, <3>2, <1>1
  <2> QED BY <2>1, <2>2
<1>6. sup \in 0 .. nextId - 1
  <2>1. CASE sup = NoId
    BY <2>1, <1>1 DEF NoId
  <2>2. CASE sup # NoId
    BY <2>2, <1>1, <1>3, <1>4
  <2> QED BY <2>1, <2>2
<1>7. Good(lines)
  BY OpeningLinesGood, AmountsAssumption
<1>8. x = NewOpeningRow(v, a, unit, amount)
  BY DEF NewOpeningRow
<1> HIDE DEF iid, sup, lines
<1>9. /\ x.id = nextId /\ x.iid = iid /\ x.type = "OPENING_BALANCE"
      /\ x.sup = sup /\ x.lines = lines
      /\ row \in Transaction => x \in Transaction
  <2> DEFINE b == (amount = 0)
  <2>1. b \in BOOLEAN
    OBVIOUS
  <2>2. x = InsertTransactionRow([row EXCEPT !.void = b])
    OBVIOUS
  <2>3. row = Row(nextId, iid, "OPENING_BALANCE", sup, lines)
    OBVIOUS
  <2> HIDE DEF x, b, row
  <2> QED BY <2>1, <2>2, <2>3, VoidedType
<1> HIDE DEF x
<1>10. x.iid <= x.id
  BY <1>1, <1>5, <1>9
<1>11. x.sup # NoId => \E u \in db.txs : Continues(x, u)
  <2> SUFFICES ASSUME x.sup # NoId PROVE \E u \in db.txs : Continues(x, u)
    OBVIOUS
  <2>1. PICK u \in v.txs : u.id = sup /\ u.iid = iid /\ u.type = "OPENING_BALANCE"
    BY <1>4, <1>9
  <2>2. u.id < x.id
    BY <2>1, <1>1, <1>3, <1>9
  <2> QED BY <2>1, <2>2, <1>1, <1>9 DEF Continues
<1>12. ASSUME nextId <= MaxId PROVE x \in Transaction
  <2>1. nextId \in 1 .. MaxId /\ iid \in 1 .. MaxId /\ sup \in 0 .. MaxId
    BY <1>1, <1>5, <1>6, <1>12
  <2>2. "OPENING_BALANCE" \in TransactionTypes /\ lines \in Seq(EntryLine)
    BY <1>7 DEF TransactionTypes, Good
  <2>3. row \in Transaction
    BY <2>1, <2>2, RowType
  <2> QED BY <2>3, <1>9
<1> QED BY <1>7, <1>8, <1>9, <1>10, <1>11, <1>12 DEF Good

LEMMA SyncStep ==
  ASSUME LedgerInv, NEW s \in Sessions, NEW v, Readable(v), NEW a \in Accounts,
         NEW unit \in Units, NEW amount \in OpeningAmounts,
         SyncOpeningBalance(s, v, a, unit, amount), UNCHANGED nextName
  PROVE  LedgerInv'
<1> DEFINE x == NewOpeningRow(v, a, unit, amount)
           rows == IF OpeningRows(v, a) = {} /\ amount = 0 THEN {} ELSE {x}
           p == [NoPlan EXCEPT !.txs = rows, !.acct = a,
                   !.row = [unit |-> unit, balance |-> amount],
                   !.newCurrency = unit \in Currencies \ RatedCurrencies]
           k == Cardinality(rows)
<1>1. /\ OpeningRows(v, a) # {} => HasOneHead(OpeningRows(v, a))
      /\ Write(s, p, k)
  BY DEF SyncOpeningBalance
<1>2. nextId \in Nat /\ MaxId \in Nat /\ nextName' \in Nat \ {0}
  BY MaxIdAssumption DEF LedgerInv, TypeOK
<1>3. /\ x.id = nextId /\ x.iid <= x.id /\ LinesBalance(x.lines)
      /\ x.sup # NoId => \E u \in db.txs : Continues(x, u)
      /\ nextId <= MaxId => x \in Transaction
  BY <1>1, NewOpeningRowResult
<1>4. nextId + k - 1 <= MaxId
  BY <1>1 DEF Write
<1> HIDE DEF x
<1>5. \/ rows = {} /\ k = 0
      \/ rows = {x} /\ k = 1
  BY FS_EmptySet, FS_Singleton
<1>6. k \in Nat /\ (rows = {x} /\ k = 1 => nextId <= MaxId)
  BY <1>2, <1>4, <1>5
<1> HIDE DEF k, rows
<1>7. rows \in SUBSET Transaction
  BY <1>3, <1>5, <1>6
<1>8. /\ p.txs = rows /\ p.links = {} /\ p.acct = a
      /\ p.row = [unit |-> unit, balance |-> amount]
  BY DEF NoPlan
<1>9. p.row \in AccountRow
  BY <1>8 DEF AccountRow
<1>10. p \in Plan
  <2>1. /\ {} \in SUBSET Link /\ {} \in SUBSET Name /\ {} \in SUBSET Origin
        /\ (unit \in Currencies \ RatedCurrencies) \in BOOLEAN
    OBVIOUS
  <2> QED BY <2>1, <1>7, <1>8, <1>9 DEF NoPlan, Plan
<1> HIDE DEF p
<1>11. \A t \in p.txs : t = x
  BY <1>5, <1>8
<1>12. Sound(p)
  BY <1>3, <1>8, <1>11
  DEF Sound, UniqueIds, Ordered, Balanced, Settled, RepaysExpenses, DebtLinks
<1>13. PlanSound(p, db.txs)
  BY <1>3, <1>9, <1>11, <1>12 DEF PlanSound, Chained
<1>14. \A t \in p.txs : nextId <= t.id /\ t.id < nextId + k
  BY <1>2, <1>3, <1>5, <1>8
<1> QED BY <1>1, <1>2, <1>6, <1>10, <1>13, <1>14, WriteStep

LEMMA AddStep ==
  ASSUME LedgerInv, NEW s \in Sessions, AddAccount(s)
  PROVE  LedgerInv'
<1>1. PICK a \in Accounts, unit \in Units, amount \in OpeningAmounts :
        SyncOpeningBalance(s, AccountView(s, unit), a, unit, amount)
  BY DEF AddAccount
<1>2. UNCHANGED nextName
  BY DEF AddAccount
<1>3. Readable(AccountView(s, unit))
  BY AccountViewReadable
<1> QED BY <1>1, <1>2, <1>3, SyncStep

LEMMA UpdateStep ==
  ASSUME LedgerInv, NEW s \in Sessions, UpdateAccount(s)
  PROVE  LedgerInv'
<1>1. PICK a \in Existing(view[s]), unit \in Units, amount \in OpeningAmounts :
        SyncOpeningBalance(s, AccountView(s, unit), a, unit, amount)
  BY DEF UpdateAccount
<1>2. UNCHANGED nextName
  BY DEF UpdateAccount
<1>3. Readable(AccountView(s, unit)) /\ a \in Accounts
  BY AccountViewReadable DEF Existing
<1> QED BY <1>1, <1>2, <1>3, SyncStep

------------------------------------------------------------------------------
\* The theorems.

\* Every step of every tab, and every stuttering step, keeps LedgerInv.
LEMMA NextStep == LedgerInv /\ [Next]_vars => LedgerInv'
<1> SUFFICES ASSUME LedgerInv, [Next]_vars PROVE LedgerInv'
  OBVIOUS
<1>1. CASE UNCHANGED vars
  BY <1>1
  DEF vars, LedgerInv, TypeOK, Sound, UniqueIds, Ordered, Balanced, Settled,
      RepaysExpenses, DebtLinks, Chained, Below, ViewsInv, PlansInv, ShownInv
<1>2. CASE Next
  <2>1. PICK s \in Sessions :
          \/ Begin(s)
          \/ WriteExpensePaidSelf(s)
          \/ WriteExpenseShared(s)
          \/ WriteExpenseOwed(s)
          \/ WriteExpenseRepaid(s)
          \/ WriteIncomeSolo(s)
          \/ WriteIncomeShared(s)
          \/ WriteTransfer(s)
          \/ AddAccount(s)
          \/ UpdateAccount(s)
          \/ Commit(s)
          \/ Rollback(s)
          \/ Load(s)
    BY <1>2 DEF Next
  <2>2. CASE Begin(s)
    BY <2>2, BeginStep
  <2>3. CASE WriteExpensePaidSelf(s)
    BY <2>3, PaidSelfStep
  <2>4. CASE WriteExpenseShared(s)
    BY <2>4, SharedStep
  <2>5. CASE WriteExpenseOwed(s)
    BY <2>5, OwedStep
  <2>6. CASE WriteExpenseRepaid(s)
    BY <2>6, RepaidStep
  <2>7. CASE WriteIncomeSolo(s)
    BY <2>7, IncomeSoloStep
  <2>8. CASE WriteIncomeShared(s)
    BY <2>8, IncomeSharedStep
  <2>9. CASE WriteTransfer(s)
    BY <2>9, TransferStep
  <2>10. CASE AddAccount(s)
    BY <2>10, AddStep
  <2>11. CASE UpdateAccount(s)
    BY <2>11, UpdateStep
  <2>12. CASE Commit(s)
    BY <2>12, CommitStep
  <2>13. CASE Rollback(s)
    BY <2>13, RollbackStep
  <2>14. CASE Load(s)
    BY <2>14, LoadStep
  <2> QED BY <2>1, <2>2, <2>3, <2>4, <2>5, <2>6, <2>7, <2>8, <2>9, <2>10,
             <2>11, <2>12, <2>13, <2>14
<1> QED BY <1>1, <1>2

\* The inductive invariant holds in every reachable state, for any tabs,
\* accounts, people and amounts, and however requests interleave.
THEOREM LedgerInvariant == Spec => []LedgerInv
BY InitInv, NextStep, PTL DEF Spec

\* The tables and the requests in flight stay well typed.
THEOREM LedgerTypes == Spec => []TypeOK
<1>1. LedgerInv => TypeOK
  BY DEF LedgerInv
<1> QED BY <1>1, LedgerInvariant, PTL

\* No form, account edit or interleaving ever commits a transaction that
\* does not net to zero in every unit.
THEOREM BooksAlwaysBalance == Spec => []BooksBalance
<1>1. LedgerInv => BooksBalance
  BY DEF LedgerInv, Sound, BooksBalance
<1> QED BY <1>1, LedgerInvariant, PTL

\* Every edit, whichever snapshot it was made from, continues the event it
\* supersedes: newer row, same iid, opening balances among themselves.
THEOREM ChainsAlwaysKeepIid == Spec => []ChainsKeepIid
<1>1. LedgerInv => ChainsKeepIid
  BY DEF LedgerInv, ChainsKeepIid
<1> QED BY <1>1, LedgerInvariant, PTL

\* Every debt-settling link joins an expense to a repayment of the same
\* amount on the same companion account, even when two requests create the
\* companion's account at the same time.
THEOREM RepaymentsAlwaysSettle == Spec => []RepaymentsSettle
<1>1. LedgerInv => RepaymentsSettle
  BY DEF LedgerInv, Sound, RepaymentsSettle
<1> QED BY <1>1, LedgerInvariant, PTL

------------------------------------------------------------------------------
\* The versions of a repayment run in step with those of its expense.

\* An expense row has one repayment at most: the one written with it.
OneDebt(d) == \A l, m \in DebtLinks(d) : l.source = m.source => l = m

\* An expense row among the rows of p that supersedes one of d with a
\* repayment o has a repayment that supersedes o.
Follows(d, p) ==
  \A l \in DebtLinks(d), m \in DebtLinks(p), o \in d.txs, e, r \in p.txs :
    /\ o.id = l.linked
    /\ e.id = m.source
    /\ r.id = m.linked
    /\ e.sup = l.source
    => r.sup = o.id /\ r.iid = o.iid

\* A snapshot that has an expense row has its repayment, too.
Within(v, d) ==
  /\ v.links \subseteq d.links
  /\ \A l \in DebtLinks(d) : l.source \in Ids(v.txs) => l \in v.links

FollowInv ==
  /\ OneDebt(db)
  /\ Follows(db, db)
  /\ \A s \in Sessions : Within(view[s], db)
  /\ \A s \in Sessions : OneDebt(plan[s]) /\ Follows(db, plan[s])

------------------------------------------------------------------------------
\* Rows that are committed together with those of the database.

LEMMA DebtIds ==
  ASSUME NEW d, Settled(d), NEW l \in DebtLinks(d)
  PROVE  \E e, r \in d.txs : e.id = l.source /\ r.id = l.linked
BY DEF Settled

LEMMA FollowsJoin ==
  ASSUME NEW d, NEW p, NEW q, NEW D,
         D.txs = d.txs \cup p.txs, D.links = d.links \cup p.links,
         Settled(d), Settled(p), Apart(p.txs, d.txs),
         \A t \in p.txs : t.id # NoId,
         Chained(q.txs, d.txs), Follows(d, q)
  PROVE  Follows(D, q)
<1> SUFFICES ASSUME NEW l \in DebtLinks(D), NEW m \in DebtLinks(q),
                    NEW o \in D.txs, NEW e \in q.txs, NEW r \in q.txs,
                    o.id = l.linked, e.id = m.source, r.id = m.linked,
                    e.sup = l.source
             PROVE  r.sup = o.id /\ r.iid = o.iid
  BY DEF Follows
<1>1. l \in DebtLinks(d)
  <2> SUFFICES ASSUME l \in DebtLinks(p) PROVE FALSE
    BY DEF DebtLinks
  <2>1. PICK x \in p.txs : x.id = l.source
    BY DebtIds
  <2>2. PICK u \in d.txs : u.id = e.sup
    BY <2>1 DEF Chained, Continues
  <2> QED BY <2>1, <2>2 DEF Apart
<1>2. o \in d.txs
  <2>1. PICK w \in d.txs : w.id = l.linked
    BY <1>1, DebtIds
  <2> QED BY <2>1 DEF Apart
<1> QED BY <1>1, <1>2 DEF Follows

LEMMA JoinFollows ==
  ASSUME NEW d, NEW p, NEW D,
         D.txs = d.txs \cup p.txs, D.links = d.links \cup p.links,
         Settled(d), Settled(p), Apart(p.txs, d.txs),
         Follows(D, d), Follows(D, p), OneDebt(d), OneDebt(p)
  PROVE  Follows(D, D) /\ OneDebt(D)
<1>1. \A l \in DebtLinks(D) : l \in DebtLinks(d) \/ l \in DebtLinks(p)
  BY DEF DebtLinks
<1>2. \A l \in DebtLinks(d), t \in D.txs :
        t.id = l.source \/ t.id = l.linked => t \in d.txs
  BY DebtIds DEF Apart
<1>3. \A l \in DebtLinks(p), t \in D.txs :
        t.id = l.source \/ t.id = l.linked => t \in p.txs
  BY DebtIds DEF Apart
<1>4. Follows(D, D)
  <2> SUFFICES ASSUME NEW l \in DebtLinks(D), NEW m \in DebtLinks(D),
                      NEW o \in D.txs, NEW e \in D.txs, NEW r \in D.txs,
                      o.id = l.linked, e.id = m.source, r.id = m.linked,
                      e.sup = l.source
               PROVE  r.sup = o.id /\ r.iid = o.iid
    BY DEF Follows
  <2>1. CASE m \in DebtLinks(d)
    BY <2>1, <1>2 DEF Follows
  <2>2. CASE m \in DebtLinks(p)
    BY <2>2, <1>3 DEF Follows
  <2> QED BY <1>1, <2>1, <2>2
<1>5. OneDebt(D)
  <2> SUFFICES ASSUME NEW l \in DebtLinks(D), NEW m \in DebtLinks(D),
                      l.source = m.source
               PROVE  l = m
    BY DEF OneDebt
  <2>1. CASE l \in DebtLinks(d) /\ m \in DebtLinks(d)
    BY <2>1 DEF OneDebt
  <2>2. CASE l \in DebtLinks(p) /\ m \in DebtLinks(p)
    BY <2>2 DEF OneDebt
  <2>3. ASSUME NEW x \in DebtLinks(d), NEW y \in DebtLinks(p),
               x.source = y.source
        PROVE  FALSE
    <3>1. PICK t \in d.txs : t.id = x.source
      BY DebtIds
    <3>2. PICK u \in p.txs : u.id = y.source
      BY DebtIds
    <3> QED BY <2>3, <3>1, <3>2 DEF Apart
  <2> QED BY <1>1, <2>1, <2>2, <2>3
<1> QED BY <1>4, <1>5

------------------------------------------------------------------------------
\* The steps keep repayments and expenses together.

LEMMA NothingFollows ==
  /\ OneDebt(NoPlan) /\ \A d : Follows(d, NoPlan)
  /\ \A d : Within(EmptyDb, d)
BY DEF OneDebt, Follows, Within, NoPlan, EmptyDb, DebtLinks, Ids

\* Steps that write nothing: the database stays, and each request keeps its
\* snapshot and its rows, takes a snapshot, or drops both.
LEMMA QuietFollow ==
  ASSUME FollowInv, db' = db,
         \A o \in Sessions : view'[o] \in {view[o], db, EmptyDb},
         \A o \in Sessions : plan'[o] \in {plan[o], NoPlan}
  PROVE  FollowInv'
<1>1. Within(db, db)
  BY DEF Within, DebtLinks
<1>2. ASSUME NEW o \in Sessions PROVE Within(view'[o], db)
  BY <1>1, NothingFollows DEF FollowInv
<1>3. ASSUME NEW o \in Sessions PROVE OneDebt(plan'[o]) /\ Follows(db, plan'[o])
  BY NothingFollows DEF FollowInv
<1>4. OneDebt(db) /\ Follows(db, db)
  BY DEF FollowInv
<1>5. \A o \in Sessions : Within(view'[o], db')
  BY <1>2
<1>6. \A o \in Sessions : OneDebt(plan'[o]) /\ Follows(db', plan'[o])
  BY <1>3
<1>7. OneDebt(db') /\ Follows(db', db')
  BY <1>4
<1> QED BY <1>5, <1>6, <1>7 DEF FollowInv, OneDebt, Follows, Within

LEMMA CommitFollow ==
  ASSUME LedgerInv, FollowInv, NEW s \in Sessions, Commit(s)
  PROVE  FollowInv'
<1> DEFINE p == plan[s]
<1>1. db'.txs = db.txs \cup p.txs /\ db'.links = db.links \cup p.links
  BY DEF Commit
<1>2. /\ view'[s] = EmptyDb /\ plan'[s] = NoPlan
      /\ \A o \in Sessions \ {s} : view'[o] = view[o] /\ plan'[o] = plan[o]
  BY DEF Commit, Finish, LedgerInv, TypeOK
<1>3. /\ Settled(db) /\ Settled(p) /\ Apart(p.txs, db.txs)
      /\ Chained(db.txs, db.txs)
      /\ \A o \in Sessions : Chained(plan[o].txs, db.txs)
  BY DEF LedgerInv, Sound, PlansInv, PlanSound
<1>4. \A t \in p.txs : t.id # NoId
  BY MaxIdAssumption DEF LedgerInv, TypeOK, Plan, Transaction, NoId
<1>5. /\ OneDebt(db) /\ OneDebt(p) /\ Follows(db, db)
      /\ \A o \in Sessions : OneDebt(plan[o]) /\ Follows(db, plan[o])
  BY DEF FollowInv
<1>6. Follows(db', db)
  BY <1>1, <1>3, <1>4, <1>5, FollowsJoin
<1>7. \A o \in Sessions : Follows(db', plan[o])
  BY <1>1, <1>3, <1>4, <1>5, FollowsJoin
<1>8. Follows(db', db') /\ OneDebt(db')
  BY <1>1, <1>3, <1>5, <1>6, <1>7, JoinFollows
<1>9. \A o \in Sessions : OneDebt(plan'[o]) /\ Follows(db', plan'[o])
  BY <1>2, <1>5, <1>7, NothingFollows
<1>10. ASSUME NEW o \in Sessions PROVE Within(view'[o], db')
  <2>1. CASE o = s
    BY <2>1, <1>2, NothingFollows
  <2>2. CASE o # s
    <3>1. view'[o] = view[o] /\ Within(view[o], db) /\ view[o].txs \subseteq db.txs
      BY <2>2, <1>2 DEF FollowInv, LedgerInv, ViewsInv
    <3>2. ASSUME NEW l \in DebtLinks(db'), l.source \in Ids(view[o].txs)
          PROVE  l \in DebtLinks(db)
      <4> SUFFICES ASSUME l \in DebtLinks(p) PROVE FALSE
        BY <1>1 DEF DebtLinks
      <4>1. PICK x \in p.txs : x.id = l.source
        BY <1>3, DebtIds
      <4>2. PICK u \in db.txs : u.id = l.source
        BY <3>1, <3>2 DEF Ids
      <4> QED BY <4>1, <4>2, <1>3 DEF Apart
    <3> QED BY <3>1, <3>2, <1>1 DEF Within
  <2> QED BY <2>1, <2>2
<1> QED BY <1>8, <1>9, <1>10 DEF FollowInv, OneDebt, Follows, Within

\* A request's rows keep in step if they have no repayment among them, or
\* the repayment they have follows.
LEMMA WriteFollow ==
  ASSUME TypeOK, FollowInv, NEW s \in Sessions, NEW p, NEW k, Write(s, p, k),
         OneDebt(p), Follows(db, p)
  PROVE  FollowInv'
<1>1. /\ plan'[s] = p /\ db' = db /\ view' = view
      /\ \A o \in Sessions \ {s} : plan'[o] = plan[o]
  BY DEF Write, TypeOK
<1>2. \A o \in Sessions : OneDebt(plan'[o]) /\ Follows(db, plan'[o])
  BY <1>1 DEF FollowInv
<1>3. \A o \in Sessions : Within(view[o], db)
  BY DEF FollowInv
<1>4. OneDebt(db) /\ Follows(db, db)
  BY DEF FollowInv
<1>5. /\ \A o \in Sessions : OneDebt(plan'[o]) /\ Follows(db', plan'[o])
      /\ \A o \in Sessions : Within(view'[o], db')
      /\ OneDebt(db') /\ Follows(db', db')
  BY <1>1, <1>2, <1>3, <1>4
<1> QED BY <1>5 DEF FollowInv, OneDebt, Follows, Within

LEMMA NoDebtFollows ==
  ASSUME NEW d, NEW p, \A l \in p.links : l.type # "DEBT_SETTLING"
  PROVE  OneDebt(p) /\ Follows(d, p)
BY DEF OneDebt, Follows, DebtLinks

\* The row of a form, with the trip and the tag WriteForm adds.
StoredAs(x, t) ==
  \E tripId, tagId \in Nat :
    x = InsertTransactionRow([t EXCEPT !.trip = tripId, !.tag = tagId])

\* The rows and links a form writes are those it hands to WriteForm.
FormPlan(p, t, others, links) ==
  /\ p.links = links /\ p.acct = NoAccount
  /\ \A o \in p.origins : o.tx = t.id
  /\ \E x \in p.txs : StoredAs(x, t)
  /\ \A x \in p.txs :
       StoredAs(x, t) \/ \E o \in others : x = InsertTransactionRow(o)

LEMMA FormWrites ==
  ASSUME LedgerInv, NEW s \in Sessions, NEW t, NEW others, NEW links, NEW recv,
         NEW trip, NEW tag, NEW origins,
         WriteForm(s, t, others, links, recv, trip, tag, origins)
  PROVE  \E p : /\ Write(s, p, 1 + Cardinality(others))
                /\ FormPlan(p, t, others, links)
<1> DEFINE v == view[s]
           tripId == IF trip = NoName THEN NoId
                     ELSE GetOrCreate(v, "TRIP", TripKey[trip], nextName + 1)
           newTrip == IF trip = NoName THEN {}
                      ELSE Created(v, "TRIP", TripKey[trip], nextName + 1)
           tagId == IF tag = NoName THEN NoId
                    ELSE GetOrCreate(v, "TAG", tag, nextName + 2)
           newTag == IF tag = NoName THEN {}
                     ELSE Created(v, "TAG", tag, nextName + 2)
           row == InsertTransactionRow([t EXCEPT !.trip = tripId, !.tag = tagId])
           rest == {InsertTransactionRow(o) : o \in others}
           keys == {[tx |-> t.id, key |-> e] : e \in origins}
           p == [NoPlan EXCEPT !.txs = {row} \cup rest,
                   !.links = links,
                   !.names = recv \cup newTrip \cup newTag,
                   !.origins = keys]
<1>1. Write(s, p, 1 + Cardinality(others))
  BY DEF WriteForm
<1>2. tripId \in Nat /\ tagId \in Nat
  <2>1. v \in Database /\ nextName + 1 \in Nat /\ nextName + 2 \in Nat
    BY DEF LedgerInv, TypeOK
  <2> QED BY <2>1, GetOrCreateResult DEF NoId
<1> HIDE DEF tripId, tagId, newTrip, newTag
<1>3. StoredAs(row, t)
  BY <1>2 DEF StoredAs
<1> HIDE DEF row
<1>4. /\ p.links = links /\ p.txs = {row} \cup rest /\ p.acct = NoAccount
      /\ \A o \in p.origins : o.tx = t.id
  BY DEF NoPlan
<1> HIDE DEF p
<1>5. FormPlan(p, t, others, links)
  BY <1>3, <1>4 DEF FormPlan
<1> QED BY <1>1, <1>5

LEMMA FormFollow ==
  ASSUME LedgerInv, FollowInv, NEW s \in Sessions, NEW t, NEW links, NEW recv,
         NEW trip, NEW tag, NEW origins,
         WriteForm(s, t, {}, links, recv, trip, tag, origins),
         \A l \in links : l.type # "DEBT_SETTLING"
  PROVE  FollowInv'
<1>1. PICK p : Write(s, p, 1 + Cardinality({})) /\ FormPlan(p, t, {}, links)
  BY FormWrites
<1>2. TypeOK
  BY DEF LedgerInv
<1>3. OneDebt(p) /\ Follows(db, p)
  BY <1>1, NoDebtFollows DEF FormPlan
<1> QED BY <1>1, <1>2, <1>3, WriteFollow

\* The repayment that RepaymentSupersedes finds for an edited expense is the
\* one repayment of the row it supersedes, as the snapshot has it.
LEMMA OldRepayment ==
  ASSUME LedgerInv, FollowInv, NEW s \in Sessions, NEW e,
         e.sup \in Ids(view[s].txs), NEW l \in DebtLinks(db), e.sup = l.source,
         e.sup # NoId, NEW o \in db.txs, o.id = l.linked
  PROVE  /\ RepaymentSupersedes(view[s], e).sup = o.id
         /\ RepaymentSupersedes(view[s], e).iid = o.iid
<1> DEFINE v == view[s]
           old == {m.linked : m \in {k \in DebtLinks(v) : k.source = e.sup}}
<1>1. l \in DebtLinks(v) /\ \A m \in DebtLinks(v) : m \in DebtLinks(db)
  BY DEF FollowInv, Within, DebtLinks
<1>2. \A m \in DebtLinks(v) : m.source = e.sup => m = l
  BY <1>1 DEF FollowInv, OneDebt
<1>3. old = {l.linked}
  BY <1>1, <1>2
<1>4. RepaymentSupersedes(v, e) = [sup |-> l.linked, iid |-> TxOf(v, l.linked).iid]
  BY <1>3 DEF RepaymentSupersedes
<1>5. \E t \in v.txs : t.id = l.linked
  BY <1>1, DebtIds DEF LedgerInv, ViewsInv, Sound
<1>6. TxOf(v, l.linked) \in v.txs /\ TxOf(v, l.linked).id = l.linked
  BY <1>5, TxOfFound
<1>7. TxOf(v, l.linked) = o
  BY <1>6 DEF LedgerInv, ViewsInv, Sound, UniqueIds
<1> QED BY <1>4, <1>7

LEMMA RepaidFollow ==
  ASSUME LedgerInv, FollowInv, NEW s \in Sessions, WriteExpenseRepaid(s)
  PROVE  FollowInv'
<1>1. PICK i \in Inputs(s), trip \in Trips \cup {NoName}, who \in People,
           unit \in Currencies, a \in Existing(view[s]), amount \in Amounts :
        \E own \in 0 .. amount :
          RepaidForm(s, i, trip, who, unit, a, amount, own)
  BY DEF WriteExpenseRepaid, RepaidForm
<1>2. PICK own \in 0 .. amount : RepaidForm(s, i, trip, who, unit, a, amount, own)
  BY <1>1
<1> DEFINE e == ThirdPartyRow(s, i, who, unit, amount, own)
           r == RepaymentRow(s, e, who, a, own)
           link == [source |-> e.id, linked |-> r.id, type |-> "DEBT_SETTLING"]
<1>3. PICK p : Write(s, p, 1 + Cardinality({r})) /\ FormPlan(p, e, {r}, {link})
  <2> DEFINE made == Created(view[s], "RECEIVABLE", who, nextName)
  <2>1. WriteForm(s, e, {r}, {link}, made, trip, i.tag, i.origins)
    BY <1>2 DEF RepaidForm
  <2> HIDE DEF made, link, e, r
  <2> QED BY <2>1, FormWrites
<1>4. pc[s] = "begun" /\ TypeOK
  BY DEF WriteExpenseRepaid, Ready, LedgerInv
<1>5. /\ AllocateIID(view[s], i.sup) \in 1 .. nextId
      /\ i.sup # NoId => \E u \in view[s].txs : u.id = i.sup
  BY <1>4, InputsResult
<1>6. /\ e.id = nextId /\ e.iid = AllocateIID(view[s], i.sup) /\ e.sup = i.sup
      /\ nextId <= MaxId => e \in Transaction
  BY <1>4, ThirdPartyRowResult DEF SameRow, Row
<1>7. own \in Int
  OBVIOUS
<1>8. r.id = nextId + 1 /\ (nextId + 1 <= MaxId => r \in Transaction)
  BY <1>5, <1>6, <1>7, RepaymentRowResult
<1>9. /\ r.sup = RepaymentSupersedes(view[s], e).sup
      /\ r.iid = RepaymentSupersedes(view[s], e).iid
  BY DEF RepaymentRow, Row
<1> HIDE DEF e, r
<1>10. nextId + 1 <= MaxId /\ nextId <= MaxId /\ nextId \in Nat
  <2>1. Cardinality({r}) = 1
    BY FS_Singleton
  <2>2. nextId + (1 + 1) - 1 <= MaxId
    BY <1>3, <2>1 DEF Write
  <2> QED BY <1>4, <2>2, MaxIdAssumption DEF TypeOK
<1>11. \A x \in p.txs : SameRow(x, e) \/ SameRow(x, r)
  <2>1. \A x : StoredAs(x, e) => SameRow(x, e)
    <3> SUFFICES ASSUME NEW x, NEW tripId \in Nat, NEW tagId \in Nat,
                        x = InsertTransactionRow([e EXCEPT !.trip = tripId,
                                                           !.tag = tagId])
                 PROVE  SameRow(x, e)
      BY DEF StoredAs
    <3> QED BY <1>6, <1>10, StoredType
  <2>2. \A o \in {r} : SameRow(InsertTransactionRow(o), r)
    BY <1>8, <1>10, InsertType
  <2>3. \A x \in p.txs :
          StoredAs(x, e) \/ \E o \in {r} : x = InsertTransactionRow(o)
    BY <1>3 DEF FormPlan
  <2> QED BY <2>1, <2>2, <2>3
<1>12. \A m \in DebtLinks(p) : m.source = nextId /\ m.linked = nextId + 1 /\ m = link
  <2>1. p.links = {link}
    BY <1>3 DEF FormPlan
  <2> QED BY <2>1, <1>6, <1>8 DEF DebtLinks
<1>13. OneDebt(p)
  BY <1>12 DEF OneDebt
<1>14. Follows(db, p)
  <2> SUFFICES ASSUME NEW l \in DebtLinks(db), NEW m \in DebtLinks(p),
                      NEW o \in db.txs, NEW x \in p.txs, NEW y \in p.txs,
                      o.id = l.linked, x.id = m.source, y.id = m.linked,
                      x.sup = l.source
               PROVE  y.sup = o.id /\ y.iid = o.iid
    BY DEF Follows
  <2>1. SameRow(x, e) /\ SameRow(y, r)
    BY <1>6, <1>8, <1>10, <1>11, <1>12 DEF SameRow
  <2>2. l.source # NoId
    BY <1>4, MaxIdAssumption DEF TypeOK, Database, Link, DebtLinks, NoId
  <2>3. e.sup = l.source /\ e.sup # NoId /\ e.sup \in Ids(view[s].txs)
    BY <1>5, <1>6, <2>1, <2>2 DEF SameRow, Ids
  <2>4. r.sup = o.id /\ r.iid = o.iid
    BY <1>9, <2>3, OldRepayment
  <2> QED BY <2>1, <2>4 DEF SameRow
<1> QED BY <1>3, <1>4, <1>13, <1>14, WriteFollow

LEMMA AccountFollow ==
  ASSUME LedgerInv, FollowInv, NEW s \in Sessions, NEW v, NEW a, NEW unit,
         NEW amount, SyncOpeningBalance(s, v, a, unit, amount)
  PROVE  FollowInv'
<1> DEFINE rows == IF OpeningRows(v, a) = {} /\ amount = 0 THEN {}
                   ELSE {NewOpeningRow(v, a, unit, amount)}
           p == [NoPlan EXCEPT !.txs = rows, !.acct = a,
                   !.row = [unit |-> unit, balance |-> amount],
                   !.newCurrency = unit \in Currencies \ RatedCurrencies]
<1>1. Write(s, p, Cardinality(rows))
  BY DEF SyncOpeningBalance
<1> HIDE DEF rows
<1>2. p.links = {}
  BY DEF NoPlan
<1> HIDE DEF p
<1>3. OneDebt(p) /\ Follows(db, p)
  BY <1>2, NoDebtFollows
<1> QED BY <1>1, <1>3, WriteFollow DEF LedgerInv

LEMMA FollowNext == LedgerInv /\ FollowInv /\ [Next]_vars => FollowInv'
<1> SUFFICES ASSUME LedgerInv, FollowInv, [Next]_vars PROVE FollowInv'
  OBVIOUS
<1>1. CASE UNCHANGED vars
  BY <1>1, QuietFollow DEF vars
<1>2. ASSUME NEW s \in Sessions, Begin(s) \/ Rollback(s) \/ Load(s)
      PROVE  FollowInv'
  <2>1. /\ view \in [Sessions -> Database] /\ plan \in [Sessions -> Plan]
    BY DEF LedgerInv, TypeOK
  <2>2. /\ db' = db
        /\ \A o \in Sessions : view'[o] \in {view[o], db, EmptyDb}
        /\ \A o \in Sessions : plan'[o] \in {plan[o], NoPlan}
    BY <1>2, <2>1 DEF Begin, Rollback, Load, Finish
  <2> QED BY <2>2, QuietFollow
<1>3. ASSUME NEW s \in Sessions, WriteExpensePaidSelf(s)
      PROVE  FollowInv'
  BY <1>3, FormFollow DEF WriteExpensePaidSelf
<1>4. ASSUME NEW s \in Sessions, WriteExpenseShared(s)
      PROVE  FollowInv'
  BY <1>4, FormFollow DEF WriteExpenseShared
<1>5. ASSUME NEW s \in Sessions, WriteExpenseOwed(s)
      PROVE  FollowInv'
  BY <1>5, FormFollow DEF WriteExpenseOwed
<1>6. ASSUME NEW s \in Sessions, WriteIncomeSolo(s)
      PROVE  FollowInv'
  BY <1>6, FormFollow, RefundLinksResult DEF WriteIncomeSolo
<1>7. ASSUME NEW s \in Sessions, WriteIncomeShared(s)
      PROVE  FollowInv'
  BY <1>7, FormFollow, RefundLinksResult DEF WriteIncomeShared
<1>8. ASSUME NEW s \in Sessions, WriteTransfer(s)
      PROVE  FollowInv'
  BY <1>8, FormFollow DEF WriteTransfer
<1>9. ASSUME NEW s \in Sessions, AddAccount(s) \/ UpdateAccount(s)
      PROVE  FollowInv'
  BY <1>9, AccountFollow DEF AddAccount, UpdateAccount
<1> QED
  BY <1>1, <1>2, <1>3, <1>4, <1>5, <1>6, <1>7, <1>8, <1>9, RepaidFollow,
     CommitFollow DEF Next

LEMMA FollowInit == Init => FollowInv
<1> SUFFICES ASSUME Init PROVE FollowInv
  OBVIOUS
<1>1. /\ db = EmptyDb
      /\ \A s \in Sessions : view[s] = EmptyDb /\ plan[s] = NoPlan
  BY DEF Init
<1>2. OneDebt(db) /\ Follows(db, db)
  BY <1>1 DEF OneDebt, Follows, DebtLinks, EmptyDb
<1> QED BY <1>1, <1>2, NothingFollows DEF FollowInv

\* Whatever snapshot an edit of a repaid expense was made from, its repayment
\* replaces the repayment of the row the edit replaces: no edit leaves two
\* live repayments of one expense.
THEOREM RepaymentsAlwaysFollow == Spec => []RepaymentsFollow
<1>1. LedgerInv /\ FollowInv => RepaymentsFollow
  <2> SUFFICES ASSUME LedgerInv, FollowInv, NEW l \in DebtLinks(db),
                      NEW m \in DebtLinks(db), TxOf(db, m.source).sup = l.source
               PROVE  /\ TxOf(db, m.linked).sup = l.linked
                      /\ TxOf(db, m.linked).iid = TxOf(db, l.linked).iid
    BY DEF RepaymentsFollow
  <2>1. Settled(db) /\ Follows(db, db)
    BY DEF LedgerInv, Sound, FollowInv
  <2>2. /\ TxOf(db, m.source) \in db.txs /\ TxOf(db, m.source).id = m.source
        /\ TxOf(db, m.linked) \in db.txs /\ TxOf(db, m.linked).id = m.linked
        /\ TxOf(db, l.linked) \in db.txs /\ TxOf(db, l.linked).id = l.linked
    BY <2>1, DebtIds, TxOfFound
  <2> QED BY <2>1, <2>2 DEF Follows
<1>2. Init => LedgerInv /\ FollowInv
  BY InitInv, FollowInit
<1>3. LedgerInv /\ FollowInv /\ [Next]_vars => (LedgerInv /\ FollowInv)'
  BY NextStep, FollowNext
<1> QED BY <1>1, <1>2, <1>3, PTL DEF Spec

------------------------------------------------------------------------------
\* The two copies of an initial balance: the one on the row of its account and
\* the one in the ledger.

\* What the forms write: rows that are neither void nor opening balances, and
\* origins of their first row.

Formed(t) ==
  {"id", "type", "void"} \subseteq DOMAIN t /\ t.type # "OPENING_BALANCE"

FormRows(p) ==
  /\ p.acct = NoAccount
  /\ \A x \in p.txs : x.type # "OPENING_BALANCE" /\ ~x.void
  /\ \A o \in p.origins : o.tx \in Ids(p.txs)

WritesForm(s) == \E p, k : Write(s, p, k) /\ FormRows(p)

LEMMA RowFormed ==
  ASSUME NEW id, NEW iid, NEW type, NEW sup, NEW lines, NEW splits,
         type # "OPENING_BALANCE"
  PROVE  LET row == Row(id, iid, type, sup, lines)
         IN  Formed(row) /\ Formed([row EXCEPT !.splits = splits])
BY DEF Row, Formed

LEMMA StoredFormed ==
  ASSUME NEW t, Formed(t), NEW trip, NEW tag
  PROVE  LET x == InsertTransactionRow([t EXCEPT !.trip = trip, !.tag = tag])
         IN  x.id = t.id /\ x.type # "OPENING_BALANCE" /\ ~x.void
BY DEF Formed, InsertTransactionRow

LEMMA InsertFormed ==
  ASSUME NEW t, Formed(t)
  PROVE  /\ InsertTransactionRow(t).type # "OPENING_BALANCE"
         /\ ~InsertTransactionRow(t).void
BY DEF Formed, InsertTransactionRow

LEMMA WriteFormRows ==
  ASSUME LedgerInv, NEW s \in Sessions, NEW t, Formed(t), NEW others,
         \A o \in others : Formed(o), NEW links, NEW recv, NEW trip, NEW tag,
         NEW origins, WriteForm(s, t, others, links, recv, trip, tag, origins)
  PROVE  WritesForm(s)
<1>1. PICK p : /\ Write(s, p, 1 + Cardinality(others))
               /\ FormPlan(p, t, others, links)
  BY FormWrites
<1>2. \A x : StoredAs(x, t) =>
        x.id = t.id /\ x.type # "OPENING_BALANCE" /\ ~x.void
  <2> SUFFICES ASSUME NEW x, NEW tripId \in Nat, NEW tagId \in Nat,
                      x = InsertTransactionRow([t EXCEPT !.trip = tripId,
                                                         !.tag = tagId])
               PROVE  x.id = t.id /\ x.type # "OPENING_BALANCE" /\ ~x.void
    BY DEF StoredAs
  <2> QED BY StoredFormed
<1>3. \A o \in others : /\ InsertTransactionRow(o).type # "OPENING_BALANCE"
                        /\ ~InsertTransactionRow(o).void
  BY InsertFormed
<1>4. p.acct = NoAccount
  BY <1>1 DEF FormPlan
<1>5. \A x \in p.txs : x.type # "OPENING_BALANCE" /\ ~x.void
  BY <1>1, <1>2, <1>3 DEF FormPlan
<1>6. \A o \in p.origins : o.tx \in Ids(p.txs)
  <2>1. PICK x \in p.txs : StoredAs(x, t)
    BY <1>1 DEF FormPlan
  <2>2. \A o \in p.origins : o.tx = t.id
    BY <1>1 DEF FormPlan
  <2> QED BY <1>2, <2>1, <2>2 DEF Ids
<1>7. FormRows(p)
  BY <1>4, <1>5, <1>6 DEF FormRows
<1> QED BY <1>1, <1>7 DEF WritesForm

\* The form requests.
WriteForms(s) ==
  \/ WriteExpensePaidSelf(s) \/ WriteExpenseShared(s) \/ WriteExpenseOwed(s)
  \/ WriteExpenseRepaid(s) \/ WriteIncomeSolo(s) \/ WriteIncomeShared(s)
  \/ WriteTransfer(s)

LEMMA FormsWrite ==
  ASSUME LedgerInv, NEW s \in Sessions, WriteForms(s)
  PROVE  WritesForm(s)
<1>1. CASE WriteExpensePaidSelf(s)
  BY <1>1, RowFormed, WriteFormRows DEF WriteExpensePaidSelf
<1>2. CASE WriteExpenseShared(s)
  <2>1. PICK i \in Inputs(s), trip \in Trips \cup {NoName}, who \in People,
             a \in Existing(view[s]), amount \in Amounts :
          \E own \in 0 .. amount : SharedForm(s, i, trip, who, a, amount, own)
    BY <1>2 DEF WriteExpenseShared, SharedForm
  <2>2. PICK own \in 0 .. amount : SharedForm(s, i, trip, who, a, amount, own)
    BY <2>1
  <2>3. PICK t : Formed(t) /\ \E recv :
          WriteForm(s, t, {}, {}, recv, trip, i.tag, i.origins)
    BY <2>2, RowFormed DEF SharedForm
  <2> QED BY <2>3, WriteFormRows
<1>3. CASE WriteExpenseOwed(s)
  <2>1. PICK i \in Inputs(s), trip \in Trips \cup {NoName}, who \in People,
             unit \in Currencies, amount \in Amounts :
          \E own \in 0 .. amount : \E recv :
            WriteForm(s, ThirdPartyRow(s, i, who, unit, amount, own),
                      {}, {}, recv, trip, i.tag, i.origins)
    BY <1>3 DEF WriteExpenseOwed
  <2>2. \A own : Formed(ThirdPartyRow(s, i, who, unit, amount, own))
    BY RowFormed DEF ThirdPartyRow
  <2> QED BY <2>1, <2>2, WriteFormRows
<1>4. CASE WriteExpenseRepaid(s)
  <2>1. PICK i \in Inputs(s), trip \in Trips \cup {NoName}, who \in People,
             unit \in Currencies, a \in Existing(view[s]), amount \in Amounts :
          \E own \in 0 .. amount :
            RepaidForm(s, i, trip, who, unit, a, amount, own)
    BY <1>4 DEF WriteExpenseRepaid, RepaidForm
  <2>2. PICK own \in 0 .. amount :
          RepaidForm(s, i, trip, who, unit, a, amount, own)
    BY <2>1
  <2> DEFINE e == ThirdPartyRow(s, i, who, unit, amount, own)
             r == RepaymentRow(s, e, who, a, own)
             links == {[source |-> e.id, linked |-> r.id, type |-> "DEBT_SETTLING"]}
             recv == Created(view[s], "RECEIVABLE", who, nextName)
  <2>3. WriteForm(s, e, {r}, links, recv, trip, i.tag, i.origins)
    BY <2>2 DEF RepaidForm
  <2>4. Formed(e) /\ Formed(r)
    BY RowFormed DEF ThirdPartyRow, RepaymentRow
  <2> HIDE DEF e, r, links, recv
  <2> QED BY <2>3, <2>4, WriteFormRows
<1>5. CASE WriteIncomeSolo(s)
  BY <1>5, RowFormed, WriteFormRows DEF WriteIncomeSolo
<1>6. CASE WriteIncomeShared(s)
  <2>1. PICK i \in Inputs(s), a \in Existing(view[s]), amount \in Amounts,
             who \in People, parent \in {NoId} \cup Parents(s) :
          \E own \in 0 .. amount :
            WriteForm(s,
              [Row(nextId, AllocateIID(view[s], i.sup), "INCOME", i.sup,
                   SharedIncomeLines(a, UnitOf(view[s], a), amount, own,
                     GetOrCreate(view[s], "RECEIVABLE", who, nextName)))
                 EXCEPT !.splits =
                   {[who |-> who, share |-> amount - own, paid |-> 0]}],
              {}, RefundLinks(parent, nextId),
              Created(view[s], "RECEIVABLE", who, nextName),
              NoName, i.tag, i.origins)
    BY <1>6 DEF WriteIncomeShared
  <2>2. \A iid, lines, splits :
          Formed([Row(nextId, iid, "INCOME", i.sup, lines) EXCEPT !.splits = splits])
    BY RowFormed
  <2> QED BY <2>1, <2>2, WriteFormRows
<1>7. CASE WriteTransfer(s)
  <2>1. PICK i \in Inputs(s), from \in Existing(view[s]),
             to \in Existing(view[s]), sent \in Amounts, received \in Amounts :
          WriteForm(s,
            Row(nextId, AllocateIID(view[s], i.sup), "TRANSFER", i.sup,
                TransferLines(from, to, UnitOf(view[s], from),
                              UnitOf(view[s], to), sent, received)),
            {}, {}, {}, NoName, i.tag, i.origins)
    BY <1>7 DEF WriteTransfer
  <2>2. \A iid, lines : Formed(Row(nextId, iid, "TRANSFER", i.sup, lines))
    BY RowFormed
  <2> QED BY <2>1, <2>2, WriteFormRows
<1> QED BY <1>1, <1>2, <1>3, <1>4, <1>5, <1>6, <1>7 DEF WriteForms

\* The steps that write nothing.
Quiet ==
  /\ db' = db
  /\ \A o \in Sessions :
       \/ plan'[o] = plan[o] /\ (pc'[o] = pc[o] \/ pc[o] # "written")
       \/ plan'[o] = NoPlan /\ pc'[o] = "idle"

LEMMA StepKinds ==
  ASSUME LedgerInv, [Next]_vars
  PROVE  \/ Quiet
         \/ \E s \in Sessions : \/ WriteForms(s) \/ AddAccount(s)
                                \/ UpdateAccount(s) \/ Commit(s)
<1>1. /\ pc \in [Sessions -> {"idle", "begun", "written"}]
      /\ plan \in [Sessions -> Plan]
  BY DEF LedgerInv, TypeOK
<1>2. CASE UNCHANGED vars
  BY <1>2 DEF vars, Quiet
<1>3. ASSUME NEW s \in Sessions, Begin(s) \/ Load(s) \/ Rollback(s)
      PROVE  Quiet
  BY <1>1, <1>3 DEF Begin, Load, Rollback, Finish, Quiet
<1> QED BY <1>2, <1>3 DEF Next, WriteForms

------------------------------------------------------------------------------
\* The invariant of the two copies.

\* The newest opening row of account a has the lines of its balance, or its
\* balance is zero.
Agrees(txs, row, a) ==
  row.balance # 0 =>
    \E t \in txs :
      /\ t.type = "OPENING_BALANCE" /\ PostsTo(t.lines, Asset(a))
      /\ \A u \in txs : u.type = "OPENING_BALANCE" /\ PostsTo(u.lines, Asset(a))
           => u.id <= t.id
      /\ t.lines = OpeningLines(a, row.unit, row.balance)

\* An account request writes at most one row, for its own account, with the
\* balance it also writes to the account; a form writes no opening row.
OpensOwn(p) ==
  \A t \in p.txs : t.type = "OPENING_BALANCE" =>
    /\ p.acct # NoAccount
    /\ p.txs = {t}
    /\ \A a \in Accounts : PostsTo(t.lines, Asset(a)) => a = p.acct

WritesBoth(p) == p.acct # NoAccount => Agrees(p.txs, p.row, p.acct)

\* Its row is newer than those of the account it has locked.
Newest(p, d) ==
  \A t \in p.txs, u \in d.txs :
    /\ t.type = "OPENING_BALANCE"
    /\ u.type = "OPENING_BALANCE" /\ PostsTo(u.lines, Asset(p.acct))
    => u.id < t.id

\* No two requests have one account locked.
LocksApart ==
  \A s, o \in Sessions :
    plan[s].acct = plan[o].acct /\ plan[s].acct # NoAccount => s = o

OpeningInv ==
  /\ \A a \in Existing(db) : Agrees(db.txs, db.acct[a], a)
  /\ \A s \in Sessions :
       /\ pc[s] # "written" => plan[s].acct = NoAccount
       /\ OpensOwn(plan[s]) /\ WritesBoth(plan[s]) /\ Newest(plan[s], db)
  /\ LocksApart

LEMMA EmptyOpens ==
  /\ NoPlan.acct = NoAccount /\ OpensOwn(NoPlan) /\ WritesBoth(NoPlan)
  /\ \A d : Newest(NoPlan, d)
BY DEF NoPlan, OpensOwn, WritesBoth, Newest

\* Opening lines post to one account.
LEMMA OpeningPosts ==
  ASSUME NEW a, NEW unit, NEW amount, NEW b
  PROVE  PostsTo(OpeningLines(a, unit, amount), Asset(b)) <=> b = a
<1> DEFINE lines == OpeningLines(a, unit, amount)
<1>1. /\ Len(lines) = 2 /\ lines[1].acct = Asset(a) /\ lines[2].acct = Equity
  BY DEF OpeningLines, Post
<1>2. 1 .. 2 = {1, 2}
  OBVIOUS
<1>3. Asset(b) # Equity /\ (Asset(b) = Asset(a) <=> b = a)
  BY DEF Asset, Equity
<1> QED BY <1>1, <1>2, <1>3 DEF PostsTo

------------------------------------------------------------------------------
\* The steps keep the copies of a balance equal.

LEMMA QuietOpening ==
  ASSUME OpeningInv, Quiet PROVE OpeningInv'
<1> db' = db
  BY DEF Quiet
<1>1. \A a \in Existing(db)' : Agrees(db.txs, db.acct[a], a)'
  BY DEF OpeningInv, Existing, Agrees
<1>2. ASSUME NEW s \in Sessions
      PROVE  /\ pc'[s] # "written" => plan'[s].acct = NoAccount
             /\ OpensOwn(plan'[s]) /\ WritesBoth(plan'[s]) /\ Newest(plan'[s], db')
  BY EmptyOpens DEF OpeningInv, Quiet
<1>3. LocksApart'
  BY EmptyOpens DEF OpeningInv, LocksApart, Quiet
<1> QED BY <1>1, <1>2, <1>3 DEF OpeningInv, OpensOwn, WritesBoth, Newest

LEMMA WriteOpening ==
  ASSUME LedgerInv, OpeningInv, NEW s \in Sessions, NEW p, NEW k, Write(s, p, k),
         OpensOwn(p), WritesBoth(p), Newest(p, db),
         p.acct # NoAccount => \A o \in Sessions \ {s} : plan[o].acct # p.acct
  PROVE  OpeningInv'
<1>1. /\ plan'[s] = p /\ pc'[s] = "written" /\ db' = db
      /\ \A o \in Sessions \ {s} : plan'[o] = plan[o] /\ pc'[o] = pc[o]
  BY DEF Write, LedgerInv, TypeOK
<1>2. \A a \in Existing(db)' : Agrees(db.txs, db.acct[a], a)'
  BY <1>1 DEF OpeningInv, Existing, Agrees
<1>3. ASSUME NEW o \in Sessions
      PROVE  /\ pc'[o] # "written" => plan'[o].acct = NoAccount
             /\ OpensOwn(plan'[o]) /\ WritesBoth(plan'[o]) /\ Newest(plan'[o], db')
  BY <1>1 DEF OpeningInv
<1>4. LocksApart'
  BY <1>1 DEF OpeningInv, LocksApart
<1> QED BY <1>2, <1>3, <1>4 DEF OpeningInv, OpensOwn, WritesBoth, Newest

LEMMA CommitOpening ==
  ASSUME LedgerInv, OpeningInv, NEW s \in Sessions, Commit(s)
  PROVE  OpeningInv'
<1> DEFINE p == plan[s]
           a == p.acct
<1>1. /\ db'.txs = db.txs \cup p.txs
      /\ db'.acct = IF a = NoAccount THEN db.acct ELSE [db.acct EXCEPT ![a] = p.row]
  BY DEF Commit
<1>2. /\ plan'[s] = NoPlan /\ pc'[s] = "idle"
      /\ \A o \in Sessions \ {s} : plan'[o] = plan[o] /\ pc'[o] = pc[o]
  BY DEF Commit, Finish, LedgerInv, TypeOK
<1>3. /\ db.acct \in [Accounts -> AccountRow \cup {NoAccount}]
      /\ p \in Plan /\ (a # NoAccount => a \in Accounts)
      /\ \A t \in db.txs \cup p.txs : t.id \in Nat
  BY MaxIdAssumption DEF LedgerInv, TypeOK, Database, Plan, Transaction
<1>4. /\ OpensOwn(p) /\ WritesBoth(p) /\ Newest(p, db)
      /\ \A b \in Existing(db) : Agrees(db.txs, db.acct[b], b)
  BY DEF OpeningInv
<1>5. ASSUME NEW b \in Accounts, b # a, db'.acct[b] # NoAccount
      PROVE  Agrees(db'.txs, db'.acct[b], b)
  <2>1. db'.acct[b] = db.acct[b] /\ b \in Existing(db)
    BY <1>1, <1>3, <1>5 DEF Existing
  <2>2. \A t \in p.txs : t.type = "OPENING_BALANCE" => ~PostsTo(t.lines, Asset(b))
    BY <1>4, <1>5 DEF OpensOwn
  <2> QED BY <1>1, <1>4, <2>1, <2>2 DEF Agrees
<1>6. ASSUME a \in Accounts, a # NoAccount
      PROVE  Agrees(db'.txs, p.row, a)
  <2> SUFFICES ASSUME p.row.balance # 0 PROVE Agrees(db'.txs, p.row, a)
    BY DEF Agrees
  <2>1. PICK t \in p.txs :
          /\ t.type = "OPENING_BALANCE" /\ PostsTo(t.lines, Asset(a))
          /\ t.lines = OpeningLines(a, p.row.unit, p.row.balance)
    BY <1>4, <1>6 DEF WritesBoth, Agrees
  <2>2. p.txs = {t}
    BY <1>4, <2>1 DEF OpensOwn
  <2>3. \A u \in db.txs :
          u.type = "OPENING_BALANCE" /\ PostsTo(u.lines, Asset(a)) => u.id < t.id
    BY <1>4, <2>1 DEF Newest
  <2>4. \A u \in db'.txs :
          u.type = "OPENING_BALANCE" /\ PostsTo(u.lines, Asset(a)) => u.id <= t.id
    BY <1>1, <1>3, <2>2, <2>3
  <2> QED BY <1>1, <2>1, <2>4 DEF Agrees
<1>7. \A b \in Existing(db') : Agrees(db'.txs, db'.acct[b], b)
  <2> SUFFICES ASSUME NEW b \in Existing(db')
               PROVE  Agrees(db'.txs, db'.acct[b], b)
    OBVIOUS
  <2>1. b \in Accounts /\ db'.acct[b] # NoAccount
    BY DEF Existing
  <2>2. CASE b = a /\ a # NoAccount
    BY <1>1, <1>3, <1>6, <2>1, <2>2
  <2>3. CASE b # a
    BY <1>5, <2>1, <2>3
  <2>4. CASE b = a /\ a = NoAccount
    BY <2>1, <2>4, NoAccountAssumption
  <2> QED BY <2>2, <2>3, <2>4
<1>8. ASSUME NEW o \in Sessions
      PROVE  /\ pc'[o] # "written" => plan'[o].acct = NoAccount
             /\ OpensOwn(plan'[o]) /\ WritesBoth(plan'[o]) /\ Newest(plan'[o], db')
  <2>1. CASE o = s
    BY <2>1, <1>2, EmptyOpens
  <2>2. CASE o # s
    <3>1. /\ plan'[o] = plan[o] /\ pc'[o] = pc[o] /\ OpensOwn(plan[o])
          /\ WritesBoth(plan[o]) /\ Newest(plan[o], db)
          /\ pc[o] # "written" => plan[o].acct = NoAccount
      BY <2>2, <1>2 DEF OpeningInv
    <3>2. Newest(plan[o], db')
      <4> SUFFICES ASSUME NEW t \in plan[o].txs, NEW u \in p.txs,
                          t.type = "OPENING_BALANCE", u.type = "OPENING_BALANCE",
                          PostsTo(u.lines, Asset(plan[o].acct))
                   PROVE  FALSE
        BY <1>1, <3>1 DEF Newest
      <4>1. plan[o].acct # NoAccount /\ plan[o].acct \in Accounts
        BY <3>1 DEF OpensOwn, LedgerInv, TypeOK, Plan
      <4>2. plan[o].acct = a
        BY <1>4, <4>1 DEF OpensOwn
      <4> QED BY <2>2, <4>1, <4>2 DEF OpeningInv, LocksApart
    <3> QED BY <3>1, <3>2
  <2> QED BY <2>1, <2>2
<1>9. LocksApart'
  BY <1>2, EmptyOpens DEF OpeningInv, LocksApart
<1> QED BY <1>7, <1>8, <1>9 DEF OpeningInv, OpensOwn, WritesBoth, Newest, Existing, Agrees

\* A form writes rows of its own kind.
LEMMA FormOpening ==
  ASSUME LedgerInv, OpeningInv, NEW s \in Sessions, WritesForm(s)
  PROVE  OpeningInv'
<1>1. PICK p, k : Write(s, p, k) /\ FormRows(p)
  BY DEF WritesForm
<1>2. OpensOwn(p) /\ WritesBoth(p) /\ Newest(p, db)
  BY <1>1 DEF FormRows, OpensOwn, WritesBoth, Newest
<1> QED BY <1>1, <1>2, WriteOpening DEF FormRows

LEMMA AccountOpening ==
  ASSUME LedgerInv, OpeningInv, NEW s \in Sessions, NEW v, Readable(v),
         NEW a \in Accounts, NEW unit \in Units, NEW amount \in OpeningAmounts,
         Untouched(s, a), SyncOpeningBalance(s, v, a, unit, amount)
  PROVE  OpeningInv'
<1> DEFINE x == NewOpeningRow(v, a, unit, amount)
           rows == IF OpeningRows(v, a) = {} /\ amount = 0 THEN {} ELSE {x}
           p == [NoPlan EXCEPT !.txs = rows, !.acct = a,
                   !.row = [unit |-> unit, balance |-> amount],
                   !.newCurrency = unit \in Currencies \ RatedCurrencies]
           lines == IF amount = 0 THEN << >> ELSE OpeningLines(a, unit, amount)
<1>1. /\ OpeningRows(v, a) # {} => HasOneHead(OpeningRows(v, a))
      /\ Write(s, p, Cardinality(rows))
  BY DEF SyncOpeningBalance
<1>2. x.id = nextId /\ x.type = "OPENING_BALANCE" /\ x.lines = lines
  <2> DEFINE sup == IF OpeningRows(v, a) = {} THEN NoId ELSE OpeningHead(v, a).id
             row == Row(nextId, AllocateIID(v, sup), "OPENING_BALANCE", sup, lines)
             b == (amount = 0)
  <2>1. b \in BOOLEAN /\ x = InsertTransactionRow([row EXCEPT !.void = b])
    BY DEF NewOpeningRow
  <2>2. row = Row(nextId, AllocateIID(v, sup), "OPENING_BALANCE", sup, lines)
    OBVIOUS
  <2> HIDE DEF x, row, sup, b, lines
  <2> QED BY <2>1, <2>2, VoidedType
<1> HIDE DEF x
<1>3. /\ p.txs = rows /\ p.acct = a
      /\ p.row.unit = unit /\ p.row.balance = amount
  BY DEF NoPlan
<1>4. rows \subseteq {x} /\ (amount # 0 => rows = {x})
  OBVIOUS
<1> HIDE DEF p, rows
<1>5. \A b \in Accounts : PostsTo(x.lines, Asset(b)) => b = a
  BY <1>2, OpeningPosts DEF PostsTo
<1>6. a # NoAccount
  BY NoAccountAssumption
<1>7. OpensOwn(p)
  BY <1>3, <1>4, <1>5, <1>6 DEF OpensOwn
<1>8. WritesBoth(p)
  <2> SUFFICES ASSUME amount # 0 PROVE Agrees(p.txs, p.row, a)
    BY <1>3 DEF WritesBoth, Agrees
  <2>1. p.txs = {x} /\ x.lines = OpeningLines(a, unit, amount)
    BY <1>2, <1>3, <1>4
  <2>2. PostsTo(x.lines, Asset(a))
    BY <2>1, OpeningPosts
  <2>3. x.id <= x.id
    BY <1>2, MaxIdAssumption DEF LedgerInv, TypeOK
  <2> QED BY <1>2, <1>3, <2>1, <2>2, <2>3 DEF Agrees
<1>9. Newest(p, db)
  <2>1. \A u \in db.txs : u.id < nextId
    BY DEF LedgerInv, Below
  <2> QED BY <1>2, <1>3, <1>4, <2>1 DEF Newest
<1>10. \A o \in Sessions \ {s} : plan[o].acct # a
  BY <1>6 DEF Untouched, OpeningInv
<1> QED BY <1>1, <1>3, <1>7, <1>8, <1>9, <1>10, WriteOpening

LEMMA OpeningNext == LedgerInv /\ OpeningInv /\ [Next]_vars => OpeningInv'
<1> SUFFICES ASSUME LedgerInv, OpeningInv, [Next]_vars PROVE OpeningInv'
  OBVIOUS
<1>1. ASSUME NEW s \in Sessions, AddAccount(s)
      PROVE  OpeningInv'
  <2>1. PICK a \in Accounts, unit \in Units, amount \in OpeningAmounts :
          /\ Untouched(s, a)
          /\ SyncOpeningBalance(s, AccountView(s, unit), a, unit, amount)
    BY <1>1 DEF AddAccount
  <2> QED BY <2>1, AccountViewReadable, AccountOpening
<1>2. ASSUME NEW s \in Sessions, UpdateAccount(s)
      PROVE  OpeningInv'
  <2>1. PICK a \in Existing(view[s]), unit \in Units, amount \in OpeningAmounts :
          /\ Untouched(s, a)
          /\ SyncOpeningBalance(s, AccountView(s, unit), a, unit, amount)
    BY <1>2 DEF UpdateAccount
  <2>2. a \in Accounts
    BY DEF Existing
  <2> QED BY <2>1, <2>2, AccountViewReadable, AccountOpening
<1> QED
  BY <1>1, <1>2, StepKinds, QuietOpening, FormsWrite, FormOpening, CommitOpening

LEMMA OpeningInit == Init => OpeningInv
<1> SUFFICES ASSUME Init PROVE OpeningInv
  OBVIOUS
<1>1. Existing(db) = {}
  BY DEF Init, EmptyDb, Existing
<1>2. \A s \in Sessions : plan[s] = NoPlan
  BY DEF Init
<1> QED BY <1>1, <1>2, EmptyOpens DEF OpeningInv, LocksApart

\* The initial balance on an account's row and the newest opening row posted
\* to the account agree, whatever requests for it overlap: the row lock that
\* UpsertBankAccount takes orders its rows as it orders its updates.
THEOREM BalancesAlwaysAgree == Spec => []NewestOpeningAgrees
<1>1. OpeningInv => NewestOpeningAgrees
  BY DEF OpeningInv, NewestOpeningAgrees, Agrees, OpeningRows
<1>2. Init => LedgerInv /\ OpeningInv
  BY InitInv, OpeningInit
<1>3. LedgerInv /\ OpeningInv /\ [Next]_vars => (LedgerInv /\ OpeningInv)'
  BY NextStep, OpeningNext
<1> QED BY <1>1, <1>2, <1>3, PTL DEF Spec

------------------------------------------------------------------------------
\* The walk along a chain of edits.

\* One step of the walk, counted back from the last id.
WalkStep(d, last, f, k) ==
  LET id == last - k
      next == SupersededBy(d, id)
  IN  IF id # NoId /\ next # NoId /\ next \in id + 1 .. last
      THEN f[last - next]
      ELSE IF \E t \in LatestVersions(d) : t.id = id THEN id ELSE NoId

\* It looks only at earlier values, so the recursive definition has a solution.
Walks(d, last, f, n) == f = [k \in 0 .. n |-> WalkStep(d, last, f, k)]

LEMMA WalkStepLocal ==
  ASSUME NEW d, NEW last \in Nat, NEW k \in Nat, NEW f, NEW g,
         \A j \in 0 .. k - 1 : f[j] = g[j]
  PROVE  WalkStep(d, last, f, k) = WalkStep(d, last, g, k)
<1> DEFINE id == last - k
           next == SupersededBy(d, id)
<1>1. ASSUME next \in id + 1 .. last
      PROVE  f[last - next] = g[last - next]
  <2>1. last - next \in 0 .. k - 1
    BY <1>1
  <2> QED BY <2>1
<1> QED BY <1>1 DEF WalkStep

LEMMA WalkExists ==
  ASSUME NEW d, NEW last \in Nat
  PROVE  \E f : Walks(d, last, f, last)
<1> DEFINE Stuck == {n \in Nat : ~ \E f : Walks(d, last, f, n)}
<1> SUFFICES ASSUME Stuck # {} PROVE FALSE
  OBVIOUS
<1>1. PICK n \in Stuck : \A m \in Stuck : n <= m
  <2>1. Stuck \subseteq Nat
    OBVIOUS
  <2> HIDE DEF Stuck
  <2> QED BY <2>1, MinExists, Zenon
<1>2. n \in Nat /\ ~ \E f : Walks(d, last, f, n)
  OBVIOUS
<1>3. \E g : \A k \in 0 .. n - 1 : g[k] = WalkStep(d, last, g, k)
  <2>1. CASE n = 0
    BY <2>1
  <2>2. CASE n # 0
    <3>1. n - 1 \in Nat /\ n - 1 \notin Stuck
      BY <1>1, <1>2, <2>2
    <3>2. PICK g : Walks(d, last, g, n - 1)
      BY <3>1
    <3> QED BY <3>2 DEF Walks
  <2> QED BY <2>1, <2>2
<1>4. PICK g : \A k \in 0 .. n - 1 : g[k] = WalkStep(d, last, g, k)
  BY <1>3
<1> DEFINE f == [k \in 0 .. n |-> WalkStep(d, last, g, k)]
<1>5. \A k \in 0 .. n - 1 : f[k] = g[k]
  BY <1>2, <1>4
<1>6. ASSUME NEW k \in 0 .. n
      PROVE  WalkStep(d, last, f, k) = WalkStep(d, last, g, k)
  <2> HIDE DEF f
  <2>1. k \in Nat /\ 0 .. k - 1 \subseteq 0 .. n - 1
    BY <1>2
  <2>2. \A j \in 0 .. k - 1 : f[j] = g[j]
    BY <1>5, <2>1, Zenon
  <2> QED BY <2>1, <2>2, WalkStepLocal
<1>7. Walks(d, last, f, n)
  BY <1>6 DEF Walks
<1> QED BY <1>2, <1>7

LEMMA CurrentVersionWalks ==
  ASSUME NEW d, NEW last \in Nat
  PROVE  \E f : /\ \A k \in 0 .. last : f[k] = WalkStep(d, last, f, k)
                /\ CurrentVersion(d, last) = [id \in 1 .. last |-> f[last - id]]
<1> DEFINE walk[k \in 0 .. last] ==
             LET id == last - k
                 next == SupersededBy(d, id)
             IN  IF id # NoId /\ next # NoId /\ next \in id + 1 .. last
                 THEN walk[last - next]
                 ELSE IF \E t \in LatestVersions(d) : t.id = id THEN id ELSE NoId
<1>1. walk = CHOOSE f : Walks(d, last, f, last)
  BY DEF Walks, WalkStep
<1>2. Walks(d, last, walk, last)
  BY <1>1, WalkExists
<1>3. CurrentVersion(d, last) = [id \in 1 .. last |-> walk[last - id]]
  BY DEF CurrentVersion
<1> HIDE DEF walk
<1> QED BY <1>2, <1>3 DEF Walks

\* The rows a walk goes through: ids in range, unique, none void, and every
\* superseding row newer than the row of the same event that it names.
WalkableRows(txs, last) ==
  /\ UniqueIds(txs)
  /\ \A t \in txs :
       /\ t.id \in 1 .. last
       /\ ~t.void
       /\ t.sup # NoId => \E u \in txs : u.id = t.sup /\ u.id < t.id /\ u.iid = t.iid

LEMMA SupersededByNewest ==
  ASSUME NEW d, NEW last \in Nat, WalkableRows(d.txs, last),
         NEW u \in d.txs, NEW w \in d.txs, w.sup = u.id
  PROVE  \E v \in d.txs : v.sup = u.id /\ v.id = SupersededBy(d, u.id)
<1> DEFINE next == {t.id : t \in {x \in d.txs : x.sup = u.id}}
<1>1. next \subseteq 0 .. last /\ next # {}
  BY DEF WalkableRows
<1>2. \A n \in next : \E v \in d.txs : v.sup = u.id /\ v.id = n
  OBVIOUS
<1>3. SupersededBy(d, u.id) =
        IF next = {} THEN NoId ELSE CHOOSE n \in next : \A m \in next : m <= n
  BY DEF SupersededBy
<1> HIDE DEF next
<1>4. \E n \in next : \A m \in next : m <= n
  BY <1>1, MaxExists
<1>5. SupersededBy(d, u.id) \in next
  BY <1>1, <1>3, <1>4
<1> QED BY <1>2, <1>5

LEMMA WalkEndsCurrent ==
  ASSUME NEW d, NEW last \in Nat, WalkableRows(d.txs, last), NEW u \in d.txs
  PROVE  \E t \in LatestVersions(d) :
           t.id = CurrentVersion(d, last)[u.id] /\ t.iid = u.iid
<1>1. PICK f : /\ \A k \in 0 .. last : f[k] = WalkStep(d, last, f, k)
               /\ CurrentVersion(d, last) = [id \in 1 .. last |-> f[last - id]]
  BY CurrentVersionWalks
<1> DEFINE Ends(x) == \E t \in LatestVersions(d) :
                        t.id = f[last - x.id] /\ t.iid = x.iid
           Lost == {k \in Nat : \E x \in d.txs : x.id = last - k /\ ~Ends(x)}
<1>2. \A x \in d.txs : x.id \in 1 .. last
  BY DEF WalkableRows
<1>3. Lost = {}
  <2> SUFFICES ASSUME Lost # {} PROVE FALSE
    OBVIOUS
  <2>1. PICK k \in Lost : \A j \in Lost : k <= j
    <3>1. Lost \subseteq Nat
      OBVIOUS
    <3> HIDE DEF Lost
    <3> QED BY <3>1, MinExists, Zenon
  <2>2. PICK x \in d.txs : x.id = last - k /\ ~Ends(x)
    OBVIOUS
  <2>3. k \in 0 .. last /\ last - k = x.id /\ last - x.id = k /\ x.id # NoId
    BY <1>2, <2>2 DEF NoId
  <2>4. f[k] = WalkStep(d, last, f, k)
    BY <1>1, <2>3
  <2>5. CASE \E w \in d.txs : w.sup = x.id
    <3>1. PICK v \in d.txs : v.sup = x.id /\ v.id = SupersededBy(d, x.id)
      BY <2>5, SupersededByNewest
    <3>2. x.id < v.id /\ v.iid = x.iid
      BY <2>3, <3>1 DEF WalkableRows, UniqueIds
    <3>3. v.id \in x.id + 1 .. last /\ v.id # NoId
      BY <1>2, <3>2 DEF NoId
    <3>4. f[k] = f[last - v.id]
      BY <2>3, <2>4, <3>1, <3>3 DEF WalkStep
    <3>5. last - v.id \in Nat /\ v.id = last - (last - v.id) /\ last - v.id < k
      BY <1>2, <2>3, <3>2
    <3>6. last - v.id \notin Lost
      BY <2>1, <2>3, <3>5
    <3>7. Ends(v)
      BY <3>5, <3>6
    <3> QED BY <2>2, <2>3, <3>2, <3>4, <3>7
  <2>6. CASE ~ \E w \in d.txs : w.sup = x.id
    <3>1. x \in LatestVersions(d)
      BY <2>6 DEF LatestVersions, Heads, Superseded, WalkableRows
    <3>2. SupersededBy(d, x.id) = NoId
      BY <2>6 DEF SupersededBy
    <3>3. f[k] = x.id
      BY <2>3, <2>4, <3>1, <3>2 DEF WalkStep
    <3> QED BY <2>2, <2>3, <3>1, <3>3
  <2> QED BY <2>5, <2>6
<1>4. Ends(u)
  <2>1. last - u.id \in Nat /\ u.id = last - (last - u.id)
    BY <1>2
  <2> QED BY <1>3, <2>1
<1> QED BY <1>1, <1>2, <1>4

------------------------------------------------------------------------------
\* The invariant.

\* The rows are not void and the origins name rows that are there.
Recorded(d) ==
  /\ \A t \in d.txs : ~t.void
  /\ \A o \in d.origins : o.tx \in Ids(d.txs)

OriginsInv ==
  /\ Recorded(db)
  /\ \A s \in Sessions : Recorded(plan[s])

LEMMA EmptyRecorded == Recorded(NoPlan) /\ Recorded(EmptyDb)
BY DEF Recorded, NoPlan, EmptyDb

LEMMA QuietOrigins ==
  ASSUME OriginsInv, Quiet PROVE OriginsInv'
<1>1. db' = db /\ \A o \in Sessions : plan'[o] = plan[o] \/ plan'[o] = NoPlan
  BY DEF Quiet
<1>2. \A o \in Sessions : Recorded(plan'[o])
  BY <1>1, EmptyRecorded DEF OriginsInv
<1> QED BY <1>1, <1>2 DEF OriginsInv, Recorded

LEMMA WriteOrigins ==
  ASSUME LedgerInv, OriginsInv, NEW s \in Sessions, NEW p, NEW k, Write(s, p, k),
         Recorded(p)
  PROVE  OriginsInv'
<1>1. /\ plan'[s] = p /\ db' = db
      /\ \A o \in Sessions \ {s} : plan'[o] = plan[o]
  BY DEF Write, LedgerInv, TypeOK
<1>2. \A o \in Sessions : Recorded(plan'[o])
  BY <1>1 DEF OriginsInv
<1> QED BY <1>1, <1>2 DEF OriginsInv, Recorded

LEMMA CommitOrigins ==
  ASSUME LedgerInv, OriginsInv, NEW s \in Sessions, Commit(s)
  PROVE  OriginsInv'
<1>1. /\ db'.txs = db.txs \cup plan[s].txs
      /\ db'.origins = db.origins \cup plan[s].origins
  BY DEF Commit
<1>2. /\ plan'[s] = NoPlan
      /\ \A o \in Sessions \ {s} : plan'[o] = plan[o]
  BY DEF Commit, Finish, LedgerInv, TypeOK
<1>3. Recorded(db')
  BY <1>1 DEF OriginsInv, Recorded, Ids
<1>4. \A o \in Sessions : Recorded(plan'[o])
  BY <1>2, EmptyRecorded DEF OriginsInv
<1> QED BY <1>3, <1>4 DEF OriginsInv, Recorded

LEMMA FormOrigins ==
  ASSUME LedgerInv, OriginsInv, NEW s \in Sessions, WritesForm(s)
  PROVE  OriginsInv'
<1>1. PICK p, k : Write(s, p, k) /\ FormRows(p)
  BY DEF WritesForm
<1>2. Recorded(p)
  BY <1>1 DEF FormRows, Recorded
<1> QED BY <1>1, <1>2, WriteOrigins

LEMMA AccountOrigins ==
  ASSUME LedgerInv, OriginsInv, NEW s \in Sessions, NEW v, NEW a, NEW unit,
         NEW amount, SyncOpeningBalance(s, v, a, unit, amount)
  PROVE  OriginsInv'
<1> DEFINE x == NewOpeningRow(v, a, unit, amount)
           rows == IF OpeningRows(v, a) = {} /\ amount = 0 THEN {} ELSE {x}
           p == [NoPlan EXCEPT !.txs = rows, !.acct = a,
                   !.row = [unit |-> unit, balance |-> amount],
                   !.newCurrency = unit \in Currencies \ RatedCurrencies]
<1>1. Write(s, p, Cardinality(rows))
  BY DEF SyncOpeningBalance
<1>2. ~x.void
  BY DEF NewOpeningRow, InsertTransactionRow, Row
<1> HIDE DEF x
<1>3. p.txs = rows /\ p.origins = {}
  BY DEF NoPlan
<1>4. Recorded(p)
  BY <1>2, <1>3 DEF Recorded
<1> HIDE DEF p, rows
<1> QED BY <1>1, <1>4, WriteOrigins

LEMMA OriginsNext == LedgerInv /\ OriginsInv /\ [Next]_vars => OriginsInv'
<1> SUFFICES ASSUME LedgerInv, OriginsInv, [Next]_vars PROVE OriginsInv'
  OBVIOUS
<1>1. ASSUME NEW s \in Sessions, AddAccount(s)
      PROVE  OriginsInv'
  BY <1>1, AccountOrigins DEF AddAccount
<1>2. ASSUME NEW s \in Sessions, UpdateAccount(s)
      PROVE  OriginsInv'
  BY <1>2, AccountOrigins DEF UpdateAccount
<1> QED
  BY <1>1, <1>2, StepKinds, QuietOrigins, FormsWrite, FormOrigins, CommitOrigins

LEMMA OriginsInit == Init => OriginsInv
BY EmptyRecorded DEF Init, OriginsInv

\* A bank transaction that was recorded stays recorded: from the row its origin
\* names the walk over the edits of every tab ends at a current row of the same
\* event (snapshot.CurrentVersion, which recall shows the user).
THEOREM OriginsAlwaysResolve == Spec => []OriginsResolve
<1>1. LedgerInv /\ OriginsInv => OriginsResolve
  <2> SUFFICES ASSUME LedgerInv, OriginsInv, NEW o \in db.origins
               PROVE  \E t \in LatestVersions(db) :
                        /\ t.id = CurrentVersion(db, MaxId)[o.tx]
                        /\ \E u \in db.txs : u.id = o.tx /\ u.iid = t.iid
    BY DEF OriginsResolve
  <2>1. PICK u \in db.txs : u.id = o.tx
    BY DEF OriginsInv, Recorded, Ids
  <2>2. \A t \in db.txs : t.id \in 1 .. MaxId
    BY DEF LedgerInv, TypeOK, Database, Transaction
  <2>3. WalkableRows(db.txs, MaxId)
    BY <2>2 DEF LedgerInv, OriginsInv, Recorded, WalkableRows, Sound, Chained,
                Continues
  <2> QED BY <2>1, <2>3, MaxIdAssumption, WalkEndsCurrent
<1>2. Init => LedgerInv /\ OriginsInv
  BY InitInv, OriginsInit
<1>3. LedgerInv /\ OriginsInv /\ [Next]_vars => (LedgerInv /\ OriginsInv)'
  BY NextStep, OriginsNext
<1> QED BY <1>1, <1>2, <1>3, PTL DEF Spec

------------------------------------------------------------------------------
\* Tables one tab leaves in order.

KindsJoin(l, e, r) ==
  \/ l.type = "REFUND" /\ IsExpense(e) /\ r.type = "INCOME"
  \/ l.type = "DEBT_SETTLING" /\ e.type = "THIRD_PARTY_EXPENSE" /\ r.type = "EXPENSE"

LinkJoins(txs, l) ==
  \E e, r \in txs : e.id = l.source /\ r.id = l.linked /\ KindsJoin(l, e, r)

OneHead(txs) == \A t, u \in Heads(txs) : t.iid = u.iid => t = u

\* A repayment is superseded only together with its expense.
Tied(links, txs) ==
  \A l \in links, x \in txs :
    l.type = "DEBT_SETTLING" /\ x.sup = l.linked => \E y \in txs : y.sup = l.source

\* An opening row is superseded by one that posts to the same account.
StaysOn(txs, rows) ==
  \A u \in txs, t \in rows, a \in Accounts :
    /\ t.sup = u.id
    /\ u.type = "OPENING_BALANCE" /\ PostsTo(u.lines, Asset(a))
    => PostsTo(t.lines, Asset(a))

DebtsApart(d) == \A l, m \in DebtLinks(d) : l.linked = m.linked => l = m

NamesDiffer(names, others) ==
  \A n \in names, m \in others : n.table = m.table /\ n.name = m.name => n = m

Tidy(d) ==
  /\ OneHead(d.txs)
  /\ \A t \in d.txs : Converts(t)
  /\ \A l \in d.links : LinkJoins(d.txs, l)
  /\ DebtsApart(d)
  /\ Tied(d.links, d.txs)
  /\ StaysOn(d.txs, d.txs)
  /\ NamesDiffer(d.names, d.names)

\* Row x starts an event of its own or supersedes the head of its event.
ExtendsHead(d, x) ==
  /\ x.sup = NoId => \A t \in d.txs : t.iid # x.iid
  /\ x.sup # NoId => \E u \in Heads(d.txs) : u.id = x.sup /\ u.iid = x.iid

\* The rows p can be added to d: at most two, of different events, and newer
\* than all of d.
Fits(d, p) ==
  /\ \A x \in p.txs : ExtendsHead(d, x) /\ Converts(x)
  /\ \A x, y \in p.txs : x.iid = y.iid => x = y
  /\ \A x, y, z \in p.txs : x = y \/ y = z \/ x = z
  /\ \A x \in p.txs, t \in d.txs : t.id < x.id
  /\ \A l \in p.links : LinkJoins(d.txs \cup p.txs, l)
  /\ \A l \in DebtLinks(p) : \E r \in p.txs : r.id = l.linked
  /\ DebtsApart(p)
  /\ Tied(d.links, p.txs)
  /\ StaysOn(d.txs, p.txs)
  /\ NamesDiffer(p.names, d.names \cup p.names)

LEMMA JoinHeads ==
  ASSUME NEW d, NEW p, Apart(p.txs, d.txs), Chained(d.txs, d.txs),
         Chained(p.txs, d.txs), OneHead(d.txs), Fits(d, p)
  PROVE  OneHead(d.txs \cup p.txs)
<1> DEFINE all == d.txs \cup p.txs
<1>1. \A t \in Heads(all) : t \in p.txs \/ t \in Heads(d.txs)
  BY DEF Heads, Superseded
<1>2. ASSUME NEW t \in Heads(all), NEW x \in p.txs, t \in Heads(d.txs)
      PROVE  t.iid # x.iid
  <2>1. CASE x.sup = NoId
    BY <1>2, <2>1 DEF Fits, ExtendsHead, Heads
  <2>2. CASE x.sup # NoId
    <3>1. PICK u \in Heads(d.txs) : u.id = x.sup /\ u.iid = x.iid
      BY <2>2 DEF Fits, ExtendsHead
    <3>2. t.id # x.sup
      BY <2>2 DEF Heads, Superseded
    <3> QED BY <1>2, <3>1, <3>2 DEF OneHead
  <2> QED BY <2>1, <2>2
<1> QED BY <1>1, <1>2 DEF OneHead, Fits

LEMMA JoinTied ==
  ASSUME NEW d, NEW p, Apart(p.txs, d.txs), Chained(d.txs, d.txs),
         Chained(p.txs, d.txs), Tidy(d), Fits(d, p), \A t \in p.txs : t.id # NoId
  PROVE  Tied(d.links \cup p.links, d.txs \cup p.txs)
<1> SUFFICES ASSUME NEW l \in d.links \cup p.links, NEW x \in d.txs \cup p.txs,
                    l.type = "DEBT_SETTLING", x.sup = l.linked
             PROVE  \E y \in d.txs \cup p.txs : y.sup = l.source
  BY DEF Tied
<1>1. CASE l \in d.links
  BY <1>1 DEF Tidy, Fits, Tied
<1>2. CASE l \in p.links
  <2>1. PICK r \in p.txs : r.id = l.linked
    BY <1>2 DEF Fits, DebtLinks
  <2>2. PICK u \in d.txs : u.id = x.sup
    BY <2>1 DEF Chained, Continues
  <2> QED BY <2>1, <2>2 DEF Apart
<1> QED BY <1>1, <1>2

LEMMA JoinTidy ==
  ASSUME NEW d, NEW p, Apart(p.txs, d.txs), Chained(d.txs, d.txs),
         Chained(p.txs, d.txs), Tidy(d), Fits(d, p), \A t \in p.txs : t.id # NoId,
         NEW D, D.txs = d.txs \cup p.txs, D.links = d.links \cup p.links,
         D.names = d.names \cup p.names
  PROVE  Tidy(D)
<1>1. OneHead(D.txs)
  BY JoinHeads DEF Tidy
<1>2. \A t \in D.txs : Converts(t)
  BY DEF Tidy, Fits
<1>3. \A l \in D.links : LinkJoins(D.txs, l)
  BY DEF Tidy, Fits, LinkJoins
<1>4. DebtsApart(D)
  <2> SUFFICES ASSUME NEW l \in DebtLinks(D), NEW m \in DebtLinks(D),
                      l.linked = m.linked
               PROVE  l = m
    BY DEF DebtsApart
  <2>1. ASSUME NEW k \in DebtLinks(d) PROVE \E r \in d.txs : r.id = k.linked
    BY DEF Tidy, LinkJoins, DebtLinks
  <2>2. ASSUME NEW k \in DebtLinks(p) PROVE \E r \in p.txs : r.id = k.linked
    BY DEF Fits
  <2>3. ASSUME NEW k \in DebtLinks(D) PROVE k \in DebtLinks(d) \/ k \in DebtLinks(p)
    BY DEF DebtLinks
  <2> QED BY <2>1, <2>2, <2>3 DEF Tidy, Fits, DebtsApart, Apart
<1>5. Tied(D.links, D.txs)
  BY JoinTied
<1>6. StaysOn(D.txs, D.txs)
  <2> SUFFICES ASSUME NEW u \in D.txs, NEW t \in D.txs, NEW a \in Accounts,
                      t.sup = u.id, u.type = "OPENING_BALANCE",
                      PostsTo(u.lines, Asset(a))
               PROVE  PostsTo(t.lines, Asset(a))
    BY DEF StaysOn
  <2>1. CASE u \in d.txs
    BY <2>1 DEF Tidy, Fits, StaysOn
  <2>2. CASE u \in p.txs
    <3>1. PICK v \in d.txs : v.id = t.sup
      BY <2>2 DEF Chained, Continues
    <3> QED BY <2>2, <3>1 DEF Apart
  <2> QED BY <2>1, <2>2
<1>7. NamesDiffer(D.names, D.names)
  BY DEF Tidy, Fits, NamesDiffer
<1> QED BY <1>1, <1>2, <1>3, <1>4, <1>5, <1>6, <1>7 DEF Tidy

\* What the pages need of tidy tables.
LEMMA TidyRenders ==
  ASSUME NEW d, Tidy(d), \A t \in d.txs : ~t.void
  PROVE  Renders(d)
<1>1. LatestVersions(d) = Heads(d.txs) /\ Heads(d.txs) \subseteq d.txs
  BY DEF LatestVersions, Heads
<1>2. OneVersionPerIid(d)
  BY <1>1 DEF Tidy, OneHead, OneVersionPerIid
<1>3. ASSUME NEW l \in d.links PROVE LinkConverts(d, l)
  <2> SUFFICES ASSUME l.source \notin Superseded(d.txs),
                      l.linked \notin Superseded(d.txs)
               PROVE  LinkConverts(d, l)
    BY DEF LinkConverts
  <2>1. PICK e \in d.txs, r \in d.txs :
          e.id = l.source /\ r.id = l.linked /\ KindsJoin(l, e, r)
    BY DEF Tidy, LinkJoins
  <2>2. e \in LatestVersions(d) /\ r \in LatestVersions(d)
    BY <1>1, <2>1 DEF Heads
  <2> QED BY <2>1, <2>2 DEF LinkConverts, KindsJoin
<1> QED BY <1>1, <1>2, <1>3 DEF Renders, Tidy

------------------------------------------------------------------------------
\* The invariant of one tab.

OneTab ==
  /\ \A s, o \in Sessions : s = o
  /\ EditRepayments = FALSE
  /\ 0 \notin Amounts /\ 0 \notin OpeningAmounts

TabInv ==
  /\ Tidy(db)
  /\ \A s \in Sessions :
       /\ pc[s] # "idle" => view[s] = db
       /\ \A n \in shown[s] :
            n \notin Repayments(db) /\ \E t \in Heads(db.txs) : t.id = n
       /\ pc[s] = "written" => Fits(db, plan[s])

\* What WriteForm keeps of a row.
Full(t) == {"id", "iid", "type", "sup", "lines", "splits"} \subseteq DOMAIN t

Kept(x, t) ==
  /\ x.id = t.id /\ x.iid = t.iid /\ x.type = t.type
  /\ x.sup = t.sup /\ x.lines = t.lines /\ x.splits = t.splits

LEMMA StoredKept ==
  ASSUME NEW t, Full(t), NEW x, StoredAs(x, t)
  PROVE  Kept(x, t)
<1> SUFFICES ASSUME NEW trip \in Nat, NEW tag \in Nat,
                    x = InsertTransactionRow([t EXCEPT !.trip = trip, !.tag = tag])
             PROVE  Kept(x, t)
  BY DEF StoredAs
<1> QED BY DEF Full, Kept, InsertTransactionRow

LEMMA InsertKept ==
  ASSUME NEW t, Full(t) PROVE Kept(InsertTransactionRow(t), t)
BY DEF Full, Kept, InsertTransactionRow

LEMMA KeptConverts ==
  ASSUME NEW t, NEW x, Kept(x, t), Converts(t) PROVE Converts(x)
BY DEF Kept, Converts

LEMMA FreshIid ==
  ASSUME LedgerInv, NEW txs, \A t \in txs : t.iid \in Nat /\ t.iid <= nextId
  PROVE  \A t \in txs : t.iid # Max0({u.iid : u \in txs}) + 1
<1> DEFINE S == {u.iid : u \in txs}
<1>1. nextId \in Nat
  BY MaxIdAssumption DEF LedgerInv, TypeOK
<1>2. S \subseteq 0 .. nextId
  BY <1>1
<1>3. Max0(S) \in 0 .. nextId /\ \A n \in S : n <= Max0(S)
  BY <1>1, <1>2, Max0Bounds
<1>4. \A t \in txs : t.iid \in S
  OBVIOUS
<1> HIDE DEF S
<1>5. \A t \in txs : t.iid # Max0(S) + 1
  BY <1>1, <1>3, <1>4
<1> QED BY <1>5 DEF S

LEMMA RowNumbers ==
  ASSUME LedgerInv, NEW t \in db.txs
  PROVE  /\ t.id \in Nat /\ t.id # NoId /\ t.iid \in Nat /\ t.iid <= nextId
         /\ nextId \in Nat
<1>1. t \in Transaction
  BY DEF LedgerInv, TypeOK, Database
<1>2. t.id \in Nat /\ t.iid \in Nat /\ t.id >= 1
  BY <1>1, MaxIdAssumption DEF Transaction
<1>3. t.iid <= t.id /\ t.id < nextId /\ nextId \in Nat
  BY MaxIdAssumption DEF LedgerInv, Sound, Ordered, Below, TypeOK
<1> QED BY <1>2, <1>3 DEF NoId

LEMMA AllocatesHead ==
  ASSUME LedgerInv, TabInv, NEW s \in Sessions, pc[s] = "begun",
         NEW i \in Inputs(s), NEW x, x.sup = i.sup,
         x.iid = AllocateIID(view[s], i.sup)
  PROVE  ExtendsHead(db, x)
<1>1. view[s] = db /\ UniqueIds(db.txs)
  BY DEF TabInv, LedgerInv, Sound
<1>2. CASE i.sup = NoId
  <2>1. x.iid = Max0({t.iid : t \in db.txs}) + 1
    BY <1>1, <1>2 DEF AllocateIID
  <2> QED BY <1>2, <2>1, FreshIid, RowNumbers DEF ExtendsHead
<1>3. CASE i.sup # NoId
  <2>1. i.sup \in shown[s]
    BY <1>3 DEF Inputs
  <2>2. PICK u \in Heads(db.txs) : u.id = i.sup
    BY <2>1 DEF TabInv
  <2>3. u \in db.txs
    BY DEF Heads
  <2>4. x.iid = TxOf(db, i.sup).iid
    BY <1>1, <1>3 DEF AllocateIID
  <2>5. TxOf(db, i.sup) = u
    BY <1>1, <2>2, <2>3, TxOfFound DEF UniqueIds
  <2> QED BY <1>3, <2>2, <2>4, <2>5 DEF ExtendsHead
<1> QED BY <1>2, <1>3

\* The names a form makes are new and differ from one another.
LEMMA FormNames ==
  ASSUME LedgerInv, NEW s \in Sessions, NEW t, NEW others, NEW links, NEW who,
         NEW recv \in {{}, Created(view[s], "RECEIVABLE", who, nextName)},
         NEW trip, NEW tag, NEW origins,
         WriteForm(s, t, others, links, recv, trip, tag, origins)
  PROVE  NamesDiffer(plan'[s].names, view[s].names \cup plan'[s].names)
<1> DEFINE v == view[s]
           newTrip == IF trip = NoName THEN {}
                      ELSE Created(v, "TRIP", TripKey[trip], nextName + 1)
           newTag == IF tag = NoName THEN {}
                     ELSE Created(v, "TAG", tag, nextName + 2)
<1>1. plan'[s].names = recv \cup newTrip \cup newTag
  <2>1. plan \in [Sessions -> Plan]
    BY DEF LedgerInv, TypeOK
  <2> QED BY <2>1 DEF WriteForm, Write, NoPlan
<1>2. \A table, name, fresh : \A n \in Created(v, table, name, fresh) :
        /\ n.table = table /\ n.name = name
        /\ \A m \in v.names : ~(m.table = table /\ m.name = name)
        /\ \A m \in Created(v, table, name, fresh) : m = n
  BY DEF Created, Named
<1>3. /\ \A n \in recv : /\ n.table = "RECEIVABLE" /\ n.name = who
                         /\ \A m \in recv : m = n
                         /\ \A m \in v.names : ~(m.table = n.table /\ m.name = n.name)
      /\ \A n \in newTrip : /\ n.table = "TRIP"
                            /\ \A m \in newTrip : m = n
                            /\ \A m \in v.names : ~(m.table = n.table /\ m.name = n.name)
      /\ \A n \in newTag : /\ n.table = "TAG"
                           /\ \A m \in newTag : m = n
                           /\ \A m \in v.names : ~(m.table = n.table /\ m.name = n.name)
  BY <1>2
<1> HIDE DEF newTrip, newTag
<1> QED BY <1>1, <1>3 DEF NamesDiffer

\* Writing rows that fit keeps the invariant.
LEMMA FitsTab ==
  ASSUME OneTab, LedgerInv, TabInv, NEW s \in Sessions, NEW p, NEW k,
         Write(s, p, k), pc[s] = "begun", Fits(db, p)
  PROVE  TabInv'
<1>1. /\ plan'[s] = p /\ db' = db /\ shown' = shown /\ view' = view
      /\ \A o \in Sessions : o = s
  BY DEF Write, OneTab, LedgerInv, TypeOK
<1>2. Tidy(db')
  BY <1>1 DEF TabInv
<1>3. view[s] = db /\ Fits(db', plan'[s])
  BY <1>1 DEF TabInv
<1>4. \A o \in Sessions : \A n \in shown'[o] :
        n \notin Repayments(db') /\ \E t \in Heads(db'.txs) : t.id = n
  BY <1>1 DEF TabInv
<1> QED BY <1>1, <1>2, <1>3, <1>4
        DEF TabInv, Repayments, DebtLinks, Heads, Superseded

\* A row of a form supersedes no repayment and no opening balance.
LEMMA InputNotTied ==
  ASSUME LedgerInv, TabInv, NEW s \in Sessions, pc[s] = "begun",
         NEW i \in Inputs(s)
  PROVE  /\ \A l \in DebtLinks(db) : l.linked # i.sup
         /\ \A u \in db.txs : u.id = i.sup => u.type # "OPENING_BALANCE"
<1>1. \A l \in DebtLinks(db) : l.linked # NoId
  BY MaxIdAssumption DEF LedgerInv, TypeOK, Database, Link, DebtLinks, NoId
<1>2. \A l \in DebtLinks(db) : l.linked # i.sup
  BY <1>1 DEF Inputs, TabInv, Repayments
<1>3. \A u \in db.txs : u.id # NoId
  BY RowNumbers
<1>4. i.sup # NoId => \E u \in view[s].txs : u.id = i.sup /\ u.type # "OPENING_BALANCE"
  BY InputsResult
<1>5. view[s] = db /\ UniqueIds(db.txs)
  BY DEF TabInv, LedgerInv, Sound
<1> QED BY <1>2, <1>3, <1>4, <1>5 DEF UniqueIds

\* A refund joins an expense of the snapshot to the row of the form.
Refunds(links, t, d) ==
  \A l \in links :
    /\ l.type = "REFUND" /\ l.linked = t.id /\ t.type = "INCOME"
    /\ \E e \in d.txs : e.id = l.source /\ IsExpense(e)

\* A form that writes one row.
OneRow(s, i, t, links, recv, who, trip) ==
  /\ WriteForm(s, t, {}, links, recv, trip, i.tag, i.origins)
  /\ recv \in {{}, Created(view[s], "RECEIVABLE", who, nextName)}
  /\ Full(t) /\ t.sup = i.sup /\ t.iid = AllocateIID(view[s], i.sup)
  /\ t.id = nextId /\ Converts(t) /\ Refunds(links, t, view[s])

LEMMA OneRowNames ==
  ASSUME LedgerInv, NEW s \in Sessions, NEW i, NEW t, NEW links, NEW recv,
         NEW who, NEW trip, OneRow(s, i, t, links, recv, who, trip)
  PROVE  NamesDiffer(plan'[s].names, view[s].names \cup plan'[s].names)
<1> DEFINE tag == i.tag
           origins == i.origins
           none == {}
           made == Created(view[s], "RECEIVABLE", who, nextName)
<1>1. WriteForm(s, t, none, links, recv, trip, tag, origins)
  BY DEF OneRow
<1>2. recv = none \/ recv = made
  BY DEF OneRow
<1> HIDE DEF tag, origins
<1>3. recv \in {{}, Created(view[s], "RECEIVABLE", who, nextName)}
  BY <1>2
<1> QED BY <1>1, <1>3, FormNames, Zenon

LEMMA OneRowTab ==
  ASSUME OneTab, LedgerInv, LedgerInv', TabInv, NEW s \in Sessions,
         pc[s] = "begun", NEW i \in Inputs(s), NEW t, NEW links, NEW recv,
         NEW who, NEW trip, OneRow(s, i, t, links, recv, who, trip)
  PROVE  TabInv'
<1>1. PICK p : Write(s, p, 1 + Cardinality({})) /\ FormPlan(p, t, {}, links)
  BY FormWrites DEF OneRow
<1>2. /\ plan'[s] = p /\ view[s] = db /\ db' = db
      /\ NamesDiffer(p.names, db.names \cup p.names)
  <2>1. plan'[s] = p /\ view[s] = db /\ db' = db
    BY <1>1 DEF Write, LedgerInv, TypeOK, TabInv
  <2>2. NamesDiffer(plan'[s].names, view[s].names \cup plan'[s].names)
    BY OneRowNames
  <2> QED BY <2>1, <2>2
<1>3. UniqueIds(p.txs)
  BY <1>2 DEF LedgerInv, PlansInv, PlanSound, Sound
<1>4. \A x \in p.txs : Kept(x, t) /\ Converts(x)
  <2>1. \A x \in p.txs : StoredAs(x, t)
    BY <1>1 DEF FormPlan
  <2> QED BY <2>1, StoredKept, KeptConverts DEF OneRow
<1>5. \A x, y \in p.txs : x = y
  BY <1>3, <1>4 DEF Kept, UniqueIds
<1>6. \A x \in p.txs : ExtendsHead(db, x)
  BY <1>4, AllocatesHead DEF Kept, OneRow
<1>7. \E x \in p.txs : Kept(x, t)
  BY <1>1, <1>4 DEF FormPlan
<1>8. p.links = links /\ DebtLinks(p) = {}
  BY <1>1 DEF FormPlan, OneRow, Refunds, DebtLinks
<1>9. \A l \in p.links : LinkJoins(db.txs \cup p.txs, l)
  <2> SUFFICES ASSUME NEW l \in links PROVE LinkJoins(db.txs \cup p.txs, l)
    BY <1>8
  <2>1. PICK x \in p.txs : Kept(x, t)
    BY <1>7
  <2>2. /\ l.type = "REFUND" /\ l.linked = t.id /\ t.type = "INCOME"
        /\ \E e \in db.txs : e.id = l.source /\ IsExpense(e)
    BY <1>2 DEF OneRow, Refunds
  <2> QED BY <2>1, <2>2 DEF Kept, LinkJoins, KindsJoin
<1>10. \A x \in p.txs : x.sup = i.sup
  BY <1>4 DEF Kept, OneRow
<1>11. Tied(db.links, p.txs) /\ StaysOn(db.txs, p.txs)
  BY <1>10, InputNotTied DEF Tied, StaysOn, DebtLinks
<1>12. \A x \in p.txs, u \in db.txs : u.id < x.id
  BY <1>4 DEF Kept, OneRow, LedgerInv, Below
<1>13. Fits(db, p)
  BY <1>2, <1>4, <1>5, <1>6, <1>8, <1>9, <1>11, <1>12 DEF Fits, DebtsApart
<1> QED BY <1>1, <1>13, FitsTab

------------------------------------------------------------------------------
\* The forms: what the client can convert.

OnAsset(lines) == 1 \in LinesOn(lines, "ASSET")

LEMMA RowConverts ==
  ASSUME NEW id, NEW iid, NEW sup, NEW type \in {"EXPENSE", "INCOME"},
         NEW lines, OnAsset(lines), NEW splits
  PROVE  LET row == Row(id, iid, type, sup, lines)
             both == [row EXCEPT !.splits = splits]
         IN  /\ Full(row) /\ Converts(row)
             /\ Full(both) /\ Converts(both)
<1> DEFINE row == Row(id, iid, type, sup, lines)
           both == [row EXCEPT !.splits = splits]
<1>1. /\ row.type = type /\ row.lines = lines /\ Full(row)
      /\ both.type = type /\ both.lines = lines /\ Full(both)
  BY DEF Row, Full
<1> HIDE DEF row, both
<1>2. Converts(row) /\ Converts(both)
  BY <1>1 DEF Converts, OnAsset
<1> QED BY <1>1, <1>2 DEF row, both

LEMMA AssetLines ==
  ASSUME NEW a, NEW unit, NEW amount, NEW own, NEW recv
  PROVE  /\ OnAsset(PaidSelfLines(a, unit, amount))
         /\ OnAsset(PaidSelfSharedLines(a, unit, amount, own, recv))
         /\ OnAsset(RepaymentLines(a, unit, own, recv))
         /\ OnAsset(SoloIncomeLines(a, unit, amount))
         /\ OnAsset(SharedIncomeLines(a, unit, amount, own, recv))
BY DEF OnAsset, LinesOn, PaidSelfLines, PaidSelfSharedLines, RepaymentLines,
       SoloIncomeLines, SharedIncomeLines, Post, Asset

LEMMA ThirdPartyConverts ==
  ASSUME NEW s \in Sessions, NEW i, NEW who, NEW unit \in Currencies,
         NEW amount, NEW own
  PROVE  LET t == ThirdPartyRow(s, i, who, unit, amount, own)
         IN  /\ Full(t) /\ Converts(t) /\ t.sup = i.sup
             /\ t.iid = AllocateIID(view[s], i.sup)
             /\ t.id = nextId /\ t.type = "THIRD_PARTY_EXPENSE"
<1> DEFINE recv == GetOrCreate(view[s], "RECEIVABLE", who, nextName)
           lines == ThirdPartyLines(unit, own, recv)
           iid == AllocateIID(view[s], i.sup)
           split == {[who |-> who, share |-> amount - own, paid |-> amount]}
           sup == i.sup
           row == Row(nextId, iid, "THIRD_PARTY_EXPENSE", sup, lines)
           t == [row EXCEPT !.splits = split]
<1>1. split # {}
  OBVIOUS
<1>2. /\ 1 \in LinesOn(lines, "EXPENSE") /\ lines[1].unit \in Currencies
      /\ 2 \in LinesOn(lines, "RECEIVABLE")
  BY DEF LinesOn, ThirdPartyLines, Post, Expense, Receivable
<1>3. t = ThirdPartyRow(s, i, who, unit, amount, own)
  BY DEF ThirdPartyRow
<1> HIDE DEF lines, split, iid, sup
<1>4. /\ t.type = "THIRD_PARTY_EXPENSE" /\ t.lines = lines /\ t.splits = split
      /\ t.id = nextId /\ t.iid = iid /\ t.sup = sup /\ Full(t)
  BY DEF Row, Full
<1> HIDE DEF row, t
<1>5. Converts(t)
  BY <1>1, <1>2, <1>4 DEF Converts
<1> QED BY <1>3, <1>4, <1>5 DEF iid, sup

LEMMA TransferConverts ==
  ASSUME NEW id, NEW iid, NEW sup, NEW from, NEW to, NEW u1, NEW u2,
         NEW sent \in Nat \ {0}, NEW received \in Nat \ {0}
  PROVE  LET row == Row(id, iid, "TRANSFER", sup,
                        TransferLines(from, to, u1, u2, sent, received))
         IN  Full(row) /\ Converts(row)
<1> DEFINE lines == TransferLines(from, to, u1, u2, sent, received)
           row == Row(id, iid, "TRANSFER", sup, lines)
<1>1. \E i, j \in LinesOn(lines, "ASSET") : lines[i].amt < 0 /\ lines[j].amt > 0
  <2>1. CASE u1 = u2
    <3>1. /\ lines[1].acct[1] = "ASSET" /\ lines[1].amt < 0
          /\ lines[2].acct[1] = "ASSET" /\ lines[2].amt > 0 /\ Len(lines) = 2
      BY <2>1 DEF TransferLines, Post, Asset
    <3> HIDE DEF lines
    <3> QED BY <3>1 DEF LinesOn
  <2>2. CASE u1 # u2
    <3>1. /\ lines[1].acct[1] = "ASSET" /\ lines[1].amt < 0
          /\ lines[4].acct[1] = "ASSET" /\ lines[4].amt > 0 /\ Len(lines) = 4
      BY <2>2 DEF TransferLines, Post, Asset
    <3> HIDE DEF lines
    <3> QED BY <3>1 DEF LinesOn
  <2> QED BY <2>1, <2>2
<1> HIDE DEF lines
<1>2. row.type = "TRANSFER" /\ row.lines = lines /\ Full(row)
  BY DEF Row, Full
<1> HIDE DEF row
<1>3. Converts(row)
  BY <1>1, <1>2 DEF Converts
<1> QED BY <1>2, <1>3 DEF row, lines

\* The forms that write one row.
WritesOneRow(s) ==
  \E i \in Inputs(s) : \E t, links, recv, who, trip :
    OneRow(s, i, t, links, recv, who, trip)

LEMMA PaidSelfTab ==
  ASSUME NEW s \in Sessions, WriteExpensePaidSelf(s) PROVE WritesOneRow(s)
<1>1. PICK i \in Inputs(s), trip \in Trips \cup {NoName}, a \in Existing(view[s]),
           amount \in Amounts :
        WriteForm(s,
          Row(nextId, AllocateIID(view[s], i.sup), "EXPENSE", i.sup,
              PaidSelfLines(a, UnitOf(view[s], a), amount)),
          {}, {}, {}, trip, i.tag, i.origins)
  BY DEF WriteExpensePaidSelf
<1> DEFINE unit == UnitOf(view[s], a)
           lines == PaidSelfLines(a, unit, amount)
           iid == AllocateIID(view[s], i.sup)
           sup == i.sup
           t == Row(nextId, iid, "EXPENSE", sup, lines)
<1>2. OnAsset(lines)
  BY AssetLines
<1> HIDE DEF lines, iid, sup
<1>3. Full(t) /\ Converts(t)
  BY <1>2, RowConverts, Zenon
<1>4. t.sup = sup /\ t.iid = iid /\ t.id = nextId
  BY DEF Row
<1>5. Refunds({}, t, view[s])
  BY DEF Refunds
<1>6. OneRow(s, i, t, {}, {}, 0, trip)
  BY <1>1, <1>3, <1>4, <1>5 DEF OneRow, iid, sup, lines
<1> HIDE DEF t
<1> QED BY <1>6 DEF WritesOneRow

LEMMA SharedTab ==
  ASSUME NEW s \in Sessions, WriteExpenseShared(s) PROVE WritesOneRow(s)
<1>0. PICK i \in Inputs(s), trip \in Trips \cup {NoName}, who \in People,
           a \in Existing(view[s]), amount \in Amounts :
        \E own \in 0 .. amount : SharedForm(s, i, trip, who, a, amount, own)
  BY DEF WriteExpenseShared, SharedForm
<1>1. PICK own \in 0 .. amount : SharedForm(s, i, trip, who, a, amount, own)
  BY <1>0
<1> DEFINE unit == UnitOf(view[s], a)
           recv == GetOrCreate(view[s], "RECEIVABLE", who, nextName)
           made == Created(view[s], "RECEIVABLE", who, nextName)
           lines == PaidSelfSharedLines(a, unit, amount, own, recv)
           iid == AllocateIID(view[s], i.sup)
           sup == i.sup
           splits == {[who |-> who, share |-> amount - own, paid |-> 0]}
           t == [Row(nextId, iid, "EXPENSE", sup, lines) EXCEPT !.splits = splits]
<1>2. OnAsset(lines)
  BY AssetLines
<1> HIDE DEF lines, iid, sup, splits
<1>3. Full(t) /\ Converts(t)
  BY <1>2, RowConverts, Zenon
<1>4. t.sup = sup /\ t.iid = iid /\ t.id = nextId
  BY DEF Row
<1>5. Refunds({}, t, view[s])
  BY DEF Refunds
<1>6. OneRow(s, i, t, {}, made, who, trip)
  BY <1>1, <1>3, <1>4, <1>5 DEF OneRow, SharedForm, iid, sup, lines, splits
<1> HIDE DEF t, made
<1> QED BY <1>6 DEF WritesOneRow

LEMMA OwedTab ==
  ASSUME NEW s \in Sessions, WriteExpenseOwed(s) PROVE WritesOneRow(s)
<1>0. PICK i \in Inputs(s), trip \in Trips \cup {NoName}, who \in People,
           unit \in Currencies, amount \in Amounts :
        \E own \in 0 .. amount :
          WriteForm(s, ThirdPartyRow(s, i, who, unit, amount, own),
            {}, {}, Created(view[s], "RECEIVABLE", who, nextName),
            trip, i.tag, i.origins)
  BY DEF WriteExpenseOwed
<1>1. PICK own \in 0 .. amount :
        WriteForm(s, ThirdPartyRow(s, i, who, unit, amount, own),
          {}, {}, Created(view[s], "RECEIVABLE", who, nextName),
          trip, i.tag, i.origins)
  BY <1>0
<1> DEFINE made == Created(view[s], "RECEIVABLE", who, nextName)
           t == ThirdPartyRow(s, i, who, unit, amount, own)
<1>2. /\ Full(t) /\ Converts(t) /\ t.sup = i.sup /\ t.id = nextId
      /\ t.iid = AllocateIID(view[s], i.sup)
  BY ThirdPartyConverts
<1>3. Refunds({}, t, view[s])
  BY DEF Refunds
<1>4. OneRow(s, i, t, {}, made, who, trip)
  BY <1>1, <1>2, <1>3 DEF OneRow
<1> HIDE DEF t, made
<1> QED BY <1>4 DEF WritesOneRow

LEMMA RefundsOK ==
  ASSUME LedgerInv, NEW s \in Sessions, pc[s] = "begun", TabInv,
         NEW parent \in {NoId} \cup Parents(s), NEW t, t.id = nextId, t.type = "INCOME"
  PROVE  Refunds(RefundLinks(parent, nextId), t, view[s])
<1>1. CASE parent = NoId
  BY <1>1 DEF RefundLinks, Refunds
<1>2. CASE parent # NoId
  <2>1. parent \in shown[s] /\ IsExpense(TxOf(view[s], parent))
    BY <1>2 DEF Parents
  <2>2. view[s] = db /\ \E e \in db.txs : e.id = parent
    BY <2>1 DEF TabInv, Heads
  <2>3. TxOf(view[s], parent) \in view[s].txs /\ TxOf(view[s], parent).id = parent
    BY <2>2, TxOfFound
  <2>4. RefundLinks(parent, nextId) =
          {[source |-> parent, linked |-> nextId, type |-> "REFUND"]}
    BY <1>2 DEF RefundLinks
  <2> QED BY <2>1, <2>3, <2>4 DEF Refunds
<1> QED BY <1>1, <1>2

LEMMA IncomeSoloTab ==
  ASSUME LedgerInv, TabInv, NEW s \in Sessions, WriteIncomeSolo(s)
  PROVE  WritesOneRow(s)
<1>1. PICK i \in Inputs(s), a \in Existing(view[s]), amount \in Amounts,
           parent \in {NoId} \cup Parents(s) :
        WriteForm(s,
          Row(nextId, AllocateIID(view[s], i.sup), "INCOME", i.sup,
              SoloIncomeLines(a, UnitOf(view[s], a), amount)),
          {}, RefundLinks(parent, nextId), {}, NoName, i.tag, i.origins)
  BY DEF WriteIncomeSolo
<1> DEFINE unit == UnitOf(view[s], a)
           lines == SoloIncomeLines(a, unit, amount)
           iid == AllocateIID(view[s], i.sup)
           sup == i.sup
           links == RefundLinks(parent, nextId)
           t == Row(nextId, iid, "INCOME", sup, lines)
<1>2. OnAsset(lines)
  BY AssetLines
<1> HIDE DEF lines, iid, sup
<1>3. Full(t) /\ Converts(t)
  BY <1>2, RowConverts, Zenon
<1>4. t.sup = sup /\ t.iid = iid /\ t.id = nextId /\ t.type = "INCOME"
  BY DEF Row
<1>5. pc[s] = "begun"
  BY DEF WriteIncomeSolo, Ready
<1>6. Refunds(links, t, view[s])
  <2> HIDE DEF t
  <2> QED BY <1>4, <1>5, RefundsOK
<1>7. OneRow(s, i, t, links, {}, 0, NoName)
  BY <1>1, <1>3, <1>4, <1>6 DEF OneRow, iid, sup, lines
<1> HIDE DEF t, links
<1> QED BY <1>7 DEF WritesOneRow

LEMMA IncomeSharedTab ==
  ASSUME LedgerInv, TabInv, NEW s \in Sessions, WriteIncomeShared(s)
  PROVE  WritesOneRow(s)
<1>0. PICK i \in Inputs(s), a \in Existing(view[s]), amount \in Amounts,
           who \in People, parent \in {NoId} \cup Parents(s) :
        \E own \in 0 .. amount :
          SharedIncomeForm(s, i, who, a, amount, own, parent)
  BY DEF WriteIncomeShared, SharedIncomeForm
<1>1. PICK own \in 0 .. amount : SharedIncomeForm(s, i, who, a, amount, own, parent)
  BY <1>0
<1> DEFINE unit == UnitOf(view[s], a)
           recv == GetOrCreate(view[s], "RECEIVABLE", who, nextName)
           made == Created(view[s], "RECEIVABLE", who, nextName)
           lines == SharedIncomeLines(a, unit, amount, own, recv)
           iid == AllocateIID(view[s], i.sup)
           sup == i.sup
           links == RefundLinks(parent, nextId)
           splits == {[who |-> who, share |-> amount - own, paid |-> 0]}
           t == [Row(nextId, iid, "INCOME", sup, lines) EXCEPT !.splits = splits]
<1>2. OnAsset(lines)
  BY AssetLines
<1> HIDE DEF lines, iid, sup, splits
<1>3. Full(t) /\ Converts(t)
  BY <1>2, RowConverts, Zenon
<1>4. t.sup = sup /\ t.iid = iid /\ t.id = nextId /\ t.type = "INCOME"
  BY DEF Row
<1>5. pc[s] = "begun"
  BY DEF WriteIncomeShared, Ready
<1>6. Refunds(links, t, view[s])
  <2> HIDE DEF t
  <2> QED BY <1>4, <1>5, RefundsOK
<1>7. OneRow(s, i, t, links, made, who, NoName)
  BY <1>1, <1>3, <1>4, <1>6 DEF OneRow, SharedIncomeForm, iid, sup, lines,
                                      splits
<1> HIDE DEF t, links, made
<1> QED BY <1>7 DEF WritesOneRow

LEMMA TransferTab ==
  ASSUME OneTab, NEW s \in Sessions, WriteTransfer(s) PROVE WritesOneRow(s)
<1>1. PICK i \in Inputs(s), from \in Existing(view[s]), to \in Existing(view[s]),
           sent \in Amounts, received \in Amounts :
        WriteForm(s,
          Row(nextId, AllocateIID(view[s], i.sup), "TRANSFER", i.sup,
              TransferLines(from, to, UnitOf(view[s], from),
                            UnitOf(view[s], to), sent, received)),
          {}, {}, {}, NoName, i.tag, i.origins)
  BY DEF WriteTransfer
<1> DEFINE u1 == UnitOf(view[s], from)
           u2 == UnitOf(view[s], to)
           iid == AllocateIID(view[s], i.sup)
           sup == i.sup
           t == Row(nextId, iid, "TRANSFER", sup,
                    TransferLines(from, to, u1, u2, sent, received))
<1>2. sent \in Nat \ {0} /\ received \in Nat \ {0}
  BY AmountsAssumption DEF OneTab
<1> HIDE DEF iid, sup
<1>3. Full(t) /\ Converts(t)
  BY <1>2, TransferConverts
<1>4. t.sup = sup /\ t.iid = iid /\ t.id = nextId
  BY DEF Row
<1>5. Refunds({}, t, view[s])
  BY DEF Refunds
<1>6. OneRow(s, i, t, {}, {}, 0, NoName)
  BY <1>1, <1>3, <1>4, <1>5 DEF OneRow, iid, sup
<1> HIDE DEF t
<1> QED BY <1>6 DEF WritesOneRow

------------------------------------------------------------------------------
\* The form that writes two rows.

\* The repayment RepaymentSupersedes finds for the head of a repaid expense is
\* itself the head of another event.
LEMMA OldRepaymentHead ==
  ASSUME LedgerInv, TabInv, NEW d, d = db, NEW e, NEW n,
         e.sup # NoId, NEW u \in Heads(db.txs), u.id = e.sup, u.iid = e.iid,
         NEW l \in DebtLinks(db), l.source = e.sup, l.linked = n
  PROVE  \E o \in Heads(db.txs) :
           o.id = n /\ o.iid = TxOf(db, n).iid /\ o.iid # e.iid
<1>1. PICK x \in db.txs, o \in db.txs :
        x.id = l.source /\ o.id = l.linked /\ KindsJoin(l, x, o)
  BY DEF TabInv, Tidy, LinkJoins, DebtLinks
<1>2. UniqueIds(db.txs) /\ OneHead(db.txs)
  BY DEF LedgerInv, Sound, TabInv, Tidy
<1>3. u \in db.txs
  BY DEF Heads
<1>4. x = u
  BY <1>1, <1>2, <1>3 DEF UniqueIds
<1>5. x.type # o.type
  BY <1>1 DEF KindsJoin, DebtLinks
<1>6. ~ \E y \in db.txs : y.sup = l.source
  BY DEF Heads, Superseded
<1>7. ~ \E y \in db.txs : y.sup = o.id
  BY <1>1, <1>6 DEF TabInv, Tidy, Tied, DebtLinks
<1>8. o \in Heads(db.txs)
  BY <1>7 DEF Heads, Superseded
<1>9. o.iid # e.iid
  BY <1>2, <1>4, <1>5, <1>8 DEF OneHead
<1>10. TxOf(db, n) = o
  BY <1>1, <1>2, TxOfFound DEF UniqueIds
<1> QED BY <1>1, <1>8, <1>9, <1>10

\* The repayment starts an event of its own, or supersedes the one repayment of
\* the expense row that the form supersedes.
LEMMA RepaymentFits ==
  ASSUME LedgerInv, TabInv, NEW s \in Sessions, pc[s] = "begun",
         NEW i \in Inputs(s), NEW e, e.sup = i.sup,
         e.iid = AllocateIID(view[s], i.sup), NEW r,
         r.sup = RepaymentSupersedes(view[s], e).sup,
         r.iid = RepaymentSupersedes(view[s], e).iid
  PROVE  /\ ExtendsHead(db, r) /\ r.iid # e.iid
         /\ r.sup # NoId => \E l \in DebtLinks(db) :
                              l.source = e.sup /\ l.linked = r.sup
<1> DEFINE old == {l.linked : l \in {k \in DebtLinks(db) : k.source = e.sup}}
           all == db.txs \cup {e}
<1>1. view[s] = db
  BY DEF TabInv
<1>2. CASE e.sup = NoId \/ old = {}
  <2>1. r.sup = NoId /\ r.iid = Max0({t.iid : t \in all}) + 1
    BY <1>1, <1>2 DEF RepaymentSupersedes
  <2>2. e.iid \in Nat /\ e.iid <= nextId
    <3>1. e.iid \in 1 .. nextId /\ nextId \in Nat
      <4>1. AllocateIID(view[s], i.sup) \in 1 .. nextId
        BY InputsResult
      <4>2. nextId \in Nat
        BY MaxIdAssumption DEF LedgerInv, TypeOK
      <4> QED BY <4>1, <4>2
    <3> QED BY <3>1
  <2>3. \A t \in all : t.iid \in Nat /\ t.iid <= nextId
    BY <2>2, RowNumbers
  <2>4. \A t \in all : t.iid # r.iid
    BY <2>1, <2>3, FreshIid
  <2> QED BY <2>1, <2>4 DEF ExtendsHead
<1>3. CASE ~(e.sup = NoId \/ old = {})
  <2> DEFINE n == CHOOSE m \in old : TRUE
  <2>1. r.sup = n /\ r.iid = TxOf(db, n).iid
    BY <1>1, <1>3 DEF RepaymentSupersedes
  <2>2. n \in old
    BY <1>3
  <2>3. PICK l \in DebtLinks(db) : l.source = e.sup /\ l.linked = n
    BY <2>2
  <2> HIDE DEF n
  <2>4. ExtendsHead(db, e)
    BY AllocatesHead
  <2>5. PICK u \in Heads(db.txs) : u.id = e.sup /\ u.iid = e.iid
    BY <1>3, <2>4 DEF ExtendsHead
  <2>6. PICK o \in Heads(db.txs) :
          o.id = n /\ o.iid = TxOf(db, n).iid /\ o.iid # e.iid
    BY <1>3, <2>3, <2>5, OldRepaymentHead
  <2>7. n # NoId
    BY <2>6, RowNumbers DEF Heads
  <2> QED BY <2>1, <2>3, <2>6, <2>7 DEF ExtendsHead
<1> QED BY <1>2, <1>3

LEMMA RepaidTab ==
  ASSUME OneTab, LedgerInv, LedgerInv', TabInv, NEW s \in Sessions,
         WriteExpenseRepaid(s)
  PROVE  TabInv'
<1>1. PICK i \in Inputs(s), trip \in Trips \cup {NoName}, who \in People,
           unit \in Currencies, a \in Existing(view[s]), amount \in Amounts :
        \E own \in 0 .. amount :
          RepaidForm(s, i, trip, who, unit, a, amount, own)
  BY DEF WriteExpenseRepaid, RepaidForm
<1>2. PICK own \in 0 .. amount : RepaidForm(s, i, trip, who, unit, a, amount, own)
  BY <1>1
<1> DEFINE e == ThirdPartyRow(s, i, who, unit, amount, own)
           r == RepaymentRow(s, e, who, a, own)
           link == [source |-> e.id, linked |-> r.id, type |-> "DEBT_SETTLING"]
           made == Created(view[s], "RECEIVABLE", who, nextName)
<1>3. pc[s] = "begun"
  BY DEF WriteExpenseRepaid, Ready
<1>4. /\ Full(e) /\ Converts(e) /\ e.sup = i.sup
      /\ e.iid = AllocateIID(view[s], i.sup)
      /\ e.id = nextId /\ e.type = "THIRD_PARTY_EXPENSE"
  BY ThirdPartyConverts
<1>5. /\ Full(r) /\ Converts(r) /\ r.id = nextId + 1 /\ r.type = "EXPENSE"
      /\ r.sup = RepaymentSupersedes(view[s], e).sup
      /\ r.iid = RepaymentSupersedes(view[s], e).iid
  <2> DEFINE recv == GetOrCreate(view[s], "RECEIVABLE", who, nextName)
             lines == RepaymentLines(a, UnitOf(view[s], a), own, recv)
             old == RepaymentSupersedes(view[s], e)
             iid == old.iid
             sup == old.sup
             row == Row(nextId + 1, iid, "EXPENSE", sup, lines)
  <2>1. OnAsset(lines)
    BY AssetLines
  <2>2. r = row
    BY DEF RepaymentRow
  <2> HIDE DEF lines, iid, sup, old, e
  <2>3. Full(row) /\ Converts(row)
    BY <2>1, RowConverts, Zenon
  <2>4. /\ row.id = nextId + 1 /\ row.type = "EXPENSE"
        /\ row.iid = iid /\ row.sup = sup
    BY DEF Row
  <2> HIDE DEF row, r
  <2> QED BY <2>2, <2>3, <2>4 DEF iid, sup, old
<1>6. WriteForm(s, e, {r}, {link}, made, trip, i.tag, i.origins)
  BY <1>2 DEF RepaidForm
<1> HIDE DEF e, r
<1>7. PICK p : Write(s, p, 1 + Cardinality({r})) /\ FormPlan(p, e, {r}, {link})
  <2> HIDE DEF made, link
  <2> QED BY <1>6, FormWrites
<1>8. plan'[s] = p /\ view[s] = db /\ db' = db
  BY <1>3, <1>7 DEF Write, LedgerInv, TypeOK, TabInv
<1>9. NamesDiffer(p.names, db.names \cup p.names)
  <2> DEFINE tag == i.tag
             origins == i.origins
             rest == {r}
             links == {link}
  <2>1. /\ WriteForm(s, e, rest, links, made, trip, tag, origins)
        /\ made \in {{}, Created(view[s], "RECEIVABLE", who, nextName)}
    BY <1>6
  <2> HIDE DEF tag, origins, rest, links, made
  <2>2. NamesDiffer(plan'[s].names, view[s].names \cup plan'[s].names)
    BY <2>1, FormNames, Zenon
  <2> QED BY <1>8, <2>2
<1>10. \A x \in p.txs : Kept(x, e) \/ Kept(x, r)
  <2>1. \A x \in p.txs :
          StoredAs(x, e) \/ \E o \in {r} : x = InsertTransactionRow(o)
    BY <1>7 DEF FormPlan
  <2> QED BY <1>4, <1>5, <2>1, StoredKept, InsertKept
<1>11. UniqueIds(p.txs)
  BY <1>8 DEF LedgerInv, PlansInv, PlanSound, Sound
<1>12. /\ ExtendsHead(db, r) /\ r.iid # e.iid
       /\ r.sup # NoId => \E l \in DebtLinks(db) :
                            l.source = e.sup /\ l.linked = r.sup
  BY <1>3, <1>4, <1>5, RepaymentFits
<1>13. ExtendsHead(db, e)
  BY <1>3, <1>4, AllocatesHead
<1>14. \A x \in p.txs : ExtendsHead(db, x) /\ Converts(x)
  BY <1>4, <1>5, <1>10, <1>12, <1>13, KeptConverts DEF Kept, ExtendsHead
<1>15. \A x, y \in p.txs : x.iid = y.iid => x = y
  BY <1>10, <1>11, <1>12 DEF Kept, UniqueIds
<1>16. p.links = {link} /\ \E x \in p.txs : Kept(x, e)
  BY <1>4, <1>7, StoredKept DEF FormPlan
<1>17. \E x \in p.txs : x.id = r.id /\ x.type = "EXPENSE"
  <2>1. link \in DebtLinks(plan'[s])
    BY <1>8, <1>16 DEF DebtLinks
  <2>2. Settled(plan'[s])
    BY DEF LedgerInv, PlansInv, PlanSound, Sound
  <2>3. PICK x \in p.txs : x.id = r.id
    BY <1>8, <2>1, <2>2, DebtIds
  <2>4. nextId \in Nat
    BY MaxIdAssumption DEF LedgerInv, TypeOK
  <2>5. x.type = "EXPENSE"
    BY <1>4, <1>5, <1>10, <2>3, <2>4 DEF Kept
  <2> QED BY <2>3, <2>5
<1>18. \A l \in p.links : LinkJoins(db.txs \cup p.txs, l)
  BY <1>4, <1>16, <1>17 DEF LinkJoins, KindsJoin, Kept
<1>19. /\ \A l \in DebtLinks(p) : \E x \in p.txs : x.id = l.linked
       /\ DebtsApart(p)
  BY <1>16, <1>17 DEF DebtLinks, DebtsApart
<1>20. Tied(db.links, p.txs)
  <2> SUFFICES ASSUME NEW l \in DebtLinks(db), NEW x \in p.txs, x.sup = l.linked
               PROVE  \E y \in p.txs : y.sup = l.source
    BY DEF Tied, DebtLinks
  <2>1. Kept(x, r)
    BY <1>3, <1>4, <1>10, InputNotTied DEF Kept
  <2>2. l.linked # NoId
    BY MaxIdAssumption DEF LedgerInv, TypeOK, Database, Link, DebtLinks, NoId
  <2>3. PICK m \in DebtLinks(db) : m.source = e.sup /\ m.linked = r.sup
    BY <1>12, <2>1, <2>2 DEF Kept
  <2>4. m = l
    BY <2>1, <2>3 DEF Kept, TabInv, Tidy, DebtsApart
  <2> QED BY <1>16, <2>3, <2>4 DEF Kept
<1>21. StaysOn(db.txs, p.txs)
  <2> SUFFICES ASSUME NEW u \in db.txs, NEW x \in p.txs, x.sup = u.id,
                      u.type = "OPENING_BALANCE"
               PROVE  FALSE
    BY DEF StaysOn
  <2>1. Kept(x, r)
    BY <1>3, <1>4, <1>10, InputNotTied DEF Kept
  <2>2. u.id # NoId
    BY RowNumbers
  <2>3. PICK m \in DebtLinks(db) : m.linked = u.id
    BY <1>12, <2>1, <2>2 DEF Kept
  <2> QED BY <2>3 DEF LedgerInv, Sound, RepaysExpenses
<1>22. \A x, y, z \in p.txs : x = y \/ y = z \/ x = z
  BY <1>10, <1>11 DEF Kept, UniqueIds
<1>23. \A x \in p.txs, u \in db.txs : u.id < x.id
  <2> SUFFICES ASSUME NEW x \in p.txs, NEW u \in db.txs PROVE u.id < x.id
    OBVIOUS
  <2>1. u.id < nextId /\ u.id \in Nat /\ nextId \in Nat
    BY RowNumbers DEF LedgerInv, Below
  <2>2. x.id = nextId \/ x.id = nextId + 1
    BY <1>4, <1>5, <1>10 DEF Kept
  <2> QED BY <2>1, <2>2
<1>24. Fits(db, p)
  BY <1>9, <1>14, <1>15, <1>18, <1>19, <1>20, <1>21, <1>22, <1>23 DEF Fits
<1> QED BY <1>3, <1>7, <1>24, FitsTab

------------------------------------------------------------------------------
\* The account requests.

LEMMA OpeningConverts ==
  ASSUME NEW x, x.type = "OPENING_BALANCE", NEW a, NEW unit, NEW amount,
         x.lines = OpeningLines(a, unit, amount)
  PROVE  Converts(x)
<1>1. LinesOn(x.lines, "ASSET") = {1}
  <2>1. /\ Len(x.lines) = 2 /\ x.lines[1].acct[1] = "ASSET"
        /\ x.lines[2].acct[1] = "EQUITY"
    BY DEF OpeningLines, Post, Asset, Equity
  <2>2. 1 .. 2 = {1, 2}
    OBVIOUS
  <2> QED BY <2>1, <2>2 DEF LinesOn
<1>2. Cardinality(LinesOn(x.lines, "ASSET")) = 1
  BY <1>1, FS_Singleton
<1> QED BY <1>2 DEF Converts

\* The row the client converts posts to one account.
LEMMA PostsToOne ==
  ASSUME NEW t, t.type = "OPENING_BALANCE", Converts(t), NEW a, NEW b,
         Len(t.lines) \in Nat, PostsTo(t.lines, Asset(a)), PostsTo(t.lines, Asset(b))
  PROVE  a = b
<1> DEFINE on == LinesOn(t.lines, "ASSET")
<1>1. Cardinality(on) = 1
  BY DEF Converts
<1>2. PICK i \in on : t.lines[i].acct = Asset(a)
  BY DEF PostsTo, LinesOn, Asset
<1>3. PICK j \in on : t.lines[j].acct = Asset(b)
  BY DEF PostsTo, LinesOn, Asset
<1> HIDE DEF on
<1>4. on \subseteq 1 .. Len(t.lines)
  BY DEF on, LinesOn
<1>5. i = j
  <2>1. IsFiniteSet(on)
    <3> DEFINE n == Len(t.lines)
    <3>1. n \in Int /\ on \subseteq 1 .. n
      BY <1>4
    <3> HIDE DEF n
    <3>2. IsFiniteSet(1 .. n)
      BY <3>1, FS_Interval
    <3> QED BY <3>1, <3>2, FS_Subset
  <2>2. \E k : on = {k}
    BY <1>1, <2>1, FS_Singleton
  <2> QED BY <2>2
<1> QED BY <1>2, <1>3, <1>5 DEF Asset

\* No row supersedes the newest opening row of an account.
LEMMA OpeningHeadIsHead ==
  ASSUME LedgerInv, Tidy(db), NEW a \in Accounts, HasOneHead(OpeningRows(db, a))
  PROVE  LET h == OpeningHead(db, a)
         IN  /\ h \in Heads(db.txs) /\ h.type = "OPENING_BALANCE"
             /\ PostsTo(h.lines, Asset(a))
<1> DEFINE h == OpeningHead(db, a)
           rows == OpeningRows(db, a)
<1>1. h \in Heads(rows)
  <2>1. Heads(rows) # {}
    BY FS_EmptySet DEF HasOneHead
  <2> QED BY <2>1 DEF OpeningHead
<1>2. h \in db.txs /\ h.type = "OPENING_BALANCE" /\ PostsTo(h.lines, Asset(a))
  BY <1>1 DEF Heads, OpeningRows
<1>3. ASSUME NEW t \in db.txs, t.sup = h.id PROVE FALSE
  <2>1. h.id # NoId
    BY <1>2, RowNumbers
  <2>2. PICK u \in db.txs : Continues(t, u)
    BY <1>3, <2>1 DEF LedgerInv, Chained
  <2>3. u = h
    BY <1>2, <1>3, <2>2 DEF LedgerInv, Sound, UniqueIds, Continues
  <2>4. t.type = "OPENING_BALANCE"
    BY <1>2, <2>2, <2>3 DEF Continues
  <2>5. PostsTo(t.lines, Asset(a))
    BY <1>2, <1>3 DEF Tidy, StaysOn
  <2>6. t \in rows
    BY <2>4, <2>5 DEF OpeningRows
  <2> QED BY <1>1, <1>3, <2>1, <2>6 DEF Heads, Superseded
<1>4. h \in Heads(db.txs)
  BY <1>2, <1>3 DEF Heads, Superseded
<1> QED BY <1>2, <1>4

LEMMA AccountTab ==
  ASSUME OneTab, LedgerInv, LedgerInv', TabInv, NEW s \in Sessions,
         pc[s] = "begun", NEW a \in Accounts, NEW unit,
         NEW amount \in OpeningAmounts,
         SyncOpeningBalance(s, AccountView(s, unit), a, unit, amount)
  PROVE  TabInv'
<1> DEFINE x == NewOpeningRow(db, a, unit, amount)
           new == unit \in Currencies \ RatedCurrencies
           bal == [unit |-> unit, balance |-> amount]
           rows == {x}
           p == [NoPlan EXCEPT !.txs = rows, !.acct = a, !.row = bal,
                               !.newCurrency = new]
           old == OpeningRows(db, a)
           sup == IF old = {} THEN NoId ELSE OpeningHead(db, a).id
           iid == AllocateIID(db, sup)
           lines == OpeningLines(a, unit, amount)
<1>1. view[s] = db /\ AccountView(s, unit) = db /\ amount # 0
  BY DEF TabInv, AccountView, OneTab
<1>2. old # {} => HasOneHead(old)
  BY <1>1 DEF SyncOpeningBalance
<1>3. Write(s, p, Cardinality(rows))
  BY <1>1 DEF SyncOpeningBalance
<1>4. /\ x.id = nextId /\ x.type = "OPENING_BALANCE" /\ x.lines = lines
      /\ x.sup = sup /\ x.iid = iid
  <2> DEFINE b == (amount = 0)
             row == Row(nextId, iid, "OPENING_BALANCE", sup, lines)
  <2>1. b \in BOOLEAN /\ x = InsertTransactionRow([row EXCEPT !.void = b])
    BY <1>1 DEF NewOpeningRow
  <2> HIDE DEF x, b, sup, iid, lines
  <2>2. row = Row(nextId, iid, "OPENING_BALANCE", sup, lines)
    OBVIOUS
  <2> HIDE DEF row
  <2> QED BY <2>1, <2>2, VoidedType
<1> HIDE DEF x, new, bal
<1>5. p.txs = rows /\ p.links = {} /\ p.names = {}
  BY DEF NoPlan
<1> HIDE DEF p
<1>6. Converts(x)
  BY <1>4, OpeningConverts
<1>7. sup # NoId =>
        \E u \in Heads(db.txs) : /\ u.id = sup /\ u.iid = iid
                                 /\ u.type = "OPENING_BALANCE"
                                 /\ PostsTo(u.lines, Asset(a))
  <2> SUFFICES ASSUME sup # NoId
               PROVE  \E u \in Heads(db.txs) :
                        /\ u.id = sup /\ u.iid = iid
                        /\ u.type = "OPENING_BALANCE" /\ PostsTo(u.lines, Asset(a))
    OBVIOUS
  <2> DEFINE h == OpeningHead(db, a)
  <2>1. /\ h \in Heads(db.txs) /\ h.type = "OPENING_BALANCE"
        /\ PostsTo(h.lines, Asset(a))
    BY <1>2, OpeningHeadIsHead DEF TabInv
  <2>2. sup = h.id
    OBVIOUS
  <2>3. TxOf(db, sup) = h
    BY <2>1, <2>2, TxOfFound DEF Heads, LedgerInv, Sound, UniqueIds
  <2>4. iid = h.iid
    BY <2>3 DEF AllocateIID
  <2> QED BY <2>1, <2>2, <2>4
<1>8. ExtendsHead(db, x)
  <2>1. sup = NoId => iid = Max0({t.iid : t \in db.txs}) + 1
    BY DEF AllocateIID
  <2> HIDE DEF sup, iid
  <2> QED BY <1>4, <1>7, <2>1, FreshIid, RowNumbers DEF ExtendsHead
<1> HIDE DEF sup, iid, lines
<1>9. \A u \in db.txs : u.id = sup =>
        /\ u.type = "OPENING_BALANCE"
        /\ \A b \in Accounts : PostsTo(u.lines, Asset(b)) => b = a
  <2> SUFFICES ASSUME NEW u \in db.txs, u.id = sup
               PROVE  /\ u.type = "OPENING_BALANCE"
                      /\ \A b \in Accounts : PostsTo(u.lines, Asset(b)) => b = a
    OBVIOUS
  <2>1. PICK h \in Heads(db.txs) :
          h.id = sup /\ h.type = "OPENING_BALANCE" /\ PostsTo(h.lines, Asset(a))
    BY <1>7, RowNumbers
  <2>2. u = h
    BY <2>1 DEF Heads, LedgerInv, Sound, UniqueIds
  <2>3. Converts(u)
    BY DEF TabInv, Tidy
  <2>4. Len(u.lines) \in Nat
    BY DEF LedgerInv, TypeOK, Database, Transaction
  <2> QED BY <2>1, <2>2, <2>3, <2>4, PostsToOne
<1>10. Tied(db.links, p.txs)
  <2> SUFFICES ASSUME NEW l \in db.links, l.type = "DEBT_SETTLING", sup = l.linked
               PROVE  FALSE
    BY <1>4, <1>5 DEF Tied
  <2>1. PICK r \in db.txs : r.id = l.linked /\ r.type = "EXPENSE"
    BY DEF TabInv, Tidy, LinkJoins, KindsJoin
  <2> QED BY <1>9, <2>1
<1>11. StaysOn(db.txs, p.txs)
  <2>1. PostsTo(x.lines, Asset(a))
    BY <1>4, OpeningPosts DEF lines
  <2> QED BY <1>4, <1>5, <1>9, <2>1 DEF StaysOn
<1>12. \A y \in p.txs, u \in db.txs : u.id < y.id
  BY <1>4, <1>5 DEF LedgerInv, Below
<1>13. Fits(db, p)
  BY <1>5, <1>6, <1>8, <1>10, <1>11, <1>12
  DEF Fits, DebtLinks, DebtsApart, NamesDiffer
<1> HIDE DEF rows
<1> QED BY <1>3, <1>13, FitsTab

------------------------------------------------------------------------------
\* The steps.

LEMMA OfferedCurrent ==
  ASSUME OneTab, NEW d, NEW n \in Offered(d)
  PROVE  n \notin Repayments(d) /\ \E t \in Heads(d.txs) : t.id = n
BY DEF OneTab, Offered, LatestVersions

LEMMA TabNext ==
  ASSUME OneTab, LedgerInv, LedgerInv', TabInv, [Next]_vars
  PROVE  TabInv'
<1>1. CASE UNCHANGED vars
  <2>1. db' = db /\ shown' = shown /\ view' = view /\ pc' = pc /\ plan' = plan
    BY <1>1 DEF vars
  <2> QED BY <2>1 DEF TabInv, Repayments, DebtLinks, Heads, Superseded
<1>2. ASSUME NEW s \in Sessions, Begin(s) PROVE TabInv'
  <2>1. /\ db' = db /\ shown' = shown /\ view'[s] = db /\ pc'[s] = "begun"
        /\ \A o \in Sessions : o = s
    BY <1>2 DEF Begin, OneTab, LedgerInv, TypeOK
  <2> QED BY <2>1 DEF TabInv, Repayments, DebtLinks, Heads, Superseded
<1>3. ASSUME NEW s \in Sessions, Load(s) PROVE TabInv'
  <2>1. /\ db' = db /\ shown'[s] = Offered(db) /\ pc' = pc /\ pc[s] = "idle"
        /\ \A o \in Sessions : o = s
    BY <1>3 DEF Load, OneTab, LedgerInv, TypeOK
  <2>2. \A n \in Offered(db) :
          n \notin Repayments(db) /\ \E t \in Heads(db.txs) : t.id = n
    BY OfferedCurrent
  <2> QED BY <2>1, <2>2 DEF TabInv, Repayments, DebtLinks, Heads, Superseded
<1>4. ASSUME NEW s \in Sessions, Rollback(s) PROVE TabInv'
  <2>1. /\ db' = db /\ shown' = shown /\ pc'[s] = "idle"
        /\ \A o \in Sessions : o = s
    BY <1>4 DEF Rollback, Finish, OneTab, LedgerInv, TypeOK
  <2> QED BY <2>1 DEF TabInv, Repayments, DebtLinks, Heads, Superseded
<1>5. ASSUME NEW s \in Sessions, Commit(s) PROVE TabInv'
  <2> DEFINE p == plan[s]
  <2>1. /\ db'.txs = db.txs \cup p.txs /\ db'.links = db.links \cup p.links
        /\ db'.names = db.names \cup p.names
        /\ pc[s] = "written"
    BY <1>5 DEF Commit
  <2>2. /\ shown'[s] = Offered(db') /\ pc'[s] = "idle"
        /\ \A o \in Sessions : o = s
    BY <1>5 DEF Commit, Finish, OneTab, LedgerInv, TypeOK
  <2>3. /\ Apart(p.txs, db.txs) /\ Chained(db.txs, db.txs)
        /\ Chained(p.txs, db.txs) /\ Tidy(db) /\ Fits(db, p)
    BY <2>1 DEF LedgerInv, PlansInv, PlanSound, TabInv
  <2>4. \A t \in p.txs : t.id # NoId
    BY MaxIdAssumption DEF LedgerInv, TypeOK, Plan, Transaction, NoId
  <2> HIDE DEF p
  <2>5. Tidy(db')
    BY <2>1, <2>3, <2>4, JoinTidy
  <2>6. \A n \in Offered(db') :
          n \notin Repayments(db') /\ \E t \in Heads(db'.txs) : t.id = n
    BY OfferedCurrent
  <2> QED BY <2>2, <2>5, <2>6 DEF TabInv, Repayments, DebtLinks, Heads, Superseded
<1>6. ASSUME NEW s \in Sessions, WritesOneRow(s), pc[s] = "begun" PROVE TabInv'
  BY <1>6, OneRowTab DEF WritesOneRow
<1>7. ASSUME NEW s \in Sessions, AddAccount(s) PROVE TabInv'
  BY <1>7, AccountTab DEF AddAccount, Ready
<1>8. ASSUME NEW s \in Sessions, UpdateAccount(s) PROVE TabInv'
  BY <1>8, AccountTab DEF UpdateAccount, Ready, Existing
<1>9. ASSUME NEW s \in Sessions, WriteForms(s) PROVE TabInv'
  <2>1. pc[s] = "begun"
    BY <1>9 DEF WriteForms, WriteExpensePaidSelf, WriteExpenseShared,
                WriteExpenseOwed, WriteExpenseRepaid, WriteIncomeSolo,
                WriteIncomeShared, WriteTransfer, Ready
  <2>2. WritesOneRow(s) \/ WriteExpenseRepaid(s)
    BY <1>9, PaidSelfTab, SharedTab, OwedTab, IncomeSoloTab, IncomeSharedTab,
       TransferTab DEF WriteForms
  <2> QED BY <1>6, <2>1, <2>2, RepaidTab
<1> QED BY <1>1, <1>2, <1>3, <1>4, <1>5, <1>7, <1>8, <1>9 DEF Next, WriteForms

LEMMA TabInit == Init => TabInv
BY DEF Init, EmptyDb, TabInv, Tidy, OneHead, DebtsApart, DebtLinks, Tied, StaysOn,
       NamesDiffer, Heads

LEMMA TabInvariant ==
  ASSUME OneTab PROVE Spec => [](LedgerInv /\ OriginsInv /\ TabInv)
<1>1. Init => LedgerInv /\ OriginsInv /\ TabInv
  BY InitInv, OriginsInit, TabInit
<1>2. LedgerInv /\ OriginsInv /\ TabInv /\ [Next]_vars
        => (LedgerInv /\ OriginsInv /\ TabInv)'
  BY NextStep, OriginsNext, TabNext
<1> QED BY <1>1, <1>2, PTL DEF Spec

\* With one tab, forms that do not touch repayments and no zero amounts, every
\* reader finds one current row of each event.
THEOREM HeadsAreSingle == ASSUME OneTab PROVE Spec => []OneHeadPerChain
<1>1. TabInv /\ OriginsInv => OneHeadPerChain
  BY TidyRenders DEF TabInv, OriginsInv, Recorded, Renders, OneHeadPerChain
<1> QED BY <1>1, TabInvariant, PTL

\* Under the same conditions the client can build a page of every state of the
\* tables.
THEOREM PagesAlwaysRender == ASSUME OneTab PROVE Spec => []PageRenders
<1>1. TabInv /\ OriginsInv => PageRenders
  BY TidyRenders DEF TabInv, OriginsInv, Recorded, PageRenders
<1> QED BY <1>1, TabInvariant, PTL

\* Under the same conditions a companion, a trip or a tag has one row.
THEOREM NamesStaySingle == ASSUME OneTab PROVE Spec => []OneRowPerName
<1>1. TabInv => OneRowPerName
  BY DEF TabInv, Tidy, NamesDiffer, OneRowPerName
<1> QED BY <1>1, TabInvariant, PTL

------------------------------------------------------------------------------
\* The refinement: a commit is one write of EventLog.

IidsOf(txs) == {t.iid : t \in txs}

\* CurrentRow, of any tables.
RowsOf(d) ==
  [i \in IidsOf(LatestVersions(d)) |->
     CHOOSE n \in {t.id : t \in {u \in LatestVersions(d) : u.iid = i}} : TRUE]

LEMMA RowsOfHead ==
  ASSUME NEW d, OneHead(d.txs), \A t \in d.txs : ~t.void
  PROVE  /\ DOMAIN RowsOf(d) = IidsOf(Heads(d.txs))
         /\ \A t \in Heads(d.txs) : RowsOf(d)[t.iid] = t.id
<1>1. LatestVersions(d) = Heads(d.txs)
  BY DEF LatestVersions, Heads
<1>2. DOMAIN RowsOf(d) = IidsOf(Heads(d.txs))
  BY <1>1 DEF RowsOf
<1>3. ASSUME NEW t \in Heads(d.txs) PROVE RowsOf(d)[t.iid] = t.id
  <2> DEFINE ids == {u.id : u \in {v \in Heads(d.txs) : v.iid = t.iid}}
  <2>1. \A n \in ids : n = t.id
    BY DEF OneHead
  <2>2. t.id \in ids
    OBVIOUS
  <2>3. t.iid \in IidsOf(LatestVersions(d))
    BY <1>1 DEF IidsOf
  <2>4. RowsOf(d)[t.iid] = CHOOSE n \in ids : TRUE
    BY <1>1, <2>3 DEF RowsOf
  <2> HIDE DEF ids
  <2>5. (CHOOSE n \in ids : TRUE) \in ids
    BY <2>2
  <2> QED BY <2>1, <2>4, <2>5
<1> QED BY <1>2, <1>3

LEMMA JoinedHeads ==
  ASSUME NEW d, NEW p, Apart(p.txs, d.txs), Chained(d.txs, d.txs),
         Chained(p.txs, d.txs), \A t \in d.txs \cup p.txs : t.id # NoId
  PROVE  \A t : t \in Heads(d.txs \cup p.txs) <=>
           \/ t \in p.txs
           \/ t \in Heads(d.txs) /\ \A x \in p.txs : x.sup # t.id
<1> DEFINE all == d.txs \cup p.txs
<1>1. ASSUME NEW t \in p.txs PROVE t \in Heads(all)
  <2> SUFFICES ASSUME NEW x \in all, x.sup = t.id PROVE FALSE
    BY DEF Heads, Superseded
  <2>1. t.id # NoId
    OBVIOUS
  <2>2. PICK u \in d.txs : u.id = t.id
    BY <2>1 DEF Chained, Continues
  <2> QED BY <2>2 DEF Apart
<1>2. ASSUME NEW t \in Heads(d.txs), \A x \in p.txs : x.sup # t.id
      PROVE  t \in Heads(all)
  BY <1>2 DEF Heads, Superseded
<1>3. ASSUME NEW t \in Heads(all), t \notin p.txs
      PROVE  t \in Heads(d.txs) /\ \A x \in p.txs : x.sup # t.id
  BY <1>3 DEF Heads, Superseded
<1> HIDE DEF all
<1>4. \A t : t \in Heads(all) <=>
        t \in p.txs \/ (t \in Heads(d.txs) /\ \A x \in p.txs : x.sup # t.id)
  BY <1>1, <1>2, <1>3
<1> QED BY <1>4 DEF all

\* A row that is superseded makes way for one of its own event.
LEMMA JoinedIids ==
  ASSUME NEW d, NEW p, NEW D, D.txs = d.txs \cup p.txs,
         Apart(p.txs, d.txs), Chained(d.txs, d.txs), Chained(p.txs, d.txs),
         \A t \in d.txs \cup p.txs : t.id # NoId, UniqueIds(d.txs), Fits(d, p)
  PROVE  /\ IidsOf(Heads(D.txs)) = IidsOf(Heads(d.txs)) \cup IidsOf(p.txs)
         /\ \A t \in Heads(d.txs) :
              t.iid \notin IidsOf(p.txs) => t \in Heads(D.txs)
         /\ \A x \in p.txs : x \in Heads(D.txs)
<1>1. \A t : t \in Heads(D.txs) <=>
        t \in p.txs \/ (t \in Heads(d.txs) /\ \A x \in p.txs : x.sup # t.id)
  BY JoinedHeads
<1>2. ASSUME NEW t \in Heads(d.txs), NEW x \in p.txs, x.sup = t.id
      PROVE  t.iid = x.iid
  <2>1. t \in d.txs /\ t.id # NoId
    BY DEF Heads
  <2>2. PICK u \in Heads(d.txs) : u.id = x.sup /\ u.iid = x.iid
    BY <1>2, <2>1 DEF Fits, ExtendsHead
  <2>3. u = t
    BY <1>2, <2>1, <2>2 DEF Heads, UniqueIds
  <2> QED BY <2>2, <2>3
<1>3. \A t \in Heads(d.txs) : t.iid \notin IidsOf(p.txs) => t \in Heads(D.txs)
  BY <1>1, <1>2 DEF IidsOf
<1>4. ASSUME NEW n \in IidsOf(Heads(d.txs)) \cup IidsOf(p.txs)
      PROVE  n \in IidsOf(Heads(D.txs))
  BY <1>1, <1>3 DEF IidsOf
<1>5. ASSUME NEW n \in IidsOf(Heads(D.txs))
      PROVE  n \in IidsOf(Heads(d.txs)) \cup IidsOf(p.txs)
  BY <1>1 DEF IidsOf
<1> QED BY <1>1, <1>3, <1>4, <1>5

LEMMA CommitWrites ==
  ASSUME OneTab, LedgerInv, OriginsInv, TabInv, LedgerInv', OriginsInv', TabInv',
         NEW s \in Sessions, Commit(s)
  PROVE  [Log!Next]_CurrentRow
<1> DEFINE p == plan[s]
           evs == IidsOf(p.txs)
<1>1. db'.txs = db.txs \cup p.txs /\ pc[s] = "written"
  BY DEF Commit
<1>2. CurrentRow = RowsOf(db) /\ CurrentRow' = RowsOf(db')
  BY DEF CurrentRow, RowsOf, IidsOf
<1>3. /\ OneHead(db.txs) /\ OneHead(db'.txs)
      /\ \A t \in db.txs : ~t.void
      /\ \A t \in db'.txs : ~t.void
  BY DEF TabInv, Tidy, OriginsInv, Recorded
<1>4. /\ Apart(p.txs, db.txs) /\ Chained(db.txs, db.txs)
      /\ Chained(p.txs, db.txs) /\ UniqueIds(db.txs) /\ UniqueIds(p.txs)
      /\ Fits(db, p)
  BY <1>1 DEF LedgerInv, PlansInv, PlanSound, Sound, TabInv
<1>5. \A t \in db.txs \cup p.txs :
        t.id # NoId /\ t.id \in 1 .. MaxId /\ t.iid \in 1 .. MaxId
  <2>1. db.txs \subseteq Transaction /\ p.txs \subseteq Transaction
    BY DEF LedgerInv, TypeOK, Database, Plan
  <2>2. \A t \in Transaction : t.id \in 1 .. MaxId /\ t.iid \in 1 .. MaxId
    BY DEF Transaction
  <2>3. \A n \in 1 .. MaxId : n # NoId
    BY MaxIdAssumption DEF NoId
  <2> QED BY <2>1, <2>2, <2>3
<1> HIDE DEF p
<1>6. /\ IidsOf(Heads(db'.txs)) = IidsOf(Heads(db.txs)) \cup evs
      /\ \A t \in Heads(db.txs) : t.iid \notin evs => t \in Heads(db'.txs)
      /\ \A x \in p.txs : x \in Heads(db'.txs)
  BY <1>1, <1>4, <1>5, JoinedIids
<1>7. /\ DOMAIN RowsOf(db) = IidsOf(Heads(db.txs))
      /\ \A t \in Heads(db.txs) : RowsOf(db)[t.iid] = t.id
      /\ DOMAIN RowsOf(db') = IidsOf(Heads(db'.txs))
      /\ \A t \in Heads(db'.txs) : RowsOf(db')[t.iid] = t.id
  BY <1>3, RowsOfHead
<1>8. CASE p.txs = {}
  <2>1. db'.txs = db.txs
    BY <1>1, <1>8
  <2>2. LatestVersions(db') = LatestVersions(db)
    BY <2>1 DEF LatestVersions
  <2> QED BY <1>2, <2>2 DEF RowsOf
<1>9. CASE p.txs # {}
  <2>1. PICK x \in p.txs, y \in p.txs : \A z \in p.txs : z = x \/ z = y
    BY <1>4, <1>9 DEF Fits
  <2>2. evs = {x.iid, y.iid}
    BY <2>1 DEF IidsOf
  <2>3. x.iid \in 1 .. MaxId /\ y.iid \in 1 .. MaxId
    BY <1>5
  <2>5. \A e \in evs : \E z \in p.txs : z.iid = e /\ RowsOf(db')[e] = z.id
    BY <1>6, <1>7 DEF IidsOf
  <2>6. \A f \in DOMAIN RowsOf(db) :
          \E t \in Heads(db.txs) : t.iid = f /\ RowsOf(db)[f] = t.id
    BY <1>7 DEF IidsOf
  <2>7. DOMAIN RowsOf(db') = DOMAIN RowsOf(db) \cup evs
    BY <1>6, <1>7
  <2>8. ASSUME NEW e \in evs
        PROVE  /\ RowsOf(db')[e] \in 1 .. MaxId
               /\ \A f \in DOMAIN RowsOf(db) : RowsOf(db')[e] > RowsOf(db)[f]
               /\ \A f \in evs \ {e} : RowsOf(db')[e] # RowsOf(db')[f]
    <3>1. PICK z \in p.txs : z.iid = e /\ RowsOf(db')[e] = z.id
      BY <2>5
    <3>2. RowsOf(db')[e] \in 1 .. MaxId
      BY <1>5, <3>1
    <3>3. ASSUME NEW f \in DOMAIN RowsOf(db)
          PROVE  RowsOf(db')[e] > RowsOf(db)[f]
      <4>1. PICK t \in Heads(db.txs) : t.iid = f /\ RowsOf(db)[f] = t.id
        BY <2>6
      <4>2. t.id < z.id
        BY <1>4, <4>1 DEF Fits, Heads
      <4> QED BY <3>1, <4>1, <4>2
    <3>4. ASSUME NEW f \in evs \ {e}
          PROVE  RowsOf(db')[e] # RowsOf(db')[f]
      <4>1. PICK w \in p.txs : w.iid = f /\ RowsOf(db')[f] = w.id
        BY <2>5
      <4> QED BY <1>4, <3>1, <4>1 DEF UniqueIds
    <3> QED BY <3>2, <3>3, <3>4
  <2>9. \A e \in DOMAIN RowsOf(db) \ evs : RowsOf(db')[e] = RowsOf(db)[e]
    BY <1>6, <1>7, <2>6
  <2>10. Log!Write({x.iid, y.iid})
    BY <1>2, <2>2, <2>7, <2>8, <2>9 DEF Log!Write, Log!Recorded
  <2> QED BY <2>3, <2>10 DEF Log!Next
<1> QED BY <1>8, <1>9

LEMMA StepWrites ==
  ASSUME OneTab, LedgerInv, OriginsInv, TabInv, LedgerInv', OriginsInv', TabInv',
         [Next]_vars
  PROVE  [Log!Next]_CurrentRow
<1>1. CASE db' = db
  BY <1>1 DEF CurrentRow, LatestVersions, Heads, Superseded
<1>2. CASE \E s \in Sessions : Commit(s)
  BY <1>2, CommitWrites
<1>3. ASSUME NEW s \in Sessions, NEW p, NEW k, Write(s, p, k) PROVE db' = db
  BY <1>3 DEF Write
<1>4. db' = db \/ \E s \in Sessions : Commit(s)
  <2>1. ASSUME NEW s \in Sessions, WriteForms(s) PROVE db' = db
    BY <1>3, <2>1, FormsWrite DEF WritesForm
  <2>2. ASSUME NEW s \in Sessions, AddAccount(s) \/ UpdateAccount(s)
        PROVE  db' = db
    BY <1>3, <2>2 DEF AddAccount, UpdateAccount, SyncOpeningBalance
  <2> QED BY <2>1, <2>2, StepKinds DEF Quiet
<1> QED BY <1>1, <1>2, <1>4

\* Under the same conditions the ledger is a log of events, each with one
\* current version: a commit records or revises one event, or an expense and
\* its repayment, and leaves every other event alone.
THEOREM LedgerIsEventLog == ASSUME OneTab PROVE Spec => ImplementsEventLog
<1>1. Init => Log!Init
  <2> SUFFICES ASSUME Init PROVE CurrentRow = [e \in {} |-> 0]
    BY DEF Log!Init
  <2>1. LatestVersions(db) = {}
    BY DEF Init, EmptyDb, LatestVersions, Heads
  <2> QED BY <2>1 DEF CurrentRow
<1>2. /\ LedgerInv /\ OriginsInv /\ TabInv
      /\ (LedgerInv /\ OriginsInv /\ TabInv)'
      /\ [Next]_vars
      => [Log!Next]_CurrentRow
  BY StepWrites
<1> QED BY <1>1, <1>2, TabInvariant, PTL DEF Spec, ImplementsEventLog, Log!Spec
=============================================================================
