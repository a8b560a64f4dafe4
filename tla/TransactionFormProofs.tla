----------------------- MODULE TransactionFormProofs -----------------------
(***************************************************************************)
(* Proofs about the transaction form, for any accounts, categories, names, *)
(* amounts, suggestions and recorded transactions.                         *)
(***************************************************************************)
EXTENDS TransactionFormSafety, TLAPS

-----------------------------------------------------------------------------
\* The inductive invariant.

TypeOK ==
  /\ open \in Transactions \cup {None, New}
  /\ form \in Forms
  /\ draft \in Maybe(Drafts)
  /\ seen \in Categories
  /\ sending # None => sending.account \in Maybe(Accounts)

\* Repayment details come and go with the sharing.
Repays(f) ==
  f.type = "EXPENSE" => (f.repayment # None <=> f.sharing = PAID_OTHER_REPAID)

\* The amount a form hides is the one it follows.
Hides(f) ==
  IF f.type = "TRANSFER" THEN SameUnit(f) => f.received = f.sent
                         ELSE ~IsShared(f) => f.own = SafeAmount(f)

Good(f) == f \in Forms /\ Repays(f)

FormInv ==
  /\ TypeOK
  /\ Good(form)
  /\ Hides(form)

-----------------------------------------------------------------------------
\* The variants.

LEMMA Variants ==
  ASSUME NEW f
  PROVE  /\ f \in Forms => f.type \in Types
         /\ f \in Forms /\ f.type = "EXPENSE" => f \in Expenses
         /\ f \in Forms /\ f.type = "INCOME" => f \in Incomes
         /\ f \in Forms /\ f.type = "TRANSFER" => f \in Transfers
BY DEF Forms, Expenses, Incomes, Transfers, Types

LEMMA NumbersAreInputs == 0 \in Inputs /\ \A n \in Nat : n \in Inputs
BY DEF Inputs

LEMMA EmptyForm ==
  ASSUME NEW a \in Maybe(Accounts)
  PROVE  LET f == [ExpenseFormEmpty EXCEPT !.account = a]
         IN  Good(f) /\ Hides(f) /\ f.type = "EXPENSE"
<1> DEFINE f == [ExpenseFormEmpty EXCEPT !.account = a]
<1>1. f \in Expenses
  BY FormAssumption, NumbersAreInputs
     DEF ExpenseFormEmpty, Expenses, Texts, Maybe, PaidSelf
<1>2. Repays(f) /\ Hides(f)
  BY FormAssumption DEF ExpenseFormEmpty, Repays, Hides, IsShared, SafeAmount,
       PAID_SELF_NOT_SHARED, PAID_OTHER_REPAID
<1> QED BY <1>1, <1>2 DEF Good, Forms, ExpenseFormEmpty

LEMMA EmptyIsGood ==
  Good(ExpenseFormEmpty) /\ Hides(ExpenseFormEmpty) /\ ExpenseFormEmpty.type = "EXPENSE"
<1>1. ExpenseFormEmpty \in Expenses
  BY FormAssumption, NumbersAreInputs
     DEF ExpenseFormEmpty, Expenses, Texts, Maybe, PaidSelf
<1>2. Repays(ExpenseFormEmpty) /\ Hides(ExpenseFormEmpty)
  BY FormAssumption DEF ExpenseFormEmpty, Repays, Hides, IsShared, SafeAmount,
       PAID_SELF_NOT_SHARED, PAID_OTHER_REPAID
<1> QED BY <1>1, <1>2 DEF Good, Forms, ExpenseFormEmpty

-----------------------------------------------------------------------------
\* The effects.

LEMMA SharesAreAmounts ==
  ASSUME NEW f \in Expenses \cup Incomes
  PROVE  /\ f.amount \in Inputs /\ f.own \in Inputs
         /\ SafeAmount(f) \in Int /\ (SafeAmount(f) + 1) \div 2 \in Int
         /\ IsShared(f) \in BOOLEAN
<1>1. f.amount \in Inputs /\ f.own \in Inputs
  BY DEF Expenses, Incomes
<1>2. SafeAmount(f) \in Int
  BY <1>1 DEF Inputs, SafeAmount
<1>3. IsShared(f) \in BOOLEAN
  BY DEF Expenses, Incomes, IsShared
<1> QED BY <1>1, <1>2, <1>3

LEMMA CategorySettles ==
  ASSUME NEW old, NEW new \in Forms, NEW mounted, NEW creating
  PROVE  /\ UpdateCategoryOnChange(old, new, mounted, creating) \in Categories
         /\ ~creating =>
              UpdateCategoryOnChange(old, new, mounted, creating) = new.category
<1>1. new.category \in Categories /\ NameOf(new) \in Texts /\ new.type \in Types
  BY DEF Forms, Expenses, Incomes, Transfers, NameOf, OrElse, Maybe, Texts, Types
<1>2. Usual[new.type][NameOf(new)] \in Maybe(Categories)
  BY <1>1, InputsAssumption
<1> QED BY <1>1, <1>2 DEF UpdateCategoryOnChange, Maybe

LEMMA NumbersAreSafe ==
  ASSUME NEW f, f.amount \in Int
  PROVE  SafeAmount(f) = f.amount
<1>1. f.amount \in Int
  OBVIOUS
<1>2. f.amount # Garbled
  BY <1>1, FormAssumption, Zenon
<1> QED BY <1>2 DEF SafeAmount

\* The effects write the category and the hidden amount, nothing else.
LEMMA SettleShared ==
  ASSUME NEW old, NEW new \in Expenses \cup Incomes,
         NEW mounted, NEW creating
  PROVE  Settle(old, new, mounted, creating) =
           [new EXCEPT
              !.category = UpdateCategoryOnChange(old, new, mounted, creating),
              !.own = UpdateOwnShareOnAmountChange(old, new, mounted)]
<1>1. new.type # "TRANSFER"
  BY DEF Expenses, Incomes
<1> QED BY <1>1 DEF Settle

LEMMA SettleTransfer ==
  ASSUME NEW old, NEW new \in Transfers,
         NEW mounted, NEW creating
  PROVE  Settle(old, new, mounted, creating) =
           [new EXCEPT
              !.category = UpdateCategoryOnChange(old, new, mounted, creating),
              !.received = UpdateReceivedAmountOnAmountChange(old, new, mounted)]
<1>1. new.type = "TRANSFER"
  BY DEF Transfers
<1> QED BY <1>1 DEF Settle

LEMMA SettleGood ==
  ASSUME NEW old, NEW new, Good(new),
         NEW mounted, NEW creating
  PROVE  LET f == Settle(old, new, mounted, creating)
         IN  /\ Good(f)
             /\ f.type = new.type
             /\ ~creating => f.category = new.category
<1> DEFINE f == Settle(old, new, mounted, creating)
           category == UpdateCategoryOnChange(old, new, mounted, creating)
<1>1. new \in Forms /\ Repays(new)
  BY DEF Good
<1>2. category \in Categories /\ (~creating => category = new.category)
  BY <1>1, CategorySettles
<1> HIDE DEF category
<1>3. CASE new \in Expenses
  <2> DEFINE own == UpdateOwnShareOnAmountChange(old, new, mounted)
  <2>1. own \in Inputs
    BY <1>3, SharesAreAmounts DEF UpdateOwnShareOnAmountChange, Inputs
  <2>2. f = [new EXCEPT !.category = category, !.own = own]
    <3>1. new \in Expenses \cup Incomes
      BY <1>3
    <3> QED BY <3>1, SettleShared, Zenon DEF category
  <2> HIDE DEF f, own
  <2>3. f \in Expenses
    BY <1>2, <1>3, <2>1, <2>2 DEF Expenses
  <2>4. /\ f.type = new.type /\ f.repayment = new.repayment
        /\ f.sharing = new.sharing /\ f.category = category
    BY <1>3, <2>2 DEF Expenses
  <2>5. Repays(f)
    BY <1>1, <2>4 DEF Repays
  <2> QED BY <1>2, <2>3, <2>4, <2>5 DEF Good, Forms, f
<1>4. CASE new \in Incomes
  <2> DEFINE own == UpdateOwnShareOnAmountChange(old, new, mounted)
  <2>1. own \in Inputs
    BY <1>4, SharesAreAmounts DEF UpdateOwnShareOnAmountChange, Inputs
  <2>2. f = [new EXCEPT !.category = category, !.own = own]
    <3>1. new \in Expenses \cup Incomes
      BY <1>4
    <3> QED BY <3>1, SettleShared, Zenon DEF category
  <2> HIDE DEF f, own
  <2>3. f \in Incomes /\ f.type = "INCOME" /\ new.type = "INCOME" /\ f.category = category
    BY <1>2, <1>4, <2>1, <2>2 DEF Incomes
  <2> QED BY <1>2, <2>3 DEF Good, Forms, Repays, f
<1>5. CASE new \in Transfers
  <2> DEFINE received == UpdateReceivedAmountOnAmountChange(old, new, mounted)
  <2>1. received \in Inputs
    BY <1>5 DEF UpdateReceivedAmountOnAmountChange, Transfers
  <2>2. f = [new EXCEPT !.category = category, !.received = received]
    BY <1>5, SettleTransfer, Zenon DEF category
  <2> HIDE DEF f, received
  <2>3. f \in Transfers /\ f.type = "TRANSFER" /\ new.type = "TRANSFER" /\ f.category = category
    BY <1>2, <1>5, <2>1, <2>2 DEF Transfers
  <2> QED BY <1>2, <2>3 DEF Good, Forms, Repays, f
<1> QED BY <1>1, <1>3, <1>4, <1>5 DEF Forms

\* The hidden amount does not move by itself: it is what it was, or the input
\* that shows it is there.
Follows(old, new) ==
  /\ old \in Forms /\ Hides(old) /\ old.type = new.type
  /\ IF new.type = "TRANSFER" THEN SameUnit(new) => new.received = old.received
                              ELSE ~IsShared(new) => new.own = old.own

\* After the effects have run the hidden amount is the one it follows.
LEMMA SettleHides ==
  ASSUME NEW old, NEW new, Good(new),
         NEW mounted, NEW creating,
         mounted \/ Hides(new) \/ Follows(old, new)
  PROVE  Hides(Settle(old, new, mounted, creating))
<1> DEFINE f == Settle(old, new, mounted, creating)
           category == UpdateCategoryOnChange(old, new, mounted, creating)
<1> HIDE DEF category
<1>1. CASE new \in Expenses \cup Incomes
  <2> DEFINE own == UpdateOwnShareOnAmountChange(old, new, mounted)
  <2>1. f = [new EXCEPT !.category = category, !.own = own]
    BY <1>1, SettleShared, Zenon DEF category
  <2>2. /\ f.type = new.type /\ f.type # "TRANSFER" /\ f.own = own
        /\ SafeAmount(f) = SafeAmount(new) /\ IsShared(f) = IsShared(new)
    <3> HIDE DEF f, own
    <3> QED BY <1>1, <2>1 DEF Expenses, Incomes, SafeAmount, IsShared
  <2>3. SUFFICES ASSUME ~IsShared(new) PROVE own = SafeAmount(new)
    BY <2>2 DEF Hides
  <2>4. CASE mounted \/ old.amount # new.amount \/ IsShared(old) # IsShared(new)
    BY <2>3, <2>4 DEF UpdateOwnShareOnAmountChange
  <2>5. CASE ~mounted /\ old.amount = new.amount /\ IsShared(old) = IsShared(new)
    <3>1. own = new.own
      BY <2>5 DEF UpdateOwnShareOnAmountChange
    <3>2. CASE Hides(new)
      BY <2>2, <2>3, <3>1, <3>2 DEF Hides
    <3>3. CASE Follows(old, new)
      BY <2>2, <2>3, <2>5, <3>1, <3>3 DEF Follows, Hides, SafeAmount
    <3> QED BY <2>5, <3>2, <3>3
  <2> QED BY <2>4, <2>5
<1>2. CASE new \in Transfers
  <2> DEFINE received == UpdateReceivedAmountOnAmountChange(old, new, mounted)
  <2>1. f = [new EXCEPT !.category = category, !.received = received]
    BY <1>2, SettleTransfer, Zenon DEF category
  <2>2. /\ f.type = new.type /\ f.type = "TRANSFER" /\ f.received = received
        /\ f.sent = new.sent /\ SameUnit(f) = SameUnit(new)
    <3> HIDE DEF f, received
    <3> QED BY <1>2, <2>1 DEF Transfers, SameUnit
  <2>3. SUFFICES ASSUME SameUnit(new) PROVE received = new.sent
    BY <2>2 DEF Hides
  <2>4. CASE mounted \/ old.sent # new.sent \/ ~SameUnit(old)
    BY <2>3, <2>4 DEF UpdateReceivedAmountOnAmountChange
  <2>5. CASE ~mounted /\ old.sent = new.sent /\ SameUnit(old)
    <3>1. received = new.received
      BY <2>5 DEF UpdateReceivedAmountOnAmountChange
    <3>2. CASE Hides(new)
      BY <2>2, <2>3, <3>1, <3>2 DEF Hides
    <3>3. CASE Follows(old, new)
      BY <2>2, <2>3, <2>5, <3>1, <3>3 DEF Follows, Hides
    <3> QED BY <2>5, <3>2, <3>3
  <2> QED BY <2>4, <2>5
<1> QED BY <1>1, <1>2 DEF Good, Forms

-----------------------------------------------------------------------------
\* The ways to fill a form.

LEMMA FilledExpense ==
  ASSUME NEW d \in Drafts
  PROVE  LET f == ExpenseFromDraft(d) IN Good(f) /\ Hides(f)
<1> DEFINE f == ExpenseFromDraft(d)
           sharing == OrElse(d.sharing, PAID_SELF_NOT_SHARED)
           account == OrElse(d.from, FirstAccount)
           category == OrElse(d.category, FirstCategory)
<1>1. /\ d.amount \in Nat /\ d.own \in Maybe(Nat)
      /\ d.vendor \in Maybe(Texts) /\ d.payer \in Maybe(Texts)
      /\ d.companion \in Maybe(Texts) /\ d.currency \in Maybe(Units)
      /\ d.sharing \in Maybe(PaidSelf \cup PaidOther)
      /\ d.category \in Maybe(Categories) /\ d.from \in Maybe(Accounts)
      /\ d.own # None => d.sharing = PAID_SELF_SHARED
  BY DraftsAssumption
<1>2. /\ sharing \in PaidSelf \cup PaidOther
      /\ account \in Accounts /\ category \in Categories
      /\ OrElse(d.own, d.amount) \in Nat /\ OrElse(d.vendor, "") \in Texts
  BY <1>1, FormAssumption DEF OrElse, Maybe, PaidSelf, Texts
<1>3. sharing # PAID_SELF_SHARED => OrElse(d.own, d.amount) = d.amount
  BY <1>1, FormAssumption DEF OrElse, PaidSelf
<1> HIDE DEF sharing, account, category
<1>4. /\ f.type = "EXPENSE" /\ f.amount = d.amount
      /\ f.own = OrElse(d.own, d.amount) /\ f.sharing = sharing
      /\ f.repayment = IF sharing = PAID_OTHER_REPAID
                       THEN [account |-> account, category |-> category] ELSE None
  BY DEF ExpenseFromDraft, sharing, account, category
<1>5. f \in Expenses
  <2>1. [account |-> account, category |-> category]
          \in Maybe([account: Accounts, category: Categories])
    BY <1>2 DEF Maybe
  <2> QED BY <1>1, <1>2, <2>1, NumbersAreInputs
       DEF ExpenseFromDraft, Expenses, Maybe, sharing, account, category
<1>6. Repays(f)
  <2>1. [account |-> account, category |-> category]
          \in [account: Accounts, category: Categories]
    BY <1>2
  <2>2. [account |-> account, category |-> category] # None
    BY <2>1, FormAssumption
  <2> QED BY <1>4, <2>2 DEF Repays
<1>7. Hides(f)
  <2>1. SafeAmount(f) = f.amount
    BY <1>1, <1>4, NumbersAreSafe
  <2>2. ~IsShared(f) => sharing # PAID_SELF_SHARED
    BY <1>4 DEF IsShared, PAID_SELF_SHARED, PAID_SELF_NOT_SHARED
  <2> QED BY <1>3, <1>4, <2>1, <2>2 DEF Hides
<1> QED BY <1>5, <1>6, <1>7 DEF Good, Forms

LEMMA FilledIncome ==
  ASSUME NEW d \in Drafts
  PROVE  LET f == IncomeFromDraft(d) IN Good(f) /\ Hides(f)
<1> DEFINE f == IncomeFromDraft(d)
<1>1. /\ d.amount \in Nat /\ d.own \in Maybe(Nat)
      /\ d.payer \in Maybe(Texts) /\ d.companion \in Maybe(Texts)
      /\ d.category \in Maybe(Categories) /\ d.to \in Maybe(Accounts)
      /\ d.own # None => d.sharing = PAID_SELF_SHARED
  BY DraftsAssumption
<1>2. /\ OrElse(d.to, FirstAccount) \in Accounts
      /\ OrElse(d.category, FirstCategory) \in Categories
      /\ OrElse(d.own, d.amount) \in Nat /\ OrElse(d.payer, "") \in Texts
  BY <1>1, FormAssumption DEF OrElse, Maybe, Texts
<1>3. f \in Incomes
  BY <1>1, <1>2, NumbersAreInputs DEF IncomeFromDraft, Incomes, Maybe
<1>4. /\ f.type = "INCOME" /\ f.amount = d.amount
      /\ f.own = OrElse(d.own, d.amount)
      /\ f.isShared = (d.sharing = PAID_SELF_SHARED)
  BY DEF IncomeFromDraft
<1>5. Hides(f)
  <2>1. SafeAmount(f) = f.amount
    BY <1>1, <1>4, NumbersAreSafe
  <2>2. ~IsShared(f) => d.own = None
    BY <1>1, <1>4 DEF IsShared
  <2> QED BY <1>4, <2>1, <2>2 DEF Hides, OrElse
<1> QED BY <1>3, <1>4, <1>5 DEF Good, Forms, Repays

LEMMA FilledTransfer ==
  ASSUME NEW d \in Drafts
  PROVE  LET f == TransferFromDraft(d) IN Good(f) /\ Hides(f)
<1> DEFINE f == TransferFromDraft(d)
<1>1. /\ d.amount \in Nat /\ d.received \in Maybe(Nat)
      /\ d.description \in Maybe(Texts) /\ d.category \in Maybe(Categories)
      /\ d.from \in Maybe(Accounts) /\ d.to \in Maybe(Accounts)
      /\ d.received # None => d.received = d.amount
  BY DraftsAssumption
<1>2. /\ OrElse(d.to, FirstAccount) \in Accounts
      /\ OrElse(d.from, FirstAccount) \in Accounts
      /\ OrElse(d.category, FirstCategory) \in Categories
      /\ OrElse(d.received, d.amount) = d.amount
  BY <1>1, FormAssumption DEF OrElse, Maybe
<1>3. f \in Transfers
  BY <1>1, <1>2 DEF TransferFromDraft, Transfers, Inputs
<1>4. f.type = "TRANSFER" /\ f.received = f.sent
  BY <1>2 DEF TransferFromDraft
<1> QED BY <1>3, <1>4 DEF Good, Forms, Repays, Hides

\* A suggestion hides no amount but the one shown.
LEMMA FilledByDraft ==
  ASSUME NEW d \in Drafts
  PROVE  LET f == ValuesForDraft(d) IN Good(f) /\ Hides(f)
<1>1. CASE d.type = "INCOME"
  BY <1>1, FilledIncome DEF ValuesForDraft
<1>2. CASE d.type = "TRANSFER"
  BY <1>2, FilledTransfer DEF ValuesForDraft
<1>3. CASE d.type \notin {"INCOME", "TRANSFER"}
  BY <1>3, FilledExpense DEF ValuesForDraft
<1> QED BY <1>1, <1>2, <1>3

LEMMA FilledByTransaction ==
  ASSUME NEW t \in Transactions
  PROVE  Good(ValuesForTransaction(t))
<1> DEFINE f == ValuesForTransaction(t)
<1>1. Recorded(t)
  BY TransactionsAssumption
<1>2. CASE t.kind = "Income"
  <2>1. f = IncomeFromTransaction(t)
    BY <1>2 DEF ValuesForTransaction
  <2>2. IncomeFromTransaction(t) \in Incomes
    BY <1>1, <1>2 DEF Recorded, IncomeFromTransaction, Incomes, Inputs
  <2> QED BY <2>1, <2>2 DEF Good, Forms, Repays, Incomes
<1>3. CASE t.kind = "Transfer"
  <2>1. f = TransferFromTransaction(t)
    BY <1>3 DEF ValuesForTransaction
  <2>2. TransferFromTransaction(t) \in Transfers
    BY <1>1, <1>3 DEF Recorded, TransferFromTransaction, Transfers, Inputs
  <2> QED BY <2>1, <2>2 DEF Good, Forms, Repays, Transfers
<1>4. CASE t.kind = "ThirdPartyExpense"
  <2>1. f = ExpenseFromTransaction(t)
    BY <1>4 DEF ValuesForTransaction
  <2>2. ExpenseFromTransaction(t) \in Expenses
    BY <1>1, <1>4 DEF Recorded, ExpenseFromTransaction, Expenses, Inputs, Maybe,
         PaidOther
  <2>3. Repays(ExpenseFromTransaction(t))
    BY <1>4 DEF Repays, ExpenseFromTransaction, PAID_OTHER_REPAID, PAID_OTHER_OWED
  <2> QED BY <2>1, <2>2, <2>3 DEF Good, Forms
<1>5. CASE t.kind = "PersonalExpense"
  <2>1. f = ExpenseFromTransaction(t)
    BY <1>5 DEF ValuesForTransaction
  <2>2. ExpenseFromTransaction(t) \in Expenses
    BY <1>1, <1>5 DEF Recorded, ExpenseFromTransaction, Expenses, Inputs, Maybe,
         PaidSelf
  <2>3. Repays(ExpenseFromTransaction(t))
    BY <1>1, <1>5 DEF Recorded, Repays, ExpenseFromTransaction, PAID_OTHER_REPAID,
         PAID_SELF_SHARED, PAID_SELF_NOT_SHARED
  <2> QED BY <2>1, <2>2, <2>3 DEF Good, Forms
<1> QED BY <1>1, <1>2, <1>3, <1>4, <1>5 DEF Recorded

\* Switching the variant keeps the category.
LEMMA Switched ==
  ASSUME NEW f, Good(f), NEW type \in Types, type # f.type
  PROVE  LET g == ValuesForNewType(f, type)
         IN  Good(g) /\ g.type = type /\ g.category = f.category
<1> DEFINE g == ValuesForNewType(f, type)
<1>1. f \in Forms
  BY DEF Good
<1>2. CASE f \in Expenses
  <2>1. f.type = "EXPENSE" /\ type \in {"INCOME", "TRANSFER"}
    BY <1>2 DEF Expenses, Types
  <2>2. OrElse(f.account, FirstAccount) \in Accounts
    BY <1>2, FormAssumption DEF Expenses, OrElse, Maybe
  <2>3. CASE type = "INCOME"
    <3>1. g = ExpenseToIncome(f)
      BY <2>1, <2>3 DEF ValuesForNewType
    <3>2. IsShared(f) \in BOOLEAN
      BY <1>2, SharesAreAmounts
    <3>3. g \in Incomes
      BY <1>2, <2>2, <3>1, <3>2 DEF ExpenseToIncome, Expenses, Incomes
    <3>4. g.type = "INCOME" /\ g.category = f.category
      BY <3>1 DEF ExpenseToIncome
    <3> QED BY <2>3, <3>3, <3>4 DEF Good, Forms, Repays
  <2>4. CASE type = "TRANSFER"
    <3>1. g = ExpenseToTransfer(f)
      BY <2>1, <2>4 DEF ValuesForNewType
    <3>2. g \in Transfers
      BY <1>2, <2>2, <3>1 DEF ExpenseToTransfer, Expenses, Transfers, Maybe
    <3>3. g.type = "TRANSFER" /\ g.category = f.category
      BY <3>1 DEF ExpenseToTransfer
    <3> QED BY <2>4, <3>2, <3>3 DEF Good, Forms, Repays
  <2> QED BY <2>1, <2>3, <2>4
<1>3. CASE f \in Incomes
  <2>1. f.type = "INCOME" /\ type \in {"EXPENSE", "TRANSFER"}
    BY <1>3 DEF Incomes, Types
  <2>2. CASE type = "EXPENSE"
    <3>1. g = IncomeToExpense(f)
      BY <2>1, <2>2 DEF ValuesForNewType
    <3>2. g \in Expenses
      BY <1>3, <3>1 DEF IncomeToExpense, ExpenseFormEmpty, Expenses, Incomes, Maybe,
           PaidSelf
    <3>3. /\ g.type = "EXPENSE" /\ g.category = f.category
          /\ g.repayment = None /\ g.sharing \in PaidSelf
      BY <3>1 DEF IncomeToExpense, ExpenseFormEmpty, PaidSelf
    <3> QED BY <2>2, <3>2, <3>3 DEF Good, Forms, Repays, PaidSelf, PAID_SELF_SHARED,
          PAID_SELF_NOT_SHARED, PAID_OTHER_REPAID
  <2>3. CASE type = "TRANSFER"
    <3>1. g = IncomeToTransfer(f)
      BY <2>1, <2>3 DEF ValuesForNewType
    <3>2. g \in Transfers
      BY <1>3, <3>1 DEF IncomeToTransfer, Incomes, Transfers, Maybe
    <3>3. g.type = "TRANSFER" /\ g.category = f.category
      BY <3>1 DEF IncomeToTransfer
    <3> QED BY <2>3, <3>2, <3>3 DEF Good, Forms, Repays
  <2> QED BY <2>1, <2>2, <2>3
<1>4. CASE f \in Transfers
  <2>1. f.type = "TRANSFER" /\ type \in {"EXPENSE", "INCOME"}
    BY <1>4 DEF Transfers, Types
  <2>2. OrElse(f.description, "") \in Texts
    BY <1>4 DEF Transfers, OrElse, Maybe, Texts
  <2>3. CASE type = "EXPENSE"
    <3>1. g = TransferToExpense(f)
      BY <2>1, <2>3 DEF ValuesForNewType
    <3>2. g \in Expenses
      BY <1>4, <2>2, <3>1 DEF TransferToExpense, ExpenseFormEmpty, Expenses, Transfers,
           Maybe, PaidSelf
    <3>3. /\ g.type = "EXPENSE" /\ g.category = f.category
          /\ g.repayment = None /\ g.sharing = PAID_SELF_NOT_SHARED
      BY <3>1 DEF TransferToExpense, ExpenseFormEmpty
    <3> QED BY <2>3, <3>2, <3>3 DEF Good, Forms, Repays, PAID_SELF_NOT_SHARED,
          PAID_OTHER_REPAID
  <2>4. CASE type = "INCOME"
    <3> DEFINE shared == FALSE
    <3>1. g = [type |-> "INCOME", amount |-> f.sent, own |-> f.sent,
               payer |-> OrElse(f.description, ""), category |-> f.category,
               account |-> f.from, companion |-> None, isShared |-> shared]
      BY <2>1, <2>4 DEF ValuesForNewType, TransferToIncome
    <3>2. shared \in BOOLEAN
      OBVIOUS
    <3> HIDE DEF shared, g
    <3>3. g \in Incomes
      BY <1>4, <2>2, <3>1, <3>2 DEF Incomes, Transfers, Maybe
    <3>4. g.type = "INCOME" /\ g.category = f.category
      BY <3>1
    <3> QED BY <2>4, <3>3, <3>4 DEF Good, Forms, Repays, g
  <2> QED BY <2>1, <2>3, <2>4
<1> QED BY <1>1, <1>2, <1>3, <1>4 DEF Forms

-----------------------------------------------------------------------------
\* The steps the actions are made of.

LEMMA Edited ==
  ASSUME FormInv, NEW f, Good(f), Follows(form, f), Edit(f)
  PROVE  FormInv'
<1>1. form' = Settle(form, f, FALSE, Creating)
  BY DEF Edit
<1>2. Good(Settle(form, f, FALSE, Creating)) /\ Hides(Settle(form, f, FALSE, Creating))
  BY SettleGood, SettleHides
<1>3. Good(form') /\ Hides(form')
  BY <1>1, <1>2
<1>4. TypeOK'
  BY <1>3 DEF Edit, FormInv, TypeOK, Good
<1> QED BY <1>3, <1>4 DEF FormInv

LEMMA Rendered ==
  ASSUME FormInv, NEW f, Good(f),
         f.type # form.type \/ Hides(f) \/ Follows(form, f), Render(f),
         open' = open, draft' \in Maybe(Drafts), sending' = sending
  PROVE  FormInv'
<1> DEFINE mounted == f.type # form.type
<1>1. form' = Settle(form, f, mounted, Creating) /\ seen' = f.category
  BY DEF Render
<1>2. mounted \/ Hides(f) \/ Follows(form, f)
  OBVIOUS
<1> HIDE DEF mounted
<1>3. Good(form') /\ Hides(form')
  BY <1>1, <1>2, SettleGood, SettleHides
<1>4. f.category \in Categories
  BY DEF Good, Forms, Expenses, Incomes, Transfers
<1>5. TypeOK'
  BY <1>1, <1>3, <1>4 DEF FormInv, TypeOK, Good
<1> QED BY <1>3, <1>5 DEF FormInv

LEMMA Mounted ==
  ASSUME NEW o \in Transactions \cup {New}, NEW f, Good(f), Mount(o, f)
  PROVE  FormInv'
<1> DEFINE creating == o = New
<1>1. form' = Settle(f, f, TRUE, creating)
  BY DEF Mount
<1> HIDE DEF creating
<1>2. Good(Settle(f, f, TRUE, creating)) /\ Hides(Settle(f, f, TRUE, creating))
  BY SettleGood, SettleHides
<1>3. Good(form') /\ Hides(form')
  BY <1>1, <1>2
<1>4. f.category \in Categories
  BY DEF Good, Forms, Expenses, Incomes, Transfers
<1>5. TypeOK'
  BY <1>3, <1>4 DEF Mount, TypeOK, Good, Maybe
<1> QED BY <1>3, <1>5 DEF FormInv

LEMMA Unmounted ==
  ASSUME Unmount
  PROVE  FormInv'
<1>1. Good(form') /\ Hides(form')
  BY EmptyIsGood DEF Unmount
<1>2. TypeOK'
  BY <1>1, FormAssumption DEF Unmount, TypeOK, Good, Maybe
<1> QED BY <1>1, <1>2 DEF FormInv

LEMMA Recategorised ==
  ASSUME NEW f, Good(f), NEW c \in Categories
  PROVE  LET g == [f EXCEPT !.category = c]
         IN  /\ Good(g)
             /\ Hides(f) => Hides(g)
             /\ f \in Forms /\ Hides(f) => Follows(f, g)
<1> DEFINE g == [f EXCEPT !.category = c]
<1>1. CASE f \in Expenses
  <2>1. g \in Expenses
    BY <1>1 DEF Expenses
  <2>2. /\ g.type = f.type /\ g.repayment = f.repayment /\ g.sharing = f.sharing
        /\ g.own = f.own /\ g.amount = f.amount /\ f.type = "EXPENSE"
    BY <1>1 DEF Expenses
  <2> HIDE DEF g
  <2>3. IsShared(g) = IsShared(f) /\ SafeAmount(g) = SafeAmount(f)
    BY <2>2 DEF IsShared, SafeAmount
  <2> QED BY <2>1, <2>2, <2>3 DEF Good, Forms, Repays, Hides, Follows, g
<1>2. CASE f \in Incomes
  <2>1. g \in Incomes
    BY <1>2 DEF Incomes
  <2>2. /\ g.type = f.type /\ g.isShared = f.isShared
        /\ g.own = f.own /\ g.amount = f.amount /\ f.type = "INCOME"
    BY <1>2 DEF Incomes
  <2> HIDE DEF g
  <2>3. IsShared(g) = IsShared(f) /\ SafeAmount(g) = SafeAmount(f)
    BY <2>2 DEF IsShared, SafeAmount
  <2> QED BY <2>1, <2>2, <2>3 DEF Good, Forms, Repays, Hides, Follows, g
<1>3. CASE f \in Transfers
  <2>1. g \in Transfers
    BY <1>3 DEF Transfers
  <2>2. /\ g.type = f.type /\ g.from = f.from /\ g.to = f.to
        /\ g.received = f.received /\ g.sent = f.sent /\ f.type = "TRANSFER"
    BY <1>3 DEF Transfers
  <2> HIDE DEF g
  <2>3. SameUnit(g) = SameUnit(f)
    BY <2>2 DEF SameUnit
  <2> QED BY <2>1, <2>2, <2>3 DEF Good, Forms, Repays, Hides, Follows, g
<1> QED BY <1>1, <1>2, <1>3 DEF Good, Forms

\* What the inputs that are shown say of the form.
LEMMA InputsShown ==
  ASSUME NEW f \in Forms
  PROVE  /\ "amount" \in Shown(f) => f \in Expenses \cup Incomes
         /\ "sent" \in Shown(f) => f \in Transfers
         /\ "own" \in Shown(f) => f \in Expenses \cup Incomes /\ IsShared(f)
         /\ "received" \in Shown(f) => f \in Transfers /\ ~SameUnit(f)
         /\ "companion" \in Shown(f) => f \in Expenses \cup Incomes
         /\ "currency" \in Shown(f) => f \in Expenses
         /\ "account" \in Shown(f) => f \in Expenses \cup Incomes
         /\ "from" \in Shown(f) => f \in Transfers
         /\ "to" \in Shown(f) => f \in Transfers
         /\ "repayment" \in Shown(f) =>
              f \in Expenses /\ f.sharing = PAID_OTHER_REPAID
<1>1. CASE f \in Expenses
  <2>1. Shown(f) = ExpenseShows(f)
    BY <1>1 DEF Shown, Expenses
  <2> QED BY <1>1, <2>1 DEF ExpenseShows, When
<1>2. CASE f \in Incomes
  <2>1. Shown(f) = IncomeShows(f) /\ (IsShared(f) <=> f.isShared)
    BY <1>2 DEF Shown, Incomes, IsShared
  <2> QED BY <1>2, <2>1 DEF IncomeShows
<1>3. CASE f \in Transfers
  <2>1. Shown(f) = TransferShows(f)
    BY <1>3 DEF Shown, Transfers
  <2> QED BY <1>3, <2>1 DEF TransferShows, When, SameUnit
<1> QED BY <1>1, <1>2, <1>3 DEF Forms

-----------------------------------------------------------------------------
\* Writes to one form.

\* What FormInv says of the form that is open.
LEMMA OpenForm ==
  ASSUME FormInv
  PROVE  form \in Forms /\ Repays(form) /\ Hides(form) /\ draft \in Maybe(Drafts)
BY DEF FormInv, Good, TypeOK

\* An expense or an income, written so that the own share follows.
LEMMA WriteExpense ==
  ASSUME NEW f \in Expenses, Hides(f), NEW g \in Expenses, Repays(g),
         ~IsShared(g) => g.own = f.own
  PROVE  Good(g) /\ Follows(f, g)
<1>1. f.type = "EXPENSE" /\ g.type = "EXPENSE"
  BY DEF Expenses
<1> QED BY <1>1 DEF Good, Follows, Forms

LEMMA WriteIncome ==
  ASSUME NEW f \in Incomes, Hides(f), NEW g \in Incomes,
         ~IsShared(g) => g.own = f.own
  PROVE  Good(g) /\ Follows(f, g)
<1>1. f.type = "INCOME" /\ g.type = "INCOME"
  BY DEF Incomes
<1> QED BY <1>1 DEF Good, Follows, Forms, Repays

LEMMA WriteTransfer ==
  ASSUME NEW f \in Transfers, Hides(f), NEW g \in Transfers,
         SameUnit(g) => g.received = f.received
  PROVE  Good(g) /\ Follows(f, g)
<1>1. f.type = "TRANSFER" /\ g.type = "TRANSFER"
  BY DEF Transfers
<1> QED BY <1>1 DEF Good, Follows, Forms, Repays

-----------------------------------------------------------------------------
\* Typing.

LEMMA EditAmountKeeps ==
  ASSUME FormInv, NEW a \in Inputs, EditAmount(a)
  PROVE  FormInv'
<1> DEFINE f == [form EXCEPT !.amount = a]
<1>1. form \in Expenses \cup Incomes /\ Hides(form) /\ Repays(form)
  BY OpenForm, InputsShown DEF EditAmount
<1>2. CASE form \in Expenses
  <2>1. /\ f \in Expenses /\ f.own = form.own
        /\ f.type = form.type /\ f.repayment = form.repayment /\ f.sharing = form.sharing
    BY <1>2 DEF Expenses
  <2>2. Repays(f)
    BY <1>1, <2>1 DEF Repays
  <2> QED BY <1>1, <1>2, <2>1, <2>2, WriteExpense, Edited DEF EditAmount
<1>3. CASE form \in Incomes
  <2>1. f \in Incomes /\ f.own = form.own
    BY <1>3 DEF Incomes
  <2> QED BY <1>1, <1>3, <2>1, WriteIncome, Edited DEF EditAmount
<1> QED BY <1>1, <1>2, <1>3

LEMMA EditOwnShareKeeps ==
  ASSUME FormInv, NEW a \in Inputs, EditOwnShare(a)
  PROVE  FormInv'
<1> DEFINE f == [form EXCEPT !.own = a]
<1>1. form \in Expenses \cup Incomes /\ Hides(form) /\ Repays(form) /\ IsShared(form)
  BY OpenForm, InputsShown DEF EditOwnShare
<1>2. CASE form \in Expenses
  <2>1. /\ f \in Expenses /\ f.type = form.type
        /\ f.repayment = form.repayment /\ f.sharing = form.sharing
    BY <1>2 DEF Expenses
  <2>2. Repays(f) /\ IsShared(f)
    <3> HIDE DEF f
    <3> QED BY <1>1, <1>2, <2>1 DEF Repays, IsShared, Expenses
  <2> QED BY <1>1, <1>2, <2>1, <2>2, WriteExpense, Edited DEF EditOwnShare
<1>3. CASE form \in Incomes
  <2>1. f \in Incomes /\ f.type = form.type /\ f.isShared = form.isShared
    BY <1>3 DEF Incomes
  <2>2. IsShared(f)
    <3> HIDE DEF f
    <3> QED BY <1>1, <1>3, <2>1 DEF IsShared, Incomes
  <2> QED BY <1>1, <1>3, <2>1, <2>2, WriteIncome, Edited DEF EditOwnShare
<1> QED BY <1>1, <1>2, <1>3

LEMMA EditSentKeeps ==
  ASSUME FormInv, NEW a \in Inputs, EditSent(a)
  PROVE  FormInv'
<1> DEFINE f == [form EXCEPT !.sent = a]
<1>1. form \in Transfers /\ Hides(form)
  BY OpenForm, InputsShown DEF EditSent
<1>2. f \in Transfers /\ f.received = form.received
  BY <1>1 DEF Transfers
<1> QED BY <1>1, <1>2, WriteTransfer, Edited DEF EditSent

LEMMA EditReceivedKeeps ==
  ASSUME FormInv, NEW a \in Inputs, EditReceived(a)
  PROVE  FormInv'
<1> DEFINE f == [form EXCEPT !.received = a]
<1>1. form \in Transfers /\ Hides(form) /\ ~SameUnit(form)
  BY OpenForm, InputsShown DEF EditReceived
<1>2. f \in Transfers /\ f.from = form.from /\ f.to = form.to
  BY <1>1 DEF Transfers
<1>3. ~SameUnit(f)
  BY <1>1, <1>2 DEF SameUnit
<1> QED BY <1>1, <1>2, <1>3, WriteTransfer, Edited DEF EditReceived

LEMMA EditVendorKeeps ==
  ASSUME FormInv, NEW n \in Texts, EditVendor(n)
  PROVE  FormInv'
<1> DEFINE f == [form EXCEPT !.vendor = n]
<1>1. form \in Expenses /\ Hides(form) /\ Repays(form)
  BY OpenForm, Variants DEF EditVendor
<1>2. /\ f \in Expenses /\ f.own = form.own
      /\ f.type = form.type /\ f.repayment = form.repayment /\ f.sharing = form.sharing
  BY <1>1 DEF Expenses
<1>3. Repays(f)
  BY <1>1, <1>2 DEF Repays
<1> QED BY <1>1, <1>2, <1>3, WriteExpense, Edited DEF EditVendor

LEMMA EditPayerKeeps ==
  ASSUME FormInv, NEW n \in Texts, EditPayer(n)
  PROVE  FormInv'
<1> DEFINE f == [form EXCEPT !.payer = n]
<1>1. form \in Expenses /\ Hides(form) /\ Repays(form)
  BY OpenForm, Variants DEF EditPayer
<1>2. /\ f \in Expenses /\ f.own = form.own
      /\ f.type = form.type /\ f.repayment = form.repayment /\ f.sharing = form.sharing
  BY <1>1 DEF Expenses, Maybe
<1>3. Repays(f)
  BY <1>1, <1>2 DEF Repays
<1> QED BY <1>1, <1>2, <1>3, WriteExpense, Edited DEF EditPayer

LEMMA EditIncomePayerKeeps ==
  ASSUME FormInv, NEW n \in Texts, EditIncomePayer(n)
  PROVE  FormInv'
<1> DEFINE f == [form EXCEPT !.payer = n]
<1>1. form \in Incomes /\ Hides(form)
  BY OpenForm, Variants DEF EditIncomePayer
<1>2. f \in Incomes /\ f.own = form.own
  BY <1>1 DEF Incomes
<1> QED BY <1>1, <1>2, WriteIncome, Edited DEF EditIncomePayer

LEMMA EditDescriptionKeeps ==
  ASSUME FormInv, NEW n \in Texts, EditDescription(n)
  PROVE  FormInv'
<1> DEFINE f == [form EXCEPT !.description = n]
<1>1. form \in Transfers /\ Hides(form)
  BY OpenForm, Variants DEF EditDescription
<1>2. f \in Transfers /\ f.received = form.received
  BY <1>1 DEF Transfers, Maybe
<1> QED BY <1>1, <1>2, WriteTransfer, Edited DEF EditDescription

LEMMA EditCompanionKeeps ==
  ASSUME FormInv, NEW n \in Texts, EditCompanion(n)
  PROVE  FormInv'
<1> DEFINE f == [form EXCEPT !.companion = n]
<1>1. form \in Expenses \cup Incomes /\ Hides(form) /\ Repays(form)
  BY OpenForm, InputsShown DEF EditCompanion
<1>2. CASE form \in Expenses
  <2>1. /\ f \in Expenses /\ f.own = form.own
        /\ f.type = form.type /\ f.repayment = form.repayment /\ f.sharing = form.sharing
    BY <1>2 DEF Expenses, Maybe
  <2>2. Repays(f)
    BY <1>1, <2>1 DEF Repays
  <2> QED BY <1>1, <1>2, <2>1, <2>2, WriteExpense, Edited DEF EditCompanion
<1>3. CASE form \in Incomes
  <2>1. f \in Incomes /\ f.own = form.own
    BY <1>3 DEF Incomes, Maybe
  <2> QED BY <1>1, <1>3, <2>1, WriteIncome, Edited DEF EditCompanion
<1> QED BY <1>1, <1>2, <1>3

LEMMA PickCurrencyKeeps ==
  ASSUME FormInv, NEW c \in Currencies, PickCurrency(c)
  PROVE  FormInv'
<1> DEFINE f == [form EXCEPT !.currency = c]
<1>1. form \in Expenses /\ Hides(form) /\ Repays(form)
  BY OpenForm, InputsShown DEF PickCurrency
<1>2. /\ f \in Expenses /\ f.own = form.own
      /\ f.type = form.type /\ f.repayment = form.repayment /\ f.sharing = form.sharing
  <2>1. c \in Maybe(Units)
    BY DEF Units, Maybe
  <2> QED BY <1>1, <2>1 DEF Expenses
<1>3. Repays(f)
  BY <1>1, <1>2 DEF Repays
<1> QED BY <1>1, <1>2, <1>3, WriteExpense, Edited DEF PickCurrency

LEMMA PickAccountKeeps ==
  ASSUME FormInv, NEW a \in Accounts, PickAccount(a)
  PROVE  FormInv'
<1>1. form \in Forms /\ Hides(form) /\ Repays(form)
  BY OpenForm
<1>2. CASE "account" \in Shown(form) /\ Edit([form EXCEPT !.account = a])
  <2> DEFINE f == [form EXCEPT !.account = a]
  <2>1. form \in Expenses \cup Incomes
    BY <1>1, <1>2, InputsShown
  <2>2. CASE form \in Expenses
    <3>1. /\ f \in Expenses /\ f.own = form.own /\ f.type = form.type
          /\ f.repayment = form.repayment /\ f.sharing = form.sharing
      BY <2>2 DEF Expenses, Maybe
    <3>2. Repays(f)
      BY <1>1, <3>1 DEF Repays
    <3> QED BY <1>1, <1>2, <2>2, <3>1, <3>2, WriteExpense, Edited
  <2>3. CASE form \in Incomes
    <3>1. f \in Incomes /\ f.own = form.own
      BY <2>3 DEF Incomes
    <3> QED BY <1>1, <1>2, <2>3, <3>1, WriteIncome, Edited
  <2> QED BY <2>1, <2>2, <2>3
<1>3. CASE "from" \in Shown(form) /\ Edit([form EXCEPT !.from = a])
  <2> DEFINE f == [form EXCEPT !.from = a]
  <2>1. form \in Transfers
    BY <1>1, <1>3, InputsShown
  <2>2. f \in Transfers /\ f.received = form.received
    BY <2>1 DEF Transfers
  <2> QED BY <1>1, <1>3, <2>1, <2>2, WriteTransfer, Edited
<1>4. CASE "to" \in Shown(form) /\ Edit([form EXCEPT !.to = a])
  <2> DEFINE f == [form EXCEPT !.to = a]
  <2>1. form \in Transfers
    BY <1>1, <1>4, InputsShown
  <2>2. f \in Transfers /\ f.received = form.received
    BY <2>1 DEF Transfers
  <2> QED BY <1>1, <1>4, <2>1, <2>2, WriteTransfer, Edited
<1> QED BY <1>2, <1>3, <1>4 DEF PickAccount

\* The account of a repayment is shown only where there is a repayment.
LEMMA PickRepaymentAccountKeeps ==
  ASSUME FormInv, NEW a \in Accounts, PickRepaymentAccount(a)
  PROVE  FormInv'
<1> DEFINE r == [form.repayment EXCEPT !.account = a]
           f == [form EXCEPT !.repayment = r]
<1>1. form \in Expenses /\ form.sharing = PAID_OTHER_REPAID /\ Hides(form) /\ Repays(form)
  BY OpenForm, InputsShown DEF PickRepaymentAccount
<1>2. form.repayment \in [account: Accounts, category: Categories]
  BY <1>1 DEF Repays, Expenses, Maybe
<1>3. r \in [account: Accounts, category: Categories]
  BY <1>2
<1>4. r \in Maybe([account: Accounts, category: Categories]) /\ r # None
  BY <1>3, FormAssumption DEF Maybe
<1> HIDE DEF r
<1>5. /\ f \in Expenses /\ f.own = form.own
      /\ f.repayment = r /\ f.sharing = form.sharing
  BY <1>1, <1>4 DEF Expenses
<1>6. Repays(f)
  BY <1>1, <1>4, <1>5 DEF Repays
<1>7. Edit(f)
  BY DEF PickRepaymentAccount, r
<1> QED BY <1>1, <1>5, <1>6, <1>7, WriteExpense, Edited

LEMMA PickCategoryKeeps ==
  ASSUME FormInv, NEW c \in Categories, PickCategory(c)
  PROVE  FormInv'
<1> DEFINE f == [form EXCEPT !.category = c]
<1>1. Good(f) /\ Follows(form, f)
  BY OpenForm, Recategorised DEF Good
<1> QED BY <1>1, Edited DEF PickCategory

LEMMA TypingKeeps == FormInv /\ Typing => FormInv'
BY InputsAssumption, EditAmountKeeps, EditSentKeeps, EditOwnShareKeeps,
   EditReceivedKeeps, EditVendorKeeps, EditIncomePayerKeeps, EditDescriptionKeeps,
   EditCompanionKeeps, EditPayerKeeps, PickCurrencyKeeps, PickAccountKeeps,
   PickRepaymentAccountKeeps, PickCategoryKeeps
   DEF Typing

-----------------------------------------------------------------------------
\* Sharing.

LEMMA Shared ==
  ASSUME FormInv, NEW f, Good(f), Follows(form, f), Share(f)
  PROVE  FormInv'
BY OpenForm, Rendered DEF Share

LEMMA SetPaidOtherKeeps ==
  ASSUME FormInv, NEW c \in Categories, SetPaidOther(c)
  PROVE  FormInv'
<1> DEFINE payer == IF draft = None THEN "" ELSE OrElse(draft.payer, "")
<1>1. form \in Expenses /\ Hides(form)
  BY OpenForm, Variants DEF SetPaidOther
<1>2. payer \in Texts
  <2>1. draft # None => draft.payer \in Maybe(Texts)
    BY OpenForm, DraftsAssumption DEF Maybe
  <2> QED BY <2>1 DEF OrElse, Maybe, Texts
<1> HIDE DEF payer
<1>3. CASE draft # None /\ draft.from # None
  <2> DEFINE r == [account |-> draft.from, category |-> c]
             f == [form EXCEPT !.sharing = PAID_OTHER_REPAID,
                     !.currency = UnitOf[draft.from],
                     !.amount = 2 * draft.amount, !.own = draft.amount,
                     !.repayment = r, !.payer = payer]
  <2>1. draft.amount \in Nat /\ draft.from \in Accounts
    BY <1>3, OpenForm, DraftsAssumption DEF Maybe
  <2>2. UnitOf[draft.from] \in Maybe(Units)
    BY <2>1 DEF Units, Maybe
  <2>3. 2 * draft.amount \in Inputs /\ draft.amount \in Inputs
    BY <2>1 DEF Inputs
  <2>4. r \in [account: Accounts, category: Categories]
    BY <2>1
  <2>5. r \in Maybe([account: Accounts, category: Categories]) /\ r # None
    BY <2>4, FormAssumption DEF Maybe
  <2> HIDE DEF r
  <2>6. f \in Expenses
    BY <1>1, <1>2, <2>2, <2>3, <2>5 DEF Expenses, PaidOther, Maybe
  <2>7. f.type = "EXPENSE" /\ f.repayment = r /\ f.sharing = PAID_OTHER_REPAID
    BY <1>1 DEF Expenses
  <2>8. Share(f)
    BY <1>3, Zenon DEF SetPaidOther, r, payer
  <2> HIDE DEF f
  <2>9. Repays(f) /\ IsShared(f)
    BY <2>5, <2>7 DEF Repays, IsShared, PAID_OTHER_REPAID, PAID_SELF_NOT_SHARED
  <2> QED BY <1>1, <2>6, <2>8, <2>9, WriteExpense, Shared
<1>4. CASE ~(draft # None /\ draft.from # None)
  <2> DEFINE f == [form EXCEPT !.sharing = PAID_OTHER_OWED,
                     !.currency = DisplayCurrency, !.payer = payer]
  <2>1. DisplayCurrency \in Maybe(Units)
    BY FormAssumption DEF Units, Maybe
  <2>2. f \in Expenses
    BY <1>1, <1>2, <2>1 DEF Expenses, PaidOther, Maybe
  <2>3. /\ f.type = "EXPENSE" /\ f.repayment = form.repayment
        /\ f.sharing = PAID_OTHER_OWED
    BY <1>1 DEF Expenses
  <2>4. Share(f) /\ form.sharing \in PaidSelf
    BY <1>4, Zenon DEF SetPaidOther, payer
  <2> HIDE DEF f
  <2>5. form.repayment = None
    BY <1>1, <2>4, OpenForm DEF Repays, Expenses, PaidSelf, PAID_SELF_SHARED,
         PAID_SELF_NOT_SHARED, PAID_OTHER_REPAID
  <2>6. Repays(f) /\ IsShared(f)
    BY <2>3, <2>5 DEF Repays, IsShared, PAID_OTHER_OWED, PAID_OTHER_REPAID,
         PAID_SELF_NOT_SHARED
  <2> QED BY <1>1, <2>2, <2>4, <2>6, WriteExpense, Shared
<1> QED BY <1>3, <1>4

LEMMA SetPaidSelfKeeps ==
  ASSUME FormInv, SetPaidSelf
  PROVE  FormInv'
<1> DEFINE f == [form EXCEPT !.sharing = PAID_SELF_NOT_SHARED,
                   !.account = OrElse(form.account, FirstAccount),
                   !.repayment = None, !.companion = None]
<1>1. form \in Expenses /\ Hides(form)
  BY OpenForm, Variants DEF SetPaidSelf
<1>2. OrElse(form.account, FirstAccount) \in Accounts
  BY <1>1, FormAssumption DEF Expenses, OrElse, Maybe
<1>3. /\ f \in Expenses /\ f.own = form.own
      /\ f.repayment = None /\ f.sharing = PAID_SELF_NOT_SHARED
  BY <1>1, <1>2 DEF Expenses, PaidSelf, Maybe
<1>4. Repays(f)
  BY <1>3 DEF Repays, PAID_SELF_NOT_SHARED, PAID_OTHER_REPAID
<1> QED BY <1>1, <1>3, <1>4, WriteExpense, Shared DEF SetPaidSelf

LEMMA SetAlreadyRepaidKeeps ==
  ASSUME FormInv, NEW c \in Categories, SetAlreadyRepaid(c)
  PROVE  FormInv'
<1> DEFINE r == [account |-> FirstAccount, category |-> c]
           f == [form EXCEPT !.sharing = PAID_OTHER_REPAID, !.repayment = r]
<1>1. form \in Expenses /\ Hides(form)
  BY OpenForm, Variants DEF SetAlreadyRepaid
<1>2. r \in [account: Accounts, category: Categories]
  BY FormAssumption
<1>3. r \in Maybe([account: Accounts, category: Categories]) /\ r # None
  BY <1>2, FormAssumption DEF Maybe
<1>4. Share(f)
  BY DEF SetAlreadyRepaid
<1> HIDE DEF r
<1>5. /\ f \in Expenses /\ f.own = form.own
      /\ f.repayment = r /\ f.sharing = PAID_OTHER_REPAID
  BY <1>1, <1>3 DEF Expenses, PaidOther
<1>6. Repays(f)
  BY <1>3, <1>5 DEF Repays
<1> QED BY <1>1, <1>4, <1>5, <1>6, WriteExpense, Shared

LEMMA SetOweMoneyKeeps ==
  ASSUME FormInv, SetOweMoney
  PROVE  FormInv'
<1> DEFINE f == [form EXCEPT !.sharing = PAID_OTHER_OWED,
                   !.account = None, !.repayment = None]
<1>1. form \in Expenses /\ Hides(form)
  BY OpenForm, Variants DEF SetOweMoney
<1>2. /\ f \in Expenses /\ f.own = form.own
      /\ f.repayment = None /\ f.sharing = PAID_OTHER_OWED
  BY <1>1 DEF Expenses, PaidOther, Maybe
<1>3. Repays(f)
  BY <1>2 DEF Repays, PAID_OTHER_OWED, PAID_OTHER_REPAID
<1> QED BY <1>1, <1>2, <1>3, WriteExpense, Shared DEF SetOweMoney

LEMMA ToggleSplitTransactionKeeps ==
  ASSUME FormInv, ToggleSplitTransaction
  PROVE  FormInv'
<1> DEFINE companion == IF draft = None THEN "" ELSE OrElse(draft.companion, "")
<1>1. form \in Expenses /\ Hides(form) /\ form.sharing \in PaidSelf
  BY OpenForm, Variants DEF ToggleSplitTransaction
<1>2. form.repayment = None
  BY <1>1, OpenForm DEF Repays, Expenses, PaidSelf, PAID_SELF_SHARED,
       PAID_SELF_NOT_SHARED, PAID_OTHER_REPAID
<1>3. companion \in Texts
  <2>1. draft # None => draft.companion \in Maybe(Texts)
    BY OpenForm, DraftsAssumption DEF Maybe
  <2> QED BY <2>1 DEF OrElse, Maybe, Texts
<1>4. CASE form.sharing = PAID_SELF_SHARED
  <2> DEFINE f == [form EXCEPT !.sharing = PAID_SELF_NOT_SHARED, !.companion = None]
  <2>1. /\ f \in Expenses /\ f.own = form.own
        /\ f.repayment = form.repayment /\ f.sharing = PAID_SELF_NOT_SHARED
    BY <1>1 DEF Expenses, PaidSelf, Maybe
  <2>2. Repays(f)
    BY <1>2, <2>1 DEF Repays, PAID_SELF_NOT_SHARED, PAID_OTHER_REPAID
  <2>3. Share(f)
    BY <1>4 DEF ToggleSplitTransaction
  <2> QED BY <1>1, <2>1, <2>2, <2>3, WriteExpense, Shared
<1>5. CASE form.sharing # PAID_SELF_SHARED
  <2> DEFINE f == [form EXCEPT !.sharing = PAID_SELF_SHARED, !.companion = companion]
  <2>1. Share(f)
    BY <1>5 DEF ToggleSplitTransaction
  <2> HIDE DEF companion
  <2>2. /\ f \in Expenses /\ f.own = form.own
        /\ f.repayment = form.repayment /\ f.sharing = PAID_SELF_SHARED
    BY <1>1, <1>3 DEF Expenses, PaidSelf, Maybe
  <2>3. Repays(f)
    BY <1>2, <2>2 DEF Repays, PAID_SELF_SHARED, PAID_OTHER_REPAID
  <2> QED BY <1>1, <2>1, <2>2, <2>3, WriteExpense, Shared
<1> QED BY <1>4, <1>5

LEMMA ToggleIncomeSplitKeeps ==
  ASSUME FormInv, ToggleIncomeSplit
  PROVE  FormInv'
<1> DEFINE split == ~form.isShared
           f == [form EXCEPT !.isShared = split]
<1>1. form \in Incomes /\ Hides(form)
  BY OpenForm, Variants DEF ToggleIncomeSplit
<1>2. split \in BOOLEAN
  OBVIOUS
<1>3. Share(f)
  BY DEF ToggleIncomeSplit
<1> HIDE DEF split
<1>4. f \in Incomes /\ f.own = form.own
  BY <1>1, <1>2 DEF Incomes
<1> QED BY <1>1, <1>3, <1>4, WriteIncome, Shared

LEMMA SharingKeeps == FormInv /\ Sharing => FormInv'
<1>1. FormInv => Captured \subseteq Categories
  BY DEF FormInv, TypeOK, Captured, Forms, Expenses, Incomes, Transfers
<1> QED BY <1>1, SetPaidOtherKeeps, SetAlreadyRepaidKeeps, SetPaidSelfKeeps,
      SetOweMoneyKeeps, ToggleSplitTransactionKeeps, ToggleIncomeSplitKeeps DEF Sharing

-----------------------------------------------------------------------------
\* Opening, suggestions, variants and saves.

LEMMA OpenNewKeeps == FormInv /\ OpenNew => FormInv'
BY EmptyIsGood, Mounted DEF OpenNew

LEMMA OpenEditKeeps ==
  ASSUME FormInv, NEW t \in Transactions, OpenEdit(t)
  PROVE  FormInv'
BY FilledByTransaction, Mounted DEF OpenEdit

LEMMA PickSuggestionKeeps ==
  ASSUME FormInv, NEW d \in Drafts, PickSuggestion(d)
  PROVE  FormInv'
<1>1. Good(ValuesForDraft(d)) /\ Hides(ValuesForDraft(d))
  BY FilledByDraft
<1>2. draft' = d /\ Render(ValuesForDraft(d)) /\ open' = open /\ sending' = sending
  BY DEF PickSuggestion, OnDraftChange
<1>3. draft' \in Maybe(Drafts)
  BY <1>2 DEF Maybe
<1> QED BY <1>1, <1>2, <1>3, Rendered

LEMMA OnFormTypeChangeKeeps ==
  ASSUME FormInv, NEW type \in Types, OnFormTypeChange(type)
  PROVE  FormInv'
<1>1. Good(form) /\ type # form.type
  BY DEF FormInv, OnFormTypeChange
<1>2. Good(ValuesForNewType(form, type)) /\ ValuesForNewType(form, type).type # form.type
  BY <1>1, Switched
<1>3. /\ Render(ValuesForNewType(form, type)) /\ open' = open /\ sending' = sending
      /\ draft' \in Maybe(Drafts)
  BY OpenForm DEF OnFormTypeChange
<1> QED BY <1>2, <1>3, Rendered

LEMMA OnSubmitKeeps == FormInv /\ OnSubmit => FormInv'
<1> SUFFICES ASSUME FormInv, OnSubmit PROVE FormInv'
  OBVIOUS
<1>1. AccountToKeep(form) \in Maybe(Accounts) /\ form.category \in Categories
  BY OpenForm DEF AccountToKeep, Forms, Expenses, Incomes, Transfers, Maybe
<1>2. sending'.account = AccountToKeep(form)
  BY DEF OnSubmit
<1>3. TypeOK'
  BY <1>1, <1>2 DEF FormInv, TypeOK, OnSubmit
<1>4. Good(form') /\ Hides(form')
  BY DEF FormInv, OnSubmit
<1> QED BY <1>3, <1>4 DEF FormInv

LEMMA SavedNewKeeps == FormInv /\ SavedNew => FormInv'
<1> SUFFICES ASSUME FormInv, SavedNew PROVE FormInv'
  OBVIOUS
<1> DEFINE empty == [ExpenseFormEmpty EXCEPT !.account = sending.account]
           mounted == form.type # "EXPENSE"
           settled == Settle(form, empty, mounted, TRUE)
           category == UpdateCategoryOnChange(empty, empty, TRUE, TRUE)
<1>1. form' = [settled EXCEPT !.category = category] /\ seen' = empty.category
  BY DEF SavedNew
<1>2. Good(empty) /\ Hides(empty)
  BY EmptyForm DEF FormInv, TypeOK, SavedNew
<1> HIDE DEF empty, mounted
<1>3. category \in Categories /\ empty.category \in Categories
  BY <1>2, CategorySettles DEF Good, Forms, Expenses, Incomes, Transfers
<1>4. Good(settled) /\ Hides(settled)
  BY <1>2, SettleGood, SettleHides
<1> HIDE DEF settled, category
<1>5. Good(form') /\ Hides(form')
  BY <1>1, <1>3, <1>4, Recategorised
<1>6. TypeOK'
  BY <1>1, <1>3, <1>5 DEF FormInv, TypeOK, SavedNew, Good, Maybe
<1> QED BY <1>5, <1>6 DEF FormInv

LEMMA SaveFailedKeeps == FormInv /\ SaveFailed => FormInv'
<1> SUFFICES ASSUME FormInv, SaveFailed PROVE FormInv'
  OBVIOUS
<1>1. form.category \in Categories
  BY OpenForm DEF Forms, Expenses, Incomes, Transfers
<1>2. TypeOK'
  BY <1>1 DEF FormInv, TypeOK, SaveFailed
<1>3. Good(form') /\ Hides(form')
  BY DEF FormInv, SaveFailed
<1> QED BY <1>2, <1>3 DEF FormInv

LEMMA SavingKeeps == FormInv /\ Saving => FormInv'
BY OnSubmitKeeps, SavedNewKeeps, Unmounted, SaveFailedKeeps DEF Saving, SavedEdit

-----------------------------------------------------------------------------
\* The theorems.

LEMMA FormNext == FormInv /\ [Next]_vars => FormInv'
<1> SUFFICES ASSUME FormInv, [Next]_vars PROVE FormInv'
  OBVIOUS
<1>1. CASE OpenNew \/ Close
  BY <1>1, OpenNewKeeps, Unmounted DEF Close
<1>2. CASE \E t \in Transactions : OpenEdit(t)
  BY <1>2, OpenEditKeeps
<1>3. CASE \E d \in Drafts : PickSuggestion(d)
  BY <1>3, PickSuggestionKeeps
<1>4. CASE \E type \in Types : OnFormTypeChange(type)
  BY <1>4, OnFormTypeChangeKeeps
<1>5. CASE Typing \/ Sharing \/ Saving
  BY <1>5, TypingKeeps, SharingKeeps, SavingKeeps
<1>6. CASE UNCHANGED vars
  BY <1>6 DEF vars, FormInv, TypeOK, Good, Repays, Hides
<1> QED BY <1>1, <1>2, <1>3, <1>4, <1>5, <1>6 DEF Next

\* The values of the form are well typed, its repayment details come and go
\* with its sharing, and its hidden amount is the one it follows, through
\* every order of events.
THEOREM FormInvariant == Spec => []FormInv
<1>1. Init => FormInv
  BY EmptyIsGood, FormAssumption DEF Init, FormInv, TypeOK, Good, Maybe
<1> QED BY <1>1, FormNext, PTL DEF Spec

\* An expense holds repayment details exactly while it is one that was
\* repaid, whatever toggles, switches, suggestions and answers came before.
THEOREM RepaymentsComeAndGo == Spec => []RepaymentIffRepaid
<1>1. FormInv => RepaymentIffRepaid
  BY DEF FormInv, Good, Repays, RepaymentIffRepaid
<1> QED BY <1>1, FormInvariant, PTL

\* The own share of what is not split is all of it, and a transfer between
\* accounts of one unit receives what was sent: the effects of the form keep
\* this whatever set the amount.
THEOREM HiddenAmountsAlwaysFollow == Spec => []HiddenAmountsFollow
<1>1. FormInv => HiddenAmountsFollow
  BY DEF FormInv, Hides, HiddenAmountsFollow
<1> QED BY <1>1, FormInvariant, PTL

LEMMA MistypedInputs ==
  ASSUME NEW f, NEW S, DOMAIN f \cap {"amount", "own", "sent", "received"} = S
  PROVE  \A x : x \in Mistyped(f) <=> x \in S /\ f[x] = Garbled
BY DEF Mistyped

\* Where an issue comes from.
LEMMA IssueKinds ==
  ASSUME NEW f, NEW issue \in Issues(f)
  PROVE  \/ issue \in Mistyped(f)
         \/ issue \in FieldIssues(f)
         \/ issue \in Refinements(f) /\ Mistyped(f) = {}
BY DEF Issues

\* The own share of what is not split is refused only with the amount.
LEMMA OwnShareIssue ==
  ASSUME NEW f \in Expenses \cup Incomes, Hides(f), ~IsShared(f)
  PROVE  /\ f.own # Garbled
         /\ "own" \in Negative(f) => "amount" \in Negative(f)
         /\ Mistyped(f) = {} => ~(f.own > f.amount)
<1>1. f.own = SafeAmount(f) /\ SafeAmount(f) \in Int /\ f.amount \in Inputs
  <2>1. f.type # "TRANSFER"
    BY DEF Expenses, Incomes
  <2> QED BY <2>1, SharesAreAmounts DEF Hides
<1>2. f.own # Garbled
  BY <1>1, FormAssumption, Zenon
<1>3. \A x : x \in Mistyped(f) <=> x \in {"amount", "own"} /\ f[x] = Garbled
  <2>1. DOMAIN f \cap {"amount", "own", "sent", "received"} = {"amount", "own"}
    BY DEF Expenses, Incomes
  <2> QED BY <2>1, MistypedInputs
<1>4. CASE f.amount = Garbled
  <2>1. f.own = 0
    BY <1>1, <1>4 DEF SafeAmount
  <2>2. "amount" \in Mistyped(f)
    BY <1>3, <1>4
  <2> QED BY <1>2, <2>1, <2>2 DEF Negative
<1>5. CASE f.amount # Garbled
  <2>1. f.own = f.amount /\ f.amount \in Int
    BY <1>1, <1>5 DEF SafeAmount
  <2>2. "amount" \notin Mistyped(f)
    BY <1>3, <1>5
  <2> QED BY <1>2, <2>1, <2>2 DEF Negative
<1> QED BY <1>4, <1>5

\* What validation says of a field is said of one that is shown, or of the
\* shown amount that the field copies, too.
LEMMA IssuesAreShown ==
  ASSUME NEW f \in Forms, Hides(f), NEW issue \in Issues(f)
  PROVE  \/ issue \in Shown(f)
         \/ issue = "own" /\ "amount" \in Issues(f) \cap Shown(f)
         \/ issue = "received" /\ "sent" \in Issues(f) \cap Shown(f)
<1>1. CASE f \in Expenses
  <2>1. /\ f.type = "EXPENSE" /\ f.sharing \in PaidSelf \cup PaidOther
        /\ DOMAIN f \cap {"amount", "own", "sent", "received"} = {"amount", "own"}
    BY <1>1 DEF Expenses
  <2>2. Shown(f) = ExpenseShows(f)
    BY <2>1 DEF Shown
  <2>3. {"amount", "vendor"} \subseteq Shown(f) /\ (IsShared(f) => "own" \in Shown(f))
    BY <2>2 DEF ExpenseShows, When
  <2>4. FieldIssues(f) = Negative(f) \cup When(f.vendor = "", "vendor")
    BY <2>1 DEF FieldIssues
  <2>5. CASE issue \in Mistyped(f)
    <3>1. issue = "amount" \/ (issue = "own" /\ f.own = Garbled)
      BY <2>1, <2>5, MistypedInputs
    <3> QED BY <1>1, <2>3, <3>1, OwnShareIssue
  <2>6. CASE issue \in FieldIssues(f)
    <3>1. issue \in {"amount", "vendor"} \/ (issue = "own" /\ "own" \in Negative(f))
      BY <2>4, <2>6 DEF Negative, When
    <3>2. Negative(f) \subseteq Issues(f)
      BY <2>4 DEF Issues
    <3> QED BY <1>1, <2>3, <3>1, <3>2, OwnShareIssue
  <2>7. CASE issue \in Refinements(f) /\ Mistyped(f) = {}
    <3>1. issue \in ExpenseIssues(f)
      BY <2>1, <2>7 DEF Refinements
    <3>2. f.own > f.amount => IsShared(f)
      BY <1>1, <2>7, OwnShareIssue
    <3>3. f.sharing \in PaidOther => f.sharing \notin PaidSelf
      BY DEF PaidSelf, PaidOther, PAID_SELF_SHARED, PAID_SELF_NOT_SHARED,
           PAID_OTHER_OWED, PAID_OTHER_REPAID
    <3>4. \/ issue = "own" /\ IsShared(f)
          \/ issue = "account" /\ f.sharing \in PaidSelf
          \/ issue = "companion" /\ f.sharing = PAID_SELF_SHARED
          \/ issue \in {"payer", "currency"} /\ f.sharing \in PaidOther
          \/ issue = "repayment" /\ f.sharing = PAID_OTHER_REPAID
      BY <3>1, <3>2 DEF ExpenseIssues, When
    <3> QED BY <2>2, <3>3, <3>4 DEF ExpenseShows, When
  <2> QED BY <2>5, <2>6, <2>7, IssueKinds
<1>2. CASE f \in Incomes
  <2>1. /\ f.type = "INCOME"
        /\ DOMAIN f \cap {"amount", "own", "sent", "received"} = {"amount", "own"}
    BY <1>2 DEF Incomes
  <2>2. Shown(f) = IncomeShows(f) /\ (IsShared(f) <=> f.isShared)
    BY <1>2 DEF Shown, Incomes, IsShared
  <2>3. {"amount", "payer"} \subseteq Shown(f) /\ (IsShared(f) => "own" \in Shown(f))
    BY <2>2 DEF IncomeShows
  <2>4. FieldIssues(f) = Negative(f) \cup When(f.payer = "", "payer")
    BY <2>1 DEF FieldIssues
  <2>5. CASE issue \in Mistyped(f)
    <3>1. issue = "amount" \/ (issue = "own" /\ f.own = Garbled)
      BY <2>1, <2>5, MistypedInputs
    <3> QED BY <1>2, <2>3, <3>1, OwnShareIssue
  <2>6. CASE issue \in FieldIssues(f)
    <3>1. issue \in {"amount", "payer"} \/ (issue = "own" /\ "own" \in Negative(f))
      BY <2>4, <2>6 DEF Negative, When
    <3>2. Negative(f) \subseteq Issues(f)
      BY <2>4 DEF Issues
    <3> QED BY <1>2, <2>3, <3>1, <3>2, OwnShareIssue
  <2>7. CASE issue \in Refinements(f) /\ Mistyped(f) = {}
    <3>1. issue \in IncomeIssues(f)
      BY <2>1, <2>7 DEF Refinements
    <3>2. f.own > f.amount => IsShared(f)
      BY <1>2, <2>7, OwnShareIssue
    <3> QED BY <2>2, <3>1, <3>2 DEF IncomeIssues, IncomeShows, When
  <2> QED BY <2>5, <2>6, <2>7, IssueKinds
<1>3. CASE f \in Transfers
  <2>1. /\ f.type = "TRANSFER"
        /\ DOMAIN f \cap {"amount", "own", "sent", "received"} = {"sent", "received"}
    BY <1>3 DEF Transfers
  <2>2. Shown(f) = TransferShows(f)
    BY <2>1 DEF Shown
  <2>3. "received" \in Shown(f) \/ f.received = f.sent
    BY <2>1, <2>2 DEF Hides, TransferShows, When, SameUnit
  <2>4. {"sent", "to"} \subseteq Shown(f)
    BY <2>2 DEF TransferShows
  <2>5. \A x : x \in Mistyped(f) <=> x \in {"sent", "received"} /\ f[x] = Garbled
    BY <2>1, MistypedInputs
  <2>6. FieldIssues(f) = NotPositive(f) /\ Refinements(f) = TransferIssues(f)
    BY <2>1 DEF FieldIssues, Refinements
  <2>7. issue \in {"sent", "to"}
        \/ (issue = "received" /\ issue \in Mistyped(f) \cup NotPositive(f))
    BY <2>5, <2>6, IssueKinds DEF NotPositive, TransferIssues, When
  <2>8. f.received = f.sent /\ "received" \in Mistyped(f) \cup NotPositive(f)
          => "sent" \in Mistyped(f) \cup NotPositive(f)
    BY <2>5 DEF NotPositive
  <2>9. Mistyped(f) \cup NotPositive(f) \subseteq Issues(f)
    BY <2>6 DEF Issues
  <2> QED BY <2>3, <2>4, <2>7, <2>8, <2>9
<1> QED BY <1>1, <1>2, <1>3 DEF Forms

\* Validation never stops a save for hidden fields alone: an issue is one of
\* a field the form shows, or of a hidden copy of a shown amount that has an
\* issue, too.
THEOREM HiddenFieldsNeverBlock == Spec => []NoHiddenIssue
<1>1. FormInv => NoHiddenIssue
  BY IssuesAreShown DEF FormInv, Good, NoHiddenIssue
<1> QED BY <1>1, FormInvariant, PTL

-----------------------------------------------------------------------------
\* The category while a recorded transaction is edited.

HasCategory(f, c) ==
  f = [x \in DOMAIN f |-> f[x]] /\ "category" \in DOMAIN f /\ f.category = c

LEMMA FormHasCategory ==
  ASSUME NEW f \in Forms
  PROVE  HasCategory(f, f.category)
BY DEF Forms, Expenses, Incomes, Transfers, HasCategory

LEMMA WrittenHasCategory ==
  ASSUME NEW f, NEW c, HasCategory(f, c), NEW field, field # "category", NEW v
  PROVE  HasCategory([f EXCEPT ![field] = v], c)
BY DEF HasCategory

LEMMA SettledHasCategory ==
  ASSUME NEW old, NEW new, NEW c, HasCategory(new, c), NEW mounted
  PROVE  Settle(old, new, mounted, FALSE).category = c
<1> DEFINE g == [new EXCEPT !.category = new.category]
           own == UpdateOwnShareOnAmountChange(old, new, mounted)
           received == UpdateReceivedAmountOnAmountChange(old, new, mounted)
<1>1. UpdateCategoryOnChange(old, new, mounted, FALSE) = new.category
  BY DEF UpdateCategoryOnChange
<1>2. Settle(old, new, mounted, FALSE) =
        IF new.type = "TRANSFER" THEN [g EXCEPT !.received = received]
                                 ELSE [g EXCEPT !.own = own]
  BY <1>1 DEF Settle
<1>3. HasCategory(g, c)
  BY DEF HasCategory
<1> HIDE DEF g, own, received
<1>4. /\ HasCategory([g EXCEPT !.received = received], c)
      /\ HasCategory([g EXCEPT !.own = own], c)
  BY <1>3, WrittenHasCategory
<1> QED BY <1>2, <1>4 DEF HasCategory

LEMMA EditKeeps ==
  ASSUME ~Creating, NEW f, HasCategory(f, form.category), Edit(f)
  PROVE  form'.category = form.category
<1>1. Creating = FALSE
  BY DEF Creating
<1> QED BY <1>1, SettledHasCategory DEF Edit

LEMMA RenderKeeps ==
  ASSUME ~Creating, NEW f, HasCategory(f, form.category), Render(f)
  PROVE  form'.category = form.category
<1> DEFINE mounted == f.type # form.type
<1>1. Creating = FALSE
  BY DEF Creating
<1>2. form' = Settle(form, f, mounted, FALSE)
  BY <1>1 DEF Render
<1> HIDE DEF mounted
<1> QED BY <1>2, SettledHasCategory

LEMMA TypingPicks ==
  ASSUME form \in Forms, ~Creating, Typing
  PROVE  form'.category = form.category \/ \E c \in Categories : PickCategory(c)
<1>1. HasCategory(form, form.category)
  BY FormHasCategory
<1>2. \A field, v : field # "category" =>
        HasCategory([form EXCEPT ![field] = v], form.category)
  BY <1>1, WrittenHasCategory
<1>3. ASSUME NEW a, EditAmount(a) \/ EditSent(a) \/ EditOwnShare(a) \/ EditReceived(a)
      PROVE  form'.category = form.category
  BY <1>2, <1>3, EditKeeps DEF EditAmount, EditSent, EditOwnShare, EditReceived
<1>4. ASSUME NEW n, EditVendor(n) \/ EditIncomePayer(n) \/ EditDescription(n)
                    \/ EditCompanion(n) \/ EditPayer(n)
      PROVE  form'.category = form.category
  BY <1>2, <1>4, EditKeeps
     DEF EditVendor, EditIncomePayer, EditDescription, EditCompanion, EditPayer
<1>5. ASSUME NEW c, PickCurrency(c) PROVE form'.category = form.category
  BY <1>2, <1>5, EditKeeps DEF PickCurrency
<1>6. ASSUME NEW a, PickAccount(a) PROVE form'.category = form.category
  BY <1>2, <1>6, EditKeeps DEF PickAccount
<1>7. ASSUME NEW a, PickRepaymentAccount(a) PROVE form'.category = form.category
  BY <1>2, <1>7, EditKeeps DEF PickRepaymentAccount
<1> QED BY <1>3, <1>4, <1>5, <1>6, <1>7 DEF Typing

LEMMA SharingKeepsCategory ==
  ASSUME form \in Forms, ~Creating, Sharing
  PROVE  form'.category = form.category
<1>1. \A f, field, v : HasCategory(f, form.category) /\ field # "category" =>
        HasCategory([f EXCEPT ![field] = v], form.category)
  BY WrittenHasCategory
<1>2. HasCategory(form, form.category)
  BY FormHasCategory
<1>3. ASSUME NEW f, HasCategory(f, form.category), Share(f)
      PROVE  form'.category = form.category
  BY <1>3, RenderKeeps DEF Share
<1>4. ASSUME NEW c, SetPaidOther(c) PROVE form'.category = form.category
  BY <1>1, <1>2, <1>3, <1>4 DEF SetPaidOther
<1>5. ASSUME NEW c, SetAlreadyRepaid(c) PROVE form'.category = form.category
  BY <1>1, <1>2, <1>3, <1>5 DEF SetAlreadyRepaid
<1>6. CASE SetPaidSelf \/ SetOweMoney
  BY <1>1, <1>2, <1>3, <1>6 DEF SetPaidSelf, SetOweMoney
<1>7. CASE ToggleSplitTransaction
  BY <1>1, <1>2, <1>3, <1>7 DEF ToggleSplitTransaction
<1>8. CASE ToggleIncomeSplit
  BY <1>1, <1>2, <1>3, <1>8 DEF ToggleIncomeSplit
<1> QED BY <1>4, <1>5, <1>6, <1>7, <1>8 DEF Sharing

\* While a recorded transaction is edited, no effect of typing, toggling or
\* switching the variant changes its category: only its user does.
THEOREM EditsNeverRecategorise == Spec => EditKeepsCategory
<1> DEFINE Kept == (open \in Transactions /\ open' = open /\ form'.category # form.category)
                     => \E c \in Categories : PickCategory(c)
<1>1. FormInv /\ [Next]_vars => [Kept]_vars
  <2> SUFFICES ASSUME FormInv, Next, open \in Transactions, open' = open,
                      form'.category # form.category
               PROVE  \E c \in Categories : PickCategory(c)
    OBVIOUS
  <2>1. form \in Forms /\ ~Creating /\ open # None
    BY OpenForm, InputsAssumption DEF Creating
  <2>2. ~(OpenNew \/ Close) /\ ~\E t \in Transactions : OpenEdit(t)
    BY <2>1 DEF OpenNew, OpenEdit, Close, Unmount
  <2>3. ~\E d \in Drafts : PickSuggestion(d)
    BY <2>1 DEF PickSuggestion
  <2>4. ~\E type \in Types : OnFormTypeChange(type)
    <3> SUFFICES ASSUME NEW type \in Types, OnFormTypeChange(type) PROVE FALSE
      OBVIOUS
    <3> DEFINE f == ValuesForNewType(form, type)
    <3>1. Render(f) /\ type # form.type
      BY DEF OnFormTypeChange
    <3>2. f \in Forms /\ f.category = form.category
      BY <3>1, Switched DEF FormInv, Good
    <3>3. HasCategory(f, form.category)
      BY <3>2, FormHasCategory
    <3> HIDE DEF f
    <3> QED BY <2>1, <3>1, <3>3, RenderKeeps
  <2>5. ~Sharing
    BY <2>1, SharingKeepsCategory
  <2>6. ~Saving
    BY <2>1 DEF Saving, OnSubmit, SavedNew, SavedEdit, SaveFailed, Unmount
  <2>7. Typing
    BY <2>2, <2>3, <2>4, <2>5, <2>6 DEF Next
  <2> QED BY <2>1, <2>7, TypingPicks
<1>2. EditKeepsCategory <=> [][Kept]_vars
  BY PTL DEF EditKeepsCategory
<1> QED BY <1>1, <1>2, FormInvariant, PTL DEF Spec
=============================================================================
