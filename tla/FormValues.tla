----------------------------- MODULE FormValues -----------------------------
(***************************************************************************)
(* The values of the transaction form (src/frontend/components/txform):    *)
(* what each of its three variants holds, how a variant is filled from a   *)
(* recorded transaction, from a suggested draft and from another variant,  *)
(* which fields a variant shows and what validation says of it.            *)
(*                                                                         *)
(* A name (vendor, payer, companion, note) is None, the empty string or a  *)
(* member of Names; amounts are cents, of either sign as the inputs are    *)
(* free text, Garbled is what the user types that is not a number; dates,  *)
(* tags and trips are left out.                                            *)
(***************************************************************************)
EXTENDS Integers

CONSTANTS
    None,           \* null
    Garbled,        \* an amount input that does not parse
    Accounts,       \* bank accounts
    FirstAccount,   \* the first one the user sees
    UnitOf,         \* [Accounts -> units]
    Currencies,     \* all the currencies there are
    DisplayCurrency,
    Categories,
    FirstCategory,
    Names           \* non-empty names

PAID_SELF_NOT_SHARED == "PAID_SELF_NOT_SHARED"
PAID_SELF_SHARED     == "PAID_SELF_SHARED"
PAID_OTHER_OWED      == "PAID_OTHER_OWED"
PAID_OTHER_REPAID    == "PAID_OTHER_REPAID"
PaidSelf  == {PAID_SELF_NOT_SHARED, PAID_SELF_SHARED}
PaidOther == {PAID_OTHER_OWED, PAID_OTHER_REPAID}

(***************************************************************************)
(* null is none of the values it stands for the lack of, and what does not *)
(* parse is not a number.                                                  *)
(***************************************************************************)
ASSUME FormAssumption ==
    /\ FirstAccount \in Accounts
    /\ FirstCategory \in Categories
    /\ DOMAIN UnitOf = Accounts
    /\ DisplayCurrency \in Currencies
    /\ None \notin Accounts \cup Categories \cup Currencies \cup Names \cup {""}
    /\ None \notin PaidSelf \cup PaidOther
    /\ None \notin [account: Accounts, category: Categories]
    /\ Garbled \notin Int

Units    == {UnitOf[a] : a \in Accounts} \cup Currencies
Inputs   == Int \cup {Garbled}
Texts    == Names \cup {""}
Maybe(S) == S \cup {None}

Expenses ==
    [type: {"EXPENSE"}, amount: Inputs, own: Inputs, vendor: Texts,
     category: Categories, account: Maybe(Accounts), companion: Maybe(Texts),
     payer: Maybe(Texts), currency: Maybe(Units),
     sharing: PaidSelf \cup PaidOther,
     repayment: Maybe([account: Accounts, category: Categories])]
Incomes ==
    [type: {"INCOME"}, amount: Inputs, own: Inputs, payer: Texts,
     category: Categories, account: Accounts, companion: Maybe(Texts),
     isShared: BOOLEAN]
Transfers ==
    [type: {"TRANSFER"}, sent: Inputs, received: Inputs, from: Accounts,
     to: Accounts, description: Maybe(Texts), category: Categories]
Forms == Expenses \cup Incomes \cup Transfers

(***************************************************************************)
(* Shared by an expense and an income: whether the amount is split.        *)
(***************************************************************************)
IsShared(f) == CASE f.type = "EXPENSE" -> f.sharing # PAID_SELF_NOT_SHARED
                 [] f.type = "INCOME"  -> f.isShared
                 [] OTHER              -> FALSE

OrElse(v, default) == IF v = None THEN default ELSE v

-----------------------------------------------------------------------------
(* Filling a variant *)

ExpenseFormEmpty ==
    [type |-> "EXPENSE", amount |-> 0, own |-> 0, vendor |-> "",
     category |-> FirstCategory, account |-> FirstAccount, companion |-> None,
     payer |-> None, currency |-> None, sharing |-> PAID_SELF_NOT_SHARED,
     repayment |-> None]

(***************************************************************************)
(* A draft's fields are the winners of their candidates: None where the    *)
(* backend proposes nothing.                                               *)
(***************************************************************************)
ExpenseFromDraft(d) ==
    LET sharing   == OrElse(d.sharing, PAID_SELF_NOT_SHARED)
        account   == OrElse(d.from, FirstAccount)
        category  == OrElse(d.category, FirstCategory)
        paidOther == sharing \in PaidOther
    IN [type |-> "EXPENSE", amount |-> d.amount,
        own |-> OrElse(d.own, d.amount), vendor |-> OrElse(d.vendor, ""),
        category |-> category,
        account |-> IF paidOther THEN None ELSE account,
        companion |-> IF sharing = PAID_SELF_SHARED THEN d.companion ELSE None,
        payer |-> IF paidOther THEN d.payer ELSE None,
        currency |-> IF paidOther THEN d.currency ELSE None,
        sharing |-> sharing,
        repayment |-> IF sharing = PAID_OTHER_REPAID
                      THEN [account |-> account, category |-> category]
                      ELSE None]

IncomeFromDraft(d) ==
    LET shared == d.sharing = PAID_SELF_SHARED
    IN [type |-> "INCOME", amount |-> d.amount, own |-> OrElse(d.own, d.amount),
        payer |-> OrElse(d.payer, ""),
        category |-> OrElse(d.category, FirstCategory),
        account |-> OrElse(d.to, FirstAccount),
        companion |-> IF shared THEN d.companion ELSE None,
        isShared |-> shared]

TransferFromDraft(d) ==
    [type |-> "TRANSFER", sent |-> d.amount,
     received |-> OrElse(d.received, d.amount),
     from |-> OrElse(d.from, FirstAccount), to |-> OrElse(d.to, FirstAccount),
     description |-> d.description,
     category |-> OrElse(d.category, FirstCategory)]

ValuesForDraft(d) == CASE d.type = "INCOME"   -> IncomeFromDraft(d)
                       [] d.type = "TRANSFER" -> TransferFromDraft(d)
                       [] OTHER               -> ExpenseFromDraft(d)

ExpenseFromTransaction(t) ==
    [type |-> "EXPENSE", amount |-> t.amount, own |-> t.own,
     vendor |-> t.name, category |-> t.category,
     companion |-> t.companion,
     account   |-> IF t.kind = "ThirdPartyExpense" THEN None ELSE t.account,
     payer     |-> IF t.kind = "ThirdPartyExpense" THEN t.payer ELSE None,
     currency  |-> IF t.kind = "ThirdPartyExpense" THEN t.currency ELSE None,
     repayment |-> t.repayment,
     sharing   |->
        CASE t.kind = "ThirdPartyExpense" ->
                IF t.repayment # None THEN PAID_OTHER_REPAID ELSE PAID_OTHER_OWED
          [] OTHER ->
                IF t.companion # None THEN PAID_SELF_SHARED
                                      ELSE PAID_SELF_NOT_SHARED]

IncomeFromTransaction(t) ==
    [type |-> "INCOME", amount |-> t.amount, own |-> t.own, payer |-> t.name,
     category |-> t.category, account |-> t.account, companion |-> t.companion,
     isShared |-> t.companion # None]

TransferFromTransaction(t) ==
    [type |-> "TRANSFER", sent |-> t.amount, received |-> t.received,
     from |-> t.account, to |-> t.to, description |-> t.name,
     category |-> t.category]

ValuesForTransaction(t) == CASE t.kind = "Income"   -> IncomeFromTransaction(t)
                             [] t.kind = "Transfer" -> TransferFromTransaction(t)
                             [] OTHER               -> ExpenseFromTransaction(t)

-----------------------------------------------------------------------------
(* Switching the variant *)

ExpenseToIncome(f) ==
    [type |-> "INCOME", amount |-> f.amount, own |-> f.own, payer |-> f.vendor,
     category |-> f.category, account |-> OrElse(f.account, FirstAccount),
     companion |-> f.companion, isShared |-> IsShared(f)]

TransferToIncome(f) ==
    [type |-> "INCOME", amount |-> f.sent, own |-> f.sent,
     payer |-> OrElse(f.description, ""), category |-> f.category,
     account |-> f.from, companion |-> None, isShared |-> FALSE]

ExpenseToTransfer(f) ==
    LET account == OrElse(f.account, FirstAccount)
    IN [type |-> "TRANSFER", sent |-> f.amount, received |-> f.amount,
        from |-> account, to |-> account, category |-> f.category,
        description |-> f.vendor]

IncomeToTransfer(f) ==
    [type |-> "TRANSFER", sent |-> f.amount, received |-> f.amount,
     from |-> f.account, to |-> f.account, category |-> f.category,
     description |-> f.payer]

IncomeToExpense(f) ==
    [ExpenseFormEmpty EXCEPT !.amount = f.amount, !.own = f.own,
        !.vendor = f.payer, !.category = f.category, !.account = f.account,
        !.companion = f.companion,
        !.sharing = IF f.companion \in Names THEN PAID_SELF_SHARED
                                             ELSE PAID_SELF_NOT_SHARED]

TransferToExpense(f) ==
    [ExpenseFormEmpty EXCEPT !.amount = f.sent, !.own = f.sent,
        !.vendor = OrElse(f.description, ""), !.category = f.category,
        !.account = f.from]

ValuesForNewType(f, type) ==
    CASE type = f.type       -> f
      [] <<f.type, type>> = <<"EXPENSE", "INCOME">>   -> ExpenseToIncome(f)
      [] <<f.type, type>> = <<"EXPENSE", "TRANSFER">> -> ExpenseToTransfer(f)
      [] <<f.type, type>> = <<"INCOME", "EXPENSE">>   -> IncomeToExpense(f)
      [] <<f.type, type>> = <<"INCOME", "TRANSFER">>  -> IncomeToTransfer(f)
      [] <<f.type, type>> = <<"TRANSFER", "EXPENSE">> -> TransferToExpense(f)
      [] <<f.type, type>> = <<"TRANSFER", "INCOME">>  -> TransferToIncome(f)

-----------------------------------------------------------------------------
(* Inputs shown and issues raised *)

When(condition, field) == IF condition THEN {field} ELSE {}

ExpenseShows(f) ==
    {"amount", "vendor", "category"}
    \cup (IF f.sharing \in PaidSelf THEN {"account"} ELSE {"payer", "currency"})
    \cup When(IsShared(f), "own")
    \cup When(f.sharing = PAID_SELF_SHARED, "companion")
    \cup When(f.sharing = PAID_OTHER_REPAID, "repayment")

IncomeShows(f) ==
    {"amount", "payer", "category", "account"}
    \cup (IF f.isShared THEN {"own", "companion"} ELSE {})

TransferShows(f) ==
    {"sent", "from", "to", "description", "category"}
    \cup When(UnitOf[f.from] # UnitOf[f.to], "received")

Shown(f) == CASE f.type = "EXPENSE"  -> ExpenseShows(f)
              [] f.type = "INCOME"   -> IncomeShows(f)
              [] f.type = "TRANSFER" -> TransferShows(f)

(***************************************************************************)
(* What the schemas say of each field by itself, and what their            *)
(* refinements add: those run on a value that is too small, but not on one *)
(* that is no number at all.                                               *)
(***************************************************************************)
Mistyped(f) == {x \in DOMAIN f \cap {"amount", "own", "sent", "received"} : f[x] = Garbled}

Negative(f)    == {x \in {"amount", "own"} \ Mistyped(f) : f[x] < 0}
NotPositive(f) == {x \in {"sent", "received"} \ Mistyped(f) : f[x] <= 0}

FieldIssues(f) ==
    CASE f.type = "EXPENSE"  -> Negative(f) \cup When(f.vendor = "", "vendor")
      [] f.type = "INCOME"   -> Negative(f) \cup When(f.payer = "", "payer")
      [] f.type = "TRANSFER" -> NotPositive(f)

Blank(name) == name \in {None, ""}

ExpenseIssues(f) ==
    When(f.own > f.amount, "own")
    \cup When(f.sharing \in PaidSelf /\ f.account = None, "account")
    \cup When(f.sharing = PAID_SELF_SHARED /\ Blank(f.companion), "companion")
    \cup When(f.sharing \in PaidOther /\ Blank(f.payer), "payer")
    \cup When(f.sharing \in PaidOther /\ f.currency \notin Currencies, "currency")
    \cup When(f.sharing = PAID_OTHER_REPAID /\ f.repayment = None, "repayment")

IncomeIssues(f) ==
    When(f.own > f.amount, "own")
    \cup When(f.isShared /\ Blank(f.companion), "companion")

TransferIssues(f) == When(f.from = f.to, "to")

Refinements(f) == CASE f.type = "EXPENSE"  -> ExpenseIssues(f)
                    [] f.type = "INCOME"   -> IncomeIssues(f)
                    [] f.type = "TRANSFER" -> TransferIssues(f)

Issues(f) == Mistyped(f) \cup FieldIssues(f)
             \cup (IF Mistyped(f) = {} THEN Refinements(f) ELSE {})
=============================================================================
