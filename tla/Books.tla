-------------------------------- MODULE Books --------------------------------
(***************************************************************************)
(* The double-entry side of the ledger: the ledger accounts a transaction  *)
(* posts to and the entry lines each transaction form turns into           *)
(* (backend/ledger/txform, backend/ledger/opening_balance.go).             *)
(* A line carries the ledger account, the unit (a currency or a stock) and *)
(* a signed amount.  Amounts are integers: nanos are int64 in the code and *)
(* no form can come near 2^63 nanos.                                       *)
(***************************************************************************)
EXTENDS Integers, Sequences

CONSTANTS
  Accounts,     \* bank accounts
  Currencies,   \* units that are currencies
  Stocks        \* units that are stocks

Units == Currencies \cup Stocks

\* Rows of LedgerAccount.  A bank account has one ASSET row (unique index
\* LedgerAccount_bankAccountId_key), a companion one RECEIVABLE row named by
\* its row id, and registration seeds one row of each remaining type.
Asset(a) == <<"ASSET", a>>
Receivable(n) == <<"RECEIVABLE", n>>
Expense == <<"EXPENSE", 0>>
Income == <<"INCOME", 0>>
Equity == <<"EQUITY", 0>>
CurrencyExchange == <<"CURRENCY_EXCHANGE", 0>>

LedgerAccounts ==
  ({"ASSET"} \X Accounts) \cup ({"RECEIVABLE"} \X Nat)
    \cup ({"EXPENSE", "INCOME", "EQUITY", "CURRENCY_EXCHANGE"} \X {0})

EntryLine == [acct : LedgerAccounts, unit : Units, amt : Int]

Post(acct, unit, amt) == [acct |-> acct, unit |-> unit, amt |-> amt]

------------------------------------------------------------------------------
\* Expense, income, transfer and opening balance forms to entry lines.

PaidSelfLines(a, unit, amount) ==
  << Post(Asset(a), unit, -amount), Post(Expense, unit, amount) >>

PaidSelfSharedLines(a, unit, amount, own, recv) ==
  << Post(Asset(a), unit, -amount),
     Post(Expense, unit, own),
     Post(Receivable(recv), unit, amount - own) >>

ThirdPartyLines(unit, own, recv) ==
  << Post(Expense, unit, own), Post(Receivable(recv), unit, -own) >>

RepaymentLines(a, unit, own, recv) ==
  << Post(Asset(a), unit, -own), Post(Receivable(recv), unit, own) >>

SoloIncomeLines(a, unit, amount) ==
  << Post(Asset(a), unit, amount), Post(Income, unit, -amount) >>

\* Mutant: the companion is owed the whole income.
SharedIncomeLinesWhole(a, unit, amount, own, recv) ==
  << Post(Asset(a), unit, amount),
     Post(Income, unit, -own),
     Post(Receivable(recv), unit, -amount) >>

SharedIncomeLines(a, unit, amount, own, recv) ==
  << Post(Asset(a), unit, amount),
     Post(Income, unit, -own),
     Post(Receivable(recv), unit, -(amount - own)) >>

\* Accounts of one unit need no intermediary; otherwise the
\* CURRENCY_EXCHANGE account takes the other side in each unit.
TransferLines(from, to, fromUnit, toUnit, sent, received) ==
  IF fromUnit = toUnit
  THEN << Post(Asset(from), fromUnit, -sent),
          Post(Asset(to), toUnit, received) >>
  ELSE << Post(Asset(from), fromUnit, -sent),
          Post(CurrencyExchange, fromUnit, sent),
          Post(CurrencyExchange, toUnit, -received),
          Post(Asset(to), toUnit, received) >>

OpeningLines(a, unit, amount) ==
  << Post(Asset(a), unit, amount), Post(Equity, unit, -amount) >>

------------------------------------------------------------------------------
\* What the books say of a sequence of lines.  No form makes more than
\* MaxLines lines, so a sum over them needs no recursion.

MaxLines == 4

AmountAt(lines, i, unit) ==
  IF i \in 1 .. Len(lines) /\ lines[i].unit = unit THEN lines[i].amt ELSE 0

UnitSum(lines, unit) ==
  AmountAt(lines, 1, unit) + AmountAt(lines, 2, unit)
    + AmountAt(lines, 3, unit) + AmountAt(lines, 4, unit)

\* Every unit nets to zero: no money appears or disappears.
LinesBalance(lines) == \A unit \in Units : UnitSum(lines, unit) = 0

LinesOn(lines, type) == {i \in 1 .. Len(lines) : lines[i].acct[1] = type}

PostsTo(lines, acct) == \E i \in 1 .. Len(lines) : lines[i].acct = acct
==============================================================================
