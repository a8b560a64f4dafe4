------------------------- MODULE ClientTransactions -------------------------
(***************************************************************************)
(* The transactions as the browser holds them (lib/model): records whose   *)
(* kind says which fields mean something, the core data they point into,   *)
(* and what the pages compute from the two.  Amounts are integers (nanos   *)
(* are bigint in the browser), a name is a sequence of words.              *)
(*                                                                         *)
(* Core.banks, Core.trips and Core.tags map ids to names, Core.accounts to *)
(* [name, bank, unit, archived], Core.categories to [name, parent].        *)
(***************************************************************************)
EXTENDS Integers, Sequences, FiniteSets, FiniteSetsExt, Functions

CONSTANTS None, Core

ASSUME NoneAssumption == None \notin Int

ASSUME CoreAssumption ==
    /\ IsFiniteSet(DOMAIN Core.banks)
    /\ IsFiniteSet(DOMAIN Core.accounts)
    /\ \A a \in DOMAIN Core.accounts : Core.accounts[a].bank \in DOMAIN Core.banks
    /\ IsFiniteSet(DOMAIN Core.categories)

(* A category has no parent or another category as one; above a category   *)
(* there is never itself.                                                  *)
ASSUME CategoriesAssumption ==
    LET parent(c) == Core.categories[c].parent
    IN  \E depth \in [DOMAIN Core.categories ->
                           0 .. Cardinality(DOMAIN Core.categories) - 1] :
            \A c \in DOMAIN Core.categories : parent(c) # None =>
                parent(c) \in DOMAIN Core.categories /\ depth[parent(c)] < depth[c]

IsPersonalExpense(t)   == t.kind = "PersonalExpense"
IsThirdPartyExpense(t) == t.kind = "ThirdPartyExpense"
IsExpense(t)           == IsPersonalExpense(t) \/ IsThirdPartyExpense(t)
IsIncome(t)            == t.kind = "Income"
IsTransfer(t)          == t.kind = "Transfer"
IsOpeningBalance(t)    == t.kind = "OpeningBalance"

(* The accounts a transaction moves money on: none of the user's when      *)
(* somebody else paid.                                                     *)
BankAccountsOf(t) ==
    CASE IsThirdPartyExpense(t) -> {}
      [] IsTransfer(t)          -> {t.account, t.to}
      [] OTHER                  -> {t.account}

BanksOf(t) == {Core.accounts[a].bank : a \in BankAccountsOf(t)}

FullAccountName(a) ==
    Core.banks[Core.accounts[a].bank] \o <<":">> \o Core.accounts[a].name

TransactionUnit(t) ==
    IF IsThirdPartyExpense(t) THEN t.currency ELSE Core.accounts[t.account].unit

OtherPartyName(t) ==
    IF IsTransfer(t) \/ IsOpeningBalance(t) \/ t.companions = <<>>
    THEN None ELSE t.companions[1].name

OwnShareHalf(t) == t.amount \div (Len(t.companions) + 1)

OwnShare(t) ==
    t.amount - SumFunction([i \in DOMAIN t.companions |-> t.companions[i].amount])

(* What every transaction of a snapshot is: it points into the core data,  *)
(* and a transfer goes from one account to another one.                    *)
Kinds == {"PersonalExpense", "ThirdPartyExpense", "Income", "Transfer", "OpeningBalance"}

WellFormed(t) ==
    /\ t.kind \in Kinds
    /\ t.time \in Int /\ t.amount \in Int /\ t.received \in Int
    /\ IsFiniteSet(DOMAIN t.companions)
    /\ \A i \in DOMAIN t.companions : t.companions[i].amount \in Int
    /\ ~IsThirdPartyExpense(t) => t.account \in DOMAIN Core.accounts
    /\ IsTransfer(t) => t.to \in DOMAIN Core.accounts \ {t.account}
    /\ ~IsOpeningBalance(t) => t.category \in DOMAIN Core.categories

------------------------------------------------------------------------------
(* Categories form a forest: the root first, the parent last.              *)
GetAncestors(c) ==
    LET up[n \in 0 .. Cardinality(DOMAIN Core.categories)] ==
            IF n = 0 THEN <<c>>
            ELSE LET parent == Core.categories[Head(up[n - 1])].parent
                 IN  IF parent = None THEN up[n - 1] ELSE <<parent>> \o up[n - 1]
        path == up[Cardinality(DOMAIN Core.categories)]
    IN  SubSeq(path, 1, Len(path) - 1)

FindRoot(c) ==
    IF GetAncestors(c) = <<>> THEN c ELSE Head(GetAncestors(c))

GetDescendants(c) ==
    {d \in DOMAIN Core.categories : c \in Range(GetAncestors(d))}

SubtreeIncludes(c, d) == c = d \/ d \in GetDescendants(c)

NameWithAncestors(c) ==
    LET path == GetAncestors(c) \o <<c>>
        upTo[n \in 1 .. Len(path)] ==
            IF n = 1 THEN Core.categories[path[1]].name
            ELSE upTo[n - 1] \o <<">">> \o Core.categories[path[n]].name
    IN  upTo[Len(path)]
=============================================================================
