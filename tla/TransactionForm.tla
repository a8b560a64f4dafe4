-------------------------- MODULE TransactionForm --------------------------
(***************************************************************************)
(* The transaction form in the browser: TransactionForm.tsx and the        *)
(* components under txform that read and write its values.  A step is one  *)
(* event (a click, a change of an input, the answer of a save) with the    *)
(* React effects that the render after it runs: Settle.                    *)
(*                                                                         *)
(* The text and amount inputs stay enabled while a save is under way.      *)
(***************************************************************************)
EXTENDS FormValues

CONSTANTS
    New,            \* open for a transaction not recorded yet
    Transactions,   \* recorded transactions the list offers for editing
    Drafts,         \* suggested drafts
    Usual,          \* [type -> [Texts -> category most used with the name]]
    Edits,          \* amounts a user types
    Origins         \* bank events

Types == {"EXPENSE", "INCOME", "TRANSFER"}

ASSUME InputsAssumption ==
    /\ New \notin Transactions \cup {None}
    /\ None \notin Transactions \cup Drafts
    /\ Usual \in [Types -> [Texts -> Maybe(Categories)]]
    /\ Edits \subseteq Inputs

(***************************************************************************)
(* What the backend suggests: it proposes an own share only with the       *)
(* proposal to split the amount (history_fields.go, proposeSharing), and   *)
(* pairs a withdrawal only with a deposit of the same amount               *)
(* (pair_open_banking_transfers.go, pairTransfers).                        *)
(***************************************************************************)
ASSUME DraftsAssumption ==
    /\ Drafts \subseteq
          [type: Types, amount: Nat, own: Maybe(Nat), received: Maybe(Nat),
           vendor: Maybe(Texts), payer: Maybe(Texts), description: Maybe(Texts),
           companion: Maybe(Texts), sharing: Maybe(PaidSelf \cup PaidOther),
           category: Maybe(Categories), currency: Maybe(Units),
           from: Maybe(Accounts), to: Maybe(Accounts), origins: SUBSET Origins]
    /\ \A d \in Drafts :
          /\ d.own # None => d.sharing = PAID_SELF_SHARED
          /\ d.received # None => d.received = d.amount

(***************************************************************************)
(* A recorded transaction as the client's model holds it: a variant of its *)
(* own for every kind (lib/model/transaction).  Only an expense that       *)
(* somebody else paid is looked up among the repayments (findRepayment).   *)
(***************************************************************************)
Recorded(t) ==
    /\ t.kind \in {"PersonalExpense", "ThirdPartyExpense", "Income", "Transfer"}
    /\ t.amount \in Nat /\ t.category \in Categories
    /\ t.kind # "ThirdPartyExpense" => t.account \in Accounts /\ t.repayment = None
    /\ IF t.kind = "Transfer"
       THEN t.to \in Accounts /\ t.received \in Nat /\ t.name \in Maybe(Texts)
       ELSE t.own \in Nat /\ t.name \in Texts /\ t.companion \in Maybe(Texts)
    /\ t.kind = "ThirdPartyExpense" =>
          /\ t.payer \in Texts /\ t.currency \in Units
          /\ t.repayment \in Maybe([account: Accounts, category: Categories])

ASSUME TransactionsAssumption == \A t \in Transactions : Recorded(t)

VARIABLES
    open,       \* None, New, or the transaction being edited
    form,       \* the values of the form that is open
    draft,      \* the suggestion the form was filled from
    seen,       \* the category at the last render of the whole form
    sending     \* the save under way: None or what its answer needs
vars == <<open, form, draft, seen, sending>>

Creating == open = New
Idle     == open # None /\ sending = None

NameOf(f) == CASE f.type = "EXPENSE"  -> f.vendor
               [] f.type = "INCOME"   -> f.payer
               [] f.type = "TRANSFER" -> OrElse(f.description, "")

SafeAmount(f) == IF f.amount = Garbled THEN 0 ELSE f.amount
SameUnit(f)   == UnitOf[f.from] = UnitOf[f.to]

(***************************************************************************)
(* The effects.  Each runs when the form variant mounts and when what it   *)
(* watches changed from `old` to `new`.                                    *)
(***************************************************************************)
OwnShareOnAmountOnly(old, new, mounted) ==
    IF mounted \/ old.amount # new.amount
    THEN IF IsShared(new) THEN (SafeAmount(new) + 1) \div 2 ELSE SafeAmount(new)
    ELSE new.own

UpdateOwnShareOnAmountChange(old, new, mounted) ==
    IF mounted \/ old.amount # new.amount \/ IsShared(old) # IsShared(new)
    THEN IF IsShared(new) THEN (SafeAmount(new) + 1) \div 2 ELSE SafeAmount(new)
    ELSE new.own

ReceivedOnAmountOnly(old, new, mounted) ==
    IF SameUnit(new) /\ (mounted \/ old.sent # new.sent)
    THEN new.sent ELSE new.received

UpdateReceivedAmountOnAmountChange(old, new, mounted) ==
    IF /\ SameUnit(new)
       /\ mounted \/ old.sent # new.sent \/ ~SameUnit(old)
    THEN new.sent ELSE new.received

CategoryOnEveryForm(old, new, mounted, creating) ==
    LET usual == Usual[new.type][NameOf(new)]
    IN IF (mounted \/ NameOf(old) # NameOf(new)) /\ usual # None
       THEN usual ELSE new.category

UpdateCategoryOnChange(old, new, mounted, creating) ==
    LET usual == Usual[new.type][NameOf(new)]
    IN IF creating /\ (mounted \/ NameOf(old) # NameOf(new)) /\ usual # None
       THEN usual ELSE new.category

Settle(old, new, mounted, creating) ==
    LET categorised == [new EXCEPT
            !.category = UpdateCategoryOnChange(old, new, mounted, creating)]
    IN IF new.type = "TRANSFER"
       THEN [categorised EXCEPT
               !.received = UpdateReceivedAmountOnAmountChange(old, new, mounted)]
       ELSE [categorised EXCEPT
               !.own = UpdateOwnShareOnAmountChange(old, new, mounted)]

(* An input writes its field: nothing but that input renders again. *)
Edit(f) ==
    /\ form' = Settle(form, f, FALSE, Creating)
    /\ UNCHANGED <<open, draft, seen, sending>>

(* The whole form renders again. *)
Render(f) ==
    /\ form' = Settle(form, f, f.type # form.type, Creating)
    /\ seen' = f.category

Mount(o, f) ==
    /\ open' = o
    /\ form' = Settle(f, f, TRUE, o = New)
    /\ seen' = f.category
    /\ draft' = None
    /\ sending' = None

Unmount ==
    /\ open' = None
    /\ form' = ExpenseFormEmpty
    /\ seen' = FirstCategory
    /\ draft' = None
    /\ sending' = None

Init ==
    /\ open = None
    /\ form = ExpenseFormEmpty
    /\ draft = None
    /\ seen = FirstCategory
    /\ sending = None

-----------------------------------------------------------------------------
OpenNew ==
    /\ open = None
    /\ Mount(New, ExpenseFormEmpty)

OpenEdit(t) ==
    /\ open = None
    /\ Mount(t, ValuesForTransaction(t))

(***************************************************************************)
(* The Cancel button waits for the save; the dialog's own close does not,  *)
(* and the save goes on without a form to reset.                           *)
(***************************************************************************)
Close ==
    /\ open # None
    /\ Unmount

OnDraftChange(d) ==
    /\ draft' = d
    /\ Render(ValuesForDraft(d))
    /\ UNCHANGED <<open, sending>>

(* The accounts under which a suggestion is listed: a transfer under two. *)
ListedUnder(d) == {d.from, d.to} \ {None}

Suggested == {d \in Drafts : ListedUnder(d) # {}}

PickSuggestion(d) ==
    /\ Creating /\ Idle
    /\ d \in Suggested
    /\ OnDraftChange(d)

OnFormTypeChange(type) ==
    /\ Idle
    /\ type # form.type
    /\ Render(ValuesForNewType(form, type))
    /\ UNCHANGED <<open, draft, sending>>

-----------------------------------------------------------------------------
(* Inputs *)

EditAmount(a) ==
    /\ open # None
    /\ "amount" \in Shown(form)
    /\ Edit([form EXCEPT !.amount = a])

EditSent(a) ==
    /\ open # None
    /\ "sent" \in Shown(form)
    /\ Edit([form EXCEPT !.sent = a])

EditOwnShare(a) ==
    /\ open # None
    /\ "own" \in Shown(form)
    /\ Edit([form EXCEPT !.own = a])

EditReceived(a) ==
    /\ open # None
    /\ "received" \in Shown(form)
    /\ Edit([form EXCEPT !.received = a])

EditVendor(n) ==
    /\ open # None
    /\ form.type = "EXPENSE"
    /\ Edit([form EXCEPT !.vendor = n])

EditIncomePayer(n) ==
    /\ open # None
    /\ form.type = "INCOME"
    /\ Edit([form EXCEPT !.payer = n])

EditDescription(n) ==
    /\ open # None
    /\ form.type = "TRANSFER"
    /\ Edit([form EXCEPT !.description = n])

EditCompanion(n) ==
    /\ open # None
    /\ "companion" \in Shown(form)
    /\ Edit([form EXCEPT !.companion = n])

EditPayer(n) ==
    /\ open # None
    /\ form.type = "EXPENSE" /\ "payer" \in Shown(form)
    /\ Edit([form EXCEPT !.payer = n])

PickCurrency(c) ==
    /\ open # None
    /\ "currency" \in Shown(form)
    /\ Edit([form EXCEPT !.currency = c])

PickAccount(a) ==
    /\ open # None
    /\ \/ "account" \in Shown(form) /\ Edit([form EXCEPT !.account = a])
       \/ "from" \in Shown(form) /\ Edit([form EXCEPT !.from = a])
       \/ "to" \in Shown(form) /\ Edit([form EXCEPT !.to = a])

PickRepaymentAccount(a) ==
    /\ open # None
    /\ "repayment" \in Shown(form)
    /\ Edit([form EXCEPT !.repayment.account = a])

PickCategory(c) ==
    /\ Idle
    /\ Edit([form EXCEPT !.category = c])

-----------------------------------------------------------------------------
(* The sharing of an expense and of an income *)

Share(f) ==
    /\ Idle
    /\ Render(f)
    /\ UNCHANGED <<open, draft, sending>>

(***************************************************************************)
(* A category captured by a callback is that of the last render: of the    *)
(* whole form, or of the input around the callback.                        *)
(***************************************************************************)
Captured == {seen, form.category}

SetPaidOther(category) ==
    /\ form.type = "EXPENSE" /\ form.sharing \in PaidSelf
    /\ LET payer == IF draft = None THEN "" ELSE OrElse(draft.payer, "")
       IN IF draft # None /\ draft.from # None
          THEN Share([form EXCEPT !.sharing = PAID_OTHER_REPAID,
                        !.currency = UnitOf[draft.from],
                        !.amount = 2 * draft.amount, !.own = draft.amount,
                        !.repayment = [account |-> draft.from, category |-> category],
                        !.payer = payer])
          ELSE Share([form EXCEPT !.sharing = PAID_OTHER_OWED,
                        !.currency = DisplayCurrency, !.payer = payer])

SetPaidSelfKeepingRepayment ==
    /\ form.type = "EXPENSE" /\ form.sharing \in PaidOther
    /\ Share([form EXCEPT !.sharing = PAID_SELF_NOT_SHARED,
                !.account = OrElse(form.account, FirstAccount),
                !.companion = None])

SetPaidSelf ==
    /\ form.type = "EXPENSE" /\ form.sharing \in PaidOther
    /\ Share([form EXCEPT !.sharing = PAID_SELF_NOT_SHARED,
                !.account = OrElse(form.account, FirstAccount),
                !.repayment = None, !.companion = None])

SetAlreadyRepaid(category) ==
    /\ form.type = "EXPENSE" /\ form.sharing = PAID_OTHER_OWED
    /\ Share([form EXCEPT !.sharing = PAID_OTHER_REPAID,
                !.repayment = [account |-> FirstAccount, category |-> category]])

SetOweMoney ==
    /\ form.type = "EXPENSE" /\ form.sharing = PAID_OTHER_REPAID
    /\ Share([form EXCEPT !.sharing = PAID_OTHER_OWED,
                !.account = None, !.repayment = None])

ToggleSplitTransaction ==
    /\ form.type = "EXPENSE" /\ form.sharing \in PaidSelf
    /\ Share(IF form.sharing = PAID_SELF_SHARED
             THEN [form EXCEPT !.sharing = PAID_SELF_NOT_SHARED, !.companion = None]
             ELSE [form EXCEPT !.sharing = PAID_SELF_SHARED,
                     !.companion = IF draft = None THEN ""
                                   ELSE OrElse(draft.companion, "")])

ToggleIncomeSplit ==
    /\ form.type = "INCOME"
    /\ Share([form EXCEPT !.isShared = ~form.isShared])

-----------------------------------------------------------------------------
(* Saving *)

AccountToKeep(f) == IF f.type = "TRANSFER" THEN f.to ELSE f.account

OnSubmit ==
    /\ Idle
    /\ Issues(form) = {}
    /\ sending' = [account |-> AccountToKeep(form),
                   origins |-> IF draft = None THEN {} ELSE draft.origins]
    /\ seen' = form.category
    /\ UNCHANGED <<open, form, draft>>

(***************************************************************************)
(* The refreshed transactions run the category effect even when the name   *)
(* of the emptied form is the one it had.                                  *)
(***************************************************************************)
SavedNew ==
    /\ Creating /\ sending # None
    /\ LET empty == [ExpenseFormEmpty EXCEPT !.account = sending.account]
       IN /\ form' = [Settle(form, empty, form.type # "EXPENSE", TRUE) EXCEPT
                        !.category = UpdateCategoryOnChange(empty, empty, TRUE, TRUE)]
          /\ seen' = empty.category
    /\ draft' = None
    /\ sending' = None
    /\ UNCHANGED open

SavedEdit ==
    /\ ~Creating /\ sending # None
    /\ Unmount

SaveFailed ==
    /\ sending # None
    /\ sending' = None
    /\ seen' = form.category
    /\ UNCHANGED <<open, form, draft>>

Typing ==
    \/ \E a \in Edits : EditAmount(a) \/ EditSent(a) \/ EditOwnShare(a) \/ EditReceived(a)
    \/ \E n \in Texts : EditVendor(n) \/ EditIncomePayer(n) \/ EditDescription(n)
                         \/ EditCompanion(n) \/ EditPayer(n)
    \/ \E c \in Currencies : PickCurrency(c)
    \/ \E a \in Accounts : PickAccount(a) \/ PickRepaymentAccount(a)
    \/ \E c \in Categories : PickCategory(c)

Sharing ==
    \/ \E c \in Captured : SetPaidOther(c) \/ SetAlreadyRepaid(c)
    \/ SetPaidSelf \/ SetOweMoney \/ ToggleSplitTransaction \/ ToggleIncomeSplit

Saving ==
    \/ OnSubmit \/ SavedNew \/ SavedEdit \/ SaveFailed

Next ==
    \/ OpenNew \/ Close
    \/ \E t \in Transactions : OpenEdit(t)
    \/ \E d \in Drafts : PickSuggestion(d)
    \/ \E type \in Types : OnFormTypeChange(type)
    \/ Typing \/ Sharing \/ Saving

Spec == Init /\ [][Next]_vars
=============================================================================
