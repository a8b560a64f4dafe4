----------------------- MODULE TransactionFormSafety -----------------------
(* What the transaction form promises its user. *)
EXTENDS TransactionForm

(***************************************************************************)
(* Validation never stops a save for hidden fields alone: no order of      *)
(* toggles, switches, suggestions and edits leaves the user with an Add    *)
(* button that does nothing (the message of a hidden field is rendered     *)
(* nowhere).  The hidden amount that an effect copies is refused only      *)
(* together with the one it is copied from, which is shown and marked: a   *)
(* negative amount, or nothing to transfer.                                *)
(***************************************************************************)
NoHiddenIssue ==
    open # None =>
        \A issue \in Issues(form) :
            \/ issue \in Shown(form)
            \/ issue = "own" /\ "amount" \in Issues(form) \cap Shown(form)
            \/ issue = "received" /\ "sent" \in Issues(form) \cap Shown(form)

(***************************************************************************)
(* The amounts a form hides follow the one it shows: the own share of what *)
(* is not split is all of it, and a transfer between accounts of one unit  *)
(* receives what was sent.  The effects keep this, whatever set the amount.*)
(***************************************************************************)
HiddenAmountsFollow ==
    open # None =>
        IF form.type = "TRANSFER"
        THEN SameUnit(form) => form.received = form.sent
        ELSE ~IsShared(form) => form.own = SafeAmount(form)

(***************************************************************************)
(* An expense holds repayment details exactly while it is one that was     *)
(* repaid: the repayment fields assert them (RepaymentFields.tsx), and     *)
(* those of an expense that is no longer repaid must not come back.        *)
(***************************************************************************)
RepaymentIffRepaid ==
    form.type = "EXPENSE" =>
        (form.repayment # None <=> form.sharing = PAID_OTHER_REPAID)

(***************************************************************************)
(* While a recorded transaction is edited only its user changes the        *)
(* category: "the user might not notice the change and unintentionally     *)
(* recategorise the transaction" (ExpenseForm.tsx).                        *)
(***************************************************************************)
EditKeepsCategory ==
    [][(open \in Transactions /\ open' = open /\ form'.category # form.category)
         => (\E c \in Categories : PickCategory(c))]_vars
=============================================================================
