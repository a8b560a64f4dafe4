------------------------- MODULE MCTransactionForm -------------------------
(***************************************************************************)
(* Three accounts, two of them of one unit; suggestions of a withdrawal    *)
(* from a joint account, of another from an account of one's own, of a     *)
(* deposit and of a transfer; one recorded transaction of each kind, the   *)
(* split one with a share that is not half.  A user types nothing of the   *)
(* kind that the form refuses but a negative amount and no number at all.  *)
(***************************************************************************)
EXTENDS TransactionFormSafety

MCAccounts == {"current", "joint", "euro"}
MCUnitOf == [a \in MCAccounts |-> IF a = "euro" THEN "EUR" ELSE "USD"]
MCEdits == {-1, 1, 2, Garbled}
MCUsual ==
    [type \in Types |->
        [n \in {"ann", ""} |-> IF n = "ann" /\ type # "TRANSFER" THEN "food" ELSE None]]

Draft == [type |-> "EXPENSE", amount |-> 1, own |-> None, received |-> None,
          vendor |-> None, payer |-> None, description |-> None,
          companion |-> None, sharing |-> None, category |-> None,
          currency |-> None, from |-> None, to |-> None, origins |-> {"e"}]
MCDrafts == {
    [Draft EXCEPT !.vendor = "ann", !.from = "joint", !.companion = "ann",
        !.sharing = PAID_SELF_SHARED, !.own = 1, !.category = "rest"],
    [Draft EXCEPT !.vendor = "ann", !.from = "euro", !.payer = "ann",
        !.category = "food"],
    [Draft EXCEPT !.type = "INCOME", !.payer = "ann", !.to = "current"],
    [Draft EXCEPT !.type = "TRANSFER", !.received = 1,
        !.from = "current", !.to = "euro"]}

Transaction == [kind |-> "PersonalExpense", amount |-> 2, own |-> 2, name |-> "ann",
                category |-> "rest", account |-> "current", companion |-> None,
                payer |-> None, currency |-> None, repayment |-> None,
                to |-> None, received |-> None]
MCTransactions == {
    [Transaction EXCEPT !.own = 2, !.companion = "ann"],
    [Transaction EXCEPT !.kind = "ThirdPartyExpense", !.account = None,
        !.payer = "ann", !.currency = "USD",
        !.repayment = [account |-> "joint", category |-> "food"]],
    [Transaction EXCEPT !.kind = "Income", !.companion = "ann", !.own = 1],
    [Transaction EXCEPT !.kind = "Transfer", !.to = "euro", !.received = 1]}
=============================================================================
