------------------------------ MODULE MCConfig ------------------------------
(* A bank with an account, a category below another; one more row of the    *)
(* first two may be added.                                                 *)
EXTENDS ConfigSafety

CONSTANTS usd, eur, acme, n0, n1, a

MCInitialRows ==
    [bank     |-> <<[name |-> n0, order |-> 2]>>,
     account  |-> <<[name |-> n0, bank |-> 1, unit |-> usd, order |-> 0]>>,
     category |-> <<[name |-> n0, parent |-> None, order |-> 0],
                    [name |-> n0, parent |-> 1, order |-> 1]>>,
     settings |-> (Settings :> [currency |-> usd, excluded |-> {}])]

MCMaxRows == [bank |-> 2, account |-> 2, category |-> 2, settings |-> 1]

MCFoundUnits == [q \in Queries |-> {acme}]
=============================================================================
