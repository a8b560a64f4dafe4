------------------------------ MODULE MCPages ------------------------------
(***************************************************************************)
(* Two banks with an account each: dollars, and archived shares that are   *)
(* quoted in euros.  A day has 2 moments, a month 4 days; the clock starts *)
(* in the 14th month, so that an interval can span a year.  The first      *)
(* snapshot has all kinds of transactions and two amounts in a currency    *)
(* without a rate, the later one has transactions on the first and the     *)
(* last moments of months and years and one that is not due yet.           *)
(***************************************************************************)
EXTENDS PagesSafety

MCCore ==
    [banks      |-> <<<<"Blue">>, <<"Green">>>>,
     accounts   |-> <<
        [name |-> <<"Main">>, bank |-> 1, unit |-> "USD", archived |-> FALSE],
        [name |-> <<"Shares">>, bank |-> 2, unit |-> "ACME", archived |-> TRUE]>>,
     categories |-> <<
        [name |-> <<"Food">>, parent |-> None],
        [name |-> <<"Meals">>, parent |-> 1]>>,
     trips      |-> <<<<"Rome">>, <<"New", "York">>>>,
     tags       |-> <<<<"fun">>, <<"work">>>>]

MCStockCurrency == [stock \in {"ACME"} |-> "EUR"]
MCPeriodLength ==
    [g \in {"month", "quarter", "year", "1M", "3M", "6M", "1Y"} |->
        CASE g \in {"month", "1M"} -> 8 [] g \in {"quarter", "3M"} -> 24
          [] g = "6M" -> 48 [] OTHER -> 96]

T == [kind |-> "PersonalExpense", id |-> 31, time |-> 70, amount |-> 9, received |-> 0,
      account |-> 1, to |-> None, vendor |-> <<"Cafe">>, payer |-> <<>>, note |-> <<>>,
      companions |-> <<>>, category |-> 2, trip |-> None, tags |-> {}, currency |-> None]

Opening(id, a, amount) ==
    [T EXCEPT !.kind = "OpeningBalance", !.id = id, !.time = 9, !.account = a, !.amount = amount]

AllKinds == {
    Opening(41, 1, 20),
    [T EXCEPT !.companions = <<[name |-> <<"Ann">>, amount |-> 4]>>,
              !.trip = 1, !.tags = {1, 2}],
    [T EXCEPT !.kind = "Income", !.id = 32, !.time = 75, !.amount = 30,
              !.payer = <<"Cafe">>, !.category = 1],
    [T EXCEPT !.kind = "Transfer", !.id = 33, !.time = 81, !.to = 2, !.received = 2],
    [T EXCEPT !.kind = "ThirdPartyExpense", !.id = 34, !.time = 98, !.account = None,
              !.payer = <<"Ann">>, !.currency = "CHF", !.category = 1, !.tags = {2},
              !.companions = <<[name |-> <<"Ann">>, amount |-> 5]>>],
    [T EXCEPT !.kind = "ThirdPartyExpense", !.id = 39, !.time = 101, !.account = None,
              !.payer = <<"Bob">>, !.currency = "CHF", !.category = 1]}

OnTheEdges == {
    Opening(42, 2, 7),
    [T EXCEPT !.kind = "ThirdPartyExpense", !.time = 16, !.account = None,
              !.payer = <<"Ann">>, !.currency = "EUR"],
    [T EXCEPT !.id = 35, !.time = 95, !.category = 1, !.vendor = <<"Inn">>, !.trip = 2],
    [T EXCEPT !.kind = "Income", !.id = 36, !.time = 96, !.amount = 5,
              !.payer = <<"Ann">>, !.category = 1],
    [T EXCEPT !.id = 37, !.time = 109, !.amount = 3, !.vendor = <<"Bar">>, !.tags = {1}]}

Series1 == [day \in {20, 36, 47} |-> 10 + day]
Market1 == [rates |-> [pair \in {<<"EUR", "USD">>} |-> Series1],
            quotes |-> [stock \in {"ACME"} |-> [day \in {35, 40} |-> day]]]

MCSnapshots ==
    [first  |-> [transactions |-> AllKinds, market |-> Market1],
     second |-> [transactions |-> OnTheEdges, market |-> Market1]]
MCAnswersAt == [moment \in {106, 109} |-> IF moment = 106 THEN {"first"} ELSE {"second"}]

MCFilterDays == [day \in {35} |-> "D35"]
MCDateOf == [d \in {"D35"} |-> 35]
MCAmountOf == [w \in {"8"} |-> 8]
MCLower == [w \in {"Cafe"} |-> "cafe"]
MCTypedQueries == {<<"cafe", "-", "tag", ":", "fun">>, <<"(", "amount", ">", "8">>}
MCQuoted == <<>>
MCVendorTexts == {<<"Cafe">>}
=============================================================================
