-------------------------- MODULE TransactionsPage --------------------------
(***************************************************************************)
(* The transactions page: a form of filters that writes the query, the     *)
(* search box that can be typed over, the list of what was found and the   *)
(* panel of statistics about it.                                           *)
(*                                                                         *)
(* filters.types, .accounts, .categories, .trips and .tags are what is     *)
(* selected, .vendor a typed text, .from and .to days or None, .allTags    *)
(* whether every tag has to match.                                         *)
(***************************************************************************)
EXTENDS Matchers, Statistics

CONSTANTS
    VendorTexts,    \* what is typed into the vendor field
    FilterDays,     \* [day that is picked in a date field -> its lexeme]
    TypedQueries,   \* what is typed into the search box
    MaxChosen,      \* bound on what is chosen in the form at once
    FirstItems,     \* rows shown at first, 10
    MoreItems,      \* rows one click adds, {10, 100}
    MaxItems        \* bound on them

ASSUME ItemsAssumption == FirstItems \in Nat /\ MoreItems \subseteq Nat

VARIABLES filters, searchText, showFilters, showStats, displayLimit

searchVars == <<filters, searchText, showFilters, showStats, displayLimit>>

NoFilters ==
    [types |-> {}, vendor |-> <<>>, accounts |-> {}, categories |-> {}, trips |-> {},
     from |-> None, to |-> None, tags |-> {}, allTags |-> FALSE]

TransactionTypes == {"personal", "external", "transfer", "income"}

------------------------------------------------------------------------------
(* generateQuery.                                                          *)
Words(parts) == FlattenSeq(parts)

JoinedByOr(parts) ==
    FlattenSeq([i \in DOMAIN parts |-> IF i = 1 THEN parts[i] ELSE <<"OR">> \o parts[i]])

(* The alternatives of a group one after the other.                        *)
AppendAll(parts) == Words(parts)

AppendOR(parts) ==
    IF Len(parts) > 1 THEN <<"(">> \o JoinedByOr(parts) \o <<")">> ELSE Words(parts)

FieldParts(field, texts) == SetToSeq({<<field, ":">> \o text : text \in texts})
Ids(ids)  == {<<ToString(id)>> : id \in ids}
DayPart(op, day) == IF day = None THEN <<>> ELSE <<"date", op, FilterDays[day]>>
VendorPart(text) == IF text = <<>> THEN <<>> ELSE <<"vendor", ":">> \o text

GenerateQuery(form) ==
    LET tagParts == FieldParts("tag", {Core.tags[g] : g \in form.tags})
    IN  AppendOR(FieldParts("t", {<<type>> : type \in form.types}))
            \o VendorPart(form.vendor)
            \o AppendOR(FieldParts("account", Ids(form.accounts)))
            \o AppendOR(FieldParts("c", Ids(form.categories)))
            \o AppendOR(FieldParts("trip", {Core.trips[i] : i \in form.trips}))
            \o DayPart(">=", form.from)
            \o DayPart("<=", form.to)
            \o (IF form.allTags THEN Words(tagParts) ELSE AppendOR(tagParts))

(* Writing the query whenever the page is drawn.                           *)
WriteOnEveryRender(form) == GenerateQuery(form)

(* The effect of UpdateQueryOnFormChange: it runs when the generated text  *)
(* is another one, and leaves what was typed alone otherwise.              *)
UpdateQueryOnFormChange(form) ==
    IF GenerateQuery(form) # GenerateQuery(filters) THEN GenerateQuery(form) ELSE searchText

------------------------------------------------------------------------------
SearchInit ==
    /\ filters = NoFilters
    /\ searchText = <<>>
    /\ showFilters = FALSE
    /\ showStats = FALSE
    /\ displayLimit = FirstItems

(* Leaving the page forgets its state.                                     *)
ForgetSearch ==
    /\ filters' = NoFilters
    /\ searchText' = <<>>
    /\ showFilters' = FALSE
    /\ showStats' = FALSE
    /\ displayLimit' = FirstItems

Filtered == Search(transactions, searchText)

ToggleFilters ==
    /\ showFilters' = ~showFilters
    /\ UNCHANGED <<filters, searchText, showStats, displayLimit>>

ToggleStats ==
    /\ showStats' = ~showStats
    /\ UNCHANGED <<filters, searchText, showFilters, displayLimit>>

Toggled(chosen, option) ==
    IF option \in chosen THEN chosen \ {option} ELSE chosen \cup {option}

Chosen(form) ==
    Cardinality(form.types) + Cardinality(form.accounts) + Cardinality(form.categories)
        + Cardinality(form.trips) + Cardinality(form.tags)
        + Cardinality({field \in {"vendor"} : form.vendor # <<>>})
        + Cardinality({field \in {"from", "to"} : form[field] # None})

SetFilters(form) ==
    /\ showFilters
    /\ Chosen(form) <= MaxChosen
    /\ filters' = form
    /\ searchText' = UpdateQueryOnFormChange(form)
    /\ UNCHANGED <<showFilters, showStats, displayLimit>>

ChooseType == \E type \in TransactionTypes :
    SetFilters([filters EXCEPT !.types = Toggled(@, type)])
TypeVendor == \E text \in VendorTexts : SetFilters([filters EXCEPT !.vendor = text])
ChooseAccount == \E a \in DOMAIN Core.accounts :
    SetFilters([filters EXCEPT !.accounts = Toggled(@, a)])
ChooseCategory == \E c \in DOMAIN Core.categories :
    SetFilters([filters EXCEPT !.categories = Toggled(@, c)])
ChooseTrip == \E trip \in DOMAIN Core.trips :
    SetFilters([filters EXCEPT !.trips = Toggled(@, trip)])
ChooseTag == \E g \in DOMAIN Core.tags :
    SetFilters([filters EXCEPT !.tags = Toggled(@, g)])
ChooseFrom == \E day \in DOMAIN FilterDays \cup {None} :
    SetFilters([filters EXCEPT !.from = day])
ChooseTo == \E day \in DOMAIN FilterDays \cup {None} :
    SetFilters([filters EXCEPT !.to = day])
MatchAllTags == SetFilters([filters EXCEPT !.allTags = ~@])

TypeQuery == \E text \in TypedQueries :
    /\ searchText' = text
    /\ UNCHANGED <<filters, showFilters, showStats, displayLimit>>

ShowMore == \E more \in MoreItems :
    /\ Cardinality(Filtered) > displayLimit
    /\ displayLimit + more <= MaxItems
    /\ displayLimit' = displayLimit + more
    /\ UNCHANGED <<filters, searchText, showFilters, showStats>>

(* New data: the page is drawn again and keeps its state.                  *)
SearchRefreshed ==
    /\ searchText' = UpdateQueryOnFormChange(filters)
    /\ UNCHANGED <<filters, showFilters, showStats, displayLimit>>

SearchNext ==
    \/ ToggleFilters \/ ToggleStats
    \/ ChooseType \/ TypeVendor \/ ChooseAccount \/ ChooseCategory \/ ChooseTrip
    \/ ChooseTag \/ ChooseFrom \/ ChooseTo \/ MatchAllTags
    \/ TypeQuery \/ ShowMore

------------------------------------------------------------------------------
(* The rows of the list, the newest first, and whether all are shown.      *)
Rows(found) == SortedTransactions(found, "DATE_DESC")
Displayed(found) == SubSeq(Rows(found), 1, Min({displayLimit, Cardinality(found)}))

(* The panel of statistics: everything found, over the time it spans.      *)
Span(found) == Interval(Min({t.time : t \in found}), Max({t.time : t \in found}))

FoundInput(found) == ExchangedIntervalTransactions(found, Span(found))

TextSummary(input) ==
    [matched  |-> Cardinality(input.xs),
     personal |-> Cardinality({x \in Expenses(input) : IsPersonalExpense(x.t)}),
     external |-> Cardinality({x \in Expenses(input) : IsThirdPartyExpense(x.t)}),
     transfers |-> Cardinality(Transfers(input)),
     income   |-> Cardinality(Income(input))]

IncomeOrExpenseStats(entries, interval) ==
    [gross        |-> SumFunction(All(entries)),
     net          |-> SumFunction(Own(entries)),
     grossByYear  |-> TimelineAmounts(All(entries), interval, "year"),
     netByYear    |-> TimelineAmounts(Own(entries), interval, "year"),
     grossByMonth |-> TimelineAmounts(All(entries), interval, "month"),
     netByMonth   |-> TimelineAmounts(Own(entries), interval, "month"),
     topCategory  |-> ExpenseByTopCategory(entries)]

Percentiles(values) ==
    [p \in {25, 50, 75, 100} |-> Percentile(Series(values, "month"), p)]
=============================================================================
