----------------------------- MODULE UnitSelect -----------------------------
(***************************************************************************)
(* The list in which an account's currency or stock is searched and picked *)
(* (config/banks/UnitSelect.tsx).  What is typed is searched for once it   *)
(* has rested for a second; two effects of the component keep the items,   *)
(* the loading row and the requests, and run when what they depend on has  *)
(* changed.  The list exists while it is open and forgets everything when  *)
(* it closes.                                                              *)
(***************************************************************************)
EXTENDS Integers, Sequences, SequencesExt

CONSTANTS
    None,
    Queries,        \* what can be typed, the empty query NoQuery left out
    NoQuery,
    Units,          \* currencies and stocks
    InitialUnits,   \* every currency and the stocks the user has
    FoundUnits,     \* FoundUnits[q]: what /api/stock answers to q
    MaxFetches      \* bound: requests on their way at once

ASSUME UnitSelectAssumption ==
    /\ NoQuery \notin Queries
    /\ InitialUnits \subseteq Units
    /\ FoundUnits \in [Queries -> SUBSET Units]
    /\ MaxFetches \in Nat \ {0}

VARIABLE picker     \* None while the list is closed

OpenedPicker ==
    [query |-> NoQuery, debounced |-> NoQuery, loading |-> FALSE, error |-> FALSE,
     items |-> InitialUnits, retry |-> FALSE, fetches |-> <<>>]

ItemsSameAsInitial(p) == p.items = InitialUnits

(* The first effect, on the query and the initial items.                   *)
QueryEffect(p) ==
    IF p.query # NoQuery
    THEN [p EXCEPT !.loading = TRUE]
    ELSE [p EXCEPT !.loading = FALSE, !.error = FALSE, !.items = InitialUnits]

(* The second effect asks the server, unless the rested query is empty.    *)
FetchEffect(p) ==
    IF p.debounced = NoQuery THEN p
    ELSE [p EXCEPT !.loading = TRUE, !.error = FALSE, !.fetches = Append(@, p.debounced)]

(* It runs again after any change of what it lists as its dependencies.    *)
WithFetchEffect(old, new) ==
    IF \/ old.debounced # new.debounced
       \/ ItemsSameAsInitial(old) # ItemsSameAsInitial(new)
       \/ old.retry # new.retry
    THEN FetchEffect(new) ELSE new

(* The page around the list rendered: the initial items are a new array,   *)
(* which both effects depend on.                                           *)
Rerendered(p) == IF p = None THEN None ELSE FetchEffect(QueryEffect(p))

------------------------------------------------------------------------------
Becomes(p) == picker' = WithFetchEffect(picker, p)

HasRoom == Len(picker.fetches) < MaxFetches

TypeQuery == \E q \in Queries \cup {NoQuery} :
    /\ q # picker.query
    /\ HasRoom
    /\ Becomes(QueryEffect([picker EXCEPT !.query = q]))

Debounce ==
    /\ picker.debounced # picker.query
    /\ HasRoom
    /\ Becomes([picker EXCEPT !.debounced = picker.query])

Retry ==
    /\ picker.error /\ ~picker.loading
    /\ HasRoom
    /\ Becomes([picker EXCEPT !.retry = TRUE])

(* Answers come in any order, and each one sets the items.                 *)
AnswerFetch == \E i \in DOMAIN picker.fetches :
    Becomes([picker EXCEPT !.items = FoundUnits[picker.fetches[i]],
                           !.fetches = RemoveAt(@, i), !.retry = FALSE, !.loading = FALSE])

FailFetch == \E i \in DOMAIN picker.fetches :
    Becomes([picker EXCEPT !.error = TRUE,
                           !.fetches = RemoveAt(@, i), !.retry = FALSE, !.loading = FALSE])

Offers(u) == u \in picker.items /\ ~picker.loading /\ ~picker.error

Search == TypeQuery \/ Debounce \/ Retry \/ AnswerFetch \/ FailFetch
=============================================================================
