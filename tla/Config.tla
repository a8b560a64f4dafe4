------------------------------- MODULE Config -------------------------------
(***************************************************************************)
(* The settings pages (app/(authenticated)/config): banks and accounts,    *)
(* categories, display settings.  A page is loaded with the user's rows    *)
(* and keeps them as its own state; every item has a form of its own, any  *)
(* number of them open at once, which takes its values when it opens; a    *)
(* submitted form calls a server action, and the row that action returns   *)
(* replaces the page's.  Next.js sends the actions of a tab one at a time. *)
(***************************************************************************)
EXTENDS UnitSelect, FiniteSets, Functions

CONSTANTS
    Names, NoName,      \* what can be typed as a name; the empty one
    Orders,             \* what can be typed as a display order, in hundreds
    Text,               \* a display order that is still text, not a number
    Currencies,         \* the units that are currencies
    InitialRows,        \* the user's rows at the start
    MaxRows,            \* bound: rows of each table
    MaxForms,           \* bound: forms open at once
    MaxSubmits,         \* bound: forms submitted
    MaxFaults           \* bound: actions that fail or whose answer is lost

VARIABLES
    saved,      \* saved[table][id]: the rows in the database
    page,       \* the page shown: "banks", "categories", "settings" or "crashed"
    rows,       \* the page's own copy of the rows
    forms,      \* the open forms
    collapsed,  \* the categories whose subcategories are folded away
    queue,      \* the server actions called and not yet answered
    submits, faults,
    unseen,     \* history: rows written since the page was loaded and not shown to it
    picking     \* the account form whose list of units is open

vars == <<saved, page, rows, forms, collapsed, queue, submits, faults, unseen,
          picking, picker>>

Tables == {"bank", "account", "category", "settings"}
Settings == 0       \* the one row of display settings

Columns(table) ==
    CASE table = "bank"     -> {"name", "order"}
      [] table = "account"  -> {"name", "bank", "unit", "order"}
      [] table = "category" -> {"name", "parent", "order"}
      [] table = "settings" -> {"currency", "excluded"}

Put(f, key, value) ==
    [x \in DOMAIN f \cup {key} |-> IF x = key THEN value ELSE f[x]]

IsNumbered(ids) == IsFiniteSet(ids) /\ ids = 1..Cardinality(ids)

(* Ids are counted from 1, and the display settings are saved at sign-up.  *)
ASSUME ConfigAssumption ==
    /\ None \notin Nat
    /\ DOMAIN InitialRows = Tables
    /\ DOMAIN InitialRows["settings"] = {Settings}
    /\ \A table \in Tables \ {"settings"} : IsNumbered(DOMAIN InitialRows[table])
    /\ \A table \in Tables : \A id \in DOMAIN InitialRows[table] :
          DOMAIN InitialRows[table][id] = Columns(table)

------------------------------------------------------------------------------
(* Categories.  The sorted list is a walk from the roots: a category whose *)
(* ancestors run in a circle is never reached.                             *)
SortCategories(cats) ==
    LET reached[depth \in Nat] ==
            {c \in DOMAIN cats : \/ cats[c].parent = None
                                 \/ depth > 0 /\ cats[c].parent \in reached[depth - 1]}
    IN  {c \in DOMAIN cats : c \in reached[Cardinality(DOMAIN cats)]}

GetAncestors(cats, c) ==
    LET above[depth \in Nat] ==
            IF depth = 0 THEN {c}
            ELSE above[depth - 1] \cup ({cats[d].parent : d \in above[depth - 1]} \ {None})
    IN  above[Cardinality(DOMAIN cats)] \ {c}

ShownCategories(cats, folded) ==
    {c \in SortCategories(cats) : GetAncestors(cats, c) \cap folded = {}}

------------------------------------------------------------------------------
(* The places on a page where a form can stand: one per row, one to add a  *)
(* bank, one in each bank to add an account, and the two rows of buttons   *)
(* around the categories.  The settings form is the settings page itself.  *)
Edit(table, id)   == [table |-> table, id |-> id, at |-> None]
Add(table, place) == [table |-> table, id |-> None, at |-> place]

BanksListItem(b) == {Edit("bank", b), Add("account", b)}
AccountsList     == {Edit("account", a) : a \in DOMAIN rows["account"]}
BanksConfigPage  ==
    (UNION {BanksListItem(b) : b \in DOMAIN rows["bank"]}) \cup AccountsList \cup {Add("bank", None)}

CategoriesList ==
    {Edit("category", c) : c \in ShownCategories(rows["category"], collapsed)}
Actions == {Add("category", "above"), Add("category", "below")}

Places ==
    CASE page = "banks"      -> BanksConfigPage
      [] page = "categories" -> CategoriesList \cup Actions
      [] OTHER               -> {}

\* Mutant: the display order handed to the form, 0 for an edit, comes first.
BankFormDefaultsOfProps(place) ==
    IF place.id # None THEN [name |-> rows["bank"][place.id].name, order |-> 0]
    ELSE [name |-> NoName, order |-> Cardinality(DOMAIN rows["bank"])]

BankFormDefaults(place) ==
    IF place.id # None THEN rows["bank"][place.id]
    ELSE [name |-> NoName, order |-> Cardinality(DOMAIN rows["bank"])]

CategoryFormDefaults(place) ==
    IF place.id # None THEN rows["category"][place.id]
    ELSE [name |-> NoName, parent |-> None,
          order |-> Cardinality(SortCategories(rows["category"]))]

UseInitialFormValues(place) ==
    IF place.id # None THEN rows["account"][place.id]
    ELSE [name |-> NoName, bank |-> place.at, unit |-> rows["settings"][Settings].currency,
          order |-> Cardinality({a \in DOMAIN rows["account"] :
                                    rows["account"][a].bank = place.at})]

DefaultValues(place) ==
    CASE place.table = "bank"     -> BankFormDefaults(place)
      [] place.table = "category" -> CategoryFormDefaults(place)
      [] place.table = "account"  -> UseInitialFormValues(place)
      [] place.table = "settings" -> rows["settings"][Settings]

(* The account form throws when it renders a row that has no unit, and     *)
(* takes the page with it.                                                 *)
HasNoUnit(place) ==
    place.table = "account" /\ place.id # None /\ rows["account"][place.id].unit = None

IsWritten(table, id) ==
    \/ <<table, id>> \in unseen
    \/ \E i \in DOMAIN queue : queue[i].place = Edit(table, id)

(* A form just opened.  "behind" is history: a save of its row is under    *)
(* way or was never shown, so it opened with what the row used to be.      *)
OpenedForm(values, behind) ==
    [values |-> values, touched |-> {}, behind |-> behind, sending |-> FALSE]

(* What the user can set each field of a form to.  An account's unit is    *)
(* picked from its list; its other fields are like the name.  The bank     *)
(* form does not turn the order typed into a number, as the category form  *)
(* does, and the schema takes nothing but a number.                        *)
BankFields     == [name |-> Names, order |-> {Text}]
AccountFields  == [name |-> Names]
CategoryFields ==
    [name |-> Names, order |-> Orders, parent |-> SortCategories(rows["category"]) \cup {None}]
SettingsFields ==
    [currency |-> Currencies, excluded |-> SUBSET SortCategories(rows["category"])]

Fields(table) ==
    CASE table = "bank"     -> BankFields
      [] table = "account"  -> AccountFields
      [] table = "category" -> CategoryFields
      [] table = "settings" -> SettingsFields

(* React drops the forms whose items it no longer draws, or draws in       *)
(* another list; a call of such a form has nothing left to close.          *)
WithForms(keep, calls) ==
    [i \in DOMAIN calls |-> [calls[i] EXCEPT !.mounted = @ /\ calls[i].place \in keep]]

------------------------------------------------------------------------------
Init ==
    /\ saved = InitialRows
    /\ page = "banks"
    /\ rows = InitialRows
    /\ forms = <<>>
    /\ collapsed = {}
    /\ queue = <<>>
    /\ submits = 0 /\ faults = 0
    /\ unseen = {}
    /\ picking = None /\ picker = None

(* The page is only used around the list of units, which is modal.         *)
Idle == page # "crashed" /\ picker = None

(* Bound: forms are opened and filled in while one can still be submitted. *)
MayType == Idle /\ submits < MaxSubmits

Bookkeeping == <<submits, faults>>
Picking     == <<picking, picker>>

(* A page takes the rows as they are and forgets the page before; calls    *)
(* under way go on, and nobody waits for them any more.                    *)
LoadPage(p, opened) ==
    /\ page' = p
    /\ rows' = saved
    /\ forms' = opened
    /\ collapsed' = {}
    /\ queue' = [i \in DOMAIN queue |->
                    [queue[i] EXCEPT !.live = FALSE, !.mounted = FALSE]]
    /\ unseen' = {}
    /\ picking' = None /\ picker' = None
    /\ UNCHANGED <<saved, Bookkeeping>>

LoadBanksPage      == LoadPage("banks", <<>>)
LoadCategoriesPage == LoadPage("categories", <<>>)
LoadDisplaySettingsPage ==
    LET place == Edit("settings", Settings)
    IN  LoadPage("settings", Put(<<>>, place,
            OpenedForm(saved["settings"][Settings],
                       \E i \in DOMAIN queue : queue[i].place = place)))

OpenForm == \E place \in Places :
    /\ MayType
    /\ place \notin DOMAIN forms
    /\ Cardinality(DOMAIN forms) < MaxForms
    /\ IF HasNoUnit(place)
       THEN page' = "crashed" /\ forms' = <<>>
       ELSE /\ forms' = Put(forms, place, OpenedForm(DefaultValues(place),
                                                     IsWritten(place.table, place.id)))
            /\ UNCHANGED page
    /\ UNCHANGED <<saved, rows, collapsed, queue, Bookkeeping, unseen, Picking>>

SetField(place, field, value) ==
    forms' = [forms EXCEPT ![place].values[field] = value,
                           ![place].touched = @ \cup {field}]

ChangeField == \E place \in DOMAIN forms : \E field \in DOMAIN Fields(place.table) :
    \E value \in Fields(place.table)[field] :
    /\ MayType
    /\ ~forms[place].sending
    /\ forms[place].values[field] # value
    /\ SetField(place, field, value)
    /\ UNCHANGED <<saved, page, rows, collapsed, queue, Bookkeeping, unseen, Picking>>

CloseForm == \E place \in DOMAIN forms :
    /\ Idle
    /\ place.table # "settings"
    /\ ~forms[place].sending
    /\ forms' = Restrict(forms, DOMAIN forms \ {place})
    /\ UNCHANGED <<saved, page, rows, collapsed, queue, Bookkeeping, unseen, Picking>>

IsComplete(values) ==
    "name" \in DOMAIN values => values.name # NoName /\ values.order # Text

(* Every form's handleSubmit.                                              *)
HandleSubmit == \E place \in DOMAIN forms :
    /\ MayType
    /\ ~forms[place].sending
    /\ IsComplete(forms[place].values)
    /\ place.id = None => Cardinality(DOMAIN saved[place.table]) < MaxRows[place.table]
    /\ forms' = [forms EXCEPT ![place].sending = TRUE]
    /\ queue' = Append(queue, [place |-> place, data |-> forms[place].values,
                               touched |-> forms[place].touched,
                               behind |-> forms[place].behind,
                               state |-> "called", id |-> place.id,
                               live |-> TRUE, mounted |-> TRUE])
    /\ submits' = submits + 1
    /\ UNCHANGED <<saved, page, rows, collapsed, faults, unseen, Picking>>

------------------------------------------------------------------------------
(* The server's side of an action: the whole row is written, under a new   *)
(* id when it has none.  What it checks again has been checked in the form *)
(* (a name, a currency) or cannot fail (the categories excluded exist: no  *)
(* category is ever deleted); a parent is not checked.                     *)
NewId(table) == Cardinality(DOMAIN saved[table]) + 1

Write(table) ==
    /\ queue # <<>> /\ Head(queue).state = "called"
    /\ Head(queue).place.table = table
    /\ LET call == Head(queue)
           id   == IF call.place.id = None THEN NewId(table) ELSE call.place.id
       IN  /\ saved' = [saved EXCEPT ![table] = Put(@, id, call.data)]
           /\ unseen' = unseen \cup {<<table, id>>}
           /\ queue' = <<[call EXCEPT !.state = "written", !.id = id]>> \o Tail(queue)
    /\ UNCHANGED <<page, rows, forms, collapsed, Bookkeeping, Picking>>

UpsertBank            == Write("bank")
UpsertBankAccount     == Write("account")
UpsertCategory        == Write("category")
UpdateDisplaySettings == Write("settings")

\* Mutant: a row the page does not have yet is not appended.
UpdateOnly(list, id, item) ==
    [i \in DOMAIN list |-> IF i = id THEN item ELSE list[i]]

UpdateOrAppend(list, id, item) ==
    [i \in DOMAIN list \cup {id} |-> IF i = id THEN item ELSE list[i]]

(* What an action returns: the row written, of an account without its unit. *)
Returned(call) ==
    IF call.place.table = "account" THEN [call.data EXCEPT !.unit = None] ELSE call.data

(* The forms that outlive an answer: not the one it closes, nor those of   *)
(* categories it moves or hides.                                           *)
StaysOpen(place, call, new) ==
    /\ ~(place = call.place /\ call.mounted)
    /\ place.table = "category" /\ place.id # None =>
         /\ place.id \in ShownCategories(new["category"], collapsed)
         /\ GetAncestors(new["category"], place.id) = GetAncestors(rows["category"], place.id)

Heard(call) ==
    /\ queue # <<>> /\ call.state = "written" /\ call.live
    /\ page # "crashed"
    /\ unseen' = unseen \ {<<call.place.table, call.id>>}
    /\ UNCHANGED <<saved, page, collapsed, Bookkeeping, picking>>

OnAddedOrUpdated ==
    LET call  == Head(queue)
        table == call.place.table
        new   == [rows EXCEPT ![table] = UpdateOrAppend(@, call.id, Returned(call))]
        keep  == {place \in DOMAIN forms : StaysOpen(place, call, new)}
    IN  /\ Heard(call)
        /\ table # "settings"
        /\ rows' = new
        /\ forms' = Restrict(forms, keep)
        /\ queue' = WithForms(keep, Tail(queue))
        /\ picker' = Rerendered(picker)

(* The settings form stays as it is and reports the success.               *)
SetDbDisplaySettings ==
    LET call == Head(queue)
    IN  /\ Heard(call)
        /\ call.place.table = "settings"
        /\ rows' = [rows EXCEPT !["settings"][Settings] = Returned(call)]
        /\ forms' = [forms EXCEPT ![call.place].sending = FALSE]
        /\ queue' = Tail(queue)
        /\ UNCHANGED picker

(* The page that called is gone: nobody hears the answer.                  *)
HearNothing ==
    /\ queue # <<>> /\ Head(queue).state = "written"
    /\ ~Head(queue).live \/ page = "crashed"
    /\ queue' = Tail(queue)
    /\ UNCHANGED <<saved, page, rows, forms, collapsed, Bookkeeping, unseen, Picking>>

(* The action failed, before or after it wrote: the form stays open and    *)
(* says so.                                                                *)
HearError ==
    /\ queue # <<>>
    /\ faults < MaxFaults
    /\ LET call == Head(queue)
       IN  forms' = IF call.mounted /\ call.place \in DOMAIN forms
                    THEN [forms EXCEPT ![call.place].sending = FALSE] ELSE forms
    /\ queue' = Tail(queue)
    /\ faults' = faults + 1
    /\ UNCHANGED <<saved, page, rows, collapsed, submits, unseen, Picking>>

------------------------------------------------------------------------------
Fold(folded) ==
    /\ page = "categories"
    /\ LET keep == {place \in DOMAIN forms : place.id # None =>
                       place.id \in ShownCategories(rows["category"], folded)}
       IN  /\ forms' = Restrict(forms, keep)
           /\ queue' = WithForms(keep, queue)
    /\ collapsed' = folded
    /\ UNCHANGED <<saved, page, rows, Bookkeeping, unseen, Picking>>

ToggleCollapsedState == \E c \in ShownCategories(rows["category"], collapsed) :
    Fold(IF c \in collapsed THEN collapsed \ {c} ELSE collapsed \cup {c})

ToggleCollapsedStateAll ==
    /\ ~(Actions \subseteq DOMAIN forms)
    /\ Fold(IF collapsed # {} THEN {} ELSE SortCategories(rows["category"]))

OpenPicker == \E place \in DOMAIN forms :
    /\ MayType
    /\ place.table = "account"
    /\ ~forms[place].sending
    /\ picking' = place
    /\ picker' = OpenedPicker
    /\ UNCHANGED <<saved, page, rows, forms, collapsed, queue, Bookkeeping, unseen>>

SearchUnits ==
    /\ picker # None
    /\ Search
    /\ UNCHANGED <<saved, page, rows, forms, collapsed, queue, Bookkeeping, unseen, picking>>

PickUnit == \E u \in Units :
    /\ picker # None
    /\ Offers(u)
    /\ SetField(picking, "unit", u)
    /\ picking' = None /\ picker' = None
    /\ UNCHANGED <<saved, page, rows, collapsed, queue, Bookkeeping, unseen>>

ClosePicker ==
    /\ picker # None
    /\ picking' = None /\ picker' = None
    /\ UNCHANGED <<saved, page, rows, forms, collapsed, queue, Bookkeeping, unseen>>

Next ==
    \/ LoadBanksPage \/ LoadCategoriesPage \/ LoadDisplaySettingsPage
    \/ OpenForm \/ ChangeField \/ CloseForm \/ HandleSubmit
    \/ UpsertBank \/ UpsertBankAccount \/ UpsertCategory \/ UpdateDisplaySettings
    \/ OnAddedOrUpdated \/ SetDbDisplaySettings \/ HearNothing \/ HearError
    \/ ToggleCollapsedState \/ ToggleCollapsedStateAll
    \/ OpenPicker \/ SearchUnits \/ PickUnit \/ ClosePicker

Spec == Init /\ [][Next]_vars
=============================================================================
