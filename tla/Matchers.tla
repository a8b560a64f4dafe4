------------------------------ MODULE Matchers ------------------------------
(***************************************************************************)
(* Which transactions a parsed query keeps: lib/search/matchers.tsx, the   *)
(* visitor over the tree and the search itself.  The result of a search is *)
(* a set of transactions; the page keeps the order they had.               *)
(*                                                                         *)
(* Text is compared by words.  Lower gives the lower case of a word that   *)
(* has capitals, PartOf the words that are parts of another, AmountOf and  *)
(* DateOf what a word means when it reads as an amount or as a date.        *)
(***************************************************************************)
EXTENDS Query, Market, TLC

CONSTANTS Lower, PartOf, AmountOf, DateOf

LowerCase(word) == IF word \in DOMAIN Lower THEN Lower[word] ELSE word
Folded(text)    == [i \in DOMAIN text |-> LowerCase(text[i])]

Within(text, name) ==
    \E at \in 0 .. Len(name) - Len(text) : \A i \in DOMAIN text :
        text[i] = name[at + i] \/ <<text[i], name[at + i]>> \in PartOf

Includes(name, text, exact) ==
    IF exact THEN Within(text, name) ELSE Within(Folded(text), Folded(name))

IncludesIgnoreCase(word, options) == LowerCase(word) \in options

IsId(id, text) == text = <<ToString(id)>>

(* parseAmountAsNanos: 0 stands for what is no amount, as in the code.     *)
Amount(text) ==
    IF Len(text) = 1 /\ text[1] \in DOMAIN AmountOf THEN AmountOf[text[1]] ELSE 0
IsDay(text) == Len(text) = 1 /\ text[1] \in DOMAIN DateOf

------------------------------------------------------------------------------
MatchNote(t, text, exact) == ~IsOpeningBalance(t) /\ Includes(t.note, text, exact)

MatchVendor(t, text, exact) == IsExpense(t) /\ Includes(t.vendor, text, exact)

MatchPayer(t, text, exact) == IsIncome(t) /\ Includes(t.payer, text, exact)

MatchOtherParty(t, text, exact) ==
    OtherPartyName(t) # None /\ Includes(OtherPartyName(t), text, exact)

AmountsOf(t) == IF IsTransfer(t) THEN {t.amount, t.received} ELSE {t.amount}

MatchAmount(t, text) == Amount(text) # 0 /\ Amount(text) \in AmountsOf(t)

CompareAmount(t, op, text) ==
    /\ Amount(text) # 0
    /\ \E amount \in AmountsOf(t) :
          CASE op = "<"  -> amount < Amount(text)
            [] op = "<=" -> amount <= Amount(text)
            [] op = ">"  -> amount > Amount(text)
            [] op = ">=" -> amount >= Amount(text)

MatchTransactionId(t, text) == IsId(t.id, text)

MatchBank(t, text, exact) ==
    \E b \in BanksOf(t) : Includes(Core.banks[b], text, exact)

MatchBankId(t, text) == \E b \in BanksOf(t) : IsId(b, text)

MatchBankAccount(t, text, exact) ==
    \E a \in BankAccountsOf(t) : Includes(Core.accounts[a].name, text, exact)

MatchBankAccountId(t, text) == \E a \in BankAccountsOf(t) : IsId(a, text)

MatchCategory(t, text, exact) ==
    /\ ~IsOpeningBalance(t)
    /\ Includes(NameWithAncestors(t.category), text, exact)

MatchCategoryId(t, text) == ~IsOpeningBalance(t) /\ IsId(t.category, text)

OnTrip(t) == ~IsTransfer(t) /\ ~IsOpeningBalance(t) /\ t.trip # None

MatchTrip(t, text, exact) ==
    OnTrip(t) /\ t.trip \in DOMAIN Core.trips /\ Includes(Core.trips[t.trip], text, exact)

MatchTripId(t, text) == OnTrip(t) /\ IsId(t.trip, text)

MatchTag(t, text, exact) ==
    ~IsOpeningBalance(t) /\ \E g \in t.tags : Includes(Core.tags[g], text, exact)

MatchTagId(t, text) == ~IsOpeningBalance(t) /\ \E g \in t.tags : IsId(g, text)

MatchDate(t, text) == IsDay(text) /\ DayOf(t.time) = DateOf[text[1]]

CompareDate(t, op, text) ==
    /\ IsDay(text)
    /\ LET day == DateOf[text[1]]
       IN  CASE op = "<"  -> DayOf(t.time) < day
             [] op = "<=" -> DayOf(t.time) <= day
             [] op = ">"  -> DayOf(t.time) > day
             [] op = ">=" -> DayOf(t.time) >= day

MatchType(t, text) ==
    /\ Len(text) = 1
    /\ LET type == LowerCase(text[1])
       IN  \/ type = "transfer" /\ IsTransfer(t)
           \/ type = "income" /\ IsIncome(t)
           \/ type = "expense" /\ IsExpense(t)
           \/ type = "personal" /\ IsPersonalExpense(t)
           \/ type \in {"thirdparty", "external"} /\ IsThirdPartyExpense(t)

MatchAnyField(t, text, exact) ==
    \/ MatchNote(t, text, exact)
    \/ MatchVendor(t, text, exact)
    \/ MatchPayer(t, text, exact)
    \/ MatchOtherParty(t, text, exact)
    \/ MatchAmount(t, text)
    \/ MatchTransactionId(t, text)
    \/ MatchBank(t, text, exact)
    \/ MatchBankAccount(t, text, exact)
    \/ MatchCategory(t, text, exact)
    \/ MatchTrip(t, text, exact)
    \/ MatchTag(t, text, exact)
    \/ MatchDate(t, text)
    \/ MatchType(t, text)

(* The first name a field goes by wins: "d" is the note here.              *)
MatchField(t, field, text, exact) ==
    CASE IncludesIgnoreCase(field, {"note", "description", "d"}) ->
            MatchNote(t, text, exact)
      [] IncludesIgnoreCase(field, {"vendor", "payee", "recipient", "v"}) ->
            MatchVendor(t, text, exact)
      [] IncludesIgnoreCase(field, {"payer"}) -> MatchPayer(t, text, exact)
      [] IncludesIgnoreCase(field, {"otherparty", "splitwith"}) ->
            MatchOtherParty(t, text, exact)
      [] IncludesIgnoreCase(field, {"amount", "amt", "price"}) -> MatchAmount(t, text)
      [] IncludesIgnoreCase(field, {"id"}) -> MatchTransactionId(t, text)
      [] IncludesIgnoreCase(field, {"bank", "b"}) ->
            MatchBankId(t, text) \/ MatchBank(t, text, exact)
      [] IncludesIgnoreCase(field, {"account", "acc"}) ->
            MatchBankAccountId(t, text) \/ MatchBankAccount(t, text, exact)
      [] IncludesIgnoreCase(field, {"category", "c"}) ->
            MatchCategoryId(t, text) \/ MatchCategory(t, text, exact)
      [] IncludesIgnoreCase(field, {"trip"}) ->
            MatchTripId(t, text) \/ MatchTrip(t, text, exact)
      [] IncludesIgnoreCase(field, {"tag"}) ->
            MatchTagId(t, text) \/ MatchTag(t, text, exact)
      [] IncludesIgnoreCase(field, {"date", "on"}) -> MatchDate(t, text)
      [] IncludesIgnoreCase(field, {"type", "t"}) -> MatchType(t, text)
      [] OTHER -> FALSE

CompareField(t, field, op, text) ==
    CASE IncludesIgnoreCase(field, {"amount", "amt", "price"}) ->
            CompareAmount(t, op, text)
      [] IncludesIgnoreCase(field, {"date", "d"}) -> CompareDate(t, op, text)
      [] OTHER -> FALSE

------------------------------------------------------------------------------
(* A quoted word is looked for as it is written, another in any case.      *)
IsExact(word)  == word \in DOMAIN Quoted
TermText(word) == IF IsExact(word) THEN Quoted[word] ELSE <<word>>

VisitTerm(txs, word) ==
    {t \in txs : MatchAnyField(t, TermText(word), IsExact(word))}

VisitFieldMatchExpr(txs, words) ==
    {t \in txs :
        MatchField(t, words[1], TermText(words[2]), IsExact(words[2]))}

VisitFieldCompareExpr(txs, words) ==
    {t \in txs : CompareField(t, words[1], words[2], <<words[3]>>)}

(* A node is given what the nodes below it keep: kept, of each kid.        *)
VisitDisjQuery(txs, kept) == UNION kept
VisitConjQuery(txs, kept) == {t \in txs : \A some \in kept : t \in some}
VisitNot(txs, kept)       == txs \ UNION kept

VisitClause(txs, node, kept) ==
    CASE node.rule = "or"           -> VisitDisjQuery(txs, kept)
      [] node.rule = "and"          -> VisitConjQuery(txs, kept)
      [] node.rule = "not"          -> VisitNot(txs, kept)
      [] node.rule = "term"         -> VisitTerm(txs, node.words[1])
      [] node.rule = "fieldMatch"   -> VisitFieldMatchExpr(txs, node.words)
      [] node.rule = "fieldCompare" -> VisitFieldCompareExpr(txs, node.words)

(* The nodes of a tree, by the number of steps from its root.              *)
NodesOf(tree, height) ==
    LET below[n \in 0 .. height] ==
            IF n = 0 THEN {tree} ELSE UNION {Range(node.kids) : node \in below[n - 1]}
    IN  UNION {below[n] : n \in 0 .. height}

Visit(txs, tree, height) ==
    LET visit[node \in NodesOf(tree, height)] ==
            VisitClause(txs, node, {visit[node.kids[i]] : i \in DOMAIN node.kids})
    IN  visit[tree]

(* A rule goes through at most two others and a NOT to the next lexeme.    *)
Height(text) == 4 * (Len(text) + 1)

NoSearch(txs, text)       == {}
FallbackSearch(txs, text) == {t \in txs : MatchAnyField(t, text, FALSE)}

(* What was matched is looked up in the list again.                        *)
ResultOf(txs, text, parsed) ==
    IF parsed.ok THEN {t \in txs : t \in Visit(txs, parsed.tree, Height(text))}
    ELSE FallbackSearch(txs, text)

Search(txs, text) ==
    IF text = <<>> THEN txs ELSE ResultOf(txs, text, Parse(text))
=============================================================================
