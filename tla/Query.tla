------------------------------- MODULE Query -------------------------------
(***************************************************************************)
(* The grammar of the search box (lib/search/TransactionSearchQuery.g4 and *)
(* the parser generated from it).  A text is a sequence of lexemes: the    *)
(* lexer's longest matches, blanks skipped.  A rule takes the lexemes and  *)
(* where it starts, and returns the tree with where it stopped; Rejected   *)
(* stands for any syntax error, after which the tree is not looked at.     *)
(* The rules that call each other are given what the rules below them      *)
(* return: parse, a function of the rule and the place.                    *)
(***************************************************************************)
EXTENDS Integers, Sequences

CONSTANTS
    Quoted,     \* [lexeme that is a quoted string -> the text in the quotes]
    Unlexed     \* lexemes no token but UNKNOWN matches

Kind(lexeme) ==
    CASE lexeme \in {"AND", "&&"}     -> "AND"
      [] lexeme \in {"OR", "||"}      -> "OR"
      [] lexeme \in {"NOT", "!", "-"} -> "NOT"
      [] lexeme \in {"+", "(", ")", ":", "=", "<", "<=", ">", ">="} -> lexeme
      [] lexeme \in DOMAIN Quoted     -> "QUOTED"
      [] lexeme \in Unlexed           -> "UNKNOWN"
      [] OTHER                        -> "TERM"

CompareOps  == {"<", "<=", ">", ">="}
MatchOps    == {":", "="}
Terms       == {"TERM", "QUOTED"}
ClauseStart == Terms \cup {"NOT", "("}

LA(text, at) == IF at \in DOMAIN text THEN Kind(text[at]) ELSE "EOF"

Node(rule, kids, words) == [rule |-> rule, kids |-> kids, words |-> words]
Parsed(node, stop)      == [ok |-> TRUE, tree |-> node, stop |-> stop]
Rejected                == [ok |-> FALSE, tree |-> Node("error", <<>>, <<>>), stop |-> 0]

(* kids of one rule: what was parsed, then the rest of the list.           *)
Joined(first, rest) ==
    IF first.ok /\ rest.ok
    THEN Parsed(Node(rest.tree.rule, <<first.tree>> \o rest.tree.kids, <<>>), rest.stop)
    ELSE Rejected

Single(rule, first) ==
    IF first.ok THEN Parsed(Node(rule, <<first.tree>>, <<>>), first.stop) ELSE Rejected

Rules == {"query", "disjQuery", "conjQuery"}

------------------------------------------------------------------------------
term(text, at) ==
    IF LA(text, at) \in Terms
    THEN Parsed(Node("term", <<>>, <<text[at]>>), at + 1)
    ELSE Rejected

fieldMatchExpr(text, at) ==
    IF LA(text, at + 2) \in Terms
    THEN Parsed(Node("fieldMatch", <<>>, <<text[at], text[at + 2]>>), at + 3)
    ELSE Rejected

fieldCompareExpr(text, at) ==
    IF LA(text, at + 2) = "TERM"
    THEN Parsed(Node("fieldCompare", <<>>, SubSeq(text, at, at + 2)), at + 3)
    ELSE Rejected

Closed(text, inner) ==
    IF inner.ok /\ LA(text, inner.stop) = ")"
    THEN Parsed(inner.tree, inner.stop + 1)
    ELSE Rejected

groupingExpr(parse, text, at) == Closed(text, parse["query", at + 1])

clause(parse, text, at) ==
    CASE LA(text, at) = "TERM" /\ LA(text, at + 1) \in CompareOps ->
            fieldCompareExpr(text, at)
      [] LA(text, at) = "TERM" /\ LA(text, at + 1) \in MatchOps ->
            fieldMatchExpr(text, at)
      [] LA(text, at) = "(" -> groupingExpr(parse, text, at)
      [] OTHER              -> term(text, at)

modClause(parse, text, at) ==
    IF LA(text, at) = "NOT"
    THEN Single("not", clause(parse, text, at + 1))
    ELSE clause(parse, text, at)

ConjRest(parse, text, first) ==
    IF LA(text, first.stop) = "AND"
    THEN Joined(first, parse["conjQuery", first.stop + 1])
    ELSE Single("and", first)

conjQuery(parse, text, at) == ConjRest(parse, text, modClause(parse, text, at))

DisjRest(parse, text, first) ==
    IF LA(text, first.stop) = "OR"
    THEN Joined(first, parse["disjQuery", first.stop + 1])
    ELSE Single("or", first)

disjQuery(parse, text, at) == DisjRest(parse, text, parse["conjQuery", at])

QueryRest(parse, text, first) ==
    IF LA(text, first.stop) \in ClauseStart
    THEN Joined(first, parse["query", first.stop])
    ELSE Single("and", first)

(* The whole of the search box is parsed by this rule and not by rootQuery: *)
(* what follows the first lexeme that cannot start a clause is not read.   *)
query(parse, text, at) == QueryRest(parse, text, parse["disjQuery", at])

Parse(text) ==
    LET parse[rule \in Rules, at \in 1 .. Len(text) + 1] ==
            CASE rule = "query"     -> query(parse, text, at)
              [] rule = "disjQuery" -> disjQuery(parse, text, at)
              [] rule = "conjQuery" -> conjQuery(parse, text, at)
    IN  parse["query", 1]
=============================================================================
