----------------------------- MODULE LedgerView -----------------------------
(***************************************************************************)
(* Reading the ledger.  Transaction rows are never updated: an edit inserts *)
(* a row whose sup (supersedesId) names the row it replaces, and every      *)
(* reader works out for itself which rows are current.  There are three     *)
(* readers: ChainHead in the backend write path, snapshot.New in the        *)
(* suggestion pipeline and latestVersionOnly in the web client.             *)
(* A database d has d.txs, d.links, d.names, d.origins and d.acct.          *)
(***************************************************************************)
EXTENDS Books, FiniteSets

NoId == 0   \* NULL in an id column; AUTO_INCREMENT starts at 1

Ids(txs) == {t.id : t \in txs}

TxOf(d, id) == CHOOSE t \in d.txs : t.id = id

Superseded(txs) == {t.sup : t \in txs} \ {NoId}

\* Rows no other row of the set supersedes.
Heads(txs) == {t \in txs : t.id \notin Superseded(txs)}

\* common.ChainHead fails unless this holds.
HasOneHead(txs) == Cardinality(Heads(txs)) = 1

\* The rows both snapshot.New and the client keep.
LatestVersions(d) == {t \in Heads(d.txs) : ~t.void}

DebtLinks(d) == {l \in d.links : l.type = "DEBT_SETTLING"}

Repayments(d) == {l.linked : l \in DebtLinks(d)}

IsExpense(t) == t.type \in {"EXPENSE", "THIRD_PARTY_EXPENSE"}

------------------------------------------------------------------------------
\* What the web client needs of the data it loads, or it throws and shows
\* no page at all.

OneVersionPerIid(d) ==
  \A t, u \in LatestVersions(d) : t.iid = u.iid => t = u

Converts(t) ==
  \/ /\ t.type \in {"EXPENSE", "INCOME"}
     /\ LinesOn(t.lines, "ASSET") # {}
  \/ /\ t.type = "THIRD_PARTY_EXPENSE"
     /\ t.splits # {}
     /\ LinesOn(t.lines, "RECEIVABLE") # {}
     /\ \E i \in LinesOn(t.lines, "EXPENSE") : t.lines[i].unit \in Currencies
  \/ /\ t.type = "TRANSFER"
     /\ \E i, j \in LinesOn(t.lines, "ASSET") :
          t.lines[i].amt < 0 /\ t.lines[j].amt > 0
  \/ /\ t.type = "OPENING_BALANCE"
     /\ Cardinality(LinesOn(t.lines, "ASSET")) = 1

\* Links with a superseded side are skipped; the others must join rows of
\* the right kinds.
LinkConverts(d, l) ==
  \/ l.source \in Superseded(d.txs)
  \/ l.linked \in Superseded(d.txs)
  \/ \E t, u \in LatestVersions(d) :
       /\ t.id = l.source
       /\ u.id = l.linked
       /\ \/ l.type = "REFUND" /\ IsExpense(t) /\ u.type = "INCOME"
          \/ /\ l.type = "DEBT_SETTLING"
             /\ t.type = "THIRD_PARTY_EXPENSE"
             /\ u.type = "EXPENSE"

Renders(d) ==
  /\ OneVersionPerIid(d)
  /\ \A t \in LatestVersions(d) : Converts(t)
  /\ \A l \in d.links : LinkConverts(d, l)

------------------------------------------------------------------------------
\* snapshot.CurrentVersion: follow the chain from id to its current row,
\* NoId when the chain ends in a void or unknown row.  A row is superseded
\* only by a row with a greater id, so the walk ends; when several rows
\* supersede the same one the last of them in table order wins.

SupersededBy(d, id) ==
  LET next == {t.id : t \in {u \in d.txs : u.sup = id}}
  IN  IF next = {} THEN NoId ELSE CHOOSE n \in next : \A m \in next : m <= n

\* Mutant: one step along the chain instead of a walk to its end.
CurrentVersionOneStep(d, last) ==
  [id \in 1 .. last |->
     IF SupersededBy(d, id) = NoId THEN id ELSE SupersededBy(d, id)]

CurrentVersion(d, last) ==
  LET walk[k \in 0 .. last] ==
        LET id == last - k
            next == SupersededBy(d, id)
        IN  IF id # NoId /\ next # NoId /\ next \in id + 1 .. last
            THEN walk[last - next]
            ELSE IF \E t \in LatestVersions(d) : t.id = id THEN id ELSE NoId
  IN  [id \in 1 .. last |-> walk[last - id]]
==============================================================================
