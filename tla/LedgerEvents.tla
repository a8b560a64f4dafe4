---------------------------- MODULE LedgerEvents ----------------------------
(***************************************************************************)
(* The ledger as its readers see it: the function from each iid to the row  *)
(* that is current.  With one tab open, and as long as repayments are       *)
(* edited through their expense, the ledger implements EventLog.            *)
(***************************************************************************)
EXTENDS LedgerSafety

CurrentRow ==
  [i \in {t.iid : t \in LatestVersions(db)} |->
     CHOOSE n \in {t.id : t \in {u \in LatestVersions(db) : u.iid = i}} : TRUE]

\* Every committed write is one abstract write: it gives the event of the
\* form, and the event of its repayment, one new current row each.
Log == INSTANCE EventLog WITH
         current <- CurrentRow, EventIds <- 1 .. MaxId, VersionIds <- 1 .. MaxId

ImplementsEventLog == Log!Spec
==============================================================================
