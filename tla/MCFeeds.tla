------------------------------- MODULE MCFeeds -------------------------------
(* Feeds on small instances. *)
EXTENDS FeedsSafety

CONSTANTS a1, a2, t1, t2, t3

MCOwner1 == [t \in Txs |-> a1]

MCOwner2 == [t \in Txs |-> IF t = t3 THEN a2 ELSE a1]
==============================================================================
