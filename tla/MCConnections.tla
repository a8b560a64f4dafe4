---------------------------- MODULE MCConnections ----------------------------
(* Connections on a small instance. *)
EXTENDS ConnectionsSafety, TLC

MCSymmetry == Permutations(Tabs)
==============================================================================
