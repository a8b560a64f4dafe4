----------------------------- MODULE MCSessions -----------------------------
(* Sessions on small instances. *)
EXTENDS SessionsSafety, TLC

Symmetry == Permutations(Requests) \cup Permutations(Tokens)
==============================================================================
