------------------------------ MODULE MCLedger ------------------------------
(* Values of Ledger's constants for TLC. *)
EXTENDS LedgerEvents, TLC

\* Trip names compare case-insensitively: "Rome" and "rome" are one trip.
MCTripKey == [t \in Trips |-> "rome"]

SessionSymmetry == Permutations(Sessions)
==============================================================================
