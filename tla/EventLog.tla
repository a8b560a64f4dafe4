------------------------------ MODULE EventLog ------------------------------
(***************************************************************************)
(* What the ledger promises its readers: a log of financial events, each    *)
(* with exactly one current version.  A write records new events or revises *)
(* recorded ones; it touches the event of the form and, for a repaid        *)
(* expense, the event of the repayment, and nothing else.  An event never   *)
(* disappears and a version never comes back.                               *)
(***************************************************************************)
EXTENDS Naturals

CONSTANTS
  EventIds,     \* iids
  VersionIds    \* ids of transaction rows

VARIABLE current   \* the current version of each recorded event

Recorded == DOMAIN current

Init == current = [e \in {} |-> 0]

\* A write of the events evs gives each of them a version newer than any
\* version that is current, and leaves the others alone.
Write(evs) ==
  /\ DOMAIN current' = Recorded \cup evs
  /\ \A e \in evs :
       /\ current'[e] \in VersionIds
       /\ \A f \in Recorded : current'[e] > current[f]
       /\ \A f \in evs \ {e} : current'[e] # current'[f]
  /\ \A e \in Recorded \ evs : current'[e] = current[e]

\* One event is written, or two.
Next == \E e, f \in EventIds : Write({e, f})

Spec == Init /\ [][Next]_current
==============================================================================
