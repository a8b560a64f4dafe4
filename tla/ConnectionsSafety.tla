-------------------------- MODULE ConnectionsSafety --------------------------
(***************************************************************************)
(* What the connections of banks must keep true.                            *)
(***************************************************************************)
EXTENDS Connections

Reference == 0 .. MaxReference

Places ==
  {"idle", "use", "refresh", "update", "exchange", "store", "authorise",
   "record", "complete", "list", "dropRequisition", "dropToken", "dropMapping"}

Request ==
  [pc : Places,
   kind : {"none", "fetch", "connect", "complete", "list", "disconnect"},
   bank : Banks \cup {"none"}, prov : Providers \cup {"none"},
   reference : Reference]

\* The type invariant.
TypeOK ==
  /\ token \in [Banks -> [Providers -> {"none", "fresh", "stale", "expired"}]]
  /\ requisition \in [Banks -> [reference : Reference, completed : BOOLEAN]]
  /\ mapped \in [Banks -> SUBSET Accounts]
  /\ listed \in [Banks -> 0 .. MaxListed]
  /\ nextReference \in 1 .. MaxReference + 1
  /\ links \subseteq Reference /\ returned \subseteq Reference
  /\ proc \in [Procs -> Request]
  /\ \A x \in Procs :
       proc[x].pc # "idle" => proc[x].bank \in Banks /\ proc[x].prov \in Providers

------------------------------------------------------------------------------
\* A disconnected bank stays disconnected until the user connects it again:
\* whatever refreshes were under way when its row went, no step brings a row
\* back but one of a connection the user asked for ("removes its locally
\* stored credentials", service.go:287).
StaysDisconnected ==
  [][\A b \in Banks, p \in Providers :
       ~HasToken(b, p) /\ HasToken(b, p)' =>
         \E x \in Procs : /\ proc[x].kind = "connect"
                          /\ proc[x].bank = b /\ proc[x].prov = p]_vars

\* A requisition is marked completed only for a user who came back from
\* authorising that very requisition, however many were started and abandoned
\* and whichever replaced the row in the meantime ("marks the requisition with
\* the supplied reference as completed", requisition.go:95).
CompletedOnReturn ==
  \A b \in Banks :
    requisition[b].completed => requisition[b].reference \in returned

\* A requisition never outlives the token its account list is read with: it is
\* recorded after the token and deleted before it, at whichever statement a
\* request stops (CreateRequisition, Disconnect).
RequisitionHasToken ==
  \A b \in Banks :
    requisition[b] # NoRequisition => HasToken(b, "GoCardless")

\* When a Disconnect has come to its last DELETE, nothing is left of the
\* connection: no refresh that it started itself, or that ran beside it, has
\* written a row again, and no requisition was spared.
DisconnectForgets ==
  \A x \in Procs :
    proc[x].pc = "dropMapping" =>
      /\ ~HasToken(proc[x].bank, proc[x].prov)
      /\ proc[x].prov = "GoCardless" =>
           requisition[proc[x].bank] = NoRequisition
==============================================================================
