----------------------------- MODULE Connections -----------------------------
(***************************************************************************)
(* Connections of banks to their open banking providers (backend/           *)
(* openbanking: truelayer, gocardless, starling and the connection half of  *)
(* service.go; frontend: the routes under app/api/open-banking and the      *)
(* mapping page).  A provider has a table of tokens, one row per bank;      *)
(* GoCardless also keeps the requisition the user is to authorise.  Every   *)
(* request takes several statements and calls of the provider, each of      *)
(* which commits by itself, so that requests run between one another's      *)
(* steps.  Any use of a token may find it expired and refresh it.           *)
(*                                                                          *)
(* The pages are links that a browser keeps: a request may be made at any   *)
(* time, and the answer of a bank's authorisation page may come late, twice *)
(* or never.  Left out: institutions, account names, wasReconnect (it       *)
(* chooses the page shown after a connect) and whatever only reads.         *)
(***************************************************************************)
EXTENDS Integers, FiniteSets

CONSTANTS
  Banks,
  Accounts,      \* internal accounts that a bank's mapping may name
  Tabs,          \* requests of the connection pages in flight at once
  Fetches,       \* uses of a token by FetchNow and the scheduler at once
  OneAtATime,    \* whether connects and disconnects of a bank never overlap
  MaxListed,     \* bound: accounts that a provider reports
  MaxReference   \* bound: requisitions

ASSUME LimitsAssumption == MaxListed \in Nat /\ MaxReference \in Nat

ASSUME ProcessesAssumption == Tabs \cap Fetches = {}

Procs == Tabs \cup Fetches

Providers == {"TrueLayer", "GoCardless", "Starling"}

VARIABLES
  token,         \* by bank and provider: no row, or how long its row is good
  requisition,   \* by bank: its GoCardlessRequisition row
  mapped,        \* by bank: accounts with an ExternalAccountMapping row
  listed,        \* by bank: accounts its open mapping page shows
  nextReference, \* references given to requisitions are never given again
  links,         \* references whose authorisation link a browser was sent to
  returned,      \* history: references browsers came back with
  proc           \* each request in flight

vars == <<token, requisition, mapped, listed, nextReference, links, returned,
          proc>>

tables == <<token, requisition, mapped>>
browser == <<listed, links, returned>>

\* "fresh": the access token is valid; "stale": only the refresh token is;
\* "expired": neither is.
NoRequisition == [reference |-> 0, completed |-> FALSE]

Idle == [pc |-> "idle", kind |-> "none", bank |-> "none", prov |-> "none",
         reference |-> 0]

Init ==
  /\ token = [b \in Banks |-> [p \in Providers |-> "none"]]
  /\ requisition = [b \in Banks |-> NoRequisition]
  /\ mapped = [b \in Banks |-> {}]
  /\ listed = [b \in Banks |-> 0]
  /\ nextReference = 1
  /\ links = {} /\ returned = {}
  /\ proc = [x \in Procs |-> Idle]

HasToken(b, p) == token[b][p] # "none"

\* Connects and disconnects of a bank, under way.
Changing(b) ==
  {x \in Procs : proc[x].bank = b /\ proc[x].kind \in {"connect", "disconnect"}}

MayChange(b) == OneAtATime => Changing(b) = {}

Start(x, kind, b, p, pc) ==
  /\ proc[x].pc = "idle"
  /\ proc' = [proc EXCEPT ![x] = [Idle EXCEPT !.pc = pc, !.kind = kind,
                                              !.bank = b, !.prov = p]]

GoTo(x, pc) ==
  proc' = [proc EXCEPT ![x] = IF pc = "idle" THEN Idle ELSE [@ EXCEPT !.pc = pc]]

\* providerForBank: the first table with a row for the bank.
ProviderForBank(b) ==
  IF HasToken(b, "TrueLayer") THEN "TrueLayer"
  ELSE IF HasToken(b, "GoCardless") THEN "GoCardless"
  ELSE IF HasToken(b, "Starling") THEN "Starling"
  ELSE "none"

------------------------------------------------------------------------------
\* accessToken: read the row, refresh what expired, go on with the caller.

\* Time passes.  Starling's tokens are stored as good for a hundred years.
Expire(b, p) ==
  /\ p # "Starling"
  /\ \E t \in {"stale", "expired"} :
       /\ token[b][p] = "fresh" \/ (token[b][p] = "stale" /\ t = "expired")
       /\ token' = [token EXCEPT ![b][p] = t]
  /\ UNCHANGED <<requisition, mapped, nextReference, browser, proc>>

\* Where a caller goes without a token: only a disconnect goes on.
Without(x) ==
  IF proc[x].kind = "disconnect"
  THEN IF proc[x].prov = "GoCardless" THEN "dropRequisition" ELSE "dropToken"
  ELSE "idle"

\* Where it goes with one: a disconnect revokes it, whatever comes of that.
With(x) ==
  CASE proc[x].kind = "list" -> "list"
    [] proc[x].kind = "connect" -> "authorise"
    [] OTHER -> Without(x)

UseToken(x) ==
  LET b == proc[x].bank
      p == proc[x].prov
      refreshable == token[b][p] = "stale"
                       \/ (token[b][p] = "expired" /\ p = "GoCardless")
  IN /\ proc[x].pc = "use"
     /\ \/ token[b][p] = "fresh" /\ GoTo(x, With(x))
        \/ refreshable /\ GoTo(x, "refresh")
        \/ token[b][p] # "fresh" /\ ~refreshable /\ GoTo(x, Without(x))
     /\ UNCHANGED <<tables, nextReference, browser>>

\* refreshAccessToken and replaceAccessToken: the provider answers or fails.
Refreshed(x) ==
  /\ proc[x].pc = "refresh"
  /\ GoTo(x, "update") \/ GoTo(x, Without(x))
  /\ UNCHANGED <<tables, nextReference, browser>>

\* Mutant: stored as after a connect, with ON DUPLICATE KEY UPDATE.
UpdateOrInsertToken(x) ==
  /\ proc[x].pc = "update"
  /\ token' = [token EXCEPT ![proc[x].bank][proc[x].prov] = "fresh"]
  /\ GoTo(x, With(x))
  /\ UNCHANGED <<requisition, mapped, nextReference, browser>>

\* The answer is stored over the row the bank has by then, if it has one.
UpdateToken(x) ==
  /\ proc[x].pc = "update"
  /\ token' = IF HasToken(proc[x].bank, proc[x].prov)
              THEN [token EXCEPT ![proc[x].bank][proc[x].prov] = "fresh"]
              ELSE token
  /\ GoTo(x, With(x))
  /\ UNCHANGED <<requisition, mapped, nextReference, browser>>

\* A fetch of transactions or of a balance, by FetchNow or the scheduler.
Fetch(x, b) ==
  /\ mapped[b] # {} /\ ProviderForBank(b) # "none"
  /\ Start(x, "fetch", b, ProviderForBank(b), "use")
  /\ UNCHANGED <<tables, nextReference, browser>>

------------------------------------------------------------------------------
\* Connecting.

\* CompleteTrueLayerConnection: a browser comes back with a code.
StartTrueLayer(x, b) ==
  /\ MayChange(b)
  /\ Start(x, "connect", b, "TrueLayer", "exchange")
  /\ UNCHANGED <<tables, nextReference, browser>>

\* SetStarlingToken: the user pasted a token.
StartStarling(x, b) ==
  /\ MayChange(b)
  /\ Start(x, "connect", b, "Starling", "store")
  /\ UNCHANGED <<tables, nextReference, browser>>

\* StartGoCardlessConnection, also to connect again: ensureToken counts rows.
StartGoCardless(x, b) ==
  /\ MayChange(b)
  /\ Start(x, "connect", b, "GoCardless",
           IF HasToken(b, "GoCardless") THEN "use" ELSE "exchange")
  /\ UNCHANGED <<tables, nextReference, browser>>

\* The token endpoint answers with a pair of tokens, or fails.
Exchanged(x) ==
  /\ proc[x].pc = "exchange"
  /\ GoTo(x, "store") \/ GoTo(x, "idle")
  /\ UNCHANGED <<tables, nextReference, browser>>

\* TrueLayer's and Starling's row is replaced; the INSERT of a second
\* GoCardless row fails.
StoreToken(x) ==
  LET b == proc[x].bank
      p == proc[x].prov
  IN /\ proc[x].pc = "store"
     /\ \/ /\ p = "GoCardless" /\ HasToken(b, p)
           /\ GoTo(x, "idle")
           /\ UNCHANGED token
        \/ /\ p = "GoCardless" => ~HasToken(b, p)
           /\ token' = [token EXCEPT ![b][p] = "fresh"]
           /\ GoTo(x, IF p = "GoCardless" THEN "authorise" ELSE "idle")
     /\ UNCHANGED <<requisition, mapped, nextReference, browser>>

\* CreateRequisition asks GoCardless for a requisition with a new reference.
Authorise(x) ==
  /\ proc[x].pc = "authorise"
  /\ nextReference <= MaxReference
  /\ nextReference' = nextReference + 1
  /\ \/ proc' = [proc EXCEPT ![x].pc = "record", ![x].reference = nextReference]
     \/ GoTo(x, "idle")
  /\ UNCHANGED <<tables, browser>>

\* Mutant: the row keeps what it says of being completed.
RecordKeepingCompleted(x) ==
  /\ proc[x].pc = "record"
  /\ requisition' =
       [requisition EXCEPT ![proc[x].bank].reference = proc[x].reference]
  /\ links' = links \cup {proc[x].reference}
  /\ GoTo(x, "idle")
  /\ UNCHANGED <<token, mapped, nextReference, listed, returned>>

\* The bank's row is inserted or replaced, and the browser sent to the link.
Record(x) ==
  /\ proc[x].pc = "record"
  /\ requisition' = [requisition EXCEPT ![proc[x].bank] =
                       [reference |-> proc[x].reference, completed |-> FALSE]]
  /\ links' = links \cup {proc[x].reference}
  /\ GoTo(x, "idle")
  /\ UNCHANGED <<token, mapped, nextReference, listed, returned>>

\* CompleteRequisition reads the row of the reference a browser came back
\* with (there is none when a later requisition replaced it) ...
Return(x, b) ==
  /\ requisition[b].reference \in links
  /\ proc[x].pc = "idle"
  /\ proc' = [proc EXCEPT ![x] =
       [pc |-> "complete", kind |-> "complete", bank |-> b,
        prov |-> "GoCardless", reference |-> requisition[b].reference]]
  /\ returned' = returned \cup {requisition[b].reference}
  /\ UNCHANGED <<tables, nextReference, listed, links>>

\* ... and updates it, if it still is there.
Complete(x) ==
  LET b == proc[x].bank
  IN /\ proc[x].pc = "complete"
     /\ requisition' =
          IF requisition[b].reference = proc[x].reference
          THEN [requisition EXCEPT ![b].completed = TRUE]
          ELSE requisition
     /\ GoTo(x, "idle")
     /\ UNCHANGED <<token, mapped, nextReference, browser>>

------------------------------------------------------------------------------
\* The mapping page.

OpenMapping(x, b) ==
  /\ ProviderForBank(b) # "none"
  /\ Start(x, "list", b, ProviderForBank(b), "use")
  /\ UNCHANGED <<tables, nextReference, browser>>

\* ListExternalAccounts: GoCardless lists those of the requisition.  A page
\* without accounts offers nothing to save.
List(x) ==
  LET b == proc[x].bank
  IN /\ proc[x].pc = "list"
     /\ \/ /\ proc[x].prov = "GoCardless" => requisition[b] # NoRequisition
           /\ \E n \in 0 .. MaxListed : listed' = [listed EXCEPT ![b] = n]
        \/ UNCHANGED listed
     /\ GoTo(x, "idle")
     /\ UNCHANGED <<tables, nextReference, links, returned>>

\* SetMappings, from a page of any age: in one transaction the bank's rows are
\* deleted and one is inserted for each account the page shows, each to
\* another internal account (the unique index refuses anything else, and the
\* route refuses "None").
SetMappings(b) ==
  /\ listed[b] > 0
  /\ \E s \in SUBSET Accounts :
       /\ Cardinality(s) = listed[b]
       /\ mapped' = [mapped EXCEPT ![b] = s]
  /\ UNCHANGED <<token, requisition, nextReference, browser, proc>>

------------------------------------------------------------------------------
\* Disconnecting: revoke if possible, then one DELETE after the other.

Disconnect(x, b) ==
  LET p == ProviderForBank(b)
      revocable == p = "TrueLayer"
                     \/ (p = "GoCardless" /\ requisition[b] # NoRequisition)
  IN /\ MayChange(b)
     /\ p # "none"
     /\ Start(x, "disconnect", b, p,
              IF revocable THEN "use"
              ELSE IF p = "GoCardless" THEN "dropRequisition" ELSE "dropToken")
     /\ UNCHANGED <<tables, nextReference, browser>>

\* Mutant: the row is kept, for ReconnectURL to find its institution.
KeepRequisition(x) ==
  /\ proc[x].pc = "dropRequisition"
  /\ GoTo(x, "dropToken")
  /\ UNCHANGED <<tables, nextReference, browser>>

DropRequisition(x) ==
  /\ proc[x].pc = "dropRequisition"
  /\ requisition' = [requisition EXCEPT ![proc[x].bank] = NoRequisition]
  /\ GoTo(x, "dropToken")
  /\ UNCHANGED <<token, mapped, nextReference, browser>>

DropToken(x) ==
  /\ proc[x].pc = "dropToken"
  /\ token' = [token EXCEPT ![proc[x].bank][proc[x].prov] = "none"]
  /\ GoTo(x, "dropMapping")
  /\ UNCHANGED <<requisition, mapped, nextReference, browser>>

DropMapping(x) ==
  /\ proc[x].pc = "dropMapping"
  /\ mapped' = [mapped EXCEPT ![proc[x].bank] = {}]
  /\ GoTo(x, "idle")
  /\ UNCHANGED <<token, requisition, nextReference, browser>>

------------------------------------------------------------------------------
\* A database error, a cancelled request, a restart of the server.
Fail(x) ==
  /\ proc[x].pc # "idle"
  /\ GoTo(x, "idle")
  /\ UNCHANGED <<tables, nextReference, browser>>

TokenStep(x) == UseToken(x) \/ Refreshed(x) \/ UpdateToken(x)

ConnectStep(x) ==
  Exchanged(x) \/ StoreToken(x) \/ Authorise(x) \/ Record(x) \/ Complete(x)

DisconnectStep(x) == DropRequisition(x) \/ DropToken(x) \/ DropMapping(x)

Next ==
  \/ \E x \in Procs :
       TokenStep(x) \/ ConnectStep(x) \/ List(x) \/ DisconnectStep(x) \/ Fail(x)
  \/ \E x \in Fetches, b \in Banks : Fetch(x, b)
  \/ \E x \in Tabs, b \in Banks :
       \/ StartTrueLayer(x, b) \/ StartStarling(x, b) \/ StartGoCardless(x, b)
       \/ Return(x, b) \/ OpenMapping(x, b) \/ Disconnect(x, b)
  \/ \E b \in Banks : SetMappings(b) \/ \E p \in Providers : Expire(b, p)

Spec == Init /\ [][Next]_vars
==============================================================================
