-------------------------- MODULE ConnectionsProofs --------------------------
(***************************************************************************)
(* Proofs about Connections, for any number of banks, requests, fetches and *)
(* requisitions.                                                            *)
(***************************************************************************)
EXTENDS ConnectionsSafety, TLAPS

\* What a request is about, from where it stands.
KindInv ==
  \A x \in Procs :
    /\ proc[x].pc = "idle" => proc[x].kind = "none"
    /\ proc[x].pc \in {"exchange", "store", "authorise", "record"} =>
         proc[x].kind = "connect"
    /\ proc[x].pc \in {"dropRequisition", "dropToken", "dropMapping"} =>
         proc[x].kind = "disconnect"
    /\ proc[x].pc \in {"complete", "list"} =>
         proc[x].kind \in {"complete", "list"}
    /\ \/ proc[x].pc \in {"authorise", "record", "dropRequisition"}
       \/ proc[x].pc \in {"use", "refresh", "update"} /\ proc[x].kind = "connect"
       => proc[x].prov = "GoCardless"

\* A browser has come back with the reference it completes; no reference is
\* the one that stands for no row.
ReturnInv ==
  /\ CompletedOnReturn
  /\ 0 \notin links
  /\ \A x \in Procs :
       /\ proc[x].pc = "complete" => proc[x].reference \in returned
       /\ proc[x].pc \in {"record", "complete"} => proc[x].reference # 0

\* Connects and disconnects of one bank follow one another.
Changes(x) == proc[x].kind \in {"connect", "disconnect"}

ApartInv ==
  \A x, y \in Procs :
    Changes(x) /\ Changes(y) /\ proc[x].bank = proc[y].bank => x = y

\* A connect that has passed ensureToken finds its row until it ends, and a
\* disconnect leaves nothing behind that it has deleted.
HasGoCardless(b) == HasToken(b, "GoCardless")

Passed(x) ==
  \/ proc[x].pc \in {"authorise", "record"}
  \/ proc[x].pc \in {"use", "refresh", "update"} /\ proc[x].kind = "connect"

Dropped(x) ==
  /\ proc[x].pc \in {"dropToken", "dropMapping"}
  /\ proc[x].prov = "GoCardless"

CredentialsInv ==
  /\ RequisitionHasToken
  /\ DisconnectForgets
  /\ \A x \in Procs :
       /\ Passed(x) => HasGoCardless(proc[x].bank)
       /\ Dropped(x) => requisition[proc[x].bank] = NoRequisition

ConnectionsInv ==
  /\ TypeOK /\ KindInv /\ ReturnInv
  /\ OneAtATime => ApartInv /\ CredentialsInv

------------------------------------------------------------------------------
\* The two ways a request moves.

LEMMA IdleTyped == Idle \in Request
  BY LimitsAssumption DEF Idle, Request, Places, Reference

\* GoTo moves one request, and takes nothing but its place from it.
LEMMA Moved ==
  ASSUME TypeOK, NEW x \in Procs, NEW pc \in Places, GoTo(x, pc),
         proc[x].pc # "idle"
  PROVE  /\ proc' \in [Procs -> Request]
         /\ \A y \in Procs : y # x => proc'[y] = proc[y]
         /\ proc'[x].pc = pc
         /\ pc = "idle" => proc'[x] = Idle
         /\ pc # "idle" => /\ proc'[x].kind = proc[x].kind
                           /\ proc'[x].bank = proc[x].bank
                           /\ proc'[x].prov = proc[x].prov
                           /\ proc'[x].reference = proc[x].reference
  <1> DEFINE r == IF pc = "idle" THEN Idle ELSE [proc[x] EXCEPT !.pc = pc]
  <1>1. proc[x] \in Request /\ proc \in [Procs -> Request]
    BY DEF TypeOK
  <1>2. r \in Request /\ r.pc = pc
    BY <1>1, IdleTyped DEF Request, Idle
  <1>3. proc' = [proc EXCEPT ![x] = r]
    BY DEF GoTo
  <1>4. pc # "idle" => /\ r.kind = proc[x].kind /\ r.bank = proc[x].bank
                       /\ r.prov = proc[x].prov
                       /\ r.reference = proc[x].reference
    BY <1>1 DEF Request
  <1> HIDE DEF r
  <1>5. /\ proc' \in [Procs -> Request] /\ proc'[x] = r
        /\ \A y \in Procs : y # x => proc'[y] = proc[y]
    BY <1>1, <1>2, <1>3
  <1> QED
    BY <1>2, <1>4, <1>5 DEF r

\* Start makes a request of an idle one.
LEMMA Started ==
  ASSUME TypeOK, NEW x \in Procs, NEW b \in Banks, NEW p \in Providers,
         NEW kind \in {"fetch", "connect", "list", "disconnect"},
         NEW pc \in Places, Start(x, kind, b, p, pc)
  PROVE  /\ proc' \in [Procs -> Request]
         /\ \A y \in Procs : y # x => proc'[y] = proc[y]
         /\ proc[x].pc = "idle" /\ proc'[x].pc = pc /\ proc'[x].kind = kind
         /\ proc'[x].bank = b /\ proc'[x].prov = p
  <1> DEFINE r == [Idle EXCEPT !.pc = pc, !.kind = kind, !.bank = b, !.prov = p]
  <1>1. /\ r \in Request /\ r.pc = pc /\ r.kind = kind
        /\ r.bank = b /\ r.prov = p
    BY IdleTyped DEF Request, Idle
  <1>2. proc' = [proc EXCEPT ![x] = r] /\ proc[x].pc = "idle"
    BY DEF Start
  <1> HIDE DEF r
  <1> QED
    BY <1>1, <1>2 DEF TypeOK
------------------------------------------------------------------------------
\* Steps that only move a request.

\* The places a request may go to without a word to the tables.
Proper(x, pc) ==
  /\ pc \in Places \ {"complete", "dropMapping", "exchange", "record"}
  /\ pc \in {"store", "authorise"} => proc[x].kind = "connect"
  /\ pc \in {"dropRequisition", "dropToken"} => proc[x].kind = "disconnect"
  /\ pc = "list" => proc[x].kind = "list"
  /\ pc \in {"authorise", "dropRequisition"} => proc[x].prov = "GoCardless"
  /\ pc = "dropToken" => proc[x].prov # "GoCardless"
  /\ pc \in {"use", "refresh", "update"} => proc[x].pc \in {"use", "refresh"}
  /\ pc = "authorise" => Passed(x)

\* Rows of the token tables may be rewritten, and none comes or goes.
SameRows ==
  /\ token' \in [Banks -> [Providers -> {"none", "fresh", "stale", "expired"}]]
  /\ \A b \in Banks, p \in Providers : HasToken(b, p)' = HasToken(b, p)

LEMMA ProperMove ==
  ASSUME ConnectionsInv, NEW x \in Procs, NEW pc, GoTo(x, pc),
         proc[x].pc # "idle", Proper(x, pc), SameRows,
         UNCHANGED <<requisition, mapped, nextReference, links, returned>>,
         listed' \in [Banks -> 0 .. MaxListed]
  PROVE  ConnectionsInv'
  <1>1. /\ proc' \in [Procs -> Request]
        /\ \A y \in Procs : y # x => proc'[y] = proc[y]
        /\ proc'[x].pc = pc
        /\ pc = "idle" => proc'[x].kind = "none"
        /\ pc # "idle" => /\ proc'[x].kind = proc[x].kind
                          /\ proc'[x].bank = proc[x].bank
                          /\ proc'[x].prov = proc[x].prov
    BY Moved DEF Proper, ConnectionsInv, Idle
  <1>2. TypeOK'
    BY <1>1 DEF TypeOK, ConnectionsInv, SameRows
  <1>3. KindInv'
    BY <1>1 DEF KindInv, ConnectionsInv, Proper
  <1>4. ReturnInv'
    BY <1>1 DEF ReturnInv, CompletedOnReturn, ConnectionsInv, Proper
  <1>5. ASSUME OneAtATime PROVE ApartInv'
    BY <1>1, <1>5 DEF ApartInv, Changes, ConnectionsInv
  <1>6. ASSUME OneAtATime PROVE CredentialsInv'
    <2>1. CredentialsInv
      BY <1>6 DEF ConnectionsInv
    <2>2. RequisitionHasToken'
      BY <2>1 DEF CredentialsInv, RequisitionHasToken, SameRows, Providers
    <2>3. ASSUME NEW y \in Procs, Passed(y)'
          PROVE  HasGoCardless(proc[y].bank)'
      <3>1. Passed(y) /\ proc'[y].bank = proc[y].bank /\ proc[y].bank \in Banks
        BY <1>1, <2>3 DEF Passed, Proper, ConnectionsInv, TypeOK
      <3>2. HasGoCardless(proc[y].bank)
        BY <2>1, <3>1 DEF CredentialsInv
      <3> QED
        BY <3>1, <3>2 DEF HasGoCardless, SameRows, Providers
    <2>4. DisconnectForgets'
      <3>1. ASSUME NEW y \in Procs, proc'[y].pc = "dropMapping"
            PROVE  /\ proc'[y] = proc[y]
                   /\ proc[y].bank \in Banks /\ proc[y].prov \in Providers
        BY <1>1, <3>1 DEF Proper, ConnectionsInv, TypeOK
      <3> QED
        BY <2>1, <3>1 DEF CredentialsInv, DisconnectForgets, SameRows
    <2>5. \A y \in Procs : Dropped(y)' => requisition'[proc'[y].bank] = NoRequisition
      BY <1>1, <2>1 DEF CredentialsInv, Dropped, Proper
    <2> QED
      BY <1>1, <2>2, <2>3, <2>4, <2>5 DEF CredentialsInv, NoRequisition
  <1> QED
    BY <1>2, <1>3, <1>4, <1>5, <1>6 DEF ConnectionsInv
LEMMA NothingRewritten ==
  ASSUME TypeOK, UNCHANGED token
  PROVE  SameRows
  BY DEF TypeOK, SameRows, HasToken

LEMMA StepUseToken ==
  ASSUME ConnectionsInv, NEW x \in Procs, UseToken(x)
  PROVE  ConnectionsInv'
  <1>1. PICK pc : GoTo(x, pc) /\ pc \in {With(x), Without(x), "refresh"}
    BY DEF UseToken
  <1>2. Proper(x, pc)
    BY <1>1 DEF UseToken, Proper, With, Without, Passed, Places, Providers,
                ConnectionsInv, KindInv, TypeOK, Request
  <1> QED
    BY <1>1, <1>2, ProperMove, NothingRewritten
       DEF UseToken, ConnectionsInv, TypeOK, tables, browser

LEMMA StepRefreshed ==
  ASSUME ConnectionsInv, NEW x \in Procs, Refreshed(x)
  PROVE  ConnectionsInv'
  <1>1. PICK pc : GoTo(x, pc) /\ pc \in {"update", Without(x)}
    BY DEF Refreshed
  <1>2. Proper(x, pc)
    BY <1>1 DEF Refreshed, Proper, Without, Passed, Places, Providers,
                ConnectionsInv, KindInv, TypeOK, Request
  <1> QED
    BY <1>1, <1>2, ProperMove, NothingRewritten
       DEF Refreshed, ConnectionsInv, TypeOK, tables, browser

LEMMA StepUpdateToken ==
  ASSUME ConnectionsInv, NEW x \in Procs, UpdateToken(x)
  PROVE  ConnectionsInv'
  <1>1. Proper(x, With(x))
    BY DEF UpdateToken, Proper, With, Without, Passed, Places, Providers,
           ConnectionsInv, KindInv, TypeOK, Request
  <1>2. SameRows
    BY DEF UpdateToken, SameRows, HasToken, ConnectionsInv, TypeOK
  <1> QED
    BY <1>1, <1>2, ProperMove DEF UpdateToken, ConnectionsInv, TypeOK, browser

LEMMA StepExchanged ==
  ASSUME ConnectionsInv, NEW x \in Procs, Exchanged(x)
  PROVE  ConnectionsInv'
  <1>1. PICK pc : GoTo(x, pc) /\ pc \in {"store", "idle"}
    BY DEF Exchanged
  <1>2. Proper(x, pc)
    BY <1>1 DEF Exchanged, Proper, Places, ConnectionsInv, KindInv
  <1> QED
    BY <1>1, <1>2, ProperMove, NothingRewritten
       DEF Exchanged, ConnectionsInv, TypeOK, tables, browser

LEMMA StepList ==
  ASSUME ConnectionsInv, NEW x \in Procs, List(x)
  PROVE  ConnectionsInv'
  <1>1. Proper(x, "idle")
    BY DEF Proper, Places
  <1>2. listed' \in [Banks -> 0 .. MaxListed]
    BY DEF List, ConnectionsInv, TypeOK
  <1> QED
    BY <1>1, <1>2, ProperMove, NothingRewritten
       DEF List, ConnectionsInv, tables

LEMMA StepFail ==
  ASSUME ConnectionsInv, NEW x \in Procs, Fail(x)
  PROVE  ConnectionsInv'
  <1>1. Proper(x, "idle")
    BY DEF Proper, Places
  <1> QED
    BY <1>1, ProperMove, NothingRewritten
       DEF Fail, ConnectionsInv, TypeOK, tables, browser

------------------------------------------------------------------------------
\* Steps that start a request.

LEMMA ProperStart ==
  ASSUME ConnectionsInv, NEW x \in Procs, NEW b \in Banks, NEW p \in Providers,
         NEW kind \in {"fetch", "connect", "list", "disconnect"},
         NEW pc \in {"use", "exchange", "store", "dropRequisition", "dropToken"},
         Start(x, kind, b, p, pc),
         UNCHANGED <<tables, nextReference, browser>>,
         kind \in {"connect", "disconnect"} => MayChange(b),
         pc \in {"exchange", "store"} => kind = "connect",
         pc \in {"dropRequisition", "dropToken"} => kind = "disconnect",
         pc = "dropRequisition" => p = "GoCardless",
         pc = "dropToken" => p # "GoCardless",
         pc = "use" /\ kind = "connect" => p = "GoCardless" /\ HasGoCardless(b)
  PROVE  ConnectionsInv'
  <1>1. /\ proc' \in [Procs -> Request]
        /\ \A y \in Procs : y # x => proc'[y] = proc[y]
        /\ proc[x].pc = "idle" /\ proc'[x].pc = pc /\ proc'[x].kind = kind
        /\ proc'[x].bank = b /\ proc'[x].prov = p
    BY Started DEF ConnectionsInv, Places
  <1>2. TypeOK'
    BY <1>1 DEF TypeOK, ConnectionsInv, tables, browser
  <1>3. KindInv'
    BY <1>1 DEF KindInv, ConnectionsInv
  <1>4. ReturnInv'
    BY <1>1 DEF ReturnInv, CompletedOnReturn, ConnectionsInv, tables, browser
  <1>5. ASSUME OneAtATime PROVE ApartInv'
    <2>1. kind \in {"connect", "disconnect"} =>
            \A y \in Procs : Changes(y) => proc[y].bank # b
      BY <1>5 DEF MayChange, Changing, Changes
    <2> QED
      BY <1>1, <1>5, <2>1 DEF ApartInv, Changes, ConnectionsInv
  <1>6. ASSUME OneAtATime PROVE CredentialsInv'
    <2>1. CredentialsInv
      BY <1>6 DEF ConnectionsInv
    <2>2. RequisitionHasToken'
      BY <2>1 DEF CredentialsInv, RequisitionHasToken, HasToken, tables
    <2>3. \A y \in Procs : Passed(y)' => HasGoCardless(proc[y].bank)'
      BY <1>1, <2>1 DEF CredentialsInv, Passed, HasGoCardless, HasToken, tables
    <2>4. DisconnectForgets'
      BY <1>1, <2>1 DEF CredentialsInv, DisconnectForgets, HasToken, tables
    <2>5. \A y \in Procs : Dropped(y)' => requisition'[proc'[y].bank] = NoRequisition
      BY <1>1, <2>1 DEF CredentialsInv, Dropped, tables
    <2> QED
      BY <1>1, <2>2, <2>3, <2>4, <2>5 DEF CredentialsInv, NoRequisition
  <1> QED
    BY <1>2, <1>3, <1>4, <1>5, <1>6 DEF ConnectionsInv

LEMMA ProviderKnown ==
  ASSUME NEW b \in Banks, ProviderForBank(b) # "none"
  PROVE  ProviderForBank(b) \in Providers
  BY DEF ProviderForBank, Providers

LEMMA StepFetch ==
  ASSUME ConnectionsInv, NEW x \in Procs, NEW b \in Banks, Fetch(x, b)
  PROVE  ConnectionsInv'
  BY ProperStart, ProviderKnown DEF Fetch

LEMMA StepOpenMapping ==
  ASSUME ConnectionsInv, NEW x \in Procs, NEW b \in Banks, OpenMapping(x, b)
  PROVE  ConnectionsInv'
  BY ProperStart, ProviderKnown DEF OpenMapping

LEMMA StepStartTrueLayer ==
  ASSUME ConnectionsInv, NEW x \in Procs, NEW b \in Banks, StartTrueLayer(x, b)
  PROVE  ConnectionsInv'
  BY ProperStart DEF StartTrueLayer, Providers

LEMMA StepStartStarling ==
  ASSUME ConnectionsInv, NEW x \in Procs, NEW b \in Banks, StartStarling(x, b)
  PROVE  ConnectionsInv'
  BY ProperStart DEF StartStarling, Providers

LEMMA StepStartGoCardless ==
  ASSUME ConnectionsInv, NEW x \in Procs, NEW b \in Banks, StartGoCardless(x, b)
  PROVE  ConnectionsInv'
  <1>1. PICK pc \in {"use", "exchange"} :
          /\ Start(x, "connect", b, "GoCardless", pc)
          /\ pc = "use" => HasGoCardless(b)
    BY DEF StartGoCardless, HasGoCardless
  <1>2. MayChange(b) /\ UNCHANGED <<tables, nextReference, browser>>
    BY DEF StartGoCardless
  <1> QED
    BY <1>1, <1>2, ProperStart DEF Providers

LEMMA StepDisconnect ==
  ASSUME ConnectionsInv, NEW x \in Procs, NEW b \in Banks, Disconnect(x, b)
  PROVE  ConnectionsInv'
  <1> DEFINE p == ProviderForBank(b)
  <1>1. PICK pc \in {"use", "dropRequisition", "dropToken"} :
          /\ Start(x, "disconnect", b, p, pc)
          /\ pc = "dropRequisition" => p = "GoCardless"
          /\ pc = "dropToken" => p # "GoCardless"
    BY DEF Disconnect
  <1>2. /\ MayChange(b) /\ UNCHANGED <<tables, nextReference, browser>>
        /\ p \in Providers
    BY ProviderKnown DEF Disconnect
  <1> HIDE DEF p
  <1> QED
    BY <1>1, <1>2, ProperStart
------------------------------------------------------------------------------
\* Steps that change a row.

\* A move from one place to another, whatever the tables do: what it leaves to
\* show is the part of the invariant that is about the tables.
LEMMA OtherMove ==
  ASSUME ConnectionsInv, NEW x \in Procs, NEW pc \in Places, GoTo(x, pc),
         proc[x].pc # "idle"
  PROVE  /\ proc' \in [Procs -> Request]
         /\ \A y \in Procs : y # x => proc'[y] = proc[y]
         /\ proc'[x].pc = pc
         /\ pc = "idle" => proc'[x].kind = "none"
         /\ pc # "idle" => /\ proc'[x].kind = proc[x].kind
                           /\ proc'[x].bank = proc[x].bank
                           /\ proc'[x].prov = proc[x].prov
         /\ OneAtATime => ApartInv'
  <1>1. /\ proc' \in [Procs -> Request]
        /\ \A y \in Procs : y # x => proc'[y] = proc[y]
        /\ proc'[x].pc = pc
        /\ pc = "idle" => proc'[x].kind = "none"
        /\ pc # "idle" => /\ proc'[x].kind = proc[x].kind
                          /\ proc'[x].bank = proc[x].bank
                          /\ proc'[x].prov = proc[x].prov
    BY Moved DEF ConnectionsInv, Idle
  <1>2. ASSUME OneAtATime PROVE ApartInv'
    BY <1>1, <1>2 DEF ApartInv, Changes, ConnectionsInv
  <1> QED
    BY <1>1, <1>2

LEMMA StepStoreToken ==
  ASSUME ConnectionsInv, NEW x \in Procs, StoreToken(x)
  PROVE  ConnectionsInv'
  <1> DEFINE b == proc[x].bank
             p == proc[x].prov
  <1>1. /\ b \in Banks /\ p \in Providers
        /\ proc[x].pc = "store" /\ proc[x].kind = "connect"
        /\ UNCHANGED <<requisition, mapped, nextReference, listed, links, returned>>
    BY DEF StoreToken, ConnectionsInv, TypeOK, KindInv, browser
  <1>2. CASE GoTo(x, "idle") /\ UNCHANGED token
    <2>1. Proper(x, "idle")
      BY DEF Proper, Places
    <2> QED
      BY <1>1, <1>2, <2>1, ProperMove, NothingRewritten
         DEF ConnectionsInv, TypeOK
  <1>3. ASSUME token' = [token EXCEPT ![b][p] = "fresh"],
               GoTo(x, IF p = "GoCardless" THEN "authorise" ELSE "idle")
        PROVE  ConnectionsInv'
    <2>1. PICK pc \in {"authorise", "idle"} :
            GoTo(x, pc) /\ (pc = "authorise" => p = "GoCardless")
      BY <1>3
    <2>2. /\ proc' \in [Procs -> Request]
          /\ \A y \in Procs : y # x => proc'[y] = proc[y]
          /\ proc'[x].pc = pc
          /\ pc = "idle" => proc'[x].kind = "none"
          /\ pc # "idle" => /\ proc'[x].kind = proc[x].kind
                            /\ proc'[x].bank = proc[x].bank
                            /\ proc'[x].prov = proc[x].prov
          /\ OneAtATime => ApartInv'
      BY <1>1, <2>1, OtherMove DEF Places
    <2>3. /\ token' \in [Banks -> [Providers -> {"none", "fresh", "stale", "expired"}]]
          /\ \A c \in Banks, q \in Providers :
               HasToken(c, q)' <=> HasToken(c, q) \/ (c = b /\ q = p)
      BY <1>1, <1>3 DEF ConnectionsInv, TypeOK, HasToken
    <2>4. TypeOK'
      BY <1>1, <2>1, <2>2, <2>3 DEF TypeOK, ConnectionsInv
    <2>5. KindInv'
      BY <1>1, <2>1, <2>2 DEF KindInv, ConnectionsInv
    <2>6. ReturnInv'
      BY <1>1, <2>1, <2>2 DEF ReturnInv, CompletedOnReturn, ConnectionsInv
    <2>7. ASSUME OneAtATime PROVE CredentialsInv'
      <3>1. CredentialsInv /\ ApartInv
        BY <2>7 DEF ConnectionsInv
      <3>2. RequisitionHasToken'
        BY <1>1, <2>3, <3>1 DEF CredentialsInv, RequisitionHasToken, Providers
      <3>3. \A y \in Procs : Passed(y)' => HasGoCardless(proc[y].bank)'
        BY <1>1, <2>1, <2>2, <2>3, <3>1
           DEF CredentialsInv, Passed, HasGoCardless, ConnectionsInv, TypeOK, Providers
      <3>4. ASSUME NEW y \in Procs, proc'[y].pc = "dropMapping"
            PROVE  /\ ~HasToken(proc[y].bank, proc[y].prov)'
                   /\ proc[y].bank' = proc[y].bank
        <4>1. y # x /\ proc'[y] = proc[y]
          BY <2>1, <2>2, <3>4
        <4>2. proc[y].bank # b
          BY <1>1, <3>1, <3>4, <4>1 DEF ApartInv, Changes, KindInv, ConnectionsInv
        <4> QED
          BY <2>3, <3>1, <3>4, <4>1, <4>2
             DEF CredentialsInv, DisconnectForgets, ConnectionsInv, TypeOK
      <3>5. DisconnectForgets'
        BY <1>1, <2>1, <2>2, <3>1, <3>4
           DEF CredentialsInv, DisconnectForgets, NoRequisition
      <3>6. \A y \in Procs : Dropped(y)' => requisition'[proc'[y].bank] = NoRequisition
        BY <1>1, <2>1, <2>2, <3>1 DEF CredentialsInv, Dropped
      <3> QED
        BY <2>2, <3>2, <3>3, <3>5, <3>6 DEF CredentialsInv, NoRequisition
    <2> QED
      BY <2>2, <2>4, <2>5, <2>6, <2>7 DEF ConnectionsInv
  <1> QED
    BY <1>2, <1>3 DEF StoreToken

LEMMA StepAuthorise ==
  ASSUME ConnectionsInv, NEW x \in Procs, Authorise(x)
  PROVE  ConnectionsInv'
  <1>1. /\ UNCHANGED <<token, requisition, mapped, listed, links, returned>>
        /\ nextReference' \in 1 .. MaxReference + 1
        /\ nextReference \in Reference /\ nextReference # 0
        /\ proc[x].pc = "authorise" /\ proc[x].prov = "GoCardless"
        /\ proc[x].kind = "connect" /\ proc[x].bank \in Banks
    BY LimitsAssumption
       DEF Authorise, ConnectionsInv, TypeOK, KindInv, tables, browser, Reference
  <1>2. CASE GoTo(x, "idle")
    <2>1. /\ proc' \in [Procs -> Request]
          /\ \A y \in Procs : y # x => proc'[y] = proc[y]
          /\ proc'[x].pc = "idle" /\ proc'[x].kind = "none"
          /\ OneAtATime => ApartInv'
      BY <1>1, <1>2, OtherMove DEF Places
    <2>2. TypeOK' /\ KindInv' /\ ReturnInv'
      <3>1. TypeOK'
        BY <1>1, <2>1 DEF TypeOK, ConnectionsInv
      <3>2. KindInv'
        BY <1>1, <2>1 DEF KindInv, ConnectionsInv
      <3>3. ReturnInv'
        BY <1>1, <2>1 DEF ReturnInv, CompletedOnReturn, ConnectionsInv, TypeOK
      <3> QED
        BY <3>1, <3>2, <3>3
    <2>3. ASSUME OneAtATime PROVE CredentialsInv'
      BY <1>1, <2>1, <2>3
         DEF CredentialsInv, RequisitionHasToken, DisconnectForgets, HasToken,
             Passed, Dropped, HasGoCardless, NoRequisition, ConnectionsInv
    <2> QED
      BY <2>1, <2>2, <2>3 DEF ConnectionsInv
  <1>3. CASE proc' = [proc EXCEPT ![x].pc = "record",
                                  ![x].reference = nextReference]
    <2> DEFINE r == [proc[x] EXCEPT !.pc = "record", !.reference = nextReference]
    <2>1. proc[x] \in Request /\ proc \in [Procs -> Request]
      BY DEF ConnectionsInv, TypeOK
    <2>2. /\ r \in Request /\ r.pc = "record" /\ r.kind = proc[x].kind
          /\ r.bank = proc[x].bank /\ r.prov = proc[x].prov
          /\ r.reference = nextReference
      BY <1>1, <2>1 DEF Request, Places
    <2>3. proc' = [proc EXCEPT ![x] = r]
      BY <1>3, <2>1
    <2> HIDE DEF r
    <2>4. /\ proc' \in [Procs -> Request]
          /\ \A y \in Procs : y # x => proc'[y] = proc[y]
          /\ proc'[x].pc = "record" /\ proc'[x].kind = proc[x].kind
          /\ proc'[x].bank = proc[x].bank /\ proc'[x].prov = proc[x].prov
          /\ proc'[x].reference # 0
      BY <1>1, <2>1, <2>2, <2>3
    <2>5. TypeOK' /\ KindInv' /\ ReturnInv'
      <3>1. TypeOK'
        BY <1>1, <2>4 DEF TypeOK, ConnectionsInv
      <3>2. KindInv'
        BY <1>1, <2>4 DEF KindInv, ConnectionsInv
      <3>3. ReturnInv'
        BY <1>1, <2>4 DEF ReturnInv, CompletedOnReturn, ConnectionsInv, TypeOK
      <3> QED
        BY <3>1, <3>2, <3>3
    <2>6. ASSUME OneAtATime PROVE ApartInv'
      BY <2>4, <2>6 DEF ApartInv, Changes, ConnectionsInv
    <2>7. ASSUME OneAtATime PROVE CredentialsInv'
      BY <1>1, <2>4, <2>7
         DEF CredentialsInv, RequisitionHasToken, DisconnectForgets, HasToken,
             Passed, Dropped, HasGoCardless, NoRequisition, ConnectionsInv
    <2> QED
      BY <2>5, <2>6, <2>7 DEF ConnectionsInv
  <1> QED
    BY <1>2, <1>3 DEF Authorise
\* A request that ends leaves the tables of tokens alone.
LEMMA Ended ==
  ASSUME ConnectionsInv, NEW x \in Procs, GoTo(x, "idle"), proc[x].pc # "idle"
  PROVE  /\ proc' \in [Procs -> Request]
         /\ \A y \in Procs : y # x => proc'[y] = proc[y]
         /\ proc'[x].pc = "idle" /\ proc'[x].kind = "none"
         /\ OneAtATime => ApartInv'
  BY OtherMove DEF Places

LEMMA StepRecord ==
  ASSUME ConnectionsInv, NEW x \in Procs, Record(x)
  PROVE  ConnectionsInv'
  <1> DEFINE b == proc[x].bank
             r == [reference |-> proc[x].reference, completed |-> FALSE]
  <1>1. /\ proc[x].pc = "record" /\ proc[x].kind = "connect"
        /\ b \in Banks /\ proc[x].prov = "GoCardless"
        /\ proc[x] \in Request /\ proc[x].reference \in Reference
        /\ proc[x].reference # 0
        /\ GoTo(x, "idle")
        /\ UNCHANGED <<token, mapped, nextReference, listed, returned>>
        /\ links' = links \cup {proc[x].reference}
    BY DEF Record, ConnectionsInv, TypeOK, KindInv, ReturnInv, Request
  <1>2. /\ proc' \in [Procs -> Request]
        /\ \A y \in Procs : y # x => proc'[y] = proc[y]
        /\ proc'[x].pc = "idle" /\ proc'[x].kind = "none"
        /\ OneAtATime => ApartInv'
    BY <1>1, Ended
  <1>3. /\ requisition' \in [Banks -> [reference : Reference, completed : BOOLEAN]]
        /\ ~requisition'[b].completed
        /\ \A c \in Banks : c # b => requisition'[c] = requisition[c]
    BY <1>1 DEF Record, ConnectionsInv, TypeOK
  <1>4. TypeOK' /\ KindInv' /\ ReturnInv'
    <2>1. TypeOK'
      BY <1>1, <1>2, <1>3 DEF TypeOK, ConnectionsInv
    <2>2. KindInv'
      BY <1>1, <1>2, <1>3 DEF KindInv, ConnectionsInv
    <2>3. ReturnInv'
      BY <1>1, <1>2, <1>3 DEF ReturnInv, CompletedOnReturn, ConnectionsInv, TypeOK
    <2> QED
      BY <2>1, <2>2, <2>3
  <1>5. ASSUME OneAtATime PROVE CredentialsInv'
    <2>1. CredentialsInv /\ ApartInv
      BY <1>5 DEF ConnectionsInv
    <2>2. HasGoCardless(b)
      BY <1>1, <2>1 DEF CredentialsInv, Passed
    <2>3. RequisitionHasToken'
      BY <1>1, <1>3, <2>1, <2>2
         DEF CredentialsInv, RequisitionHasToken, HasGoCardless, HasToken, NoRequisition
    <2>4. \A y \in Procs : Passed(y)' => HasGoCardless(proc[y].bank)'
      BY <1>1, <1>2, <2>1 DEF CredentialsInv, Passed, HasGoCardless, HasToken
    <2>5. ASSUME NEW y \in Procs, proc'[y].pc \in {"dropToken", "dropMapping"}
          PROVE  /\ proc'[y] = proc[y]
                 /\ requisition'[proc[y].bank] = requisition[proc[y].bank]
      <3>1. y # x /\ proc'[y] = proc[y]
        BY <1>2, <2>5
      <3>2. proc[y].bank # b /\ proc[y].bank \in Banks
        BY <1>1, <2>1, <2>5, <3>1
           DEF ApartInv, Changes, KindInv, TypeOK, ConnectionsInv
      <3> QED
        BY <1>3, <3>1, <3>2
    <2>6. DisconnectForgets'
      BY <1>1, <2>1, <2>5
         DEF CredentialsInv, DisconnectForgets, HasToken, NoRequisition
    <2>7. \A y \in Procs : Dropped(y)' => requisition'[proc'[y].bank] = NoRequisition
      BY <2>1, <2>5 DEF CredentialsInv, Dropped
    <2> QED
      BY <2>3, <2>4, <2>6, <2>7 DEF CredentialsInv, NoRequisition
  <1> QED
    BY <1>2, <1>4, <1>5 DEF ConnectionsInv

LEMMA StepComplete ==
  ASSUME ConnectionsInv, NEW x \in Procs, Complete(x)
  PROVE  ConnectionsInv'
  <1> DEFINE b == proc[x].bank
  <1>1. /\ proc[x].pc = "complete" /\ b \in Banks
        /\ GoTo(x, "idle")
        /\ UNCHANGED <<token, mapped, nextReference, listed, links, returned>>
        /\ proc[x].reference \in returned
    BY DEF Complete, ConnectionsInv, TypeOK, ReturnInv, browser
  <1>2. /\ proc' \in [Procs -> Request]
        /\ \A y \in Procs : y # x => proc'[y] = proc[y]
        /\ proc'[x].pc = "idle" /\ proc'[x].kind = "none"
        /\ OneAtATime => ApartInv'
    BY <1>1, Ended
  <1>3. /\ requisition' \in [Banks -> [reference : Reference, completed : BOOLEAN]]
        /\ \A c \in Banks :
             /\ requisition'[c].reference = requisition[c].reference
             /\ \/ requisition'[c] = requisition[c]
                \/ /\ requisition[c].reference \in returned
                   /\ requisition[c].reference # 0
    BY <1>1 DEF Complete, ConnectionsInv, TypeOK, ReturnInv
  <1>4. TypeOK' /\ KindInv' /\ ReturnInv'
    <2>1. TypeOK'
      BY <1>1, <1>2, <1>3 DEF TypeOK, ConnectionsInv
    <2>2. KindInv'
      BY <1>1, <1>2, <1>3 DEF KindInv, ConnectionsInv
    <2>3. ReturnInv'
      BY <1>1, <1>2, <1>3 DEF ReturnInv, CompletedOnReturn, ConnectionsInv, TypeOK
    <2> QED
      BY <2>1, <2>2, <2>3
  <1>5. ASSUME OneAtATime PROVE CredentialsInv'
    <2>1. \A c \in Banks :
            requisition'[c] = NoRequisition <=> requisition[c] = NoRequisition
      BY <1>3 DEF NoRequisition, ConnectionsInv, TypeOK
    <2>2. CredentialsInv
      BY <1>5 DEF ConnectionsInv
    <2>3. \A y \in Procs : proc'[y].pc # "idle" =>
            proc'[y] = proc[y] /\ proc[y].bank \in Banks
      BY <1>2 DEF ConnectionsInv, TypeOK
    <2>4. RequisitionHasToken'
      BY <1>1, <2>1, <2>2
         DEF CredentialsInv, RequisitionHasToken, HasToken, NoRequisition
    <2>5. DisconnectForgets'
      BY <1>1, <2>1, <2>2, <2>3
         DEF CredentialsInv, DisconnectForgets, HasToken, NoRequisition
    <2>6. ASSUME NEW y \in Procs
          PROVE  /\ Passed(y)' => HasGoCardless(proc[y].bank)'
                 /\ Dropped(y)' => requisition'[proc'[y].bank] = NoRequisition
      BY <1>1, <2>1, <2>2, <2>3
         DEF CredentialsInv, Passed, Dropped, HasGoCardless, HasToken
    <2> QED
      BY <2>4, <2>5, <2>6 DEF CredentialsInv, NoRequisition
  <1> QED
    BY <1>2, <1>4, <1>5 DEF ConnectionsInv

LEMMA StepReturn ==
  ASSUME ConnectionsInv, NEW x \in Procs, NEW b \in Banks, Return(x, b)
  PROVE  ConnectionsInv'
  <1> DEFINE r == [pc |-> "complete", kind |-> "complete", bank |-> b,
                   prov |-> "GoCardless", reference |-> requisition[b].reference]
  <1>1. /\ proc[x].pc = "idle" /\ proc[x].kind = "none"
        /\ requisition[b].reference \in Reference
        /\ requisition[b].reference # 0
        /\ UNCHANGED <<token, requisition, mapped, nextReference, listed, links>>
        /\ returned' = returned \cup {requisition[b].reference}
    BY DEF Return, tables, ConnectionsInv, TypeOK, KindInv, ReturnInv
  <1>2. r \in Request
    BY <1>1 DEF Request, Places, Providers
  <1>3. /\ proc' \in [Procs -> Request]
        /\ \A y \in Procs : y # x => proc'[y] = proc[y]
        /\ proc'[x] = r
    BY <1>2 DEF Return, ConnectionsInv, TypeOK
  <1>4. TypeOK' /\ KindInv' /\ ReturnInv'
    <2>1. TypeOK'
      BY <1>1, <1>3 DEF TypeOK, ConnectionsInv, Providers
    <2>2. KindInv'
      BY <1>1, <1>3 DEF KindInv, ConnectionsInv
    <2>3. ReturnInv'
      BY <1>1, <1>3 DEF ReturnInv, CompletedOnReturn, ConnectionsInv
    <2> QED
      BY <2>1, <2>2, <2>3
  <1>5. ASSUME OneAtATime PROVE ApartInv'
    BY <1>1, <1>3, <1>5 DEF ApartInv, Changes, ConnectionsInv
  <1>6. ASSUME OneAtATime PROVE CredentialsInv'
    BY <1>1, <1>3, <1>6
       DEF CredentialsInv, RequisitionHasToken, DisconnectForgets, HasToken,
           Passed, Dropped, HasGoCardless, NoRequisition, ConnectionsInv
  <1> QED
    BY <1>4, <1>5, <1>6 DEF ConnectionsInv

LEMMA StepDropRequisition ==
  ASSUME ConnectionsInv, NEW x \in Procs, DropRequisition(x)
  PROVE  ConnectionsInv'
  <1> DEFINE b == proc[x].bank
  <1>1. /\ proc[x].pc = "dropRequisition" /\ b \in Banks
        /\ proc[x].kind = "disconnect" /\ proc[x].prov = "GoCardless"
        /\ GoTo(x, "dropToken")
        /\ UNCHANGED <<token, mapped, nextReference, listed, links, returned>>
    BY DEF DropRequisition, ConnectionsInv, TypeOK, KindInv, browser
  <1>2. /\ proc' \in [Procs -> Request]
        /\ \A y \in Procs : y # x => proc'[y] = proc[y]
        /\ proc'[x].pc = "dropToken" /\ proc'[x].kind = "disconnect"
        /\ proc'[x].bank = b /\ proc'[x].prov = "GoCardless"
        /\ OneAtATime => ApartInv'
    BY <1>1, OtherMove DEF Places
  <1>3. /\ requisition' \in [Banks -> [reference : Reference, completed : BOOLEAN]]
        /\ requisition'[b] = NoRequisition
        /\ \A c \in Banks : c # b => requisition'[c] = requisition[c]
    BY <1>1, LimitsAssumption
       DEF DropRequisition, ConnectionsInv, TypeOK, NoRequisition, Reference
  <1>4. TypeOK' /\ KindInv' /\ ReturnInv'
    <2>1. TypeOK'
      BY <1>1, <1>2, <1>3 DEF TypeOK, ConnectionsInv
    <2>2. KindInv'
      BY <1>1, <1>2 DEF KindInv, ConnectionsInv
    <2>3. CompletedOnReturn'
      BY <1>1, <1>3 DEF ReturnInv, CompletedOnReturn, ConnectionsInv, NoRequisition
    <2>4. ReturnInv'
      BY <1>1, <1>2, <2>3 DEF ReturnInv, ConnectionsInv
    <2> QED
      BY <2>1, <2>2, <2>4
  <1>5. ASSUME OneAtATime PROVE CredentialsInv'
    <2>1. CredentialsInv
      BY <1>5 DEF ConnectionsInv
    <2>2. \A c \in Banks : requisition[c] = NoRequisition =>
            requisition'[c] = NoRequisition
      BY <1>3
    <2>3. \A y \in Procs : y # x /\ proc'[y].pc # "idle" =>
            proc'[y] = proc[y] /\ proc[y].bank \in Banks
      BY <1>2 DEF ConnectionsInv, TypeOK
    <2>4. RequisitionHasToken'
      BY <1>1, <1>3, <2>1
         DEF CredentialsInv, RequisitionHasToken, HasToken, NoRequisition
    <2>5. DisconnectForgets'
      BY <1>1, <1>2, <2>1, <2>2, <2>3
         DEF CredentialsInv, DisconnectForgets, HasToken, NoRequisition
    <2>6. ASSUME NEW y \in Procs
          PROVE  /\ Passed(y)' => HasGoCardless(proc[y].bank)'
                 /\ Dropped(y)' => requisition'[proc'[y].bank] = NoRequisition
      BY <1>1, <1>2, <1>3, <2>1, <2>2, <2>3
         DEF CredentialsInv, Passed, Dropped, HasGoCardless, HasToken
    <2> QED
      BY <2>4, <2>5, <2>6 DEF CredentialsInv, NoRequisition
  <1> QED
    BY <1>2, <1>4, <1>5 DEF ConnectionsInv

LEMMA StepDropToken ==
  ASSUME ConnectionsInv, NEW x \in Procs, DropToken(x)
  PROVE  ConnectionsInv'
  <1> DEFINE b == proc[x].bank
             p == proc[x].prov
  <1>1. /\ proc[x].pc = "dropToken" /\ b \in Banks /\ p \in Providers
        /\ proc[x].kind = "disconnect"
        /\ GoTo(x, "dropMapping")
        /\ UNCHANGED <<requisition, mapped, nextReference, listed, links, returned>>
    BY DEF DropToken, ConnectionsInv, TypeOK, KindInv, browser
  <1>2. /\ proc' \in [Procs -> Request]
        /\ \A y \in Procs : y # x => proc'[y] = proc[y]
        /\ proc'[x].pc = "dropMapping" /\ proc'[x].kind = "disconnect"
        /\ proc'[x].bank = b /\ proc'[x].prov = p
        /\ OneAtATime => ApartInv'
    BY <1>1, OtherMove DEF Places
  <1>3. /\ token' \in [Banks -> [Providers -> {"none", "fresh", "stale", "expired"}]]
        /\ \A c \in Banks, q \in Providers :
             HasToken(c, q)' <=> HasToken(c, q) /\ ~(c = b /\ q = p)
    BY <1>1 DEF DropToken, HasToken, ConnectionsInv, TypeOK
  <1>4. TypeOK'
    BY <1>1, <1>2, <1>3 DEF TypeOK, ConnectionsInv
  <1>5. KindInv'
    BY <1>1, <1>2 DEF KindInv, ConnectionsInv
  <1>6. ReturnInv'
    BY <1>1, <1>2 DEF ReturnInv, CompletedOnReturn, ConnectionsInv
  <1>7. ASSUME OneAtATime PROVE CredentialsInv'
    <2>1. CredentialsInv /\ ApartInv
      BY <1>7 DEF ConnectionsInv
    <2>2. p = "GoCardless" => requisition[b] = NoRequisition
      BY <1>1, <2>1 DEF CredentialsInv, Dropped
    <2>3. RequisitionHasToken'
      BY <1>1, <1>3, <2>1, <2>2
         DEF CredentialsInv, RequisitionHasToken, Providers, NoRequisition
    <2>4. ASSUME NEW y \in Procs, Passed(y)'
          PROVE  HasGoCardless(proc[y].bank)'
      <3>1. y # x /\ proc'[y] = proc[y] /\ Passed(y)
        BY <1>2, <2>4 DEF Passed
      <3>2. proc[y].bank # b /\ proc[y].bank \in Banks
        BY <1>1, <2>1, <3>1
           DEF Passed, ApartInv, Changes, KindInv, TypeOK, ConnectionsInv
      <3> QED
        BY <1>3, <2>1, <3>1, <3>2 DEF CredentialsInv, HasGoCardless, Providers
    <2>5. DisconnectForgets'
      BY <1>1, <1>2, <1>3, <2>1, <2>2
         DEF CredentialsInv, DisconnectForgets, ConnectionsInv, TypeOK,
             NoRequisition
    <2>6. \A y \in Procs : Dropped(y)' => requisition'[proc'[y].bank] = NoRequisition
      BY <1>1, <1>2, <2>1, <2>2 DEF CredentialsInv, Dropped
    <2> QED
      BY <2>3, <2>4, <2>5, <2>6 DEF CredentialsInv, NoRequisition
  <1> QED
    BY <1>2, <1>4, <1>5, <1>6, <1>7 DEF ConnectionsInv

LEMMA StepDropMapping ==
  ASSUME ConnectionsInv, NEW x \in Procs, DropMapping(x)
  PROVE  ConnectionsInv'
  <1>1. /\ proc[x].pc = "dropMapping"
        /\ GoTo(x, "idle")
        /\ mapped' \in [Banks -> SUBSET Accounts]
        /\ UNCHANGED <<token, requisition, nextReference, listed, links, returned>>
    BY DEF DropMapping, ConnectionsInv, TypeOK, browser
  <1>2. /\ proc' \in [Procs -> Request]
        /\ \A y \in Procs : y # x => proc'[y] = proc[y]
        /\ proc'[x].pc = "idle" /\ proc'[x].kind = "none"
        /\ OneAtATime => ApartInv'
    BY <1>1, Ended
  <1>3. TypeOK'
    BY <1>1, <1>2 DEF TypeOK, ConnectionsInv
  <1>4. KindInv' /\ ReturnInv'
    BY <1>1, <1>2 DEF KindInv, ReturnInv, CompletedOnReturn, ConnectionsInv
  <1>5. ASSUME OneAtATime PROVE CredentialsInv'
    BY <1>1, <1>2, <1>5
       DEF CredentialsInv, RequisitionHasToken, DisconnectForgets, HasToken,
           Passed, Dropped, HasGoCardless, NoRequisition, ConnectionsInv
  <1> QED
    BY <1>2, <1>3, <1>4, <1>5 DEF ConnectionsInv

------------------------------------------------------------------------------
\* Steps of no request: time passes, a mapping page is saved.

LEMMA Aside ==
  ASSUME ConnectionsInv, SameRows, mapped' \in [Banks -> SUBSET Accounts],
         UNCHANGED <<requisition, nextReference, listed, links, returned, proc>>
  PROVE  ConnectionsInv'
  <1>1. TypeOK'
    BY DEF TypeOK, ConnectionsInv, SameRows
  <1>2. KindInv' /\ ReturnInv'
    BY DEF KindInv, ReturnInv, CompletedOnReturn, ConnectionsInv
  <1>3. ASSUME OneAtATime PROVE ApartInv'
    BY <1>3 DEF ApartInv, Changes, ConnectionsInv
  <1>4. ASSUME OneAtATime PROVE CredentialsInv'
    <2>1. CredentialsInv
      BY <1>4 DEF ConnectionsInv
    <2>2. RequisitionHasToken'
      BY <2>1 DEF CredentialsInv, RequisitionHasToken, SameRows, Providers
    <2>3. \A y \in Procs : Passed(y)' => HasGoCardless(proc[y].bank)'
      BY <2>1 DEF CredentialsInv, Passed, HasGoCardless, SameRows, Providers,
                  ConnectionsInv, TypeOK
    <2>4. DisconnectForgets'
      BY <2>1 DEF CredentialsInv, DisconnectForgets, SameRows, ConnectionsInv, TypeOK
    <2>5. \A y \in Procs : Dropped(y)' => requisition'[proc'[y].bank] = NoRequisition
      BY <2>1 DEF CredentialsInv, Dropped
    <2> QED
      BY <2>2, <2>3, <2>4, <2>5 DEF CredentialsInv, NoRequisition
  <1> QED
    BY <1>1, <1>2, <1>3, <1>4 DEF ConnectionsInv

LEMMA StepSetMappings ==
  ASSUME ConnectionsInv, NEW b \in Banks, SetMappings(b)
  PROVE  ConnectionsInv'
  <1>1. mapped' \in [Banks -> SUBSET Accounts]
    BY DEF SetMappings, ConnectionsInv, TypeOK
  <1> QED
    BY <1>1, Aside, NothingRewritten DEF SetMappings, ConnectionsInv, browser

LEMMA StepExpire ==
  ASSUME ConnectionsInv, NEW b \in Banks, NEW p \in Providers, Expire(b, p)
  PROVE  ConnectionsInv'
  <1>1. SameRows
    BY DEF Expire, SameRows, HasToken, ConnectionsInv, TypeOK
  <1> QED
    BY <1>1, Aside DEF Expire, ConnectionsInv, TypeOK, browser

------------------------------------------------------------------------------
LEMMA InitInv ==
  ASSUME Init
  PROVE  ConnectionsInv
  <1>1. TypeOK
    BY LimitsAssumption, IdleTyped
       DEF Init, TypeOK, NoRequisition, Idle, Reference
  <1>2. KindInv /\ ReturnInv
    BY DEF Init, KindInv, ReturnInv, CompletedOnReturn, Idle, NoRequisition
  <1>3. ApartInv
    BY DEF Init, ApartInv, Changes, Idle
  <1>4. CredentialsInv
    BY DEF Init, CredentialsInv, RequisitionHasToken, DisconnectForgets, Passed,
           Dropped, Idle
  <1> QED
    BY <1>1, <1>2, <1>3, <1>4 DEF ConnectionsInv

LEMMA NextInv ==
  ASSUME ConnectionsInv, Next
  PROVE  ConnectionsInv'
  <1>1. ASSUME NEW x \in Procs, TokenStep(x) PROVE ConnectionsInv'
    BY <1>1, StepUseToken, StepRefreshed, StepUpdateToken DEF TokenStep
  <1>2. ASSUME NEW x \in Procs, ConnectStep(x) PROVE ConnectionsInv'
    BY <1>2, StepExchanged, StepStoreToken, StepAuthorise, StepRecord,
       StepComplete DEF ConnectStep
  <1>3. ASSUME NEW x \in Procs, DisconnectStep(x) PROVE ConnectionsInv'
    BY <1>3, StepDropRequisition, StepDropToken, StepDropMapping
       DEF DisconnectStep
  <1>4. ASSUME NEW x \in Procs, List(x) \/ Fail(x) PROVE ConnectionsInv'
    BY <1>4, StepList, StepFail
  <1>5. ASSUME NEW x \in Fetches, NEW b \in Banks, Fetch(x, b)
        PROVE  ConnectionsInv'
    BY <1>5, StepFetch DEF Procs
  <1>6. ASSUME NEW x \in Tabs, NEW b \in Banks,
               StartTrueLayer(x, b) \/ StartStarling(x, b) \/ StartGoCardless(x, b)
        PROVE  ConnectionsInv'
    BY <1>6, StepStartTrueLayer, StepStartStarling, StepStartGoCardless DEF Procs
  <1>7. ASSUME NEW x \in Tabs, NEW b \in Banks,
               Return(x, b) \/ OpenMapping(x, b) \/ Disconnect(x, b)
        PROVE  ConnectionsInv'
    BY <1>7, StepReturn, StepOpenMapping, StepDisconnect DEF Procs
  <1>8. ASSUME NEW b \in Banks,
               SetMappings(b) \/ \E p \in Providers : Expire(b, p)
        PROVE  ConnectionsInv'
    BY <1>8, StepSetMappings, StepExpire
  <1> QED
    BY <1>1, <1>2, <1>3, <1>4, <1>5, <1>6, <1>7, <1>8 DEF Next

LEMMA StutterInv ==
  ASSUME ConnectionsInv, UNCHANGED vars
  PROVE  ConnectionsInv'
  BY Aside, NothingRewritten DEF vars, ConnectionsInv, TypeOK

\* The inductive invariant: which request is where, that references are given
\* once and come back, and, where connects and disconnects of a bank follow one
\* another, what a request in flight knows of the rows of its bank.
THEOREM ConnectionsInvariant == Spec => []ConnectionsInv
  <1>1. Init => ConnectionsInv
    BY InitInv
  <1>2. ConnectionsInv /\ [Next]_vars => ConnectionsInv'
    BY NextInv, StutterInv
  <1> QED
    BY <1>1, <1>2, PTL DEF Spec

------------------------------------------------------------------------------
\* Only StoreToken makes a row, and a request there is a connect.
LEMMA RowsAppear ==
  ASSUME ConnectionsInv, Next, NEW b \in Banks, NEW p \in Providers,
         ~HasToken(b, p), HasToken(b, p)'
  PROVE  \E x \in Procs : /\ proc[x].kind = "connect"
                          /\ proc[x].bank = b /\ proc[x].prov = p
  <1>1. TypeOK /\ KindInv
    BY DEF ConnectionsInv
  <1>2. token' # token
    BY DEF HasToken
  <1>3. ASSUME NEW x \in Procs, StoreToken(x)
        PROVE  proc[x].kind = "connect" /\ proc[x].bank = b /\ proc[x].prov = p
    BY <1>1, <1>2, <1>3 DEF StoreToken, HasToken, TypeOK, KindInv
  <1>4. ASSUME NEW x \in Procs, UpdateToken(x) PROVE FALSE
    BY <1>1, <1>4 DEF UpdateToken, HasToken, TypeOK
  <1>5. ASSUME NEW x \in Procs, DropToken(x) PROVE FALSE
    BY <1>1, <1>5 DEF DropToken, HasToken, TypeOK
  <1>6. ASSUME NEW c \in Banks, NEW q \in Providers, Expire(c, q) PROVE FALSE
    BY <1>1, <1>6 DEF Expire, HasToken, TypeOK
  <1>7. ASSUME NEW x \in Procs,
               \/ UseToken(x) \/ Refreshed(x) \/ Exchanged(x) \/ Authorise(x)
               \/ Record(x) \/ Complete(x) \/ List(x) \/ Fail(x)
               \/ DropRequisition(x) \/ DropMapping(x)
        PROVE  FALSE
    BY <1>2, <1>7
       DEF UseToken, Refreshed, Exchanged, Authorise, Record, Complete, List,
           Fail, DropRequisition, DropMapping, tables
  <1>8. ASSUME NEW x \in Procs, NEW c \in Banks,
               \/ Fetch(x, c) \/ StartTrueLayer(x, c) \/ StartStarling(x, c)
               \/ StartGoCardless(x, c) \/ Return(x, c) \/ OpenMapping(x, c)
               \/ Disconnect(x, c)
        PROVE  FALSE
    BY <1>2, <1>8
       DEF Fetch, StartTrueLayer, StartStarling, StartGoCardless, Return,
           OpenMapping, Disconnect, tables
  <1>9. ASSUME NEW c \in Banks, SetMappings(c) PROVE FALSE
    BY <1>2, <1>9 DEF SetMappings
  <1> QED
    BY <1>3, <1>4, <1>5, <1>6, <1>7, <1>8, <1>9
       DEF Next, TokenStep, ConnectStep, DisconnectStep, Procs

\* A bank without a row gets one from a connect of its user only (service.go's
\* Disconnect, token.go's replaceAccessToken).
THEOREM BanksStayDisconnected == Spec => StaysDisconnected
  <1>1. ConnectionsInv /\ [Next]_vars =>
          [\A b \in Banks, p \in Providers :
             ~HasToken(b, p) /\ HasToken(b, p)' =>
               \E x \in Procs : /\ proc[x].kind = "connect"
                                /\ proc[x].bank = b /\ proc[x].prov = p]_vars
    BY RowsAppear
  <1> QED
    BY <1>1, ConnectionsInvariant, PTL DEF Spec, StaysDisconnected

\* No requisition is marked completed without its user's return
\* (requisition.go's CompleteRequisition).
THEOREM CompletedOnlyOnReturn == Spec => []CompletedOnReturn
  <1>1. ConnectionsInv => CompletedOnReturn
    BY DEF ConnectionsInv, ReturnInv
  <1> QED
    BY <1>1, ConnectionsInvariant, PTL

\* Where connects and disconnects of a bank follow one another, a requisition
\* has a token (requisition.go's CreateRequisition and Disconnect).
THEOREM RequisitionsHaveTokens ==
  ASSUME OneAtATime
  PROVE  Spec => []RequisitionHasToken
  <1>1. ConnectionsInv => RequisitionHasToken
    BY DEF ConnectionsInv, CredentialsInv
  <1> QED
    BY <1>1, ConnectionsInvariant, PTL

\* There too, a disconnect forgets what it has deleted (Disconnect).
THEOREM DisconnectsForget ==
  ASSUME OneAtATime
  PROVE  Spec => []DisconnectForgets
  <1>1. ConnectionsInv => DisconnectForgets
    BY DEF ConnectionsInv, CredentialsInv
  <1> QED
    BY <1>1, ConnectionsInvariant, PTL
==============================================================================
