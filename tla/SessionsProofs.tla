--------------------------- MODULE SessionsProofs ---------------------------
(***************************************************************************)
(* Proofs about Sessions, for any number of requests at once, any TTL and   *)
(* any delay of a request (UsedSessionsGoOn: of at most half the TTL).      *)
(***************************************************************************)
EXTENDS SessionsSafety, TLAPS

\* Session rows have been issued and not signed out of, and a request that
\* has read a session's id works on an issued one.
SessionsInv ==
  /\ \A s \in sessions : s.id \in Issued /\ s.id \notin signedOut
  /\ signedOut \subseteq Issued
  /\ \A p \in Requests :
       req[p].pc \in {"looking", "expired", "extending", "signing_out"} =>
         req[p].id \in Issued

ExpiryInv == \A s \in sessions : s.exp <= used[s.id] + TTL

\* A request between its INSERT and its COMMIT holds a login and an id that
\* no committed user and no other such request has.
Inserted(p) == req[p].pc = "inserted"

UsersInv ==
  /\ OneUserPerLogin
  /\ \A u \in users : u.id < nextUser
  /\ \A p \in Requests : Inserted(p) =>
       /\ req[p].user < nextUser
       /\ \A u \in users : u.login # req[p].login /\ u.id # req[p].user
  /\ \A p, q \in Requests : p # q /\ Inserted(p) /\ Inserted(q) =>
       req[p].login # req[q].login /\ req[p].user # req[q].user

AuthInv == TypeOK /\ SessionsInv /\ ExpiryInv /\ UsersInv

------------------------------------------------------------------------------
\* Type correctness.

LEMMA IdleTyped == Idle \in Request
  BY DEF Idle, Request, NoToken, NoLogin

\* A step that gives one request a new record keeps all of them typed.
LEMMA ReqTyped ==
  ASSUME TypeOK, NEW p \in Requests, NEW r \in Request,
         req' = [req EXCEPT ![p] = r]
  PROVE  /\ req' \in [Requests -> Request]
         /\ \A q \in Requests : req'[q] = IF q = p THEN r ELSE req[q]
  BY DEF TypeOK

\* A request begins with a page, a sign-in or a sign-up.
LEMMA Begun ==
  ASSUME TypeOK, NEW p \in Requests, NEW r \in Request,
         req' = [req EXCEPT ![p] = r],
         Look(p) \/ SignIn(p) \/ CheckCapacity(p)
  PROVE  /\ r.pc \in {"looking", "authenticated", "registering"}
         /\ r.start = now
         /\ r.pc = "looking" => r.id \in Issued
  <1>1. req'[p] = r
    BY ReqTyped
  <1>2. req \in [Requests -> Request]
    BY DEF TypeOK
  <1>3. CASE Look(p)
    <2>1. PICK i \in Issued : \E goal \in {"visit", "signout"} :
            req' = [req EXCEPT ![p] = [Idle EXCEPT !.pc = "looking",
                      !.start = now, !.id = i, !.goal = goal]]
      BY <1>3 DEF Look
    <2>2. PICK goal \in {"visit", "signout"} :
            r = [Idle EXCEPT !.pc = "looking", !.start = now, !.id = i,
                             !.goal = goal]
      BY <1>1, <1>2, <2>1
    <2> QED
      BY <2>2 DEF Idle
  <1>4. CASE SignIn(p)
    <2>1. PICK u \in users :
            r = [Idle EXCEPT !.pc = "authenticated", !.start = now,
                             !.user = u.id]
      BY <1>1, <1>2, <1>4 DEF SignIn
    <2> QED
      BY <2>1 DEF Idle
  <1>5. CASE CheckCapacity(p)
    <2>1. PICK l \in Logins :
            r = [Idle EXCEPT !.pc = "registering", !.start = now, !.login = l]
      BY <1>1, <1>2, <1>5 DEF CheckCapacity
    <2> QED
      BY <2>1 DEF Idle
  <1> QED
    BY <1>3, <1>4, <1>5

\* Recording a use extends the history and never moves a time back.
LEMMA UseTyped ==
  ASSUME TypeOK, NEW i \in Tokens, NEW t \in Nat, Use(i, t)
  PROVE  /\ Issued' = Issued \cup {i}
         /\ Issued' \subseteq Tokens
         /\ used' \in [Issued' -> Nat]
         /\ used'[i] >= t
         /\ \A j \in Issued : used'[j] >= used[j]
  <1>1. used \in [Issued -> Nat] /\ Issued \subseteq Tokens
    BY DEF TypeOK
  <1>2. Issued' = Issued \cup {i}
    BY DEF Use, Issued
  <1>3. \A j \in Issued \cup {i} :
          used'[j] = IF j # i THEN used[j]
                     ELSE IF i \in Issued /\ used[i] > t THEN used[i] ELSE t
    BY DEF Use
  <1>4. used' = [j \in Issued' |-> used'[j]]
    BY <1>2 DEF Use
  <1>5. \A j \in Issued' : used'[j] \in Nat
    BY <1>1, <1>2, <1>3
  <1>6. used' \in [Issued' -> Nat]
    BY <1>4, <1>5
  <1> QED
    BY <1>1, <1>2, <1>3, <1>6

\* What a step of request p leaves of its record: the step is described once,
\* by the record it gives p, and typed once.
Steps(p) ==
  \/ ValidateSession(p) \/ SignOut(p) \/ SignIn(p) \/ CreateSession(p)
  \/ Register(p) \/ Fail(p)

LEMMA ValidatedTyped ==
  ASSUME TypeOK, NEW p \in Requests
  PROVE  Validated(p) \in Request
  <1>1. req[p] \in Request
    BY DEF TypeOK
  <1> QED
    BY <1>1, IdleTyped DEF Validated, Request

LEMMA StepsReq ==
  ASSUME TypeOK, NEW p \in Requests, Steps(p)
  PROVE  \E r \in Request : req' = [req EXCEPT ![p] = r]
  <1> req[p] \in Request /\ req \in [Requests -> Request]
    BY DEF TypeOK
  <1> now \in Nat /\ nextUser \in Nat
    BY DEF TypeOK
  <1>1. CASE Look(p)
    <2>1. PICK i \in Issued : \E goal \in {"visit", "signout"} :
            req' = [req EXCEPT ![p] = [Idle EXCEPT !.pc = "looking",
                      !.start = now, !.id = i, !.goal = goal]]
      BY <1>1 DEF Look
    <2>2. PICK goal \in {"visit", "signout"} :
            req' = [req EXCEPT ![p] = [Idle EXCEPT !.pc = "looking",
                      !.start = now, !.id = i, !.goal = goal]]
      BY <2>1
    <2>3. [Idle EXCEPT !.pc = "looking", !.start = now, !.id = i,
                       !.goal = goal] \in Request
      BY IdleTyped DEF Request, Idle, TypeOK
    <2> QED
      BY <2>2, <2>3
  <1>2. CASE SelectExpired(p)
    <2>1. [req[p] EXCEPT !.pc = "expired"] \in Request
      BY DEF Request
    <2>2. req' = [req EXCEPT ![p] = [req[p] EXCEPT !.pc = "expired"]]
      BY <1>2 DEF SelectExpired
    <2> QED
      BY <2>1, <2>2
  <1>3. CASE SelectExtend(p)
    <2>1. [req[p] EXCEPT !.pc = "extending", !.at = now] \in Request
      BY DEF Request
    <2>2. req' = [req EXCEPT ![p] = [req[p] EXCEPT !.pc = "extending",
                                                   !.at = now]]
      BY <1>3 DEF SelectExtend
    <2> QED
      BY <2>1, <2>2
  <1>4. CASE SelectFresh(p) \/ Extend(p) \/ ExtendFails(p)
    BY <1>4, ValidatedTyped DEF SelectFresh, Extend, ExtendFails
  <1>5. CASE SelectMissing(p) \/ DeleteExpired(p) \/ SignOut(p)
               \/ CreateSession(p) \/ Fail(p)
    BY <1>5, IdleTyped
       DEF SelectMissing, DeleteExpired, SignOut, CreateSession, Fail, Done
  <1>6. CASE SignIn(p)
    <2>1. PICK u \in users :
            req' = [req EXCEPT ![p] = [Idle EXCEPT !.pc = "authenticated",
                      !.start = now, !.user = u.id]]
      BY <1>6 DEF SignIn
    <2>2. u.id \in Nat
      BY DEF TypeOK
    <2>3. [Idle EXCEPT !.pc = "authenticated", !.start = now, !.user = u.id]
            \in Request
      BY <2>2, IdleTyped DEF Request, Idle
    <2> QED
      BY <2>1, <2>3
  <1>7. CASE CheckCapacity(p)
    <2>1. PICK l \in Logins :
            req' = [req EXCEPT ![p] = [Idle EXCEPT !.pc = "registering",
                      !.start = now, !.login = l]]
      BY <1>7 DEF CheckCapacity
    <2>2. [Idle EXCEPT !.pc = "registering", !.start = now, !.login = l]
            \in Request
      BY IdleTyped DEF Request, Idle
    <2> QED
      BY <2>1, <2>2
  <1>8. CASE SelectLogin(p)
    <2>1. [req[p] EXCEPT !.pc = "inserting"] \in Request
      BY DEF Request
    <2>2. \/ req' = [req EXCEPT ![p] = Idle]
          \/ req' = [req EXCEPT ![p] = [req[p] EXCEPT !.pc = "inserting"]]
      BY <1>8 DEF SelectLogin, Done
    <2> QED
      BY <2>1, <2>2, IdleTyped
  <1>9. CASE InsertUser(p)
    <2>1. [req[p] EXCEPT !.pc = "inserted", !.user = nextUser] \in Request
      BY DEF Request
    <2>2. \/ req' = [req EXCEPT ![p] = Idle]
          \/ req' = [req EXCEPT ![p] = [req[p] EXCEPT !.pc = "inserted",
                                                      !.user = nextUser]]
      BY <1>9 DEF InsertUser, Done
    <2> QED
      BY <2>1, <2>2, IdleTyped
  <1>10. CASE CommitUser(p)
    <2>1. [req[p] EXCEPT !.pc = "authenticated"] \in Request
      BY DEF Request
    <2>2. req' = [req EXCEPT ![p] = [req[p] EXCEPT !.pc = "authenticated"]]
      BY <1>10 DEF CommitUser
    <2> QED
      BY <2>1, <2>2
  <1> QED
    BY <1>1, <1>2, <1>3, <1>4, <1>5, <1>6, <1>7, <1>8, <1>9, <1>10
       DEF Steps, ValidateSession, Register

\* The tables and histories a step of a request writes.
LEMMA StepsTyped ==
  ASSUME TypeOK, SessionsInv, NEW p \in Requests, Steps(p)
  PROVE  TypeOK'
  <1> req[p] \in Request
    BY DEF TypeOK
  <1>1. req' \in [Requests -> Request]
    BY StepsReq DEF TypeOK
  <1>2. CASE SelectFresh(p)
    <2>1. req[p].id \in Tokens /\ now \in Nat
      BY <1>2 DEF SelectFresh, SessionsInv, TypeOK
    <2> QED
      BY <1>1, <1>2, <2>1, UseTyped DEF SelectFresh, TypeOK
  <1>3. CASE Extend(p)
    <2>1. req[p].id \in Tokens /\ req[p].at \in Nat
      BY <1>3 DEF Extend, SessionsInv, TypeOK, Request
    <2>2. \A s \in sessions' : s \in [id : Tokens, user : Nat, exp : Nat]
      BY <1>3, <2>1, TTLAssumption DEF Extend, Extended, TypeOK
    <2> QED
      BY <1>1, <1>3, <2>1, <2>2, UseTyped DEF Extend, TypeOK
  <1>4. CASE CreateSession(p)
    <2>1. PICK i \in Tokens \ Issued :
            /\ sessions' = sessions \cup
                 {[id |-> i, user |-> req[p].user, exp |-> now + TTL]}
            /\ Use(i, now)
      BY <1>4 DEF CreateSession
    <2>2. now \in Nat /\ now + TTL \in Nat /\ req[p].user \in Nat
      BY TTLAssumption DEF TypeOK, Request
    <2>3. sessions' \subseteq [id : Tokens, user : Nat, exp : Nat]
      BY <2>1, <2>2 DEF TypeOK
    <2> QED
      BY <1>1, <1>4, <2>1, <2>2, <2>3, UseTyped DEF CreateSession, TypeOK
  <1>5. CASE CommitUser(p)
    <2>1. [id |-> req[p].user, login |-> req[p].login]
            \in [id : Nat, login : Logins \cup {NoLogin}]
      BY DEF Request
    <2> QED
      BY <1>1, <1>5, <2>1 DEF CommitUser, TypeOK, Issued
  <1>6. CASE InsertUser(p)
    BY <1>1, <1>6 DEF InsertUser, TypeOK, Issued
  <1>7. CASE SignOut(p)
    BY <1>1, <1>7 DEF SignOut, TypeOK, Issued, Request
  <1>8. CASE DeleteExpired(p)
    BY <1>1, <1>8 DEF DeleteExpired, TypeOK, Issued
  <1>9. ASSUME UNCHANGED <<now, users, nextUser, sessions, used, lapsed,
                           signedOut>>
        PROVE  TypeOK'
    BY <1>1, <1>9 DEF TypeOK, Issued
  <1> QED
    BY <1>2, <1>3, <1>4, <1>5, <1>6, <1>7, <1>8, <1>9
       DEF Steps, ValidateSession, Register, Look, SelectMissing,
           SelectExpired, SelectExtend, ExtendFails, SignIn, CheckCapacity,
           SelectLogin, Fail

LEMMA TypeNext == TypeOK /\ SessionsInv /\ [Next]_vars => TypeOK'
  <1> SUFFICES ASSUME TypeOK, SessionsInv, [Next]_vars PROVE TypeOK'
    OBVIOUS
  <1>1. CASE UNCHANGED vars
    BY <1>1 DEF vars, TypeOK, Issued
  <1>2. CASE Sweep
    BY <1>2 DEF Sweep, TypeOK, Issued
  <1>3. CASE Tick
    BY <1>3 DEF Tick, TypeOK, Issued
  <1> QED
    BY <1>1, <1>2, <1>3, StepsTyped DEF Next, Steps

------------------------------------------------------------------------------
\* Sessions.

\* Only a step that brings a request to a session's id matters: it is issued.
LEMMA StepsSessions ==
  ASSUME TypeOK, SessionsInv, NEW p \in Requests, Steps(p)
  PROVE  SessionsInv'
  <1> DEFINE Busy == {"looking", "expired", "extending", "signing_out"}
  <1>1. /\ req[p] \in Request /\ req \in [Requests -> Request]
        /\ Issued \subseteq Tokens /\ now \in Nat
    BY DEF TypeOK
  <1>2. PICK r \in Request : req' = [req EXCEPT ![p] = r]
    BY StepsReq
  <1>3. \A q \in Requests : req'[q] = IF q = p THEN r ELSE req[q]
    BY <1>2, ReqTyped
  <1>4. Issued \subseteq Issued'
    <2>1. CASE SelectFresh(p) \/ Extend(p)
      <3>1. req[p].id \in Tokens /\ req[p].at \in Nat
        BY <1>1, <2>1 DEF SelectFresh, Extend, SessionsInv, Request
      <3> QED
        BY <1>1, <2>1, <3>1, UseTyped DEF SelectFresh, Extend
    <2>2. CASE CreateSession(p)
      <3>1. PICK i \in Tokens : Use(i, now)
        BY <2>2 DEF CreateSession
      <3> QED
        BY <1>1, <3>1, UseTyped
    <2>3. CASE used' = used
      BY <2>3 DEF Issued
    <2> QED
      BY <2>1, <2>2, <2>3
         DEF Steps, ValidateSession, Register, Look, SelectMissing,
             SelectExpired, SelectExtend, DeleteExpired, ExtendFails, SignIn,
             SignOut, CheckCapacity, SelectLogin, InsertUser, CommitUser, Fail
  <1>5. r.pc \in Busy => r.id \in Issued
    <2>1. CASE Look(p) \/ SignIn(p) \/ CheckCapacity(p)
      BY <1>2, <2>1, Begun
    <2>2. CASE SelectExpired(p) \/ SelectExtend(p)
      BY <1>1, <1>3, <2>2 DEF SelectExpired, SelectExtend, SessionsInv, Request
    <2>3. CASE SelectFresh(p) \/ Extend(p) \/ ExtendFails(p)
      <3>1. r = Validated(p) /\ req[p].id \in Issued
        BY <1>1, <1>3, <2>3
           DEF SelectFresh, Extend, ExtendFails, SessionsInv, Request
      <3> QED
        BY <1>1, <3>1 DEF Validated, Idle, Request
    <2>4. CASE Done(p)
      BY <1>1, <1>3, <2>4 DEF Done, Idle
    <2>5. CASE SelectLogin(p) \/ InsertUser(p) \/ CommitUser(p)
      BY <1>1, <1>3, <2>4, <2>5
         DEF SelectLogin, InsertUser, CommitUser, Request
    <2> QED
      BY <2>1, <2>2, <2>3, <2>4, <2>5
         DEF Steps, ValidateSession, Register, SelectMissing, DeleteExpired,
             SignOut, CreateSession, Fail
  <1>6. \A q \in Requests : req'[q].pc \in Busy => req'[q].id \in Issued'
    BY <1>3, <1>4, <1>5 DEF SessionsInv
  <1>7. /\ \A s \in sessions' : s.id \in Issued' /\ s.id \notin signedOut'
        /\ signedOut' \subseteq Issued'
    <2>1. CASE SignOut(p)
      <3>1. req[p].id \in Issued
        BY <2>1 DEF SignOut, SessionsInv
      <3>2. \A s \in sessions' : s \in sessions /\ s.id # req[p].id
        BY <2>1 DEF SignOut, Row
      <3>3. signedOut' = signedOut \cup {req[p].id}
        BY <2>1 DEF SignOut
      <3> QED
        BY <1>4, <3>1, <3>2, <3>3 DEF SessionsInv
    <2>2. CASE Extend(p)
      <3>1. \A s \in sessions' : \E t \in sessions : s.id = t.id
        BY <2>2 DEF Extend, Extended, TypeOK
      <3> QED
        BY <1>4, <2>2, <3>1 DEF Extend, SessionsInv
    <2>3. CASE CreateSession(p)
      <3>1. PICK i \in Tokens \ Issued :
              /\ sessions' = sessions \cup
                   {[id |-> i, user |-> req[p].user, exp |-> now + TTL]}
              /\ Use(i, now)
        BY <2>3 DEF CreateSession
      <3>2. i \in Issued' /\ i \notin signedOut
        BY <1>1, <3>1, UseTyped DEF SessionsInv
      <3> QED
        BY <1>4, <2>3, <3>1, <3>2 DEF CreateSession, SessionsInv
    <2>4. CASE DeleteExpired(p)
      BY <1>4, <2>4 DEF DeleteExpired, SessionsInv
    <2>5. CASE sessions' = sessions /\ signedOut' = signedOut
      BY <1>4, <2>5 DEF SessionsInv
    <2> QED
      BY <2>1, <2>2, <2>3, <2>4, <2>5
         DEF Steps, ValidateSession, Register, Look, SelectMissing,
             SelectExpired, SelectExtend, SelectFresh, ExtendFails, SignIn,
             CheckCapacity, SelectLogin, InsertUser, CommitUser, Fail
  <1> QED
    BY <1>6, <1>7 DEF SessionsInv

LEMMA SessionsNext == TypeOK /\ SessionsInv /\ [Next]_vars => SessionsInv'
  <1> SUFFICES ASSUME TypeOK, SessionsInv, [Next]_vars PROVE SessionsInv'
    OBVIOUS
  <1>1. CASE UNCHANGED vars
    BY <1>1 DEF vars, SessionsInv, Issued
  <1>2. CASE Sweep \/ Tick
    BY <1>2 DEF Sweep, Tick, SessionsInv, Issued
  <1> QED
    BY <1>1, <1>2, StepsSessions DEF Next, Steps

\* Expiries follow uses: an extension records the time it counted from, and
\* an older extension that comes late only shortens the expiry.
LEMMA ExpiryNext ==
  TypeOK /\ SessionsInv /\ ExpiryInv /\ [Next]_vars => ExpiryInv'
  <1> SUFFICES ASSUME TypeOK, SessionsInv, ExpiryInv, [Next]_vars
               PROVE  ExpiryInv'
    OBVIOUS
  <1>1. /\ sessions \subseteq [id : Tokens, user : Nat, exp : Nat]
        /\ used \in [Issued -> Nat] /\ Issued \subseteq Tokens
        /\ now \in Nat /\ TTL \in Nat
        /\ \A p \in Requests : req[p] \in Request
    BY TTLAssumption DEF TypeOK
  <1>2. ASSUME \A s \in sessions' : s \in sessions, used' = used
        PROVE  ExpiryInv'
    BY <1>2 DEF ExpiryInv
  <1>3. ASSUME NEW p \in Requests, SelectFresh(p)
        PROVE  ExpiryInv'
    <2>1. req[p].id \in Tokens /\ Use(req[p].id, now) /\ sessions' = sessions
      BY <1>1, <1>3 DEF SelectFresh, SessionsInv
    <2>2. \A j \in Issued : used'[j] >= used[j] /\ used'[j] \in Nat
      BY <1>1, <2>1, UseTyped
    <2>3. \A s \in sessions : s.id \in Issued /\ s.exp <= used[s.id] + TTL
      BY DEF SessionsInv, ExpiryInv
    <2> QED
      BY <1>1, <2>1, <2>2, <2>3 DEF ExpiryInv
  <1>4. ASSUME NEW p \in Requests, Extend(p)
        PROVE  ExpiryInv'
    <2>1. /\ req[p].id \in Tokens /\ req[p].at \in Nat
          /\ Use(req[p].id, req[p].at)
      BY <1>1, <1>4 DEF Extend, SessionsInv, Request
    <2>2. \A j \in Issued : used'[j] >= used[j] /\ used'[j] \in Nat
      BY <1>1, <2>1, UseTyped
    <2>3. used'[req[p].id] >= req[p].at /\ used'[req[p].id] \in Nat
      BY <1>1, <2>1, UseTyped
    <2>4. \A s \in sessions' :
            \/ s \in sessions
            \/ s.id = req[p].id /\ s.exp = req[p].at + TTL
      BY <1>1, <1>4 DEF Extend, Extended
    <2>5. \A s \in sessions : s.id \in Issued /\ s.exp <= used[s.id] + TTL
      BY DEF SessionsInv, ExpiryInv
    <2>6. \A s \in sessions' : s.exp <= used'[s.id] + TTL
      <3> SUFFICES ASSUME NEW s \in sessions'
                   PROVE  s.exp <= used'[s.id] + TTL
        OBVIOUS
      <3>1. CASE s \in sessions
        BY <1>1, <2>2, <2>5, <3>1
      <3>2. CASE s.id = req[p].id /\ s.exp = req[p].at + TTL
        BY <1>1, <2>1, <2>3, <3>2
      <3> QED
        BY <2>4, <3>1, <3>2
    <2> QED
      BY <2>6 DEF ExpiryInv
  <1>5. ASSUME NEW p \in Requests, CreateSession(p)
        PROVE  ExpiryInv'
    <2>1. PICK i \in Tokens \ Issued :
            /\ sessions' = sessions \cup
                 {[id |-> i, user |-> req[p].user, exp |-> now + TTL]}
            /\ Use(i, now)
      BY <1>5 DEF CreateSession
    <2>2. /\ used'[i] >= now /\ used'[i] \in Nat
          /\ \A j \in Issued : used'[j] >= used[j] /\ used'[j] \in Nat
      BY <1>1, <2>1, UseTyped
    <2>3. \A s \in sessions : s.id \in Issued /\ s.exp <= used[s.id] + TTL
      BY DEF SessionsInv, ExpiryInv
    <2> QED
      BY <1>1, <2>1, <2>2, <2>3 DEF ExpiryInv
  <1>6. ASSUME NEW p \in Requests, DeleteExpired(p) \/ SignOut(p)
        PROVE  ExpiryInv'
    BY <1>2, <1>6 DEF DeleteExpired, SignOut
  <1>7. CASE Sweep \/ Tick \/ UNCHANGED vars
    BY <1>2, <1>7 DEF Sweep, Tick, vars
  <1>8. ASSUME NEW p \in Requests,
               \/ Look(p) \/ SelectMissing(p) \/ SelectExpired(p)
               \/ SelectExtend(p) \/ ExtendFails(p) \/ SignIn(p)
               \/ Register(p) \/ Fail(p)
        PROVE  ExpiryInv'
    BY <1>2, <1>8
       DEF Look, SelectMissing, SelectExpired, SelectExtend, ExtendFails,
           SignIn, Register, CheckCapacity, SelectLogin, InsertUser,
           CommitUser, Fail
  <1> QED
    BY <1>3, <1>4, <1>5, <1>6, <1>7, <1>8 DEF Next, ValidateSession

------------------------------------------------------------------------------
\* Users.

\* A step that commits no user and leaves each request between INSERT and
\* COMMIT as it was, or takes it out.
LEMMA QuietUsers ==
  ASSUME UsersInv, users' = users, nextUser' = nextUser,
         \A p \in Requests : req'[p].pc = "inserted" => req'[p] = req[p]
  PROVE  UsersInv'
  BY DEF UsersInv, OneUserPerLogin, Inserted

LEMMA StepsUsers ==
  ASSUME TypeOK, UsersInv, NEW p \in Requests, Steps(p)
  PROVE  UsersInv'
  <1>1. req[p] \in Request /\ req \in [Requests -> Request]
    BY DEF TypeOK
  <1>2. PICK r \in Request : req' = [req EXCEPT ![p] = r]
    BY StepsReq
  <1>3. \A q \in Requests : req'[q] = IF q = p THEN r ELSE req[q]
    BY <1>2, ReqTyped
  <1>4. /\ nextUser \in Nat
        /\ \A u \in users : u.id \in Nat
        /\ \A q \in Requests : req[q].user \in Nat
    BY DEF TypeOK, Request
  <1>5. ASSUME Done(p), users' = users,
               nextUser' = nextUser \/ nextUser' = nextUser + 1
        PROVE  UsersInv'
    <2>1. \A q \in Requests : Inserted(q)' => Inserted(q) /\ req'[q] = req[q]
      BY <1>1, <1>5 DEF Done, Idle, Inserted
    <2> QED
      BY <1>4, <1>5, <2>1 DEF UsersInv, OneUserPerLogin, Inserted
  <1>6. CASE CommitUser(p)
    <2>1. /\ users' = users \cup {[id |-> req[p].user, login |-> req[p].login]}
          /\ nextUser' = nextUser /\ Inserted(p) /\ ~Inserted(p)'
          /\ \A q \in Requests \ {p} : req'[q] = req[q]
      BY <1>1, <1>6 DEF CommitUser, Inserted, Request
    <2> QED
      BY <2>1 DEF UsersInv, OneUserPerLogin, Inserted
  <1>7. ASSUME InsertUser(p), ~Done(p)
        PROVE  UsersInv'
    <2>1. /\ req'[p].pc = "inserted" /\ req'[p].user = nextUser
          /\ req'[p].login = req[p].login
          /\ \A q \in Requests \ {p} : req'[q] = req[q]
      BY <1>1, <1>7 DEF InsertUser, Request
    <2>2. users' = users /\ nextUser' = nextUser + 1
      BY <1>7 DEF InsertUser
    <2>3. \A u \in users : u.login # req[p].login /\ u.id < nextUser
      BY <1>7 DEF InsertUser, Taken, UsersInv
    <2>4. \A q \in Requests \ {p} : Inserted(q) =>
            req[q].login # req[p].login /\ req[q].user < nextUser
      BY <1>7 DEF InsertUser, Held, UsersInv, Inserted
    <2>5. \A q \in Requests \ {p} : Inserted(q)' = Inserted(q)
      BY <2>1 DEF Inserted
    <2> HIDE DEF Inserted
    <2>6. OneUserPerLogin' /\ \A u \in users' : u.id < nextUser'
      BY <1>4, <2>2, <2>3 DEF UsersInv, OneUserPerLogin
    <2>7. \A q \in Requests : Inserted(q)' =>
            /\ req'[q].user < nextUser'
            /\ \A u \in users' : u.login # req'[q].login /\ u.id # req'[q].user
      BY <1>4, <2>1, <2>2, <2>3, <2>4, <2>5 DEF UsersInv
    <2>8. \A q, t \in Requests : q # t /\ Inserted(q)' /\ Inserted(t)' =>
            req'[q].login # req'[t].login /\ req'[q].user # req'[t].user
      BY <1>4, <2>1, <2>4, <2>5 DEF UsersInv
    <2> QED
      BY <2>6, <2>7, <2>8 DEF UsersInv
  <1>8. ASSUME r.pc # "inserted", users' = users, nextUser' = nextUser
        PROVE  UsersInv'
    BY <1>3, <1>8, QuietUsers
  <1>9. ASSUME \/ Look(p) \/ SelectExpired(p) \/ SelectExtend(p)
               \/ SelectFresh(p) \/ Extend(p) \/ ExtendFails(p)
               \/ SignIn(p) \/ CheckCapacity(p) \/ SelectLogin(p)
        PROVE  r.pc # "inserted"
    <2>1. Validated(p).pc # "inserted"
      BY <1>1 DEF Validated, Idle, Request
    <2>2. CASE SelectFresh(p) \/ Extend(p) \/ ExtendFails(p)
      BY <1>1, <1>3, <2>1, <2>2 DEF SelectFresh, Extend, ExtendFails
    <2>3. CASE SelectExpired(p) \/ SelectExtend(p) \/ SelectLogin(p)
      BY <1>1, <1>3, <2>3
         DEF SelectExpired, SelectExtend, SelectLogin, Done, Request, Idle
    <2>4. CASE Look(p)
      BY <1>1, <1>3, <2>4 DEF Look, Idle
    <2>5. CASE SignIn(p) \/ CheckCapacity(p)
      BY <1>1, <1>3, <2>5 DEF SignIn, CheckCapacity, Idle
    <2> QED
      BY <1>9, <2>2, <2>3, <2>4, <2>5
  <1> QED
    BY <1>5, <1>6, <1>7, <1>8, <1>9
       DEF Steps, ValidateSession, Register, Look, SelectMissing,
           SelectExpired, SelectExtend, SelectFresh, Extend, ExtendFails,
           DeleteExpired, SignOut, SignIn, CreateSession, CheckCapacity,
           SelectLogin, InsertUser, Fail

LEMMA UsersNext == TypeOK /\ UsersInv /\ [Next]_vars => UsersInv'
  <1> SUFFICES ASSUME TypeOK, UsersInv, [Next]_vars PROVE UsersInv'
    OBVIOUS
  <1>1. CASE UNCHANGED vars
    BY <1>1, QuietUsers DEF vars
  <1>2. CASE Sweep \/ Tick
    BY <1>2, QuietUsers DEF Sweep, Tick
  <1> QED
    BY <1>1, <1>2, StepsUsers DEF Next, Steps

------------------------------------------------------------------------------
\* The invariant and what follows from it.

LEMMA AuthInit == Init => AuthInv
  <1> SUFFICES ASSUME Init PROVE AuthInv
    OBVIOUS
  <1>1. \A p \in Requests : req[p] = Idle
    BY DEF Init
  <1>2. used \in [Issued -> Nat] /\ Issued = {}
    BY DEF Init, Issued
  <1>3. TypeOK
    BY <1>2, IdleTyped DEF Init, TypeOK
  <1>4. SessionsInv /\ ExpiryInv
    BY <1>1, <1>2 DEF Init, SessionsInv, ExpiryInv, Idle
  <1>5. UsersInv
    BY <1>1 DEF Init, UsersInv, OneUserPerLogin, Inserted, Idle
  <1> QED
    BY <1>3, <1>4, <1>5 DEF AuthInv

\* Every reachable state of sign-up and sessions satisfies AuthInv.
THEOREM AuthInvariant == Spec => []AuthInv
  <1>1. AuthInv /\ [Next]_vars => AuthInv'
    BY TypeNext, SessionsNext, ExpiryNext, UsersNext DEF AuthInv
  <1> QED
    BY <1>1, AuthInit, PTL DEF Spec

\* ValidateSession's UPDATE never brings back a session that DeleteSession
\* removed, whatever requests were about to extend it.
THEOREM NoSessionReturns == Spec => []SignedOutStaysOut
  <1>1. AuthInv => SignedOutStaysOut
    BY DEF AuthInv, SessionsInv, SignedOutStaysOut
  <1> QED
    BY <1>1, AuthInvariant, PTL

\* However many requests extend a session at once and however late, it ends
\* within the TTL of its last use.
THEOREM EverySessionExpires == Spec => []IdleSessionsExpire
  <1>1. AuthInv => IdleSessionsExpire
    BY DEF AuthInv, SessionsInv, ExpiryInv, IdleSessionsExpire
  <1> QED
    BY <1>1, AuthInvariant, PTL

\* Register creates at most one user per login, whatever sign-ups overlap.
THEOREM LoginsStayUnique == Spec => []OneUserPerLogin
  <1>1. AuthInv => OneUserPerLogin
    BY DEF AuthInv, UsersInv
  <1> QED
    BY <1>1, AuthInvariant, PTL

------------------------------------------------------------------------------
\* Sessions in use.

Active == Issued \ (lapsed \cup signedOut)

\* No two rows have one id, and a session's uses are in the past.
OneRowPerSession == \A s, t \in sessions : s.id = t.id => s = t

UsesArePast == \A i \in Issued : used[i] <= now

\* No request outlasts MaxLag, and the time it extends from is its own.
Prompt(p) ==
  /\ req[p].pc # "idle" =>
       req[p].start <= now /\ now <= req[p].start + MaxLag
  /\ req[p].pc = "extending" =>
       req[p].start <= req[p].at /\ req[p].at <= now

\* A request deletes, as expired, only a session that is in use no more.
DeletesNoActive(p) ==
  req[p].pc = "expired" => req[p].id \in lapsed \cup signedOut

\* A session in use has been used lately, and is good for half a TTL since.
GoesOn(i) ==
  /\ 2 * (now + MaxLag - used[i]) <= TTL
  /\ \E s \in sessions : s.id = i /\ 2 * (s.exp - used[i]) >= TTL

ActiveInv ==
  /\ OneRowPerSession
  /\ UsesArePast
  /\ \A p \in Requests : Prompt(p) /\ DeletesNoActive(p)
  /\ \A i \in Active : GoesOn(i)

\* The facts of arithmetic the steps need.
LEMMA ActiveTyped ==
  ASSUME TypeOK
  PROVE  /\ sessions \subseteq [id : Tokens, user : Nat, exp : Nat]
         /\ used \in [Issued -> Nat] /\ Issued \subseteq Tokens
         /\ now \in Nat /\ TTL \in Nat \ {0} /\ MaxLag \in Nat
         /\ req \in [Requests -> Request]
         /\ \A p \in Requests :
              /\ req[p] \in Request
              /\ req[p].start \in Nat /\ req[p].at \in Nat
  BY TTLAssumption, LimitsAssumption DEF TypeOK, Request

\* A session in use has not expired.
LEMMA GoesOnAlive ==
  ASSUME TypeOK, SessionsInv, NEW i \in Issued, GoesOn(i)
  PROVE  \E s \in sessions : s.id = i /\ s.exp >= now
  <1>1. PICK s \in sessions : s.id = i /\ 2 * (s.exp - used[i]) >= TTL
    BY DEF GoesOn
  <1>2. s.exp \in Nat /\ used[i] \in Nat
    BY ActiveTyped
  <1>3. 2 * (now + MaxLag - used[i]) <= TTL
    BY DEF GoesOn
  <1>4. s.exp >= now
    BY <1>1, <1>2, <1>3, ActiveTyped
  <1> QED
    BY <1>1, <1>4

\* A step that leaves the clock, the rows and the uses alone.
LEMMA QuietActive ==
  ASSUME ActiveInv, now' = now, sessions' = sessions, used' = used,
         lapsed' = lapsed, signedOut' = signedOut,
         \A p \in Requests : Prompt(p)' /\ DeletesNoActive(p)'
  PROVE  ActiveInv'
  BY DEF ActiveInv, Active, Issued, OneRowPerSession, UsesArePast, GoesOn

\* A request's own record after each of its steps.
LEMMA StepsPrompt ==
  ASSUME TypeOK, SessionsInv, ActiveInv, NEW p \in Requests, Steps(p)
  PROVE  \A q \in Requests :
           Prompt(q)' /\ (req'[q].pc = "expired" =>
                            req'[q].id \in lapsed \cup signedOut)
  <1>1. /\ req[p] \in Request /\ req \in [Requests -> Request]
        /\ req[p].start \in Nat /\ req[p].at \in Nat
        /\ now \in Nat /\ MaxLag \in Nat
    BY ActiveTyped
  <1>2. PICK r \in Request : req' = [req EXCEPT ![p] = r]
    BY StepsReq
  <1>3. \A q \in Requests : req'[q] = IF q = p THEN r ELSE req[q]
    BY <1>2, ReqTyped
  <1>4. now' = now
    BY DEF Steps, ValidateSession, Register, Look, SelectMissing,
           SelectExpired, SelectExtend, SelectFresh, Extend, ExtendFails,
           DeleteExpired, SignOut, SignIn, CreateSession, CheckCapacity,
           SelectLogin, InsertUser, CommitUser, Fail
  <1> DEFINE Good == /\ r.pc # "idle" =>
                          r.start <= now /\ now <= r.start + MaxLag
                     /\ r.pc = "extending" => r.start <= r.at /\ r.at <= now
                     /\ r.pc = "expired" => r.id \in lapsed \cup signedOut
  <1>5. Prompt(p)
    BY DEF ActiveInv
  <1>6. Good
    <2>1. CASE Look(p) \/ SignIn(p) \/ CheckCapacity(p)
      <3>1. /\ r.pc \in {"looking", "authenticated", "registering"}
            /\ r.start = now
        BY <1>2, <2>1, Begun
      <3> QED
        BY <1>1, <3>1
    <2>2. CASE SelectExpired(p)
      <3>1. PICK s \in Row(p) : now > s.exp
        BY <2>2 DEF SelectExpired
      <3>2. s \in sessions /\ s.id = req[p].id /\ s.exp \in Nat
        BY <3>1, ActiveTyped DEF Row
      <3>3. req[p].id \in Issued
        BY <2>2 DEF SelectExpired, SessionsInv
      <3>4. req[p].id \notin Active
        <4> SUFFICES ASSUME req[p].id \in Active PROVE FALSE
          OBVIOUS
        <4>1. PICK t \in sessions : t.id = req[p].id /\ t.exp >= now
          BY <3>3, GoesOnAlive DEF ActiveInv
        <4>2. t = s
          BY <3>2, <4>1 DEF ActiveInv, OneRowPerSession
        <4> QED
          BY <1>1, <3>1, <3>2, <4>1, <4>2
      <3>5. r = [req[p] EXCEPT !.pc = "expired"] /\ req[p].pc = "looking"
        BY <1>1, <1>3, <2>2 DEF SelectExpired
      <3> QED
        BY <1>1, <1>5, <3>3, <3>4, <3>5 DEF Active, Prompt, Request
    <2>3. CASE SelectExtend(p)
      <3>1. /\ r = [req[p] EXCEPT !.pc = "extending", !.at = now]
            /\ req[p].pc = "looking"
        BY <1>1, <1>3, <2>3 DEF SelectExtend
      <3> QED
        BY <1>1, <1>5, <3>1 DEF Prompt, Request
    <2>4. CASE SelectFresh(p) \/ Extend(p) \/ ExtendFails(p)
      <3>1. r = Validated(p) /\ req[p].pc \in {"looking", "extending"}
        BY <1>1, <1>3, <2>4 DEF SelectFresh, Extend, ExtendFails
      <3>2. \/ r = Idle
            \/ r = [req[p] EXCEPT !.pc = "signing_out"]
        BY <3>1 DEF Validated
      <3> QED
        BY <1>1, <1>5, <3>1, <3>2 DEF Prompt, Request, Idle
    <2>5. CASE Done(p)
      BY <1>1, <1>3, <2>5 DEF Done, Idle
    <2>6. CASE (SelectLogin(p) \/ InsertUser(p) \/ CommitUser(p)) /\ ~Done(p)
      <3>1. /\ r.pc \in {"inserting", "inserted", "authenticated"}
            /\ r.start = req[p].start /\ req[p].pc # "idle"
        BY <1>1, <1>3, <2>6 DEF SelectLogin, InsertUser, CommitUser, Request
      <3> QED
        BY <1>1, <1>5, <3>1 DEF Prompt
    <2> QED
      BY <2>1, <2>2, <2>3, <2>4, <2>5, <2>6
         DEF Steps, ValidateSession, Register, SelectMissing, DeleteExpired,
             SignOut, CreateSession, Fail
  <1>7. \A q \in Requests : Prompt(q) /\ DeletesNoActive(q)
    BY DEF ActiveInv
  <1> QED
    BY <1>3, <1>4, <1>6, <1>7 DEF Prompt, DeletesNoActive

\* Sessions in use go on, as long as a request takes at most half a TTL.
LEMMA ActiveNext ==
  ASSUME 2 * MaxLag <= TTL, TypeOK, SessionsInv, ActiveInv, [Next]_vars
  PROVE  ActiveInv'
  <1>1. /\ sessions \subseteq [id : Tokens, user : Nat, exp : Nat]
        /\ used \in [Issued -> Nat] /\ Issued \subseteq Tokens
        /\ now \in Nat /\ TTL \in Nat \ {0} /\ MaxLag \in Nat
        /\ \A p \in Requests :
             req[p] \in Request /\ req[p].start \in Nat /\ req[p].at \in Nat
    BY ActiveTyped
  <1>2. /\ \A s, t \in sessions : s.id = t.id => s = t
        /\ \A i \in Issued : used[i] <= now
        /\ \A i \in Active : GoesOn(i)
        /\ \A s \in sessions : s.id \in Issued
    BY DEF ActiveInv, OneRowPerSession, UsesArePast, SessionsInv
  <1>3. ASSUME NEW p \in Requests, Steps(p), lapsed' = lapsed,
               signedOut \subseteq signedOut'
        PROVE  \A q \in Requests : Prompt(q)' /\ DeletesNoActive(q)'
    BY <1>3, StepsPrompt DEF DeletesNoActive
  <1>4. ASSUME NEW p \in Requests, SelectFresh(p)
        PROVE  ActiveInv'
    <2>1. /\ req[p].id \in Issued /\ Use(req[p].id, now)
          /\ sessions' = sessions /\ now' = now /\ lapsed' = lapsed
          /\ signedOut' = signedOut
      BY <1>4 DEF SelectFresh, SessionsInv
    <2>2. PICK s \in sessions : s.id = req[p].id /\ 2 * (s.exp - now) >= TTL
      BY <1>1, <1>4 DEF SelectFresh, Row, NeedsExtension
    <2>3. Issued' = Issued /\ Active' = Active
      BY <1>1, <2>1, UseTyped DEF Active
    <2>4. used'[req[p].id] = now
      BY <1>1, <1>2, <2>1 DEF Use
    <2>5. \A j \in Issued : j # req[p].id => used'[j] = used[j]
      BY <1>1, <2>1 DEF Use
    <2>6. UsesArePast' /\ OneRowPerSession'
      BY <1>1, <1>2, <2>1, <2>3, <2>4, <2>5 DEF UsesArePast, OneRowPerSession
    <2>7. \A i \in Active' : GoesOn(i)'
      <3> SUFFICES ASSUME NEW i \in Active PROVE GoesOn(i)'
        BY <2>3
      <3>1. CASE i = req[p].id
        BY <1>1, <2>1, <2>2, <2>4, <3>1 DEF GoesOn
      <3>2. CASE i # req[p].id
        BY <1>2, <2>1, <2>5, <3>2 DEF GoesOn, Active
      <3> QED
        BY <3>1, <3>2
    <2> QED
      BY <1>3, <1>4, <2>1, <2>6, <2>7 DEF ActiveInv, Steps, ValidateSession
  <1>5. ASSUME NEW p \in Requests, Extend(p)
        PROVE  ActiveInv'
    <2>0. PICK i, t : i = req[p].id /\ t = req[p].at
      OBVIOUS
    <2>1. /\ i \in Issued /\ Use(i, t)
          /\ now' = now /\ lapsed' = lapsed /\ signedOut' = signedOut
          /\ sessions' = {IF s.id = i THEN [s EXCEPT !.exp = t + TTL] ELSE s :
                            s \in sessions}
      BY <1>5, <2>0 DEF Extend, Extended, SessionsInv
    <2>2. t \in Nat /\ t <= now /\ now <= t + MaxLag
      BY <1>1, <1>5, <2>0 DEF Extend, ActiveInv, Prompt
    <2>3. Issued' = Issued /\ Active' = Active
      BY <1>1, <2>1, <2>2, UseTyped DEF Active
    <2>4. /\ used'[i] = IF used[i] > t THEN used[i] ELSE t
          /\ \A j \in Issued : j # i => used'[j] = used[j]
      BY <1>1, <2>1 DEF Use
    <2>5. used[i] \in Nat /\ used[i] <= now
      BY <1>1, <1>2, <2>1
    <2>6. UsesArePast'
      BY <1>1, <1>2, <2>1, <2>2, <2>3, <2>4, <2>5 DEF UsesArePast
    <2>7. \A s \in sessions :
            [s EXCEPT !.exp = t + TTL].id = s.id
      BY <1>1
    <2>8. OneRowPerSession'
      <3> SUFFICES ASSUME NEW s \in sessions', NEW u \in sessions', s.id = u.id
                   PROVE  s = u
        BY DEF OneRowPerSession
      <3>1. PICK x \in sessions :
              s = IF x.id = i THEN [x EXCEPT !.exp = t + TTL] ELSE x
        BY <2>1
      <3>2. PICK y \in sessions :
              u = IF y.id = i THEN [y EXCEPT !.exp = t + TTL] ELSE y
        BY <2>1
      <3>3. x.id = y.id
        BY <2>7, <3>1, <3>2
      <3> QED
        BY <1>2, <3>1, <3>2, <3>3
    <2>9. \A j \in Active' : j # i => GoesOn(j)'
      <3> SUFFICES ASSUME NEW j \in Active, j # i PROVE GoesOn(j)'
        BY <2>3
      <3>1. used'[j] = used[j] /\ GoesOn(j)
        BY <1>2, <2>4 DEF Active
      <3>2. PICK s \in sessions : s.id = j /\ 2 * (s.exp - used[j]) >= TTL
        BY <3>1 DEF GoesOn
      <3>3. s \in sessions'
        BY <2>1, <3>2
      <3> QED
        BY <2>1, <3>1, <3>2, <3>3 DEF GoesOn
    <2>10. i \in Active' => GoesOn(i)'
      <3> SUFFICES ASSUME i \in Active PROVE GoesOn(i)'
        BY <2>3
      <3>1. PICK s \in sessions : s.id = i
        BY <1>2 DEF GoesOn
      <3>2. 2 * (now + MaxLag - used[i]) <= TTL
        BY <1>2 DEF GoesOn
      <3>3. [s EXCEPT !.exp = t + TTL] \in sessions'
        BY <2>1, <3>1
      <3>4. PICK u \in sessions' : u.id = i /\ u.exp = t + TTL
        BY <1>1, <3>1, <3>3
      <3>5. /\ 2 * (now + MaxLag - used'[i]) <= TTL
            /\ 2 * (t + TTL - used'[i]) >= TTL
        <4>1. CASE used[i] > t
          BY <1>1, <2>2, <2>4, <2>5, <3>2, <4>1
        <4>2. CASE ~(used[i] > t)
          BY <1>1, <2>2, <2>4, <2>5, <3>2, <4>2
        <4> QED
          BY <4>1, <4>2
      <3>6. 2 * (u.exp - used'[i]) >= TTL
        BY <1>1, <2>2, <2>4, <2>5, <3>4, <3>5
      <3>7. now' = now
        BY <2>1
      <3> QED
        BY <3>4, <3>5, <3>6, <3>7 DEF GoesOn
    <2> QED
      BY <1>3, <1>5, <2>1, <2>6, <2>8, <2>9, <2>10
         DEF ActiveInv, Steps, ValidateSession
  <1>6. ASSUME NEW p \in Requests, CreateSession(p)
        PROVE  ActiveInv'
    <2>1. PICK i \in Tokens \ Issued :
            /\ sessions' = sessions \cup
                 {[id |-> i, user |-> req[p].user, exp |-> now + TTL]}
            /\ Use(i, now)
      BY <1>6 DEF CreateSession
    <2>2. now' = now /\ lapsed' = lapsed /\ signedOut' = signedOut
      BY <1>6 DEF CreateSession
    <2>3. /\ Issued' = Issued \cup {i} /\ used'[i] = now
          /\ \A j \in Issued : used'[j] = used[j]
      BY <1>1, <2>1 DEF Use, Issued
    <2>4. UsesArePast' /\ OneRowPerSession'
      BY <1>1, <1>2, <2>1, <2>2, <2>3 DEF UsesArePast, OneRowPerSession
    <2>5. GoesOn(i)'
      <3>1. PICK s \in sessions' :
              s = [id |-> i, user |-> req[p].user, exp |-> now + TTL]
        BY <2>1
      <3>2. s.id = i /\ 2 * (s.exp - used'[i]) >= TTL
        BY <1>1, <2>3, <3>1
      <3>3. 2 * (now + MaxLag - used'[i]) <= TTL
        BY <1>1, <2>3
      <3> QED
        BY <2>2, <3>1, <3>2, <3>3 DEF GoesOn
    <2>6. \A j \in Active' : j # i => GoesOn(j)'
      BY <1>2, <2>1, <2>2, <2>3 DEF GoesOn, Active
    <2> QED
      BY <1>3, <1>6, <2>2, <2>4, <2>5, <2>6 DEF ActiveInv, Steps
  <1>7. ASSUME NEW p \in Requests, DeleteExpired(p) \/ SignOut(p)
        PROVE  ActiveInv'
    <2>1. /\ sessions' = {s \in sessions : s.id # req[p].id}
          /\ now' = now /\ used' = used /\ lapsed' = lapsed
          /\ signedOut \subseteq signedOut'
          /\ req[p].id \in lapsed' \cup signedOut'
      BY <1>7 DEF DeleteExpired, SignOut, Row, ActiveInv, DeletesNoActive
    <2>2. \A i \in Active' : i \in Active /\ i # req[p].id
      BY <2>1 DEF Active, Issued
    <2>3. \A i \in Active' : GoesOn(i)'
      BY <1>2, <2>1, <2>2 DEF GoesOn
    <2> QED
      BY <1>2, <1>3, <1>7, <2>1, <2>3
         DEF ActiveInv, Steps, ValidateSession, UsesArePast, OneRowPerSession,
             Issued
  <1>8. CASE Sweep
    <2>1. /\ sessions' = {s \in sessions : s.exp >= now}
          /\ UNCHANGED <<now, used, lapsed, signedOut, req>>
          /\ Issued' = Issued /\ Active' = Active
      BY <1>8 DEF Sweep, Active, Issued
    <2>2. \A i \in Active : GoesOn(i)'
      <3> SUFFICES ASSUME NEW i \in Active PROVE GoesOn(i)'
        OBVIOUS
      <3>1. i \in Issued /\ GoesOn(i)
        BY <1>2 DEF Active
      <3>2. PICK s \in sessions : s.id = i /\ 2 * (s.exp - used[i]) >= TTL
        BY <3>1 DEF GoesOn
      <3>3. PICK t \in sessions : t.id = i /\ t.exp >= now
        BY <3>1, GoesOnAlive
      <3>4. s \in sessions'
        BY <1>2, <2>1, <3>2, <3>3
      <3> QED
        BY <2>1, <3>1, <3>2, <3>4 DEF GoesOn
    <2>3. \A p \in Requests : Prompt(p)' /\ DeletesNoActive(p)'
      BY <2>1 DEF ActiveInv, Prompt, DeletesNoActive
    <2> QED
      BY <1>2, <2>1, <2>2, <2>3 DEF ActiveInv, UsesArePast, OneRowPerSession
  <1>9. CASE Tick
    <2>1. /\ now' = now + 1
          /\ \A p \in Requests :
               req[p].pc # "idle" => now < req[p].start + MaxLag
          /\ lapsed' = lapsed \cup {i \in Issued : Lapses(i, now + 1)}
          /\ UNCHANGED <<sessions, used, signedOut, req>>
          /\ Issued' = Issued
      BY <1>9 DEF Tick, Issued
    <2>2. \A i \in Active' :
            i \in Active /\ 2 * (now + 1 + MaxLag - used[i]) <= TTL
      BY <1>1, <2>1 DEF Active, Lapses
    <2>3. \A i \in Active' : GoesOn(i)'
      BY <1>2, <2>1, <2>2 DEF GoesOn
    <2>4. \A p \in Requests : Prompt(p)' /\ DeletesNoActive(p)'
      BY <1>1, <2>1 DEF ActiveInv, Prompt, DeletesNoActive
    <2>5. UsesArePast' /\ OneRowPerSession'
      BY <1>1, <1>2, <2>1 DEF UsesArePast, OneRowPerSession
    <2> QED
      BY <2>3, <2>4, <2>5 DEF ActiveInv
  <1>10. CASE UNCHANGED vars
    BY <1>10, QuietActive DEF vars, ActiveInv, Prompt, DeletesNoActive
  <1>11. ASSUME NEW p \in Requests,
                \/ Look(p) \/ SelectMissing(p) \/ SelectExpired(p)
                \/ SelectExtend(p) \/ ExtendFails(p) \/ SignIn(p)
                \/ Register(p) \/ Fail(p)
         PROVE  ActiveInv'
    <2>1. UNCHANGED <<now, sessions, used, lapsed, signedOut>>
      BY <1>11
         DEF Look, SelectMissing, SelectExpired, SelectExtend, ExtendFails,
             SignIn, Register, CheckCapacity, SelectLogin, InsertUser,
             CommitUser, Fail
    <2> QED
      BY <1>3, <1>11, <2>1, QuietActive DEF Steps, ValidateSession
  <1> QED
    BY <1>4, <1>5, <1>6, <1>7, <1>8, <1>9, <1>10, <1>11
       DEF Next, ValidateSession

LEMMA ActiveInit == Init => ActiveInv
  <1> SUFFICES ASSUME Init PROVE ActiveInv
    OBVIOUS
  <1>1. Issued = {} /\ sessions = {} /\ \A p \in Requests : req[p] = Idle
    BY DEF Init, Issued
  <1> QED
    BY <1>1
       DEF ActiveInv, OneRowPerSession, UsesArePast, Prompt, DeletesNoActive,
           Active, Idle

\* A session used again within every half TTL, less the time a request takes,
\* goes on, if no request takes more than half the TTL: neither extensions
\* under way at once nor the deletes of expired rows end it.
THEOREM UsedSessionsGoOn ==
  ASSUME 2 * MaxLag <= TTL
  PROVE  Spec => []ActiveSessionsSurvive
  <1> DEFINE Inv == AuthInv /\ ActiveInv
  <1>1. Init => Inv
    BY AuthInit, ActiveInit
  <1>2. Inv /\ [Next]_vars => Inv'
    BY TypeNext, SessionsNext, ExpiryNext, UsersNext, ActiveNext DEF AuthInv
  <1>3. Inv => ActiveSessionsSurvive
    <2> SUFFICES ASSUME Inv PROVE ActiveSessionsSurvive
      OBVIOUS
    <2>1. \A i \in Active : i \in Issued /\ GoesOn(i)
      BY DEF ActiveInv, Active
    <2> QED
      BY <2>1, GoesOnAlive DEF AuthInv, ActiveSessionsSurvive, Active
  <1> QED
    BY <1>1, <1>2, <1>3, PTL DEF Spec
=============================================================================
