------------------------------ MODULE Sessions ------------------------------
(***************************************************************************)
(* Sign-up and sessions: backend/auth/service.go, and the server actions    *)
(* and routes of the frontend that call it (actions/auth, lib/auth,         *)
(* api/auth/signout).  Each request runs a few statements of its own; only  *)
(* Register groups two of them in a transaction.  Requests of any number of *)
(* tabs run between the statements of another, and the sweeper at any time. *)
(***************************************************************************)
EXTENDS Integers, FiniteSets

CONSTANTS
  Requests,   \* requests in flight at once
  Logins,
  Tokens,     \* session ids: hashes of random tokens
  TTL,        \* sessionExtensionTTL, in clock ticks
  MaxUsers,   \* PROSPER_MAX_USERS_ALLOWED_TO_REGISTER
  MaxLag,     \* bound: ticks of the clock a request may last
  MaxUserId,  \* bound: ids of users
  MaxTime     \* bound: ticks of the clock

ASSUME TTLAssumption == TTL \in Nat \ {0}

ASSUME LimitsAssumption ==
  MaxUsers \in Nat /\ MaxLag \in Nat /\ MaxUserId \in Nat /\ MaxTime \in Nat

VARIABLES
  now,        \* the clock
  users,      \* committed User rows
  nextUser,   \* AUTO_INCREMENT of User
  sessions,   \* Session rows
  req,        \* each request's progress
  used,       \* history: when each session was created, or last validated
              \* without failing to extend it
  lapsed,     \* history: sessions that went unused for long
  signedOut   \* history: sessions the user signed out of

vars == <<now, users, nextUser, sessions, req, used, lapsed, signedOut>>

NoToken == "none"
NoLogin == "nobody"

Idle == [pc |-> "idle", start |-> 0, at |-> 0, id |-> NoToken,
         login |-> NoLogin, user |-> 0, goal |-> "visit"]

Init ==
  /\ now = 0
  /\ users = {} /\ nextUser = 1
  /\ sessions = {}
  /\ req = [p \in Requests |-> Idle]
  /\ used = [i \in {} |-> 0]
  /\ lapsed = {} /\ signedOut = {}

Issued == DOMAIN used

Use(i, t) ==
  used' = [j \in Issued \cup {i} |->
             IF j # i THEN used[j]
             ELSE IF i \in Issued /\ used[i] > t THEN used[i] ELSE t]

Done(p) == req' = [req EXCEPT ![p] = Idle]

------------------------------------------------------------------------------
\* ValidateSession.

\* What a validated request does next: a page is served, a sign-out goes on.
Validated(p) ==
  IF req[p].goal = "visit" THEN Idle ELSE [req[p] EXCEPT !.pc = "signing_out"]

\* A page (goal "visit") or the sign-out route reads the session of its cookie.
Look(p) ==
  /\ req[p].pc = "idle"
  /\ \E i \in Issued, goal \in {"visit", "signout"} :
       req' = [req EXCEPT ![p] = [Idle EXCEPT !.pc = "looking", !.start = now,
                                              !.id = i, !.goal = goal]]
  /\ UNCHANGED <<now, users, nextUser, sessions, used, lapsed, signedOut>>

Row(p) == {s \in sessions : s.id = req[p].id}

SelectMissing(p) ==
  /\ req[p].pc = "looking" /\ Row(p) = {}
  /\ Done(p)
  /\ UNCHANGED <<now, users, nextUser, sessions, used, lapsed, signedOut>>

SelectExpired(p) ==
  /\ req[p].pc = "looking"
  /\ \E s \in Row(p) : now > s.exp
  /\ req' = [req EXCEPT ![p].pc = "expired"]
  /\ UNCHANGED <<now, users, nextUser, sessions, used, lapsed, signedOut>>

DeleteExpired(p) ==
  /\ req[p].pc = "expired"
  /\ sessions' = sessions \ Row(p)
  /\ Done(p)
  /\ UNCHANGED <<now, users, nextUser, used, lapsed, signedOut>>

\* Mutant: extension waits for the last quarter of the TTL.
NeedsExtensionLate(s) == s.exp - now < TTL \div 4

NeedsExtension(s) == 2 * (s.exp - now) < TTL

SelectFresh(p) ==
  /\ req[p].pc = "looking"
  /\ \E s \in Row(p) : now <= s.exp /\ ~NeedsExtension(s)
  /\ req' = [req EXCEPT ![p] = Validated(p)]
  /\ Use(req[p].id, now)
  /\ UNCHANGED <<now, users, nextUser, sessions, lapsed, signedOut>>

SelectExtend(p) ==
  /\ req[p].pc = "looking"
  /\ \E s \in Row(p) : now <= s.exp /\ NeedsExtension(s)
  /\ req' = [req EXCEPT ![p].pc = "extending", ![p].at = now]
  /\ UNCHANGED <<now, users, nextUser, sessions, used, lapsed, signedOut>>

\* Mutants: the row is written back whether or not it still exists; the
\* expiry moves on from where it was.
ExtendedUpsert(p) ==
  {s \in sessions : s.id # req[p].id} \cup
    {[id |-> req[p].id, user |-> 1, exp |-> req[p].at + TTL]}

ExtendedFromExpiry(p) ==
  {IF s.id = req[p].id THEN [s EXCEPT !.exp = @ + TTL] ELSE s : s \in sessions}

\* UPDATE ... WHERE id = ?
Extended(p) ==
  {IF s.id = req[p].id THEN [s EXCEPT !.exp = req[p].at + TTL] ELSE s :
     s \in sessions}

Extend(p) ==
  /\ req[p].pc = "extending"
  /\ sessions' = Extended(p)
  /\ req' = [req EXCEPT ![p] = Validated(p)]
  /\ Use(req[p].id, req[p].at)
  /\ UNCHANGED <<now, users, nextUser, lapsed, signedOut>>

\* The UPDATE fails and is logged; the session works on as it is.
ExtendFails(p) ==
  /\ req[p].pc = "extending"
  /\ req' = [req EXCEPT ![p] = Validated(p)]
  /\ UNCHANGED <<now, users, nextUser, sessions, used, lapsed, signedOut>>

\* DeleteSession, by the sign-out route.
SignOut(p) ==
  /\ req[p].pc = "signing_out"
  /\ sessions' = sessions \ Row(p)
  /\ signedOut' = signedOut \cup {req[p].id}
  /\ Done(p)
  /\ UNCHANGED <<now, users, nextUser, used, lapsed>>

------------------------------------------------------------------------------
\* CreateSession, after Authenticate or Register.

SignIn(p) ==
  /\ req[p].pc = "idle"
  /\ \E u \in users :
       req' = [req EXCEPT ![p] = [Idle EXCEPT !.pc = "authenticated",
                                    !.start = now, !.user = u.id]]
  /\ UNCHANGED <<now, users, nextUser, sessions, used, lapsed, signedOut>>

CreateSession(p) ==
  /\ req[p].pc = "authenticated"
  /\ \E i \in Tokens \ Issued :
       /\ sessions' = sessions \cup
            {[id |-> i, user |-> req[p].user, exp |-> now + TTL]}
       /\ Use(i, now)
  /\ Done(p)
  /\ UNCHANGED <<now, users, nextUser, lapsed, signedOut>>

------------------------------------------------------------------------------
\* signUp and Register.

\* hasCapacityToSignUp: CountUsers, in a call of its own.
CheckCapacity(p) ==
  /\ req[p].pc = "idle"
  /\ Cardinality(users) < MaxUsers
  /\ \E l \in Logins :
       req' = [req EXCEPT ![p] = [Idle EXCEPT !.pc = "registering",
                                    !.start = now, !.login = l]]
  /\ UNCHANGED <<now, users, nextUser, sessions, used, lapsed, signedOut>>

Taken(l) == \E u \in users : u.login = l

\* SELECT COUNT(*): "User with this login already exists."
SelectLogin(p) ==
  /\ req[p].pc = "registering"
  /\ IF Taken(req[p].login)
     THEN Done(p)
     ELSE req' = [req EXCEPT ![p].pc = "inserting"]
  /\ UNCHANGED <<now, users, nextUser, sessions, used, lapsed, signedOut>>

\* Mutant: no unique index to wait for.
HeldByNobody(p) == FALSE

\* The unique index makes the INSERT wait for a transaction that has inserted
\* the same login and not ended.
Held(p) ==
  \E q \in Requests \ {p} :
    req[q].pc = "inserted" /\ req[q].login = req[p].login

\* INSERT INTO User, and the seed rows in the same transaction.  A login that
\* was committed meanwhile is a duplicate key, which fails the request.
InsertUser(p) ==
  /\ req[p].pc = "inserting" /\ ~Held(p)
  /\ nextUser <= MaxUserId
  /\ IF Taken(req[p].login)
     THEN Done(p)
     ELSE req' = [req EXCEPT ![p].pc = "inserted", ![p].user = nextUser]
  /\ nextUser' = nextUser + 1
  /\ UNCHANGED <<now, users, sessions, used, lapsed, signedOut>>

CommitUser(p) ==
  /\ req[p].pc = "inserted"
  /\ users' = users \cup {[id |-> req[p].user, login |-> req[p].login]}
  /\ req' = [req EXCEPT ![p].pc = "authenticated"]
  /\ UNCHANGED <<now, nextUser, sessions, used, lapsed, signedOut>>

\* A request is cut short: what it has not committed is lost.
Fail(p) ==
  /\ req[p].pc # "idle"
  /\ Done(p)
  /\ UNCHANGED <<now, users, nextUser, sessions, used, lapsed, signedOut>>

------------------------------------------------------------------------------
\* sweepExpiredSessions.
Sweep ==
  /\ sessions' = {s \in sessions : s.exp >= now}
  /\ UNCHANGED <<now, users, nextUser, req, used, lapsed, signedOut>>

\* A session lapses when it goes unused for half the TTL, less the time a
\* request may take to write its extension.
Lapses(i, t) == 2 * (t + MaxLag - used[i]) > TTL

Tick ==
  /\ now < MaxTime
  /\ \A p \in Requests : req[p].pc # "idle" => now < req[p].start + MaxLag
  /\ now' = now + 1
  /\ lapsed' = lapsed \cup {i \in Issued : Lapses(i, now + 1)}
  /\ UNCHANGED <<users, nextUser, sessions, req, used, signedOut>>

ValidateSession(p) ==
  \/ Look(p)
  \/ SelectMissing(p)
  \/ SelectExpired(p)
  \/ DeleteExpired(p)
  \/ SelectFresh(p)
  \/ SelectExtend(p)
  \/ Extend(p)
  \/ ExtendFails(p)

Register(p) ==
  \/ CheckCapacity(p)
  \/ SelectLogin(p)
  \/ InsertUser(p)
  \/ CommitUser(p)

Next ==
  \/ \E p \in Requests :
       ValidateSession(p) \/ SignOut(p) \/ SignIn(p) \/ CreateSession(p)
         \/ Register(p) \/ Fail(p)
  \/ Sweep
  \/ Tick

Spec == Init /\ [][Next]_vars
==============================================================================
