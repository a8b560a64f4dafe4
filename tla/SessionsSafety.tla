--------------------------- MODULE SessionsSafety ---------------------------
(***************************************************************************)
(* What sign-up and sessions must keep true.                                *)
(***************************************************************************)
EXTENDS Sessions

Request ==
  [pc : {"idle", "looking", "expired", "extending", "signing_out",
         "authenticated", "registering", "inserting", "inserted"},
   start : Nat, at : Nat, id : Tokens \cup {NoToken},
   login : Logins \cup {NoLogin}, user : Nat, goal : {"visit", "signout"}]

\* The type invariant.
TypeOK ==
  /\ now \in Nat
  /\ users \subseteq [id : Nat, login : Logins \cup {NoLogin}]
  /\ nextUser \in Nat \ {0}
  /\ sessions \subseteq [id : Tokens, user : Nat, exp : Nat]
  /\ req \in [Requests -> Request]
  /\ Issued \subseteq Tokens
  /\ used \in [Issued -> Nat]
  /\ lapsed \subseteq Tokens /\ signedOut \subseteq Tokens \cup {NoToken}

\* A session the user signed out of never comes back: a page that validated
\* it before the DELETE may still be about to slide its expiry forward
\* (ValidateSession's UPDATE writes no row that is gone).
SignedOutStaysOut == \A s \in sessions : s.id \notin signedOut

\* A session that goes unused for the TTL expires: an expiry is never further
\* ahead than the TTL counted from the last request that validated the
\* session, however many requests extended it at once.
IdleSessionsExpire ==
  \A s \in sessions : s.id \in Issued /\ s.exp <= used[s.id] + TTL

\* A session used again within every half TTL goes on: neither the requests
\* that extend it at once nor the two deletes of expired rows end it
\* (ValidateSession extends "if less than half the TTL remains").
ActiveSessionsSurvive ==
  \A i \in Issued \ (lapsed \cup signedOut) :
    \E s \in sessions : s.id = i /\ s.exp >= now

\* One user per login, whatever sign-ups run at once: Register's SELECT and
\* INSERT are two statements, and the unique index settles the race.
OneUserPerLogin ==
  \A u, v \in users : u.login = v.login \/ u.id = v.id => u = v
==============================================================================
