----------------------------- MODULE AuthStore -----------------------------
(***************************************************************************)
(* Push tokens and their sessions: internal/auth/store.go, memoryStore.    *)
(* Each operation runs under the store's mutex.                            *)
(*                                                                         *)
(* A family is named by the token it was issued with: its renewals share   *)
(* it.  Time is abstract, a token expires at some moment.  The server      *)
(* issues tokens without a session and has no route that renews one.       *)
(***************************************************************************)
CONSTANTS Token, Session, None

VARIABLES
  family,       \* Token.Family, None before the token exists
  expired,      \* the tokens past their expiry
  bound,        \* Token.SessionID, None for ""
  owner         \* the sessions map: the family that owns each session

vars == <<family, expired, bound, owner>>

TypeOK ==
  /\ family \in [Token -> Token \cup {None}]
  /\ expired \subseteq Token
  /\ bound \in [Token -> Session \cup {None}]
  /\ owner \in [Session -> Token \cup {None}]

Init ==
  /\ family = [t \in Token |-> None]
  /\ expired = {}
  /\ bound = [t \in Token |-> None]
  /\ owner = [s \in Session |-> None]

Known(t) == family[t] # None

Valid(t) == Known(t) /\ t \notin expired

ValidForSession(t, s) == Valid(t) /\ bound[t] = s /\ owner[s] = family[t]

\* The token t comes into being, of the family f and bound to s.  A session it
\* is bound to is (again) owned by the family g.
New(t, f, s, g) ==
  /\ ~Known(t)
  /\ family' = [family EXCEPT ![t] = f]
  /\ bound' = [bound EXCEPT ![t] = s]
  /\ owner' = IF s = None THEN owner ELSE [owner EXCEPT ![s] = g]
  /\ UNCHANGED expired

Issue(t, s) == New(t, t, s, t)

BadRenew(old, t) ==              \* the successor takes the session to a family of its own
  /\ Known(old)
  /\ Issue(t, bound[old])

\* The successor copies the binding the old token has now; an old token that
\* has expired is renewed all the same.
Renew(old, t) ==
  /\ Known(old)
  /\ New(t, family[old], bound[old], family[old])

Expire(t) == Known(t) /\ expired' = expired \cup {t} /\ UNCHANGED <<family, bound, owner>>

\* The token follows its latest session: an earlier one it was bound to keeps
\* its owner, and only tokens renewed in between still name it.
Bind(t, s) ==
  /\ Known(t)
  /\ bound' = [bound EXCEPT ![t] = s]
  /\ owner' = [owner EXCEPT ![s] = family[t]]
  /\ UNCHANGED <<family, expired>>
=============================================================================
