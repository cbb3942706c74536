---------------------------- MODULE SessionBook ----------------------------
(***************************************************************************)
(* What the session service promises a user who sends the requests of a    *)
(* session one at a time: a session starts with one live refresh token, a  *)
(* refresh exchanges that token for a new one in one step, and a session   *)
(* that has ended, at once and as a whole, never has a live token again.   *)
(***************************************************************************)
CONSTANTS User, Id, NoSession

VARIABLES
  account,   \* who has an account
  session,   \* the session of each token that was issued, named by its first
  live       \* the tokens that can be exchanged

vars == <<account, session, live>>

Init ==
  /\ account \in [User -> BOOLEAN]
  /\ session = [t \in Id |-> NoSession]
  /\ live = {}

\* Token t is issued in session s.
Issue(s, t) ==
  /\ session[t] = NoSession
  /\ session' = [session EXCEPT ![t] = s]

Register(u, s) ==
  /\ ~account[u]
  /\ account' = [account EXCEPT ![u] = TRUE]
  /\ Issue(s, s)
  /\ live' = live \cup {s}

Login(u, s) ==
  /\ account[u]
  /\ Issue(s, s)
  /\ live' = live \cup {s}
  /\ UNCHANGED account

\* The live token o is exchanged for t.
Rotate(o, t) ==
  /\ Issue(session[o], t)
  /\ live' = (live \ {o}) \cup {t}
  /\ UNCHANGED account

\* The session of the live token t is over.
End(t) ==
  /\ live' = live \ {t}
  /\ UNCHANGED <<account, session>>

Next ==
  \/ \E u \in User, s \in Id : Register(u, s) \/ Login(u, s)
  \/ \E o \in live, t \in Id : Rotate(o, t)
  \/ \E t \in live : End(t)

Spec == Init /\ [][Next]_vars
=============================================================================
