------------------------------ MODULE Service ------------------------------
(***************************************************************************)
(* What a server promises to its clients and to whoever stops it: it lets  *)
(* callers in while it is open, takes the requests of those it has let in, *)
(* settles each request once, by an answer or because its client is gone,  *)
(* and goes away only when nobody is in and it owes no answer.             *)
(***************************************************************************)
CONSTANT Request

VARIABLES
  door,     \* "starting", "open", "closing" or "gone"
  callers,  \* clients let in, whose requests are not complete
  owed,     \* requests taken and not settled
  settled   \* requests answered, or given up by their clients

vars == <<door, callers, owed, settled>>

Init ==
  /\ door = "starting"
  /\ callers = {}
  /\ owed = {}
  /\ settled = {}

\* Start-up ends: the server opens, or gives up.
Begin ==
  /\ door = "starting"
  /\ door' \in {"open", "gone"}
  /\ UNCHANGED <<callers, owed, settled>>

LetIn(r) ==
  /\ door = "open"
  /\ r \notin callers \cup owed \cup settled
  /\ callers' = callers \cup {r}
  /\ UNCHANGED <<door, owed, settled>>

Withdraw(r) ==
  /\ r \in callers
  /\ callers' = callers \ {r}
  /\ UNCHANGED <<door, owed, settled>>

Take(r) ==
  /\ r \in callers
  /\ callers' = callers \ {r}
  /\ owed' = owed \cup {r}
  /\ UNCHANGED <<door, settled>>

Settle(r) ==
  /\ door \in {"open", "closing"}
  /\ r \in owed
  /\ owed' = owed \ {r}
  /\ settled' = settled \cup {r}
  /\ UNCHANGED <<door, callers>>

Close ==
  /\ door = "open"
  /\ door' = "closing"
  /\ UNCHANGED <<callers, owed, settled>>

Leave ==
  /\ door = "closing"
  /\ callers = {}
  /\ owed = {}
  /\ door' = "gone"
  /\ UNCHANGED <<callers, owed, settled>>

Next ==
  \/ Begin \/ Close \/ Leave
  \/ \E r \in Request : LetIn(r) \/ Withdraw(r) \/ Take(r) \/ Settle(r)

Spec == Init /\ [][Next]_vars
=============================================================================
