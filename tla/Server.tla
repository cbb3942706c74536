------------------------------- MODULE Server -------------------------------
(***************************************************************************)
(* A server process from start-up to exit, and the connection pool its     *)
(* requests share.  What a handler does with its connections is the other  *)
(* modules' subject; here it takes them one after another, and each holds  *)
(* statements that may never end.  Time-outs are untimed: they may expire  *)
(* at any moment.  The connections are counted as the pool counts them, by *)
(* the permits of its semaphore.  A definition whose comment begins with   *)
(* FAULT is not used by Spec.                                              *)
(*                                                                         *)
(* A client may connect and leave the head of its request half sent: that  *)
(* is no request yet, and no handler runs, but the connection is open.  A  *)
(* request is done when it is answered, with whatever status, or when its  *)
(* client is gone.                                                         *)
(***************************************************************************)
EXTENDS Integers, FiniteSets

CONSTANTS
  Request,    \* requests, to any route
  PoolSize,   \* DB_MAX_CONNECTIONS
  MaxLeases,  \* the most connections a handler takes
  Impl        \* the server that runs: "rust" or "go"

ASSUME ServerAssumption ==
  /\ IsFiniteSet(Request)
  /\ PoolSize \in Nat \ {0}
  /\ MaxLeases \in Nat
  /\ Impl \in {"rust", "go"}

VARIABLES
  phase,      \* of the process
  database,   \* whether PostgreSQL can be reached
  pc,         \* per request: where it is
  left,       \* per request: connections it may still take
  idle,       \* connections free to be taken
  abandoned   \* dropped requests whose connection still runs a statement

vars == <<phase, database, pc, left, idle, abandoned>>
pool == <<idle, abandoned>>

TypeOK ==
  /\ phase \in {"connecting", "migrating", "listening", "draining", "off"}
  /\ database \in BOOLEAN
  /\ pc \in [Request -> {"idle", "sending", "working", "waiting", "running",
                         "done"}]
  /\ left \in [Request -> 0 .. MaxLeases]
  /\ idle \in 0 .. PoolSize
  /\ abandoned \subseteq Request

Init ==
  /\ phase = "connecting"
  /\ database \in BOOLEAN
  /\ pc = [r \in Request |-> "idle"]
  /\ left = [r \in Request |-> 0]
  /\ idle = PoolSize
  /\ abandoned = {}

-----------------------------------------------------------------------------
Up == phase \in {"listening", "draining"}
InFlight(r) == pc[r] \in {"working", "waiting", "running"}
Senders == {r \in Request : pc[r] = "sending"}
Holders == {r \in Request : pc[r] = "running"}

Goto(r, step) == pc' = [pc EXCEPT ![r] = step]
Answer(r) == Goto(r, "done")

-----------------------------------------------------------------------------
\* Start-up and exit

\* connect: takes one connection, and main ends if it cannot.
Connect ==
  /\ phase = "connecting"
  /\ phase' = IF database THEN "migrating" ELSE "off"
  /\ UNCHANGED <<database, pc, left, pool>>

\* The migrations, and binding the port: any of them may fail.
Migrate ==
  /\ phase = "migrating"
  /\ \/ /\ database
        /\ phase' = "listening"
     \/ phase' = "off"
  /\ UNCHANGED <<database, pc, left, pool>>

\* A signal is handled from the moment the port is bound, and kills the
\* process before that.  The next one is ignored.
Signal ==
  /\ phase \in {"connecting", "migrating", "listening"}
  /\ phase' = IF phase = "listening" THEN "draining" ELSE "off"
  /\ UNCHANGED <<database, pc, left, pool>>

\* FAULT (ImplementsService): the process exits with the signal.
ExitAtOnce ==
  /\ phase = "draining"
  /\ phase' = "off"
  /\ UNCHANGED <<database, pc, left, pool>>

\* FAULT (ShutdownCompletes): the pool is closed first, which waits for the
\* statements that nobody waits for any more.
ExitWhenPoolFull ==
  /\ phase = "draining"
  /\ idle = PoolSize
  /\ Senders = {} /\ \A r \in Request : ~InFlight(r)
  /\ phase' = "off"
  /\ UNCHANGED <<database, pc, left, pool>>

\* serve returns when every connection is closed: those between requests it
\* closes itself, and it waits for the others, a half-sent head included.  In
\* Go ListenAndServe returns with the signal, main does not wait for Shutdown,
\* and closing the pool waits for nothing but the connections in use.
Exit ==
  /\ phase = "draining"
  /\ IF Impl = "go"
       THEN Holders = {}
       ELSE Senders = {} /\ \A r \in Request : ~InFlight(r)
  /\ phase' = "off"
  /\ UNCHANGED <<database, pc, left, pool>>

\* PostgreSQL goes away or comes back.
DatabaseChanges ==
  /\ phase # "off"
  /\ database' = ~database
  /\ UNCHANGED <<phase, pc, left, pool>>

-----------------------------------------------------------------------------
\* Requests

\* A client connects and begins to send the head of a request.
BeginHead(r) ==
  /\ phase = "listening"
  /\ pc[r] = "idle"
  /\ Goto(r, "sending")
  /\ UNCHANGED <<phase, database, left, pool>>

\* The client goes away before the head is complete.  In Go ReadHeaderTimeout
\* closes the connection too; the Rust server sets no such time.
CutHead(r) ==
  /\ Up
  /\ pc[r] = "sending"
  /\ Goto(r, "idle")
  /\ UNCHANGED <<phase, database, left, pool>>

\* The head is complete and the handler runs, while the server drains too.
Arrive(r) ==
  /\ Up
  /\ pc[r] = "sending"
  /\ Goto(r, "working")
  /\ left' = [left EXCEPT ![r] = MaxLeases]
  /\ UNCHANGED <<phase, database, pool>>

\* A handler asks the pool for a connection, and holds no other.
AskPool(r) ==
  /\ Up
  /\ pc[r] = "working"
  /\ left[r] > 0
  /\ left' = [left EXCEPT ![r] = @ - 1]
  /\ Goto(r, "waiting")
  /\ UNCHANGED <<phase, database, pool>>

\* A connection is tested before it is handed out, and replaced.  The pool that
\* main closes in Go hands out none.
Acquire(r) ==
  /\ Up
  /\ Impl = "go" => phase = "listening"
  /\ pc[r] = "waiting"
  /\ database
  /\ idle > 0
  /\ idle' = idle - 1
  /\ Goto(r, "running")
  /\ UNCHANGED <<phase, database, left, abandoned>>

\* acquire_timeout; in Go only a closed pool or a database that refuses.
AcquireFails(r) ==
  /\ Up
  /\ pc[r] = "waiting"
  /\ Impl = "go" => phase = "draining" \/ ~database
  /\ Answer(r)
  /\ UNCHANGED <<phase, database, left, pool>>

\* The statements of one connection, or its transaction, are over, and the
\* handler goes on; or one failed, and that is the answer.
StatementsEnd(r) ==
  /\ Up
  /\ pc[r] = "running"
  /\ idle' = idle + 1
  /\ Goto(r, "working") \/ Answer(r)
  /\ UNCHANGED <<phase, database, left, abandoned>>

\* The handler answers, after its last connection or before.
Reply(r) ==
  /\ Up
  /\ pc[r] = "working"
  /\ Answer(r)
  /\ UNCHANGED <<phase, database, left, pool>>

\* FAULT (ConnectionsAccounted): the connection of a dropped handler is handed
\* out again while its statement still runs.
DropTooSoon(r) ==
  /\ Up
  /\ Impl = "rust"
  /\ InFlight(r)
  /\ Answer(r)
  /\ idle' = IF pc[r] = "running" THEN idle + 1 ELSE idle
  /\ abandoned' = IF pc[r] = "running" THEN abandoned \cup {r} ELSE abandoned
  /\ UNCHANGED <<phase, database, left>>

\* FAULT (EveryRequestAnswered): only waiting for the pool is timed.
TimeOutWaiting(r) ==
  /\ Up
  /\ Impl = "rust"
  /\ pc[r] = "waiting"
  /\ Answer(r)
  /\ UNCHANGED <<phase, database, left, pool>>

\* The handler is dropped, wherever it is: a statement in progress keeps its
\* connection.
Drop(r) ==
  /\ Up
  /\ Impl = "rust"
  /\ InFlight(r)
  /\ Answer(r)
  /\ abandoned' = IF pc[r] = "running" THEN abandoned \cup {r} ELSE abandoned
  /\ UNCHANGED <<phase, database, left, idle>>

\* TimeoutLayer answers 408.  The Go server has no such layer.
TimeOut(r) == Drop(r)

\* The client goes away, and hyper drops the handler.  In Go the context of the
\* request is cancelled, and its statement fails.
HangUp(r) == Drop(r)

\* The statement that nobody waits for is over, its transaction is rolled back,
\* and the pool has its connection again.
Release(r) ==
  /\ Up
  /\ r \in abandoned
  /\ abandoned' = abandoned \ {r}
  /\ idle' = idle + 1
  /\ UNCHANGED <<phase, database, pc, left>>

-----------------------------------------------------------------------------
Handle(r) ==
  \/ BeginHead(r) \/ CutHead(r) \/ Arrive(r)
  \/ AskPool(r) \/ Acquire(r) \/ AcquireFails(r)
  \/ StatementsEnd(r) \/ Reply(r) \/ TimeOut(r) \/ HangUp(r)
  \/ Release(r)

Next ==
  \/ Connect \/ Migrate \/ Signal \/ Exit \/ DatabaseChanges
  \/ \E r \in Request : Handle(r)

\* Timers fire and the process exits when it can.  Statements need not end, a
\* connection need not become free, no handler need make progress, and no client
\* need complete the head it sends.
Fairness ==
  /\ WF_vars(Exit)
  /\ \A r \in Request : WF_vars(TimeOut(r))

Spec == Init /\ [][Next]_vars
FairSpec == Spec /\ Fairness

-----------------------------------------------------------------------------
\* Properties.

\* What a client sees of the process and of the requests.
Door ==
  IF phase \in {"connecting", "migrating"} THEN "starting"
  ELSE IF phase = "listening" THEN "open"
  ELSE IF phase = "draining" THEN "closing"
  ELSE "gone"

Owed == {r \in Request : InFlight(r)}
Settled == {r \in Request : pc[r] = "done"}

Promise == INSTANCE Service WITH
  door <- Door, callers <- Senders, owed <- Owed, settled <- Settled

\* Start-up, time-outs, an unreachable database and shutdown included, a client
\* sees a Service: only an open server takes connections, a request on one of
\* them is settled once, and the process does not exit with a request unsettled
\* or half sent.
ImplementsService == Promise!Spec

\* However requests are dropped, fail and overlap, no connection is lost to the
\* pool and none serves two requests: each is free, in use, or finishing a
\* statement that nobody waits for.
ConnectionsAccounted ==
  idle + Cardinality(Holders) + Cardinality(abandoned) = PoolSize

\* A request is done even if its statement hangs, every connection is taken,
\* or the database is gone.
EveryRequestAnswered ==
  \A r \in Request : InFlight(r) ~> pc[r] = "done"

\* A signal stops a server that listens, even while statements hang and
\* requests still arrive on open connections: only a client that never
\* completes the head of its request, and never goes away, can keep it.
ShutdownCompletes ==
  \/ <>[](phase # "draining")
  \/ \E r \in Request : <>[](pc[r] = "sending")

\* "Graceful shutdown": no process that was told to stop exits while a request
\* is being handled.
NoRequestDropped ==
  phase = "off" => \A r \in Request : ~InFlight(r)

-----------------------------------------------------------------------------
\* The inductive invariant behind ConnectionsAccounted, ImplementsService and
\* NoRequestDropped.

\* Only a dropped request has a connection without being in progress.
AbandonedDone == \A r \in abandoned : pc[r] = "done"

\* No request is taken before the server listens.
QuietStart ==
  phase \in {"connecting", "migrating"} => \A r \in Request : pc[r] = "idle"

IInv ==
  /\ TypeOK
  /\ ConnectionsAccounted
  /\ AbandonedDone
  /\ QuietStart
=============================================================================
