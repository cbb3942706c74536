---------------------------- MODULE ServerProofs ----------------------------
(***************************************************************************)
(* Proofs about Server: its types, the count of the pool's connections     *)
(* and, for the Rust server, that it implements Service.                   *)
(***************************************************************************)
EXTENDS Server, FiniteSetTheorems, TLAPS

-----------------------------------------------------------------------------
\* Counting.

\* Every set of requests is finite, and its cardinality is a number.
LEMMA Countable ==
  ASSUME NEW S \in SUBSET Request
  PROVE  IsFiniteSet(S) /\ Cardinality(S) \in Nat
  BY ServerAssumption, FS_Subset, FS_CardinalityType

\* One request more.
LEMMA CountMore ==
  ASSUME NEW S \in SUBSET Request, NEW r \in Request, r \notin S
  PROVE  Cardinality(S \cup {r}) = Cardinality(S) + 1
  BY Countable, FS_AddElement

\* One request less.
LEMMA CountLess ==
  ASSUME NEW S \in SUBSET Request, NEW r \in S
  PROVE  Cardinality(S \ {r}) = Cardinality(S) - 1
  BY Countable, FS_RemoveElement

-----------------------------------------------------------------------------
\* What a step of one request does to the sets the pool counts.

\* The holders of connections, after request r has gone to a step.
LEMMA HoldersAfter ==
  ASSUME TypeOK, NEW r \in Request, NEW step, Goto(r, step)
  PROVE  Holders' = IF step = "running" THEN Holders \cup {r}
                                        ELSE Holders \ {r}
  BY DEF TypeOK, Goto, Holders

-----------------------------------------------------------------------------
\* The inductive invariant.

LEMMA InitIInv == Init => IInv
<1> SUFFICES ASSUME Init PROVE IInv
  OBVIOUS
<1>1. Holders = {}
  BY DEF Init, Holders
<1>2. ConnectionsAccounted
  BY <1>1, FS_EmptySet, ServerAssumption DEF Init, ConnectionsAccounted
<1>3. TypeOK
  BY ServerAssumption DEF Init, TypeOK
<1> QED
  BY <1>2, <1>3 DEF Init, IInv, AbandonedDone, QuietStart

\* Steps of the process and of the database leave the requests and the pool
\* alone.
LEMMA ProcessKeepsIInv ==
  ASSUME IInv,
         Connect \/ Migrate \/ Signal \/ Exit \/ DatabaseChanges
  PROVE  IInv'
<1>1. UNCHANGED <<pc, left, pool>>
  BY DEF Connect, Migrate, Signal, Exit, DatabaseChanges
<1>2. TypeOK'
  BY <1>1 DEF IInv, TypeOK, pool, Connect, Migrate, Signal, Exit,
              DatabaseChanges
<1>3. ConnectionsAccounted'
  BY <1>1 DEF IInv, ConnectionsAccounted, Holders, pool
<1>4. QuietStart'
  BY <1>1 DEF IInv, TypeOK, QuietStart, Connect, Migrate, Signal, Exit,
              DatabaseChanges
<1> QED
  BY <1>1, <1>2, <1>3, <1>4 DEF IInv, AbandonedDone, pool

\* Steps of a request that take or return no connection.
LEMMA WaitingKeepsIInv ==
  ASSUME IInv, NEW r \in Request,
         \/ BeginHead(r) \/ CutHead(r) \/ Arrive(r) \/ AskPool(r)
         \/ AcquireFails(r) \/ Reply(r)
  PROVE  IInv'
<1>1. PICK step \in {"idle", "sending", "working", "waiting", "done"} :
        Goto(r, step)
  BY DEF BeginHead, CutHead, Arrive, AskPool, AcquireFails, Reply, Answer
<1>2. pc[r] # "running"
  BY DEF BeginHead, CutHead, Arrive, AskPool, AcquireFails, Reply
<1>3. UNCHANGED <<phase, database, pool>>
  BY DEF BeginHead, CutHead, Arrive, AskPool, AcquireFails, Reply
<1>4. Holders' = Holders
  BY <1>1, <1>2, HoldersAfter DEF IInv, Holders
<1>5. left' \in [Request -> 0 .. MaxLeases]
  BY ServerAssumption
     DEF IInv, TypeOK, BeginHead, CutHead, Arrive, AskPool, AcquireFails, Reply
<1>6. TypeOK'
  BY <1>1, <1>3, <1>5 DEF IInv, TypeOK, Goto, pool
<1>7. ConnectionsAccounted'
  BY <1>3, <1>4 DEF IInv, ConnectionsAccounted, pool
<1>8. pc[r] # "done" /\ Up
  BY DEF BeginHead, CutHead, Arrive, AskPool, AcquireFails, Reply, Up
<1>9. AbandonedDone'
  BY <1>1, <1>3, <1>8 DEF IInv, AbandonedDone, TypeOK, Goto, pool
<1>10. QuietStart'
  BY <1>3, <1>8 DEF QuietStart, Up
<1> QED
  BY <1>6, <1>7, <1>9, <1>10 DEF IInv

\* A connection is taken.
LEMMA AcquireKeepsIInv ==
  ASSUME IInv, NEW r \in Request, Acquire(r)
  PROVE  IInv'
<1>1. Holders' = Holders \cup {r} /\ r \notin Holders
  BY HoldersAfter DEF IInv, Acquire, Holders
<1>2. Cardinality(Holders') = Cardinality(Holders) + 1
  BY <1>1, CountMore DEF Holders
<1>3. Cardinality(Holders) \in Nat /\ Cardinality(abandoned) \in Nat
  BY Countable DEF Holders, IInv, TypeOK
<1>4. ConnectionsAccounted'
  BY <1>2, <1>3 DEF IInv, ConnectionsAccounted, TypeOK, Acquire
<1>5. TypeOK'
  BY ServerAssumption DEF IInv, TypeOK, Acquire, Goto
<1>6. AbandonedDone'
  BY DEF IInv, AbandonedDone, TypeOK, Acquire, Goto
<1>7. QuietStart'
  BY DEF QuietStart, Acquire, Up
<1> QED
  BY <1>4, <1>5, <1>6, <1>7 DEF IInv

\* A connection is returned.
LEMMA StatementsEndKeepsIInv ==
  ASSUME IInv, NEW r \in Request, StatementsEnd(r)
  PROVE  IInv'
<1>1. PICK step \in {"working", "done"} : Goto(r, step)
  BY DEF StatementsEnd, Answer
<1>2. Holders' = Holders \ {r} /\ r \in Holders
  BY <1>1, HoldersAfter DEF IInv, StatementsEnd, Holders
<1>3. Cardinality(Holders') = Cardinality(Holders) - 1
  BY <1>2, CountLess DEF Holders
<1>4. Cardinality(Holders) \in Nat /\ Cardinality(abandoned) \in Nat
  BY Countable DEF Holders, IInv, TypeOK
<1>5. ConnectionsAccounted'
  BY <1>3, <1>4 DEF IInv, ConnectionsAccounted, TypeOK, StatementsEnd
<1>6. abandoned' \subseteq Request /\ idle' \in Int /\ idle' >= 0
  BY ServerAssumption DEF IInv, TypeOK, StatementsEnd
<1>7. idle' \in 0 .. PoolSize
  <2>1. Cardinality(Holders') \in Nat /\ Cardinality(abandoned') \in Nat
    BY <1>6, Countable DEF Holders
  <2> QED
    BY <1>5, <1>6, <2>1, ServerAssumption DEF ConnectionsAccounted
<1>8. TypeOK'
  BY <1>1, <1>6, <1>7 DEF IInv, TypeOK, StatementsEnd, Goto
<1>9. AbandonedDone'
  BY <1>1 DEF IInv, AbandonedDone, TypeOK, StatementsEnd, Goto
<1>10. QuietStart'
  BY DEF QuietStart, StatementsEnd, Up
<1> QED
  BY <1>5, <1>8, <1>9, <1>10 DEF IInv

\* A handler is dropped: its connection goes from the holders to the abandoned.
LEMMA DropKeepsIInv ==
  ASSUME IInv, NEW r \in Request, Drop(r)
  PROVE  IInv'
<1>1. Holders' = Holders \ {r}
  BY HoldersAfter DEF IInv, Drop, Answer
<1>2. Cardinality(Holders) \in Nat /\ Cardinality(abandoned) \in Nat
  BY Countable DEF Holders, IInv, TypeOK
<1>3. ConnectionsAccounted'
  <2>1. CASE pc[r] = "running"
    <3>1. r \in Holders /\ r \notin abandoned
      BY <2>1 DEF Holders, IInv, AbandonedDone
    <3>2. Cardinality(Holders') = Cardinality(Holders) - 1
      BY <1>1, <3>1, CountLess DEF Holders
    <3>3. Cardinality(abandoned') = Cardinality(abandoned) + 1
      BY <2>1, <3>1, CountMore DEF Drop, IInv, TypeOK
    <3> QED
      BY <1>2, <3>2, <3>3 DEF IInv, TypeOK, ConnectionsAccounted, Drop
  <2>2. CASE pc[r] # "running"
    <3>1. Holders' = Holders
      BY <1>1, <2>2 DEF Holders
    <3> QED
      BY <2>2, <3>1 DEF IInv, ConnectionsAccounted, Drop
  <2> QED
    BY <2>1, <2>2
<1>4. TypeOK'
  BY DEF IInv, TypeOK, Drop, Answer, Goto
<1>5. AbandonedDone'
  BY DEF IInv, AbandonedDone, TypeOK, Drop, Answer, Goto
<1>6. QuietStart'
  BY DEF QuietStart, Drop, Up
<1> QED
  BY <1>3, <1>4, <1>5, <1>6 DEF IInv

\* An abandoned connection comes back.
LEMMA ReleaseKeepsIInv ==
  ASSUME IInv, NEW r \in Request, Release(r)
  PROVE  IInv'
<1>1. Holders' = Holders
  BY DEF Holders, Release
<1>2. Cardinality(abandoned') = Cardinality(abandoned) - 1
  BY CountLess DEF Release, IInv, TypeOK
<1>3. Cardinality(Holders) \in Nat /\ Cardinality(abandoned) \in Nat
  BY Countable DEF Holders, IInv, TypeOK
<1>4. ConnectionsAccounted'
  BY <1>1, <1>2, <1>3 DEF IInv, ConnectionsAccounted, TypeOK, Release
<1>5. abandoned' \subseteq Request /\ idle' \in Int /\ idle' >= 0
  BY ServerAssumption DEF IInv, TypeOK, Release
<1>6. idle' \in 0 .. PoolSize
  <2>1. Cardinality(abandoned') \in Nat
    BY <1>5, Countable
  <2> QED
    BY <1>1, <1>3, <1>4, <1>5, <2>1, ServerAssumption
       DEF ConnectionsAccounted
<1>7. TypeOK'
  BY <1>5, <1>6 DEF IInv, TypeOK, Release
<1> QED
  BY <1>4, <1>7 DEF IInv, AbandonedDone, QuietStart, Release, Up

LEMMA StepIInv == IInv /\ [Next]_vars => IInv'
<1> SUFFICES ASSUME IInv, [Next]_vars PROVE IInv'
  OBVIOUS
<1>1. CASE UNCHANGED vars
  BY <1>1 DEF vars, pool, IInv, TypeOK, ConnectionsAccounted, Holders,
              AbandonedDone, QuietStart
<1>2. CASE Connect \/ Migrate \/ Signal \/ Exit \/ DatabaseChanges
  BY <1>2, ProcessKeepsIInv
<1>3. ASSUME NEW r \in Request, Handle(r) PROVE IInv'
  BY <1>3, WaitingKeepsIInv, AcquireKeepsIInv, StatementsEndKeepsIInv,
     DropKeepsIInv, ReleaseKeepsIInv DEF Handle, TimeOut, HangUp
<1> QED
  BY <1>1, <1>2, <1>3 DEF Next

LEMMA Invariance == Spec => []IInv
  BY InitIInv, StepIInv, PTL DEF Spec

-----------------------------------------------------------------------------
\* The theorems.

\* Types, for any pool, any number of requests and either server.
THEOREM TypeCorrect == Spec => []TypeOK
<1>1. IInv => TypeOK
  BY DEF IInv
<1> QED
  BY <1>1, Invariance, PTL

\* No connection is lost to the pool and none serves two requests, whatever
\* requests are dropped, fail and overlap (db.rs, http.rs).
THEOREM PoolAccounted == Spec => []ConnectionsAccounted
<1>1. IInv => ConnectionsAccounted
  BY DEF IInv
<1> QED
  BY <1>1, Invariance, PTL

-----------------------------------------------------------------------------
\* The refinement, for the Rust server.

\* What a request's step means to Service.
LEMMA MovesOn ==
  ASSUME TypeOK, NEW r \in Request, NEW step \in {"working", "waiting", "running"},
         InFlight(r), Goto(r, step)
  PROVE  Owed' = Owed /\ Settled' = Settled /\ Senders' = Senders
  BY DEF TypeOK, InFlight, Goto, Owed, Settled, Senders

LEMMA Settles ==
  ASSUME TypeOK, NEW r \in Request, Up, UNCHANGED phase, InFlight(r), Answer(r)
  PROVE  Promise!Settle(r)
<1>1. /\ Owed' = Owed \ {r} /\ Settled' = Settled \cup {r} /\ r \in Owed
      /\ Senders' = Senders
  BY DEF TypeOK, InFlight, Answer, Goto, Owed, Settled, Senders
<1>2. Door \in {"open", "closing"} /\ UNCHANGED Door
  BY DEF Up, Door
<1> QED
  BY <1>1, <1>2 DEF Promise!Settle

\* A head that is begun, given up, or complete.
LEMMA Heads ==
  ASSUME TypeOK, NEW r \in Request, BeginHead(r) \/ CutHead(r) \/ Arrive(r)
  PROVE  Promise!LetIn(r) \/ Promise!Withdraw(r) \/ Promise!Take(r)
<1> USE DEF TypeOK, InFlight, Goto, Senders, Owed, Settled
<1>1. UNCHANGED Door
  BY DEF BeginHead, CutHead, Arrive, Door
<1>2. CASE BeginHead(r)
  <2>1. /\ r \notin Senders \cup Owed \cup Settled
        /\ Senders' = Senders \cup {r}
        /\ UNCHANGED <<Owed, Settled>>
    BY <1>2 DEF BeginHead
  <2>2. Door = "open"
    BY <1>2 DEF BeginHead, Door
  <2> QED
    BY <1>1, <2>1, <2>2 DEF Promise!LetIn
<1>3. CASE CutHead(r)
  <2>1. r \in Senders /\ Senders' = Senders \ {r} /\ UNCHANGED <<Owed, Settled>>
    BY <1>3 DEF CutHead
  <2> QED
    BY <1>1, <2>1 DEF Promise!Withdraw
<1>4. CASE Arrive(r)
  <2>1. /\ r \in Senders /\ Senders' = Senders \ {r}
        /\ Owed' = Owed \cup {r} /\ UNCHANGED Settled
    BY <1>4 DEF Arrive
  <2> QED
    BY <1>1, <2>1 DEF Promise!Take
<1> QED
  BY <1>2, <1>3, <1>4

\* Steps that leave the requests alone open, close or end the service.
LEMMA ProcessImplements ==
  ASSUME Impl = "rust", TypeOK,
         Connect \/ Migrate \/ Signal \/ Exit \/ DatabaseChanges
  PROVE  [Promise!Next]_(Promise!vars)
<1>1. UNCHANGED <<Senders, Owed, Settled>>
  BY DEF Connect, Migrate, Signal, Exit, DatabaseChanges, Senders, Owed,
         Settled, InFlight
<1>2. CASE Connect \/ Migrate
  <2>1. Door = "starting" /\ Door' \in {"starting", "open", "gone"}
    BY <1>2 DEF Connect, Migrate, Door
  <2> QED
    BY <1>1, <2>1 DEF Promise!Next, Promise!Begin, Promise!vars
<1>3. CASE Signal
  <2>1. \/ Door = "starting" /\ Door' = "gone"
        \/ Door = "open" /\ Door' = "closing"
    BY <1>3 DEF Signal, Door
  <2> QED
    BY <1>1, <2>1 DEF Promise!Next, Promise!Begin, Promise!Close
<1>4. CASE Exit
  <2>1. Door = "closing" /\ Door' = "gone" /\ Senders = {} /\ Owed = {}
    BY <1>4 DEF Exit, Door, Owed
  <2> QED
    BY <1>1, <2>1 DEF Promise!Next, Promise!Leave
<1>5. CASE DatabaseChanges
  <2>1. UNCHANGED Door
    BY <1>5 DEF DatabaseChanges, Door
  <2> QED
    BY <1>1, <2>1 DEF Promise!vars
<1> QED
  BY <1>2, <1>3, <1>4, <1>5

LEMMA RequestImplements ==
  ASSUME TypeOK, NEW r \in Request, Handle(r)
  PROVE  [Promise!Next]_(Promise!vars)
<1>1. CASE BeginHead(r) \/ CutHead(r) \/ Arrive(r)
  BY <1>1, Heads DEF Promise!Next
<1>2. CASE \/ AcquireFails(r) \/ Reply(r) \/ TimeOut(r) \/ HangUp(r)
           \/ (StatementsEnd(r) /\ Answer(r))
  <2>1. Up /\ UNCHANGED phase /\ InFlight(r) /\ Answer(r)
    BY <1>2 DEF AcquireFails, Reply, TimeOut, HangUp, Drop, StatementsEnd,
                InFlight
  <2> QED
    BY <2>1, Settles DEF Promise!Next
<1>3. CASE \/ AskPool(r) \/ Acquire(r)
           \/ (StatementsEnd(r) /\ Goto(r, "working"))
  <2>1. InFlight(r) /\ UNCHANGED phase
    BY <1>3 DEF AskPool, Acquire, StatementsEnd, InFlight
  <2>2. PICK step \in {"working", "waiting", "running"} : Goto(r, step)
    BY <1>3 DEF AskPool, Acquire
  <2> QED
    BY <2>1, <2>2, MovesOn DEF Promise!vars, Door
<1>4. CASE Release(r)
  BY <1>4 DEF Release, Promise!vars, Door, Senders, Owed, Settled, InFlight
<1> QED
  BY <1>1, <1>2, <1>3, <1>4 DEF Handle, StatementsEnd

\* Start-up, time-outs, hang-ups and shutdown included, the Rust server is a
\* Service: it lets callers in only while it is open, settles each of their
\* requests once, and exits with none unsettled or half sent (http.rs).
THEOREM Refinement ==
  ASSUME Impl = "rust"
  PROVE  Spec => ImplementsService
<1>1. Init => Promise!Init
  BY DEF Init, Promise!Init, Door, Senders, Owed, Settled, InFlight
<1>2. ASSUME TypeOK, [Next]_vars PROVE [Promise!Next]_(Promise!vars)
  <2>1. CASE UNCHANGED vars
    BY <2>1 DEF vars, Promise!vars, Door, Senders, Owed, Settled, InFlight
  <2>2. CASE Next
    BY <1>2, <2>2, ProcessImplements, RequestImplements DEF Next
  <2> QED
    BY <1>2, <2>1, <2>2
<1> QED
  BY <1>1, <1>2, TypeCorrect, PTL DEF Spec, ImplementsService, Promise!Spec

\* In particular the Rust server exits with every request settled.
LEMMA QuietExit == IInv /\ Impl = "rust" /\ [Next]_vars /\ NoRequestDropped
                     => NoRequestDropped'
<1> SUFFICES ASSUME IInv, Impl = "rust", [Next]_vars, NoRequestDropped
             PROVE  NoRequestDropped'
  OBVIOUS
<1>1. CASE Connect \/ Migrate \/ Signal
  BY <1>1 DEF Connect, Migrate, Signal, NoRequestDropped, IInv, QuietStart,
              InFlight
<1>2. CASE Exit \/ DatabaseChanges
  BY <1>2 DEF Exit, DatabaseChanges, NoRequestDropped, InFlight
<1>3. ASSUME NEW r \in Request, Handle(r) PROVE NoRequestDropped'
  BY <1>3 DEF Handle, BeginHead, CutHead, Arrive, AskPool, Acquire,
              AcquireFails, StatementsEnd,
              Reply, TimeOut, HangUp, Drop, Release, Up, NoRequestDropped
<1>4. CASE UNCHANGED vars
  BY <1>4 DEF vars, NoRequestDropped, InFlight
<1> QED
  BY <1>1, <1>2, <1>3, <1>4 DEF Next

\* "Graceful shutdown", which the Go server breaks: the Rust process exits with
\* no request in progress.
THEOREM NothingDropped ==
  ASSUME Impl = "rust"
  PROVE  Spec => []NoRequestDropped
<1>1. Init => NoRequestDropped
  BY DEF Init, NoRequestDropped
<1>2. IInv /\ NoRequestDropped /\ [Next]_vars => NoRequestDropped'
  BY QuietExit
<1> QED
  BY <1>1, <1>2, Invariance, PTL DEF Spec
=============================================================================
