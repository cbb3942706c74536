-------------------------- MODULE PaginationProofs --------------------------
(***************************************************************************)
(* Proofs about Pagination, for any ids, clock, limits and number of rows. *)
(* The position that a cursor names splits the list: what the walk has     *)
(* shown is not older than it, whatever the server does to its time, and   *)
(* of the rows that stayed in the list, what the walk has not shown is     *)
(* older, provided that the server keeps the time exact.                   *)
(***************************************************************************)
EXTENDS Pagination, FiniteSetTheorems, TLAPS

\* Go's cursors have whole seconds; those of the others are exact.
Exact == Server # "go"

ShownNotOlder ==
  cursor \in Row => \A r \in seen \cup page : ~Older(r, cursor)

RestIsOlder ==
  cursor \in Row => \A r \in stayed \ (seen \cup page) : Older(r, cursor)

IInv == TypeOK /\ ShownNotOlder /\ NewestFirst

EInv == IInv /\ RestIsOlder /\ NothingSkipped

-----------------------------------------------------------------------------
\* The order of rows, and what a list query and its cursor are.

LEMMA RowNumbers ==
  ASSUME NEW r \in Row
  PROVE  r.at \in Int /\ r.id \in Int
<1>1. r.at \in 0 .. MaxClock /\ r.id \in Ids
  BY DEF Row
<1>2. r.at \in Int
  BY <1>1
<1>3. r.id \in Int
  BY <1>1, PaginationAssumption
<1>4. QED
  BY <1>2, <1>3

LEMMA OlderOrder ==
  ASSUME NEW a \in Row, NEW b \in Row, NEW c \in Row
  PROVE  /\ ~Older(a, a)
         /\ Older(a, b) => ~Older(b, a)
         /\ Older(a, b) /\ Older(b, c) => Older(a, c)
         /\ Older(a, b) /\ ~Older(c, b) => Older(a, c)
<1>1. /\ a.at \in Int /\ b.at \in Int /\ c.at \in Int
      /\ a.id \in Int /\ b.id \in Int /\ c.id \in Int
  BY RowNumbers
<1>2. ~Older(a, a) /\ (Older(a, b) => ~Older(b, a))
  BY <1>1 DEF Older
<1>3. Older(a, b) /\ Older(b, c) => Older(a, c)
  BY <1>1 DEF Older
<1>4. Older(a, b) /\ ~Older(c, b) => Older(a, c)
  BY <1>1 DEF Older
<1>5. QED
  BY <1>2, <1>3, <1>4

\* A cursor is a position, not newer than the row it was made of; exact, it
\* is the row's own.
LEMMA CursorPosition ==
  ASSUME NEW r \in Row, NEW c, c = [at |-> Cut(r.at), id |-> r.id]
  PROVE  /\ c \in Row
         /\ ~Older(r, c)
         /\ Exact => c = r
<1>1. r.at \in 0 .. MaxClock /\ r.id \in Int /\ r.id \in Ids
  BY PaginationAssumption DEF Row
<1>2. Cut(r.at) \in 0 .. MaxClock /\ Cut(r.at) <= r.at
  <2>1. CASE Server = "go"
    <3>1. r.at % PerSecond \in 0 .. r.at
      <4>1. r.at \in Nat /\ PerSecond \in Nat \ {0} /\ MaxClock \in Nat
        BY <1>1, PaginationAssumption
      <4>2. /\ r.at % PerSecond \in 0 .. PerSecond - 1
            /\ r.at < PerSecond => r.at % PerSecond = r.at
        BY <4>1
      <4>3. QED
        BY <4>1, <4>2
    <3>2. QED
      BY <1>1, <2>1, <3>1, PaginationAssumption DEF Cut
  <2>2. CASE Server # "go"
    BY <1>1, <2>2, PaginationAssumption DEF Cut
  <2>3. QED
    BY <2>1, <2>2
<1>3. c \in Row
  BY <1>1, <1>2 DEF Row
<1>4. ~Older(r, c)
  BY <1>1, <1>2, PaginationAssumption DEF Older
<1>5. ASSUME Exact PROVE c = r
  <2>1. Cut(r.at) = r.at
    BY <1>5 DEF Exact, Cut
  <2>2. QED
    BY <2>1 DEF Row
<1>6. QED
  BY <1>3, <1>4, <1>5

\* Whatever limit is asked for, a page may hold a row.
LEMMA LimitsArePositive == Limits \subseteq Nat \ {0}
<1>1. ASSUME NEW limit \in Asked
      PROVE  /\ ClampToOne(limit) \in Nat \ {0}
             /\ ClampLimit(limit) \in Nat \ {0}
  BY PaginationAssumption DEF ClampToOne, ClampLimit, AtMostMax
<1>2. QED
  BY <1>1, PaginationAssumption DEF Limits

\* A page holds selected rows only. If it ends in a cursor, nothing on it is
\* older than the cursor and, when cursors are exact, everything selected
\* that is not on it is; if it does not, it holds all.
LEMMA PageOfList ==
  ASSUME NEW matching \in SUBSET Row, NEW limit \in Limits,
         List(matching, limit)
  PROVE  /\ page' \subseteq matching
         /\ cursor' = End => page' = matching
         /\ cursor' \in Row => page' # {}
         /\ cursor' \in Row => \A r \in page' : ~Older(r, cursor')
         /\ cursor' \in Row /\ Exact =>
              \A r \in matching \ page' : Older(r, cursor')
         /\ cursor' \in Row \cup {End}
<1>1. PICK got \in SUBSET matching, shown \in SUBSET matching :
        /\ Limited(got, matching, limit + 1)
        /\ Limited(shown, got, limit)
        /\ page' = shown
        /\ IF shown \in {got, {}}
           THEN cursor' = End
           ELSE \E last \in shown :
                  /\ \A r \in shown \ {last} : Older(last, r)
                  /\ cursor' = [at |-> Cut(last.at), id |-> last.id]
  BY DEF List
<1>2. End \notin Row
  BY PaginationAssumption
<1>3. CASE shown = got
  <2>1. got = matching
    BY <1>1, <1>3, LimitsArePositive DEF Limited
  <2>2. QED
    BY <1>1, <1>2, <1>3, <2>1
<1>4. CASE shown # got
  <2>0. shown # {}
    <3>1. Cardinality(shown) = limit
      BY <1>1, <1>4 DEF Limited
    <3>2. QED
      BY <3>1, LimitsArePositive, FS_EmptySet
  <2>1. PICK last \in shown :
          /\ \A r \in shown \ {last} : Older(last, r)
          /\ cursor' = [at |-> Cut(last.at), id |-> last.id]
    BY <1>1, <1>4, <2>0
  <2>2. last \in Row /\ cursor' \in Row /\ ~Older(last, cursor')
        /\ (Exact => cursor' = last)
    BY <2>1, CursorPosition
  <2>3. ASSUME NEW r \in page' PROVE ~Older(r, cursor')
    <3>1. r \in Row /\ (r = last \/ Older(last, r))
      BY <1>1, <2>1, <2>3
    <3>2. QED
      BY <2>2, <3>1, OlderOrder
  <2>4. ASSUME Exact, NEW r \in matching \ page' PROVE Older(r, cursor')
    <3>1. Older(r, last)
      BY <1>1, <2>1, <2>4 DEF Limited
    <3>2. QED
      BY <2>2, <2>4, <3>1
  <2>5. QED
    BY <1>1, <1>2, <2>2, <2>3, <2>4
<1>5. QED
  BY <1>3, <1>4

-----------------------------------------------------------------------------
\* The steps.

\* What inserts, commits, archivals and the clock do to a walk: nothing, but
\* that rows may leave those that stayed.
LEMMA OthersStep ==
  ASSUME TypeOK, Next, ~FirstPage, ~NextPage
  PROVE  TypeOK' /\ UNCHANGED walk /\ stayed' \subseteq stayed
<1>1. ASSUME NEW id \in Ids, Insert(id)
      PROVE  TypeOK' /\ UNCHANGED walk /\ stayed' \subseteq stayed
  <2>1. [at |-> clock, id |-> id] \in Row
    BY DEF TypeOK, Row
  <2>2. QED
    BY <1>1, <2>1 DEF Insert, TypeOK, walk
<1>2. ASSUME NEW r \in open, Commit(r) \/ Rollback(r)
      PROVE  TypeOK' /\ UNCHANGED walk /\ stayed' \subseteq stayed
  BY <1>2 DEF Commit, Rollback, TypeOK, walk
<1>3. ASSUME NEW r \in table, Hide(r)
      PROVE  TypeOK' /\ UNCHANGED walk /\ stayed' \subseteq stayed
  BY <1>3 DEF Hide, TypeOK, walk
<1>4. ASSUME NEW r \in hidden, Show(r)
      PROVE  TypeOK' /\ UNCHANGED walk /\ stayed' \subseteq stayed
  BY <1>4 DEF Show, TypeOK, walk
<1>5. ASSUME Tick
      PROVE  TypeOK' /\ UNCHANGED walk /\ stayed' \subseteq stayed
  BY <1>5, PaginationAssumption DEF Tick, TypeOK, walk
<1>6. QED
  BY <1>1, <1>2, <1>3, <1>4, <1>5 DEF Next

LEMMA FirstPageStep ==
  ASSUME TypeOK, FirstPage
  PROVE  /\ TypeOK' /\ ShownNotOlder' /\ NewestFirst'
         /\ Exact => RestIsOlder' /\ NothingSkipped'
<1>1. PICK limit \in Limits : List(table, limit)
  BY DEF FirstPage
<1>2. table \in SUBSET Row
  BY DEF TypeOK
<1>3. seen' = {} /\ stayed' = table /\ table' = table /\ UNCHANGED rows
  BY DEF FirstPage, rows
<1>4. /\ page' \subseteq table
      /\ cursor' = End => page' = table
      /\ cursor' \in Row => \A r \in page' : ~Older(r, cursor')
      /\ cursor' \in Row /\ Exact => \A r \in table \ page' : Older(r, cursor')
      /\ cursor' \in Row \cup {End}
  BY <1>1, <1>2, PageOfList
<1>5. TypeOK'
  BY <1>3, <1>4 DEF TypeOK, rows
<1>6. ShownNotOlder' /\ NewestFirst'
  BY <1>3, <1>4 DEF ShownNotOlder, NewestFirst
<1>7. Exact => RestIsOlder' /\ NothingSkipped'
  BY <1>3, <1>4 DEF RestIsOlder, NothingSkipped
<1>8. QED
  BY <1>5, <1>6, <1>7

LEMMA NextPageStep ==
  ASSUME IInv, NextPage
  PROVE  /\ TypeOK' /\ ShownNotOlder' /\ NewestFirst'
         /\ Exact /\ RestIsOlder => RestIsOlder' /\ NothingSkipped'
<1> DEFINE matching == {r \in table : Older(r, cursor)}
<1>1. PICK limit \in Limits : List(matching, limit)
  BY DEF NextPage
<1>2. matching \in SUBSET Row /\ cursor \in Row
  BY DEF IInv, TypeOK, NextPage
<1>3. seen' = seen \cup page /\ stayed' = stayed /\ UNCHANGED rows
  BY DEF NextPage
<1>4. /\ page' \subseteq matching
      /\ cursor' = End => page' = matching
      /\ cursor' \in Row => page' # {}
      /\ cursor' \in Row => \A r \in page' : ~Older(r, cursor')
      /\ cursor' \in Row /\ Exact =>
           \A r \in matching \ page' : Older(r, cursor')
      /\ cursor' \in Row \cup {End}
  <2> HIDE DEF matching
  <2>1. QED
    BY <1>1, <1>2, PageOfList
<1>5. TypeOK'
  BY <1>3, <1>4 DEF IInv, TypeOK, rows
<1>6. NewestFirst'
  <2>1. ASSUME NEW a \in seen \cup page, NEW b \in page' PROVE Older(b, a)
    <3>1. a \in Row /\ b \in Row /\ Older(b, cursor) /\ ~Older(a, cursor)
      BY <1>2, <1>4, <2>1 DEF IInv, TypeOK, ShownNotOlder
    <3>2. QED
      BY <1>2, <3>1, OlderOrder
  <2>2. QED
    BY <1>3, <2>1 DEF NewestFirst
<1>7. ShownNotOlder'
  <2>1. ASSUME cursor' \in Row, NEW r \in seen \cup page
        PROVE  ~Older(r, cursor')
    <3>1. PICK b \in page' : TRUE
      BY <1>4, <2>1
    <3>2. r \in Row /\ b \in Row /\ Older(b, r) /\ ~Older(b, cursor')
      BY <1>2, <1>3, <1>4, <1>6, <2>1, <3>1 DEF IInv, TypeOK, NewestFirst
    <3>3. QED
      BY <2>1, <3>2, OlderOrder
  <2>2. QED
    BY <1>3, <1>4, <2>1 DEF ShownNotOlder
<1>8. ASSUME Exact, RestIsOlder PROVE RestIsOlder' /\ NothingSkipped'
  <2>1. stayed \ (seen \cup page) \subseteq matching
    BY <1>2, <1>8 DEF RestIsOlder, IInv, TypeOK
  <2>2. QED
    BY <1>3, <1>4, <1>8, <2>1 DEF RestIsOlder, NothingSkipped
<1>9. QED
  BY <1>5, <1>6, <1>7, <1>8

-----------------------------------------------------------------------------
LEMMA InitIInv == Init => EInv
BY PaginationAssumption
DEF Init, EInv, IInv, TypeOK, ShownNotOlder, NewestFirst, RestIsOlder,
  NothingSkipped

LEMMA OthersKeep ==
  ASSUME IInv, TypeOK', UNCHANGED walk, stayed' \subseteq stayed
  PROVE  IInv' /\ (EInv => EInv')
BY DEF IInv, EInv, walk, ShownNotOlder, NewestFirst, RestIsOlder,
  NothingSkipped

LEMMA NextKeeps ==
  ASSUME IInv, [Next]_vars
  PROVE  IInv' /\ (Exact /\ EInv => EInv')
<1>1. CASE FirstPage
  BY <1>1, FirstPageStep DEF IInv, EInv
<1>2. CASE NextPage
  BY <1>2, NextPageStep DEF IInv, EInv
<1>3. CASE Next /\ ~FirstPage /\ ~NextPage
  BY <1>3, OthersStep, OthersKeep DEF IInv
<1>4. CASE UNCHANGED vars
  <2>1. TypeOK' /\ UNCHANGED walk /\ stayed' = stayed
    BY <1>4 DEF vars, rows, walk, IInv, TypeOK
  <2>2. QED
    BY <2>1, OthersKeep
<1>5. QED
  BY <1>1, <1>2, <1>3, <1>4

\* Every page is older than the ones before it, on all three servers.
THEOREM PagesGoOn == Spec => []NewestFirst
<1>1. Init => IInv
  BY InitIInv DEF EInv
<1>2. IInv /\ [Next]_vars => IInv'
  BY NextKeeps
<1>3. IInv => NewestFirst
  BY DEF IInv
<1>4. QED
  BY <1>1, <1>2, <1>3, PTL DEF Spec

\* With exact cursors no walk skips a row that stayed in the list.
THEOREM ExactCursorsSkipNothing ==
  ASSUME Exact
  PROVE  Spec => []NothingSkipped
<1>1. EInv /\ [Next]_vars => EInv'
  <2>1. ASSUME EInv, [Next]_vars PROVE EInv'
    <3>1. IInv
      BY <2>1 DEF EInv
    <3>2. QED
      BY <2>1, <3>1, NextKeeps
  <2>2. QED
    BY <2>1
<1>2. EInv => NothingSkipped
  BY DEF EInv
<1>3. QED
  BY <1>1, <1>2, InitIInv, PTL DEF Spec
=============================================================================
