----------------------------- MODULE Pagination -----------------------------
(***************************************************************************)
(* A client that walks the pages of list_orders or list_products, newest   *)
(* first, while rows are inserted and leave and enter the selection.  A    *)
(* row's created_at is the time its transaction began, so that rows of one *)
(* transaction share it and rows become visible in another order than that *)
(* of created_at.  The cursor a page ends with is the position of its last *)
(* row; Go writes its time in whole seconds.                               *)
(* A definition whose comment begins with FAULT is not used by Spec.       *)
(***************************************************************************)
EXTENDS Integers, FiniteSets

CONSTANTS
  Ids,            \* the uuids of rows, as their order places them
  MaxClock,       \* bound of the clock
  PerSecond,      \* ticks of the clock in a second
  Asked,          \* limits that clients ask for
  Default, Max,   \* DEFAULT_LIMIT, MAX_LIMIT
  Server,         \* "rust", "go" or "python"
  Start, End      \* no cursor yet, no next_cursor

Row == [at : 0 .. MaxClock, id : Ids]

ASSUME PaginationAssumption ==
  /\ Ids \subseteq Int
  /\ MaxClock \in Nat
  /\ PerSecond \in Nat \ {0}
  /\ Asked \subseteq Int
  /\ Default \in Nat \ {0} /\ Max \in Nat \ {0}
  /\ Server \in {"rust", "go", "python"}
  /\ Start # End /\ Start \notin Row /\ End \notin Row

VARIABLES
  clock,   \* now()
  open,    \* rows of transactions that have not committed
  table,   \* committed rows that the list selects
  hidden,  \* committed rows that it does not: another status or category
  cursor,  \* next_cursor of the last page
  page,    \* the last page
  seen,    \* the pages before it
  stayed   \* history: rows that the list has selected since the walk began

rows == <<clock, open, table, hidden>>
walk == <<cursor, page, seen>>
vars == <<rows, walk, stayed>>

TypeOK ==
  /\ clock \in 0 .. MaxClock
  /\ open \subseteq Row /\ table \subseteq Row /\ hidden \subseteq Row
  /\ cursor \in Row \cup {Start, End}
  /\ page \subseteq Row /\ seen \subseteq Row /\ stayed \subseteq table

Init ==
  /\ clock = 0
  /\ open = {} /\ table = {} /\ hidden = {}
  /\ cursor = Start /\ page = {} /\ seen = {} /\ stayed = {}

-----------------------------------------------------------------------------
\* (created_at, id) < (c.at, c.id)
Older(r, c) == r.at < c.at \/ (r.at = c.at /\ r.id < c.id)

\* What ORDER BY created_at DESC, id DESC LIMIT n answers of a set of rows.
Limited(got, all, n) ==
  /\ got \subseteq all
  /\ got = all \/ Cardinality(got) = n
  /\ Cardinality(got) <= n
  /\ \A a \in got, b \in all \ got : Older(b, a)

AtMostMax(limit) == IF limit > Max THEN Max ELSE limit

\* FAULT (NothingSkipped): a limit has no lower bound.
BoundAbove(limit) == AtMostMax(limit)

\* Rust: clamp(1, MAX_LIMIT).
ClampToOne(limit) == IF limit < 1 THEN 1 ELSE AtMostMax(limit)

\* Go and Python take a limit that is not positive for none.
ClampLimit(limit) == IF limit <= 0 THEN Default ELSE AtMostMax(limit)

Limits ==
  {Default} \cup
    {IF Server = "rust" THEN ClampToOne(limit) ELSE ClampLimit(limit) :
       limit \in Asked}

\* FAULT (NothingSkipped): the cursor of every server has whole seconds.
CutAlways(at) == at - (at % PerSecond)

\* The time of a cursor: time.RFC3339 has no fraction of a second.
Cut(at) == IF Server = "go" THEN at - (at % PerSecond) ELSE at

\* One row more than the page is selected, to know whether more follow; the
\* cursor is the position of the last row of the page, if it has one.
List(matching, limit) ==
  \E got \in SUBSET matching, shown \in SUBSET matching :
    /\ Limited(got, matching, limit + 1)
    /\ Limited(shown, got, limit)
    /\ page' = shown
    /\ IF shown \in {got, {}}
       THEN cursor' = End
       ELSE \E last \in shown :
              /\ \A r \in shown \ {last} : Older(last, r)
              /\ cursor' = [at |-> Cut(last.at), id |-> last.id]

\* A walk begins: the request has no cursor.
FirstPage ==
  /\ \E limit \in Limits : List(table, limit)
  /\ seen' = {}
  /\ stayed' = table
  /\ UNCHANGED rows

\* FAULT (NewestFirst): <= in the predicate on (created_at, id).
NextPageFromSame ==
  /\ cursor \notin {Start, End}
  /\ \E limit \in Limits : List({r \in table : ~Older(cursor, r)}, limit)
  /\ seen' = seen \cup page
  /\ UNCHANGED <<rows, stayed>>

\* The request has the cursor of the page before.
NextPage ==
  /\ cursor \notin {Start, End}
  /\ \E limit \in Limits : List({r \in table : Older(r, cursor)}, limit)
  /\ seen' = seen \cup page
  /\ UNCHANGED <<rows, stayed>>

-----------------------------------------------------------------------------
\* INSERT by checkout or create_product: created_at defaults to the time the
\* transaction began, the id to a random uuid.
Insert(id) ==
  /\ \A r \in open \cup table \cup hidden : r.id # id
  /\ open' = open \cup {[at |-> clock, id |-> id]}
  /\ UNCHANGED <<clock, table, hidden, walk, stayed>>

Commit(r) ==
  /\ open' = open \ {r}
  /\ table' = table \cup {r}
  /\ UNCHANGED <<clock, hidden, walk, stayed>>

Rollback(r) ==
  /\ open' = open \ {r}
  /\ UNCHANGED <<clock, table, hidden, walk, stayed>>

\* A product is archived, or moves to a category that is not asked for.
Hide(r) ==
  /\ table' = table \ {r}
  /\ hidden' = hidden \cup {r}
  /\ stayed' = stayed \ {r}
  /\ UNCHANGED <<clock, open, walk>>

\* A product is made active again, or comes into the category.
Show(r) ==
  /\ hidden' = hidden \ {r}
  /\ table' = table \cup {r}
  /\ UNCHANGED <<clock, open, walk, stayed>>

Tick ==
  /\ clock < MaxClock
  /\ clock' = clock + 1
  /\ UNCHANGED <<open, table, hidden, walk, stayed>>

Next ==
  \/ FirstPage
  \/ NextPage
  \/ \E id \in Ids : Insert(id)
  \/ \E r \in open : Commit(r) \/ Rollback(r)
  \/ \E r \in table : Hide(r)
  \/ \E r \in hidden : Show(r)
  \/ Tick

Spec == Init /\ [][Next]_vars

-----------------------------------------------------------------------------
\* Properties.

\* A walk that has come to its end has shown every row that the list selected
\* all the while: whatever else was inserted, archived or activated between
\* the pages, and whatever limit each page asked for (pagination.rs calls
\* OFFSET "unstable under concurrent writes").
NothingSkipped == cursor = End => stayed \subseteq seen \cup page

\* A page is older than everything on the pages before it: the walk goes on in
\* the order of the list and shows no row twice.
NewestFirst == \A a \in seen, b \in page : Older(b, a)
=============================================================================
