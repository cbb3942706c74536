---------------------------- MODULE ProductCache ----------------------------
(***************************************************************************)
(* The read-through cache of one product: get_product, update_product and  *)
(* archive_product of products/handlers.rs, which Go and Python do in the  *)
(* same order, over one row of products and one key of Redis.  Each        *)
(* command is a step, and every Redis error is swallowed.  Checkouts and   *)
(* cancellations change the stock of the row and know nothing of the key.  *)
(* Products do not interact, so one is enough.  Clients go on asking: when *)
(* a request is answered its place is taken by the next one of its kind.   *)
(* A definition whose comment begins with FAULT is not used by Spec.       *)
(***************************************************************************)
EXTENDS Integers

CONSTANTS
  Reader, Writer,  \* places of requests in progress: those that get the
                   \* product, those that update or archive it
  Prices, Levels,  \* prices and stock levels
  Absent,          \* the key is not set
  Faults           \* whether Redis commands may fail

ASSUME CacheAssumption ==
  /\ Reader \cap Writer = {}
  /\ Absent \notin [price : Prices, stock : Levels, active : BOOLEAN]
  /\ Faults \in BOOLEAN

VARIABLES
  row,    \* the product as committed
  key,    \* what Redis holds
  pc,     \* next step of each request
  seen,   \* the row as a reader selected it
  late,   \* history: readers an update has overtaken since their SELECT
  cause   \* history: the key holds what a late reader put there, or what a
          \* lost DEL left there

vars == <<row, key, pc, seen, late, cause>>

Row == [price : Prices, stock : Levels, active : BOOLEAN]

TypeOK ==
  /\ row \in Row
  /\ key \in Row \cup {Absent}
  /\ pc \in [Reader \cup Writer ->
               {"idle", "selecting", "filling", "deleting"}]
  /\ seen \in [Reader -> Row \cup {Absent}]
  /\ late \subseteq Reader
  /\ cause \in BOOLEAN

Init ==
  /\ row \in Row
  /\ key = Absent
  /\ pc = [r \in Reader \cup Writer |-> "idle"]
  /\ seen = [r \in Reader |-> Absent]
  /\ late = {}
  /\ cause = FALSE

Goto(r, step) == pc' = [pc EXCEPT ![r] = step]

\* What administrators set differs from the row; stock is left out, since
\* checkout changes it without touching the key.
Outdated(entry) ==
  entry # Absent /\ (entry.price # row.price \/ entry.active # row.active)

-----------------------------------------------------------------------------
\* GET the key: a hit is the answer, a miss or an error goes to the database.
CacheGet(r) ==
  /\ pc[r] = "idle"
  /\ \/ /\ key # Absent
        /\ UNCHANGED pc
     \/ /\ key = Absent \/ Faults
        /\ Goto(r, "selecting")
  /\ UNCHANGED <<row, key, seen, late, cause>>

\* FAULT (EventuallyCurrent): a row that was selected before is used again.
SelectOnce(r) ==
  /\ pc[r] = "selecting"
  /\ seen' = [seen EXCEPT ![r] = IF @ = Absent THEN row ELSE @]
  /\ Goto(r, "filling")
  /\ UNCHANGED <<row, key, late, cause>>

SelectRow(r) ==
  /\ pc[r] = "selecting"
  /\ seen' = [seen EXCEPT ![r] = row]
  /\ Goto(r, "filling")
  /\ UNCHANGED <<row, key, late, cause>>

\* SET the key, with an expiry, to the row as it was selected.
CachePut(r) ==
  /\ pc[r] = "filling"
  /\ \/ /\ key' = seen[r]
        /\ cause' = (r \in late)
     \/ /\ Faults
        /\ UNCHANGED <<key, cause>>
  /\ Goto(r, "idle")
  /\ late' = late \ {r}
  /\ UNCHANGED <<row, seen>>

\* The readers that have selected the row and not yet filled the key.
Filling == {r \in Reader : pc[r] = "filling"}

\* FAULT (OutdatedHasACause): the key is deleted before the row is written.
DeleteThenWrite(w, new) ==
  /\ pc[w] \in {"idle", "deleting"}
  /\ IF pc[w] = "idle"
       THEN key' = Absent /\ cause' = FALSE /\ UNCHANGED row
            /\ Goto(w, "deleting")
       ELSE row' = new /\ UNCHANGED <<key, cause>> /\ Goto(w, "idle")
  /\ late' = IF pc[w] = "idle" THEN late ELSE late \cup Filling
  /\ UNCHANGED seen

\* UPDATE products: one statement, committed at once.
WriteRow(w, new) ==
  /\ pc[w] = "idle"
  /\ row' = new
  /\ late' = late \cup Filling
  /\ Goto(w, "deleting")
  /\ UNCHANGED <<key, seen, cause>>

\* Any of price_cents, stock_quantity and status; the others stay.
UpdateProduct(w) == \E new \in Row : WriteRow(w, new)
ArchiveProduct(w) == WriteRow(w, [row EXCEPT !.active = FALSE])

\* DEL the key; an error, or a server that stops here, leaves it.
CacheDel(w) ==
  /\ pc[w] = "deleting"
  /\ \/ key' = Absent /\ cause' = FALSE
     \/ Faults /\ cause' = TRUE /\ UNCHANGED key
  /\ Goto(w, "idle")
  /\ UNCHANGED <<row, seen, late>>

\* A checkout or a cancellation commits.
ChangeStock ==
  /\ \E n \in Levels \ {row.stock} : row' = [row EXCEPT !.stock = n]
  /\ UNCHANGED <<key, pc, seen, late, cause>>

\* FAULT (EventuallyCurrent): SET has no EX argument.
NeverExpires == FALSE /\ UNCHANGED vars

\* The expiry that SET has given the key runs out.
Expire ==
  /\ key # Absent
  /\ key' = Absent
  /\ cause' = FALSE
  /\ UNCHANGED <<row, pc, seen, late>>

-----------------------------------------------------------------------------
Read(r) == CacheGet(r) \/ SelectRow(r) \/ CachePut(r)
Write(w) == UpdateProduct(w) \/ ArchiveProduct(w) \/ CacheDel(w)

Next ==
  \/ \E r \in Reader : Read(r)
  \/ \E w \in Writer : Write(w)
  \/ ChangeStock
  \/ Expire

\* Requests that have started go on; the expiry of a key comes.
Fairness ==
  /\ \A r \in Reader : WF_vars(SelectRow(r) \/ CachePut(r))
  /\ \A w \in Writer : WF_vars(CacheDel(w))
  /\ WF_vars(Expire)

Spec == Init /\ [][Next]_vars
FairSpec == Spec /\ Fairness

-----------------------------------------------------------------------------
\* Properties.

\* The key holds a price or a status that is not in force only while an update
\* is about to delete it, or because a reader that an update overtook filled
\* it, or a DEL was lost: every other order of steps is safe.
OutdatedHasACause ==
  Outdated(key) => cause \/ \E w \in Writer : pc[w] = "deleting"

\* However fills, updates, lost commands and sales have interleaved, once the
\* row stops changing the key comes to hold the row, stock included, or
\* nothing.
EventuallyCurrent ==
  <>[][UNCHANGED row]_vars => <>[](key \in {Absent, row})
=============================================================================
