------------------------- MODULE ProductCacheProofs -------------------------
(***************************************************************************)
(* Proofs about ProductCache, for any readers, writers, prices and stock   *)
(* levels.  OutdatedHasACause is inductive once it is known that a reader  *)
(* about to fill the key with an outdated row has been overtaken: an       *)
(* update makes the key outdated but is about to delete it, and overtakes  *)
(* every reader it makes outdated.                                         *)
(***************************************************************************)
EXTENDS ProductCache, TLAPS

\* A reader about to fill the key with an outdated row has been overtaken.
LateReaders ==
  \A r \in Reader : pc[r] = "filling" => seen[r] \in Row
                                         /\ (Outdated(seen[r]) => r \in late)

IInv == TypeOK /\ LateReaders /\ OutdatedHasACause

LEMMA InitIInv == Init => IInv
BY DEF Init, IInv, TypeOK, LateReaders, OutdatedHasACause, Outdated

\* A reader's step: only a fill touches the key.
LEMMA ReadIInv ==
  ASSUME IInv, NEW r \in Reader, Read(r)
  PROVE  IInv'
<1>0. /\ row' = row
      /\ \A w \in Writer : pc[w] = "deleting" => pc'[w] = "deleting"
      /\ \A entry : Outdated(entry)' <=> Outdated(entry)
  <2>1. row' = row
    BY DEF Read, CacheGet, SelectRow, CachePut
  <2>2. \A w \in Writer : pc[w] = "deleting" => pc'[w] = "deleting"
    BY DEF Read, CacheGet, SelectRow, CachePut, Goto, IInv, TypeOK
  <2>3. QED
    BY <2>1, <2>2 DEF Outdated
<1>1. CASE CacheGet(r)
  <2>1. TypeOK'
    BY <1>1 DEF CacheGet, Goto, IInv, TypeOK
  <2>2. LateReaders'
    BY <1>0, <1>1 DEF CacheGet, Goto, IInv, TypeOK, LateReaders, Outdated
  <2>3. OutdatedHasACause'
    BY <1>0, <1>1 DEF CacheGet, IInv, OutdatedHasACause, Outdated
  <2>4. QED
    BY <2>1, <2>2, <2>3 DEF IInv
<1>2. CASE SelectRow(r)
  <2>1. TypeOK'
    BY <1>2 DEF SelectRow, Goto, IInv, TypeOK
  <2>2. LateReaders'
    <3>1. ASSUME NEW x \in Reader, pc'[x] = "filling"
          PROVE  seen'[x] \in Row' /\ (Outdated(seen[x])' => x \in late')
      <4>1. CASE x = r
        <5>1. seen'[x] = row
          BY <1>2, <4>1 DEF SelectRow, IInv, TypeOK
        <5>2. row \in Row /\ row' = row
          BY <1>0 DEF IInv, TypeOK
        <5>3. QED
          BY <5>1, <5>2 DEF Outdated, Row
      <4>2. CASE x # r
        <5>1. seen'[x] = seen[x] /\ pc[x] = "filling" /\ late' = late
          BY <1>2, <3>1, <4>2 DEF SelectRow, Goto, IInv, TypeOK
        <5>2. seen[x] \in Row /\ (Outdated(seen[x]) => x \in late)
          BY <5>1 DEF IInv, LateReaders
        <5>3. QED
          BY <1>0, <5>1, <5>2 DEF Outdated, Row
      <4>3. QED
        BY <4>1, <4>2
    <3>2. QED
      BY <3>1 DEF LateReaders
  <2>3. OutdatedHasACause'
    BY <1>0, <1>2 DEF SelectRow, IInv, OutdatedHasACause, Outdated
  <2>4. QED
    BY <2>1, <2>2, <2>3 DEF IInv
<1>3. CASE CachePut(r)
  <2>1. seen[r] \in Row /\ (Outdated(seen[r]) => r \in late)
    BY <1>3 DEF CachePut, IInv, LateReaders
  <2>2. TypeOK'
    <3>1. cause' \in BOOLEAN
      <4>1. CASE cause' = (r \in late)
        BY <4>1
      <4>2. CASE cause' = cause
        BY <4>2 DEF IInv, TypeOK
      <4>3. QED
        BY <1>3, <4>1, <4>2 DEF CachePut
    <3>2. key' \in Row \cup {Absent}
      BY <1>3, <2>1 DEF CachePut, IInv, TypeOK
    <3>3. row' = row /\ seen' = seen /\ late' = late \ {r}
          /\ pc' = [pc EXCEPT ![r] = "idle"]
      BY <1>3 DEF CachePut, Goto
    <3>4. QED
      BY <3>1, <3>2, <3>3 DEF IInv, TypeOK, Row
  <2>3. LateReaders'
    <3>1. ASSUME NEW x \in Reader, pc'[x] = "filling"
          PROVE  seen'[x] \in Row' /\ (Outdated(seen[x])' => x \in late')
      <4>1. x # r /\ pc[x] = "filling"
        BY <1>3, <3>1 DEF CachePut, Goto, IInv, TypeOK
      <4>2. seen'[x] = seen[x] /\ (x \in late => x \in late')
        BY <1>3, <4>1 DEF CachePut
      <4>3. seen[x] \in Row /\ (Outdated(seen[x]) => x \in late)
        BY <4>1 DEF IInv, LateReaders
      <4>4. QED
        BY <1>0, <4>2, <4>3 DEF Outdated, Row
    <3>2. QED
      BY <3>1 DEF LateReaders
  <2>4. OutdatedHasACause'
    <3>1. CASE key' = seen[r] /\ cause' = (r \in late)
      <4>1. Outdated(key)' => Outdated(seen[r])
        BY <1>0, <3>1 DEF Outdated
      <4>2. Outdated(key)' => cause'
        BY <2>1, <3>1, <4>1
      <4>3. QED
        BY <4>2 DEF OutdatedHasACause
    <3>2. CASE UNCHANGED <<key, cause>>
      BY <1>0, <3>2 DEF IInv, OutdatedHasACause, Outdated
    <3>3. QED
      BY <1>3, <3>1, <3>2 DEF CachePut
  <2>5. QED
    BY <2>2, <2>3, <2>4 DEF IInv
<1>4. QED
  BY <1>1, <1>2, <1>3 DEF Read

\* The statement of an update or an archival, and the DEL that follows it.
LEMMA WriteIInv ==
  ASSUME IInv, NEW w \in Writer, Write(w), Reader \cap Writer = {}
  PROVE  IInv'
<1>1. ASSUME NEW new \in Row, WriteRow(w, new) PROVE IInv'
  <2>1. TypeOK'
    BY <1>1 DEF WriteRow, Goto, IInv, TypeOK, Filling
  <2>2. pc'[w] = "deleting"
    BY <1>1 DEF WriteRow, Goto, IInv, TypeOK
  <2>3. LateReaders'
    <3>1. ASSUME NEW r \in Reader, pc'[r] = "filling" PROVE pc[r] = "filling"
      BY <1>1, <3>1 DEF WriteRow, Goto, IInv, TypeOK
    <3>2. QED
      BY <1>1, <3>1 DEF WriteRow, Filling, IInv, LateReaders
  <2>4. QED
    BY <2>1, <2>2, <2>3 DEF IInv, OutdatedHasACause
<1>2. [row EXCEPT !.active = FALSE] \in Row
  BY DEF IInv, TypeOK, Row
<1>3. CASE CacheDel(w)
  <2>1. TypeOK'
    BY <1>3 DEF CacheDel, Goto, IInv, TypeOK
  <2>2. LateReaders'
    BY <1>3 DEF CacheDel, Goto, IInv, TypeOK, LateReaders, Outdated
  <2>3. OutdatedHasACause'
    BY <1>3 DEF CacheDel, OutdatedHasACause, Outdated
  <2>4. QED
    BY <2>1, <2>2, <2>3 DEF IInv
<1>4. QED
  BY <1>1, <1>2, <1>3 DEF Write, UpdateProduct, ArchiveProduct

\* A sale changes nothing an administrator sets; an expiry empties the key.
LEMMA EnvironmentIInv ==
  ASSUME IInv, ChangeStock \/ Expire \/ UNCHANGED vars
  PROVE  IInv'
<1>1. CASE ChangeStock
  <2>1. PICK n \in Levels : row' = [row EXCEPT !.stock = n]
    BY <1>1 DEF ChangeStock
  <2>2. row \in Row /\ row' \in Row
        /\ row'.price = row.price /\ row'.active = row.active
    BY <2>1 DEF IInv, TypeOK, Row
  <2>3. QED
    BY <1>1, <2>2 DEF ChangeStock, IInv, TypeOK, LateReaders,
      OutdatedHasACause, Outdated
<1>2. CASE Expire
  BY <1>2 DEF Expire, IInv, TypeOK, LateReaders, OutdatedHasACause, Outdated
<1>3. CASE UNCHANGED vars
  BY <1>3 DEF vars, IInv, TypeOK, LateReaders, OutdatedHasACause, Outdated
<1>4. QED
  BY <1>1, <1>2, <1>3

LEMMA Invariance == Spec => []IInv
<1>1. IInv /\ [Next]_vars => IInv'
  BY ReadIInv, WriteIInv, EnvironmentIInv, CacheAssumption DEF Next
<1>2. QED
  BY <1>1, InitIInv, PTL DEF Spec

\* An outdated key always has one of three causes: an update about to delete
\* it, a fill by a reader that an update overtook, or a lost DEL.
THEOREM OutdatedOnlyWithCause == Spec => []OutdatedHasACause
<1>1. IInv => OutdatedHasACause
  BY DEF IInv
<1>2. QED
  BY <1>1, Invariance, PTL
=============================================================================
