-------------------------- MODULE SledEntryProofs --------------------------
(***************************************************************************)
(* The entries of an index key: what the calls of SledStorage leave there, *)
(* what a transaction sees of them, and when that agrees with the rows.    *)
(***************************************************************************)
EXTENDS SledIndex, SnapshotProofs

\* Most leaves are first-order; the ones that calculate cite SMT.
USE Zenon

LEMMA TableKeys ==
  /\ \A t \in Table : SchemaKey(t) \in Key /\ RowKeys(t) \subseteq Key
  /\ \A t \in Table, r \in Row : <<t, r>> \in Key
  /\ \A t, u \in Table, r \in Row : SchemaKey(u) # <<t, r>>
<1>1. /\ \A t \in Table : SchemaKey(t) \in Key /\ RowKeys(t) \subseteq Key
      /\ \A t \in Table, r \in Row : <<t, r>> \in Key
  BY SMT DEF Key, SchemaKey, RowKeys
<1>2. \A t, u \in Table, r \in Row : SchemaKey(u) # <<t, r>>
  BY SledAssumption DEF SchemaKey
<1> QED
  BY <1>1, <1>2

-----------------------------------------------------------------------------
(* The entries of an index key *)

HasTop(s) == s # {} => \E e \in s : \A f \in s : f.at <= e.at

LEMMA MarkDeletedEntry ==
  ASSUME NEW e \in Entry, NEW u \in Txid \cup {None}
  PROVE  /\ MarkDeleted(e, u) \in Entry
         /\ MarkDeleted(e, u).at = e.at /\ MarkDeleted(e, u).data = e.data
         /\ MarkDeleted(e, u).created_by = e.created_by
         /\ MarkDeleted(e, u).deleted_by = u
BY DEF MarkDeleted, Entry

\* Entries at positions of a Vec that has a last entry.
LEMMA TopOf ==
  ASSUME NEW s \in SUBSET Entry, HasTop(s), NEW r \in SUBSET Entry,
         \A e \in r : \E f \in s : f.at = e.at
  PROVE  HasTop(r)
<1> SUFFICES ASSUME r # {} PROVE \E e \in r : \A f \in r : f.at <= e.at
  BY DEF HasTop
<1> DEFINE T == {e.at : e \in r}
<1>1. PICK e \in s : \A f \in s : f.at <= e.at
  BY DEF HasTop
<1>2. e.at \in Nat /\ T \in SUBSET Nat /\ T # {}
  BY DEF Entry
<1>3. \A x \in T : x <= e.at
  BY <1>1
<1>4. PICK x \in T : \A y \in T : y <= x
  BY <1>2, <1>3, LargestExists
<1> QED
  BY <1>4

LEMMA RollbackEntries ==
  ASSUME NEW s \in SUBSET Entry, HasTop(s), NEW u \in Txid
  PROVE  /\ Rollback(s, u) \in SUBSET Entry /\ HasTop(Rollback(s, u))
         /\ ~HasMark(Rollback(s, u), u)
         /\ \A v \in Txid : HasMark(Rollback(s, u), v) => HasMark(s, v)
<1>1. ASSUME NEW e \in Rollback(s, u)
      PROVE  /\ e \in Entry /\ e.created_by # u /\ e.deleted_by # u
             /\ \E f \in s : /\ f.at = e.at /\ f.created_by = e.created_by
                             /\ e.deleted_by \in {f.deleted_by, None}
  <2>1. PICK f \in s : /\ f.created_by # u
                       /\ e = IF f.deleted_by = u THEN MarkDeleted(f, None) ELSE f
    BY <1>1 DEF Rollback
  <2>2. f \in Entry /\ u # None
    BY NoneNotNat DEF Txid
  <2> QED
    BY <2>1, <2>2, MarkDeletedEntry, SMT
<1>2. Rollback(s, u) \in SUBSET Entry
  BY <1>1
<1>3. HasTop(Rollback(s, u))
  BY <1>1, <1>2, TopOf, SMT
<1>4. ~HasMark(Rollback(s, u), u)
  BY <1>1 DEF HasMark
<1>5. \A v \in Txid : HasMark(Rollback(s, u), v) => HasMark(s, v)
  BY <1>1, NoneNotNat DEF HasMark, Txid
<1> QED
  BY <1>2, <1>3, <1>4, <1>5

\* New entries come after all others.
LEMMA PushPosition ==
  ASSUME NEW m \in SUBSET Entry, HasTop(m), NEW u, NEW K
  PROVE  \E pos \in Nat : /\ PushEntries(m, u, K) = m \cup {NewEntry(pos, u, k) : k \in K}
                          /\ \A e \in m : e.at < pos
<1> DEFINE A == {e.at : e \in m}
           pos == IF m = {} THEN 1 ELSE Last(A) + 1
<1>1. PushEntries(m, u, K) = m \cup {NewEntry(pos, u, k) : k \in K}
  BY DEF PushEntries
<1>2. CASE m = {}
  BY <1>1, <1>2, SMT
<1>3. CASE m # {}
  <2>1. \E x \in A : \A y \in A : y <= x
    BY <1>3 DEF HasTop
  <2>2. Last(A) \in A /\ \A y \in A : y <= Last(A)
    BY <2>1 DEF Last
  <2>3. A \subseteq Nat
    BY DEF Entry
  <2>4. Last(A) + 1 \in Nat /\ \A y \in A : y < Last(A) + 1
    <3> HIDE DEF A
    <3>1. PICK x \in Nat : x = Last(A) /\ \A y \in A : y \in Nat /\ y <= x
      BY <2>2, <2>3
    <3>2. x + 1 \in Nat /\ \A y \in A : y < x + 1
      BY <3>1, SMT
    <3> QED
      BY <3>1, <3>2
  <2>5. Last(A) + 1 \in Nat /\ \A e \in m : e.at < Last(A) + 1
    BY <2>4
  <2> QED
    BY <1>1, <1>3, <2>5
<1> QED
  BY <1>2, <1>3

\* The index part of a write to one index key.
LEMMA SyncedEntries ==
  ASSUME NEW s \in SUBSET Entry, HasTop(s), NEW u \in Txid,
         NEW D, NEW K \in SUBSET Key
  PROVE  LET n == PushEntries(DeleteEntries(s, u, D), u, K)
         IN  /\ n \in SUBSET Entry /\ HasTop(n)
             /\ \A v \in Txid : HasMark(n, v) =>
                  HasMark(s, v) \/ (v = u /\ (D # {} \/ K # {}))
<1> DEFINE m == DeleteEntries(s, u, D)
           n == PushEntries(m, u, K)
<1>1. ASSUME NEW e \in m
      PROVE  /\ e \in Entry
             /\ \E f \in s : /\ f.at = e.at /\ f.created_by = e.created_by
                             /\ e.deleted_by = f.deleted_by
                                \/ (e.deleted_by = u /\ D # {})
  <2>1. PICK f \in s : e = IF f.data \in D /\ Visible(f, u, None)
                           THEN MarkDeleted(f, u) ELSE f
    BY <1>1 DEF DeleteEntries
  <2>2. f \in Entry
    OBVIOUS
  <2> QED
    BY <2>1, <2>2, MarkDeletedEntry, SMT
<1>2. m \in SUBSET Entry
  BY <1>1
<1>3. HasTop(m)
  BY <1>1, <1>2, TopOf, SMT
<1> HIDE DEF m
<1>4. PICK pos \in Nat : /\ n = m \cup {NewEntry(pos, u, k) : k \in K}
                         /\ \A e \in m : e.at < pos
  BY <1>2, <1>3, PushPosition, SMT
<1>5. \A k \in K : /\ NewEntry(pos, u, k) \in Entry
                   /\ NewEntry(pos, u, k).at = pos
                   /\ NewEntry(pos, u, k).created_by = u
                   /\ NewEntry(pos, u, k).deleted_by = None
  BY DEF NewEntry, NewItem, Entry, Txid
<1> HIDE DEF n
<1>6. n \in SUBSET Entry
  BY <1>2, <1>4, <1>5
<1>7. HasTop(n)
  <2>1. CASE K = {}
    BY <1>3, <1>4, <2>1
  <2>2. CASE K # {}
    <3>1. PICK k \in K : TRUE
      BY <2>2
    <3>2. NewEntry(pos, u, k) \in n
      BY <1>4
    <3>3. \A f \in m : f.at \in Nat /\ f.at <= pos
      BY <1>2, <1>4, SMT DEF Entry
    <3>4. \A f \in n : f.at <= NewEntry(pos, u, k).at
      BY <1>4, <1>5, <3>3, SMT
    <3> QED
      BY <3>2, <3>4 DEF HasTop
  <2> QED
    BY <2>1, <2>2
<1>8. \A v \in Txid : HasMark(n, v) => HasMark(s, v) \/ (v = u /\ (D # {} \/ K # {}))
  <2>1. ASSUME NEW v \in Txid, NEW e \in n, e.created_by = v \/ e.deleted_by = v
        PROVE  HasMark(s, v) \/ (v = u /\ (D # {} \/ K # {}))
    <3>1. CASE e \in m
      BY <1>1, <2>1, <3>1 DEF HasMark
    <3>2. CASE e \notin m
      BY <1>4, <1>5, <2>1, <3>2, NoneNotNat, SMT DEF Txid
    <3> QED
      BY <3>1, <3>2
  <2> QED
    BY <2>1 DEF HasMark
<1> QED
  BY <1>6, <1>7, <1>8 DEF n, m
-----------------------------------------------------------------------------
(* What is seen of the entries of an index key *)

Apart(s) == \A e, f \in s : e.at = f.at /\ e.data = f.data => e = f

LEMMA VisibleEntry ==
  ASSUME NEW e \in Entry, NEW t \in Txid
  PROVE  /\ Visible(e, t, None) <=>
              /\ e.created_by <= t
              /\ e.deleted_by = None \/ t < e.deleted_by
         /\ \A u \in Txid : u # t =>
              (Visible(e, t, u) <=>
                 /\ e.created_by # u /\ e.created_by <= t
                 /\ e.deleted_by \in {None, u} \/ t < e.deleted_by)
         /\ Visible(e, t, t) <=> Visible(e, t, None)
<1>1. /\ e.created_by \in Nat /\ e.deleted_by \in Nat \cup {None} /\ t \in Nat
      /\ t # None /\ e.created_by # None
  BY NoneNotNat DEF Entry, Txid
<1>2. Visible(e, t, None) <=>
        /\ e.created_by <= t
        /\ e.deleted_by = None \/ t < e.deleted_by
  BY <1>1, SMT DEF Visible
<1>3. ASSUME NEW u \in Txid, u # t
      PROVE  Visible(e, t, u) <=>
               /\ e.created_by # u /\ e.created_by <= t
               /\ e.deleted_by \in {None, u} \/ t < e.deleted_by
  BY <1>1, <1>3, SMT DEF Visible, Txid
<1>4. Visible(e, t, t) <=> Visible(e, t, None)
  BY <1>1 DEF Visible
<1> QED
  BY <1>2, <1>3, <1>4

LEMMA UndoEntry ==
  ASSUME NEW e \in Entry, NEW u
  PROVE  /\ Undo(e, u) \in Entry
         /\ Undo(e, u).at = e.at /\ Undo(e, u).data = e.data
         /\ Undo(e, u).created_by = e.created_by
         /\ Undo(e, u).deleted_by = IF e.deleted_by = u THEN None
                                    ELSE e.deleted_by
BY MarkDeletedEntry DEF Undo

LEMMA SameEntry ==
  ASSUME NEW e \in Entry, NEW f \in Entry, e.at = f.at, e.data = f.data,
         e.created_by = f.created_by, e.deleted_by = f.deleted_by
  PROVE  e = f
BY SMT DEF Entry

\* Everyone but the holder sees what a rollback of the holder would leave.
LEMMA HiddenSeen ==
  ASSUME NEW s \in SUBSET Entry, NEW t \in Txid, NEW u \in Txid \cup {None}, t # u
  PROVE  SeenAt(s, t, u) = SeenAt(Rollback(s, u), t, None)
<1>1. ASSUME NEW e \in s
      PROVE  Visible(e, t, u) <=> e.created_by # u /\ Visible(Undo(e, u), t, None)
  <2>1. e \in Entry /\ e.created_by # None /\ u # t
    BY NoneNotNat DEF Entry, Txid
  <2>2. CASE u = None
    BY <2>1, <2>2, UndoEntry, VisibleEntry, SMT
  <2>3. CASE u \in Txid
    BY <2>1, <2>3, UndoEntry, VisibleEntry, NoneNotNat, SMT DEF Txid
  <2> QED
    BY <2>2, <2>3
<1>2. \A e \in s : Undo(e, u).at = e.at /\ Undo(e, u).data = e.data
  BY UndoEntry
<1>3. ASSUME NEW p
      PROVE  p \in SeenAt(s, t, u) <=>
               \E e \in s : /\ e.created_by # u /\ Visible(Undo(e, u), t, None)
                            /\ p = <<e.at, e.data>>
  BY <1>1 DEF SeenAt, VisibleItems
<1>4. ASSUME NEW p
      PROVE  p \in SeenAt(Rollback(s, u), t, None) <=>
               \E e \in s : /\ e.created_by # u /\ Visible(Undo(e, u), t, None)
                            /\ p = <<e.at, e.data>>
  <2>1. p \in SeenAt(Rollback(s, u), t, None) <=>
          \E f \in Rollback(s, u) : Visible(f, t, None) /\ p = <<f.at, f.data>>
    BY DEF SeenAt, VisibleItems
  <2>2. \A f : f \in Rollback(s, u) <=> \E e \in s : e.created_by # u /\ f = Undo(e, u)
    BY RollbackIsUndo
  <2> QED
    BY <1>2, <2>1, <2>2, SMT
<1> QED
  BY <1>3, <1>4

LEMMA OwnSeen ==
  ASSUME NEW s \in SUBSET Entry, NEW t \in Txid
  PROVE  SeenAt(s, t, t) = SeenAt(s, t, None)
BY VisibleEntry DEF SeenAt, VisibleItems

\* Readers above all marks see the same.
LEMMA SeenAbove ==
  ASSUME NEW s \in SUBSET Entry, NEW t \in Txid, NEW u \in Txid,
         \A w \in Txid : HasMark(s, w) => w <= t /\ w <= u
  PROVE  /\ SeenAt(s, t, None) = SeenAt(s, u, None)
         /\ \A e \in s : Visible(e, t, None) <=> e.deleted_by = None
<1>1. ASSUME NEW e \in s
      PROVE  /\ Visible(e, t, None) <=> e.deleted_by = None
             /\ Visible(e, u, None) <=> e.deleted_by = None
  <2>1. e \in Entry /\ e.created_by \in Txid /\ e.deleted_by \in Txid \cup {None}
    BY DEF Entry
  <2>2. e.created_by <= t /\ e.created_by <= u
    BY <2>1 DEF HasMark
  <2>3. e.deleted_by # None => e.deleted_by <= t /\ e.deleted_by <= u
    BY <2>1 DEF HasMark
  <2> QED
    BY <2>1, <2>2, <2>3, VisibleEntry, SMT DEF Txid
<1> QED
  BY <1>1 DEF SeenAt, VisibleItems

\* The same for the versions of a key.
LEMMA GetAbove ==
  ASSUME NEW s \in SUBSET SnapshotItem, NEW t \in Txid, NEW u \in Txid,
         \A w \in Txid : HasMark(s, w) => w <= t /\ w <= u
  PROVE  Get(s, t, None) = Get(s, u, None)
<1>1. ASSUME NEW e \in s
      PROVE  Visible(e, t, None) <=> Visible(e, u, None)
  <2>1. e.created_by \in Txid /\ e.deleted_by \in Txid \cup {None}
    BY DEF SnapshotItem
  <2>2. e.created_by <= t /\ e.created_by <= u
    BY <2>1 DEF HasMark
  <2>3. e.deleted_by # None => e.deleted_by <= t /\ e.deleted_by <= u
    BY <2>1 DEF HasMark
  <2> QED
    BY <2>1, <2>2, <2>3, NoneNotNat DEF Visible, Txid
<1>2. VisibleItems(s, t, None) = VisibleItems(s, u, None)
  BY <1>1 DEF VisibleItems
<1> QED
  BY <1>2 DEF Get

\* The commit of a younger transaction changes nothing for a reader.
LEMMA YoungerSeen ==
  ASSUME NEW s \in SUBSET Entry, NEW t \in Txid, NEW u \in Txid, t < u
  PROVE  SeenAt(s, t, u) = SeenAt(s, t, None)
<1>1. ASSUME NEW e \in s PROVE Visible(e, t, u) <=> Visible(e, t, None)
  <2>1. e \in Entry /\ u # t /\ e.created_by \in Nat /\ e.deleted_by \in Nat \cup {None}
        /\ t \in Nat /\ u \in Nat
    BY SMT DEF Txid, Entry
  <2> QED
    BY <2>1, VisibleEntry, SMT
<1> QED
  BY <1>1 DEF SeenAt, VisibleItems

LEMMA GcSeen ==
  ASSUME NEW s \in SUBSET Entry, NEW g \in Nat, NEW t \in Txid, g < t,
         NEW l \in Txid \cup {None}, l = None \/ l = t \/ g < l
  PROVE  SeenAt(GcEntries(s, g), t, l) = SeenAt(s, t, l)
<1>1. ASSUME NEW e \in s, Visible(e, t, l) PROVE ~Collectable(e, g)
  <2>1. e \in Entry /\ e.created_by \in Nat /\ e.deleted_by \in Nat \cup {None}
        /\ t \in Nat
    BY DEF Txid, Entry
  <2>2. e.deleted_by \in {None, l} \/ t < e.deleted_by
    BY <1>1, <2>1, VisibleEntry
  <2>3. l = t => e.deleted_by = None \/ t < e.deleted_by
    BY <1>1, <2>1, VisibleEntry
  <2> QED
    BY <2>1, <2>2, <2>3, NoneNotNat, SMT DEF Collectable, Txid
<1>2. VisibleItems(GcEntries(s, g), t, l) = VisibleItems(s, t, l)
  BY <1>1 DEF VisibleItems, GcEntries
<1> QED
  BY <1>2 DEF SeenAt
-----------------------------------------------------------------------------
(* What a write does to the entries of an index key *)

LEMMA RollbackApart ==
  ASSUME NEW s \in SUBSET Entry, Apart(s), NEW u
  PROVE  Apart(Rollback(s, u))
<1>1. \A f \in Rollback(s, u) : \E e \in s : f = Undo(e, u)
  BY RollbackIsUndo
<1>2. \A e \in s : Undo(e, u).at = e.at /\ Undo(e, u).data = e.data
  BY UndoEntry
<1> QED
  BY <1>1, <1>2, SMT DEF Apart

\* delete_index_data of a transaction that no other has overtaken stamps the
\* live entries of the data keys, and nothing else.
LEMMA DeletedEntries ==
  ASSUME NEW s \in SUBSET Entry, HasTop(s), Apart(s), NEW u \in Txid,
         \A w \in Txid : HasMark(s, w) => w <= u, NEW D
  PROVE  LET m == DeleteEntries(s, u, D)
         IN  /\ m \in SUBSET Entry /\ HasTop(m) /\ Apart(m)
             /\ Rollback(m, u) = Rollback(s, u)
             /\ \A w \in Txid : HasMark(m, w) => w <= u
             /\ \A w \in Txid : HasMark(m, w) => w = u \/ HasMark(s, w)
             /\ SeenAt(m, u, None) = {p \in SeenAt(s, u, None) : p[2] \notin D}
<1> DEFINE m == DeleteEntries(s, u, D)
           Stamped(e) == e.data \in D /\ e.deleted_by = None
           Now(e) == IF Stamped(e) THEN MarkDeleted(e, u) ELSE e
<1>0. u # None /\ \A e \in s : e \in Entry /\ e.created_by \in Txid
                               /\ e.deleted_by \in Txid \cup {None}
  BY NoneNotNat DEF Txid, Entry
<1>1. \A e \in s : Visible(e, u, None) <=> e.deleted_by = None
  BY SeenAbove
<1>2. m = {Now(e) : e \in s}
  BY <1>1 DEF DeleteEntries
<1>3. ASSUME NEW e \in s
      PROVE  /\ Now(e) \in Entry /\ Now(e).at = e.at /\ Now(e).data = e.data
             /\ Now(e).created_by = e.created_by
             /\ Now(e).deleted_by = IF Stamped(e) THEN u ELSE e.deleted_by
  BY MarkDeletedEntry
<1> HIDE DEF m, Now
<1>4. m \in SUBSET Entry
  BY <1>2, <1>3
<1>5. HasTop(m)
  <2>1. \A f \in m : \E e \in s : e.at = f.at
    BY <1>2, <1>3
  <2> QED
    BY <1>4, <2>1, TopOf
<1>6. Apart(m)
  BY <1>2, <1>3, SMT DEF Apart
<1>7. \A w \in Txid : HasMark(m, w) => w = u \/ HasMark(s, w)
  BY <1>2, <1>3, SMT DEF HasMark
<1>8. \A w \in Txid : HasMark(m, w) => w <= u
  BY <1>7, SMT DEF Txid
<1>9. Rollback(m, u) = Rollback(s, u)
  <2>1. \A f : f \in Rollback(m, u) <=> \E e \in s : /\ Now(e).created_by # u
                                                     /\ f = Undo(Now(e), u)
    BY <1>2, RollbackIsUndo
  <2>2. \A f : f \in Rollback(s, u) <=> \E e \in s : e.created_by # u /\ f = Undo(e, u)
    BY RollbackIsUndo
  <2>3. ASSUME NEW e \in s PROVE Undo(Now(e), u) = Undo(e, u)
    <3>1. /\ Undo(e, u) \in Entry /\ Undo(Now(e), u) \in Entry
          /\ Undo(Now(e), u).at = e.at /\ Undo(Now(e), u).data = e.data
          /\ Undo(Now(e), u).created_by = e.created_by
          /\ Undo(Now(e), u).deleted_by =
               IF Now(e).deleted_by = u THEN None ELSE Now(e).deleted_by
      BY <1>3, UndoEntry, SMT
    <3>2. /\ Undo(e, u).at = e.at /\ Undo(e, u).data = e.data
          /\ Undo(e, u).created_by = e.created_by
          /\ Undo(e, u).deleted_by = IF e.deleted_by = u THEN None ELSE e.deleted_by
      BY <1>0, UndoEntry
    <3>3. Undo(Now(e), u).deleted_by = Undo(e, u).deleted_by
      BY <1>0, <1>3, <3>1, <3>2
    <3> QED
      BY <3>1, <3>2, <3>3, SameEntry
  <2> QED
    BY <1>3, <2>1, <2>2, <2>3, SMT
<1>10. SeenAt(m, u, None) = {p \in SeenAt(s, u, None) : p[2] \notin D}
  <2>1. \A f \in m : Visible(f, u, None) <=> f.deleted_by = None
    BY <1>4, <1>8, SeenAbove
  <2>2. \A p : p \in SeenAt(m, u, None) <=>
          \E e \in s : Now(e).deleted_by = None /\ p = <<e.at, e.data>>
    BY <1>2, <1>3, <2>1, SMT DEF SeenAt, VisibleItems
  <2>3. \A p : p \in SeenAt(s, u, None) <=>
          \E e \in s : e.deleted_by = None /\ p = <<e.at, e.data>>
    BY <1>1 DEF SeenAt, VisibleItems
  <2>4. \A e \in s : Now(e).deleted_by = None <=> e.deleted_by = None /\ e.data \notin D
    BY <1>0, <1>3
  <2> QED
    BY <2>2, <2>3, <2>4, SMT
<1> QED
  BY <1>4, <1>5, <1>6, <1>7, <1>8, <1>9, <1>10 DEF m

\* The data keys K are seen at a new position.
Added(old, K, new) == \E pos : new = old \cup {<<pos, k>> : k \in K}

\* insert_index_data: what it pushes is seen by the writer and taken back by
\* its rollback.
LEMMA PushedEntries ==
  ASSUME NEW m \in SUBSET Entry, HasTop(m), Apart(m), NEW u \in Txid,
         \A w \in Txid : HasMark(m, w) => w <= u, NEW K \in SUBSET Key
  PROVE  LET n == PushEntries(m, u, K)
         IN  /\ n \in SUBSET Entry /\ Apart(n)
             /\ Rollback(n, u) = Rollback(m, u)
             /\ \A w \in Txid : HasMark(n, w) => w <= u
             /\ \A w \in Txid : HasMark(n, w) => w = u \/ HasMark(m, w)
             /\ Added(SeenAt(m, u, None), K, SeenAt(n, u, None))
<1> DEFINE n == PushEntries(m, u, K)
<1>0. u # None /\ u \in Nat
  BY NoneNotNat DEF Txid
<1>1. PICK pos \in Nat : /\ n = m \cup {NewEntry(pos, u, k) : k \in K}
                         /\ \A e \in m : e.at < pos
  BY PushPosition, SMT
<1>2. \A k \in K : /\ NewEntry(pos, u, k) \in Entry
                   /\ NewEntry(pos, u, k).at = pos /\ NewEntry(pos, u, k).data = k
                   /\ NewEntry(pos, u, k).created_by = u
                   /\ NewEntry(pos, u, k).deleted_by = None
  BY DEF NewEntry, NewItem, Entry, Txid
<1> HIDE DEF n
<1>3. n \in SUBSET Entry
  BY <1>1, <1>2
<1>4. Apart(n)
  <2>1. \A e \in m : e.at \in Nat /\ e.at # pos
    BY <1>1, SMT DEF Entry
  <2> QED
    BY <1>1, <1>2, <2>1, SMT DEF Apart
<1>5. \A w \in Txid : HasMark(n, w) => w = u \/ HasMark(m, w)
  BY <1>1, <1>2, NoneNotNat, SMT DEF HasMark, Txid
<1>6. \A w \in Txid : HasMark(n, w) => w <= u
  BY <1>5, SMT DEF Txid
<1>7. Rollback(n, u) = Rollback(m, u)
  <2>1. {e \in n : e.created_by # u} = {e \in m : e.created_by # u}
    BY <1>1, <1>2, SMT
  <2> QED
    BY <2>1 DEF Rollback
<1>8. SeenAt(n, u, None) = SeenAt(m, u, None) \cup {<<pos, k>> : k \in K}
  <2>1. \A k \in K : Visible(NewEntry(pos, u, k), u, None)
    BY <1>0, <1>2, VisibleEntry, SMT
  <2> QED
    BY <1>1, <1>2, <2>1, SMT DEF SeenAt, VisibleItems
<1>9. Added(SeenAt(m, u, None), K, SeenAt(n, u, None))
  BY <1>8 DEF Added
<1> QED
  BY <1>3, <1>4, <1>5, <1>6, <1>7, <1>9 DEF n
-----------------------------------------------------------------------------
(* Agreement of rows and entries, entry by entry *)

Has(view, t) == view[SchemaKey(t)] # None /\ view[SchemaKey(t)][1] = Indexed

\* The view w with v under the key k.
With(w, k, v, new) == \A j \in Key : new[j] = IF j = k THEN v ELSE w[j]

\* What is seen under every index key once the pairs are in.
After(old, del, ins, seen) ==
  \A i \in IndexKey : Added({p \in old[i] : p[2] \notin Of(del, i)},
                            Of(ins, i), seen[i])

\* The pairs for a row of an indexed table that becomes `new`.
PairsOf(t, k, old, new, del, ins) ==
  \A i \in IndexKey :
    /\ Of(del, i) \subseteq {k}
    /\ old # None /\ i = <<t, old[1]>> => k \in Of(del, i)
    /\ Of(ins, i) = IF new # None /\ i = <<t, new[1]>> THEN {k} ELSE {}
    /\ i[1] # t => Of(del, i) = {}

\* The entries under one index key are the rows with that payload.
Exact(t, x, view, S) ==
  /\ \A p \in S : p[2] \in RowKeys(t) /\ view[p[2]] # None /\ view[p[2]][1] = x
  /\ \A k \in RowKeys(t) : view[k] # None /\ view[k][1] = x => \E p \in S : p[2] = k
  /\ \A p, q \in S : p[2] = q[2] => p = q

LEMMA OfNothing == \A i : Of({}, i) = {}
BY DEF Of

LEMMA OfPair ==
  ASSUME NEW a, NEW b, NEW i
  PROVE  Of({<<a, b>>}, i) = IF i = a THEN {b} ELSE {}
<1>1. \A y : y \in Of({<<a, b>>}, i) <=> \E p \in {<<a, b>>} : p[1] = i /\ y = p[2]
  BY DEF Of
<1>2. \A y : y \in Of({<<a, b>>}, i) <=> a = i /\ y = b
  BY <1>1, SMT
<1> QED
  BY <1>2

LEMMA FaithfulEq ==
  ASSUME NEW v, NEW w, \A k \in Key : v[k] = w[k],
         NEW a, NEW b, \A i \in IndexKey : a[i] = b[i], Faithful(v, a)
  PROVE  Faithful(w, b)
<1>1. \A t \in Table, x \in Val :
        /\ v[SchemaKey(t)] = w[SchemaKey(t)] /\ a[<<t, x>>] = b[<<t, x>>]
        /\ \A k \in RowKeys(t) : v[k] = w[k]
  BY TableKeys DEF IndexKey, RowKeys
<1>2. ASSUME NEW t \in Table, NEW x \in Val
      PROVE  {k \in RowKeys(t) : v[k] # None /\ v[k][1] = x}
               = {k \in RowKeys(t) : w[k] # None /\ w[k][1] = x}
  BY <1>1
<1>3. ASSUME NEW t \in Table, NEW x \in Val
      PROVE  IF w[SchemaKey(t)] # None /\ w[SchemaKey(t)][1] = Indexed
             THEN /\ {p[2] : p \in b[<<t, x>>]} =
                       {k \in RowKeys(t) : w[k] # None /\ w[k][1] = x}
                  /\ \A p, q \in b[<<t, x>>] : p[2] = q[2] => p = q
             ELSE b[<<t, x>>] = {}
  <2>1. v[SchemaKey(t)] = w[SchemaKey(t)] /\ a[<<t, x>>] = b[<<t, x>>]
    BY <1>1
  <2>2. IF v[SchemaKey(t)] # None /\ v[SchemaKey(t)][1] = Indexed
        THEN /\ {p[2] : p \in a[<<t, x>>]} =
                  {k \in RowKeys(t) : v[k] # None /\ v[k][1] = x}
             /\ \A p, q \in a[<<t, x>>] : p[2] = q[2] => p = q
        ELSE a[<<t, x>>] = {}
    BY DEF Faithful
  <2> QED
    BY <1>2, <2>1, <2>2
<1> QED
  BY <1>3 DEF Faithful

LEMMA FaithfulExact ==
  ASSUME NEW view, NEW seen
  PROVE  Faithful(view, seen) <=>
           \A t \in Table, x \in Val :
             /\ Has(view, t) => Exact(t, x, view, seen[<<t, x>>])
             /\ ~Has(view, t) => seen[<<t, x>>] = {}
<1>1. ASSUME NEW t \in Table, NEW x \in Val, NEW S
      PROVE  Exact(t, x, view, S) <=>
               /\ {p[2] : p \in S} = {k \in RowKeys(t) : view[k] # None /\ view[k][1] = x}
               /\ \A p, q \in S : p[2] = q[2] => p = q
  <2>1. {p[2] : p \in S} = {k \in RowKeys(t) : view[k] # None /\ view[k][1] = x} <=>
          /\ \A p \in S : p[2] \in RowKeys(t) /\ view[p[2]] # None /\ view[p[2]][1] = x
          /\ \A k \in RowKeys(t) : view[k] # None /\ view[k][1] = x
                                   => \E p \in S : p[2] = k
    BY SMT
  <2> QED
    BY <2>1 DEF Exact
<1>2. ASSUME NEW t \in Table, NEW x \in Val
      PROVE  (/\ Has(view, t) => Exact(t, x, view, seen[<<t, x>>])
              /\ ~Has(view, t) => seen[<<t, x>>] = {})
             <=> IF view[SchemaKey(t)] # None /\ view[SchemaKey(t)][1] = Indexed
                 THEN /\ {p[2] : p \in seen[<<t, x>>]} =
                           {k \in RowKeys(t) : view[k] # None /\ view[k][1] = x}
                      /\ \A p, q \in seen[<<t, x>>] : p[2] = q[2] => p = q
                 ELSE seen[<<t, x>>] = {}
  <2>1. Exact(t, x, view, seen[<<t, x>>]) <=>
               /\ {p[2] : p \in seen[<<t, x>>]}
                    = {k \in RowKeys(t) : view[k] # None /\ view[k][1] = x}
               /\ \A p, q \in seen[<<t, x>>] : p[2] = q[2] => p = q
    BY <1>1
  <2> QED
    BY <2>1 DEF Has
<1> QED
  BY <1>2 DEF Faithful

\* One row is written, and its entries with it.
LEMMA FaithfulRow ==
  ASSUME NEW v, NEW s, Faithful(v, s), NEW t \in Table, NEW r \in Row,
         NEW new, new = None \/ new[1] \in Val,
         NEW w, With(v, <<t, r>>, new, w),
         NEW del, NEW ins, ~Has(v, t) => del = {} /\ ins = {},
         Has(v, t) => PairsOf(t, <<t, r>>, v[<<t, r>>], new, del, ins),
         NEW seen, After(s, del, ins, seen)
  PROVE  Faithful(w, seen)
<1> DEFINE k == <<t, r>>
<1>0. \A u \in Table : SchemaKey(u) \in Key /\ SchemaKey(u) # k
  BY TableKeys
<1>1. \A u \in Table : Has(w, u) <=> Has(v, u)
  BY <1>0 DEF Has, With
<1>2. SUFFICES ASSUME NEW u \in Table, NEW x \in Val
               PROVE  /\ Has(w, u) => Exact(u, x, w, seen[<<u, x>>])
                      /\ ~Has(w, u) => seen[<<u, x>>] = {}
  BY FaithfulExact
<1> DEFINE i == <<u, x>>
<1>3. i \in IndexKey /\ i[1] = u /\ i[2] = x
  BY DEF IndexKey
<1>4. /\ Has(v, u) => Exact(u, x, v, s[i])
      /\ ~Has(v, u) => s[i] = {}
  BY FaithfulExact
<1>5. PICK pos : \A p : p \in seen[i] <=> \/ p \in s[i] /\ p[2] \notin Of(del, i)
                                          \/ \E j \in Of(ins, i) : p = <<pos, j>>
  <2> HIDE DEF i
  <2>1. Added({p \in s[i] : p[2] \notin Of(del, i)}, Of(ins, i), seen[i])
    BY <1>3 DEF After
  <2>2. PICK pos : seen[i] = {p \in s[i] : p[2] \notin Of(del, i)}
                             \cup {<<pos, j>> : j \in Of(ins, i)}
    BY <2>1 DEF Added
  <2>3. \A p : p \in seen[i] <=> \/ p \in s[i] /\ p[2] \notin Of(del, i)
                                 \/ \E j \in Of(ins, i) : p = <<pos, j>>
    BY <2>2
  <2> QED
    BY <2>3
<1>6. \A j \in RowKeys(u) : j \in Key /\ j[1] = u
  BY TableKeys, SMT DEF RowKeys
<1>7. k \in Key /\ k \in RowKeys(t) /\ k[1] = t /\ w[k] = new
      /\ \A j \in Key : j # k => w[j] = v[j]
  BY TableKeys DEF RowKeys, With
<1>8. /\ ~Has(v, t) => Of(del, i) = {} /\ Of(ins, i) = {}
      /\ Has(v, t) =>
            /\ Of(del, i) \subseteq {k}
            /\ v[k] # None /\ i = <<t, v[k][1]>> => k \in Of(del, i)
            /\ Of(ins, i) = IF new # None /\ i = <<t, new[1]>> THEN {k} ELSE {}
            /\ i[1] # t => Of(del, i) = {}
  BY <1>3, OfNothing DEF PairsOf
<1> HIDE DEF k, i
<1>9. CASE ~Has(v, u)
  <2>1. Of(ins, i) = {}
    BY <1>3, <1>8, <1>9, SMT
  <2> QED
    BY <1>1, <1>4, <1>5, <1>9, <2>1 DEF i
<1>10. CASE Has(v, u) /\ u # t
  <2>1. Of(del, i) = {} /\ Of(ins, i) = {}
    BY <1>3, <1>8, <1>10, SMT
  <2>2. seen[i] = s[i]
    BY <1>5, <2>1
  <2>3. \A j \in RowKeys(u) : w[j] = v[j]
    BY <1>6, <1>7, <1>10
  <2> QED
    BY <1>1, <1>4, <1>10, <2>2, <2>3 DEF Exact, i
<1>11. CASE Has(v, u) /\ u = t
  <2>1. /\ Of(del, i) \subseteq {k}
        /\ v[k] # None /\ v[k][1] = x => k \in Of(del, i)
        /\ Of(ins, i) = IF new # None /\ new[1] = x THEN {k} ELSE {}
    BY <1>8, <1>11 DEF i
  <2>2. /\ \A p \in s[i] : p[2] \in RowKeys(t) /\ v[p[2]] # None /\ v[p[2]][1] = x
        /\ \A j \in RowKeys(t) : v[j] # None /\ v[j][1] = x => \E p \in s[i] : p[2] = j
        /\ \A p, q \in s[i] : p[2] = q[2] => p = q
    BY <1>4, <1>11 DEF Exact
  <2>3. \A p \in seen[i] : \/ p \in s[i] /\ p[2] # k
                           \/ p = <<pos, k>> /\ new # None /\ new[1] = x
    BY <1>5, <2>1, <2>2, SMT
  <2>4. \A p \in seen[i] : p[2] \in RowKeys(t) /\ w[p[2]] # None /\ w[p[2]][1] = x
    <3>1. <<pos, k>>[2] = k
      OBVIOUS
    <3> QED
      BY <1>6, <1>7, <1>11, <2>2, <2>3, <3>1, SMT
  <2>5. ASSUME NEW j \in RowKeys(t), w[j] # None, w[j][1] = x
        PROVE  \E p \in seen[i] : p[2] = j
    <3>1. CASE j = k
      <4>1. <<pos, k>> \in seen[i] /\ <<pos, k>>[2] = k
        BY <1>5, <1>7, <2>1, <2>5, <3>1
      <4> QED
        BY <3>1, <4>1
    <3>2. CASE j # k
      <4>1. PICK p \in s[i] : p[2] = j
        BY <1>6, <1>7, <1>11, <2>2, <2>5, <3>2
      <4>2. p \in seen[i]
        BY <1>5, <2>1, <3>2, <4>1
      <4> QED
        BY <4>1, <4>2
    <3> QED
      BY <3>1, <3>2
  <2>6. \A p, q \in seen[i] : p[2] = q[2] => p = q
    <3>1. <<pos, k>>[2] = k
      OBVIOUS
    <3> QED
      BY <2>2, <2>3, <3>1, SMT
  <2> QED
    BY <1>1, <1>11, <2>4, <2>5, <2>6 DEF Exact, i
<1> QED
  BY <1>9, <1>10, <1>11 DEF i
\* A write that changes no row's payload and no index definition.
LEMMA FaithfulSame ==
  ASSUME NEW v, NEW s, Faithful(v, s), NEW w,
         \A t \in Table : Has(w, t) <=> Has(v, t),
         \A t \in Table : \A k \in RowKeys(t) :
           /\ w[k] # None <=> v[k] # None
           /\ v[k] # None => w[k][1] = v[k][1],
         NEW seen, After(s, {}, {}, seen)
  PROVE  Faithful(w, seen)
<1>1. SUFFICES ASSUME NEW t \in Table, NEW x \in Val
               PROVE  /\ Has(w, t) => Exact(t, x, w, seen[<<t, x>>])
                      /\ ~Has(w, t) => seen[<<t, x>>] = {}
  BY FaithfulExact
<1>2. seen[<<t, x>>] = s[<<t, x>>]
  <2> DEFINE i == <<t, x>>
  <2>1. i \in IndexKey /\ Of({}, i) = {}
    BY DEF IndexKey, Of
  <2> HIDE DEF i
  <2>2. Added({p \in s[i] : p[2] \notin {}}, {}, seen[i])
    BY <2>1 DEF After
  <2>3. PICK pos : seen[i] = {p \in s[i] : p[2] \notin {}} \cup {<<pos, k>> : k \in {}}
    BY <2>2 DEF Added
  <2>4. seen[i] = s[i]
    BY <2>3
  <2> QED
    BY <2>4 DEF i
<1>3. /\ Has(v, t) => Exact(t, x, v, s[<<t, x>>])
      /\ ~Has(v, t) => s[<<t, x>>] = {}
  BY FaithfulExact
<1> QED
  BY <1>2, <1>3, ZenonT(60) DEF Exact

\* create_index: the table's definition gains the index, and every row an entry.
LEMMA FaithfulCreate ==
  ASSUME NEW v, NEW s, Faithful(v, s), NEW t \in Table, ~Has(v, t),
         NEW w, Has(w, t),
         \A j \in Key : j # SchemaKey(t) => w[j] = v[j],
         NEW ins,
         \A i \in IndexKey : Of(ins, i) =
           IF i[1] = t THEN {k \in RowKeys(t) : v[k] # None /\ v[k][1] = i[2]} ELSE {},
         NEW seen, After(s, {}, ins, seen)
  PROVE  Faithful(w, seen)
<1>1. SUFFICES ASSUME NEW u \in Table, NEW x \in Val
               PROVE  /\ Has(w, u) => Exact(u, x, w, seen[<<u, x>>])
                      /\ ~Has(w, u) => seen[<<u, x>>] = {}
  BY FaithfulExact
<1> DEFINE i == <<u, x>>
<1>2. i \in IndexKey /\ i[1] = u /\ i[2] = x /\ Of({}, i) = {}
  BY DEF IndexKey, Of
<1>3. /\ Has(v, u) => Exact(u, x, v, s[i])
      /\ ~Has(v, u) => s[i] = {}
  BY FaithfulExact
<1>4. \A j \in RowKeys(u) : w[j] = v[j]
  BY TableKeys DEF RowKeys
<1>5. u # t => (Has(w, u) <=> Has(v, u))
  BY TableKeys DEF Has, SchemaKey
<1> HIDE DEF i
<1>6. PICK pos : seen[i] = {p \in s[i] : p[2] \notin {}} \cup {<<pos, j>> : j \in Of(ins, i)}
  <2>1. Added({p \in s[i] : p[2] \notin {}}, Of(ins, i), seen[i])
    BY <1>2 DEF After
  <2> QED
    BY <2>1 DEF Added
<1>7. CASE u # t
  <2>1. Of(ins, i) = {}
    BY <1>2, <1>7
  <2>2. seen[i] = s[i]
    BY <1>6, <2>1
  <2> QED
    BY <1>3, <1>4, <1>5, <1>7, <2>2 DEF Exact, i
<1>8. CASE u = t
  <2>1. Of(ins, i) = {k \in RowKeys(t) : v[k] # None /\ v[k][1] = x}
    BY <1>2, <1>8
  <2>2. s[i] = {}
    BY <1>3, <1>8
  <2>3. \A p : p \in seen[i] <=> \E j \in Of(ins, i) : p = <<pos, j>>
    BY <1>6, <2>2
  <2>4. \A p \in seen[i] : p[2] \in Of(ins, i) /\ p = <<pos, p[2]>>
    BY <2>3, SMT
  <2>5. \A j \in Of(ins, i) : <<pos, j>> \in seen[i] /\ <<pos, j>>[2] = j
    BY <2>3
  <2>6. Exact(t, x, w, seen[i])
    <3>1. \A p \in seen[i] : p[2] \in RowKeys(t) /\ w[p[2]] # None /\ w[p[2]][1] = x
      BY <1>4, <1>8, <2>1, <2>4
    <3>2. \A k \in RowKeys(t) : w[k] # None /\ w[k][1] = x => \E p \in seen[i] : p[2] = k
      BY <1>4, <1>8, <2>1, <2>5
    <3>3. \A p, q \in seen[i] : p[2] = q[2] => p = q
      BY <2>4
    <3> QED
      BY <3>1, <3>2, <3>3 DEF Exact
  <2> QED
    BY <1>8, <2>6 DEF i
<1> QED
  BY <1>7, <1>8

\* drop_index: the table's definition loses the index, and every row its entry.
LEMMA FaithfulDrop ==
  ASSUME NEW v, NEW s, Faithful(v, s), NEW t \in Table, Has(v, t),
         NEW w, ~Has(w, t),
         \A j \in Key : j # SchemaKey(t) => w[j] = v[j],
         NEW del,
         \A i \in IndexKey : Of(del, i) =
           IF i[1] = t THEN {k \in RowKeys(t) : v[k] # None /\ v[k][1] = i[2]} ELSE {},
         NEW seen, After(s, del, {}, seen)
  PROVE  Faithful(w, seen)
<1>1. SUFFICES ASSUME NEW u \in Table, NEW x \in Val
               PROVE  /\ Has(w, u) => Exact(u, x, w, seen[<<u, x>>])
                      /\ ~Has(w, u) => seen[<<u, x>>] = {}
  BY FaithfulExact
<1> DEFINE i == <<u, x>>
<1>2. i \in IndexKey /\ i[1] = u /\ i[2] = x /\ Of({}, i) = {}
  BY DEF IndexKey, Of
<1>3. /\ Has(v, u) => Exact(u, x, v, s[i])
      /\ ~Has(v, u) => s[i] = {}
  BY FaithfulExact
<1>4. \A j \in RowKeys(u) : w[j] = v[j]
  BY TableKeys DEF RowKeys
<1>5. u # t => (Has(w, u) <=> Has(v, u))
  BY TableKeys DEF Has, SchemaKey
<1> HIDE DEF i
<1>6. seen[i] = {p \in s[i] : p[2] \notin Of(del, i)}
  <2>1. Added({p \in s[i] : p[2] \notin Of(del, i)}, {}, seen[i])
    BY <1>2 DEF After
  <2>2. PICK pos : seen[i] = {p \in s[i] : p[2] \notin Of(del, i)}
                             \cup {<<pos, j>> : j \in {}}
    BY <2>1 DEF Added
  <2> QED
    BY <2>2
<1>7. CASE u # t
  <2>1. Of(del, i) = {}
    BY <1>2, <1>7
  <2>2. seen[i] = s[i]
    BY <1>6, <2>1
  <2> QED
    BY <1>3, <1>4, <1>5, <1>7, <2>2 DEF Exact, i
<1>8. CASE u = t
  <2>1. Of(del, i) = {k \in RowKeys(t) : v[k] # None /\ v[k][1] = x}
    BY <1>2, <1>8
  <2>2. \A p \in s[i] : p[2] \in Of(del, i)
    BY <1>3, <1>8, <2>1 DEF Exact
  <2>3. seen[i] = {}
    BY <1>6, <2>2
  <2> QED
    BY <1>8, <2>3 DEF i
<1> QED
  BY <1>7, <1>8
=============================================================================
