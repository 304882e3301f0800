--------------------------- MODULE SnapshotProofs ---------------------------
(***************************************************************************)
(* Lemmas about the operators of Snapshot, for every value of Datum: they  *)
(* keep a snapshot well formed, whose marks they add or remove, and what a *)
(* reader finds afterwards.                                                *)
(***************************************************************************)
EXTENDS Snapshot, WellFoundedInduction, TLAPS

\* A non-empty set of naturals below a bound has a largest element.
LEMMA LargestExists ==
  ASSUME NEW T \in SUBSET Nat, T # {}, NEW n \in Nat, \A x \in T : x <= n
  PROVE  \E x \in T : \A y \in T : y <= x
<1> DEFINE R == OpToRel(<, Nat)
           U == {m \in Nat : \E x \in T : m = n - x}
<1>1. U # {} /\ U \subseteq Nat
  <2>1. PICK x \in T : TRUE
    OBVIOUS
  <2>2. n - x \in U
    BY <2>1
  <2> QED
    BY <2>2
<1>2. IsWellFoundedOn(R, Nat)
  BY NatLessThanWellFounded
<1> HIDE DEF R, U
<1>3. PICK m \in U : \A y \in U : ~(<<y, m>> \in R)
  BY <1>1, <1>2, WFMin
<1>4. \A y \in U : ~(y < m)
  BY <1>1, <1>3 DEF R, OpToRel
<1>5. PICK x \in T : m = n - x
  BY DEF U
<1>6. \A y \in T : n - y \in U
  BY DEF U
<1> QED
  BY <1>4, <1>5, <1>6

\* A non-empty well-formed snapshot has a front item.
LEMMA FrontIsNewest ==
  ASSUME NEW s, WellFormed(s), s # {}
  PROVE  /\ Front(s) \in s
         /\ \A j \in s : j.at <= Front(s).at
BY DEF Front, WellFormed

\* It is enough that the positions are bounded.
LEMMA BoundedWellFormed ==
  ASSUME NEW s \in SUBSET SnapshotItem,
         NEW n \in Nat, \A i \in s : i.at <= n,
         \A i, j \in s : i.at = j.at => i = j
  PROVE  WellFormed(s)
<1> DEFINE T == {i.at : i \in s}
<1>1. T \in SUBSET Nat /\ \A x \in T : x <= n
  BY DEF SnapshotItem
<1> HIDE DEF T
<1>2. T # {} => \E x \in T : \A y \in T : y <= x
  BY <1>1, LargestExists
<1>3. s # {} => \E i \in s : \A j \in s : j.at <= i.at
  BY <1>2 DEF T
<1> QED
  BY <1>3 DEF WellFormed

LEMMA SubsetWellFormed ==
  ASSUME NEW s, WellFormed(s), NEW v \in SUBSET s
  PROVE  WellFormed(v)
<1>1. CASE s = {}
  BY <1>1
<1>2. CASE s # {}
  <2>1. Front(s).at \in Nat /\ \A i \in s : i.at <= Front(s).at
    BY <1>2, FrontIsNewest DEF WellFormed, SnapshotItem
  <2>2. v \in SUBSET SnapshotItem /\ \A i, j \in v : i.at = j.at => i = j
    BY DEF WellFormed
  <2> QED
    BY <2>1, <2>2, BoundedWellFormed
<1> QED
  BY <1>1, <1>2
-----------------------------------------------------------------------------
(* The operations keep snapshots well formed. *)

LEMMA NewSnapshotWellFormed ==
  ASSUME NEW t \in Txid, NEW d \in Datum
  PROVE  WellFormed(NewSnapshot(t, d))
BY DEF WellFormed, NewSnapshot, NewItem, SnapshotItem, Txid

LEMMA MarkDeletedItem ==
  ASSUME NEW i \in SnapshotItem, NEW t \in Txid \cup {None}
  PROVE  /\ MarkDeleted(i, t) \in SnapshotItem
         /\ MarkDeleted(i, t).at = i.at
         /\ MarkDeleted(i, t).data = i.data
         /\ MarkDeleted(i, t).created_by = i.created_by
         /\ MarkDeleted(i, t).deleted_by = t
BY DEF MarkDeleted, SnapshotItem

LEMMA DeleteWellFormed ==
  ASSUME NEW s, WellFormed(s), NEW t \in Txid
  PROVE  WellFormed(Delete(s, t))
<1>1. CASE s = {}
  BY <1>1 DEF Delete
<1>2. CASE s # {}
  <2> DEFINE f == Front(s)
             g == MarkDeleted(f, t)
  <2>1. f \in s /\ f \in SnapshotItem
    BY <1>2, FrontIsNewest DEF WellFormed
  <2>2. g \in SnapshotItem /\ g.at = f.at
    BY <2>1, MarkDeletedItem
  <2>3. Delete(s, t) = (s \ {f}) \cup {g}
    BY <1>2 DEF Delete, Rest
  <2> HIDE DEF f, g
  <2> QED
    BY <2>1, <2>2, <2>3 DEF WellFormed
<1> QED
  BY <1>1, <1>2

LEMMA UpdateWellFormed ==
  ASSUME NEW s, WellFormed(s), NEW t \in Txid, NEW d \in Datum
  PROVE  WellFormed(Update(s, t, d))
<1>1. CASE s = {}
  BY <1>1, NewSnapshotWellFormed DEF Update
<1>2. CASE s # {}
  <2> DEFINE f == Front(s)
             g == IF f.deleted_by = None THEN MarkDeleted(f, t) ELSE f
             h == NewItem(f.at + 1, t, d)
  <2>1. f \in s /\ f \in SnapshotItem /\ \A j \in s : j.at <= f.at
    BY <1>2, FrontIsNewest DEF WellFormed
  <2>2. g \in SnapshotItem /\ g.at = f.at
    BY <2>1, MarkDeletedItem
  <2>3. h \in SnapshotItem /\ h.at = f.at + 1
    BY <2>1 DEF NewItem, SnapshotItem, Txid
  <2>4. Update(s, t, d) = (s \ {f}) \cup {g, h}
    BY <1>2 DEF Update, Rest
  <2>5. s \subseteq SnapshotItem /\ \A i, j \in s : i.at = j.at => i = j
    BY DEF WellFormed
  <2>6. f.at \in Nat /\ \A i \in s : i.at \in Nat
    BY <2>1, <2>5 DEF SnapshotItem
  <2> HIDE DEF f, g, h
  <2>7. Update(s, t, d) \subseteq SnapshotItem
    BY <2>2, <2>3, <2>4, <2>5
  <2>8. \A i \in Update(s, t, d) : i.at <= f.at + 1
    BY <2>1, <2>2, <2>3, <2>4, <2>6
  <2>9. \A i, j \in Update(s, t, d) : i.at = j.at => i = j
    BY <2>1, <2>2, <2>3, <2>4, <2>5, <2>6
  <2> QED
    BY <2>6, <2>7, <2>8, <2>9, BoundedWellFormed
<1> QED
  BY <1>1, <1>2

LEMMA RollbackWellFormed ==
  ASSUME NEW s, WellFormed(s), NEW t \in Txid
  PROVE  WellFormed(Rollback(s, t))
<1> DEFINE F(i) == IF i.deleted_by = t THEN MarkDeleted(i, None) ELSE i
           v == {j \in s : j.created_by # t}
<1>1. WellFormed(v)
  BY SubsetWellFormed
<1>2. \A i \in v : F(i) \in SnapshotItem /\ F(i).at = i.at
  BY MarkDeletedItem DEF WellFormed
<1>3. Rollback(s, t) = {F(i) : i \in v}
  BY DEF Rollback
<1> HIDE DEF F, v
<1> QED
  BY <1>1, <1>2, <1>3 DEF WellFormed

LEMMA GcWellFormed ==
  ASSUME NEW s, WellFormed(s), NEW t
  PROVE  Gc(s, t) \subseteq s /\ WellFormed(Gc(s, t))
BY SubsetWellFormed DEF Gc
-----------------------------------------------------------------------------
(* Marks: an operation of one transaction adds no mark of another. *)

LEMMA NewSnapshotMarks ==
  ASSUME NEW t \in Txid, NEW d, NEW u \in Txid, HasMark(NewSnapshot(t, d), u)
  PROVE  u = t
BY NoneNotNat DEF HasMark, NewSnapshot, NewItem, Txid

LEMMA DeleteMarks ==
  ASSUME NEW s, WellFormed(s), NEW t \in Txid, NEW u \in Txid,
         HasMark(Delete(s, t), u), u # t
  PROVE  HasMark(s, u)
<1>1. CASE s = {}
  BY <1>1 DEF Delete
<1>2. CASE s # {}
  <2> DEFINE f == Front(s)
             g == MarkDeleted(f, t)
  <2>1. f \in s /\ f \in SnapshotItem
    BY <1>2, FrontIsNewest DEF WellFormed
  <2>2. g.created_by = f.created_by /\ g.deleted_by = t
    BY <2>1, MarkDeletedItem
  <2>3. Delete(s, t) = (s \ {f}) \cup {g}
    BY <1>2 DEF Delete, Rest
  <2> HIDE DEF f, g
  <2> QED
    BY <2>1, <2>2, <2>3 DEF HasMark
<1> QED
  BY <1>1, <1>2

LEMMA UpdateMarks ==
  ASSUME NEW s, WellFormed(s), NEW t \in Txid, NEW d, NEW u \in Txid,
         HasMark(Update(s, t, d), u), u # t
  PROVE  HasMark(s, u)
<1>1. CASE s = {}
  BY <1>1, NewSnapshotMarks DEF Update
<1>2. CASE s # {}
  <2> DEFINE f == Front(s)
             g == IF f.deleted_by = None THEN MarkDeleted(f, t) ELSE f
             h == NewItem(f.at + 1, t, d)
  <2>1. f \in s /\ f \in SnapshotItem
    BY <1>2, FrontIsNewest DEF WellFormed
  <2>2. g.created_by = f.created_by /\ (g.deleted_by = t \/ g = f)
    BY <2>1, MarkDeletedItem
  <2>3. h.created_by = t /\ h.deleted_by = None
    BY DEF NewItem
  <2>4. Update(s, t, d) = (s \ {f}) \cup {g, h}
    BY <1>2 DEF Update, Rest
  <2>5. u # None
    BY NoneNotNat DEF Txid
  <2> HIDE DEF f, g, h
  <2> QED
    BY <2>1, <2>2, <2>3, <2>4, <2>5 DEF HasMark
<1> QED
  BY <1>1, <1>2

\* Rollback of a transaction removes all its marks and adds none.
LEMMA RollbackMarks ==
  ASSUME NEW s, WellFormed(s), NEW t \in Txid, NEW u \in Txid,
         HasMark(Rollback(s, t), u)
  PROVE  u # t /\ HasMark(s, u)
<1> DEFINE F(i) == IF i.deleted_by = t THEN MarkDeleted(i, None) ELSE i
<1>1. \A i \in s : /\ F(i).created_by = i.created_by
                   /\ F(i).deleted_by # t
                   /\ F(i).deleted_by \in {None, i.deleted_by}
  <2> SUFFICES ASSUME NEW i \in s
               PROVE  /\ F(i).created_by = i.created_by
                      /\ F(i).deleted_by # t
                      /\ F(i).deleted_by \in {None, i.deleted_by}
    OBVIOUS
  <2>1. i \in SnapshotItem /\ t # None
    BY NoneNotNat DEF WellFormed, Txid
  <2>2. CASE i.deleted_by = t
    BY <2>1, <2>2, MarkDeletedItem
  <2>3. CASE i.deleted_by # t
    BY <2>3
  <2> QED
    BY <2>2, <2>3
<1>2. Rollback(s, t) = {F(i) : i \in {j \in s : j.created_by # t}}
  BY DEF Rollback
<1>3. u # None
  BY NoneNotNat DEF Txid
<1> HIDE DEF F
<1> QED
  BY <1>1, <1>2, <1>3 DEF HasMark

LEMMA GcMarks ==
  ASSUME NEW s, NEW t, NEW u, HasMark(Gc(s, t), u)
  PROVE  HasMark(s, u)
BY DEF HasMark, Gc

\* Rollback of a transaction that left no mark changes nothing.
LEMMA RollbackOfNothing ==
  ASSUME NEW s, NEW t, ~HasMark(s, t)
  PROVE  Rollback(s, t) = s
BY DEF HasMark, Rollback
-----------------------------------------------------------------------------
(* Reads *)

LEMMA GetType ==
  ASSUME NEW s, WellFormed(s), NEW t, NEW l
  PROVE  Get(s, t, l) \in Datum \cup {None}
<1> DEFINE v == VisibleItems(s, t, l)
<1>1. v \subseteq s /\ WellFormed(v)
  BY SubsetWellFormed DEF VisibleItems
<1> HIDE DEF v
<1>2. v # {} => Front(v) \in SnapshotItem
  BY <1>1, FrontIsNewest DEF WellFormed
<1> QED
  BY <1>2 DEF Get, v, SnapshotItem

\* A front item is determined by its position.
LEMMA FrontUnique ==
  ASSUME NEW s, WellFormed(s), NEW i \in s, \A j \in s : j.at <= i.at
  PROVE  Front(s) = i
<1>1. Front(s) \in s /\ \A j \in s : j.at <= Front(s).at
  BY FrontIsNewest
<1>2. i.at \in Nat /\ Front(s).at \in Nat
  BY <1>1 DEF WellFormed, SnapshotItem
<1> QED
  BY <1>1, <1>2 DEF WellFormed

\* While u holds the lock, every other transaction reads what it would read
\* if u were rolled back.
LEMMA LockHidesHolder ==
  ASSUME NEW s, WellFormed(s), NEW t \in Txid, NEW u \in Txid, t # u
  PROVE  Get(s, t, u) = Get(Rollback(s, u), t, u)
<1> DEFINE F(i) == IF i.deleted_by = u THEN MarkDeleted(i, None) ELSE i
           r == Rollback(s, u)
           v == VisibleItems(s, t, u)
           w == VisibleItems(r, t, u)
<1>0. u # None /\ s \subseteq SnapshotItem
  BY NoneNotNat DEF Txid, WellFormed
<1>1. \A i \in s : /\ F(i).at = i.at /\ F(i).data = i.data
                   /\ F(i).created_by = i.created_by
  BY <1>0, MarkDeletedItem
<1>2. \A i \in s : F(i).deleted_by = IF i.deleted_by = u THEN None
                                     ELSE i.deleted_by
  <2> SUFFICES ASSUME NEW i \in s
               PROVE  F(i).deleted_by = IF i.deleted_by = u THEN None
                                        ELSE i.deleted_by
    OBVIOUS
  <2>1. i \in SnapshotItem
    BY <1>0
  <2>2. CASE i.deleted_by = u
    BY <2>1, <2>2, MarkDeletedItem
  <2>3. CASE i.deleted_by # u
    BY <2>3
  <2> QED
    BY <2>2, <2>3
<1>3. r = {F(i) : i \in {j \in s : j.created_by # u}}
  BY DEF Rollback
<1>4. v \subseteq s /\ WellFormed(v) /\ WellFormed(r)
  BY SubsetWellFormed, RollbackWellFormed DEF VisibleItems
<1>5. w \subseteq r /\ WellFormed(w)
  BY <1>4, SubsetWellFormed DEF VisibleItems
<1>6. \A i \in s : Visible(i, t, u) <=> i.created_by # u /\ Visible(F(i), t, u)
  <2> HIDE DEF F
  <2> QED
    BY <1>0, <1>1, <1>2 DEF Visible
<1> HIDE DEF F, r
<1>7. w = {F(i) : i \in v}
  BY <1>3, <1>6 DEF VisibleItems
<1> HIDE DEF v, w
<1>8. CASE v = {}
  BY <1>7, <1>8 DEF Get, v, w, r
<1>9. CASE v # {}
  <2>1. Front(v) \in v /\ \A j \in v : j.at <= Front(v).at
    BY <1>4, <1>9, FrontIsNewest
  <2>2. F(Front(v)) \in w /\ \A j \in w : j.at <= F(Front(v)).at
    BY <1>1, <1>4, <1>7, <2>1
  <2>3. Front(w) = F(Front(v))
    BY <1>5, <2>2, FrontUnique
  <2>4. Front(w).data = Front(v).data
    BY <1>1, <1>4, <2>1, <2>3
  <2>5. w # {}
    BY <2>2
  <2> QED
    BY <1>9, <2>4, <2>5 DEF Get, v, w, r
<1> QED
  BY <1>8, <1>9

-----------------------------------------------------------------------------
(* What readers find after rollback, writes and gc *)

Undo(i, u) == IF i.deleted_by = u THEN MarkDeleted(i, None) ELSE i

LEMMA UndoItem ==
  ASSUME NEW i \in SnapshotItem, NEW u
  PROVE  /\ Undo(i, u) \in SnapshotItem
         /\ Undo(i, u).at = i.at /\ Undo(i, u).data = i.data
         /\ Undo(i, u).created_by = i.created_by
         /\ Undo(i, u).deleted_by = IF i.deleted_by = u THEN None
                                    ELSE i.deleted_by
         /\ i.deleted_by # u => Undo(i, u) = i
<1>1. CASE i.deleted_by = u
  BY <1>1, MarkDeletedItem DEF Undo
<1>2. CASE i.deleted_by # u
  BY <1>2 DEF Undo
<1> QED
  BY <1>1, <1>2

LEMMA RollbackIsUndo ==
  ASSUME NEW s, NEW u
  PROVE  Rollback(s, u) = {Undo(i, u) : i \in {j \in s : j.created_by # u}}
BY DEF Rollback, Undo

LEMMA SameItem ==
  ASSUME NEW i \in SnapshotItem, NEW j \in SnapshotItem,
         i.at = j.at, i.data = j.data, i.created_by = j.created_by,
         i.deleted_by = j.deleted_by
  PROVE  i = j
BY DEF SnapshotItem

\* Without a lock holder nothing is undone.
LEMMA RollbackNone ==
  ASSUME NEW s, s \subseteq SnapshotItem
  PROVE  Rollback(s, None) = s
<1>1. \A i \in s : Undo(i, None) = i /\ i.created_by # None
  <2> SUFFICES ASSUME NEW i \in s PROVE Undo(i, None) = i /\ i.created_by # None
    OBVIOUS
  <2>1. i \in SnapshotItem
    OBVIOUS
  <2>2. i.created_by # None
    BY <2>1, NoneNotNat DEF SnapshotItem, Txid
  <2>3. Undo(i, None) = i
    BY <2>1, UndoItem, SameItem
  <2> QED
    BY <2>2, <2>3
<1> QED
  BY <1>1, RollbackIsUndo

\* The lock holder is invisible only through its marks.
LEMMA NoMarkGet ==
  ASSUME NEW s, s \subseteq SnapshotItem, NEW u \in Txid, NEW t \in Txid,
         ~HasMark(s, u)
  PROVE  Get(s, t, u) = Get(s, t, None)
<1>1. \A i \in s : i.created_by # u /\ i.deleted_by # u
  BY DEF HasMark
<1>2. \A i \in s : Visible(i, t, u) <=> Visible(i, t, None)
  <2> SUFFICES ASSUME NEW i \in s PROVE Visible(i, t, u) <=> Visible(i, t, None)
    OBVIOUS
  <2>1. i.created_by \notin {u, None} /\ i.deleted_by # u
    BY <1>1, NoneNotNat DEF SnapshotItem, Txid
  <2> QED
    BY <2>1 DEF Visible
<1>3. VisibleItems(s, t, u) = VisibleItems(s, t, None)
  BY <1>2 DEF VisibleItems
<1> QED
  BY <1>3 DEF Get

\* Everyone but the holder reads what a rollback of the holder would leave.
LEMMA HiddenGet ==
  ASSUME NEW s, WellFormed(s), NEW t \in Txid, NEW u \in Txid \cup {None}, t # u
  PROVE  Get(s, t, u) = Get(Rollback(s, u), t, None)
<1>1. CASE u = None
  BY <1>1, RollbackNone DEF WellFormed
<1>2. CASE u \in Txid
  <2>1. WellFormed(Rollback(s, u)) /\ ~HasMark(Rollback(s, u), u)
    BY <1>2, RollbackWellFormed, RollbackMarks
  <2> QED
    BY <1>2, <2>1, LockHidesHolder, NoMarkGet DEF WellFormed
<1> QED
  BY <1>1, <1>2

\* The holder itself reads without hiding anything.
LEMMA OwnGet ==
  ASSUME NEW s, NEW t
  PROVE  Get(s, t, t) = Get(s, t, None)
BY DEF Get, VisibleItems, Visible

\* Rollback takes back an update.
LEMMA RollbackUpdate ==
  ASSUME NEW s, WellFormed(s), NEW u \in Txid, NEW d \in Datum
  PROVE  Rollback(Update(s, u, d), u) = Rollback(s, u)
<1>1. CASE s = {}
  <2>1. Update(s, u, d) = {NewItem(1, u, d)} /\ NewItem(1, u, d).created_by = u
    BY <1>1 DEF Update, NewSnapshot, NewItem
  <2> QED
    BY <1>1, <2>1 DEF Rollback
<1>2. CASE s # {}
  <2> DEFINE f == Front(s)
             g == IF f.deleted_by = None THEN MarkDeleted(f, u) ELSE f
             h == NewItem(f.at + 1, u, d)
  <2>1. f \in s /\ f \in SnapshotItem /\ u # None
    BY <1>2, FrontIsNewest, NoneNotNat DEF WellFormed, Txid
  <2>2. g \in SnapshotItem /\ g.created_by = f.created_by
    BY <2>1, MarkDeletedItem
  <2>3. h.created_by = u
    BY DEF NewItem
  <2>4. Update(s, u, d) = (s \ {f}) \cup {g, h}
    BY <1>2 DEF Update, Rest
  <2>5. Undo(g, u) = Undo(f, u)
    <3>1. CASE f.deleted_by = None
      <4>1. /\ g.at = f.at /\ g.data = f.data
            /\ g.created_by = f.created_by /\ g.deleted_by = u
        BY <2>1, <3>1, MarkDeletedItem
      <4> HIDE DEF f, g
      <4>2. Undo(g, u) \in SnapshotItem /\ Undo(f, u) = f
        BY <2>1, <2>2, <3>1, UndoItem
      <4>3. Undo(g, u).at = f.at /\ Undo(g, u).data = f.data
            /\ Undo(g, u).created_by = f.created_by
            /\ Undo(g, u).deleted_by = f.deleted_by
        BY <2>2, <3>1, <4>1, UndoItem
      <4> QED
        BY <2>1, <4>2, <4>3, SameItem
    <3>2. CASE f.deleted_by # None
      BY <3>2
    <3> QED
      BY <3>1, <3>2
  <2> HIDE DEF f, g, h
  <2>6. {j \in Update(s, u, d) : j.created_by # u}
          = IF f.created_by = u THEN {j \in s : j.created_by # u}
            ELSE ({j \in s : j.created_by # u} \ {f}) \cup {g}
    BY <2>1, <2>2, <2>3, <2>4
  <2> QED
    BY <2>1, <2>5, <2>6, RollbackIsUndo
<1> QED
  BY <1>1, <1>2

\* Rollback takes back a deletion of a version that was not deleted before.
LEMMA RollbackDelete ==
  ASSUME NEW s, WellFormed(s), s # {}, NEW u \in Txid,
         Front(s).deleted_by = None
  PROVE  Rollback(Delete(s, u), u) = Rollback(s, u)
<1> DEFINE f == Front(s)
           g == MarkDeleted(f, u)
<1>1. f \in s /\ f \in SnapshotItem /\ u # None
  BY FrontIsNewest, NoneNotNat DEF WellFormed, Txid
<1>2. /\ g \in SnapshotItem /\ g.created_by = f.created_by
      /\ g.at = f.at /\ g.data = f.data /\ g.deleted_by = u
  BY <1>1, MarkDeletedItem
<1>3. Delete(s, u) = (s \ {f}) \cup {g} /\ f.deleted_by = None
  BY DEF Delete, Rest
<1> HIDE DEF f, g
<1>4. Undo(g, u) = f /\ Undo(f, u) = f
  BY <1>1, <1>2, <1>3, UndoItem, SameItem
<1>5. {j \in Delete(s, u) : j.created_by # u}
        = IF f.created_by = u THEN {j \in s : j.created_by # u}
          ELSE ({j \in s : j.created_by # u} \ {f}) \cup {g}
  BY <1>1, <1>2, <1>3
<1> QED
  BY <1>1, <1>4, <1>5, RollbackIsUndo
-----------------------------------------------------------------------------
(* Snapshots in which at most the front version is live *)

Live(s) == \E i \in s : i.deleted_by = None

\* A reader above all marks reads the front version if it is live.
LEMMA LiveGet ==
  ASSUME NEW s, WellFormed(s), OnlyFrontLive(s), NEW n \in Txid,
         \A u \in Txid : HasMark(s, u) => u <= n
  PROVE  /\ Live(s) => /\ s # {} /\ Front(s).deleted_by = None
                       /\ Get(s, n, None) = Front(s).data
         /\ ~Live(s) => Get(s, n, None) = None
<1>1. \A i \in s : Visible(i, n, None) <=> i.deleted_by = None
  <2> SUFFICES ASSUME NEW i \in s
               PROVE  Visible(i, n, None) <=> i.deleted_by = None
    OBVIOUS
  <2>1. i \in SnapshotItem
    BY DEF WellFormed
  <2>2. /\ i.created_by \in Txid /\ i.created_by # None
        /\ i.deleted_by \in Txid \cup {None}
    BY <2>1, NoneNotNat DEF SnapshotItem, Txid
  <2>3. n >= i.created_by
    BY <2>2 DEF HasMark, Txid
  <2>4. i.deleted_by # None => n >= i.deleted_by
    BY <2>2 DEF HasMark, Txid
  <2> QED
    BY <2>2, <2>3, <2>4 DEF Visible
<1> DEFINE v == VisibleItems(s, n, None)
<1>2. v = {i \in s : i.deleted_by = None}
  BY <1>1 DEF VisibleItems
<1> HIDE DEF v
<1>3. ASSUME Live(s)
      PROVE  /\ s # {} /\ Front(s).deleted_by = None
             /\ Get(s, n, None) = Front(s).data
  <2>1. PICK i \in s : i.deleted_by = None
    BY <1>3 DEF Live
  <2>2. \A j \in s : j.at <= i.at
    BY <2>1 DEF OnlyFrontLive
  <2>3. Front(s) = i
    BY <2>2, FrontUnique
  <2>4. WellFormed(v) /\ i \in v /\ \A j \in v : j.at <= i.at
    BY <1>2, <2>1, <2>2, SubsetWellFormed
  <2>5. Front(v) = i
    BY <2>4, FrontUnique
  <2> QED
    BY <2>1, <2>3, <2>4, <2>5 DEF Get, v
<1>4. ~Live(s) => v = {}
  BY <1>2 DEF Live
<1> QED
  BY <1>3, <1>4 DEF Get, v

LEMMA SubsetLive ==
  ASSUME NEW s, OnlyFrontLive(s), NEW v \in SUBSET s
  PROVE  OnlyFrontLive(v)
BY DEF OnlyFrontLive

LEMMA UpdateLive ==
  ASSUME NEW s, WellFormed(s), OnlyFrontLive(s), NEW u \in Txid, NEW d \in Datum
  PROVE  /\ OnlyFrontLive(Update(s, u, d)) /\ Live(Update(s, u, d))
         /\ Front(Update(s, u, d)).data = d
<1> DEFINE w == Update(s, u, d)
<1>0. WellFormed(w)
  BY UpdateWellFormed
<1>1. CASE s = {}
  <2> DEFINE h == NewItem(1, u, d)
  <2>1. w = {h} /\ h.at = 1 /\ h.data = d /\ h.deleted_by = None
    BY <1>1 DEF Update, NewSnapshot, NewItem
  <2> HIDE DEF w, h
  <2>2. Front(w) = h
    BY <1>0, <2>1, FrontUnique
  <2> QED
    BY <2>1, <2>2 DEF OnlyFrontLive, Live, w
<1>2. CASE s # {}
  <2> DEFINE f == Front(s)
             g == IF f.deleted_by = None THEN MarkDeleted(f, u) ELSE f
             h == NewItem(f.at + 1, u, d)
  <2>1. f \in s /\ f \in SnapshotItem /\ u # None /\ \A j \in s : j.at <= f.at
    BY <1>2, FrontIsNewest, NoneNotNat DEF WellFormed, Txid
  <2>2. g.at = f.at /\ g.deleted_by # None
    BY <2>1, MarkDeletedItem
  <2>3. h.at = f.at + 1 /\ h.data = d /\ h.deleted_by = None
    BY DEF NewItem
  <2>4. w = (s \ {f}) \cup {g, h}
    BY <1>2 DEF Update, Rest
  <2>5. f.at \in Nat /\ \A i \in s : i.at \in Nat
    BY <2>1 DEF WellFormed, SnapshotItem
  <2>6. \A i, j \in s : i.at = j.at => i = j
    BY DEF WellFormed
  <2> HIDE DEF f, g, h, w
  <2>7. h \in w /\ \A j \in w : j.at <= h.at
    BY <2>1, <2>2, <2>3, <2>4, <2>5
  <2>8. Front(w) = h
    BY <1>0, <2>7, FrontUnique
  <2>9. \A i \in s \ {f} : i.deleted_by # None
    BY <2>1, <2>5, <2>6 DEF OnlyFrontLive
  <2> QED
    BY <2>2, <2>3, <2>4, <2>7, <2>8, <2>9 DEF OnlyFrontLive, Live, w
<1> QED
  BY <1>1, <1>2

LEMMA DeleteLive ==
  ASSUME NEW s, WellFormed(s), OnlyFrontLive(s), NEW u \in Txid
  PROVE  OnlyFrontLive(Delete(s, u)) /\ ~Live(Delete(s, u))
<1>1. CASE s = {}
  BY <1>1 DEF Delete, OnlyFrontLive, Live
<1>2. CASE s # {}
  <2> DEFINE f == Front(s)
             g == MarkDeleted(f, u)
  <2>1. f \in s /\ f \in SnapshotItem /\ u # None /\ \A j \in s : j.at <= f.at
    BY <1>2, FrontIsNewest, NoneNotNat DEF WellFormed, Txid
  <2>2. g.deleted_by # None
    BY <2>1, MarkDeletedItem
  <2>3. Delete(s, u) = (s \ {f}) \cup {g}
    BY <1>2 DEF Delete, Rest
  <2>4. f.at \in Nat /\ \A i \in s : i.at \in Nat
    BY <2>1 DEF WellFormed, SnapshotItem
  <2>5. \A i, j \in s : i.at = j.at => i = j
    BY DEF WellFormed
  <2> HIDE DEF f, g
  <2>6. \A i \in s \ {f} : i.deleted_by # None
    BY <2>1, <2>4, <2>5 DEF OnlyFrontLive
  <2> QED
    BY <2>2, <2>3, <2>6 DEF OnlyFrontLive, Live
<1> QED
  BY <1>1, <1>2

-----------------------------------------------------------------------------
(* Garbage collection of transactions older than a reader *)

LEMMA GcGet ==
  ASSUME NEW s, s \subseteq SnapshotItem, NEW g \in Nat, NEW t \in Txid, g < t,
         NEW l \in Txid \cup {None}, l = None \/ l = t \/ g < l
  PROVE  Get(Gc(s, g), t, l) = Get(s, t, l)
<1>1. \A i \in s : Visible(i, t, l) => i \in Gc(s, g)
  <2> SUFFICES ASSUME NEW i \in s, Visible(i, t, l) PROVE i \in Gc(s, g)
    OBVIOUS
  <2>1. i.at \in Nat /\ i.deleted_by \in Nat \cup {None}
    BY DEF SnapshotItem, Txid
  <2>2. ~Collectable(i, g)
    BY <2>1, NoneNotNat DEF Visible, Collectable, Txid
  <2> QED
    BY <2>1, <2>2 DEF Gc
<1>2. VisibleItems(Gc(s, g), t, l) = VisibleItems(s, t, l)
  BY <1>1 DEF VisibleItems, Gc
<1> QED
  BY <1>2 DEF Get

LEMMA GcLive ==
  ASSUME NEW s, OnlyFrontLive(s), NEW g
  PROVE  OnlyFrontLive(Gc(s, g)) /\ (Live(s) => Gc(s, g) = s)
<1>1. Gc(s, g) \in SUBSET s
  BY DEF Gc
<1>2. ASSUME Live(s) PROVE Gc(s, g) = s
  <2>1. PICK i \in s : i.deleted_by = None /\ \A j \in s : j.at <= i.at
    BY <1>2 DEF Live, OnlyFrontLive
  <2>2. ~Collectable(i, g)
    BY <2>1 DEF Collectable
  <2>3. \A j \in s : i.at >= j.at
    BY <2>1
  <2> QED
    BY <2>2, <2>3 DEF Gc
<1> QED
  BY <1>1, <1>2, SubsetLive

LEMMA RollbackSubset ==
  ASSUME NEW s, NEW v \in SUBSET s, NEW u
  PROVE  Rollback(v, u) \in SUBSET Rollback(s, u)
BY RollbackIsUndo
=============================================================================
