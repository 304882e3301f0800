-------------------------- MODULE SledIndexProofs --------------------------
(***************************************************************************)
(* Proofs about SledStorage with its indexes: what an open transaction     *)
(* wrote to the indexes is under its lock and can be undone, and the       *)
(* theorems about the data tree hold with the indexes too.                 *)
(***************************************************************************)
EXTENDS SledIndex, SledStorageProofs, SledEntryProofs

\* Most leaves are first-order; the ones that calculate cite SMT.
USE Zenon

-----------------------------------------------------------------------------
(* The data a snapshot carries *)

Datas(s) == {i.data : i \in s}

LEMMA GetData ==
  ASSUME NEW s, WellFormed(s), NEW t, NEW l, Get(s, t, l) # None
  PROVE  Get(s, t, l) \in Datas(s)
<1> DEFINE v == VisibleItems(s, t, l)
<1>1. v # {} /\ Get(s, t, l) = Front(v).data /\ v \in SUBSET s
  BY DEF Get, VisibleItems
<1>2. WellFormed(v)
  BY <1>1, SubsetWellFormed
<1>3. Front(v) \in v
  BY <1>1, <1>2, FrontIsNewest
<1> QED
  BY <1>1, <1>3 DEF Datas

LEMMA DeleteDatas ==
  ASSUME NEW s, WellFormed(s), NEW u \in Txid
  PROVE  Datas(Delete(s, u)) \subseteq Datas(s)
<1>1. CASE s = {}
  BY <1>1 DEF Delete
<1>2. CASE s # {}
  <2>1. Front(s) \in s /\ Front(s) \in SnapshotItem
    BY <1>2, FrontIsNewest DEF WellFormed
  <2>2. MarkDeleted(Front(s), u).data = Front(s).data
    BY <2>1, MarkDeletedItem
  <2> QED
    BY <1>2, <2>1, <2>2 DEF Delete, Rest, Datas
<1> QED
  BY <1>1, <1>2

LEMMA UpdateDatas ==
  ASSUME NEW s, WellFormed(s), NEW u \in Txid, NEW d \in Datum
  PROVE  Datas(Update(s, u, d)) \subseteq Datas(s) \cup {d}
<1>1. CASE s = {}
  BY <1>1, SMT DEF Update, NewSnapshot, NewItem, Datas
<1>2. CASE s # {}
  <2>1. Front(s) \in s /\ Front(s) \in SnapshotItem
    BY <1>2, FrontIsNewest DEF WellFormed
  <2>2. MarkDeleted(Front(s), u).data = Front(s).data
    BY <2>1, MarkDeletedItem
  <2>3. NewItem(Front(s).at + 1, u, d).data = d
    BY DEF NewItem
  <2> QED
    BY <1>2, <2>1, <2>2, <2>3 DEF Update, Rest, Datas
<1> QED
  BY <1>1, <1>2

LEMMA RollbackDatas ==
  ASSUME NEW s, s \subseteq SnapshotItem, NEW u
  PROVE  Datas(Rollback(s, u)) \subseteq Datas(s)
BY UndoItem, RollbackIsUndo, SMT DEF Datas
-----------------------------------------------------------------------------
(* Rows hold payloads *)

\* The data of a row key: its payload comes first.
Payloads(s) == \A x \in Datas(s) : x[1] \in Val

LEMMA PayloadsOfRows ==
  RowPayloads <=> \A t \in Table, r \in Row : Payloads(tree[<<t, r>>])
BY DEF RowPayloads, Payloads, Datas

LEMMA BasePayloads ==
  ASSUME IInv, RowPayloads, NEW t \in Table, NEW r \in Row
  PROVE  Payloads(BaseTree[<<t, r>>])
<1> DEFINE k == <<t, r>>
<1>1. Payloads(tree[k]) /\ k \in Key /\ tree[k] \subseteq SnapshotItem
  BY PayloadsOfRows, KeyParts DEF IInv, WellFormed
<1>2. BaseTree[k] \in {tree[k], Rollback(tree[k], lock.lock_txid)}
  BY <1>1 DEF BaseTree, RolledBack
<1> HIDE DEF k
<1> QED
  BY <1>1, <1>2, RollbackDatas DEF Payloads, k

\* What a write call puts under the row keys.
LEMMA WrittenPayloads ==
  ASSUME IInv, RowPayloads, NEW c \in Conn, WriteStep(c)
  PROVE  RowPayloads'
<1> DEFINE me == state[c].txid
<1>1. PICK t \in Table :
        \/ InsertSchema(c, t) \/ DeleteSchema(c, t)
        \/ \E r \in Row, v \in Val : AppendData(c, t, r, v)
        \/ \E r \in Row, v \in Val : InsertData(c, t, r, v)
        \/ \E r \in Row : DeleteData(c, t, r)
        \/ \E u \in Table : RenameSchema(c, t, u)
        \/ RenameColumn(c, t) \/ AddColumn(c, t) \/ DropColumn(c, t)
        \/ CreateIndex(c, t) \/ DropIndex(c, t)
  BY DEF WriteStep
<1>2. \A u \in Table, q \in Row : /\ Payloads(BaseTree[<<u, q>>])
                                  /\ <<u, q>> \in Key /\ <<u, q>> # SchemaKey(t)
                                  /\ WellFormed(BaseTree[<<u, q>>])
  BY BasePayloads, BaseFacts, KeyParts, KeyNames
<1>3. BaseTree \in [Key -> SUBSET SnapshotItem]
  BY BaseFacts
<1>4. SUFFICES ASSUME NEW u \in Table, NEW q \in Row
               PROVE  Payloads(tree'[<<u, q>>])
  BY DEF RowPayloads, Payloads, Datas
<1> DEFINE k == <<u, q>>
<1>5. /\ Payloads(BaseTree[k]) /\ k \in Key /\ k # SchemaKey(t)
      /\ WellFormed(BaseTree[k])
  BY <1>2
<1>6. \A kind : May(c, kind) => me \in Txid
  BY MayFacts
<1>7. \A s, d : Datas(s) \subseteq Datas(BaseTree[k]) \cup {d} /\ d[1] \in Val
                => Payloads(s)
  BY <1>5 DEF Payloads
<1>8. \A s : Datas(s) \subseteq Datas(BaseTree[k]) => Payloads(s)
  BY <1>5 DEF Payloads
<1>9. CASE InsertSchema(c, t) \/ CreateIndex(c, t) \/ DropIndex(c, t)
  <2>1. tree'[k] = BaseTree[k]
    BY <1>3, <1>5, <1>9 DEF InsertSchema, CreateIndex, DropIndex, SetIndexes, Write
  <2> QED
    BY <1>5, <2>1
<1>10. CASE DeleteSchema(c, t)
  <2>1. tree'[k] \in {BaseTree[k], Delete(BaseTree[k], me)} /\ me \in Txid
    BY <1>5, <1>6, <1>10 DEF DeleteSchema, Write
  <2> QED
    BY <1>5, <1>8, <2>1, DeleteDatas
<1>11. ASSUME NEW r \in Row, NEW v \in Val, AppendData(c, t, r, v)
       PROVE  Payloads(tree'[k])
  <2>1. \/ tree'[k] = BaseTree[k]
        \/ tree'[k] = NewSnapshot(me, <<v, Shape(c, t)>>)
    BY <1>3, <1>5, <1>11 DEF AppendData, Write
  <2>2. Payloads(NewSnapshot(me, <<v, Shape(c, t)>>))
    BY SMT DEF Payloads, NewSnapshot, NewItem, Datas
  <2> QED
    BY <1>5, <2>1, <2>2
<1>12. ASSUME NEW r \in Row, NEW v \in Val, InsertData(c, t, r, v)
       PROVE  Payloads(tree'[k])
  <2>1. \/ tree'[k] = BaseTree[k]
        \/ tree'[k] = Update(BaseTree[k], me, <<v, Shape(c, t)>>)
    BY <1>3, <1>5, <1>12 DEF InsertData, Write
  <2>2. me \in Txid /\ <<v, Shape(c, t)>> \in Datum
    BY <1>6, <1>12, ShapeType, DatumParts DEF InsertData
  <2>3. <<v, Shape(c, t)>>[1] \in Val
    OBVIOUS
  <2> QED
    BY <1>5, <1>7, <2>1, <2>2, <2>3, UpdateDatas
<1>13. ASSUME NEW r \in Row, DeleteData(c, t, r) PROVE Payloads(tree'[k])
  <2>1. tree'[k] \in {BaseTree[k], Delete(BaseTree[k], me)} /\ me \in Txid
    BY <1>3, <1>5, <1>6, <1>13 DEF DeleteData, Write
  <2> QED
    BY <1>5, <1>8, <2>1, DeleteDatas
<1>14. ASSUME NEW rows \in SUBSET RowsSeen(c, t), NEW cols \in Cols,
              AlterTarget(c, t), Reshape(c, t, rows, cols)
       PROVE  Payloads(tree'[k])
  <2> DEFINE d == <<Current(c, k)[1], cols>>
  <2>1. /\ k \notin rows => tree'[k] = BaseTree[k]
        /\ k \in rows => tree'[k] = Update(BaseTree[k], me, d)
    BY <1>5, <1>14 DEF Reshape, Write
  <2>2. me \in Txid
    BY <1>6, <1>14 DEF AlterTarget
  <2>3. k \in rows => Current(c, k) \in Datas(BaseTree[k]) /\ Current(c, k) \in Datum
    BY <1>5, GetData, CurrentType DEF RowsSeen, Current
  <2>4. k \in rows => d \in Datum /\ d[1] \in Val
    BY <1>5, <2>3, DatumParts DEF Payloads
  <2> QED
    BY <1>5, <1>7, <2>1, <2>2, <2>4, UpdateDatas, SMT
<1>15. CASE RenameColumn(c, t) \/ AddColumn(c, t) \/ DropColumn(c, t)
  <2>1. AlterTarget(c, t) => Current(c, SchemaKey(t))[2] \in Cols
    BY KeyParts, CurrentType, DatumParts DEF AlterTarget
  <2>2. 1 \in Cols /\ 2 \in Cols
    BY DEF Cols
  <2> QED
    BY <1>14, <1>15, <2>1, <2>2 DEF RenameColumn, AddColumn, DropColumn
<1>16. ASSUME NEW w \in Table, RenameSchema(c, t, w) PROVE Payloads(tree'[k])
  <2> DEFINE old == {SchemaKey(t)} \cup Present(RowKeys(t))
             From(j) == <<t, j[2]>>
             new == {<<w, j[2]>> : j \in old}
             f == Front(BaseTree[From(k)]).data
             newTree == [j \in Key |->
                           CASE j \in old -> Delete(BaseTree[j], me)
                             [] j \in new -> NewSnapshot(me, Front(BaseTree[From(j)]).data)
                             [] OTHER     -> BaseTree[j]]
  <2>1. /\ k \in old => tree'[k] = Delete(BaseTree[k], me)
        /\ k \notin old /\ k \in new => tree'[k] = NewSnapshot(me, f)
        /\ k \notin old /\ k \notin new => tree'[k] = BaseTree[k]
    <3>1. tree' = newTree
      BY <1>16 DEF RenameSchema, Write
    <3>2. \A j \in old : j[1] = t
      BY SMT DEF Present, SchemaKey, RowKeys
    <3>3. \A j \in new : j \notin old
      BY <1>16, <3>2, SMT DEF RenameSchema
    <3> HIDE DEF old, new, From
    <3>4. \A j \in Key :
            /\ j \in old => newTree[j] = Delete(BaseTree[j], me)
            /\ j \in new => newTree[j] = NewSnapshot(me, Front(BaseTree[From(j)]).data)
            /\ j \notin old /\ j \notin new => newTree[j] = BaseTree[j]
      BY <3>3
    <3> HIDE DEF newTree
    <3> QED
      BY <1>5, <3>1, <3>4
  <2>2. me \in Txid
    BY <1>6, <1>16 DEF RenameSchema
  <2>3. k \in new => f[1] \in Val
    <3> SUFFICES ASSUME k \in new PROVE f[1] \in Val
      OBVIOUS
    <3>1. k[2] = q /\ q # SchemaSlot
      BY KeyNames
    <3>2. <<t, q>> \in Present(RowKeys(t))
      BY <3>1, KeyNames, SMT DEF SchemaKey, RowKeys, Present
    <3>3. BaseTree[<<t, q>>] # {}
      BY <3>2 DEF Present
    <3>4. Front(BaseTree[<<t, q>>]) \in BaseTree[<<t, q>>]
      BY <1>2, <3>3, FrontIsNewest
    <3> QED
      BY <1>2, <3>1, <3>4 DEF Payloads, Datas
  <2>4. f[1] \in Val => Payloads(NewSnapshot(me, f))
    BY SMT DEF Payloads, NewSnapshot, NewItem, Datas
  <2> HIDE DEF old, new, f
  <2> QED
    BY <1>5, <1>8, <2>1, <2>2, <2>3, <2>4, DeleteDatas
<1> HIDE DEF k, me
<1> QED
  BY <1>1, <1>9, <1>10, <1>11, <1>12, <1>13, <1>15, <1>16 DEF k
-----------------------------------------------------------------------------
(* What the index part of a write starts from *)

\* The index half of AllUndoable, the part an action has to re-establish.
IndexPart ==
  /\ index \in [IndexKey -> SUBSET Entry] /\ tempIndex \in SUBSET (Txid \X IndexKey)
  /\ EntriesFresh /\ EntriesUndoable

LEMMA IndexParts == AllUndoable <=> IInv /\ RowPayloads /\ IndexPart
BY DEF AllUndoable, IndexPart, IndexTypeOK, IInv

LEMMA Tops == ASSUME IndexPart, NEW i \in IndexKey
              PROVE  index[i] \in SUBSET Entry /\ HasTop(index[i])
BY DEF IndexPart, EntriesFresh, HasTop

LEMMA EntriesBelow ==
  ASSUME NEW s \in SUBSET Entry, NEW n
  PROVE  (\A e \in s : e.created_by < n /\ (e.deleted_by = None \/ e.deleted_by < n))
         <=> (\A u \in Txid : HasMark(s, u) => u < n)
BY NoneNotNat DEF HasMark, Entry, Txid

\* IndexPart, by the marks on the entries.
LEMMA IndexPartOf ==
  ASSUME NEW x \in [IndexKey -> SUBSET Entry], index' = x,
         tempIndex' \in SUBSET (Txid \X IndexKey),
         \A i \in IndexKey : HasTop(x[i]),
         \A i \in IndexKey, u \in Txid : HasMark(x[i], u) => u < nextId',
         \A d \in Conn, i \in IndexKey :
           Active(d)' /\ HasMark(x[i], state'[d].txid) =>
             lock'.lock_txid = state'[d].txid /\ <<state'[d].txid, i>> \in tempIndex'
  PROVE  IndexPart'
<1>1. EntriesFresh'
  <2>1. \A i \in IndexKey : \A e \in x[i] :
          e.created_by < nextId' /\ (e.deleted_by = None \/ e.deleted_by < nextId')
    BY EntriesBelow
  <2> QED
    BY <2>1 DEF EntriesFresh, HasTop
<1>2. EntriesUndoable'
  BY DEF EntriesUndoable
<1> QED
  BY <1>1, <1>2 DEF IndexPart

LEMMA OldMarks ==
  ASSUME IndexPart, NEW i \in IndexKey, NEW u \in Txid, HasMark(index[i], u)
  PROVE  u < nextId
BY EntriesBelow DEF IndexPart, EntriesFresh

LEMMA BaseIndexFacts ==
  ASSUME IInv, IndexPart
  PROVE  /\ BaseIndex \in [IndexKey -> SUBSET Entry]
         /\ \A i \in IndexKey : HasTop(BaseIndex[i])
         /\ \A i \in IndexKey, u \in Txid : HasMark(BaseIndex[i], u) =>
              HasMark(index[i], u)
         /\ BaseTempIndex \subseteq tempIndex
         /\ \A d \in Conn, i \in IndexKey :
              Active(d) /\ HasMark(BaseIndex[i], state[d].txid) =>
                /\ lock.lock_txid = state[d].txid /\ ~LockTimedOut
                /\ <<state[d].txid, i>> \in BaseTempIndex
<1> DEFINE h == lock.lock_txid
<1>0. TypeOK /\ EntriesUndoable /\ index \in [IndexKey -> SUBSET Entry]
  BY DEF IInv, IndexPart
<1>1. CASE LockTimedOut
  <2>1. h \in Txid /\ BaseIndex = RolledBackIndex(h) /\ BaseTempIndex = TempIndexWithout(h)
    BY <1>0, <1>1 DEF LockTimedOut, TypeOK, Lock, BaseIndex, BaseTempIndex
  <2> HIDE DEF h
  <2>2. \A i \in IndexKey :
          BaseIndex[i] = IF <<h, i>> \in tempIndex THEN Rollback(index[i], h) ELSE index[i]
    BY <2>1 DEF RolledBackIndex
  <2>3. \A i \in IndexKey :
          /\ BaseIndex[i] \in SUBSET Entry /\ HasTop(BaseIndex[i])
          /\ \A u \in Txid : HasMark(BaseIndex[i], u) => HasMark(index[i], u)
          /\ <<h, i>> \in tempIndex => ~HasMark(BaseIndex[i], h)
    BY <2>1, <2>2, Tops, RollbackEntries, SMT
  <2>4. BaseIndex \in [IndexKey -> SUBSET Entry]
    BY <2>1, <2>3 DEF RolledBackIndex
  <2>5. ASSUME NEW d \in Conn, NEW i \in IndexKey, Active(d),
               HasMark(BaseIndex[i], state[d].txid)
        PROVE  FALSE
    <3>1. HasMark(index[i], state[d].txid)
      BY <1>0, <2>3, <2>5, ActiveState
    <3>2. h = state[d].txid /\ <<h, i>> \in tempIndex
      BY <1>0, <2>5, <3>1 DEF EntriesUndoable, h
    <3> QED
      BY <2>3, <2>5, <3>2
  <2>6. BaseTempIndex \subseteq tempIndex
    BY <2>1 DEF TempIndexWithout
  <2> QED
    BY <2>3, <2>4, <2>5, <2>6
<1>2. CASE ~LockTimedOut
  <2>1. BaseIndex = index /\ BaseTempIndex = tempIndex
    BY <1>2 DEF BaseIndex, BaseTempIndex
  <2> QED
    BY <1>0, <1>2, <2>1, Tops DEF EntriesUndoable
<1> QED
  BY <1>1, <1>2

\* Index entries are pushed and marked by the holder of the lock, who leaves a
\* temp key for each index key.
LEMMA SyncIndex ==
  ASSUME IInv, IInv', IndexPart, NEW c \in Conn, AcquireOk(c),
         NEW del \in SUBSET (IndexKey \X Key), NEW ins \in SUBSET (IndexKey \X Key),
         Sync(c, del, ins), lock'.lock_txid = state[c].txid, state' = state,
         nextId <= nextId'
  PROVE  IndexPart'
<1> DEFINE me == state[c].txid
           n(i) == PushEntries(DeleteEntries(BaseIndex[i], me, Of(del, i)), me, Of(ins, i))
           x == [i \in IndexKey |-> n(i)]
<1>0. TypeOK /\ UniqueTx /\ IdsFresh /\ nextId \in Nat /\ nextId' \in Nat
  BY DEF IInv, TypeOK
<1>1. Active(c) /\ me \in Txid /\ me # None /\ me < nextId
  BY <1>0, ActiveState DEF AcquireOk, FetchOk, IdsFresh
<1>2. /\ index' = x
      /\ tempIndex' = BaseTempIndex \cup {<<me, p[1]>> : p \in del \cup ins}
  BY DEF Sync
<1>3. ASSUME NEW i \in IndexKey
      PROVE  /\ Of(ins, i) \in SUBSET Key
             /\ Of(del, i) # {} \/ Of(ins, i) # {} => <<me, i>> \in tempIndex'
  BY <1>2 DEF Of
<1>4. ASSUME NEW i \in IndexKey
      PROVE  /\ n(i) \in SUBSET Entry /\ HasTop(n(i))
             /\ \A u \in Txid : HasMark(n(i), u) =>
                  HasMark(BaseIndex[i], u) \/ (u = me /\ <<me, i>> \in tempIndex')
  <2>1. BaseIndex[i] \in SUBSET Entry /\ HasTop(BaseIndex[i])
    BY BaseIndexFacts
  <2> HIDE DEF me
  <2> QED
    BY <1>1, <1>3, <2>1, SyncedEntries, SMT
<1> HIDE DEF n
<1>5. x \in [IndexKey -> SUBSET Entry] /\ \A i \in IndexKey : x[i] = n(i)
  BY <1>4
<1>6. tempIndex' \in SUBSET (Txid \X IndexKey)
  BY <1>1, <1>2, BaseIndexFacts, SMT DEF IndexPart
<1>7. \A i \in IndexKey, u \in Txid : HasMark(x[i], u) => u < nextId'
  <2>1. ASSUME NEW i \in IndexKey, NEW u \in Txid, HasMark(x[i], u) PROVE u < nextId
    <3>1. CASE u = me
      BY <1>1, <3>1
    <3>2. CASE HasMark(BaseIndex[i], u)
      BY <3>2, BaseIndexFacts, OldMarks
    <3> QED
      BY <1>4, <1>5, <2>1, <3>1, <3>2
  <2> QED
    BY <1>0, <2>1, SMT DEF Txid
<1>8. ASSUME NEW d \in Conn, NEW i \in IndexKey, Active(d), HasMark(x[i], state[d].txid)
      PROVE  lock'.lock_txid = state[d].txid /\ <<state[d].txid, i>> \in tempIndex'
  <2>1. state[d].txid \in Txid /\ state[d].txid # None
    BY <1>0, <1>8, ActiveState
  <2>2. \/ HasMark(BaseIndex[i], state[d].txid)
        \/ state[d].txid = me /\ <<me, i>> \in tempIndex'
    BY <1>4, <1>5, <1>8, <2>1
  <2>3. CASE HasMark(BaseIndex[i], state[d].txid)
    <3>1. /\ lock.lock_txid = state[d].txid /\ ~LockTimedOut
          /\ <<state[d].txid, i>> \in BaseTempIndex
      BY <1>8, <2>3, BaseIndexFacts
    <3>2. state[d].txid = me
      BY <2>1, <3>1 DEF AcquireOk
    <3> QED
      BY <1>2, <3>1, <3>2
  <2> QED
    BY <2>2, <2>3
<1>9. \A d \in Conn : Active(d)' <=> Active(d)
  BY DEF Active
<1> HIDE DEF x
<1> QED
  BY <1>2, <1>4, <1>5, <1>6, <1>7, <1>8, <1>9, IndexPartOf, ZenonT(60)
-----------------------------------------------------------------------------
(* The steps *)

LEMMA FrontPayload ==
  ASSUME IInv, RowPayloads, NEW t \in Table, NEW r \in Row, BaseTree[<<t, r>>] # {}
  PROVE  FrontPair(<<t, r>>) \in IndexKey \X Key
<1> DEFINE k == <<t, r>>
<1>1. WellFormed(BaseTree[k]) /\ Payloads(BaseTree[k]) /\ k \in Key /\ k[1] = t
  BY BaseFacts, BasePayloads, KeyParts
<1>2. Front(BaseTree[k]) \in BaseTree[k]
  BY <1>1, FrontIsNewest
<1>3. Front(BaseTree[k]).data[1] \in Val
  BY <1>1, <1>2 DEF Payloads, Datas
<1> HIDE DEF k
<1> QED
  BY <1>1, <1>3 DEF FrontPair, IndexKey, k

\* The pairs a write deletes and inserts are of the table's index.
LEMMA PairTypes ==
  ASSUME IInv, RowPayloads, NEW c \in Conn, NEW t \in Table
  PROVE  /\ \A r \in Row : RowDeletes(c, t, r) \in SUBSET (IndexKey \X Key)
         /\ \A r \in Row, v \in Val : RowInserts(c, t, r, v) \in SUBSET (IndexKey \X Key)
         /\ TableDeletes(t) \in SUBSET (IndexKey \X Key)
         /\ ScannedPairs(c, t) \in SUBSET (IndexKey \X Key)
<1>1. ASSUME NEW r \in Row PROVE RowDeletes(c, t, r) \in SUBSET (IndexKey \X Key)
  BY FrontPayload DEF RowDeletes, Present
<1>2. ASSUME NEW r \in Row, NEW v \in Val
      PROVE  RowInserts(c, t, r, v) \in SUBSET (IndexKey \X Key)
  BY KeyParts, SMT DEF RowInserts, IndexKey
<1>3. TableDeletes(t) \in SUBSET (IndexKey \X Key)
  BY FrontPayload, SMT DEF TableDeletes, Present, RowKeys
<1>4. ASSUME NEW r \in Row, View(c, <<t, r>>) # None
      PROVE  View(c, <<t, r>>)[1] \in Val
  <2>1. Payloads(tree[<<t, r>>]) /\ WellFormed(tree[<<t, r>>])
    BY PayloadsOfRows, KeyParts DEF IInv
  <2> QED
    BY <1>4, <2>1, GetData DEF View, Payloads
<1>5. ScannedPairs(c, t) \in SUBSET (IndexKey \X Key)
  BY <1>4, KeyParts, SMT DEF ScannedPairs, RowKeys, IndexKey
<1> QED
  BY <1>1, <1>2, <1>3, <1>5

\* What the write calls have in common.
LEMMA WriteLocks ==
  ASSUME NEW c \in Conn, WriteStep(c), IInv
  PROVE  /\ AcquireOk(c) /\ lock'.lock_txid = state[c].txid /\ state' = state
         /\ nextId <= nextId'
<1>1. /\ \A n, T : Write(c, n, T) => lock'.lock_txid = state[c].txid /\ state' = state
      /\ \A kind : May(c, kind) => AcquireOk(c)
  BY DEF Write, May, IInv, TypeOK, Lock
<1>2. nextId \in Nat
  BY DEF IInv, TypeOK
<1>3. /\ \E kind : May(c, kind)
      /\ \E n, T : Write(c, n, T)
      /\ nextId' \in {nextId, nextId + 1}
  BY DEF WriteStep, InsertSchema, DeleteSchema, AppendData, InsertData,
     DeleteData, RenameSchema, RenameColumn, AddColumn, DropColumn, Reshape,
     AlterTarget, CreateIndex, DropIndex, SetIndexes
<1> QED
  BY <1>1, <1>2, <1>3, SMT

LEMMA IndexWrites ==
  ASSUME NEW c \in Conn, IndexWriteStep(c)
  PROVE  WriteStep(c)
BY DEF IndexWriteStep, WriteStep, IndexAppendData, IndexInsertData,
   IndexDeleteData, IndexDeleteSchema, IndexCreateIndex, IndexDropIndex, IndexOtherWrite

LEMMA IndexWriteUndoable ==
  ASSUME AllUndoable, NEW c \in Conn, IndexWriteStep(c)
  PROVE  AllUndoable'
<1>1. WriteStep(c) /\ IInv /\ RowPayloads /\ IndexPart
  BY IndexWrites, IndexParts
<1>2. IInv' /\ RowPayloads'
  BY <1>1, WriteStepIInv, WrittenPayloads
<1>3. \E del, ins \in SUBSET (IndexKey \X Key) : Sync(c, del, ins)
  BY <1>1, PairTypes DEF IndexWriteStep, IndexAppendData, IndexInsertData,
     IndexDeleteData, IndexDeleteSchema, IndexCreateIndex, IndexDropIndex,
     IndexOtherWrite
<1>4. IndexPart'
  <2>1. PICK del \in SUBSET (IndexKey \X Key), ins \in SUBSET (IndexKey \X Key) :
          Sync(c, del, ins)
    BY <1>3
  <2>2. /\ AcquireOk(c) /\ lock'.lock_txid = state[c].txid /\ state' = state
        /\ nextId <= nextId'
    BY <1>1, WriteLocks
  <2> QED
    BY <1>1, <1>2, <2>1, <2>2, SyncIndex
<1> QED
  BY <1>2, <1>4 DEF AllUndoable, IndexPart, IndexTypeOK, IInv

LEMMA IndexCallFailsUndoable ==
  ASSUME AllUndoable, NEW c \in Conn, IndexCallFails(c)
  PROVE  AllUndoable'
<1>1. CallFails(c) /\ IInv /\ RowPayloads /\ IndexPart
  BY IndexParts DEF IndexCallFails
<1>2. IInv'
  BY <1>1, CallFailsIInv
<1>3. RowPayloads'
  BY <1>1, BasePayloads DEF CallFails, RowPayloads, Payloads, Datas
<1>4. /\ index' = BaseIndex /\ tempIndex' = BaseTempIndex /\ state' = state
      /\ nextId' = nextId /\ (LockTimedOut \/ lock' = lock)
  BY <1>1 DEF IndexCallFails, CallFails
<1>5. \A d \in Conn : Active(d)' <=> Active(d)
  BY <1>4 DEF Active
<1>6. tempIndex' \in SUBSET (Txid \X IndexKey)
  BY <1>1, <1>4, BaseIndexFacts DEF IndexPart
<1>7. ASSUME NEW i \in IndexKey, NEW u \in Txid, HasMark(BaseIndex[i], u)
      PROVE  u < nextId'
  <2>1. HasMark(index[i], u)
    BY <1>1, <1>7, BaseIndexFacts
  <2> QED
    BY <1>1, <1>4, <2>1, OldMarks
<1>8. ASSUME NEW d \in Conn, NEW i \in IndexKey, Active(d),
             HasMark(BaseIndex[i], state[d].txid)
      PROVE  lock'.lock_txid = state[d].txid /\ <<state[d].txid, i>> \in tempIndex'
  BY <1>1, <1>4, <1>8, BaseIndexFacts
<1>9. BaseIndex \in [IndexKey -> SUBSET Entry] /\ \A i \in IndexKey : HasTop(BaseIndex[i])
  BY <1>1, BaseIndexFacts
<1>10. IndexPart'
  BY <1>4, <1>5, <1>6, <1>7, <1>8, <1>9, IndexPartOf
<1> QED
  BY <1>2, <1>3, <1>10 DEF AllUndoable, IndexPart, IndexTypeOK, IInv

\* The tree, the ids and the index stay; the connections that are open after
\* the step were open before it, or have a new id.
LEMMA IndexQuiet ==
  ASSUME AllUndoable, IInv', UNCHANGED <<tree, indexVars>>,
         lock' = lock, nextId <= nextId',
         \A d \in Conn : Active(d)' =>
           (Active(d) /\ state'[d] = state[d]) \/ state'[d].txid = nextId
  PROVE  AllUndoable'
<1>1. IInv /\ RowPayloads /\ IndexPart /\ nextId \in Nat /\ nextId' \in Nat
  BY IndexParts DEF IInv, TypeOK
<1>2. index' = index /\ tempIndex' = tempIndex /\ index \in [IndexKey -> SUBSET Entry]
      /\ tempIndex \in SUBSET (Txid \X IndexKey)
  BY <1>1 DEF indexVars, IndexPart
<1>3. RowPayloads'
  BY <1>1 DEF RowPayloads
<1>4. \A i \in IndexKey, u \in Txid : HasMark(index[i], u) => u < nextId
  BY <1>1, OldMarks
<1>5. \A i \in IndexKey, u \in Txid : HasMark(index[i], u) => u < nextId'
  BY <1>1, <1>4, SMT DEF Txid
<1>6. ASSUME NEW d \in Conn, NEW i \in IndexKey, Active(d)',
             HasMark(index[i], state'[d].txid)
      PROVE  lock'.lock_txid = state'[d].txid /\ <<state'[d].txid, i>> \in tempIndex'
  <2>1. state'[d].txid # nextId
    BY <1>1, <1>4, <1>6, SMT DEF Txid
  <2>2. Active(d) /\ state'[d] = state[d]
    BY <1>6, <2>1
  <2> QED
    BY <1>1, <1>2, <1>6, <2>2 DEF IndexPart, EntriesUndoable
<1>7. \A i \in IndexKey : HasTop(index[i])
  BY <1>1, Tops
<1>8. IndexPart'
  BY <1>2, <1>5, <1>6, <1>7, IndexPartOf
<1> QED
  BY <1>3, <1>8 DEF AllUndoable, IndexPart, IndexTypeOK, IInv

LEMMA QuietFacts ==
  ASSUME TypeOK, IndexQuietStep \/ UNCHANGED allVars
  PROVE  /\ tree' = tree /\ index' = index /\ tempIndex' = tempIndex
         /\ lock' = lock /\ wroteAt' = wroteAt
         /\ nextId <= nextId' /\ now' \in {now, now + 1}
         /\ \A d \in Conn : Active(d)' =>
              (Active(d) /\ state'[d] = state[d]) \/ state'[d].txid = nextId
<1>1. /\ tree' = tree /\ index' = index /\ tempIndex' = tempIndex
      /\ lock' = lock /\ wroteAt' = wroteAt /\ now' \in {now, now + 1}
      /\ nextId' = nextId \/ Register(TRUE) \/ Register(FALSE)
  BY DEF IndexQuietStep, Tick, Reopen, Begin, BeginStatement, StatementFails,
     CommitFails, PlanStatement, FetchAllSchemas, sledVars, indexVars, allVars, vars
<1>2. nextId <= nextId'
  BY <1>1, SMT DEF TypeOK, Register
<1>3. \/ state' = state \/ state' = [c \in Conn |-> Idle]
      \/ \E c \in Conn, b \in BOOLEAN : state' = [state EXCEPT ![c] =
           [txid |-> nextId, created_at |-> now, autocommit |-> b]]
  BY DEF IndexQuietStep, Tick, Reopen, Begin, BeginStatement, StatementFails,
     CommitFails, PlanStatement, FetchAllSchemas, allVars, vars
<1> QED
  BY <1>1, <1>2, <1>3, SMT DEF TypeOK, Active

LEMMA IndexQuietUndoable ==
  ASSUME AllUndoable, IndexQuietStep \/ UNCHANGED allVars
  PROVE  AllUndoable'
<1>1. IInv /\ TypeOK
  BY DEF AllUndoable, IInv
<1>2. [Next]_vars
  BY DEF IndexQuietStep, Next, ConnStep, allVars
<1>3. IInv'
  BY <1>1, <1>2, NextIInv
<1> QED
  BY <1>1, <1>3, QuietFacts, IndexQuiet DEF indexVars

\* The connection leaves its transaction; the others keep what they wrote.
LEMMA IndexClose ==
  ASSUME AllUndoable, IInv', RowPayloads', NEW c \in Conn,
         nextId' = nextId, state' = [state EXCEPT ![c] = Idle],
         NEW x \in [IndexKey -> SUBSET Entry], index' = x,
         tempIndex' \in SUBSET tempIndex,
         \A i \in IndexKey : HasTop(x[i]),
         \A i \in IndexKey, u \in Txid : HasMark(x[i], u) => HasMark(index[i], u),
         \A d \in Conn \ {c} : Active(d) /\ lock.lock_txid = state[d].txid =>
           /\ lock'.lock_txid = lock.lock_txid
           /\ \A i \in IndexKey : <<state[d].txid, i>> \in tempIndex =>
                                  <<state[d].txid, i>> \in tempIndex'
  PROVE  AllUndoable'
<1>1. IInv /\ TypeOK /\ IndexPart
  BY IndexParts DEF IInv
<1>2. \A d \in Conn : Active(d)' => d # c /\ Active(d) /\ state'[d] = state[d]
  BY <1>1 DEF TypeOK, Active
<1>3. tempIndex' \in SUBSET (Txid \X IndexKey)
  BY <1>1 DEF IndexPart
<1>4. \A i \in IndexKey, u \in Txid : HasMark(x[i], u) => u < nextId'
  BY <1>1, OldMarks
<1>5. ASSUME NEW d \in Conn, NEW i \in IndexKey, Active(d)', HasMark(x[i], state'[d].txid)
      PROVE  lock'.lock_txid = state'[d].txid /\ <<state'[d].txid, i>> \in tempIndex'
  <2>1. d # c /\ Active(d) /\ state'[d] = state[d] /\ state[d].txid \in Txid
    BY <1>1, <1>2, <1>5, ActiveState
  <2>2. HasMark(index[i], state[d].txid)
    BY <1>5, <2>1
  <2>3. lock.lock_txid = state[d].txid /\ <<state[d].txid, i>> \in tempIndex
    BY <1>1, <2>1, <2>2 DEF IndexPart, EntriesUndoable
  <2> QED
    BY <2>1, <2>3
<1>6. IndexPart'
  BY <1>3, <1>4, <1>5, IndexPartOf
<1> QED
  BY <1>6 DEF AllUndoable, IndexPart, IndexTypeOK, IInv

LEMMA IndexCommitUndoable ==
  ASSUME AllUndoable, NEW c \in Conn, IndexCommit(c)
  PROVE  AllUndoable'
<1> DEFINE T == GcTxids(Unregistered(txdata, state[c].txid),
                        Released(lock, state[c].txid).lock_txid)
           x == GcIndex(T)
<1>1. /\ Commit(c) /\ index' = x
      /\ tempIndex' = {p \in tempIndex : p[1] \in T => TempIndexStays(p[1], p[2], T)}
  BY DEF IndexCommit
<1>2. IInv /\ IInv' /\ RowPayloads /\ IndexPart
  BY <1>1, CommitIInv, IndexParts
<1>3. /\ nextId' = nextId /\ state' = [state EXCEPT ![c] = Idle] /\ tree' = GcTree(T)
  BY <1>1 DEF Commit
<1>4. \A d \in Conn \ {c} : Active(d) /\ lock.lock_txid = state[d].txid =>
        lock'.lock_txid = lock.lock_txid /\ state[d].txid \notin T
  BY <1>1, <1>2, HolderKept
<1> HIDE DEF T
<1>5. RowPayloads'
  <2>1. \A k \in Key : tree'[k] \subseteq tree[k]
    BY <1>2, <1>3, GcWellFormed DEF GcTree, IInv
  <2> QED
    BY <1>2, <2>1, KeyParts DEF RowPayloads
<1>6. \A i \in IndexKey : x[i] \subseteq index[i]
  BY DEF GcIndex, GcEntries
<1>7. x \in [IndexKey -> SUBSET Entry] /\ \A i \in IndexKey : HasTop(x[i])
  <2>1. \A i \in IndexKey : index[i] \in SUBSET Entry /\ HasTop(index[i])
    BY <1>2, Tops
  <2>2. \A i \in IndexKey : x[i] \in SUBSET Entry /\ HasTop(x[i])
    <3> HIDE DEF x
    <3> QED
      BY <1>6, <2>1, TopOf
  <2>3. x = [i \in IndexKey |-> x[i]]
    BY DEF GcIndex
  <2> HIDE DEF x
  <2> QED
    BY <2>2, <2>3
<1>8. \A i \in IndexKey, u \in Txid : HasMark(x[i], u) => HasMark(index[i], u)
  <2> HIDE DEF x
  <2> QED
    BY <1>6 DEF HasMark
<1>9. \A u, i : u \notin T /\ <<u, i>> \in tempIndex => <<u, i>> \in tempIndex'
  BY <1>1
<1>10. tempIndex' \in SUBSET tempIndex
  BY <1>1
<1> HIDE DEF x
<1> QED
  BY <1>1, <1>2, <1>3, <1>4, <1>5, <1>7, <1>8, <1>9, <1>10, IndexClose

LEMMA IndexRollbackUndoable ==
  ASSUME AllUndoable, NEW c \in Conn, IndexRollbackTx(c)
  PROVE  AllUndoable'
<1> DEFINE me == state[c].txid
<1>1. RollbackTx(c) /\ nextId' = nextId /\ state' = [state EXCEPT ![c] = Idle]
  BY DEF IndexRollbackTx, RollbackTx
<1>2. IInv /\ IInv' /\ RowPayloads /\ IndexPart /\ TypeOK /\ UniqueTx
  BY <1>1, RollbackTxIInv, IndexParts DEF IInv
<1>3. Active(c) /\ me \in Txid
  BY <1>1, <1>2, ActiveState DEF RollbackTx
<1>4. \A i \in IndexKey : index[i] \in SUBSET Entry /\ HasTop(index[i])
  BY <1>2, Tops
<1>5. CASE lock.lock_txid = me
  <2> DEFINE x == RolledBackIndex(me)
  <2>1. /\ tree' = RolledBack(me) /\ index' = x
        /\ tempIndex' = {p \in tempIndex : p[1] # me}
    BY <1>1, <1>5 DEF RollbackTx, IndexRollbackTx, TempIndexWithout
  <2>2. RowPayloads'
    <3>1. ASSUME NEW t \in Table, NEW r \in Row PROVE Payloads(tree'[<<t, r>>])
      <4> DEFINE k == <<t, r>>
      <4>1. k \in Key /\ Payloads(tree[k]) /\ tree[k] \subseteq SnapshotItem
        BY <1>2, KeyParts, PayloadsOfRows DEF IInv, WellFormed
      <4>2. tree'[k] \in {tree[k], Rollback(tree[k], me)}
        BY <2>1, <4>1 DEF RolledBack
      <4> HIDE DEF k, me
      <4> QED
        BY <4>1, <4>2, RollbackDatas DEF Payloads, k
    <3> QED
      BY <3>1 DEF RowPayloads, Payloads, Datas
  <2> HIDE DEF me
  <2>3. \A i \in IndexKey : x[i] \in {index[i], Rollback(index[i], me)}
    BY DEF RolledBackIndex
  <2>4. ASSUME NEW i \in IndexKey
        PROVE  /\ x[i] \in SUBSET Entry /\ HasTop(x[i])
               /\ \A u \in Txid : HasMark(x[i], u) => HasMark(index[i], u)
    <3> HIDE DEF x
    <3> QED
      BY <1>3, <1>4, <2>3, RollbackEntries, SMT
  <2>5. x = [i \in IndexKey |-> x[i]]
    BY DEF RolledBackIndex
  <2>6. \A d \in Conn \ {c} : ~(Active(d) /\ lock.lock_txid = state[d].txid)
    BY <1>2, <1>3, <1>5 DEF UniqueTx, me
  <2> HIDE DEF x
  <2>7. x \in [IndexKey -> SUBSET Entry]
    BY <2>4, <2>5
  <2>8. tempIndex' \in SUBSET tempIndex
    BY <2>1
  <2> QED
    BY <1>1, <1>2, <2>1, <2>2, <2>4, <2>6, <2>7, <2>8, IndexClose
<1>6. CASE lock.lock_txid # me
  <2>1. tree' = tree /\ lock' = lock /\ index' = index /\ tempIndex' = tempIndex
    BY <1>1, <1>6 DEF RollbackTx, IndexRollbackTx, indexVars
  <2>2. RowPayloads' /\ index \in [IndexKey -> SUBSET Entry]
    BY <1>2, <2>1 DEF RowPayloads, IndexPart
  <2> QED
    BY <1>1, <1>2, <1>4, <2>1, <2>2, IndexClose
<1> QED
  BY <1>5, <1>6

\* Every step of the indexed storage is a step of the storage.
LEMMA IndexSteps == [IndexNext]_allVars => [Next]_vars
<1> SUFFICES ASSUME [IndexNext]_allVars PROVE [Next]_vars
  OBVIOUS
<1>1. CASE UNCHANGED allVars
  BY <1>1 DEF allVars
<1>2. CASE IndexQuietStep
  BY <1>2 DEF IndexQuietStep, Next, ConnStep
<1>3. ASSUME NEW c \in Conn, IndexWriteStep(c) \/ IndexCallFails(c)
                             \/ IndexCommit(c) \/ IndexRollbackTx(c)
      PROVE  Next
  BY <1>3, IndexWrites DEF IndexCallFails, IndexCommit, IndexRollbackTx, Next, ConnStep
<1> QED
  BY <1>1, <1>2, <1>3 DEF IndexNext

LEMMA IndexNextUndoable == AllUndoable /\ [IndexNext]_allVars => AllUndoable'
<1> SUFFICES ASSUME AllUndoable, [IndexNext]_allVars PROVE AllUndoable'
  OBVIOUS
<1> QED
  BY IndexQuietUndoable, IndexWriteUndoable, IndexCallFailsUndoable,
     IndexCommitUndoable, IndexRollbackUndoable DEF IndexNext

LEMMA IndexInitUndoable == IndexInit => AllUndoable
<1> SUFFICES ASSUME IndexInit PROVE AllUndoable
  OBVIOUS
<1>1. IInv /\ TypeOK
  BY InitIInv DEF IndexInit, IInv
<1>2. \A i \in IndexKey : index[i] = {}
  BY DEF IndexInit
<1>3. \A k \in Key : tree[k] = {}
  BY DEF IndexInit, Init
<1>4. IndexTypeOK
  BY <1>1 DEF IndexInit, IndexTypeOK
<1>5. RowPayloads
  BY <1>3, KeyParts DEF RowPayloads
<1>6. EntriesFresh /\ EntriesUndoable
  BY <1>2 DEF EntriesFresh, EntriesUndoable, HasMark
<1> QED
  BY <1>1, <1>4, <1>5, <1>6 DEF AllUndoable
-----------------------------------------------------------------------------
(* Theorems *)

\* Whatever the clients, timeouts, take-overs and garbage collections do, all
\* that an open transaction wrote to the indexes is under its lock and on
\* record for rollback_txid, in autocommit too; so is what an open BEGIN
\* transaction wrote to the data tree.
THEOREM IndexInvariance == IndexSpec => []AllUndoable
BY IndexInitUndoable, IndexNextUndoable, PTL DEF IndexSpec

\* The index half alone: rollback_txid finds every index entry an open
\* transaction has pushed or marked (index_sync.rs, rollback_txid).
THEOREM IndexUndoable == IndexSpec => []EntriesUndoable
<1>1. AllUndoable => EntriesUndoable
  BY DEF AllUndoable
<1> QED
  BY <1>1, IndexInvariance, PTL

\* The storage with indexes implements the storage without them: the index
\* part of a call decides when it fails, and never what it does to data, temp
\* keys, transaction records and the lock.
THEOREM IndexImplements == IndexSpec => Spec
<1>1. IndexInit => Init
  BY DEF IndexInit
<1> QED
  BY <1>1, IndexSteps, PTL DEF IndexSpec, Spec
=============================================================================
