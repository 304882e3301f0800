------------------------- MODULE SledStorageProofs --------------------------
(***************************************************************************)
(* SledStorage keeps its invariants for any number of connections, tables, *)
(* rows and values, any timeout and any bounds.  IInv is the inductive     *)
(* invariant; the theorems at the end draw from it.                        *)
(***************************************************************************)
EXTENDS SledStorage, SnapshotProofs

\* Most leaves are first-order; the ones that calculate cite SMT.
USE Zenon

USE DEF SchemaKey, RowKeys

LEMMA KeyParts ==
  /\ \A t \in Table : SchemaKey(t) \in Key /\ RowKeys(t) \subseteq Key
  /\ \A t \in Table, r \in Row : <<t, r>> \in Key
BY SMT DEF Key

LEMMA KeyNames ==
  /\ \A t, u \in Table, r \in Row : SchemaKey(u) # <<t, r>>
  /\ \A t, u \in Table : SchemaKey(u) = SchemaKey(t) => u = t
  /\ \A t \in Table : SchemaKey(t)[2] = SchemaSlot
  /\ \A t \in Table, r \in Row : <<t, r>>[2] # SchemaSlot
BY SledAssumption DEF SchemaKey

LEMMA ActiveState ==
  ASSUME TypeOK, NEW c \in Conn, Active(c)
  PROVE  /\ state[c] \in TxState
         /\ state[c].txid \in Txid /\ state[c].txid # None
         /\ state[c].created_at \in Nat /\ state[c].autocommit \in BOOLEAN
BY NoneNotNat DEF TypeOK, Active, TxState, Txid

LEMMA InitIInv == Init => IInv
<1> SUFFICES ASSUME Init PROVE IInv
  OBVIOUS
<1>1. TypeOK
  BY DEF Init, TypeOK, Lock, Txid, StmtState
<1>2. \A k \in Key : tree[k] = {}
  BY DEF Init
<1>3. \A c \in Conn : ~Active(c)
  BY DEF Init, Active
<1> QED
  BY <1>1, <1>2, <1>3 DEF IInv, Init, IdsFresh, UniqueTx, AliveRecord,
     MarksUndoable, MarksUnderLock, HasMark, WellFormed
-----------------------------------------------------------------------------
(* What a write starts from, after the roll back of a timed-out holder. *)

LEMMA BaseFacts ==
  ASSUME IInv
  PROVE  /\ \A k \in Key : WellFormed(BaseTree[k])
         /\ BaseTree \in [Key -> SUBSET SnapshotItem]
         /\ \A k \in Key, u \in Txid : HasMark(BaseTree[k], u) =>
              HasMark(tree[k], u)
         /\ BaseTemp \subseteq temp
         /\ BaseTxData \in SUBSET TxData
         /\ \A d \in BaseTxData : d.txid < nextId
         /\ Timeout = None => BaseTxData = txdata
<1> USE DEF IInv
<1>1. CASE LockTimedOut
  <2> DEFINE h == lock.lock_txid
  <2>1. h \in Txid
    BY <1>1 DEF LockTimedOut, TypeOK, Lock
  <2>2. BaseTree = RolledBack(h) /\ BaseTemp = TempWithout(h)
        /\ BaseTxData = Unregistered(txdata, h)
    BY <1>1 DEF BaseTree, BaseTemp, BaseTxData
  <2> HIDE DEF h
  <2>3. \A k \in Key : BaseTree[k] = tree[k] \/ BaseTree[k] = Rollback(tree[k], h)
    BY <2>2 DEF RolledBack
  <2>4. \A k \in Key : WellFormed(BaseTree[k])
    BY <2>1, <2>3, RollbackWellFormed
  <2>5. \A k \in Key, u \in Txid : HasMark(BaseTree[k], u) => HasMark(tree[k], u)
    BY <2>1, <2>3, RollbackMarks
  <2>6. BaseTree \in [Key -> SUBSET SnapshotItem]
    BY <2>2, <2>4 DEF RolledBack, WellFormed
  <2>7. BaseTemp \subseteq temp
    BY <2>2 DEF TempWithout
  <2>8. BaseTxData \in SUBSET TxData /\ \A d \in BaseTxData : d.txid < nextId
    BY <2>2 DEF Unregistered, TypeOK, TxData, IdsFresh
  <2>9. Timeout # None
    BY <1>1 DEF LockTimedOut, Expired
  <2> QED
    BY <2>4, <2>5, <2>6, <2>7, <2>8, <2>9
<1>2. CASE ~LockTimedOut
  BY <1>2 DEF BaseTree, BaseTemp, BaseTxData, TypeOK, IdsFresh
<1> QED
  BY <1>1, <1>2

LEMMA MarksBelow ==
  ASSUME NEW s, WellFormed(s), NEW n
  PROVE  (\A i \in s : i.created_by < n /\ (i.deleted_by = None \/ i.deleted_by < n))
         <=> (\A u \in Txid : HasMark(s, u) => u < n)
BY NoneNotNat DEF WellFormed, HasMark, SnapshotItem, Txid

\* Taking over the lock removes every mark of the holder that can be undone.
LEMMA BaseMarks ==
  ASSUME IInv, NEW d \in Conn, NEW k \in Key, Active(d),
         HasMark(BaseTree[k], state[d].txid)
  PROVE  /\ ~state[d].autocommit => <<state[d].txid, k>> \in BaseTemp
         /\ Timeout = None \/ ~state[d].autocommit =>
              lock.lock_txid = state[d].txid /\ ~LockTimedOut
<1> DEFINE u == state[d].txid
           h == lock.lock_txid
<1>1. TypeOK /\ MarksUndoable /\ MarksUnderLock /\ WellFormed(tree[k])
  BY DEF IInv
<1>2. u \in Txid
  BY <1>1, ActiveState
<1>3. HasMark(tree[k], u)
  BY <1>2, BaseFacts
<1>4. ~state[d].autocommit => <<u, k>> \in temp
  BY <1>1, <1>3 DEF MarksUndoable
<1>5. Timeout = None \/ ~state[d].autocommit => h = u
  BY <1>1, <1>3 DEF MarksUnderLock
<1>6. CASE LockTimedOut
  <2>1. h \in Txid /\ Timeout # None
    BY <1>1, <1>6 DEF LockTimedOut, TypeOK, Lock, Expired
  <2>2. BaseTree[k] = IF <<h, k>> \in temp THEN Rollback(tree[k], h) ELSE tree[k]
    BY <1>6 DEF BaseTree, RolledBack
  <2>3. ~(h = u /\ <<u, k>> \in temp)
    BY <1>1, <1>2, <2>1, <2>2, RollbackMarks
  <2>4. state[d].autocommit
    BY <1>4, <1>5, <2>3
  <2> QED
    BY <2>1, <2>4
<1>7. CASE ~LockTimedOut
  BY <1>4, <1>5, <1>7 DEF BaseTemp
<1> QED
  BY <1>6, <1>7

\* A write call: the tree changes under the keys of `touched` only, by adding
\* marks of the writer, and BEGIN transactions leave a temp key for each.
LEMMA WriteIInv ==
  ASSUME IInv, NEW c \in Conn, AcquireOk(c),
         NEW newTree \in [Key -> SUBSET SnapshotItem], NEW temps \in SUBSET Key,
         \A k \in Key : WellFormed(newTree[k]),
         \A k \in Key, u \in Txid : HasMark(newTree[k], u) /\ u # state[c].txid
           => HasMark(BaseTree[k], u),
         \A k \in Key : newTree[k] = BaseTree[k] \/ state[c].autocommit \/ k \in temps,
         Write(c, newTree, temps),
         nextId' \in {nextId, nextId + 1},
         stmt' \in [Conn -> StmtState]
  PROVE  IInv'
<1> DEFINE me == state[c].txid
<1>0. /\ TypeOK /\ IdsFresh /\ UniqueTx /\ AliveRecord
      /\ MarksUndoable /\ MarksUnderLock
      /\ \A k \in Key : WellFormed(tree[k])
  BY DEF IInv
<1>1. /\ Active(c) /\ state[c] \in TxState /\ me \in Txid /\ me # None
      /\ state[c].created_at \in Nat
  BY <1>0, ActiveState DEF AcquireOk, FetchOk
<1>2. /\ tree' = newTree
      /\ temp' = BaseTemp \cup {<<me, k>> : k \in temps}
      /\ txdata' = BaseTxData
      /\ lock' = [lock EXCEPT !.lock_txid = me,
                              !.lock_created_at = state[c].created_at]
      /\ now' = now /\ state' = state /\ wroteAt' = wroteAt
  BY DEF Write
<1>3. lock'.lock_txid = me
  BY <1>0, <1>2 DEF TypeOK, Lock
<1>4. nextId \in Nat /\ nextId' \in Nat /\ nextId <= nextId'
  BY <1>0, SMT DEF TypeOK
<1>5. TypeOK'
  <2>1. temp' \in SUBSET (Txid \X Key)
    BY <1>0, <1>1, <1>2, BaseFacts, SMT DEF TypeOK
  <2>2. lock' \in Lock
    BY <1>0, <1>1, <1>2 DEF TypeOK, Lock
  <2>3. txdata' \in SUBSET TxData
    BY <1>2, BaseFacts
  <2> QED
    BY <1>0, <1>2, <1>4, <2>1, <2>2, <2>3 DEF TypeOK
<1>6. \A k \in Key : WellFormed(tree'[k])
  BY <1>2
<1>7. \A d \in Conn : Active(d)' <=> Active(d)
  BY <1>2 DEF Active
<1>8. IdsFresh'
  <2>1. \A d \in Conn : Active(d) => /\ state[d].txid < nextId'
                                     /\ state[d].autocommit \in Modes
    BY <1>0, <1>4, ActiveState, SMT DEF IdsFresh, Txid
  <2>2. \A k \in Key, u \in Txid : HasMark(newTree[k], u) => u < nextId'
    <3> SUFFICES ASSUME NEW k \in Key, NEW u \in Txid, HasMark(newTree[k], u)
                 PROVE  u < nextId'
      OBVIOUS
    <3>1. CASE u = me
      BY <1>1, <2>1, <3>1
    <3>2. CASE u # me
      <4>1. HasMark(tree[k], u)
        BY <3>2, BaseFacts
      <4>2. u < nextId
        BY <1>0, <4>1, MarksBelow DEF IdsFresh
      <4> QED
        BY <1>4, <4>2, SMT DEF Txid
    <3> QED
      BY <3>1, <3>2
  <2>3. \A k \in Key : \A i \in newTree[k] :
          i.created_by < nextId' /\ (i.deleted_by = None \/ i.deleted_by < nextId')
    BY <2>2, MarksBelow
  <2>4. \A d \in BaseTxData : d.txid < nextId'
    BY <1>4, BaseFacts, SMT DEF TxData, Txid
  <2> QED
    BY <1>2, <1>7, <2>1, <2>3, <2>4 DEF IdsFresh
<1>9. UniqueTx' /\ AliveRecord'
  BY <1>0, <1>2, <1>7, BaseFacts DEF UniqueTx, AliveRecord
<1>10. MarksUndoable'
  <2> SUFFICES ASSUME NEW d \in Conn, NEW k \in Key, Active(d),
                      ~state[d].autocommit, HasMark(newTree[k], state[d].txid)
               PROVE  <<state[d].txid, k>> \in temp'
    BY <1>2, <1>7 DEF MarksUndoable
  <2>1. state[d].txid \in Txid
    BY <1>0, ActiveState
  <2>2. CASE d = c /\ k \in temps
    BY <1>2, <2>2
  <2>3. CASE ~(d = c /\ k \in temps)
    <3>1. d # c => state[d].txid # me
      BY <1>0, <1>1 DEF UniqueTx
    <3>2. HasMark(BaseTree[k], state[d].txid)
      BY <2>1, <2>3, <3>1
    <3> QED
      BY <1>2, <3>2, BaseMarks
  <2> QED
    BY <2>2, <2>3
<1>11. MarksUnderLock'
  <2> SUFFICES ASSUME NEW d \in Conn, NEW k \in Key, Active(d),
                      Timeout = None \/ ~state[d].autocommit,
                      HasMark(newTree[k], state[d].txid), state[d].txid # me
               PROVE  FALSE
    BY <1>2, <1>3, <1>7 DEF MarksUnderLock
  <2>1. state[d].txid \in Txid /\ state[d].txid # None
    BY <1>0, ActiveState
  <2>2. HasMark(BaseTree[k], state[d].txid)
    BY <2>1
  <2>3. lock.lock_txid = state[d].txid /\ ~LockTimedOut
    BY <2>2, BaseMarks
  <2> QED
    BY <2>1, <2>3 DEF AcquireOk
<1> QED
  BY <1>5, <1>6, <1>8, <1>9, <1>10, <1>11 DEF IInv
-----------------------------------------------------------------------------
(* The write calls *)

LEMMA MayFacts ==
  ASSUME IInv, NEW c \in Conn, NEW kind, May(c, kind)
  PROVE  AcquireOk(c) /\ Active(c) /\ state[c].txid \in Txid
BY ActiveState DEF IInv, May, AcquireOk, FetchOk

LEMMA DataDoneType ==
  ASSUME TypeOK, NEW c \in Conn, DataDone(c)
  PROVE  stmt' \in [Conn -> StmtState]
BY DEF TypeOK, DataDone, Reaches, StmtState

LEMMA DatumParts ==
  /\ \A d \in Datum : d = <<d[1], d[2]>> /\ d[1] \in Val \cup {SchemaSlot, Indexed}
                      /\ d[2] \in Cols
  /\ \A x \in Val \cup {SchemaSlot, Indexed}, n \in Cols : <<x, n>> \in Datum
  /\ \A n \in {1, 2} : n \in Cols
BY SledAssumption, SMT DEF Cols

LEMMA ShapeType ==
  ASSUME IInv, NEW c \in Conn, NEW t \in Table, TableSeen(c, t)
  PROVE  Shape(c, t) \in Cols
<1>1. View(c, SchemaKey(t)) \in Datum
  BY KeyParts, GetType DEF IInv, View, TableSeen
<1> QED
  BY <1>1, DatumParts DEF Shape

LEMMA CurrentType ==
  ASSUME IInv, NEW c \in Conn, NEW k \in Key
  PROVE  Current(c, k) \in Datum \cup {None}
BY BaseFacts, GetType DEF Current

\* A write to one key, with a temp key unless the transaction is autocommit.
LEMMA OneKeyIInv ==
  ASSUME IInv, NEW c \in Conn, AcquireOk(c), Active(c), state[c].txid \in Txid,
         NEW k \in Key, NEW s, WellFormed(s),
         \A u \in Txid : HasMark(s, u) /\ u # state[c].txid =>
                         HasMark(BaseTree[k], u),
         NEW temps \in SUBSET Key, state[c].autocommit \/ k \in temps,
         Write(c, [BaseTree EXCEPT ![k] = s], temps),
         nextId' \in {nextId, nextId + 1},
         stmt' \in [Conn -> StmtState]
  PROVE  IInv'
<1> DEFINE newTree == [BaseTree EXCEPT ![k] = s]
<1>1. s \in SUBSET SnapshotItem
  BY DEF WellFormed
<1>2. BaseTree \in [Key -> SUBSET SnapshotItem]
  BY BaseFacts
<1>3. newTree \in [Key -> SUBSET SnapshotItem]
  BY <1>1, <1>2
<1>4. \A j \in Key : newTree[j] = IF j = k THEN s ELSE BaseTree[j]
  BY <1>2
<1>5. Write(c, newTree, temps)
  OBVIOUS
<1> HIDE DEF newTree
<1>6. /\ \A j \in Key : WellFormed(newTree[j])
      /\ \A j \in Key, u \in Txid : HasMark(newTree[j], u) /\ u # state[c].txid
           => HasMark(BaseTree[j], u)
      /\ \A j \in Key : newTree[j] = BaseTree[j] \/ state[c].autocommit
                        \/ j \in temps
  BY <1>4, BaseFacts
<1> QED
  BY <1>3, <1>5, <1>6, WriteIInv

LEMMA InsertSchemaIInv ==
  ASSUME IInv, NEW c \in Conn, NEW t \in Table, InsertSchema(c, t)
  PROVE  IInv'
<1> DEFINE k == SchemaKey(t)
           s == Update(BaseTree[k], state[c].txid, <<SchemaSlot, 1>>)
<1>1. AcquireOk(c) /\ Active(c) /\ state[c].txid \in Txid
  BY MayFacts DEF InsertSchema
<1>2. k \in Key /\ WellFormed(BaseTree[k]) /\ <<SchemaSlot, 1>> \in Datum
  BY KeyParts, BaseFacts, DatumParts
<1>3. WellFormed(s) /\ \A u \in Txid : HasMark(s, u) /\ u # state[c].txid =>
                                       HasMark(BaseTree[k], u)
  BY <1>1, <1>2, UpdateWellFormed, UpdateMarks
<1>4. /\ Write(c, [BaseTree EXCEPT ![k] = s], {k}) /\ nextId' = nextId
      /\ stmt' \in [Conn -> StmtState]
  BY DEF InsertSchema, IInv, TypeOK, Reaches, StmtState
<1> HIDE DEF k, s
<1> QED
  BY <1>1, <1>2, <1>3, <1>4, OneKeyIInv

\* A row write leaves a temp key unless the statement is autocommit.
LEMMA RowWriteIInv ==
  ASSUME IInv, NEW c \in Conn, AcquireOk(c), Active(c), state[c].txid \in Txid,
         NEW k \in Key, NEW s, WellFormed(s),
         \A u \in Txid : HasMark(s, u) /\ u # state[c].txid =>
                         HasMark(BaseTree[k], u),
         Write(c, [BaseTree EXCEPT ![k] = s], Undoable(c, {k})),
         DataDone(c), nextId' \in {nextId, nextId + 1}
  PROVE  IInv'
<1>1. stmt' \in [Conn -> StmtState]
  BY DataDoneType DEF IInv
<1>2. Undoable(c, {k}) \in SUBSET Key
      /\ (state[c].autocommit \/ k \in Undoable(c, {k}))
  BY DEF Undoable
<1> QED
  BY <1>1, <1>2, OneKeyIInv

LEMMA AppendDataIInv ==
  ASSUME IInv, NEW c \in Conn, NEW t \in Table, NEW r \in Row, NEW v \in Val,
         AppendData(c, t, r, v)
  PROVE  IInv'
<1> DEFINE k == <<t, r>>
           s == NewSnapshot(state[c].txid, <<v, Shape(c, t)>>)
<1>1. AcquireOk(c) /\ Active(c) /\ state[c].txid \in Txid
  BY MayFacts DEF AppendData
<1>2. k \in Key /\ <<v, Shape(c, t)>> \in Datum
  BY KeyParts, ShapeType, DatumParts DEF AppendData
<1>3. WellFormed(s) /\ \A u \in Txid : HasMark(s, u) => u = state[c].txid
  BY <1>1, <1>2, NewSnapshotWellFormed, NewSnapshotMarks
<1>4. /\ Write(c, [BaseTree EXCEPT ![k] = s], Undoable(c, {k}))
      /\ DataDone(c) /\ nextId' = nextId + 1
  BY DEF AppendData
<1> HIDE DEF k, s
<1> QED
  BY <1>1, <1>2, <1>3, <1>4, RowWriteIInv

LEMMA InsertDataIInv ==
  ASSUME IInv, NEW c \in Conn, NEW t \in Table, NEW r \in Row, NEW v \in Val,
         InsertData(c, t, r, v)
  PROVE  IInv'
<1> DEFINE k == <<t, r>>
           s == Update(BaseTree[k], state[c].txid, <<v, Shape(c, t)>>)
<1>1. AcquireOk(c) /\ Active(c) /\ state[c].txid \in Txid
  BY MayFacts DEF InsertData
<1>2. k \in Key /\ WellFormed(BaseTree[k]) /\ <<v, Shape(c, t)>> \in Datum
  BY KeyParts, BaseFacts, ShapeType, DatumParts DEF InsertData
<1>3. WellFormed(s) /\ \A u \in Txid : HasMark(s, u) /\ u # state[c].txid =>
                                       HasMark(BaseTree[k], u)
  BY <1>1, <1>2, UpdateWellFormed, UpdateMarks
<1>4. /\ Write(c, [BaseTree EXCEPT ![k] = s], Undoable(c, {k}))
      /\ DataDone(c) /\ nextId' = nextId
  BY DEF InsertData
<1> HIDE DEF k, s
<1> QED
  BY <1>1, <1>2, <1>3, <1>4, RowWriteIInv

LEMMA DeleteDataIInv ==
  ASSUME IInv, NEW c \in Conn, NEW t \in Table, NEW r \in Row,
         DeleteData(c, t, r)
  PROVE  IInv'
<1> DEFINE k == <<t, r>>
           s == Delete(BaseTree[k], state[c].txid)
<1>1. AcquireOk(c) /\ Active(c) /\ state[c].txid \in Txid
  BY MayFacts DEF DeleteData
<1>2. k \in Key /\ WellFormed(BaseTree[k])
  BY KeyParts, BaseFacts
<1>3. WellFormed(s) /\ \A u \in Txid : HasMark(s, u) /\ u # state[c].txid =>
                                       HasMark(BaseTree[k], u)
  BY <1>1, <1>2, DeleteWellFormed, DeleteMarks
<1>4. /\ Write(c, [BaseTree EXCEPT ![k] = s], Undoable(c, {k}))
      /\ DataDone(c) /\ nextId' = nextId
  BY DEF DeleteData
<1> HIDE DEF k, s
<1> QED
  BY <1>1, <1>2, <1>3, <1>4, RowWriteIInv

\* A write that gives each key of `touched` a new snapshot, new[k].
LEMMA ManyKeysIInv ==
  ASSUME IInv, NEW c \in Conn, AcquireOk(c), Active(c), state[c].txid \in Txid,
         NEW touched \in SUBSET Key, NEW newTree,
         newTree \in [Key -> SUBSET SnapshotItem],
         \A k \in Key \ touched : newTree[k] = BaseTree[k],
         \A k \in touched : WellFormed(newTree[k]),
         \A k \in touched, u \in Txid : HasMark(newTree[k], u) /\ u # state[c].txid
           => HasMark(BaseTree[k], u),
         NEW temps \in SUBSET Key, state[c].autocommit \/ touched \subseteq temps,
         Write(c, newTree, temps), nextId' = nextId,
         stmt' \in [Conn -> StmtState]
  PROVE  IInv'
<1>1. \A k \in Key : WellFormed(newTree[k])
  BY BaseFacts
<1>2. \A k \in Key, u \in Txid : HasMark(newTree[k], u) /\ u # state[c].txid
        => HasMark(BaseTree[k], u)
  OBVIOUS
<1>3. \A k \in Key : newTree[k] = BaseTree[k] \/ state[c].autocommit \/ k \in temps
  OBVIOUS
<1> QED
  BY <1>1, <1>2, <1>3, WriteIInv

LEMMA DeleteSchemaIInv ==
  ASSUME IInv, NEW c \in Conn, NEW t \in Table, DeleteSchema(c, t)
  PROVE  IInv'
<1> DEFINE gone == {SchemaKey(t)} \cup Present(RowKeys(t))
           newTree == [k \in Key |-> IF k \in gone
                                     THEN Delete(BaseTree[k], state[c].txid)
                                     ELSE BaseTree[k]]
<1>1. AcquireOk(c) /\ Active(c) /\ state[c].txid \in Txid
  BY MayFacts DEF DeleteSchema
<1>2. gone \in SUBSET Key
  BY KeyParts DEF Present
<1>3. /\ Write(c, newTree, gone) /\ nextId' = nextId
      /\ stmt' \in [Conn -> StmtState]
  BY DEF DeleteSchema, IInv, TypeOK, Reaches, StmtState
<1>4. \A k \in Key : /\ k \notin gone => newTree[k] = BaseTree[k]
                     /\ k \in gone => newTree[k] = Delete(BaseTree[k], state[c].txid)
  OBVIOUS
<1>5. newTree = [k \in Key |-> newTree[k]]
  OBVIOUS
<1> HIDE DEF gone, newTree
<1>6. \A k \in Key : WellFormed(newTree[k])
  BY <1>1, <1>4, BaseFacts, DeleteWellFormed
<1>7. \A k \in gone, u \in Txid : HasMark(newTree[k], u) /\ u # state[c].txid
        => HasMark(BaseTree[k], u)
  BY <1>1, <1>2, <1>4, BaseFacts, DeleteMarks, SMT
<1>8. newTree \in [Key -> SUBSET SnapshotItem]
  BY <1>5, <1>6 DEF WellFormed
<1> QED
  BY <1>1, <1>2, <1>3, <1>4, <1>6, <1>7, <1>8, ManyKeysIInv

LEMMA RenameSchemaIInv ==
  ASSUME IInv, NEW c \in Conn, NEW t \in Table, NEW v \in Table,
         RenameSchema(c, t, v)
  PROVE  IInv'
<1> DEFINE old == {SchemaKey(t)} \cup Present(RowKeys(t))
           From(k) == <<t, k[2]>>
           new == {<<v, k[2]>> : k \in old}
           me == state[c].txid
           newTree == [k \in Key |->
                         CASE k \in old -> Delete(BaseTree[k], me)
                           [] k \in new -> NewSnapshot(me, Front(BaseTree[From(k)]).data)
                           [] OTHER     -> BaseTree[k]]
           touched == old \cup new
<1>1. AcquireOk(c) /\ Active(c) /\ me \in Txid
  BY MayFacts DEF RenameSchema
<1>2. /\ Write(c, newTree, Undoable(c, touched)) /\ nextId' = nextId
      /\ DataDone(c) /\ t # v /\ BaseTree[SchemaKey(t)] # {}
  BY DEF RenameSchema
<1>3. stmt' \in [Conn -> StmtState]
  BY <1>2, DataDoneType DEF IInv
<1>4. old \in SUBSET Key /\ touched \in SUBSET Key
  BY KeyParts, SMT DEF Present, Key
<1>5. \A k \in old : BaseTree[k] # {} /\ k[1] = t /\ k = From(k)
  BY <1>2, KeyParts, SMT DEF Present
<1>6. \A k \in new : k \notin old /\ From(k) \in old
  BY <1>2, <1>5, SMT
<1>7. \A k \in Key :
        /\ k \notin touched => newTree[k] = BaseTree[k]
        /\ k \in old => newTree[k] = Delete(BaseTree[k], me)
        /\ k \in new => newTree[k] = NewSnapshot(me, Front(BaseTree[From(k)]).data)
  BY <1>6
<1>8. newTree = [k \in Key |-> newTree[k]]
  BY SMT
<1>9. Undoable(c, touched) \in SUBSET Key
      /\ (state[c].autocommit \/ touched \subseteq Undoable(c, touched))
  BY <1>4 DEF Undoable
<1> HIDE DEF newTree
<1>10. \A k \in new : Front(BaseTree[From(k)]).data \in Datum
  <2> SUFFICES ASSUME NEW k \in new
               PROVE  Front(BaseTree[From(k)]).data \in Datum
    OBVIOUS
  <2>1. From(k) \in Key /\ BaseTree[From(k)] # {}
    BY <1>4, <1>5, <1>6
  <2> HIDE DEF From
  <2>2. Front(BaseTree[From(k)]) \in SnapshotItem
    BY <2>1, BaseFacts, FrontIsNewest DEF WellFormed
  <2> QED
    BY <2>2 DEF SnapshotItem
<1> HIDE DEF old, new, From, me
<1>11. \A k \in touched : WellFormed(newTree[k])
  BY <1>1, <1>4, <1>7, <1>10, BaseFacts, DeleteWellFormed, NewSnapshotWellFormed
<1>12. \A k \in touched, u \in Txid : HasMark(newTree[k], u) /\ u # me
         => HasMark(BaseTree[k], u)
  BY <1>1, <1>4, <1>7, <1>10, BaseFacts, DeleteMarks, NewSnapshotMarks, SMT
<1> HIDE DEF touched
<1>13. \A k \in Key : WellFormed(newTree[k])
  BY <1>7, <1>11, BaseFacts
<1>14. newTree \in [Key -> SUBSET SnapshotItem]
  BY <1>8, <1>13 DEF WellFormed
<1> QED
  BY <1>1, <1>2, <1>3, <1>4, <1>7, <1>9, <1>11, <1>12, <1>14, ManyKeysIInv DEF me

\* ALTER TABLE: rows and schema are rewritten where the writer sees them.
LEMMA ReshapeIInv ==
  ASSUME IInv, NEW c \in Conn, NEW t \in Table, AlterTarget(c, t),
         NEW rows \in SUBSET Key, \A k \in rows : Current(c, k) # None,
         NEW cols \in Cols, Reshape(c, t, rows, cols)
  PROVE  IInv'
<1> DEFINE touched == rows \cup {SchemaKey(t)}
           me == state[c].txid
           D(k) == <<Current(c, k)[1], cols>>
           newTree == [k \in Key |-> IF k \in touched
                         THEN Update(BaseTree[k], me, D(k)) ELSE BaseTree[k]]
<1>1. AcquireOk(c) /\ Active(c) /\ me \in Txid
  BY MayFacts DEF AlterTarget
<1>2. touched \in SUBSET Key /\ \A k \in touched : Current(c, k) # None
  BY KeyParts DEF AlterTarget
<1>3. /\ Write(c, newTree, Undoable(c, touched)) /\ nextId' = nextId
      /\ DataDone(c)
  BY DEF Reshape
<1>4. stmt' \in [Conn -> StmtState]
  BY <1>3, DataDoneType DEF IInv
<1>5. Undoable(c, touched) \in SUBSET Key
      /\ (state[c].autocommit \/ touched \subseteq Undoable(c, touched))
  BY <1>2 DEF Undoable
<1>6. \A k \in touched : D(k) \in Datum
  BY <1>2, CurrentType, DatumParts
<1>7. \A k \in Key : /\ k \notin touched => newTree[k] = BaseTree[k]
                     /\ k \in touched => newTree[k] = Update(BaseTree[k], me, D(k))
  OBVIOUS
<1>8. newTree = [k \in Key |-> newTree[k]]
  OBVIOUS
<1> HIDE DEF touched, me, D, newTree
<1>9. \A k \in Key : WellFormed(newTree[k])
  BY <1>1, <1>2, <1>6, <1>7, BaseFacts, UpdateWellFormed
<1>10. \A k \in touched, u \in Txid : HasMark(newTree[k], u) /\ u # me
         => HasMark(BaseTree[k], u)
  <2> SUFFICES ASSUME NEW k \in touched, NEW u \in Txid,
                      HasMark(newTree[k], u), u # me
               PROVE  HasMark(BaseTree[k], u)
    OBVIOUS
  <2>1. /\ WellFormed(BaseTree[k]) /\ D(k) \in Datum
        /\ HasMark(Update(BaseTree[k], me, D(k)), u)
    BY <1>2, <1>6, <1>7, BaseFacts
  <2> QED
    BY <1>1, <2>1, UpdateMarks
<1>11. newTree \in [Key -> SUBSET SnapshotItem]
  BY <1>8, <1>9 DEF WellFormed
<1> QED
  BY <1>1, <1>2, <1>3, <1>4, <1>5, <1>7, <1>9, <1>10, <1>11, ManyKeysIInv DEF me

LEMMA AlterIInv ==
  ASSUME IInv, NEW c \in Conn, NEW t \in Table,
         RenameColumn(c, t) \/ AddColumn(c, t) \/ DropColumn(c, t)
  PROVE  IInv'
<1>1. RowsSeen(c, t) \in SUBSET Key /\ \A k \in RowsSeen(c, t) : Current(c, k) # None
  BY KeyParts DEF RowsSeen
<1>2. AlterTarget(c, t) => Current(c, SchemaKey(t))[2] \in Cols
  BY KeyParts, CurrentType, DatumParts DEF AlterTarget
<1>3. 1 \in Cols /\ 2 \in Cols
  BY DEF Cols
<1>4. CASE RenameColumn(c, t)
  <2>1. AlterTarget(c, t) /\ Reshape(c, t, {}, Current(c, SchemaKey(t))[2])
    BY <1>4 DEF RenameColumn
  <2> QED
    BY <1>2, <2>1, ReshapeIInv
<1>5. CASE AddColumn(c, t)
  <2>1. AlterTarget(c, t) /\ Reshape(c, t, RowsSeen(c, t), 2)
    BY <1>5 DEF AddColumn
  <2> QED
    BY <1>1, <1>3, <2>1, ReshapeIInv
<1>6. CASE DropColumn(c, t)
  <2>1. AlterTarget(c, t) /\ Reshape(c, t, RowsSeen(c, t), 1)
    BY <1>6 DEF DropColumn
  <2> QED
    BY <1>1, <1>3, <2>1, ReshapeIInv
<1> QED
  BY <1>4, <1>5, <1>6

LEMMA SetIndexesIInv ==
  ASSUME IInv, NEW c \in Conn, NEW t \in Table,
         NEW from, NEW to \in {SchemaSlot, Indexed}, SetIndexes(c, t, from, to)
  PROVE  IInv'
<1> DEFINE k == SchemaKey(t)
           f == Front(BaseTree[k])
           s == Delete(BaseTree[k], state[c].txid)
           d == <<to, f.data[2]>>
           n == Update(s, state[c].txid, d)
<1>1. AcquireOk(c) /\ Active(c) /\ state[c].txid \in Txid
  BY MayFacts DEF SetIndexes
<1>2. k \in Key /\ WellFormed(BaseTree[k]) /\ BaseTree[k] # {}
  BY KeyParts, BaseFacts DEF SetIndexes
<1>3. f \in SnapshotItem
  BY <1>2, FrontIsNewest DEF WellFormed
<1>4. d \in Datum
  BY <1>3, DatumParts DEF SnapshotItem
<1>5. /\ Write(c, [BaseTree EXCEPT ![k] = n], {k}) /\ nextId' = nextId
      /\ stmt' \in [Conn -> StmtState]
  BY DataDoneType DEF SetIndexes, IInv
<1> HIDE DEF k, f, d
<1>6. WellFormed(s) /\ \A u \in Txid : HasMark(s, u) /\ u # state[c].txid =>
                                       HasMark(BaseTree[k], u)
  BY <1>1, <1>2, DeleteWellFormed, DeleteMarks
<1> HIDE DEF s
<1>7. WellFormed(n) /\ \A u \in Txid : HasMark(n, u) /\ u # state[c].txid =>
                                       HasMark(s, u)
  BY <1>1, <1>4, <1>6, UpdateWellFormed, UpdateMarks
<1> HIDE DEF n
<1> QED
  BY <1>1, <1>2, <1>5, <1>6, <1>7, OneKeyIInv

LEMMA WriteStepIInv ==
  ASSUME IInv, NEW c \in Conn, WriteStep(c)
  PROVE  IInv'
BY InsertSchemaIInv, DeleteSchemaIInv, AppendDataIInv, InsertDataIInv,
   DeleteDataIInv, RenameSchemaIInv, AlterIInv, SetIndexesIInv
DEF WriteStep, CreateIndex, DropIndex
-----------------------------------------------------------------------------
(* Failed calls, begin, commit and rollback *)

\* A failed call leaves no mark of the holder whose lock it took over.
LEMMA CallFailsIInv ==
  ASSUME IInv, NEW c \in Conn, CallFails(c)
  PROVE  IInv'
<1>0. /\ TypeOK /\ IdsFresh /\ UniqueTx /\ AliveRecord
      /\ lock.lock_txid \in Txid \cup {None}
  BY DEF IInv, TypeOK, Lock
<1>1. /\ tree' = BaseTree /\ temp' = BaseTemp /\ txdata' = BaseTxData
      /\ lock' = IF LockTimedOut THEN Released(lock, lock.lock_txid) ELSE lock
      /\ nextId' = nextId /\ now' = now /\ state' = state /\ wroteAt' = wroteAt
      /\ stmt' \in [Conn -> StmtState]
  BY <1>0 DEF CallFails, Reaches, TypeOK, StmtState
<1>2. \A d \in Conn : Active(d)' <=> Active(d)
  BY <1>1 DEF Active
<1>3. TypeOK'
  <2>1. lock' \in Lock
    BY <1>0, <1>1 DEF Released, TypeOK, Lock
  <2>2. /\ tree' \in [Key -> SUBSET SnapshotItem] /\ txdata' \in SUBSET TxData
        /\ temp' \subseteq temp
    BY <1>1, BaseFacts
  <2> QED
    BY <1>0, <1>1, <2>1, <2>2 DEF TypeOK
<1>4. \A k \in Key : WellFormed(tree'[k])
  BY <1>1, BaseFacts
<1>5. IdsFresh'
  <2>1. \A k \in Key, u \in Txid : HasMark(BaseTree[k], u) => u < nextId
    <3>1. \A k \in Key, u \in Txid : HasMark(tree[k], u) => u < nextId
      BY <1>0, MarksBelow DEF IdsFresh, IInv
    <3> QED
      BY <3>1, BaseFacts
  <2>2. \A k \in Key : \A i \in BaseTree[k] :
          i.created_by < nextId /\ (i.deleted_by = None \/ i.deleted_by < nextId)
    BY <2>1, MarksBelow, BaseFacts
  <2>3. \A r \in BaseTxData : r.txid < nextId
    BY BaseFacts
  <2> QED
    BY <1>0, <1>1, <1>2, <2>2, <2>3 DEF IdsFresh
<1>6. UniqueTx' /\ AliveRecord'
  BY <1>0, <1>1, <1>2, BaseFacts DEF UniqueTx, AliveRecord
<1>7. MarksUndoable'
  BY <1>1, <1>2, BaseMarks DEF MarksUndoable
<1>8. MarksUnderLock'
  BY <1>1, <1>2, BaseMarks DEF MarksUnderLock
<1> QED
  BY <1>3, <1>4, <1>5, <1>6, <1>7, <1>8 DEF IInv

\* A step that registers a fresh id, for connection c or for a mere read.
LEMMA RegisterIInv ==
  ASSUME IInv, NEW alive \in BOOLEAN, Register(alive),
         UNCHANGED <<tree, temp, lock, now, wroteAt>>,
         stmt' \in [Conn -> StmtState],
         \/ state' = state
         \/ \E c \in Conn, mode \in Modes :
              /\ alive
              /\ state' = [state EXCEPT ![c] =
                   [txid |-> nextId, created_at |-> now, autocommit |-> mode]]
  PROVE  IInv'
<1>0. /\ TypeOK /\ IdsFresh /\ UniqueTx /\ AliveRecord
      /\ MarksUndoable /\ MarksUnderLock
      /\ \A k \in Key : WellFormed(tree[k])
  BY DEF IInv
<1>1. /\ nextId \in Nat /\ nextId' = nextId + 1 /\ now \in Nat
      /\ txdata' = txdata \cup
           {[txid |-> nextId, alive |-> alive, created_at |-> now]}
  BY <1>0 DEF Register, TypeOK
<1>2. [txid |-> nextId, alive |-> alive, created_at |-> now] \in TxData
  BY <1>1 DEF TxData, Txid
<1>3. /\ tree' = tree /\ temp' = temp /\ lock' = lock
      /\ \A k \in Key, u \in Txid : HasMark(tree[k], u) => u < nextId
  BY <1>0, MarksBelow DEF IdsFresh
<1>4. \A k \in Key : ~HasMark(tree[k], nextId)
  BY <1>1, <1>3, SMT DEF Txid
<1>5. ASSUME NEW d \in Conn, state'[d] = state[d]
      PROVE  Active(d)' <=> Active(d)
  BY <1>5 DEF Active
<1>6. \A k \in Key : \A i \in tree[k] :
        i.created_by < nextId + 1 /\ (i.deleted_by = None \/ i.deleted_by < nextId + 1)
  <2>1. \A k \in Key, u \in Txid : HasMark(tree[k], u) => u < nextId + 1
    BY <1>1, <1>3, SMT DEF Txid
  <2> QED
    BY <1>0, <2>1, MarksBelow
<1>7. \A d \in txdata' : d.txid < nextId'
  BY <1>0, <1>1, SMT DEF IdsFresh, TypeOK, TxData, Txid
<1>8. \A d \in Conn : Active(d) => /\ state[d].txid \in Txid /\ state[d].txid < nextId
                                   /\ state[d].autocommit \in Modes
  BY <1>0, ActiveState DEF IdsFresh
<1>9. CASE state' = state
  <2>1. TypeOK'
    BY <1>0, <1>1, <1>2, <1>9, SMT DEF TypeOK
  <2>2. IdsFresh'
    BY <1>1, <1>3, <1>5, <1>6, <1>7, <1>8, <1>9, SMT DEF IdsFresh, Txid
  <2>3. UniqueTx' /\ MarksUndoable' /\ MarksUnderLock'
    BY <1>0, <1>3, <1>5, <1>9 DEF UniqueTx, MarksUndoable, MarksUnderLock
  <2>4. AliveRecord'
    BY <1>0, <1>1, <1>5, <1>8, <1>9, SMT DEF AliveRecord, Txid
  <2> QED
    BY <1>0, <1>3, <2>1, <2>2, <2>3, <2>4 DEF IInv
<1>10. ASSUME NEW c \in Conn, NEW mode \in Modes, alive = TRUE,
              state' = [state EXCEPT ![c] =
                [txid |-> nextId, created_at |-> now, autocommit |-> mode]]
       PROVE  IInv'
  <2>1. mode \in BOOLEAN
    BY SledAssumption
  <2>2. TypeOK'
    <3>1. [txid |-> nextId, created_at |-> now, autocommit |-> mode] \in TxState
      BY <1>1, <2>1 DEF TxState, Txid
    <3>2. state' \in [Conn -> TxState \cup {Idle}]
      BY <1>0, <1>10, <3>1 DEF TypeOK
    <3>3. txdata' \in SUBSET TxData
      BY <1>0, <1>1, <1>2 DEF TypeOK
    <3> QED
      BY <1>0, <1>1, <3>2, <3>3, SMT DEF TypeOK
  <2>3. /\ state'[c].txid = nextId /\ state'[c].autocommit = mode
        /\ \A d \in Conn \ {c} : state'[d] = state[d]
    BY <1>0, <1>10 DEF TypeOK
  <2>4. IdsFresh'
    <3>1. \A d \in Conn : Active(d)' => /\ state'[d].txid < nextId'
                                      /\ state'[d].autocommit \in Modes
      <4> SUFFICES ASSUME NEW d \in Conn, Active(d)'
                   PROVE  state'[d].txid < nextId' /\ state'[d].autocommit \in Modes
        OBVIOUS
      <4>1. CASE d = c
        <5>1. state'[d].autocommit \in Modes
          BY <2>3, <4>1, Zenon
        <5>2. state'[d].txid < nextId'
          BY <1>1, <2>3, <4>1, SMT
        <5> QED
          BY <5>1, <5>2
      <4>2. CASE d # c
        BY <1>1, <1>5, <1>8, <2>3, <4>2, SMT DEF Txid
      <4> QED
        BY <4>1, <4>2
    <3> QED
      BY <1>1, <1>3, <1>6, <1>7, <3>1 DEF IdsFresh
  <2>5. UniqueTx'
    <3> SUFFICES ASSUME NEW a \in Conn, NEW b \in Conn, Active(a)', Active(b)',
                        state'[a].txid = state'[b].txid
                 PROVE  a = b
      BY DEF UniqueTx
    <3>1. \A d \in Conn \ {c} : Active(d)' => state'[d].txid < nextId
      BY <1>5, <1>8, <2>3
    <3>2. CASE a = c \/ b = c
      BY <1>1, <2>3, <3>1, <3>2, SMT
    <3>3. CASE a # c /\ b # c
      BY <1>0, <1>5, <2>3, <3>3 DEF UniqueTx
    <3> QED
      BY <3>2, <3>3
  <2>6. MarksUndoable' /\ MarksUnderLock'
    BY <1>0, <1>3, <1>4, <1>5, <2>3 DEF MarksUndoable, MarksUnderLock
  <2>7. AliveRecord'
    <3> SUFFICES ASSUME Timeout = None, NEW d \in Conn, NEW r \in txdata',
                        Active(d)', r.txid = state'[d].txid
                 PROVE  r.alive
      BY DEF AliveRecord
    <3>1. CASE r \in txdata
      <4>1. r.txid < nextId /\ r.txid \in Nat
        BY <1>0, <3>1 DEF IdsFresh, TypeOK, TxData, Txid
      <4>2. d # c
        BY <1>1, <2>3, <4>1, SMT
      <4> QED
        BY <1>0, <1>5, <2>3, <3>1, <4>2 DEF AliveRecord
    <3>2. CASE r = [txid |-> nextId, alive |-> alive, created_at |-> now]
      BY <1>10, <3>2
    <3> QED
      BY <1>1, <3>1, <3>2
  <2> QED
    BY <1>0, <1>3, <2>2, <2>4, <2>5, <2>6, <2>7 DEF IInv
<1> QED
  BY <1>9, <1>10

LEMMA BeginIInv ==
  ASSUME IInv, NEW c \in Conn, Begin(c)
  PROVE  IInv'
<1>1. Register(TRUE) /\ UNCHANGED <<tree, temp, lock, now, wroteAt>>
  BY DEF Begin
<1>2. stmt' \in [Conn -> StmtState]
  BY DEF Begin, IInv, TypeOK
<1>3. FALSE \in Modes /\ state' = [state EXCEPT ![c] =
        [txid |-> nextId, created_at |-> now, autocommit |-> FALSE]]
  BY DEF Begin
<1> QED
  BY <1>1, <1>2, <1>3, RegisterIInv

\* A step that changes at most where executors are, the clock and the
\* history variable.
LEMMA QuietIInv ==
  ASSUME IInv, UNCHANGED <<sledVars, state>>, now' \in Nat, wroteAt' = wroteAt,
         stmt' \in [Conn -> StmtState]
  PROVE  IInv'
<1>1. /\ tree' = tree /\ temp' = temp /\ txdata' = txdata /\ lock' = lock
      /\ nextId' = nextId /\ state' = state
  BY DEF sledVars
<1>2. \A d \in Conn : Active(d)' <=> Active(d)
  BY <1>1 DEF Active
<1>3. TypeOK'
  BY <1>1 DEF IInv, TypeOK
<1> QED
  BY <1>1, <1>2, <1>3 DEF IInv, IdsFresh, UniqueTx, AliveRecord,
     MarksUndoable, MarksUnderLock

LEMMA BeginStatementIInv ==
  ASSUME IInv, NEW c \in Conn, BeginStatement(c)
  PROVE  IInv'
<1>1. UNCHANGED <<tree, temp, lock, now, wroteAt>>
      /\ stmt' \in [Conn -> StmtState]
      /\ TRUE \in Modes
  BY DEF BeginStatement, IInv, TypeOK, StmtState
<1>2. CASE Register(TRUE) /\ state' = [state EXCEPT ![c] =
             [txid |-> nextId, created_at |-> now, autocommit |-> TRUE]]
  BY <1>1, <1>2, RegisterIInv
<1>3. CASE UNCHANGED <<nextId, txdata, state>>
  BY <1>1, <1>3, QuietIInv DEF sledVars, IInv, TypeOK
<1> QED
  BY <1>2, <1>3 DEF BeginStatement

LEMMA ReadsIInv ==
  ASSUME IInv, NEW c \in Conn, PlanStatement(c) \/ FetchAllSchemas(c)
  PROVE  IInv'
<1>1. /\ UNCHANGED <<tree, temp, lock, now, wroteAt>> /\ state' = state
      /\ Register(FALSE) \/ Register(TRUE)
      /\ stmt' \in [Conn -> StmtState]
  BY DEF PlanStatement, FetchAllSchemas, IInv, TypeOK
<1> QED
  BY <1>1, RegisterIInv

LEMMA QuietStepsIInv ==
  ASSUME IInv,
         Tick \/ UNCHANGED vars \/ \E c \in Conn : StatementFails(c) \/ CommitFails(c)
  PROVE  IInv'
<1>1. TypeOK
  BY DEF IInv
<1>2. /\ UNCHANGED <<sledVars, state>> /\ now' \in Nat /\ wroteAt' = wroteAt
      /\ stmt' \in [Conn -> StmtState]
  BY <1>1, SMT DEF Tick, StatementFails, CommitFails, vars, sledVars, TypeOK, StmtState
<1> QED
  BY <1>2, QuietIInv

\* Connections that a step closes, or leaves alone with their marks.
LEMMA CloseIInv ==
  ASSUME IInv, NEW gone \in SUBSET Conn,
         TypeOK', \A k \in Key : WellFormed(tree'[k]), nextId' = nextId,
         \A c \in gone : state'[c] = Idle,
         \A c \in Conn \ gone : state'[c] = state[c],
         \A k \in Key, u \in Txid : HasMark(tree'[k], u) => HasMark(tree[k], u),
         \A r \in txdata' : r \in txdata
                            \/ (r.txid < nextId /\ \A c \in Conn \ gone :
                                  Active(c) => r.txid # state[c].txid),
         \A c \in Conn \ gone, k \in Key :
           /\ Active(c) /\ (Timeout = None \/ ~state[c].autocommit)
           /\ lock.lock_txid = state[c].txid
           => /\ lock'.lock_txid = lock.lock_txid
              /\ <<state[c].txid, k>> \in temp => <<state[c].txid, k>> \in temp'
  PROVE  IInv'
<1>0. /\ TypeOK /\ IdsFresh /\ UniqueTx /\ AliveRecord
      /\ MarksUndoable /\ MarksUnderLock
  BY DEF IInv
<1>1. \A d \in Conn : Active(d)' => /\ d \notin gone /\ Active(d)
                                    /\ state'[d] = state[d]
  BY DEF Active
<1>2. \A d \in Conn : Active(d) => state[d].txid \in Txid
  BY <1>0, ActiveState
<1>3. \A k \in Key, u \in Txid : HasMark(tree'[k], u) => u < nextId
  BY <1>0, MarksBelow DEF IdsFresh, IInv
<1>4. \A k \in Key : \A i \in tree'[k] :
        i.created_by < nextId /\ (i.deleted_by = None \/ i.deleted_by < nextId)
  BY <1>3, MarksBelow
<1>5. IdsFresh'
  BY <1>0, <1>1, <1>4 DEF IdsFresh
<1>6. UniqueTx'
  BY <1>0, <1>1 DEF UniqueTx
<1>7. AliveRecord'
  BY <1>0, <1>1, SMT DEF AliveRecord
<1>8. ASSUME NEW d \in Conn, NEW k \in Key, Active(d)',
             Timeout = None \/ ~state'[d].autocommit,
             HasMark(tree'[k], state'[d].txid)
      PROVE  /\ lock'.lock_txid = state'[d].txid
             /\ ~state'[d].autocommit => <<state'[d].txid, k>> \in temp'
  <2>1. /\ d \in Conn \ gone /\ Active(d) /\ state'[d] = state[d]
        /\ HasMark(tree[k], state[d].txid)
    BY <1>1, <1>2, <1>8
  <2>2. lock.lock_txid = state[d].txid
    BY <1>0, <1>8, <2>1 DEF MarksUnderLock
  <2>3. ~state[d].autocommit => <<state[d].txid, k>> \in temp
    BY <1>0, <2>1 DEF MarksUndoable
  <2> QED
    BY <1>8, <2>1, <2>2, <2>3
<1>9. MarksUndoable' /\ MarksUnderLock'
  BY <1>8 DEF MarksUndoable, MarksUnderLock
<1> QED
  BY <1>5, <1>6, <1>7, <1>9 DEF IInv

LEMMA ReopenIInv ==
  ASSUME IInv, Reopen
  PROVE  IInv'
<1>1. TypeOK'
  BY DEF Reopen, sledVars, IInv, TypeOK, StmtState
<1>2. /\ tree' = tree /\ txdata' = txdata /\ nextId' = nextId
      /\ \A c \in Conn : state'[c] = Idle
      /\ \A k \in Key : WellFormed(tree'[k])
  BY DEF Reopen, sledVars, IInv
<1> QED
  BY <1>1, <1>2, CloseIInv

LEMMA RolledBackFacts ==
  ASSUME IInv, NEW t \in Txid
  PROVE  /\ RolledBack(t) \in [Key -> SUBSET SnapshotItem]
         /\ \A k \in Key : WellFormed(RolledBack(t)[k])
         /\ \A k \in Key, u \in Txid : HasMark(RolledBack(t)[k], u)
              => HasMark(tree[k], u)
<1>1. \A k \in Key : RolledBack(t)[k] = tree[k]
                     \/ RolledBack(t)[k] = Rollback(tree[k], t)
  BY DEF RolledBack
<1>2. \A k \in Key : WellFormed(tree[k])
  BY DEF IInv
<1>3. \A k \in Key : WellFormed(RolledBack(t)[k])
  BY <1>1, <1>2, RollbackWellFormed
<1>4. RolledBack(t) = [k \in Key |-> RolledBack(t)[k]]
  BY DEF RolledBack
<1>5. \A k \in Key, u \in Txid : HasMark(RolledBack(t)[k], u) => HasMark(tree[k], u)
  BY <1>1, <1>2, RollbackMarks
<1>6. RolledBack(t) \in [Key -> SUBSET SnapshotItem]
  BY <1>3, <1>4 DEF WellFormed
<1> QED
  BY <1>3, <1>5, <1>6

LEMMA UnregisteredFacts ==
  ASSUME IInv, NEW t \in Txid
  PROVE  /\ Unregistered(txdata, t) \in SUBSET TxData
         /\ \A r \in Unregistered(txdata, t) :
              r \in txdata \/ (r.txid < nextId /\ r.txid = t)
BY DEF Unregistered, IInv, TypeOK, TxData, IdsFresh

LEMMA RollbackTxIInv ==
  ASSUME IInv, NEW c \in Conn, RollbackTx(c)
  PROVE  IInv'
<1> DEFINE me == state[c].txid
<1>0. TypeOK /\ UniqueTx
  BY DEF IInv
<1>1. Active(c) /\ me \in Txid
  BY <1>0, ActiveState DEF RollbackTx
<1>2. /\ state' = [state EXCEPT ![c] = Idle] /\ stmt' = [stmt EXCEPT ![c] = "none"]
      /\ nextId' = nextId /\ now' = now /\ wroteAt' = wroteAt
  BY DEF RollbackTx
<1>3. state'[c] = Idle /\ \A d \in Conn \ {c} : state'[d] = state[d]
  BY <1>0, <1>2 DEF TypeOK
<1>4. \A d \in Conn \ {c} : Active(d) => state[d].txid # me
  BY <1>0, <1>1 DEF UniqueTx
<1>5. {c} \in SUBSET Conn /\ \A d \in {c} : state'[d] = Idle
  BY <1>3
<1>6. CASE lock.lock_txid = me
  <2>1. /\ tree' = RolledBack(me) /\ temp' = TempWithout(me)
        /\ lock' = Released(lock, me) /\ txdata' = Unregistered(txdata, me)
    BY <1>6 DEF RollbackTx
  <2>2. TypeOK'
    <3>1. lock' \in Lock
      BY <1>0, <1>6, <2>1 DEF Released, TypeOK, Lock
    <3>2. temp' \in SUBSET (Txid \X Key)
      BY <1>0, <2>1 DEF TempWithout, TypeOK
    <3> QED
      BY <1>0, <1>1, <1>2, <2>1, <3>1, <3>2, RolledBackFacts, UnregisteredFacts
         DEF TypeOK, StmtState
  <2>3. /\ \A k \in Key : WellFormed(tree'[k])
        /\ \A k \in Key, u \in Txid : HasMark(tree'[k], u) => HasMark(tree[k], u)
    BY <1>1, <2>1, RolledBackFacts
  <2>4. \A r \in txdata' : r \in txdata
          \/ (r.txid < nextId /\ \A d \in Conn \ {c} :
                Active(d) => r.txid # state[d].txid)
    BY <1>1, <1>4, <2>1, UnregisteredFacts
  <2>5. \A d \in Conn \ {c} : Active(d) => lock.lock_txid # state[d].txid
    BY <1>4, <1>6
  <2> HIDE DEF me
  <2> QED
    BY <1>2, <1>3, <1>5, <2>2, <2>3, <2>4, <2>5, CloseIInv
<1>7. CASE lock.lock_txid # me
  <2>1. tree' = tree /\ temp' = temp /\ lock' = lock /\ txdata' = txdata
    BY <1>7 DEF RollbackTx
  <2>2. TypeOK' /\ \A k \in Key : WellFormed(tree'[k])
    BY <1>0, <1>2, <2>1 DEF TypeOK, IInv, StmtState
  <2> HIDE DEF me
  <2> QED
    BY <1>2, <1>3, <1>5, <2>1, <2>2, CloseIInv
<1> QED
  BY <1>6, <1>7

LEMMA LastInSet ==
  ASSUME NEW T \in SUBSET Nat, T # {}, NEW n \in Nat, \A x \in T : x <= n
  PROVE  Last(T) \in T
BY LargestExists DEF Last

LEMMA GcTreeFacts ==
  ASSUME IInv, NEW T
  PROVE  /\ GcTree(T) \in [Key -> SUBSET SnapshotItem]
         /\ \A k \in Key : WellFormed(GcTree(T)[k])
         /\ \A k \in Key, u \in Txid : HasMark(GcTree(T)[k], u) => HasMark(tree[k], u)
<1>1. \A k \in Key : GcTree(T)[k] = tree[k]
                     \/ GcTree(T)[k] = Gc(tree[k], Last(Touching(k, T)))
  BY DEF GcTree
<1>2. \A k \in Key : WellFormed(tree[k])
  BY DEF IInv
<1>3. \A k \in Key : WellFormed(GcTree(T)[k])
  BY <1>1, <1>2, GcWellFormed
<1>4. \A k \in Key, u \in Txid : HasMark(GcTree(T)[k], u) => HasMark(tree[k], u)
  BY <1>1, GcMarks
<1>5. GcTree(T) = [k \in Key |-> GcTree(T)[k]]
  BY DEF GcTree
<1>6. GcTree(T) \in [Key -> SUBSET SnapshotItem]
  BY <1>3, <1>5 DEF WellFormed
<1> QED
  BY <1>3, <1>4, <1>6

\* A commit of another connection neither releases the lock of an open
\* transaction nor collects it.
LEMMA HolderKept ==
  ASSUME IInv, NEW c \in Conn, Commit(c),
         NEW d \in Conn \ {c}, Active(d), lock.lock_txid = state[d].txid
  PROVE  /\ lock'.lock_txid = lock.lock_txid
         /\ state[d].txid \notin GcTxids(Unregistered(txdata, state[c].txid),
                                       Released(lock, state[c].txid).lock_txid)
<1> DEFINE me == state[c].txid
           released == Released(lock, me)
           records == Unregistered(txdata, me)
           T == GcTxids(records, released.lock_txid)
<1>0. TypeOK /\ UniqueTx /\ AliveRecord
  BY DEF IInv
<1>1. Active(c) /\ me \in Txid
  BY <1>0, ActiveState DEF Commit, FetchOk
<1>2. lock' = IF T = {} THEN released ELSE [released EXCEPT !.gc_txid = Last(T)]
  BY DEF Commit
<1>3. /\ records \in SUBSET TxData
      /\ \A r \in records : r \in txdata \/ (r.txid < nextId /\ r.txid = me)
  BY <1>1, UnregisteredFacts
<1>4. \A x \in T : \E e \in records : e.txid = x /\ GcDone(e, released.lock_txid)
  <2>1. \A r \in records : r.txid \in Nat
    BY <1>3 DEF TxData, Txid
  <2> HIDE DEF records, released
  <2> QED
    BY <2>1, SMT DEF GcTxids
<1>5. state[d].txid # me
  BY <1>0, <1>1 DEF UniqueTx
<1>6. released = lock /\ lock.lock_txid # me
  BY <1>5 DEF Released
<1>7. lock'.lock_txid = lock.lock_txid
  BY <1>0, <1>2, <1>6 DEF TypeOK, Lock
<1>8. ASSUME Timeout # None PROVE state[d].txid \notin T
  <2> HIDE DEF T, records
  <2> QED
    BY <1>4, <1>6, <1>8 DEF GcDone
<1>9. ASSUME Timeout = None PROVE state[d].txid \notin T
  <2>1. \A r \in records : r.txid = state[d].txid => r.alive
    BY <1>0, <1>3, <1>5, <1>9 DEF AliveRecord
  <2> HIDE DEF T, records
  <2> QED
    BY <1>4, <1>9, <2>1 DEF GcDone
<1> QED
  BY <1>7, <1>8, <1>9

\* The garbage collection of a commit keeps the temp keys of the lock holder.
LEMMA CommitIInv ==
  ASSUME IInv, NEW c \in Conn, Commit(c)
  PROVE  IInv'
<1> DEFINE me == state[c].txid
           released == Released(lock, me)
           records == Unregistered(txdata, me)
           T == GcTxids(records, released.lock_txid)
<1>0. TypeOK /\ UniqueTx /\ AliveRecord
  BY DEF IInv
<1>1. Active(c) /\ me \in Txid
  BY <1>0, ActiveState DEF Commit, FetchOk
<1>2. /\ tree' = GcTree(T) /\ temp' = GcTemp(T)
      /\ txdata' = {d \in records : d.txid \notin T}
      /\ lock' = IF T = {} THEN released ELSE [released EXCEPT !.gc_txid = Last(T)]
      /\ state' = [state EXCEPT ![c] = Idle] /\ stmt' = [stmt EXCEPT ![c] = "none"]
      /\ wroteAt' \in {nextId, wroteAt} /\ nextId' = nextId /\ now' = now
  BY DEF Commit
<1>3. /\ records \in SUBSET TxData
      /\ \A r \in records : r \in txdata \/ (r.txid < nextId /\ r.txid = me)
  BY <1>1, UnregisteredFacts
<1>4. released \in Lock
  BY <1>0, <1>1 DEF Released, TypeOK, Lock
<1>5. T \in SUBSET Nat /\ \A x \in T : x <= nextId
  <2>1. \A r \in records : r.txid \in Nat /\ r.txid < nextId
    BY <1>3 DEF IInv, IdsFresh, TxData, Txid
  <2>2. nextId \in Nat
    BY <1>0 DEF TypeOK
  <2> HIDE DEF records, released
  <2> QED
    BY <2>1, <2>2, SMT DEF GcTxids
<1>6. lock' \in Lock
  <2>1. T # {} => Last(T) \in Txid
    BY <1>0, <1>5, LastInSet DEF TypeOK, Txid
  <2> HIDE DEF T, released
  <2> QED
    BY <1>2, <1>4, <2>1 DEF Lock
<1>7. TypeOK'
  <2> HIDE DEF T, records, released
  <2>1. temp' \in SUBSET (Txid \X Key)
    BY <1>0, <1>2 DEF GcTemp, TypeOK
  <2>2. tree' \in [Key -> SUBSET SnapshotItem]
    BY <1>2, GcTreeFacts
  <2>3. txdata' \in SUBSET TxData
    BY <1>2, <1>3
  <2> QED
    BY <1>0, <1>2, <1>6, <2>1, <2>2, <2>3 DEF TypeOK, StmtState
<1>8. state'[c] = Idle /\ \A d \in Conn \ {c} : state'[d] = state[d]
  BY <1>0, <1>2 DEF TypeOK
<1>9. \A d \in Conn \ {c} : Active(d) => state[d].txid # me
  BY <1>0, <1>1 DEF UniqueTx
<1>10. ASSUME NEW d \in Conn \ {c}, Active(d), lock.lock_txid = state[d].txid
       PROVE  lock'.lock_txid = lock.lock_txid /\ state[d].txid \notin T
  BY <1>10, HolderKept
<1>11. \A d \in Conn \ {c}, k \in Key :
         /\ Active(d) /\ (Timeout = None \/ ~state[d].autocommit)
         /\ lock.lock_txid = state[d].txid
         => /\ lock'.lock_txid = lock.lock_txid
            /\ <<state[d].txid, k>> \in temp => <<state[d].txid, k>> \in temp'
  <2> HIDE DEF T
  <2> QED
    BY <1>2, <1>10 DEF GcTemp
<1>12. /\ \A k \in Key : WellFormed(tree'[k])
       /\ \A k \in Key, u \in Txid : HasMark(tree'[k], u) => HasMark(tree[k], u)
  <2> HIDE DEF T
  <2> QED
    BY <1>2, GcTreeFacts
<1>13. \A r \in txdata' : r \in txdata
         \/ (r.txid < nextId /\ \A d \in Conn \ {c} :
               Active(d) => r.txid # state[d].txid)
  <2> HIDE DEF T, records
  <2> QED
    BY <1>2, <1>3, <1>9
<1>14. {c} \in SUBSET Conn /\ \A d \in {c} : state'[d] = Idle
  BY <1>8
<1> HIDE DEF T, records, released, me
<1> QED
  BY <1>2, <1>7, <1>8, <1>11, <1>12, <1>13, <1>14, CloseIInv

LEMMA NextIInv == IInv /\ [Next]_vars => IInv'
<1> SUFFICES ASSUME IInv, [Next]_vars PROVE IInv'
  OBVIOUS
<1>1. CASE UNCHANGED vars
  BY <1>1, QuietStepsIInv
<1>2. CASE Tick
  BY <1>2, QuietStepsIInv
<1>3. CASE Reopen
  BY <1>3, ReopenIInv
<1>4. ASSUME NEW c \in Conn, ConnStep(c) PROVE IInv'
  BY <1>4, BeginIInv, BeginStatementIInv, WriteStepIInv, CallFailsIInv,
     QuietStepsIInv, CommitIInv, RollbackTxIInv, ReadsIInv DEF ConnStep
<1> QED
  BY <1>1, <1>2, <1>3, <1>4 DEF Next
-----------------------------------------------------------------------------
(* Theorems *)

\* IInv is an invariant of the storage.
THEOREM Invariance == Spec => []IInv
BY InitIInv, NextIInv, PTL DEF Spec

\* The tree, the lock record and the connections keep their types, whatever
\* the clients, timeouts and garbage collections do.
THEOREM TypeCorrect == Spec => []TypeOK
<1>1. IInv => TypeOK
  BY DEF IInv
<1> QED
  BY <1>1, Invariance, PTL

\* lock::acquire and the take-over of a timed-out lock never let two open
\* transactions have unfinished writes in the tree at once.
THEOREM WritesUnderLock == Spec => []MarksUnderLock
<1>1. IInv => MarksUnderLock
  BY DEF IInv
<1> QED
  BY <1>1, Invariance, PTL

\* rollback_txid finds every key an open BEGIN transaction has written:
\* neither gc nor the rollback of another transaction removes its temp keys.
THEOREM WritesUndoable == Spec => []MarksUndoable
<1>1. IInv => MarksUndoable
  BY DEF IInv
<1> QED
  BY <1>1, Invariance, PTL

\* With no tx_timeout, or with BEGIN transactions only, no connection reads
\* an unfinished write of another one (Snapshot::extract).
THEOREM ReadsAreClean ==
  ASSUME Timeout = None \/ TRUE \notin Modes
  PROVE  Spec => []NoDirtyRead
<1>1. IInv => NoDirtyRead
  <2> SUFFICES ASSUME IInv, NEW c \in Conn, NEW d \in Conn, NEW k \in Key,
                      c # d, Active(c), Active(d)
               PROVE  View(c, k) = Get(Rollback(tree[k], state[d].txid),
                                       state[c].txid, lock.lock_txid)
    BY DEF NoDirtyRead, FetchOk
  <2>1. /\ state[c].txid \in Txid /\ state[d].txid \in Txid
        /\ state[c].txid # state[d].txid /\ WellFormed(tree[k])
    BY ActiveState DEF IInv, UniqueTx
  <2>2. CASE ~HasMark(tree[k], state[d].txid)
    BY <2>2, RollbackOfNothing DEF View
  <2>3. CASE HasMark(tree[k], state[d].txid)
    <3>1. state[d].autocommit \in BOOLEAN /\ state[d].autocommit \in Modes
      BY ActiveState DEF IInv, IdsFresh
    <3>2. Timeout = None \/ ~state[d].autocommit
      BY <3>1
    <3>3. lock.lock_txid = state[d].txid
      BY <2>3, <3>2 DEF IInv, MarksUnderLock
    <3> QED
      BY <2>1, <3>3, LockHidesHolder DEF View
  <2> QED
    BY <2>2, <2>3
<1> QED
  BY <1>1, Invariance, PTL
=============================================================================
