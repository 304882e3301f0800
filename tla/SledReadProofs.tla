--------------------------- MODULE SledReadProofs ---------------------------
(***************************************************************************)
(* Writes and reads of SledStorage, for any number of connections, tables, *)
(* rows and values.  What a rollback of the lock holder would leave under  *)
(* a key, Committed(k), is what everyone but the holder reads; no write    *)
(* changes it, the one that takes over an expired lock included.  What the *)
(* transactions read changes by their own writes and by commits only, and  *)
(* a commit shows all of a transaction.                                    *)
(***************************************************************************)
EXTENDS SledStorageProofs

\* Most leaves are first-order; the ones that calculate cite SMT.
USE Zenon

-----------------------------------------------------------------------------
(* The lock holder, and what the others read *)

LEMMA HolderFacts ==
  ASSUME ReadInv
  PROVE  /\ lock.lock_txid \in Txid \cup {None}
         /\ nextId \in Txid /\ lock.lock_txid # nextId
         /\ lock.lock_txid # None => lock.lock_txid < nextId
<1>1. TypeOK /\ IdsFresh /\ OnRecord
  BY DEF ReadInv, IInv
<1>2. lock.lock_txid \in Txid \cup {None} /\ nextId \in Txid
  BY <1>1 DEF TypeOK, Lock, Txid
<1>3. lock.lock_txid # None => lock.lock_txid < nextId
  BY <1>1 DEF OnRecord, IdsFresh
<1> QED
  BY <1>2, <1>3, NoneNotNat, SMT DEF Txid

LEMMA MarkBounds ==
  ASSUME ReadInv, NEW k \in Key, NEW u \in Txid, HasMark(tree[k], u)
  PROVE  u < nextId /\ (u = lock.lock_txid \/ u < wroteAt)
<1>1. IdsFresh /\ Settled /\ WellFormed(tree[k])
  BY DEF ReadInv, IInv
<1>2. u < nextId
  BY <1>1, MarksBelow DEF IdsFresh
<1>3. u = lock.lock_txid \/ u < wroteAt
  BY <1>1, NoneNotNat DEF Settled, HasMark, Txid
<1> QED
  BY <1>2, <1>3

LEMMA CommittedFacts ==
  ASSUME ReadInv, NEW k \in Key
  PROVE  /\ WellFormed(Committed(k))
         /\ \A u \in Txid : HasMark(Committed(k), u) =>
              u # lock.lock_txid /\ HasMark(tree[k], u)
<1>1. WellFormed(tree[k])
  BY DEF ReadInv, IInv
<1>2. CASE lock.lock_txid = None
  BY <1>1, <1>2, RollbackNone, NoneNotNat DEF Committed, WellFormed, Txid
<1>3. CASE lock.lock_txid \in Txid
  BY <1>1, <1>3, RollbackWellFormed, RollbackMarks DEF Committed
<1> QED
  BY <1>2, <1>3, HolderFacts

LEMMA OthersReadCommitted ==
  ASSUME ReadInv, NEW k \in Key
  PROVE  /\ \A t \in Txid : t # lock.lock_txid =>
              Get(tree[k], t, lock.lock_txid) = Get(Committed(k), t, None)
         /\ NewView(k) = Get(Committed(k), nextId, None)
<1>1. WellFormed(tree[k])
  BY DEF ReadInv, IInv
<1> QED
  BY <1>1, HolderFacts, HiddenGet DEF Committed, NewView

\* Undoing the holder by its temp keys is a rollback of every key.
LEMMA RolledBackIsCommitted ==
  ASSUME ReadInv, lock.lock_txid # None, NEW k \in Key,
         <<lock.lock_txid, k>> \in temp \/ ~HasMark(tree[k], lock.lock_txid)
  PROVE  RolledBack(lock.lock_txid)[k] = Committed(k)
BY RollbackOfNothing DEF RolledBack, Committed

LEMMA BaseIsCommitted ==
  ASSUME ReadInv, LockTimedOut, NEW k \in Key
  PROVE  BaseTree[k] = Committed(k)
<1>1. lock.lock_txid # None /\ Timeout # None
  BY DEF LockTimedOut, Expired
<1>2. <<lock.lock_txid, k>> \in temp \/ ~HasMark(tree[k], lock.lock_txid)
  BY <1>1 DEF ReadInv, HolderUndoable
<1> QED
  BY <1>1, <1>2, RolledBackIsCommitted DEF BaseTree

\* A writer never takes over its own lock.
LEMMA TakeOverOfOther ==
  ASSUME ReadInv, NEW c \in Conn, AcquireOk(c), LockTimedOut
  PROVE  lock.lock_txid # state[c].txid
BY DEF ReadInv, OnRecord, AcquireOk, FetchOk, LockTimedOut

\* What a writer finds that no newer transaction has overtaken.
LEMMA WriterBase ==
  ASSUME ReadInv, NEW c \in Conn, AcquireOk(c), Fresh(c), NEW k \in Key
  PROVE  /\ WellFormed(BaseTree[k])
         /\ Rollback(BaseTree[k], state[c].txid) = Committed(k)
         /\ \A u \in Txid : HasMark(BaseTree[k], u) =>
              u <= state[c].txid /\ u < nextId
         /\ OnlyFrontLive(BaseTree[k])
         /\ k[2] = SchemaSlot /\ BaseTree[k] # {} => Live(BaseTree[k])
         /\ lock.lock_txid # state[c].txid => BaseTree[k] = Committed(k)
         /\ lock.lock_txid = state[c].txid => BaseTree[k] = tree[k]
<1> DEFINE me == state[c].txid
           h == lock.lock_txid
<1>1. IInv /\ Layout /\ TypeOK
  BY DEF ReadInv, IInv
<1>2. me \in Txid /\ me # None /\ wroteAt \in Nat /\ me >= wroteAt
  BY <1>1, ActiveState DEF AcquireOk, FetchOk, Fresh, TypeOK
<1>3. WellFormed(BaseTree[k])
  BY <1>1, BaseFacts
<1>4. h = me => BaseTree[k] = tree[k]
  BY TakeOverOfOther DEF BaseTree
<1>5. h # me => BaseTree[k] = Committed(k)
  <2>1. CASE LockTimedOut
    BY <2>1, BaseIsCommitted
  <2>2. CASE ~LockTimedOut /\ h # me
    BY <1>1, <2>2, RollbackNone DEF AcquireOk, BaseTree, Committed, IInv, WellFormed
  <2> QED
    BY <2>1, <2>2
<1>6. \A u \in Txid : HasMark(BaseTree[k], u) => HasMark(tree[k], u)
  BY <1>1, BaseFacts
<1>7. \A u \in Txid : HasMark(BaseTree[k], u) => u <= me /\ u < nextId
  <2> SUFFICES ASSUME NEW u \in Txid, HasMark(BaseTree[k], u)
               PROVE  u <= me /\ u < nextId
    OBVIOUS
  <2>1. u < nextId /\ (u = h \/ u < wroteAt)
    BY <1>6, MarkBounds
  <2>2. h # me => u # h
    BY <1>5, CommittedFacts
  <2> QED
    BY <1>2, <2>1, <2>2, SMT DEF Txid
<1>8. Rollback(BaseTree[k], me) = Committed(k)
  <2>1. CASE h = me
    BY <1>4, <2>1 DEF Committed
  <2>2. CASE h # me
    <3>1. ~HasMark(tree[k], me)
      BY <1>2, <2>2, MarkBounds, SMT DEF Txid
    <3> QED
      BY <1>2, <1>5, <1>6, <2>2, <3>1, RollbackOfNothing
  <2> QED
    BY <2>1, <2>2
<1>9. BaseTree[k] \in {tree[k], Committed(k)}
  BY <1>4, <1>5
<1>10. /\ OnlyFrontLive(BaseTree[k])
       /\ k[2] = SchemaSlot /\ BaseTree[k] # {} => Live(BaseTree[k])
  BY <1>1, <1>9 DEF Layout, Live
<1> QED
  BY <1>3, <1>4, <1>5, <1>7, <1>8, <1>10

\* Such a writer reads the version its ALTER TABLE replaces, which is the one
\* a new transaction would find.
LEMMA WriterViews ==
  ASSUME ReadInv, NEW c \in Conn, AcquireOk(c), Fresh(c)
  PROVE  /\ \A k \in Key : /\ View(c, k) = Current(c, k)
                           /\ Current(c, k) = Get(BaseTree[k], nextId, None)
                           /\ Live(BaseTree[k]) =>
                                /\ BaseTree[k] # {}
                                /\ Front(BaseTree[k]).deleted_by = None
                                /\ Current(c, k) = Front(BaseTree[k]).data
                           /\ ~Live(BaseTree[k]) => Current(c, k) = None
         /\ RowsBelong([k \in Key |-> Current(c, k)])
<1> DEFINE me == state[c].txid
           h == lock.lock_txid
<1>1. me \in Txid /\ nextId \in Txid
  BY ActiveState, HolderFacts DEF AcquireOk, FetchOk, ReadInv, IInv
<1>2. ASSUME NEW k \in Key
      PROVE  /\ View(c, k) = Current(c, k)
             /\ Current(c, k) = Get(BaseTree[k], nextId, None)
             /\ Live(BaseTree[k]) =>
                  /\ BaseTree[k] # {}
                  /\ Front(BaseTree[k]).deleted_by = None
                  /\ Current(c, k) = Front(BaseTree[k]).data
             /\ ~Live(BaseTree[k]) => Current(c, k) = None
  <2>1. View(c, k) = Current(c, k)
    <3>1. CASE h = me
      BY <3>1, WriterBase, OwnGet DEF View, Current
    <3>2. CASE h # me
      BY <1>1, <3>2, WriterBase, OthersReadCommitted DEF View, Current
    <3> QED
      BY <3>1, <3>2
  <2>2. /\ WellFormed(BaseTree[k]) /\ OnlyFrontLive(BaseTree[k])
        /\ \A u \in Txid : HasMark(BaseTree[k], u) => u <= me
    BY WriterBase
  <2>3. \A u \in Txid : HasMark(BaseTree[k], u) => u <= nextId
    BY <1>1, WriterBase, SMT DEF Txid
  <2>4. /\ Live(BaseTree[k]) =>
             /\ BaseTree[k] # {} /\ Front(BaseTree[k]).deleted_by = None
             /\ Get(BaseTree[k], nextId, None) = Front(BaseTree[k]).data
        /\ ~Live(BaseTree[k]) => Get(BaseTree[k], nextId, None) = None
    BY <1>1, <2>2, <2>3, LiveGet
  <2>5. /\ Live(BaseTree[k]) =>
             Get(BaseTree[k], me, None) = Front(BaseTree[k]).data
        /\ ~Live(BaseTree[k]) => Get(BaseTree[k], me, None) = None
    BY <1>1, <2>2, LiveGet
  <2> QED
    BY <2>1, <2>4, <2>5 DEF Current
<1>3. \A k \in Key : Current(c, k) = IF h = me THEN HolderView(k) ELSE NewView(k)
  <2> SUFFICES ASSUME NEW k \in Key
               PROVE  Current(c, k) = IF h = me THEN HolderView(k) ELSE NewView(k)
    OBVIOUS
  <2>1. CASE h = me
    BY <1>2, <2>1, WriterBase DEF HolderView
  <2>2. CASE h # me
    BY <1>2, <2>2, WriterBase, OthersReadCommitted
  <2> QED
    BY <2>1, <2>2
<1>4. \/ [k \in Key |-> Current(c, k)] = [k \in Key |-> HolderView(k)]
      \/ [k \in Key |-> Current(c, k)] = [k \in Key |-> NewView(k)]
  BY <1>3
<1>5. RowsBelong([k \in Key |-> Current(c, k)])
  BY <1>4 DEF ReadInv
<1> QED
  BY <1>2, <1>5

\* What a write makes of the snapshot of a key, and the value it leaves there.
Touched(c, k, s, v) ==
  LET me == state[c].txid
  IN  \/ s = BaseTree[k] /\ v = Current(c, k)
      \/ v \in Datum /\ s = Update(BaseTree[k], me, v)
      \/ /\ v \in Datum /\ Live(BaseTree[k])
         /\ s = Update(Delete(BaseTree[k], me), me, v)
      \/ /\ v = None /\ k[2] # SchemaSlot /\ Live(BaseTree[k])
         /\ s = Delete(BaseTree[k], me)

LEMMA TouchedFacts ==
  ASSUME ReadInv, NEW c \in Conn, AcquireOk(c), Fresh(c), NEW k \in Key,
         NEW s, NEW v, Touched(c, k, s, v)
  PROVE  /\ WellFormed(s)
         /\ Rollback(s, state[c].txid) = Committed(k)
         /\ OnlyFrontLive(s)
         /\ k[2] = SchemaSlot /\ s # {} => Live(s)
         /\ \A u \in Txid : HasMark(s, u) =>
              /\ u <= state[c].txid /\ u < nextId
              /\ u = state[c].txid \/ HasMark(BaseTree[k], u)
         /\ \A n \in Txid : nextId <= n => Get(s, n, None) = v
<1> DEFINE me == state[c].txid
           B == BaseTree[k]
<1>0. me \in Txid /\ me # None /\ me < nextId /\ nextId \in Txid
  BY ActiveState, HolderFacts DEF AcquireOk, FetchOk, ReadInv, IInv, IdsFresh
<1>1. /\ WellFormed(B) /\ Rollback(B, me) = Committed(k) /\ OnlyFrontLive(B)
      /\ k[2] = SchemaSlot /\ B # {} => Live(B)
      /\ \A u \in Txid : HasMark(B, u) => u <= me /\ u < nextId
  BY WriterBase
<1>2. /\ Live(B) => /\ B # {} /\ Front(B).deleted_by = None
                    /\ Current(c, k) = Front(B).data
      /\ ~Live(B) => Current(c, k) = None
  BY WriterViews
<1> HIDE DEF me, B
<1>3. ASSUME WellFormed(s), OnlyFrontLive(s),
             \A u \in Txid : HasMark(s, u) => u = me \/ HasMark(B, u),
             Live(s) => Front(s).data = v, ~Live(s) => v = None
      PROVE  /\ \A u \in Txid : HasMark(s, u) => u <= me /\ u < nextId
             /\ \A n \in Txid : nextId <= n => Get(s, n, None) = v
  <2>1. \A u \in Txid : HasMark(s, u) => u <= me /\ u < nextId
    BY <1>0, <1>1, <1>3, SMT DEF Txid
  <2>2. \A n \in Txid : nextId <= n => Get(s, n, None) = v
    <3> SUFFICES ASSUME NEW n \in Txid, nextId <= n PROVE Get(s, n, None) = v
      OBVIOUS
    <3>1. \A u \in Txid : HasMark(s, u) => u <= n
      BY <1>0, <2>1, SMT DEF Txid
    <3> QED
      BY <1>3, <3>1, LiveGet
  <2> QED
    BY <2>1, <2>2
<1>4. CASE s = B /\ v = Current(c, k)
  BY <1>1, <1>2, <1>3, <1>4 DEF me, B
<1>5. CASE v \in Datum /\ s = Update(B, me, v)
  <2>1. /\ WellFormed(s) /\ OnlyFrontLive(s) /\ Live(s) /\ Front(s).data = v
        /\ Rollback(s, me) = Committed(k)
    BY <1>0, <1>1, <1>5, UpdateWellFormed, UpdateLive, RollbackUpdate
  <2>2. \A u \in Txid : HasMark(s, u) => u = me \/ HasMark(B, u)
    BY <1>0, <1>1, <1>5, UpdateMarks
  <2> QED
    BY <1>3, <2>1, <2>2 DEF me, B
<1>6. CASE v \in Datum /\ Live(B) /\ s = Update(Delete(B, me), me, v)
  <2> DEFINE D == Delete(B, me)
  <2>1. WellFormed(D) /\ OnlyFrontLive(D) /\ Rollback(D, me) = Committed(k)
    BY <1>0, <1>1, <1>2, <1>6, DeleteWellFormed, DeleteLive, RollbackDelete
  <2>2. \A u \in Txid : HasMark(D, u) => u = me \/ HasMark(B, u)
    BY <1>0, <1>1, DeleteMarks
  <2> HIDE DEF D
  <2>3. s = Update(D, me, v)
    BY <1>6 DEF D
  <2>4. /\ WellFormed(s) /\ OnlyFrontLive(s) /\ Live(s) /\ Front(s).data = v
        /\ Rollback(s, me) = Committed(k)
    BY <1>0, <1>6, <2>1, <2>3, UpdateWellFormed, UpdateLive, RollbackUpdate, SMT
  <2>5. \A u \in Txid : HasMark(s, u) => u = me \/ HasMark(B, u)
    BY <1>0, <1>6, <2>1, <2>2, <2>3, UpdateMarks
  <2> QED
    BY <1>3, <2>4, <2>5 DEF me, B
<1>7. CASE v = None /\ k[2] # SchemaSlot /\ Live(B) /\ s = Delete(B, me)
  <2>1. /\ WellFormed(s) /\ OnlyFrontLive(s) /\ ~Live(s)
        /\ Rollback(s, me) = Committed(k)
    BY <1>0, <1>1, <1>2, <1>7, DeleteWellFormed, DeleteLive, RollbackDelete
  <2>2. \A u \in Txid : HasMark(s, u) => u = me \/ HasMark(B, u)
    BY <1>0, <1>1, <1>7, DeleteMarks
  <2> QED
    BY <1>3, <1>7, <2>1, <2>2 DEF me, B
<1> QED
  BY <1>4, <1>5, <1>6, <1>7 DEF Touched, me, B
-----------------------------------------------------------------------------
(* Writes *)

LEMMA SettledMarks ==
  ASSUME NEW s \in SUBSET SnapshotItem, NEW l, NEW w
  PROVE  (\A i \in s : \A u \in {i.created_by, i.deleted_by} :
            u \in {None, l} \/ u < w)
         <=> (\A u \in Txid : HasMark(s, u) => u = l \/ u < w)
BY NoneNotNat DEF HasMark, SnapshotItem, Txid

LEMMA RowsBelongEq ==
  ASSUME NEW v, NEW w, \A k \in Key : v[k] = w[k], RowsBelong(v)
  PROVE  RowsBelong(w)
BY KeyParts DEF RowsBelong

\* A new transaction reads the same under any later id.
LEMMA CommittedGet ==
  ASSUME ReadInv, NEW k \in Key, NEW n \in Txid, nextId <= n
  PROVE  Get(Committed(k), n, None) = NewView(k)
<1>1. nextId \in Txid
  BY HolderFacts
<1>2. WellFormed(Committed(k)) /\ OnlyFrontLive(Committed(k))
  BY CommittedFacts DEF ReadInv, Layout
<1>3. \A u \in Txid : HasMark(Committed(k), u) => u <= nextId /\ u <= n
  BY <1>1, CommittedFacts, MarkBounds, SMT DEF Txid
<1> QED
  BY <1>1, <1>2, <1>3, LiveGet, OthersReadCommitted

\* Open transactions stay on record when a timed-out holder is unregistered.
LEMMA BaseOnRecord ==
  ASSUME ReadInv, NEW d \in Conn, Active(d), ~Expired(state[d].created_at)
  PROVE  [txid |-> state[d].txid, alive |-> TRUE,
          created_at |-> state[d].created_at] \in BaseTxData
<1> DEFINE r == [txid |-> state[d].txid, alive |-> TRUE,
                 created_at |-> state[d].created_at]
<1>1. r \in txdata /\ r.txid = state[d].txid
  BY DEF ReadInv, OnRecord
<1>2. CASE LockTimedOut
  <2>1. state[d].txid # lock.lock_txid
    BY <1>2 DEF LockTimedOut, ReadInv, OnRecord
  <2> HIDE DEF r
  <2>2. r \in Unregistered(txdata, lock.lock_txid)
    BY <1>1, <2>1 DEF Unregistered
  <2> QED
    BY <1>2, <2>2 DEF BaseTxData, r
<1>3. CASE ~LockTimedOut
  BY <1>1, <1>3 DEF BaseTxData
<1> QED
  BY <1>2, <1>3

\* Under orderly clients an autocommit transaction has no timeout.
LEMMA AutocommitNoTimeout ==
  ASSUME IInv, OrderlyClients, NEW c \in Conn, Active(c), state[c].autocommit
  PROVE  Timeout = None
<1>1. state[c].autocommit = TRUE /\ state[c].autocommit \in Modes
  BY ActiveState DEF IInv, IdsFresh
<1> QED
  BY <1>1 DEF OrderlyClients

\* A step that leaves the committed database as it is,
KeepsCommitted ==
  ReadInv' /\ \A k \in Key : Committed(k)' = Committed(k) /\ NewView(k)' = NewView(k)

\* and one that leaves the copy of the holder as it is too.
KeepsViews == KeepsCommitted /\ \A k \in Key : HolderView(k)' = HolderView(k)

LEMMA WriteReadInv ==
  ASSUME ReadInv, OrderlyClients, NEW c \in Conn, NEW kind, May(c, kind),
         NEW newTree, NEW temps \in SUBSET Key, Write(c, newTree, temps), IInv',
         nextId' \in {nextId, nextId + 1},
         NEW view, RowsBelong(view),
         \A k \in Key : Touched(c, k, newTree[k], view[k]),
         \A k \in Key : \/ newTree[k] = BaseTree[k] \/ k \in temps
                        \/ state[c].autocommit /\ stmt'[c] = "commit"
  PROVE  KeepsCommitted
<1> DEFINE me == state[c].txid
           h == lock.lock_txid
<1>0. /\ IInv /\ TypeOK /\ IdsFresh /\ UniqueTx /\ MarksUndoable
      /\ OnRecord /\ Settled /\ HolderUndoable /\ Layout
  BY DEF ReadInv, IInv
<1>1. /\ AcquireOk(c) /\ Active(c) /\ me \in Txid /\ me # None /\ me < nextId
      /\ Fresh(c) /\ Running(c) /\ ~Expired(state[c].created_at)
  BY <1>0, ActiveState DEF May, AcquireOk, FetchOk, OrderlyClients, IdsFresh
<1>2. /\ tree' = newTree /\ temp' = BaseTemp \cup {<<me, k>> : k \in temps}
      /\ txdata' = BaseTxData /\ now' = now /\ state' = state /\ wroteAt' = wroteAt
      /\ lock' = [lock EXCEPT !.lock_txid = me,
                              !.lock_created_at = state[c].created_at]
  BY DEF Write
<1>3. /\ lock'.lock_txid = me /\ lock'.lock_created_at = state[c].created_at
      /\ lock'.gc_txid = lock.gc_txid
  BY <1>0, <1>2 DEF TypeOK, Lock
<1>4. /\ nextId \in Txid /\ nextId' \in Txid /\ nextId <= nextId'
      /\ wroteAt \in Nat /\ me # nextId'
  BY <1>0, <1>1, SMT DEF TypeOK, Txid
<1>5. ASSUME NEW k \in Key
      PROVE  /\ WellFormed(newTree[k]) /\ Rollback(newTree[k], me) = Committed(k)
             /\ OnlyFrontLive(newTree[k])
             /\ k[2] = SchemaSlot /\ newTree[k] # {} => Live(newTree[k])
             /\ \A u \in Txid : HasMark(newTree[k], u) =>
                  u = me \/ HasMark(BaseTree[k], u)
             /\ Get(newTree[k], nextId', None) = view[k]
  BY <1>1, <1>4, TouchedFacts
<1>6. \A k \in Key : Committed(k)' = Committed(k)
  BY <1>2, <1>3, <1>5 DEF Committed
<1>7. \A k \in Key : NewView(k)' = NewView(k)
  <2> SUFFICES ASSUME NEW k \in Key PROVE NewView(k)' = NewView(k)
    OBVIOUS
  <2>1. NewView(k)' = Get(newTree[k], nextId', me)
    BY <1>2, <1>3 DEF NewView
  <2>2. Get(newTree[k], nextId', me) = Get(Committed(k), nextId', None)
    <3>1. WellFormed(newTree[k]) /\ Rollback(newTree[k], me) = Committed(k)
      BY <1>5
    <3>2. me \in Txid /\ nextId' \in Txid /\ nextId' # me
      BY <1>1, <1>4
    <3> HIDE DEF me
    <3> QED
      BY <3>1, <3>2, HiddenGet, SMT
  <2> QED
    BY <1>4, <2>1, <2>2, CommittedGet
<1>8. \A k \in Key : HolderView(k)' = view[k]
  BY <1>2, <1>5 DEF HolderView
<1>9. RowsBelong([k \in Key |-> NewView(k)])'
  <2>1. [k \in Key |-> NewView(k)]' = [k \in Key |-> NewView(k)]
    BY <1>7
  <2> QED
    BY <2>1, SMT DEF ReadInv, RowsBelong
<1>10. RowsBelong([k \in Key |-> HolderView(k)])'
  <2>1. \A k \in Key : view[k] = [j \in Key |-> HolderView(j)']  [k]
    BY <1>8
  <2>2. RowsBelong([j \in Key |-> HolderView(j)'])
    BY <2>1, RowsBelongEq
  <2> QED
    BY <2>2 DEF RowsBelong
<1>11. OnRecord'
  <2>1. \A d \in Conn : /\ Active(d)' <=> Active(d)
                        /\ Expired(state[d].created_at)' <=> Expired(state[d].created_at)
                        /\ Collected(state[d].txid)' <=> Collected(state[d].txid)
    BY <1>2, <1>3 DEF Active, Expired, Collected
  <2>2. \A d \in Conn : Active(d) /\ ~Expired(state[d].created_at) =>
          /\ [txid |-> state[d].txid, alive |-> TRUE,
              created_at |-> state[d].created_at] \in txdata'
          /\ ~Collected(state[d].txid)
    BY <1>0, <1>2, BaseOnRecord DEF OnRecord
  <2>3. \A d \in Conn : Active(d) /\ lock'.lock_txid = state[d].txid =>
          lock'.lock_created_at = state[d].created_at
    BY <1>0, <1>1, <1>3 DEF UniqueTx
  <2>4. \E d \in txdata' : d.txid = lock'.lock_txid /\ d.alive
    <3> DEFINE r == [txid |-> me, alive |-> TRUE,
                     created_at |-> state[c].created_at]
    <3>1. r \in txdata' /\ r.txid = me /\ r.alive
      BY <1>1, <2>2
    <3> HIDE DEF r
    <3> QED
      BY <1>3, <3>1
  <2>5. lock'.gc_txid # None => lock'.gc_txid < nextId'
    <3>1. /\ lock.gc_txid # None => lock.gc_txid < nextId
          /\ lock.gc_txid \in Nat \cup {None}
      BY <1>0 DEF OnRecord, TypeOK, Lock, Txid
    <3> QED
      BY <1>3, <1>4, <3>1, SMT DEF Txid
  <2> QED
    BY <1>2, <2>1, <2>2, <2>3, <2>4, <2>5 DEF OnRecord
<1>12. Settled'
  <2>1. wroteAt' <= nextId'
    BY <1>0, <1>2, <1>4, SMT DEF Settled, Txid
  <2>2. ASSUME NEW k \in Key, NEW u \in Txid, HasMark(newTree[k], u)
        PROVE  u = me \/ u < wroteAt
    <3>1. CASE HasMark(BaseTree[k], u) /\ u # me
      <4>1. u = h \/ u < wroteAt
        BY <1>0, <3>1, BaseFacts, MarkBounds
      <4>2. h # me => u # h
        BY <1>1, <3>1, WriterBase, CommittedFacts
      <4> QED
        BY <3>1, <4>1, <4>2
    <3> QED
      BY <1>5, <2>2, <3>1
  <2>3. \A k \in Key : newTree[k] \in SUBSET SnapshotItem
    BY <1>5 DEF WellFormed
  <2>4. \A k \in Key : \A i \in newTree[k] :
          \A u \in {i.created_by, i.deleted_by} : u \in {None, me} \/ u < wroteAt
    BY <2>2, <2>3, SettledMarks
  <2> QED
    BY <1>2, <1>3, <2>1, <2>4 DEF Settled
<1>13. HolderUndoable'
  <2> SUFFICES ASSUME NEW k \in Key, HasMark(newTree[k], me),
                      <<me, k>> \notin temp'
               PROVE  /\ Timeout = None
                      /\ \A d \in Conn : Active(d) /\ state[d].txid = me =>
                           stmt'[d] = "commit"
    BY <1>2, <1>3 DEF HolderUndoable, Active
  <2>1. k \notin temps
    BY <1>2
  <2>2. CASE newTree[k] = BaseTree[k]
    <3>0. HasMark(tree[k], me)
      BY <1>0, <1>1, <2>2, BaseFacts
    <3>1. h = me
      BY <1>1, <1>4, <3>0, MarkBounds, SMT DEF Fresh, Txid
    <3>2. HasMark(tree[k], me) /\ ~LockTimedOut
      BY <1>0, <1>1, <2>2, <3>1, BaseFacts, TakeOverOfOther
    <3>3. <<me, k>> \notin temp
      BY <1>2, <3>2 DEF BaseTemp
    <3>4. state[c].autocommit /\ stmt[c] = "commit"
      BY <1>0, <1>1, <3>1, <3>2, <3>3 DEF MarksUndoable, HolderUndoable
    <3> QED
      BY <1>1, <3>4 DEF Running
  <2>3. CASE state[c].autocommit /\ stmt'[c] = "commit"
    BY <1>0, <1>1, <2>3, AutocommitNoTimeout DEF UniqueTx
  <2> QED
    BY <2>1, <2>2, <2>3
<1>14. Layout'
  BY <1>0, <1>2, <1>5, <1>6, ZenonT(60) DEF Layout, Live
<1> QED
  BY <1>6, <1>7, <1>9, <1>10, <1>11, <1>12, <1>13, <1>14 DEF ReadInv, KeepsCommitted

LEMMA WriterFacts ==
  ASSUME ReadInv, OrderlyClients, NEW c \in Conn, NEW kind, May(c, kind)
  PROVE  AcquireOk(c) /\ Fresh(c) /\ Active(c) /\ state[c].txid \in Txid
BY ActiveState DEF May, AcquireOk, FetchOk, OrderlyClients, ReadInv, IInv

\* A data call of an autocommit statement leaves nothing that can fail.
LEMMA DataDoneFacts ==
  ASSUME ReadInv, NEW c \in Conn, DataDone(c), NEW K
  PROVE  \/ Undoable(c, K) = K
         \/ state[c].autocommit /\ stmt'[c] = "commit"
BY DEF ReadInv, IInv, TypeOK, DataDone, Reaches, Undoable

LEMMA OneKeyRead ==
  ASSUME ReadInv, OrderlyClients, NEW c \in Conn, NEW kind, May(c, kind),
         NEW k \in Key, NEW s, NEW v, Touched(c, k, s, v),
         NEW temps \in SUBSET Key, Write(c, [BaseTree EXCEPT ![k] = s], temps),
         IInv', nextId' \in {nextId, nextId + 1},
         k \in temps \/ (state[c].autocommit /\ stmt'[c] = "commit"),
         RowsBelong([j \in Key |-> IF j = k THEN v ELSE Current(c, j)])
  PROVE  KeepsCommitted
<1> DEFINE newTree == [BaseTree EXCEPT ![k] = s]
           view == [j \in Key |-> IF j = k THEN v ELSE Current(c, j)]
<1>1. BaseTree \in [Key -> SUBSET SnapshotItem]
  BY BaseFacts DEF ReadInv
<1>2. \A j \in Key : newTree[j] = IF j = k THEN s ELSE BaseTree[j]
  BY <1>1
<1>3. \A j \in Key : view[j] = IF j = k THEN v ELSE Current(c, j)
  OBVIOUS
<1>4. Write(c, newTree, temps) /\ RowsBelong(view)
  OBVIOUS
<1> HIDE DEF newTree, view
<1>5. \A j \in Key : Touched(c, j, newTree[j], view[j])
  <2> SUFFICES ASSUME NEW j \in Key PROVE Touched(c, j, newTree[j], view[j])
    OBVIOUS
  <2>1. CASE j = k
    BY <1>2, <1>3, <2>1
  <2>2. CASE j # k
    BY <1>2, <1>3, <2>2 DEF Touched
  <2> QED
    BY <2>1, <2>2
<1>6. \A j \in Key : \/ newTree[j] = BaseTree[j] \/ j \in temps
                     \/ state[c].autocommit /\ stmt'[c] = "commit"
  BY <1>2
<1> QED
  BY <1>4, <1>5, <1>6, WriteReadInv

\* A row of the shape of its table, or no row, may be put under a row key.
LEMMA RowBelongs ==
  ASSUME ReadInv, NEW c \in Conn, AcquireOk(c), Fresh(c),
         NEW t \in Table, NEW r \in Row, NEW v,
         v = None \/ (/\ Current(c, SchemaKey(t)) # None
                      /\ v[2] = Current(c, SchemaKey(t))[2])
  PROVE  RowsBelong([j \in Key |-> IF j = <<t, r>> THEN v ELSE Current(c, j)])
<1> DEFINE old == [j \in Key |-> Current(c, j)]
           new == [j \in Key |-> IF j = <<t, r>> THEN v ELSE Current(c, j)]
<1>1. RowsBelong(old)
  BY WriterViews
<1>2. \A u \in Table : SchemaKey(u) \in Key /\ SchemaKey(u) # <<t, r>>
  BY KeyParts, KeyNames
<1>3. \A u \in Table : new[SchemaKey(u)] = old[SchemaKey(u)]
                       /\ old[SchemaKey(u)] = Current(c, SchemaKey(u))
  BY <1>2
<1>4. \A u \in Table, q \in Row : <<u, q>> \in Key
        /\ new[<<u, q>>] = IF <<u, q>> = <<t, r>> THEN v ELSE old[<<u, q>>]
  BY KeyParts
<1> HIDE DEF old, new
<1>5. SUFFICES ASSUME NEW u \in Table, NEW q \in Row, new[<<u, q>>] # None
               PROVE  /\ new[SchemaKey(u)] # None
                      /\ new[<<u, q>>][2] = new[SchemaKey(u)][2]
  BY DEF RowsBelong, new
<1>6. CASE u = t /\ q = r
  BY <1>3, <1>4, <1>5, <1>6
<1>7. CASE ~(u = t /\ q = r)
  <2>1. new[<<u, q>>] = old[<<u, q>>]
    BY <1>4, <1>7
  <2>2. /\ old[SchemaKey(u)] # None
        /\ old[<<u, q>>][2] = old[SchemaKey(u)][2]
    BY <1>1, <1>5, <2>1 DEF RowsBelong
  <2> QED
    BY <1>3, <2>1, <2>2
<1> QED
  BY <1>6, <1>7

\* A schema that is new, or keeps the shape, may be put under a schema key.
LEMMA SchemaBelongs ==
  ASSUME ReadInv, NEW c \in Conn, AcquireOk(c), Fresh(c), NEW t \in Table,
         NEW v, v # None,
         \/ Current(c, SchemaKey(t)) = None
         \/ v[2] = Current(c, SchemaKey(t))[2]
  PROVE  RowsBelong([j \in Key |-> IF j = SchemaKey(t) THEN v ELSE Current(c, j)])
<1> DEFINE old == [j \in Key |-> Current(c, j)]
           new == [j \in Key |-> IF j = SchemaKey(t) THEN v ELSE Current(c, j)]
<1>1. RowsBelong(old)
  BY WriterViews
<1>2. \A u \in Table, q \in Row : /\ new[<<u, q>>] = old[<<u, q>>]
                                  /\ <<u, q>> \in Key
  <2>1. \A u \in Table, q \in Row : <<u, q>> \in Key /\ <<u, q>> # SchemaKey(t)
    BY KeyParts, KeyNames
  <2> QED
    BY <2>1
<1>3. \A u \in Table : new[SchemaKey(u)] = IF u = t THEN v ELSE old[SchemaKey(u)]
  BY KeyParts, KeyNames
<1>4. old[SchemaKey(t)] = Current(c, SchemaKey(t))
  BY KeyParts
<1> HIDE DEF old, new
<1>5. SUFFICES ASSUME NEW u \in Table, NEW q \in Row, new[<<u, q>>] # None
               PROVE  /\ new[SchemaKey(u)] # None
                      /\ new[<<u, q>>][2] = new[SchemaKey(u)][2]
  BY DEF RowsBelong, new
<1>6. /\ old[SchemaKey(u)] # None
      /\ new[<<u, q>>][2] = old[SchemaKey(u)][2]
  BY <1>1, <1>2, <1>5 DEF RowsBelong
<1> QED
  BY <1>3, <1>4, <1>6

LEMMA InsertSchemaReads ==
  ASSUME ReadInv, OrderlyClients, NEW c \in Conn, NEW t \in Table,
         InsertSchema(c, t)
  PROVE  KeepsCommitted
<1> DEFINE k == SchemaKey(t)
           v == <<SchemaSlot, 1>>
           s == Update(BaseTree[k], state[c].txid, v)
<1>1. May(c, "create") /\ AcquireOk(c) /\ Fresh(c) /\ IInv'
  BY WriterFacts, InsertSchemaIInv DEF InsertSchema, ReadInv
<1>2. k \in Key /\ v \in Datum /\ v # None
  BY KeyParts, DatumParts, NoneNotDatum
<1>3. Current(c, k) = None
  BY <1>1, <1>2, WriterViews DEF InsertSchema, TableSeen
<1>4. RowsBelong([j \in Key |-> IF j = k THEN v ELSE Current(c, j)])
  BY <1>1, <1>2, <1>3, SchemaBelongs
<1>5. Write(c, [BaseTree EXCEPT ![k] = s], {k}) /\ nextId' = nextId
  BY DEF InsertSchema
<1>6. Touched(c, k, s, v)
  BY <1>2 DEF Touched
<1> HIDE DEF k, v, s
<1> QED
  BY <1>1, <1>2, <1>4, <1>5, <1>6, OneKeyRead, SMT

\* INSERT, UPDATE and DELETE of a row.
LEMMA RowReads ==
  ASSUME ReadInv, OrderlyClients, NEW c \in Conn, NEW kind, May(c, kind),
         NEW t \in Table, NEW r \in Row, NEW s, NEW v,
         Touched(c, <<t, r>>, s, v),
         v = None \/ (/\ Current(c, SchemaKey(t)) # None
                      /\ v[2] = Current(c, SchemaKey(t))[2]),
         Write(c, [BaseTree EXCEPT ![<<t, r>>] = s], Undoable(c, {<<t, r>>})),
         DataDone(c), IInv', nextId' \in {nextId, nextId + 1}
  PROVE  KeepsCommitted
<1> DEFINE k == <<t, r>>
<1>1. AcquireOk(c) /\ Fresh(c) /\ k \in Key
  BY WriterFacts, KeyParts
<1>2. RowsBelong([j \in Key |-> IF j = k THEN v ELSE Current(c, j)])
  BY <1>1, RowBelongs
<1>3. /\ Undoable(c, {k}) \in SUBSET Key
      /\ k \in Undoable(c, {k}) \/ (state[c].autocommit /\ stmt'[c] = "commit")
  BY <1>1, DataDoneFacts DEF Undoable
<1>4. Touched(c, k, s, v) /\ Write(c, [BaseTree EXCEPT ![k] = s], Undoable(c, {k}))
  OBVIOUS
<1> HIDE DEF k
<1> QED
  BY <1>1, <1>2, <1>3, <1>4, OneKeyRead

LEMMA AppendDataReads ==
  ASSUME ReadInv, OrderlyClients, NEW c \in Conn, NEW t \in Table, NEW r \in Row,
         NEW x \in Val, AppendData(c, t, r, x)
  PROVE  KeepsCommitted
<1> DEFINE k == <<t, r>>
           v == <<x, Shape(c, t)>>
           s == NewSnapshot(state[c].txid, v)
<1>1. May(c, "append") /\ AcquireOk(c) /\ Fresh(c) /\ IInv' /\ IInv
  BY WriterFacts, AppendDataIInv DEF AppendData, ReadInv
<1>2. k \in Key /\ v \in Datum
  BY <1>1, KeyParts, ShapeType, DatumParts DEF AppendData
<1>3. /\ Current(c, SchemaKey(t)) # None
      /\ v[2] = Current(c, SchemaKey(t))[2]
  BY <1>1, KeyParts, WriterViews DEF AppendData, TableSeen, Shape
<1>4. BaseTree[k] = {}
  <2>1. Rollback({}, lock.lock_txid) = {}
    BY DEF Rollback
  <2> QED
    BY <1>2, <2>1 DEF AppendData, BaseTree, RolledBack
<1>5. Touched(c, k, s, v)
  BY <1>2, <1>4 DEF Touched, Update
<1>6. /\ Write(c, [BaseTree EXCEPT ![k] = s], Undoable(c, {k}))
      /\ DataDone(c) /\ nextId' = nextId + 1
  BY DEF AppendData
<1> HIDE DEF v, s
<1> QED
  BY <1>1, <1>3, <1>5, <1>6, RowReads

LEMMA InsertDataReads ==
  ASSUME ReadInv, OrderlyClients, NEW c \in Conn, NEW t \in Table, NEW r \in Row,
         NEW x \in Val, InsertData(c, t, r, x)
  PROVE  KeepsCommitted
<1> DEFINE k == <<t, r>>
           v == <<x, Shape(c, t)>>
           s == Update(BaseTree[k], state[c].txid, v)
<1>1. May(c, "insert") /\ AcquireOk(c) /\ Fresh(c) /\ IInv' /\ IInv
  BY WriterFacts, InsertDataIInv DEF InsertData, ReadInv
<1>2. v \in Datum
  BY <1>1, ShapeType, DatumParts DEF InsertData
<1>3. /\ Current(c, SchemaKey(t)) # None
      /\ v[2] = Current(c, SchemaKey(t))[2]
  BY <1>1, KeyParts, WriterViews DEF InsertData, TableSeen, Shape
<1>5. Touched(c, k, s, v)
  BY <1>2 DEF Touched
<1>6. /\ Write(c, [BaseTree EXCEPT ![k] = s], Undoable(c, {k}))
      /\ DataDone(c) /\ nextId' = nextId
  BY DEF InsertData
<1> HIDE DEF v, s
<1> QED
  BY <1>1, <1>3, <1>5, <1>6, RowReads

LEMMA DeleteDataReads ==
  ASSUME ReadInv, OrderlyClients, NEW c \in Conn, NEW t \in Table, NEW r \in Row,
         DeleteData(c, t, r)
  PROVE  KeepsCommitted
<1> DEFINE k == <<t, r>>
           s == Delete(BaseTree[k], state[c].txid)
<1>1. May(c, "delete") /\ AcquireOk(c) /\ Fresh(c) /\ IInv'
  BY WriterFacts, DeleteDataIInv DEF DeleteData, ReadInv
<1>2. k \in Key /\ k[2] # SchemaSlot
  BY KeyParts, KeyNames
<1>3. Live(BaseTree[k])
  BY <1>1, <1>2, WriterViews DEF DeleteData
<1>5. Touched(c, k, s, None)
  BY <1>2, <1>3 DEF Touched
<1>6. /\ Write(c, [BaseTree EXCEPT ![k] = s], Undoable(c, {k}))
      /\ DataDone(c) /\ nextId' = nextId
  BY DEF DeleteData
<1> HIDE DEF s
<1> QED
  BY <1>1, <1>5, <1>6, RowReads

LEMMA SetIndexesReads ==
  ASSUME ReadInv, OrderlyClients, NEW c \in Conn, NEW t \in Table,
         NEW from, NEW to \in {SchemaSlot, Indexed}, SetIndexes(c, t, from, to)
  PROVE  KeepsCommitted
<1> DEFINE k == SchemaKey(t)
           f == Front(BaseTree[k])
           v == <<to, f.data[2]>>
           s == Update(Delete(BaseTree[k], state[c].txid), state[c].txid, v)
<1>1. May(c, "index") /\ AcquireOk(c) /\ Fresh(c) /\ IInv' /\ IInv
  BY WriterFacts, SetIndexesIInv DEF SetIndexes, ReadInv
<1>2. k \in Key /\ k[2] = SchemaSlot /\ BaseTree[k] # {}
  BY KeyParts, KeyNames DEF SetIndexes
<1>3. Live(BaseTree[k]) /\ Current(c, k) = f.data
  BY <1>1, <1>2, WriterBase, WriterViews
<1>4. f \in SnapshotItem
  BY <1>1, <1>2, BaseFacts, FrontIsNewest DEF WellFormed
<1>5. v \in Datum /\ v # None
  BY <1>4, DatumParts, NoneNotDatum, SMT DEF SnapshotItem
<1>6. RowsBelong([j \in Key |-> IF j = k THEN v ELSE Current(c, j)])
  BY <1>1, <1>3, <1>5, SchemaBelongs
<1>7. Touched(c, k, s, v)
  BY <1>3, <1>5 DEF Touched
<1>8. Write(c, [BaseTree EXCEPT ![k] = s], {k}) /\ nextId' = nextId
  BY DEF SetIndexes
<1> HIDE DEF k, f, v, s
<1>9. {k} \in SUBSET Key /\ k \in {k} /\ nextId' \in {nextId, nextId + 1}
  BY <1>2, <1>8
<1> QED
  BY <1>1, <1>2, <1>6, <1>7, <1>8, <1>9, OneKeyRead

\* ALTER TABLE leaves rows and schema in step: either every row seen takes the
\* new shape, or the shape stays.
LEMMA ReshapeReads ==
  ASSUME ReadInv, OrderlyClients, NEW c \in Conn, NEW t \in Table,
         AlterTarget(c, t), NEW rows \in SUBSET RowsSeen(c, t), NEW cols \in Cols,
         rows = RowsSeen(c, t) \/ cols = Current(c, SchemaKey(t))[2],
         Reshape(c, t, rows, cols)
  PROVE  KeepsCommitted
<1> DEFINE touched == rows \cup {SchemaKey(t)}
           me == state[c].txid
           D(k) == <<Current(c, k)[1], cols>>
           newTree == [k \in Key |-> IF k \in touched
                         THEN Update(BaseTree[k], me, D(k)) ELSE BaseTree[k]]
           view == [k \in Key |-> IF k \in touched THEN D(k) ELSE Current(c, k)]
<1>1. May(c, "alter") /\ AcquireOk(c) /\ Fresh(c)
  BY WriterFacts DEF AlterTarget
<1>2. /\ rows \in SUBSET Key /\ touched \in SUBSET Key
      /\ \A k \in touched : Current(c, k) # None
  BY KeyParts DEF AlterTarget, RowsSeen
<1>3. IInv'
  BY <1>2, ReshapeIInv DEF ReadInv
<1>4. /\ Write(c, newTree, Undoable(c, touched)) /\ nextId' = nextId
      /\ DataDone(c)
  BY DEF Reshape
<1>5. \A k \in touched : D(k) \in Datum /\ D(k) # None /\ D(k)[2] = cols
  BY <1>2, CurrentType, DatumParts, NoneNotDatum, SMT DEF ReadInv
<1>6. \A k \in Key : /\ newTree[k] = IF k \in touched
                           THEN Update(BaseTree[k], me, D(k)) ELSE BaseTree[k]
                     /\ view[k] = IF k \in touched THEN D(k) ELSE Current(c, k)
  OBVIOUS
<1>7. \A u \in Table, q \in Row : <<u, q>> \in rows => u = t
  BY DEF RowsSeen, RowKeys
<1>8. \A u \in Table : SchemaKey(u) \in touched => u = t
  <2>1. \A u \in Table : SchemaKey(u) \notin rows
    BY KeyNames, SMT DEF RowsSeen, RowKeys
  <2> QED
    BY <2>1, KeyNames
<1>9. \A q \in Row : Current(c, <<t, q>>) # None => <<t, q>> \in RowsSeen(c, t)
  BY DEF RowsSeen, RowKeys
<1>10. view = [k \in Key |-> view[k]]
  OBVIOUS
<1>11. SchemaKey(t) \in touched /\ rows \subseteq touched
       /\ touched = rows \cup {SchemaKey(t)}
  OBVIOUS
<1> HIDE DEF touched, D, newTree, view
<1>12. RowsBelong(view)
  <2> SUFFICES ASSUME NEW u \in Table, NEW q \in Row, view[<<u, q>>] # None
               PROVE  /\ view[SchemaKey(u)] # None
                      /\ view[<<u, q>>][2] = view[SchemaKey(u)][2]
    BY DEF RowsBelong
  <2>1. <<u, q>> \in Key /\ SchemaKey(u) \in Key /\ <<u, q>> # SchemaKey(t)
    BY KeyParts, KeyNames
  <2>2. /\ view[SchemaKey(u)] = IF u = t THEN D(SchemaKey(t)) ELSE Current(c, SchemaKey(u))
        /\ view[<<u, q>>] = IF <<u, q>> \in rows THEN D(<<u, q>>)
                            ELSE Current(c, <<u, q>>)
    BY <1>6, <1>8, <1>11, <2>1
  <2>3. Current(c, <<u, q>>) # None =>
           /\ Current(c, SchemaKey(u)) # None
           /\ Current(c, <<u, q>>)[2] = Current(c, SchemaKey(u))[2]
    <3>1. RowsBelong([k \in Key |-> Current(c, k)])
      BY <1>1, WriterViews
    <3> QED
      BY <2>1, <3>1 DEF RowsBelong
  <2>4. CASE <<u, q>> \in rows
    BY <1>5, <1>7, <1>11, <2>2, <2>4
  <2>5. CASE <<u, q>> \notin rows /\ u = t
    <3>1. cols = Current(c, SchemaKey(t))[2]
      BY <1>9, <2>2, <2>5
    <3> QED
      BY <1>5, <1>11, <2>2, <2>3, <2>5, <3>1
  <2>6. CASE <<u, q>> \notin rows /\ u # t
    BY <2>2, <2>3, <2>6
  <2> QED
    BY <2>4, <2>5, <2>6
<1>13. \A k \in Key : Touched(c, k, newTree[k], view[k])
  BY <1>5, <1>6 DEF Touched
<1>14. /\ Undoable(c, touched) \in SUBSET Key
       /\ \A k \in Key : \/ newTree[k] = BaseTree[k] \/ k \in Undoable(c, touched)
                         \/ state[c].autocommit /\ stmt'[c] = "commit"
  BY <1>1, <1>2, <1>4, <1>6, DataDoneFacts DEF Undoable
<1> QED
  BY <1>1, <1>3, <1>4, <1>12, <1>13, <1>14, WriteReadInv

LEMMA AlterReads ==
  ASSUME ReadInv, OrderlyClients, NEW c \in Conn, NEW t \in Table,
         RenameColumn(c, t) \/ AddColumn(c, t) \/ DropColumn(c, t)
  PROVE  KeepsCommitted
<1>1. AlterTarget(c, t) => Current(c, SchemaKey(t))[2] \in Cols
  BY KeyParts, CurrentType, DatumParts DEF AlterTarget, ReadInv
<1>2. 1 \in Cols /\ 2 \in Cols
  BY DEF Cols
<1>3. CASE RenameColumn(c, t)
  BY <1>1, <1>3, ReshapeReads DEF RenameColumn
<1>4. CASE AddColumn(c, t)
  BY <1>2, <1>4, ReshapeReads DEF AddColumn
<1>5. CASE DropColumn(c, t)
  BY <1>2, <1>5, ReshapeReads DEF DropColumn
<1> QED
  BY <1>3, <1>4, <1>5

\* Every call that writes leaves the committed database as it is.
LEMMA WriteStepReads ==
  ASSUME ReadInv, OrderlyClients, NEW c \in Conn, WriteStep(c)
  PROVE  KeepsCommitted
<1>1. PICK t \in Table :
        \/ InsertSchema(c, t)
        \/ DeleteSchema(c, t)
        \/ \E r \in Row, v \in Val : AppendData(c, t, r, v)
        \/ \E r \in Row, v \in Val : InsertData(c, t, r, v)
        \/ \E r \in Row : DeleteData(c, t, r)
        \/ \E u \in Table : RenameSchema(c, t, u)
        \/ RenameColumn(c, t) \/ AddColumn(c, t) \/ DropColumn(c, t)
        \/ CreateIndex(c, t) \/ DropIndex(c, t)
  BY DEF WriteStep
<1>2. ~DeleteSchema(c, t) /\ \A u \in Table : ~RenameSchema(c, t, u)
  BY DEF DeleteSchema, RenameSchema, May, OrderlyClients
<1>3. CASE CreateIndex(c, t) \/ DropIndex(c, t)
  <2>1. \E from, to \in {SchemaSlot, Indexed} : SetIndexes(c, t, from, to)
    BY <1>3 DEF CreateIndex, DropIndex
  <2> QED
    BY <2>1, SetIndexesReads
<1> QED
  BY <1>1, <1>2, <1>3, InsertSchemaReads, AppendDataReads, InsertDataReads,
     DeleteDataReads, AlterReads

LEMMA WriteStepFacts ==
  ASSUME ReadInv, NEW c \in Conn, WriteStep(c)
  PROVE  /\ AcquireOk(c) /\ Active(c) /\ state[c].txid \in Txid
         /\ state' = state /\ lock'.lock_txid = state[c].txid
<1>1. PICK kind, newTree, temps : May(c, kind) /\ Write(c, newTree, temps)
  <2>1. PICK t \in Table :
          \/ InsertSchema(c, t) \/ DeleteSchema(c, t)
          \/ \E r \in Row, v \in Val : AppendData(c, t, r, v)
          \/ \E r \in Row, v \in Val : InsertData(c, t, r, v)
          \/ \E r \in Row : DeleteData(c, t, r)
          \/ \E u \in Table : RenameSchema(c, t, u)
          \/ RenameColumn(c, t) \/ AddColumn(c, t) \/ DropColumn(c, t)
          \/ CreateIndex(c, t) \/ DropIndex(c, t)
    BY DEF WriteStep
  <2>2. CASE InsertSchema(c, t)
    BY <2>2 DEF InsertSchema
  <2>3. CASE DeleteSchema(c, t)
    BY <2>3 DEF DeleteSchema
  <2>4. ASSUME NEW r \in Row, NEW v \in Val, AppendData(c, t, r, v) \/ InsertData(c, t, r, v)
        PROVE  \E kind, newTree, temps : May(c, kind) /\ Write(c, newTree, temps)
    BY <2>4 DEF AppendData, InsertData
  <2>5. ASSUME NEW r \in Row, DeleteData(c, t, r)
        PROVE  \E kind, newTree, temps : May(c, kind) /\ Write(c, newTree, temps)
    BY <2>5 DEF DeleteData
  <2>6. ASSUME NEW u \in Table, RenameSchema(c, t, u)
        PROVE  \E kind, newTree, temps : May(c, kind) /\ Write(c, newTree, temps)
    BY <2>6, Zenon DEF RenameSchema
  <2>7. CASE RenameColumn(c, t) \/ AddColumn(c, t) \/ DropColumn(c, t)
    BY <2>7 DEF RenameColumn, AddColumn, DropColumn, AlterTarget, Reshape
  <2>8. CASE CreateIndex(c, t) \/ DropIndex(c, t)
    BY <2>8 DEF CreateIndex, DropIndex, SetIndexes
  <2> QED
    BY <2>1, <2>2, <2>3, <2>4, <2>5, <2>6, <2>7, <2>8
<1>2. AcquireOk(c) /\ Active(c) /\ TypeOK
  BY <1>1 DEF May, AcquireOk, FetchOk, ReadInv, IInv
<1> QED
  BY <1>1, <1>2, ActiveState DEF Write, TypeOK, Lock
-----------------------------------------------------------------------------
(* Steps that leave tree and lock alone *)

LEMMA InitReads == Init => ReadInv
<1> SUFFICES ASSUME Init PROVE ReadInv
  OBVIOUS
<1>1. IInv
  BY InitIInv
<1>2. \A k \in Key : /\ tree[k] = {} /\ Committed(k) = {}
                     /\ NewView(k) = None /\ HolderView(k) = None
  BY DEF Init, Committed, Rollback, NewView, HolderView, Get, VisibleItems
<1>3. OnRecord
  BY DEF Init, OnRecord, Active
<1>4. Settled /\ HolderUndoable
  BY <1>2, SMT DEF Init, Settled, HolderUndoable
<1>5. Layout
  BY <1>2 DEF Layout, OnlyFrontLive
<1>6. /\ RowsBelong([k \in Key |-> NewView(k)])
      /\ RowsBelong([k \in Key |-> HolderView(k)])
  <2>1. \A t \in Table, r \in Row : <<t, r>> \in Key
    BY KeyParts
  <2> QED
    BY <1>2, <2>1 DEF RowsBelong
<1> QED
  BY <1>1, <1>3, <1>4, <1>5, <1>6 DEF ReadInv

LEMMA SameTreeReads ==
  ASSUME ReadInv, IInv', OnRecord', UNCHANGED <<tree, temp, lock, wroteAt>>,
         nextId' \in {nextId, nextId + 1},
         \A d \in Conn :
           Timeout = None /\ Active(d)' /\ state'[d].txid = lock.lock_txid =>
             /\ Active(d) /\ state[d].txid = lock.lock_txid
             /\ stmt[d] = "commit" => stmt'[d] = "commit"
  PROVE  KeepsViews
<1>0. IInv /\ Settled /\ HolderUndoable /\ Layout
  BY DEF ReadInv
<1>1. tree' = tree /\ temp' = temp /\ lock' = lock /\ wroteAt' = wroteAt
  OBVIOUS
<1>2. /\ nextId \in Txid /\ nextId' \in Txid /\ nextId <= nextId'
      /\ wroteAt \in Nat /\ lock.lock_txid \in Txid \cup {None}
      /\ lock.lock_txid # None => lock.lock_txid < nextId
  BY <1>0, HolderFacts, SMT DEF Txid, IInv, TypeOK
<1>3. \A k \in Key : Committed(k)' = Committed(k)
  BY <1>1 DEF Committed
<1>4. ASSUME NEW k \in Key PROVE NewView(k)' = NewView(k)
  <2>1. nextId' # lock.lock_txid
    BY <1>2, NoneNotNat, SMT DEF Txid
  <2>2. NewView(k)' = Get(tree[k], nextId', lock.lock_txid)
    BY <1>1 DEF NewView
  <2> QED
    BY <1>2, <2>1, <2>2, OthersReadCommitted, CommittedGet
<1>5. ASSUME NEW k \in Key PROVE HolderView(k)' = HolderView(k)
  <2>1. HolderView(k)' = Get(tree[k], nextId', None)
    BY <1>1 DEF HolderView
  <2>2. WellFormed(tree[k]) /\ OnlyFrontLive(tree[k])
    BY <1>0 DEF IInv, Layout
  <2>3. \A u \in Txid : HasMark(tree[k], u) => u <= nextId /\ u <= nextId'
    BY <1>2, MarkBounds, SMT DEF Txid
  <2> QED
    BY <1>2, <2>1, <2>2, <2>3, LiveGet DEF HolderView
<1>6. Settled'
  <2>1. wroteAt' <= nextId'
    BY <1>0, <1>1, <1>2, SMT DEF Settled, Txid
  <2> QED
    BY <1>0, <1>1, <2>1 DEF Settled
<1>7. HolderUndoable'
  BY <1>0, <1>1 DEF HolderUndoable
<1>8. Layout'
  BY <1>0, <1>1, <1>3 DEF Layout
<1>9. RowsBelong([k \in Key |-> NewView(k)])' /\ RowsBelong([k \in Key |-> HolderView(k)])'
  BY <1>4, <1>5, ZenonT(60) DEF ReadInv, RowsBelong
<1> QED
  BY <1>3, <1>4, <1>5, <1>6, <1>7, <1>8, <1>9 DEF ReadInv, KeepsCommitted, KeepsViews

\* Records stay, time passes: open transactions are still on record.
LEMMA StillOnRecord ==
  ASSUME ReadInv, UNCHANGED lock, txdata \subseteq txdata',
         nextId' \in {nextId, nextId + 1}, now' \in {now, now + 1},
         \A d \in Conn : Active(d)' => \/ Active(d) /\ state'[d] = state[d]
                                       \/ /\ state'[d].txid = nextId
                                          /\ state'[d].created_at = now
                                          /\ [txid |-> nextId, alive |-> TRUE,
                                              created_at |-> now] \in txdata'
  PROVE  OnRecord'
<1>0. OnRecord /\ TypeOK
  BY DEF ReadInv, IInv
<1>1. /\ nextId \in Nat /\ now \in Nat /\ lock.lock_txid # nextId
      /\ lock' = lock /\ lock.gc_txid \in Nat \cup {None}
  BY <1>0, HolderFacts DEF TypeOK, Lock, Txid
<1>4. lock.gc_txid # None => lock.gc_txid < nextId
  BY <1>0 DEF OnRecord
<1>5. ~Collected(nextId)
  BY <1>1, <1>4, NoneNotNat, SMT DEF Collected
<1>6. ASSUME NEW d \in Conn, Active(d)', ~Expired(state[d].created_at)'
      PROVE  /\ [txid |-> state'[d].txid, alive |-> TRUE,
                 created_at |-> state'[d].created_at] \in txdata'
             /\ ~Collected(state[d].txid)'
  <2>1. CASE Active(d) /\ state'[d] = state[d]
    <3>1. ~Expired(state[d].created_at)
      <4>1. state[d].created_at \in Nat
        BY <1>0, <2>1, ActiveState
      <4> QED
        BY <1>1, <1>6, <2>1, <4>1, SledAssumption, NoneNotNat, SMT DEF Expired
    <3>2. /\ [txid |-> state[d].txid, alive |-> TRUE,
              created_at |-> state[d].created_at] \in txdata
          /\ ~Collected(state[d].txid)
      BY <1>0, <2>1, <3>1 DEF OnRecord
    <3> QED
      BY <2>1, <3>2 DEF Collected
  <2>2. CASE ~(Active(d) /\ state'[d] = state[d])
    BY <1>5, <1>6, <2>2 DEF Collected
  <2> QED
    BY <2>1, <2>2
<1>7. ASSUME NEW d \in Conn, Active(d)', lock'.lock_txid = state'[d].txid
      PROVE  lock'.lock_created_at = state'[d].created_at
  BY <1>0, <1>1, <1>7 DEF OnRecord
<1>8. lock'.lock_txid # None => \E d \in txdata' : d.txid = lock'.lock_txid /\ d.alive
  BY <1>0, <1>1 DEF OnRecord
<1>9. lock'.gc_txid # None => lock'.gc_txid < nextId'
  BY <1>1, <1>4, NoneNotNat, SMT
<1> QED
  BY <1>6, <1>7, <1>8, <1>9 DEF OnRecord

LEMMA RegisterReads ==
  ASSUME ReadInv, NEW alive \in BOOLEAN, Register(alive), IInv',
         UNCHANGED <<tree, temp, lock, now, wroteAt>>,
         NEW c \in Conn, \A d \in Conn : d # c => stmt'[d] = stmt[d],
         \/ state' = state /\ stmt' = stmt
         \/ /\ alive /\ \E mode \in Modes : state' = [state EXCEPT ![c] =
                 [txid |-> nextId, created_at |-> now, autocommit |-> mode]]
  PROVE  KeepsViews
<1>1. /\ nextId' = nextId + 1 /\ txdata' = txdata \cup
           {[txid |-> nextId, alive |-> alive, created_at |-> now]}
      /\ txdata \subseteq txdata' /\ now' = now /\ lock' = lock
  BY DEF Register
<1>2. lock.lock_txid # nextId /\ TypeOK
  BY HolderFacts DEF ReadInv, IInv
<1>3. \A d \in Conn : Active(d)' => \/ Active(d) /\ state'[d] = state[d] /\ stmt'[d] = stmt[d]
                                    \/ /\ state'[d].txid = nextId
                                       /\ state'[d].created_at = now
                                       /\ [txid |-> nextId, alive |-> TRUE,
                                           created_at |-> now] \in txdata'
  <2>1. CASE state' = state /\ stmt' = stmt
    BY <2>1 DEF Active
  <2>2. ASSUME NEW mode \in Modes, alive, state' = [state EXCEPT ![c] =
                 [txid |-> nextId, created_at |-> now, autocommit |-> mode]]
        PROVE  \A d \in Conn : Active(d)' =>
                 \/ Active(d) /\ state'[d] = state[d] /\ stmt'[d] = stmt[d]
                 \/ /\ state'[d].txid = nextId
                    /\ state'[d].created_at = now
                    /\ [txid |-> nextId, alive |-> TRUE,
                        created_at |-> now] \in txdata'
    <3>1. alive = TRUE
      BY <2>2
    <3> QED
      BY <1>1, <1>2, <2>2, <3>1 DEF Active, TypeOK
  <2> QED
    BY <2>1, <2>2
<1>4. OnRecord'
  BY <1>1, <1>3, StillOnRecord
<1> QED
  BY <1>1, <1>2, <1>3, <1>4, SameTreeReads, SMT

\* BEGIN, planning, failing calls, the clock and a restart change neither the
\* committed database nor the copy of the holder.
LEMMA QuietStepsReads ==
  ASSUME ReadInv,
         \/ Tick \/ Reopen \/ UNCHANGED vars
         \/ \E c \in Conn : \/ Begin(c) \/ BeginStatement(c) \/ StatementFails(c)
                            \/ CommitFails(c) \/ PlanStatement(c)
                            \/ FetchAllSchemas(c)
  PROVE  /\ ReadInv' /\ UNCHANGED <<tree, lock>>
         /\ \A k \in Key : /\ Committed(k)' = Committed(k)
                           /\ NewView(k)' = NewView(k)
                           /\ HolderView(k)' = HolderView(k)
<1> DEFINE Same == /\ ReadInv' /\ UNCHANGED <<tree, lock>>
                   /\ \A k \in Key : /\ Committed(k)' = Committed(k)
                                     /\ NewView(k)' = NewView(k)
                                     /\ HolderView(k)' = HolderView(k)
<1>0. IInv /\ TypeOK /\ OnRecord
  BY DEF ReadInv, IInv
<1>1. ASSUME UNCHANGED <<sledVars, wroteAt>>, IInv', now' \in {now, now + 1},
             \A d \in Conn : Active(d)' => Active(d) /\ state'[d] = state[d],
             \A d \in Conn : Timeout = None /\ Active(d)' /\ stmt[d] = "commit"
                             => stmt'[d] = "commit"
      PROVE  Same
  <2>1. UNCHANGED <<tree, temp, lock, wroteAt>> /\ nextId' = nextId
        /\ txdata \subseteq txdata'
    BY <1>1 DEF sledVars
  <2>2. OnRecord'
    BY <1>1, <2>1, StillOnRecord
  <2> QED
    BY <1>1, <2>1, <2>2, SameTreeReads DEF KeepsCommitted, KeepsViews
<1>2. CASE Tick \/ UNCHANGED vars
  <2>1. IInv'
    BY <1>0, <1>2, QuietStepsIInv
  <2> QED
    BY <1>1, <1>2, <2>1 DEF Tick, vars, sledVars, Active
<1>3. CASE Reopen
  <2>1. IInv'
    BY <1>0, <1>3, ReopenIInv
  <2>2. \A d \in Conn : ~Active(d)'
    BY <1>3 DEF Reopen, Active
  <2> QED
    BY <1>1, <1>3, <2>1, <2>2 DEF Reopen
<1>4. ASSUME NEW c \in Conn, StatementFails(c) PROVE Same
  <2>1. IInv'
    BY <1>0, <1>4, QuietStepsIInv
  <2>2. /\ UNCHANGED <<sledVars, now, state, wroteAt>>
        /\ stmt[c] # "commit" /\ stmt' = [stmt EXCEPT ![c] = "rollback"]
    BY <1>4 DEF StatementFails, Running
  <2> QED
    BY <1>0, <1>1, <2>1, <2>2 DEF Active, TypeOK
<1>5. ASSUME NEW c \in Conn, CommitFails(c) PROVE Same
  <2>1. IInv'
    BY <1>0, <1>5, QuietStepsIInv
  <2>2. /\ UNCHANGED <<sledVars, now, state, wroteAt>>
        /\ Active(c) /\ ~FetchOk(c) /\ stmt' = [stmt EXCEPT ![c] = "none"]
    BY <1>5 DEF CommitFails
  <2>3. Timeout # None
    BY <1>0, <2>2 DEF FetchOk, OnRecord, Expired
  <2> QED
    BY <1>0, <1>1, <2>1, <2>2, <2>3 DEF Active
<1>6. ASSUME NEW c \in Conn, Begin(c) PROVE Same
  <2>1. IInv'
    BY <1>0, <1>6, BeginIInv
  <2>2. /\ Register(TRUE) /\ FALSE \in Modes /\ stmt' = stmt
        /\ UNCHANGED <<tree, temp, lock, now, wroteAt>>
        /\ state' = [state EXCEPT ![c] =
             [txid |-> nextId, created_at |-> now, autocommit |-> FALSE]]
    BY <1>6 DEF Begin
  <2> QED
    BY <2>1, <2>2, RegisterReads DEF KeepsCommitted, KeepsViews
<1>7. ASSUME NEW c \in Conn, BeginStatement(c) PROVE Same
  <2>1. IInv'
    BY <1>0, <1>7, BeginStatementIInv
  <2>2. /\ TRUE \in Modes /\ stmt[c] = "none" /\ stmt' = [stmt EXCEPT ![c] = "run"]
        /\ UNCHANGED <<tree, temp, lock, now, wroteAt>>
        /\ \A d \in Conn : d # c => stmt'[d] = stmt[d]
    BY <1>0, <1>7 DEF BeginStatement, TypeOK
  <2>3. CASE UNCHANGED <<nextId, txdata, state>>
    BY <1>1, <2>1, <2>2, <2>3 DEF Active, sledVars
  <2>4. CASE Register(TRUE) /\ state' = [state EXCEPT ![c] =
               [txid |-> nextId, created_at |-> now, autocommit |-> TRUE]]
    BY <2>1, <2>2, <2>4, RegisterReads DEF KeepsCommitted, KeepsViews
  <2> QED
    BY <1>7, <2>3, <2>4 DEF BeginStatement
<1>8. ASSUME NEW c \in Conn, PlanStatement(c) \/ FetchAllSchemas(c) PROVE Same
  <2>1. IInv'
    BY <1>0, <1>8, ReadsIInv
  <2>2. /\ Register(TRUE) \/ Register(FALSE)
        /\ UNCHANGED <<tree, temp, lock, now, wroteAt>>
        /\ state' = state /\ stmt' = stmt
    BY <1>8 DEF PlanStatement, FetchAllSchemas
  <2> QED
    BY <2>1, <2>2, RegisterReads DEF KeepsCommitted, KeepsViews
<1> QED
  BY <1>2, <1>3, <1>4, <1>5, <1>6, <1>7, <1>8
-----------------------------------------------------------------------------
(* Rollback and take-over: the copy of the holder is forgotten *)

LEMMA ForgetReads ==
  ASSUME ReadInv, IInv', OnRecord', nextId' = nextId, wroteAt' = wroteAt,
         \A k \in Key : tree'[k] = Committed(k), lock'.lock_txid = None
  PROVE  /\ ReadInv'
         /\ \A k \in Key : /\ Committed(k)' = Committed(k)
                           /\ NewView(k)' = NewView(k)
                           /\ HolderView(k)' = NewView(k)
<1>0. IInv /\ Settled /\ Layout
  BY DEF ReadInv
<1>1. nextId \in Txid /\ nextId <= nextId
  BY HolderFacts, SMT DEF Txid
<1>2. ASSUME NEW k \in Key PROVE Committed(k)' = Committed(k)
  <2>1. Committed(k) \subseteq SnapshotItem
    BY CommittedFacts DEF WellFormed
  <2>2. Committed(k)' = Rollback(Committed(k), None)
    BY DEF Committed
  <2> QED
    BY <2>1, <2>2, RollbackNone
<1>3. ASSUME NEW k \in Key
      PROVE  NewView(k)' = NewView(k) /\ HolderView(k)' = NewView(k)
  <2>1. Get(Committed(k), nextId, None) = NewView(k)
    BY <1>1, CommittedGet
  <2> QED
    BY <2>1 DEF NewView, HolderView
<1>4. Settled'
  <2>1. \A k \in Key, u \in Txid : HasMark(Committed(k), u) => u < wroteAt
    BY CommittedFacts, MarkBounds
  <2>2. ASSUME NEW k \in Key
        PROVE  \A i \in Committed(k) : \A u \in {i.created_by, i.deleted_by} :
                 u \in {None} \/ u < wroteAt
    <3>1. Committed(k) \in SUBSET SnapshotItem
      BY CommittedFacts DEF WellFormed
    <3>2. ASSUME NEW u \in Txid, HasMark(Committed(k), u) PROVE u < wroteAt
      BY <2>1, <3>2
    <3> QED
      BY <3>1, <3>2 DEF HasMark, SnapshotItem, Txid
  <2> QED
    BY <1>0, <2>2 DEF Settled
<1>5. HolderUndoable'
  BY DEF HolderUndoable
<1>6. Layout'
  BY <1>0, <1>2 DEF Layout
<1>7. RowsBelong([k \in Key |-> NewView(k)])' /\ RowsBelong([k \in Key |-> HolderView(k)])'
  BY <1>3, ZenonT(60) DEF ReadInv, RowsBelong
<1> QED
  BY <1>2, <1>3, <1>4, <1>5, <1>6, <1>7 DEF ReadInv

LEMMA RollbackReads ==
  ASSUME ReadInv, NEW c \in Conn, RollbackTx(c)
  PROVE  /\ ReadInv'
         /\ \A k \in Key : Committed(k)' = Committed(k) /\ NewView(k)' = NewView(k)
         /\ \/ /\ lock.lock_txid = state[c].txid /\ lock'.lock_txid = None
               /\ \A k \in Key : HolderView(k)' = NewView(k)
            \/ /\ lock.lock_txid # state[c].txid /\ UNCHANGED <<tree, lock>>
               /\ \A k \in Key : HolderView(k)' = HolderView(k)
<1> DEFINE me == state[c].txid
<1>0. IInv /\ TypeOK /\ UniqueTx /\ OnRecord
  BY DEF ReadInv, IInv
<1>1. Active(c) /\ me \in Txid /\ me # None /\ stmt[c] # "commit"
  BY <1>0, ActiveState DEF RollbackTx
<1>2. /\ state' = [state EXCEPT ![c] = Idle] /\ stmt' = [stmt EXCEPT ![c] = "none"]
      /\ nextId' = nextId /\ now' = now /\ wroteAt' = wroteAt
  BY DEF RollbackTx
<1>3. \A d \in Conn : Active(d)' => /\ d # c /\ Active(d) /\ state'[d] = state[d]
                                    /\ stmt'[d] = stmt[d]
  BY <1>0, <1>2 DEF Active, TypeOK
<1>4. IInv'
  BY <1>0, RollbackTxIInv
<1>5. CASE lock.lock_txid # me
  <2>1. UNCHANGED <<tree, temp, lock, txdata>>
    BY <1>5 DEF RollbackTx
  <2>2. OnRecord'
    BY <1>2, <1>3, <2>1, StillOnRecord
  <2> QED
    BY <1>2, <1>3, <1>4, <1>5, <2>1, <2>2, SameTreeReads DEF KeepsCommitted, KeepsViews
<1>6. CASE lock.lock_txid = me
  <2>1. /\ tree' = RolledBack(me) /\ lock' = Released(lock, me)
        /\ txdata' = Unregistered(txdata, me)
    BY <1>6 DEF RollbackTx
  <2>2. \A k \in Key : tree'[k] = Committed(k)
    <3>1. \A k \in Key : <<me, k>> \in temp \/ ~HasMark(tree[k], me)
      BY <1>1, <1>6 DEF ReadInv, HolderUndoable
    <3> QED
      BY <1>1, <1>6, <2>1, <3>1, RolledBackIsCommitted
  <2>3. lock'.lock_txid = None /\ lock'.gc_txid = lock.gc_txid
    BY <1>0, <1>6, <2>1 DEF Released, TypeOK, Lock
  <2>4. \A d \in txdata : d.txid # me => d \in txdata'
    BY <2>1 DEF Unregistered
  <2>5. OnRecord'
    <3>1. \A d \in Conn : Active(d)' => state[d].txid # me
      BY <1>0, <1>1, <1>3 DEF UniqueTx
    <3>3. ASSUME NEW d \in Conn, Active(d)', ~Expired(state[d].created_at)'
          PROVE  /\ [txid |-> state[d].txid, alive |-> TRUE,
                     created_at |-> state[d].created_at]' \in txdata'
                 /\ ~Collected(state[d].txid)'
      <4>1. state'[d] = state[d] /\ ~Expired(state[d].created_at)
        BY <1>2, <1>3, <3>3 DEF Expired
      <4>2. /\ [txid |-> state[d].txid, alive |-> TRUE,
                created_at |-> state[d].created_at] \in txdata
            /\ ~Collected(state[d].txid)
        BY <1>0, <1>3, <3>3, <4>1 DEF OnRecord
      <4> QED
        BY <2>3, <2>4, <3>1, <3>3, <4>1, <4>2 DEF Collected
    <3>4. \A d \in Conn : Active(d)' => lock'.lock_txid # state'[d].txid
      BY <1>0, <1>3, <2>3, ActiveState
    <3> QED
      BY <1>0, <1>2, <2>3, <3>3, <3>4 DEF OnRecord
  <2> QED
    BY <1>2, <1>4, <1>6, <2>2, <2>3, <2>5, ForgetReads
<1> QED
  BY <1>5, <1>6

\* A failed call changes nothing, or takes over a lock that timed out.
LEMMA CallFailsReads ==
  ASSUME ReadInv, NEW c \in Conn, CallFails(c)
  PROVE  /\ KeepsCommitted
         /\ \/ /\ LockTimedOut /\ lock'.lock_txid = None
               /\ \A k \in Key : HolderView(k)' = NewView(k)
            \/ /\ ~LockTimedOut /\ UNCHANGED <<tree, lock>>
               /\ \A k \in Key : HolderView(k)' = HolderView(k)
<1>0. IInv /\ TypeOK /\ OnRecord /\ IInv'
  BY CallFailsIInv DEF ReadInv, IInv
<1>1. /\ tree' = BaseTree /\ temp' = BaseTemp /\ txdata' = BaseTxData
      /\ lock' = IF LockTimedOut THEN Released(lock, lock.lock_txid) ELSE lock
      /\ nextId' = nextId /\ now' = now /\ state' = state /\ wroteAt' = wroteAt
  BY DEF CallFails
<1>2. \A d \in Conn : stmt[d] = "commit" => stmt'[d] = "commit"
  BY <1>0 DEF CallFails, May, Running, Reaches, TypeOK
<1>3. \A d \in Conn : /\ Active(d)' <=> Active(d)
                      /\ Expired(state[d].created_at)' <=> Expired(state[d].created_at)
  BY <1>1 DEF Active, Expired
<1>4. CASE ~LockTimedOut
  <2>1. UNCHANGED <<tree, temp, lock, wroteAt>> /\ txdata \subseteq txdata'
    BY <1>1, <1>4 DEF BaseTree, BaseTemp, BaseTxData
  <2>2. OnRecord'
    BY <1>1, <1>3, <2>1, StillOnRecord
  <2> QED
    BY <1>0, <1>1, <1>2, <1>3, <1>4, <2>1, <2>2, SameTreeReads DEF KeepsViews
<1>5. CASE LockTimedOut
  <2>1. lock'.lock_txid = None /\ lock'.gc_txid = lock.gc_txid
    BY <1>0, <1>1, <1>5 DEF Released, TypeOK, Lock
  <2>2. \A k \in Key : tree'[k] = Committed(k)
    BY <1>1, <1>5, BaseIsCommitted
  <2>3. OnRecord'
    <3>1. ASSUME NEW d \in Conn, Active(d), ~Expired(state[d].created_at)
          PROVE  /\ [txid |-> state[d].txid, alive |-> TRUE,
                     created_at |-> state[d].created_at] \in txdata'
                 /\ ~Collected(state[d].txid)'
      <4>1. ~Collected(state[d].txid)
        BY <1>0, <3>1 DEF OnRecord
      <4> QED
        BY <1>1, <2>1, <3>1, <4>1, BaseOnRecord DEF Collected
    <3>2. \A d \in Conn : Active(d) => lock'.lock_txid # state'[d].txid
      BY <1>0, <1>1, <2>1, ActiveState
    <3> QED
      BY <1>0, <1>1, <1>3, <2>1, <3>1, <3>2 DEF OnRecord
  <2> QED
    BY <1>0, <1>1, <1>5, <2>1, <2>2, <2>3, ForgetReads DEF KeepsCommitted
<1> QED
  BY <1>4, <1>5
-----------------------------------------------------------------------------
(* Commit and garbage collection *)

\* What gc collects is older than every open transaction that has not expired
\* and than the holder of the lock.
LEMMA CollectedAreOld ==
  ASSUME ReadInv, NEW c \in Conn, Commit(c)
  PROVE  LET me       == state[c].txid
             released == Released(lock, me)
             records  == Unregistered(txdata, me)
             T        == GcTxids(records, released.lock_txid)
         IN  /\ T \in SUBSET Nat /\ \A x \in T : x < nextId
             /\ T # {} => Last(T) \in T
             /\ \A K \in SUBSET T : K # {} => Last(K) \in T
             /\ \A d \in Conn : d # c /\ Active(d) /\ ~Expired(state[d].created_at) =>
                  /\ [txid |-> state[d].txid, alive |-> TRUE,
                      created_at |-> state[d].created_at] \in records
                  /\ \A x \in T : x < state[d].txid
             /\ lock.lock_txid \notin {None, me} =>
                  /\ \E r \in records : r.txid = lock.lock_txid /\ r.alive
                  /\ \A x \in T : x < lock.lock_txid
<1> DEFINE me == state[c].txid
           h == lock.lock_txid
           rl == Released(lock, me).lock_txid
           records == Unregistered(txdata, me)
           T == GcTxids(records, rl)
<1>0. IInv /\ TypeOK /\ UniqueTx /\ OnRecord
  BY DEF ReadInv, IInv
<1>1. Active(c) /\ me \in Txid
  BY <1>0, ActiveState DEF Commit, FetchOk
<1>2. \A r \in records : r.txid \in Nat /\ r.txid < nextId
  BY <1>0, <1>1, UnregisteredFacts DEF IdsFresh, IInv, TxData, TypeOK, Txid
<1>3. \A r \in txdata : r.txid # me => r \in records
  BY DEF Unregistered
<1>4. nextId \in Nat
  BY <1>0 DEF TypeOK
<1> HIDE DEF records, rl
<1>5. T \in SUBSET Nat /\ \A x \in T : x < nextId
  BY <1>2, <1>4 DEF GcTxids
<1>6. \A r \in records : ~GcDone(r, rl) => \A x \in T : x < r.txid
  <2> SUFFICES ASSUME NEW r \in records, ~GcDone(r, rl), NEW x \in T
               PROVE  x < r.txid
    OBVIOUS
  <2>1. PICK e \in records : /\ e.txid = x
                             /\ \A f \in records : f.txid <= e.txid => GcDone(f, rl)
    BY DEF GcTxids
  <2> QED
    BY <1>2, <2>1, SMT
<1> HIDE DEF T
<1>7. \A K \in SUBSET T : K # {} => Last(K) \in T
  <2> SUFFICES ASSUME NEW K \in SUBSET T, K # {} PROVE Last(K) \in K
    OBVIOUS
  <2>1. K \in SUBSET Nat /\ \A x \in K : x <= nextId
    BY <1>4, <1>5, SMT
  <2> QED
    BY <1>4, <2>1, LastInSet
<1>8. ASSUME NEW d \in Conn, d # c, Active(d), ~Expired(state[d].created_at)
      PROVE  /\ [txid |-> state[d].txid, alive |-> TRUE,
                 created_at |-> state[d].created_at] \in records
             /\ \A x \in T : x < state[d].txid
  <2> DEFINE r == [txid |-> state[d].txid, alive |-> TRUE,
                   created_at |-> state[d].created_at]
  <2>1. r \in records
    BY <1>0, <1>1, <1>3, <1>8 DEF OnRecord, UniqueTx
  <2>2. state[d].created_at \in Nat /\ now \in Nat
    BY <1>0, <1>8, ActiveState DEF TypeOK
  <2>3. ~GcDone(r, rl)
    BY <1>8, <2>2, SledAssumption, NoneNotNat, SMT DEF GcDone, Expired
  <2> QED
    BY <1>6, <2>1, <2>3
<1>9. ASSUME h \notin {None, me}
      PROVE  /\ \E r \in records : r.txid = h /\ r.alive
             /\ \A x \in T : x < h
  <2>1. PICK r \in txdata : r.txid = h /\ r.alive
    BY <1>0, <1>9 DEF OnRecord
  <2>2. r \in records
    BY <1>3, <1>9, <2>1
  <2>3. rl = h
    BY <1>9 DEF rl, Released
  <2>4. ~GcDone(r, rl)
    BY <2>1, <2>3 DEF GcDone
  <2> QED
    BY <1>6, <2>1, <2>2, <2>4
<1> QED
  BY <1>5, <1>7, <1>8, <1>9 DEF T, records, rl

\* The commit of a younger transaction changes nothing for a reader.
LEMMA YoungerGet ==
  ASSUME NEW s, s \subseteq SnapshotItem, NEW t \in Txid, NEW u \in Txid, t < u
  PROVE  Get(s, t, u) = Get(s, t, None)
<1>1. \A i \in s : Visible(i, t, u) <=> Visible(i, t, None)
  BY NoneNotNat, SMT DEF Visible, SnapshotItem, Txid
<1>2. VisibleItems(s, t, u) = VisibleItems(s, t, None)
  BY <1>1 DEF VisibleItems
<1> QED
  BY <1>2 DEF Get

\* A commit installs the copy of the holder, or changes nothing at all; the
\* garbage collection in it is not seen by any transaction still running.
LEMMA CommitReads ==
  ASSUME ReadInv, NEW c \in Conn, Commit(c)
  PROVE  /\ ReadInv'
         /\ \A k \in Key : HolderView(k)' = HolderView(k)
         /\ lock.lock_txid = state[c].txid =>
              /\ lock'.lock_txid = None
              /\ \A k \in Key : NewView(k)' = HolderView(k)
         /\ lock.lock_txid # state[c].txid =>
              /\ lock'.lock_txid = lock.lock_txid
              /\ \A k \in Key : NewView(k)' = NewView(k)
         /\ \A d \in Conn, k \in Key :
              d # c /\ Active(d) /\ ~Expired(state[d].created_at) =>
                Get(tree'[k], state[d].txid, lock'.lock_txid)
                  = Get(tree[k], state[d].txid, lock'.lock_txid)
<1> DEFINE me == state[c].txid
           h == lock.lock_txid
           released == Released(lock, me)
           records == Unregistered(txdata, me)
           T == GcTxids(records, released.lock_txid)
           l == lock'.lock_txid
<1>0. IInv /\ TypeOK /\ UniqueTx /\ OnRecord /\ Layout /\ HolderUndoable /\ Settled
  BY DEF ReadInv, IInv
<1>1. Active(c) /\ me \in Txid /\ me # None
  BY <1>0, ActiveState DEF Commit, FetchOk
<1>2. /\ tree' = GcTree(T) /\ temp' = GcTemp(T)
      /\ txdata' = {d \in records : d.txid \notin T}
      /\ lock' = IF T = {} THEN released ELSE [released EXCEPT !.gc_txid = Last(T)]
      /\ state' = [state EXCEPT ![c] = Idle] /\ stmt' = [stmt EXCEPT ![c] = "none"]
      /\ wroteAt' = IF h = me THEN nextId ELSE wroteAt
      /\ nextId' = nextId /\ now' = now
  BY DEF Commit
<1>3. /\ T \in SUBSET Nat /\ \A x \in T : x < nextId
      /\ T # {} => Last(T) \in T
      /\ \A K \in SUBSET T : K # {} => Last(K) \in T
      /\ \A d \in Conn : d # c /\ Active(d) /\ ~Expired(state[d].created_at) =>
           /\ [txid |-> state[d].txid, alive |-> TRUE,
               created_at |-> state[d].created_at] \in records
           /\ \A x \in T : x < state[d].txid
      /\ h \notin {None, me} =>
           /\ \E r \in records : r.txid = h /\ r.alive
           /\ \A x \in T : x < h
  BY CollectedAreOld
<1>4. /\ l = IF h = me THEN None ELSE h
      /\ h # me => lock'.lock_created_at = lock.lock_created_at
      /\ lock'.gc_txid = IF T = {} THEN lock.gc_txid ELSE Last(T)
  <2>1. /\ released.lock_txid = IF h = me THEN None ELSE h
        /\ h # me => released = lock
        /\ released.gc_txid = lock.gc_txid /\ released \in Lock
    BY <1>0, <1>1 DEF Released, TypeOK, Lock
  <2> HIDE DEF T, released
  <2> QED
    BY <1>2, <2>1 DEF Lock
<1>5. /\ nextId \in Txid /\ h \in Txid \cup {None} /\ l \in Txid \cup {None}
      /\ h # None => h < nextId
      /\ l = None \/ (h \notin {None, me} /\ l = h)
  BY <1>4, HolderFacts
<1>6. \A d \in Conn : Active(d)' => /\ d # c /\ Active(d) /\ state'[d] = state[d]
                                    /\ stmt'[d] = stmt[d]
  BY <1>0, <1>2 DEF Active, TypeOK
<1> HIDE DEF T, records, released
<1>7. \A k \in Key : \/ tree'[k] = tree[k]
                     \/ \E g \in T : tree'[k] = Gc(tree[k], g)
  BY <1>2, <1>3 DEF GcTree, Touching
<1>8. \A k \in Key : /\ WellFormed(tree[k]) /\ OnlyFrontLive(tree[k])
                     /\ k[2] = SchemaSlot /\ tree[k] # {} => Live(tree[k])
  BY <1>0 DEF IInv, Layout, Live
<1>9. ASSUME NEW k \in Key, NEW t \in Txid, \A x \in T : x < t,
             NEW m \in Txid \cup {None}, m = None \/ m = t \/ \A x \in T : x < m
      PROVE  Get(tree'[k], t, m) = Get(tree[k], t, m)
  <2>1. tree[k] \subseteq SnapshotItem
    BY <1>8 DEF WellFormed
  <2>2. ASSUME NEW g \in T PROVE Get(Gc(tree[k], g), t, m) = Get(tree[k], t, m)
    <3>1. g \in Nat /\ g < t /\ (m = None \/ m = t \/ g < m)
      <4>1. T \in SUBSET Nat
        BY <1>3
      <4> QED
        BY <1>9, <4>1
    <3> QED
      BY <2>1, <3>1, GcGet
  <2> QED
    BY <1>7, <2>2, SMT
<1>10. \A x \in T : l = None \/ x < l
  BY <1>3, <1>5
<1>11. \A k \in Key : NewView(k)' = Get(tree[k], nextId, l)
  BY <1>2, <1>3, <1>5, <1>9, <1>10, ZenonT(60) DEF NewView
<1>12. \A k \in Key : HolderView(k)' = HolderView(k)
  BY <1>2, <1>3, <1>5, <1>9, SMT DEF HolderView
<1>13. ASSUME NEW d \in Conn, NEW k \in Key, d # c, Active(d),
              ~Expired(state[d].created_at)
       PROVE  Get(tree'[k], state[d].txid, l) = Get(tree[k], state[d].txid, l)
  <2>1. state[d].txid \in Txid
    BY <1>0, <1>13, ActiveState
  <2> QED
    BY <1>3, <1>5, <1>9, <1>10, <1>13, <2>1
<1>14. \A k \in Key : NewView(k)' = IF h = me THEN HolderView(k) ELSE NewView(k)
  BY <1>4, <1>11 DEF NewView, HolderView
<1>15. IInv'
  BY <1>0, CommitIInv
<1>16. OnRecord'
  <2>1. ASSUME NEW d \in Conn, Active(d)', ~Expired(state[d].created_at)'
        PROVE  /\ [txid |-> state[d].txid, alive |-> TRUE,
                   created_at |-> state[d].created_at]' \in txdata'
               /\ ~Collected(state[d].txid)'
    <3>1. /\ d # c /\ Active(d) /\ state'[d] = state[d]
          /\ ~Expired(state[d].created_at) /\ state[d].txid \in Nat
      BY <1>0, <1>2, <1>6, <2>1, ActiveState DEF Expired, Txid
    <3>2. /\ [txid |-> state[d].txid, alive |-> TRUE,
              created_at |-> state[d].created_at] \in records
          /\ \A x \in T : x < state[d].txid
      BY <1>3, <3>1
    <3>3. state[d].txid \notin T
      BY <3>1, <3>2, SMT
    <3>4. ~Collected(state[d].txid)
      BY <1>0, <3>1 DEF OnRecord
    <3>5. ~Collected(state[d].txid)'
      <4>1. CASE T = {}
        BY <1>4, <3>1, <3>4, <4>1 DEF Collected
      <4>2. CASE T # {}
        <5>1. Last(T) \in Nat /\ Last(T) < state[d].txid
          BY <1>3, <3>2, <4>2
        <5> QED
          BY <1>4, <3>1, <4>2, <5>1, SMT DEF Collected
      <4> QED
        BY <4>1, <4>2
    <3> QED
      BY <1>2, <3>1, <3>2, <3>3, <3>5, SMT
  <2>2. ASSUME NEW d \in Conn, Active(d)', l = state'[d].txid
        PROVE  lock'.lock_created_at = state'[d].created_at
    <3>1. Active(d) /\ state'[d] = state[d] /\ state[d].txid # None
      BY <1>0, <1>6, <2>2, ActiveState
    <3>2. h # me /\ h = state[d].txid
      BY <1>4, <2>2, <3>1
    <3> QED
      BY <1>0, <1>4, <3>1, <3>2 DEF OnRecord
  <2>3. l # None => \E d \in txdata' : d.txid = l /\ d.alive
    <3> SUFFICES ASSUME l # None PROVE \E d \in txdata' : d.txid = l /\ d.alive
      OBVIOUS
    <3>1. l = h /\ h \notin {None, me} /\ h \in Nat
      BY <1>5 DEF Txid
    <3>2. PICK r \in records : r.txid = h /\ r.alive
      BY <1>3, <3>1
    <3>3. h \notin T
      BY <1>3, <3>1, SMT
    <3> QED
      BY <1>2, <3>1, <3>2, <3>3
  <2>4. lock'.gc_txid # None => lock'.gc_txid < nextId'
    BY <1>0, <1>2, <1>3, <1>4 DEF OnRecord
  <2> QED
    BY <2>1, <2>2, <2>3, <2>4 DEF OnRecord
<1>17. \A k \in Key : /\ tree'[k] \in SUBSET tree[k]
                      /\ OnlyFrontLive(tree'[k])
                      /\ Live(tree[k]) => tree'[k] = tree[k]
  <2> SUFFICES ASSUME NEW k \in Key
               PROVE  /\ tree'[k] \in SUBSET tree[k]
                      /\ OnlyFrontLive(tree'[k])
                      /\ Live(tree[k]) => tree'[k] = tree[k]
    OBVIOUS
  <2>1. CASE tree'[k] = tree[k]
    BY <1>8, <2>1
  <2>2. ASSUME NEW g \in T, tree'[k] = Gc(tree[k], g)
        PROVE  /\ tree'[k] \in SUBSET tree[k]
               /\ OnlyFrontLive(tree'[k])
               /\ Live(tree[k]) => tree'[k] = tree[k]
    <3>1. Gc(tree[k], g) \in SUBSET tree[k]
      BY DEF Gc
    <3> QED
      BY <1>8, <2>2, <3>1, GcLive, SMT
  <2> QED
    BY <1>7, <2>1, <2>2
<1>18. Settled'
  <2>1. wroteAt' <= nextId'
    BY <1>0, <1>2, <1>5, SMT DEF Settled, Txid
  <2>2. ASSUME NEW k \in Key
        PROVE  \A i \in tree'[k] : \A u \in {i.created_by, i.deleted_by} :
                 u \in {None, l} \/ u < wroteAt'
    <3>1. \A u \in Txid : HasMark(tree[k], u) => u = l \/ u < wroteAt'
      BY <1>2, <1>4, MarkBounds
    <3>2. tree[k] \in SUBSET SnapshotItem
      BY <1>8 DEF WellFormed
    <3>3. \A i \in tree[k] : \A u \in {i.created_by, i.deleted_by} :
                 u \in {None, l} \/ u < wroteAt'
      BY <3>1, <3>2, SettledMarks
    <3> QED
      BY <1>17, <3>3
  <2> QED
    BY <2>1, <2>2 DEF Settled
<1>19. HolderUndoable'
  <2> SUFFICES ASSUME NEW k \in Key, l # None, HasMark(tree'[k], l)
               PROVE  \/ <<l, k>> \in temp'
                      \/ /\ Timeout = None
                         /\ \A d \in Conn : Active(d)' /\ state'[d].txid = l
                                             => stmt'[d] = "commit"
    BY DEF HolderUndoable
  <2>1. l = h /\ h \notin {None, me} /\ h \in Nat
    BY <1>5 DEF Txid
  <2>2. HasMark(tree[k], h)
    BY <1>17, <2>1 DEF HasMark
  <2>3. h \notin T
    BY <1>3, <2>1, SMT
  <2>4. <<h, k>> \in temp => <<h, k>> \in temp'
    BY <1>2, <2>3 DEF GcTemp
  <2> QED
    BY <1>0, <1>6, <2>1, <2>2, <2>4 DEF HolderUndoable
<1>20. Layout'
  <2> SUFFICES ASSUME NEW k \in Key
               PROVE  \A s \in {tree'[k], Rollback(tree'[k], l)} :
                        /\ OnlyFrontLive(s)
                        /\ k[2] = SchemaSlot /\ s # {} => Live(s)
    BY DEF Layout, Committed, Live
  <2>1. k[2] = SchemaSlot /\ tree'[k] # {} => tree'[k] = tree[k] /\ Live(tree[k])
    BY <1>8, <1>17
  <2>2. CASE l = None
    <3>1. Rollback(tree'[k], l) = tree'[k]
      BY <1>8, <1>17, <2>2, RollbackNone DEF WellFormed
    <3> QED
      BY <1>17, <2>1, <3>1
  <2>3. CASE l # None
    <3>1. l = h
      BY <1>5, <2>3
    <3>2. /\ Rollback(tree'[k], l) \in SUBSET Committed(k)
          /\ Rollback({}, l) = {}
      BY <1>17, <3>1, RollbackSubset DEF Committed, Rollback
    <3>3. /\ OnlyFrontLive(Committed(k))
          /\ k[2] = SchemaSlot /\ Committed(k) # {} => Live(Committed(k))
      BY <1>0 DEF Layout, Live
    <3>4. OnlyFrontLive(Rollback(tree'[k], l))
      BY <3>2, <3>3, SubsetLive
    <3>5. tree'[k] = tree[k] => Rollback(tree'[k], l) = Committed(k)
      BY <3>1 DEF Committed
    <3> QED
      BY <1>17, <2>1, <3>2, <3>3, <3>4, <3>5
  <2> QED
    BY <2>2, <2>3
<1>21. RowsBelong([k \in Key |-> NewView(k)])' /\ RowsBelong([k \in Key |-> HolderView(k)])'
  BY <1>12, <1>14, SMT DEF ReadInv, RowsBelong
<1> QED
  BY <1>4, <1>12, <1>13, <1>14, <1>15, <1>16, <1>18, <1>19, <1>20, <1>21 DEF ReadInv
-----------------------------------------------------------------------------
(* All steps *)

LEMMA NextReads == ReadInv /\ OrderlyClients /\ [Next]_vars => ReadInv'
<1> SUFFICES ASSUME ReadInv, OrderlyClients, [Next]_vars PROVE ReadInv'
  OBVIOUS
<1>1. CASE Tick \/ Reopen \/ UNCHANGED vars
  BY <1>1, QuietStepsReads
<1>2. ASSUME NEW c \in Conn, ConnStep(c) PROVE ReadInv'
  BY <1>2, QuietStepsReads, WriteStepReads, CallFailsReads, CommitReads,
     RollbackReads DEF ConnStep, KeepsCommitted
<1> QED
  BY <1>1, <1>2 DEF Next

\* Who is not the lock holder reads the committed database.
LEMMA SameCommitted ==
  ASSUME ReadInv, ReadInv', NEW d \in Conn, Active(d), state'[d] = state[d],
         state[d].txid # lock.lock_txid, state[d].txid # lock'.lock_txid,
         NEW k \in Key, Committed(k)' = Committed(k)
  PROVE  View(d, k)' = View(d, k)
<1>1. state[d].txid \in Txid /\ lock'.lock_txid \in Txid \cup {None}
  BY ActiveState DEF ReadInv, IInv, TypeOK, Lock
<1>2. WellFormed(tree'[k])
  BY DEF ReadInv, IInv
<1>3. Get(tree'[k], state[d].txid, lock'.lock_txid)
        = Get(Rollback(tree'[k], lock'.lock_txid), state[d].txid, None)
  BY <1>1, <1>2, HiddenGet
<1> QED
  BY <1>1, <1>3, OthersReadCommitted DEF View, Committed

LEMMA StableStep ==
  ASSUME ReadInv, OrderlyClients, [Next]_vars, NEW d \in Conn,
         Stays(d), ~OwnWrite(d), ~OlderCommit(d), NEW k \in Key
  PROVE  View(d, k)' = View(d, k)
<1>0. /\ ReadInv' /\ TypeOK /\ UniqueTx /\ OnRecord
      /\ FetchOk(d) /\ Active(d) /\ state'[d] = state[d] /\ state[d].txid \in Txid
      /\ ~Expired(state[d].created_at) /\ state[d] # Idle
  BY NextReads, ActiveState DEF Stays, FetchOk, ReadInv, IInv, Active
<1>1. ASSUME UNCHANGED <<tree, lock>> PROVE View(d, k)' = View(d, k)
  BY <1>0, <1>1 DEF View
<1>2. CASE Tick \/ Reopen \/ UNCHANGED vars
  BY <1>1, <1>2, QuietStepsReads
<1>3. ASSUME NEW c \in Conn, \/ Begin(c) \/ BeginStatement(c) \/ StatementFails(c)
                             \/ CommitFails(c) \/ PlanStatement(c)
                             \/ FetchAllSchemas(c)
      PROVE  View(d, k)' = View(d, k)
  BY <1>1, <1>3, QuietStepsReads
<1>4. ASSUME NEW c \in Conn, WriteStep(c) PROVE View(d, k)' = View(d, k)
  <2>1. /\ AcquireOk(c) /\ Active(c) /\ state' = state
        /\ lock'.lock_txid = state[c].txid
    BY <1>4, WriteStepFacts
  <2>2. state[d].txid # lock'.lock_txid
    BY <2>1 DEF OwnWrite
  <2>3. state[d].txid # lock.lock_txid
    <3> SUFFICES ASSUME state[d].txid = lock.lock_txid PROVE FALSE
      OBVIOUS
    <3>1. LockTimedOut
      BY <1>0, <2>1, <2>2, ActiveState DEF AcquireOk
    <3>2. lock.lock_created_at = state[d].created_at
      BY <1>0 DEF OnRecord
    <3> QED
      BY <1>0, <3>1, <3>2 DEF LockTimedOut
  <2> QED
    BY <1>0, <1>4, <2>2, <2>3, WriteStepReads, SameCommitted DEF KeepsCommitted
<1>5. ASSUME NEW c \in Conn, RollbackTx(c) PROVE View(d, k)' = View(d, k)
  <2>1. d # c
    BY <1>0, <1>5 DEF RollbackTx, TypeOK
  <2>2. state[d].txid # state[c].txid /\ state[d].txid # None
    BY <1>0, <1>5, <2>1, ActiveState DEF UniqueTx, RollbackTx
  <2> QED
    BY <1>0, <1>1, <1>5, <2>2, RollbackReads, SameCommitted
<1>6. ASSUME NEW c \in Conn, Commit(c) PROVE View(d, k)' = View(d, k)
  <2>1. d # c
    BY <1>0, <1>6 DEF Commit, TypeOK
  <2>2. Active(c) /\ state[d].txid # state[c].txid /\ state[c].txid \in Txid
    BY <1>0, <1>6, <2>1, ActiveState DEF UniqueTx, Commit, FetchOk
  <2>3. View(d, k)' = Get(tree[k], state[d].txid, lock'.lock_txid)
    BY <1>0, <1>6, <2>1, CommitReads DEF View
  <2>4. CASE lock.lock_txid = state[c].txid
    <3>0. ~(state[c].txid < state[d].txid)
      BY <1>0, <1>6, <2>4 DEF OlderCommit
    <3>1. state[d].txid < state[c].txid
      <4> DEFINE m == state[d].txid
                 n == state[c].txid
      <4>1. m \in Nat /\ n \in Nat /\ m # n /\ ~(n < m)
        BY <1>0, <2>2, <3>0 DEF Txid
      <4> HIDE DEF m, n
      <4>2. m < n
        BY <4>1, SMT
      <4> QED
        BY <4>2 DEF m, n
    <3>4. lock'.lock_txid = None
      BY <1>6, <2>4, CommitReads
    <3>2. tree[k] \subseteq SnapshotItem
      BY <1>0 DEF TypeOK
    <3> QED
      BY <1>0, <2>2, <2>3, <2>4, <3>1, <3>2, <3>4, YoungerGet, ZenonT(60) DEF View
  <2>5. CASE lock.lock_txid # state[c].txid
    BY <1>6, <2>3, <2>5, CommitReads DEF View
  <2> QED
    BY <2>4, <2>5
<1>7. ASSUME NEW c \in Conn, CallFails(c) PROVE View(d, k)' = View(d, k)
  <2>1. CASE LockTimedOut
    <3>1. state[d].txid # lock.lock_txid
      BY <1>0, <2>1 DEF OnRecord, LockTimedOut
    <3>2. lock'.lock_txid = None /\ state[d].txid # None /\ Committed(k)' = Committed(k)
      BY <1>0, <1>7, <2>1, CallFailsReads, ActiveState DEF KeepsCommitted
    <3> QED
      BY <1>0, <3>1, <3>2, SameCommitted
  <2>2. CASE ~LockTimedOut
    BY <1>1, <1>7, <2>2, CallFailsReads
  <2> QED
    BY <2>1, <2>2
<1> QED
  BY <1>2, <1>3, <1>4, <1>5, <1>6, <1>7 DEF Next, ConnStep

\* Each step is a step of the transactional storage, or none.
LEMMA PromiseStep ==
  ASSUME ReadInv, OrderlyClients, [Next]_vars
  PROVE  [Promise!Next]_(Promise!vars)
<1> DEFINE committed == [k \in Key |-> NewView(k)]
           workspace == [k \in Key |-> HolderView(k)]
           h == lock.lock_txid
<1>1. ASSUME lock' = lock, \A k \in Key : /\ NewView(k)' = NewView(k)
                                          /\ HolderView(k)' = HolderView(k)
      PROVE  UNCHANGED Promise!vars
  BY <1>1 DEF Promise!vars
<1>2. CASE Tick \/ Reopen \/ UNCHANGED vars
  BY <1>1, <1>2, QuietStepsReads
<1>3. ASSUME NEW c \in Conn, \/ Begin(c) \/ BeginStatement(c) \/ StatementFails(c)
                             \/ CommitFails(c) \/ PlanStatement(c)
                             \/ FetchAllSchemas(c)
      PROVE  UNCHANGED Promise!vars
  BY <1>1, <1>3, QuietStepsReads
<1>4. ASSUME NEW c \in Conn, WriteStep(c) PROVE Promise!Next
  <2>1. h' # None
    BY <1>4, WriteStepFacts, NoneNotNat DEF Txid
  <2>2. committed' = committed
    BY <1>4, WriteStepReads DEF KeepsCommitted
  <2> QED
    BY <2>1, <2>2 DEF Promise!Next, Promise!Write, Promise!Steal
<1>5. ASSUME NEW c \in Conn, RollbackTx(c) PROVE [Promise!Next]_(Promise!vars)
  <2>1. CASE lock.lock_txid = state[c].txid
    <3>1. h # None /\ h' = None
      BY <1>5, <2>1, RollbackReads, ActiveState DEF RollbackTx, ReadInv, IInv
    <3>2. committed' = committed /\ workspace' = committed
      BY <1>5, <2>1, RollbackReads
    <3> QED
      BY <3>1, <3>2 DEF Promise!Next, Promise!Abort
  <2>2. CASE lock.lock_txid # state[c].txid
    BY <1>1, <1>5, <2>2, RollbackReads
  <2> QED
    BY <2>1, <2>2
<1>6. ASSUME NEW c \in Conn, Commit(c) PROVE [Promise!Next]_(Promise!vars)
  <2>1. CASE lock.lock_txid = state[c].txid
    <3>1. h # None /\ h' = None
      BY <1>6, <2>1, CommitReads, ActiveState DEF Commit, FetchOk, ReadInv, IInv
    <3>2. committed' = workspace /\ workspace' = workspace
      BY <1>6, <2>1, CommitReads
    <3> QED
      BY <3>1, <3>2 DEF Promise!Next, Promise!Commit
  <2>2. CASE lock.lock_txid # state[c].txid
    <3>1. h' = h /\ committed' = committed /\ workspace' = workspace
      BY <1>6, <2>2, CommitReads
    <3> QED
      BY <3>1 DEF Promise!vars
  <2> QED
    BY <2>1, <2>2
<1>7. ASSUME NEW c \in Conn, CallFails(c) PROVE [Promise!Next]_(Promise!vars)
  <2>1. CASE LockTimedOut
    <3>1. h # None /\ h' = None
      BY <1>7, <2>1, CallFailsReads DEF LockTimedOut
    <3>2. committed' = committed /\ workspace' = committed
      BY <1>7, <2>1, CallFailsReads DEF KeepsCommitted
    <3> QED
      BY <3>1, <3>2 DEF Promise!Next, Promise!Abort
  <2>2. CASE ~LockTimedOut
    BY <1>1, <1>7, <2>2, CallFailsReads DEF KeepsCommitted
  <2> QED
    BY <2>1, <2>2
<1> QED
  BY <1>2, <1>3, <1>4, <1>5, <1>6, <1>7 DEF Next, ConnStep

LEMMA PromiseInit == Init => Promise!Init
<1> SUFFICES ASSUME Init PROVE Promise!Init
  OBVIOUS
<1>1. \A k \in Key : NewView(k) = None /\ HolderView(k) = None
  BY DEF Init, NewView, HolderView, Get, VisibleItems
<1> QED
  BY <1>1 DEF Init, Promise!Init
-----------------------------------------------------------------------------
(* Theorems *)

\* The invariant of the storage under orderly clients: open transactions are on
\* record, marks are the holder's or committed, what the holder marked can be
\* undone, and rows fit their schema with and without the holder's writes.
THEOREM ReadInvariance ==
  ASSUME OrderlyClients
  PROVE  Spec => []ReadInv
<1>1. Init => ReadInv
  BY InitReads
<1>2. ReadInv /\ [Next]_vars => ReadInv'
  BY NextReads
<1> QED
  BY <1>1, <1>2, PTL DEF Spec

\* ALTER TABLE is never seen half done, whichever transaction was rolled back,
\* taken over or collected (Snapshot::rollback, Snapshot::gc).
THEOREM ShapesAgree ==
  ASSUME OrderlyClients
  PROVE  Spec => []RowsFitSchema
<1>1. ReadInv => RowsFitSchema
  <2> SUFFICES ASSUME ReadInv PROVE RowsFitSchema
    OBVIOUS
  <2>1. \A t \in Table, r \in Row : SchemaKey(t) \in Key /\ <<t, r>> \in Key
    BY KeyParts
  <2> QED
    BY <2>1 DEF ReadInv, RowsBelong, RowsFitSchema
<1> QED
  BY <1>1, ReadInvariance, PTL

\* The reads of an open transaction change only by its own writes and by the
\* commit of a transaction that began before it: not by a younger writer, a
\* rollback, a take-over of the lock or garbage collection.
THEOREM ReadsAreStable ==
  ASSUME OrderlyClients
  PROVE  Spec => StableReads
<1> DEFINE A == \A c \in Conn : Stays(c) /\ ~OwnWrite(c) /\ ~OlderCommit(c)
                                => \A k \in Key : View(c, k)' = View(c, k)
<1>1. ReadInv /\ [Next]_vars => [A]_vars
  BY StableStep
<1>2. Spec => [][A]_vars
  BY <1>1, ReadInvariance, PTL DEF Spec
<1> QED
  BY <1>2 DEF StableReads

\* The multi-version tree with its lock, rollback and garbage collection
\* implements the transactional storage: what others read changes only by a
\* commit, and then to exactly the committer's copy of the database.
THEOREM CommitsAreAtomic ==
  ASSUME OrderlyClients
  PROVE  Spec => AllOrNothing
<1>1. Init => Promise!Init
  BY PromiseInit
<1>2. ReadInv /\ [Next]_vars => [Promise!Next]_(Promise!vars)
  BY PromiseStep
<1> QED
  BY <1>1, <1>2, ReadInvariance, PTL DEF Spec, AllOrNothing, Promise!Spec
=============================================================================
