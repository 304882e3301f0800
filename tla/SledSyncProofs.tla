--------------------------- MODULE SledSyncProofs ---------------------------
(***************************************************************************)
(* Writes keep the indexes of SledStorage in step with its rows: what      *)
(* index_sync.rs adds and removes makes the index entries that each reader *)
(* sees those of the rows that it sees (index_sync.rs, index_mut.rs).      *)
(***************************************************************************)
EXTENDS SledIndexProofs, SledReadProofs

\* Most leaves are first-order; the ones that calculate cite SMT.
USE Zenon

-----------------------------------------------------------------------------
(* What a writer finds *)

\* What a rollback of the lock holder would leave under an index key.
CommittedEntries(i) == Rollback(index[i], lock.lock_txid)

LEMMA EntryFacts ==
  ASSUME ScanInv, NEW i \in IndexKey
  PROVE  /\ index[i] \in SUBSET Entry /\ HasTop(index[i]) /\ Apart(index[i])
         /\ \A w \in Txid : HasMark(index[i], w) =>
              w < nextId /\ (w = lock.lock_txid \/ w < wroteAt)
<1>1. IndexPart /\ EntriesSettled
  BY IndexParts DEF ScanInv
<1>2. index[i] \in SUBSET Entry /\ HasTop(index[i])
  BY <1>1, Tops
<1>3. Apart(index[i])
  BY <1>1 DEF EntriesSettled, Apart
<1>4. \A w \in Txid : HasMark(index[i], w) => w < nextId
  BY <1>1, OldMarks
<1>5. \A w \in Txid : HasMark(index[i], w) => w = lock.lock_txid \/ w < wroteAt
  BY <1>1, NoneNotNat DEF EntriesSettled, HasMark, Txid
<1> QED
  BY <1>2, <1>3, <1>4, <1>5

LEMMA ScanFacts ==
  ASSUME ScanInv
  PROVE  /\ ReadInv /\ IInv /\ TypeOK /\ UniqueTx /\ IndexPart
         /\ lock.lock_txid \in Txid \cup {None} /\ nextId \in Txid
         /\ wroteAt \in Nat /\ wroteAt <= nextId
         /\ lock.lock_txid # nextId
         /\ lock.lock_txid # None => lock.lock_txid < nextId /\ wroteAt <= lock.lock_txid
<1>1. ReadInv /\ IInv /\ TypeOK /\ UniqueTx /\ IndexPart /\ EntriesSettled /\ Settled
  BY IndexParts DEF ScanInv, ReadInv, IInv
<1> QED
  BY <1>1, HolderFacts DEF EntriesSettled, Settled, TypeOK, Txid

LEMMA CommittedEntryFacts ==
  ASSUME ScanInv, NEW i \in IndexKey
  PROVE  /\ CommittedEntries(i) \in SUBSET Entry
         /\ HasTop(CommittedEntries(i)) /\ Apart(CommittedEntries(i))
         /\ \A w \in Txid : HasMark(CommittedEntries(i), w) =>
              w # lock.lock_txid /\ w < wroteAt /\ w < nextId
         /\ \A t \in Txid : t # lock.lock_txid =>
              SeenAt(index[i], t, lock.lock_txid) = SeenAt(CommittedEntries(i), t, None)
         /\ lock.lock_txid = None => CommittedEntries(i) = index[i]
<1> DEFINE h == lock.lock_txid
<1>0. h \in Txid \cup {None} /\ nextId \in Nat
  BY ScanFacts DEF Txid
<1>1. /\ index[i] \in SUBSET Entry /\ HasTop(index[i]) /\ Apart(index[i])
      /\ \A w \in Txid : HasMark(index[i], w) => w < nextId /\ (w = h \/ w < wroteAt)
  BY EntryFacts
<1>2. \A t \in Txid : t # h =>
        SeenAt(index[i], t, h) = SeenAt(Rollback(index[i], h), t, None)
  <2> HIDE DEF h
  <2> QED
    BY <1>0, <1>1, HiddenSeen
<1>3. CASE h = None
  <2>1. Rollback(index[i], None) = index[i]
    <3>1. \A e \in index[i] : e.created_by # None /\ Undo(e, None) = e
      <4>1. ASSUME NEW e \in index[i] PROVE e.created_by # None /\ Undo(e, None) = e
        <5>1. e \in Entry /\ e.created_by # None
          BY <1>1, NoneNotNat DEF Entry, Txid
        <5>2. /\ Undo(e, None) \in Entry
              /\ Undo(e, None).at = e.at /\ Undo(e, None).data = e.data
              /\ Undo(e, None).created_by = e.created_by
              /\ Undo(e, None).deleted_by = e.deleted_by
          BY <5>1, UndoEntry
        <5> QED
          BY <5>1, <5>2, SameEntry
      <4> QED
        BY <4>1
    <3>2. \A f : f \in Rollback(index[i], None) <=>
            \E e \in index[i] : e.created_by # None /\ f = Undo(e, None)
      BY RollbackIsUndo
    <3> QED
      BY <3>1, <3>2, SMT
  <2> QED
    BY <1>1, <1>2, <1>3, <2>1, NoneNotNat DEF CommittedEntries, Txid
<1>4. CASE h \in Txid
  <2>1. /\ Rollback(index[i], h) \in SUBSET Entry /\ HasTop(Rollback(index[i], h))
        /\ ~HasMark(Rollback(index[i], h), h)
        /\ \A v \in Txid : HasMark(Rollback(index[i], h), v) => HasMark(index[i], v)
        /\ Apart(Rollback(index[i], h))
    <3> HIDE DEF h
    <3> QED
      BY <1>1, <1>4, RollbackEntries, RollbackApart
  <2>2. h # None
    BY <1>4, NoneNotNat DEF Txid
  <2> QED
    BY <1>1, <1>2, <2>1, <2>2 DEF CommittedEntries
<1> QED
  BY <1>0, <1>3, <1>4

\* Undoing the holder by its temp keys is a rollback of every index key.
LEMMA RolledBackIndexIsCommitted ==
  ASSUME ScanInv, lock.lock_txid # None, NEW i \in IndexKey
  PROVE  RolledBackIndex(lock.lock_txid)[i] = CommittedEntries(i)
<1>1. HasMark(index[i], lock.lock_txid) => <<lock.lock_txid, i>> \in tempIndex
  BY DEF ScanInv, EntriesSettled
<1>2. ~HasMark(index[i], lock.lock_txid) =>
        Rollback(index[i], lock.lock_txid) = index[i]
  BY RollbackOfNothing
<1> QED
  BY <1>1, <1>2 DEF RolledBackIndex, CommittedEntries

LEMMA BaseIndexIsCommitted ==
  ASSUME ScanInv, LockTimedOut, NEW i \in IndexKey
  PROVE  BaseIndex[i] = CommittedEntries(i)
BY RolledBackIndexIsCommitted DEF BaseIndex, LockTimedOut

\* The entries a writer finds that no newer transaction has overtaken.
LEMMA WriterEntries ==
  ASSUME ScanInv, NEW c \in Conn, AcquireOk(c), Fresh(c), NEW i \in IndexKey
  PROVE  /\ BaseIndex[i] \in SUBSET Entry
         /\ HasTop(BaseIndex[i]) /\ Apart(BaseIndex[i])
         /\ Rollback(BaseIndex[i], state[c].txid) = CommittedEntries(i)
         /\ \A w \in Txid : HasMark(BaseIndex[i], w) =>
              w <= state[c].txid /\ (w = state[c].txid \/ w < wroteAt)
         /\ lock.lock_txid # state[c].txid => BaseIndex[i] = CommittedEntries(i)
         /\ lock.lock_txid = state[c].txid => BaseIndex[i] = index[i]
<1> DEFINE me == state[c].txid
           h == lock.lock_txid
<1>0. /\ TypeOK /\ wroteAt \in Nat /\ h \in Txid \cup {None} /\ ReadInv
      /\ Active(c) /\ me \in Txid /\ wroteAt <= me /\ me \in Nat /\ me # None
  BY ScanFacts, ActiveState DEF AcquireOk, FetchOk, Fresh, Txid
<1>1. CASE h = me
  <2>1. ~LockTimedOut
    BY <1>0, <1>1, TakeOverOfOther
  <2>2. BaseIndex[i] = index[i]
    BY <2>1 DEF BaseIndex
  <2>3. \A w \in Txid : HasMark(index[i], w) => w <= me /\ (w = me \/ w < wroteAt)
    BY <1>0, <1>1, EntryFacts, SMT DEF Txid
  <2> QED
    BY <1>1, <2>2, <2>3, EntryFacts DEF CommittedEntries
<1>2. CASE h # me
  <2>1. BaseIndex[i] = CommittedEntries(i)
    <3>1. CASE LockTimedOut
      BY <3>1, BaseIndexIsCommitted
    <3>2. CASE ~LockTimedOut
      <4>1. h = None
        BY <1>2, <3>2 DEF AcquireOk
      <4> QED
        BY <3>2, <4>1, CommittedEntryFacts DEF BaseIndex
    <3> QED
      BY <3>1, <3>2
  <2>2. \A w \in Txid : HasMark(CommittedEntries(i), w) => w < wroteAt
    BY CommittedEntryFacts
  <2>3. ~HasMark(CommittedEntries(i), me)
    BY <1>0, <2>2, SMT DEF Txid
  <2>4. Rollback(CommittedEntries(i), me) = CommittedEntries(i)
    BY <2>3, RollbackOfNothing
  <2>5. \A w \in Txid : HasMark(CommittedEntries(i), w) => w <= me /\ w < wroteAt
    BY <1>0, <2>2, SMT DEF Txid
  <2> QED
    BY <1>2, <2>1, <2>4, <2>5, CommittedEntryFacts
<1> QED
  BY <1>1, <1>2

\* Rows and entries agree in what the writer starts from.
LEMMA WriterFaithful ==
  ASSUME ScanInv, NEW c \in Conn, AcquireOk(c), Fresh(c)
  PROVE  Faithful([k \in Key |-> Current(c, k)],
                  [i \in IndexKey |-> SeenAt(BaseIndex[i], state[c].txid, None)])
<1> DEFINE me == state[c].txid
           h == lock.lock_txid
           v == [k \in Key |-> Current(c, k)]
           s == [i \in IndexKey |-> SeenAt(BaseIndex[i], me, None)]
<1>0. /\ ReadInv /\ nextId \in Txid /\ h # nextId /\ me \in Txid
      /\ me < nextId /\ nextId \in Nat
  BY ScanFacts, ActiveState DEF AcquireOk, FetchOk, IInv, IdsFresh, Txid
<1>1. \A k \in Key : v[k] = Get(BaseTree[k], nextId, None)
  BY <1>0, WriterViews
<1>2. ASSUME NEW i \in IndexKey PROVE s[i] = SeenAt(BaseIndex[i], nextId, None)
  <2>1. BaseIndex[i] \in SUBSET Entry
        /\ \A w \in Txid : HasMark(BaseIndex[i], w) => w <= me
    BY WriterEntries
  <2>2. \A w \in Txid : HasMark(BaseIndex[i], w) => w <= me /\ w <= nextId
    BY <1>0, <2>1, SMT DEF Txid
  <2> QED
    BY <1>0, <2>1, <2>2, SeenAbove
<1>3. CASE h = me
  <2>1. \A k \in Key : v[k] = HolderView(k)
    BY <1>0, <1>1, <1>3, WriterBase DEF HolderView
  <2>2. \A i \in IndexKey : s[i] = SeenAt(index[i], nextId, None)
    BY <1>2, <1>3, WriterEntries
  <2> DEFINE w == [k \in Key |-> HolderView(k)]
             r == [i \in IndexKey |-> SeenAt(index[i], nextId, None)]
  <2>3. Faithful(w, r)
    BY DEF ScanInv
  <2>4. (\A k \in Key : w[k] = v[k]) /\ \A i \in IndexKey : r[i] = s[i]
    BY <2>1, <2>2
  <2> HIDE DEF v, s, w, r
  <2> QED
    BY <2>3, <2>4, FaithfulEq DEF v, s
<1>4. CASE h # me
  <2>1. \A k \in Key : v[k] = NewView(k)
    BY <1>0, <1>1, <1>4, WriterBase, OthersReadCommitted
  <2>2. \A i \in IndexKey : s[i] = SeenAt(index[i], nextId, h)
    BY <1>0, <1>2, <1>4, WriterEntries, CommittedEntryFacts
  <2> DEFINE w == [k \in Key |-> NewView(k)]
             r == [i \in IndexKey |-> SeenAt(index[i], nextId, h)]
  <2>3. Faithful(w, r)
    BY DEF ScanInv
  <2>4. (\A k \in Key : w[k] = v[k]) /\ \A i \in IndexKey : r[i] = s[i]
    BY <2>1, <2>2
  <2> HIDE DEF v, s, w, r
  <2> QED
    BY <2>3, <2>4, FaithfulEq DEF v, s
<1> QED
  BY <1>3, <1>4
-----------------------------------------------------------------------------
(* The steps *)

\* ScanInv after a step, from what is read then.
LEMMA ScanInvOf ==
  ASSUME ReadInv', AllUndoable', EntriesSettled',
         NEW nv, NEW ns, Faithful(nv, ns), \A k \in Key : nv[k] = NewView(k)',
         \A i \in IndexKey : ns[i] = SeenAt(index'[i], nextId', lock'.lock_txid),
         NEW hv, NEW hs, Faithful(hv, hs), \A k \in Key : hv[k] = HolderView(k)',
         \A i \in IndexKey : hs[i] = SeenAt(index'[i], nextId', None),
         \A d \in Conn : FetchOk(d)' =>
           \E v, s : /\ Faithful(v, s) /\ \A k \in Key : v[k] = View(d, k)'
                     /\ \A i \in IndexKey :
                          s[i] = SeenAt(index'[i], state'[d].txid, lock'.lock_txid)
  PROVE  ScanInv'
<1>1. Faithful([k \in Key |-> NewView(k)'],
               [i \in IndexKey |-> SeenAt(index'[i], nextId', lock'.lock_txid)])
  <2> DEFINE w == [k \in Key |-> NewView(k)']
             r == [i \in IndexKey |-> SeenAt(index'[i], nextId', lock'.lock_txid)]
  <2>1. (\A k \in Key : nv[k] = w[k]) /\ \A i \in IndexKey : ns[i] = r[i]
    OBVIOUS
  <2> HIDE DEF w, r
  <2> QED
    BY <2>1, FaithfulEq, SMT DEF w, r
<1>2. Faithful([k \in Key |-> HolderView(k)'],
               [i \in IndexKey |-> SeenAt(index'[i], nextId', None)])
  <2> DEFINE w == [k \in Key |-> HolderView(k)']
             r == [i \in IndexKey |-> SeenAt(index'[i], nextId', None)]
  <2>1. (\A k \in Key : hv[k] = w[k]) /\ \A i \in IndexKey : hs[i] = r[i]
    OBVIOUS
  <2> HIDE DEF w, r
  <2> QED
    BY <2>1, FaithfulEq, SMT DEF w, r
<1>3. ASSUME NEW d \in Conn, FetchOk(d)'
      PROVE  Faithful([k \in Key |-> View(d, k)'],
                      [i \in IndexKey |->
                         SeenAt(index'[i], state'[d].txid, lock'.lock_txid)])
  <2> DEFINE w == [k \in Key |-> View(d, k)']
             r == [i \in IndexKey |->
                     SeenAt(index'[i], state'[d].txid, lock'.lock_txid)]
  <2>1. PICK v, s : /\ Faithful(v, s) /\ \A k \in Key : v[k] = View(d, k)'
                    /\ \A i \in IndexKey :
                         s[i] = SeenAt(index'[i], state'[d].txid, lock'.lock_txid)
    BY <1>3
  <2>2. (\A k \in Key : v[k] = w[k]) /\ \A i \in IndexKey : s[i] = r[i]
    BY <2>1
  <2> HIDE DEF w, r
  <2> QED
    BY <2>1, <2>2, FaithfulEq, SMT DEF w, r
<1> QED
  BY <1>1, <1>2, <1>3 DEF ScanInv

\* EntriesSettled after a step, by the marks on the entries.
LEMMA SettledOf ==
  ASSUME wroteAt' \in Nat,
         \A i \in IndexKey :
           /\ index'[i] \in SUBSET Entry /\ Apart(index'[i])
           /\ \A w \in Txid : HasMark(index'[i], w) => w = lock'.lock_txid \/ w < wroteAt'
           /\ lock'.lock_txid # None /\ HasMark(index'[i], lock'.lock_txid) =>
                <<lock'.lock_txid, i>> \in tempIndex',
         lock'.lock_txid # None => wroteAt' <= lock'.lock_txid
  PROVE  EntriesSettled'
<1>1. ASSUME NEW i \in IndexKey, NEW e \in index'[i], NEW u \in {e.created_by, e.deleted_by}
      PROVE  u \in {None, lock'.lock_txid} \/ u < wroteAt'
  <2>1. u \in Txid \cup {None}
    BY DEF Entry
  <2>2. u # None => HasMark(index'[i], u)
    BY DEF HasMark
  <2> QED
    BY <2>1, <2>2
<1> QED
  BY <1>1 DEF EntriesSettled, Apart

LEMMA WriteKeeps ==
  ASSUME NEW c \in Conn, WriteStep(c), TypeOK
  PROVE  /\ lock'.gc_txid = lock.gc_txid /\ now' = now /\ wroteAt' = wroteAt
         /\ \E kind : May(c, kind)
<1>1. \A n, T : Write(c, n, T) => /\ lock'.gc_txid = lock.gc_txid
                                  /\ now' = now /\ wroteAt' = wroteAt
  BY DEF Write, TypeOK, Lock
<1>2. (\E kind : May(c, kind)) /\ \E n, T : Write(c, n, T)
  BY DEF WriteStep, InsertSchema, DeleteSchema, AppendData, InsertData,
     DeleteData, RenameSchema, RenameColumn, AddColumn, DropColumn, Reshape,
     AlterTarget, CreateIndex, DropIndex, SetIndexes
<1> QED
  BY <1>1, <1>2

\* What a write leaves under an index key.
LEMMA SyncedSeen ==
  ASSUME ScanInv, NEW c \in Conn, AcquireOk(c), Fresh(c),
         NEW del \in SUBSET (IndexKey \X Key), NEW ins \in SUBSET (IndexKey \X Key),
         Sync(c, del, ins), NEW i \in IndexKey
  PROVE  LET me == state[c].txid
         IN  /\ index'[i] \in SUBSET Entry /\ Apart(index'[i])
             /\ Rollback(index'[i], me) = CommittedEntries(i)
             /\ \A w \in Txid : HasMark(index'[i], w) => w <= me /\ (w = me \/ w < wroteAt)
             /\ HasMark(index'[i], me) => <<me, i>> \in tempIndex'
             /\ Added({p \in SeenAt(BaseIndex[i], me, None) : p[2] \notin Of(del, i)},
                      Of(ins, i), SeenAt(index'[i], me, None))
<1> DEFINE me == state[c].txid
           s == BaseIndex[i]
           D == Of(del, i)
           K == Of(ins, i)
           m == DeleteEntries(s, me, D)
           n == PushEntries(m, me, K)
<1>0. me \in Txid /\ TypeOK /\ ReadInv /\ wroteAt \in Nat /\ wroteAt <= me
  BY ScanFacts, ActiveState DEF AcquireOk, FetchOk, Fresh, Txid
<1>1. /\ index'[i] = n
      /\ tempIndex' = BaseTempIndex \cup {<<me, p[1]>> : p \in del \cup ins}
  BY DEF Sync
<1>2. /\ s \in SUBSET Entry /\ HasTop(s) /\ Apart(s)
      /\ Rollback(s, me) = CommittedEntries(i)
      /\ \A w \in Txid : HasMark(s, w) => w <= me /\ (w = me \/ w < wroteAt)
  BY WriterEntries
<1>3. K \in SUBSET Key /\ (D # {} \/ K # {} => <<me, i>> \in tempIndex')
  BY <1>1 DEF Of
<1>4. HasMark(s, me) => <<me, i>> \in tempIndex'
  <2> SUFFICES ASSUME HasMark(s, me) PROVE <<me, i>> \in BaseTempIndex
    BY <1>1
  <2>1. lock.lock_txid = me
    BY <1>0, WriterEntries, CommittedEntryFacts, SMT DEF Txid
  <2>2. ~LockTimedOut
    BY <1>0, <2>1, TakeOverOfOther
  <2>3. s = index[i] /\ BaseTempIndex = tempIndex /\ me # None
    BY <1>0, <2>2, NoneNotNat DEF BaseIndex, BaseTempIndex, Txid
  <2> QED
    BY <2>1, <2>3 DEF ScanInv, EntriesSettled
<1> HIDE DEF me, s, D, K
<1>5. /\ m \in SUBSET Entry /\ HasTop(m) /\ Apart(m)
      /\ Rollback(m, me) = Rollback(s, me)
      /\ \A w \in Txid : HasMark(m, w) => w <= me
      /\ \A w \in Txid : HasMark(m, w) => w = me \/ HasMark(s, w)
      /\ SeenAt(m, me, None) = {p \in SeenAt(s, me, None) : p[2] \notin D}
  BY <1>0, <1>2, DeletedEntries, SMT
<1>6. \A v \in Txid : HasMark(n, v) => HasMark(s, v) \/ (v = me /\ (D # {} \/ K # {}))
  BY <1>0, <1>2, <1>3, SyncedEntries, SMT
<1> HIDE DEF m
<1>7. /\ n \in SUBSET Entry /\ Apart(n)
      /\ Rollback(n, me) = Rollback(m, me)
      /\ \A w \in Txid : HasMark(n, w) => w <= me
      /\ Added(SeenAt(m, me, None), K, SeenAt(n, me, None))
  <2>1. /\ m \in SUBSET Entry /\ HasTop(m) /\ Apart(m)
        /\ \A w \in Txid : HasMark(m, w) => w <= me
    BY <1>5
  <2>2. K \in SUBSET Key /\ me \in Txid
    BY <1>0, <1>3
  <2> QED
    BY <2>1, <2>2, PushedEntries
<1>8. HasMark(n, me) => <<me, i>> \in tempIndex'
  BY <1>0, <1>3, <1>4, <1>6
<1>9. \A w \in Txid : HasMark(n, w) => w = me \/ w < wroteAt
  BY <1>2, <1>6
<1> HIDE DEF n
<1> QED
  BY <1>1, <1>2, <1>5, <1>7, <1>8, <1>9 DEF me, s, D, K

WriterSeen(c) == [i \in IndexKey |-> SeenAt(BaseIndex[i], state[c].txid, None)]

\* A write that leaves rows and entries of its own copy in agreement.
LEMMA SyncScan ==
  ASSUME ScanInv, OrderlyClients, NEW c \in Conn, IndexWriteStep(c),
         NEW del \in SUBSET (IndexKey \X Key), NEW ins \in SUBSET (IndexKey \X Key),
         Sync(c, del, ins), AcquireOk(c), Fresh(c),
         NEW view, \A k \in Key : HolderView(k)' = view[k],
         \A seen : After(WriterSeen(c), del, ins, seen) => Faithful(view, seen)
  PROVE  ScanInv'
<1> DEFINE me == state[c].txid
           h == lock.lock_txid
           seen == [i \in IndexKey |-> SeenAt(index'[i], me, None)]
<1>0. /\ WriteStep(c) /\ ReadInv /\ IInv /\ TypeOK /\ UniqueTx /\ OnRecord
      /\ AllUndoable /\ nextId \in Nat /\ wroteAt \in Nat /\ h # nextId
  BY IndexWrites, ScanFacts DEF ScanInv, ReadInv, Txid
<1>1. /\ Active(c) /\ me \in Txid /\ me \in Nat /\ me # None /\ wroteAt <= me
      /\ me < nextId
  BY <1>0, ActiveState DEF AcquireOk, FetchOk, Fresh, Txid, IInv, IdsFresh
<1>2. /\ ReadInv' /\ AllUndoable'
      /\ \A k \in Key : Committed(k)' = Committed(k) /\ NewView(k)' = NewView(k)
  BY <1>0, WriteStepReads, IndexWriteUndoable DEF KeepsCommitted
<1>3. /\ state' = state /\ lock'.lock_txid = me /\ lock'.gc_txid = lock.gc_txid
      /\ now' = now /\ wroteAt' = wroteAt /\ nextId <= nextId' /\ nextId' \in Nat
  BY <1>0, <1>2, WriteLocks, WriteKeeps DEF ReadInv, IInv, TypeOK
<1>4. me < nextId' /\ nextId' \in Txid /\ nextId \in Txid /\ nextId' # me /\ nextId # me
  BY <1>0, <1>1, <1>3, SMT DEF Txid
<1>5. \A i \in IndexKey :
        /\ index'[i] \in SUBSET Entry /\ Apart(index'[i])
        /\ Rollback(index'[i], me) = CommittedEntries(i)
        /\ \A w \in Txid : HasMark(index'[i], w) => w <= me /\ (w = me \/ w < wroteAt)
        /\ HasMark(index'[i], me) => <<me, i>> \in tempIndex'
        /\ Added({p \in SeenAt(BaseIndex[i], me, None) : p[2] \notin Of(del, i)},
                 Of(ins, i), SeenAt(index'[i], me, None))
  BY SyncedSeen
<1>6. EntriesSettled'
  BY <1>0, <1>1, <1>3, <1>5, SettledOf
<1>7. Faithful(view, seen)
  <2>1. \A i \in IndexKey : /\ WriterSeen(c)[i] = SeenAt(BaseIndex[i], me, None)
                           /\ seen[i] = SeenAt(index'[i], me, None)
    BY DEF WriterSeen
  <2>2. After(WriterSeen(c), del, ins, seen)
    BY <1>5, <2>1 DEF After
  <2> QED
    BY <2>2
<1>8. ASSUME NEW i \in IndexKey
      PROVE  /\ seen[i] = SeenAt(index'[i], nextId', None)
             /\ seen[i] = SeenAt(index'[i], me, me)
             /\ \A t \in Txid : t # me =>
                  SeenAt(index'[i], t, me) = SeenAt(CommittedEntries(i), t, None)
  <2>0. \A w \in Txid : HasMark(index'[i], w) => w <= me
    BY <1>5
  <2>1. \A w \in Txid : HasMark(index'[i], w) => w <= me /\ w <= nextId'
    BY <1>1, <1>3, <1>4, <2>0, SMTT(60) DEF Txid
  <2>2. index'[i] \in SUBSET Entry
    BY <1>5
  <2>3. SeenAt(index'[i], me, None) = SeenAt(index'[i], nextId', None)
    BY <1>1, <1>4, <2>1, <2>2, SeenAbove
  <2>4. SeenAt(index'[i], me, me) = SeenAt(index'[i], me, None)
    BY <1>1, <2>2, OwnSeen
  <2>5. \A t \in Txid : t # me =>
          SeenAt(index'[i], t, me) = SeenAt(Rollback(index'[i], me), t, None)
    BY <1>1, <2>2, HiddenSeen
  <2> QED
    BY <1>5, <2>3, <2>4, <2>5
<1>9. ASSUME NEW i \in IndexKey
      PROVE  SeenAt(index'[i], nextId', me) = SeenAt(index[i], nextId, h)
  <2>1. /\ CommittedEntries(i) \in SUBSET Entry
        /\ \A w \in Txid : HasMark(CommittedEntries(i), w) => w < nextId
        /\ SeenAt(index[i], nextId, h) = SeenAt(CommittedEntries(i), nextId, None)
    BY <1>0, <1>4, CommittedEntryFacts
  <2>2. \A w \in Txid : HasMark(CommittedEntries(i), w) => w <= nextId /\ w <= nextId'
    BY <1>0, <1>3, <2>1, SMTT(60) DEF Txid
  <2>3. SeenAt(CommittedEntries(i), nextId, None) = SeenAt(CommittedEntries(i), nextId', None)
    BY <1>4, <2>1, <2>2, SeenAbove
  <2> QED
    BY <1>4, <1>8, <2>1, <2>3
<1>10. ASSUME NEW k \in Key PROVE View(c, k)' = view[k]
  <2>1. WellFormed(tree'[k]) /\ tree'[k] \in SUBSET SnapshotItem
    BY <1>2 DEF ReadInv, IInv, WellFormed
  <2>2. \A w \in Txid : HasMark(tree'[k], w) => w = me \/ w < wroteAt
    <3>1. \A i \in tree'[k] : \A u \in {i.created_by, i.deleted_by} :
            u \in {None, me} \/ u < wroteAt
      BY <1>2, <1>3 DEF ReadInv, Settled
    <3> QED
      BY <2>1, <3>1, SettledMarks
  <2>3. \A w \in Txid : HasMark(tree'[k], w) => w <= me /\ w <= nextId'
    BY <1>0, <1>1, <1>4, <2>2, SMTT(60) DEF Txid
  <2>4. Get(tree'[k], me, None) = Get(tree'[k], nextId', None)
    BY <1>1, <1>4, <2>1, <2>3, GetAbove
  <2>5. Get(tree'[k], me, me) = Get(tree'[k], me, None)
    BY OwnGet
  <2> QED
    BY <1>3, <2>4, <2>5 DEF View, HolderView
<1>11. ASSUME NEW d \in Conn, FetchOk(d)', d # c
       PROVE  /\ FetchOk(d) /\ \A k \in Key : View(d, k)' = View(d, k)
              /\ \A i \in IndexKey : SeenAt(index'[i], state'[d].txid, lock'.lock_txid)
                                       = SeenAt(index[i], state[d].txid, h)
  <2>1. FetchOk(d) /\ Active(d) /\ state'[d] = state[d]
    BY <1>3, <1>11 DEF FetchOk, Active, Expired, Collected
  <2>2. state[d].txid \in Txid /\ state[d].txid # me /\ state[d].txid # None
    BY <1>0, <1>1, <1>11, <2>1, ActiveState DEF UniqueTx
  <2>3. state[d].txid # h
    <3> SUFFICES ASSUME state[d].txid = h PROVE FALSE
      OBVIOUS
    <3>1. lock.lock_created_at = state[d].created_at
      BY <1>0, <2>1 DEF OnRecord
    <3>2. LockTimedOut
      BY <2>2 DEF AcquireOk
    <3> QED
      BY <2>1, <3>1, <3>2 DEF LockTimedOut, FetchOk
  <2>4. \A k \in Key : View(d, k)' = View(d, k)
    BY <1>0, <1>2, <1>3, <2>1, <2>2, <2>3, SameCommitted
  <2>5. \A i \in IndexKey : SeenAt(index'[i], state[d].txid, me)
                              = SeenAt(index[i], state[d].txid, h)
    BY <1>8, <2>2, <2>3, CommittedEntryFacts, SMTT(60)
  <2> QED
    BY <1>3, <2>1, <2>4, <2>5
<1> DEFINE nv == [k \in Key |-> NewView(k)]
           ns == [i \in IndexKey |-> SeenAt(index[i], nextId, h)]
           dv(d) == [k \in Key |-> View(d, k)]
           ds(d) == [i \in IndexKey |-> SeenAt(index[i], state[d].txid, h)]
<1>12. Faithful(nv, ns) /\ \A d \in Conn : FetchOk(d) => Faithful(dv(d), ds(d))
  BY DEF ScanInv
<1>13. (\A k \in Key : nv[k] = NewView(k)')
       /\ \A i \in IndexKey : ns[i] = SeenAt(index'[i], nextId', lock'.lock_txid)
  BY <1>2, <1>3, <1>9
<1>14. \A i \in IndexKey : seen[i] = SeenAt(index'[i], nextId', None)
  BY <1>8
<1>15. ASSUME NEW d \in Conn, FetchOk(d)'
       PROVE  \E v, s : /\ Faithful(v, s) /\ \A k \in Key : v[k] = View(d, k)'
                        /\ \A i \in IndexKey :
                             s[i] = SeenAt(index'[i], state'[d].txid, lock'.lock_txid)
  <2>1. CASE d = c
    <3>1. \A i \in IndexKey : seen[i] = SeenAt(index'[i], state'[d].txid, lock'.lock_txid)
      BY <1>3, <1>8, <2>1
    <3>2. \A k \in Key : view[k] = View(d, k)'
      BY <1>10, <2>1
    <3> HIDE DEF seen
    <3> QED
      BY <1>7, <3>1, <3>2
  <2>2. CASE d # c
    <3>1. \A k \in Key : dv(d)[k] = View(d, k)'
      BY <1>11, <1>15, <2>2
    <3>2. \A i \in IndexKey : ds(d)[i] = SeenAt(index'[i], state'[d].txid, lock'.lock_txid)
      BY <1>11, <1>15, <2>2
    <3>3. Faithful(dv(d), ds(d))
      BY <1>11, <1>12, <1>15, <2>2
    <3> HIDE DEF dv, ds
    <3> QED
      BY <3>1, <3>2, <3>3
  <2> QED
    BY <2>1, <2>2
<1>16. \A k \in Key : view[k] = HolderView(k)'
  OBVIOUS
<1> HIDE DEF nv, ns, seen
<1> QED
  BY <1>2, <1>6, <1>7, <1>12, <1>13, <1>14, <1>15, <1>16, ScanInvOf, ZenonT(60)
-----------------------------------------------------------------------------
(* The write calls *)

WriterView(c) == [k \in Key |-> Current(c, k)]

LEMMA WrittenScan ==
  ASSUME ScanInv, OrderlyClients, NEW c \in Conn, IndexWriteStep(c),
         NEW del \in SUBSET (IndexKey \X Key), NEW ins \in SUBSET (IndexKey \X Key),
         Sync(c, del, ins), NEW kind, May(c, kind),
         NEW newTree, NEW temps, Write(c, newTree, temps),
         NEW view, \A k \in Key : Touched(c, k, newTree[k], view[k]),
         \A seen : After(WriterSeen(c), del, ins, seen) => Faithful(view, seen)
  PROVE  ScanInv'
<1>1. /\ ReadInv /\ AcquireOk(c) /\ Fresh(c) /\ IInv /\ nextId \in Nat /\ WriteStep(c)
  BY ScanFacts, WriterFacts, IndexWrites DEF Txid, ScanInv
<1>2. IInv' /\ nextId <= nextId'
  BY <1>1, WriteLocks, WriteStepReads DEF KeepsCommitted, ReadInv
<1>3. nextId' \in Txid /\ nextId' \in Nat /\ tree' = newTree
  BY <1>1, <1>2, HolderFacts DEF Write, IInv, TypeOK, Txid
<1>4. \A k \in Key : Get(newTree[k], nextId', None) = view[k]
  BY <1>1, <1>2, <1>3, TouchedFacts
<1>5. \A k \in Key : HolderView(k)' = view[k]
  BY <1>3, <1>4 DEF HolderView
<1> QED
  BY <1>1, <1>5, SyncScan

\* A call that writes one key.
LEMMA OneKeyScan ==
  ASSUME ScanInv, OrderlyClients, NEW c \in Conn, IndexWriteStep(c),
         NEW del \in SUBSET (IndexKey \X Key), NEW ins \in SUBSET (IndexKey \X Key),
         Sync(c, del, ins), NEW kind, May(c, kind),
         NEW k \in Key, NEW s, NEW v, Touched(c, k, s, v),
         NEW temps, Write(c, [BaseTree EXCEPT ![k] = s], temps),
         \A w, seen : With(WriterView(c), k, v, w) /\ After(WriterSeen(c), del, ins, seen)
                      => Faithful(w, seen)
  PROVE  ScanInv'
<1> DEFINE newTree == [BaseTree EXCEPT ![k] = s]
           view == [j \in Key |-> IF j = k THEN v ELSE Current(c, j)]
<1>1. BaseTree \in [Key -> SUBSET SnapshotItem]
  BY ScanFacts, BaseFacts DEF ReadInv
<1>2. \A j \in Key : newTree[j] = IF j = k THEN s ELSE BaseTree[j]
  BY <1>1
<1>3. \A j \in Key : /\ view[j] = IF j = k THEN v ELSE Current(c, j)
                     /\ view[j] = IF j = k THEN v ELSE WriterView(c)[j]
  BY DEF WriterView
<1>4. Write(c, newTree, temps)
  OBVIOUS
<1> HIDE DEF newTree, view
<1>5. \A j \in Key : Touched(c, j, newTree[j], view[j])
  <2> SUFFICES ASSUME NEW j \in Key PROVE Touched(c, j, newTree[j], view[j])
    OBVIOUS
  <2>1. CASE j = k
    BY <1>2, <1>3, <2>1
  <2>2. CASE j # k
    BY <1>2, <1>3, <2>2 DEF Touched
  <2> QED
    BY <2>1, <2>2
<1>6. \A seen : After(WriterSeen(c), del, ins, seen) => Faithful(view, seen)
  BY <1>3 DEF With
<1> QED
  BY <1>4, <1>5, <1>6, WrittenScan

LEMMA WriterAgrees ==
  ASSUME ScanInv, OrderlyClients, NEW c \in Conn, NEW kind, May(c, kind)
  PROVE  /\ Faithful(WriterView(c), WriterSeen(c)) /\ ReadInv /\ IInv /\ RowPayloads
         /\ AcquireOk(c) /\ Fresh(c)
         /\ \A k \in Key : WriterView(c)[k] = Current(c, k)
         /\ \A t \in Table : HasIndex(c, t) <=> Has(WriterView(c), t)
<1>1. /\ ReadInv /\ IInv /\ RowPayloads /\ AcquireOk(c) /\ Fresh(c)
  BY ScanFacts, WriterFacts DEF ScanInv, AllUndoable
<1>2. Faithful(WriterView(c), WriterSeen(c))
  BY <1>1, WriterFaithful DEF WriterView, WriterSeen
<1>3. \A k \in Key : WriterView(c)[k] = Current(c, k)
  BY DEF WriterView
<1> QED
  BY <1>1, <1>2, <1>3, KeyParts DEF HasIndex, Has

\* The pairs of a row call.
LEMMA RowPairs ==
  ASSUME ReadInv, NEW c \in Conn, AcquireOk(c), Fresh(c), NEW t \in Table, NEW r \in Row
  PROVE  /\ ~HasIndex(c, t) => /\ RowDeletes(c, t, r) = {}
                               /\ \A x : RowInserts(c, t, r, x) = {}
         /\ HasIndex(c, t) =>
              \A i \in IndexKey :
                /\ Of(RowDeletes(c, t, r), i) \subseteq {<<t, r>>}
                /\ Current(c, <<t, r>>) # None /\ i = <<t, Current(c, <<t, r>>)[1]>>
                     => <<t, r>> \in Of(RowDeletes(c, t, r), i)
                /\ i[1] # t => Of(RowDeletes(c, t, r), i) = {}
                /\ \A x : Of(RowInserts(c, t, r, x), i)
                            = IF i = <<t, x>> THEN {<<t, r>>} ELSE {}
<1> DEFINE k == <<t, r>>
<1>1. k \in Key /\ k[1] = t
  BY KeyParts
<1>2. Current(c, k) # None => /\ BaseTree[k] # {}
                              /\ Current(c, k) = Front(BaseTree[k]).data
  BY <1>1, WriterViews
<1>3. ~HasIndex(c, t) => RowDeletes(c, t, r) = {} /\ \A x : RowInserts(c, t, r, x) = {}
  BY DEF RowDeletes, RowInserts
<1>4. ASSUME HasIndex(c, t), NEW i \in IndexKey
      PROVE  /\ Of(RowDeletes(c, t, r), i) \subseteq {k}
             /\ Current(c, k) # None /\ i = <<t, Current(c, k)[1]>>
                  => k \in Of(RowDeletes(c, t, r), i)
             /\ i[1] # t => Of(RowDeletes(c, t, r), i) = {}
             /\ \A x : Of(RowInserts(c, t, r, x), i) = IF i = <<t, x>> THEN {k} ELSE {}
  <2> DEFINE p == <<<<t, Front(BaseTree[k]).data[1]>>, k>>
  <2>1. RowDeletes(c, t, r) = IF BaseTree[k] # {} THEN {p} ELSE {}
    <3>1. FrontPair(k) = p
      BY <1>1 DEF FrontPair
    <3>2. Present({k}) = IF BaseTree[k] # {} THEN {k} ELSE {}
      BY DEF Present
    <3> HIDE DEF p
    <3> QED
      BY <1>4, <3>1, <3>2 DEF RowDeletes
  <2>2. Of(RowDeletes(c, t, r), i) =
          IF BaseTree[k] # {} /\ i = <<t, Front(BaseTree[k]).data[1]>> THEN {k} ELSE {}
    <3> DEFINE a == <<t, Front(BaseTree[k]).data[1]>>
    <3>1. RowDeletes(c, t, r) = IF BaseTree[k] # {} THEN {<<a, k>>} ELSE {}
      BY <2>1
    <3> HIDE DEF a, k
    <3>2. Of({<<a, k>>}, i) = IF i = a THEN {k} ELSE {}
      BY OfPair
    <3>3. Of({}, i) = {}
      BY OfNothing
    <3> QED
      BY <3>1, <3>2, <3>3 DEF a
  <2>3. ASSUME NEW x
        PROVE  Of(RowInserts(c, t, r, x), i) = IF i = <<t, x>> THEN {k} ELSE {}
    <3> DEFINE a == <<t, x>>
    <3>1. RowInserts(c, t, r, x) = {<<a, k>>}
      BY <1>4 DEF RowInserts
    <3> HIDE DEF a, k
    <3>2. Of({<<a, k>>}, i) = IF i = a THEN {k} ELSE {}
      BY OfPair
    <3> QED
      BY <3>1, <3>2 DEF a
  <2> HIDE DEF k
  <2> QED
    BY <1>2, <2>2, <2>3, SMT
<1> QED
  BY <1>3, <1>4

\* INSERT, UPDATE and DELETE of a row.
LEMMA RowScan ==
  ASSUME ScanInv, OrderlyClients, NEW c \in Conn, IndexWriteStep(c),
         NEW kind, May(c, kind), NEW t \in Table, NEW r \in Row,
         NEW del, del = RowDeletes(c, t, r) \/ (del = {} /\ Current(c, <<t, r>>) = None),
         NEW ins, NEW v, \/ v = None /\ ins = {}
                         \/ v # None /\ v[1] \in Val /\ ins = RowInserts(c, t, r, v[1]),
         Sync(c, del, ins), NEW s, Touched(c, <<t, r>>, s, v),
         NEW temps, Write(c, [BaseTree EXCEPT ![<<t, r>>] = s], temps)
  PROVE  ScanInv'
<1> DEFINE k == <<t, r>>
           W == WriterView(c)
           S == WriterSeen(c)
<1>1. /\ Faithful(W, S) /\ ReadInv /\ IInv /\ RowPayloads /\ AcquireOk(c) /\ Fresh(c)
      /\ \A j \in Key : W[j] = Current(c, j)
      /\ HasIndex(c, t) <=> Has(W, t)
  BY WriterAgrees
<1>2. k \in Key /\ W[k] = Current(c, k)
  BY <1>1, KeyParts
<1>3. del \in SUBSET (IndexKey \X Key) /\ ins \in SUBSET (IndexKey \X Key)
  BY <1>1, PairTypes
<1>4. ~Has(W, t) => del = {} /\ ins = {}
  BY <1>1, RowPairs
<1>5. ASSUME Has(W, t), NEW i \in IndexKey
      PROVE  /\ Of(del, i) \subseteq {k}
             /\ W[k] # None /\ i = <<t, W[k][1]>> => k \in Of(del, i)
             /\ Of(ins, i) = IF v # None /\ i = <<t, v[1]>> THEN {k} ELSE {}
             /\ i[1] # t => Of(del, i) = {}
  <2>1. /\ Of(RowDeletes(c, t, r), i) \subseteq {k}
        /\ Current(c, k) # None /\ i = <<t, Current(c, k)[1]>>
                  => k \in Of(RowDeletes(c, t, r), i)
        /\ i[1] # t => Of(RowDeletes(c, t, r), i) = {}
        /\ \A x : Of(RowInserts(c, t, r, x), i) = IF i = <<t, x>> THEN {k} ELSE {}
    BY <1>1, <1>5, RowPairs, SMTT(60)
  <2>2. Of({}, i) = {}
    BY OfNothing
  <2> HIDE DEF k, W
  <2> QED
    BY <1>2, <2>1, <2>2 DEF k
<1>6. ASSUME NEW w, NEW seen, With(W, k, v, w), After(S, del, ins, seen)
      PROVE  Faithful(w, seen)
  <2>1. Has(W, t) => PairsOf(t, k, W[k], v, del, ins)
    BY <1>5 DEF PairsOf
  <2>2. v = None \/ v[1] \in Val
    OBVIOUS
  <2> HIDE DEF W, S
  <2> QED
    BY <1>1, <1>4, <1>6, <2>1, <2>2, FaithfulRow
<1>7. Touched(c, k, s, v) /\ Write(c, [BaseTree EXCEPT ![k] = s], temps)
  OBVIOUS
<1> HIDE DEF k
<1> QED
  BY <1>2, <1>3, <1>6, <1>7, OneKeyScan

LEMMA AppendScan ==
  ASSUME ScanInv, OrderlyClients, NEW c \in Conn, IndexWriteStep(c),
         NEW t \in Table, NEW r \in Row, NEW x \in Val, IndexAppendData(c, t, r, x)
  PROVE  ScanInv'
<1> DEFINE k == <<t, r>>
           v == <<x, Shape(c, t)>>
           s == NewSnapshot(state[c].txid, v)
<1>1. May(c, "append") /\ AppendData(c, t, r, x) /\ Sync(c, {}, RowInserts(c, t, r, x))
  BY DEF IndexAppendData, AppendData
<1>2. AcquireOk(c) /\ Fresh(c) /\ ReadInv /\ IInv
  BY <1>1, WriterAgrees
<1>3. k \in Key /\ v \in Datum /\ v # None /\ v[1] = x
  BY <1>1, <1>2, KeyParts, ShapeType, DatumParts, NoneNotDatum, ZenonT(60) DEF AppendData
<1>4. BaseTree[k] = {}
  <2>1. Rollback({}, lock.lock_txid) = {}
    BY DEF Rollback
  <2> QED
    BY <1>1, <1>3, <2>1 DEF AppendData, BaseTree, RolledBack
<1>5. Touched(c, k, s, v)
  BY <1>3, <1>4 DEF Touched, Update
<1>6. Current(c, k) = None
  BY <1>2, <1>3, <1>4, WriterViews
<1>7. Write(c, [BaseTree EXCEPT ![k] = s], Undoable(c, {k}))
  BY <1>1 DEF AppendData
<1> HIDE DEF v, s
<1> QED
  BY <1>1, <1>3, <1>5, <1>6, <1>7, RowScan

LEMMA InsertScan ==
  ASSUME ScanInv, OrderlyClients, NEW c \in Conn, IndexWriteStep(c),
         NEW t \in Table, NEW r \in Row, NEW x \in Val, IndexInsertData(c, t, r, x)
  PROVE  ScanInv'
<1> DEFINE k == <<t, r>>
           v == <<x, Shape(c, t)>>
           s == Update(BaseTree[k], state[c].txid, v)
<1>1. /\ May(c, "insert") /\ InsertData(c, t, r, x)
      /\ Sync(c, RowDeletes(c, t, r), RowInserts(c, t, r, x))
  BY DEF IndexInsertData, InsertData
<1>2. AcquireOk(c) /\ Fresh(c) /\ ReadInv /\ IInv
  BY <1>1, WriterAgrees
<1>3. k \in Key /\ v \in Datum /\ v # None /\ v[1] = x
  BY <1>1, <1>2, KeyParts, ShapeType, DatumParts, NoneNotDatum DEF InsertData
<1>4. Touched(c, k, s, v)
  BY <1>3 DEF Touched
<1>5. Write(c, [BaseTree EXCEPT ![k] = s], Undoable(c, {k}))
  BY <1>1 DEF InsertData
<1> HIDE DEF v, s
<1> QED
  BY <1>1, <1>3, <1>4, <1>5, RowScan

LEMMA DeleteScan ==
  ASSUME ScanInv, OrderlyClients, NEW c \in Conn, IndexWriteStep(c),
         NEW t \in Table, NEW r \in Row, IndexDeleteData(c, t, r)
  PROVE  ScanInv'
<1> DEFINE k == <<t, r>>
           s == Delete(BaseTree[k], state[c].txid)
<1>1. /\ May(c, "delete") /\ DeleteData(c, t, r)
      /\ Sync(c, RowDeletes(c, t, r), {})
  BY DEF IndexDeleteData, DeleteData
<1>2. AcquireOk(c) /\ Fresh(c) /\ ReadInv /\ IInv
  BY <1>1, WriterAgrees
<1>3. k \in Key /\ k[2] # SchemaSlot
  BY KeyParts, KeyNames
<1>4. Live(BaseTree[k])
  BY <1>1, <1>2, <1>3, WriterViews DEF DeleteData
<1>5. Touched(c, k, s, None)
  BY <1>3, <1>4 DEF Touched
<1>6. Write(c, [BaseTree EXCEPT ![k] = s], Undoable(c, {k}))
  BY <1>1 DEF DeleteData
<1> HIDE DEF s
<1> QED
  BY <1>1, <1>5, <1>6, RowScan

LEMMA CreateTableScan ==
  ASSUME ScanInv, OrderlyClients, NEW c \in Conn, IndexWriteStep(c),
         NEW t \in Table, InsertSchema(c, t), Sync(c, {}, {})
  PROVE  ScanInv'
<1> DEFINE k == SchemaKey(t)
           v == <<SchemaSlot, 1>>
           s == Update(BaseTree[k], state[c].txid, v)
           W == WriterView(c)
           S == WriterSeen(c)
<1>1. May(c, "create") /\ Write(c, [BaseTree EXCEPT ![k] = s], {k}) /\ View(c, k) = None
  BY DEF InsertSchema, TableSeen
<1>2. /\ Faithful(W, S) /\ ReadInv /\ AcquireOk(c) /\ Fresh(c)
      /\ \A j \in Key : W[j] = Current(c, j)
  BY <1>1, WriterAgrees
<1>3. k \in Key /\ v \in Datum /\ v[1] # Indexed
  BY KeyParts, DatumParts, SledAssumption
<1>4. Touched(c, k, s, v)
  BY <1>3 DEF Touched
<1>5. W[k] = None
  BY <1>1, <1>2, <1>3, WriterViews
<1>6. ASSUME NEW w, NEW seen, With(W, k, v, w), After(S, {}, {}, seen)
      PROVE  Faithful(w, seen)
  <2>1. \A j \in Key : w[j] = IF j = k THEN v ELSE W[j]
    BY <1>6 DEF With
  <2>2. \A u \in Table : Has(w, u) <=> Has(W, u)
    BY <1>3, <1>5, <2>1, KeyParts, KeyNames DEF Has
  <2>3. \A u \in Table : \A j \in RowKeys(u) : w[j] = W[j]
    BY <2>1, KeyParts, KeyNames, SMTT(60) DEF RowKeys
  <2> HIDE DEF W, S
  <2> QED
    BY <1>2, <1>6, <2>2, <2>3, FaithfulSame, SMTT(60)
<1> HIDE DEF k, s, v
<1> QED
  BY <1>1, <1>3, <1>4, <1>6, OneKeyScan

LEMMA ReshapeScan ==
  ASSUME ScanInv, OrderlyClients, NEW c \in Conn, IndexWriteStep(c), NEW t \in Table,
         AlterTarget(c, t), NEW rows \in SUBSET RowsSeen(c, t), NEW cols \in Cols,
         Reshape(c, t, rows, cols), Sync(c, {}, {})
  PROVE  ScanInv'
<1> DEFINE touched == rows \cup {SchemaKey(t)}
           D(k) == <<Current(c, k)[1], cols>>
           newTree == [k \in Key |-> IF k \in touched
                         THEN Update(BaseTree[k], state[c].txid, D(k)) ELSE BaseTree[k]]
           view == [k \in Key |-> IF k \in touched THEN D(k) ELSE Current(c, k)]
           W == WriterView(c)
           S == WriterSeen(c)
<1>1. May(c, "alter") /\ Write(c, newTree, Undoable(c, touched))
  BY DEF AlterTarget, Reshape
<1>2. /\ Faithful(W, S) /\ IInv /\ \A j \in Key : W[j] = Current(c, j)
  BY <1>1, WriterAgrees
<1>3. touched \in SUBSET Key /\ \A k \in touched : Current(c, k) # None
  BY KeyParts DEF AlterTarget, RowsSeen
<1>4. \A k \in touched : D(k) \in Datum /\ D(k) # None /\ D(k)[1] = Current(c, k)[1]
  BY <1>2, <1>3, CurrentType, DatumParts, NoneNotDatum, SMT
<1>5. \A k \in Key : /\ newTree[k] = IF k \in touched
                           THEN Update(BaseTree[k], state[c].txid, D(k)) ELSE BaseTree[k]
                     /\ view[k] = IF k \in touched THEN D(k) ELSE Current(c, k)
  OBVIOUS
<1> HIDE DEF touched, D, newTree, view
<1>6. \A k \in Key : Touched(c, k, newTree[k], view[k])
  BY <1>4, <1>5 DEF Touched
<1>7. \A k \in Key : /\ view[k] # None <=> W[k] # None
                     /\ W[k] # None => view[k][1] = W[k][1]
  BY <1>2, <1>3, <1>4, <1>5
<1>8. ASSUME NEW seen, After(S, {}, {}, seen) PROVE Faithful(view, seen)
  <2>1. \A u \in Table : Has(view, u) <=> Has(W, u)
    BY <1>7, KeyParts DEF Has
  <2>2. \A u \in Table : \A k \in RowKeys(u) : /\ view[k] # None <=> W[k] # None
                                               /\ W[k] # None => view[k][1] = W[k][1]
    BY <1>7, KeyParts
  <2> HIDE DEF W, S
  <2> QED
    BY <1>2, <1>8, <2>1, <2>2, FaithfulSame
<1> QED
  BY <1>1, <1>6, <1>8, WrittenScan

LEMMA AlterScan ==
  ASSUME ScanInv, OrderlyClients, NEW c \in Conn, IndexWriteStep(c), NEW t \in Table,
         RenameColumn(c, t) \/ AddColumn(c, t) \/ DropColumn(c, t), Sync(c, {}, {})
  PROVE  ScanInv'
<1>1. AlterTarget(c, t) => Current(c, SchemaKey(t))[2] \in Cols
  BY ScanFacts, KeyParts, CurrentType, DatumParts DEF AlterTarget
<1>2. 1 \in Cols /\ 2 \in Cols
  BY DEF Cols
<1>3. CASE RenameColumn(c, t)
  BY <1>1, <1>3, ReshapeScan DEF RenameColumn
<1>4. CASE AddColumn(c, t)
  BY <1>2, <1>4, ReshapeScan DEF AddColumn
<1>5. CASE DropColumn(c, t)
  BY <1>2, <1>5, ReshapeScan DEF DropColumn
<1> QED
  BY <1>3, <1>4, <1>5

\* The pairs of create_index and drop_index.
LEMMA ScannedOf ==
  ASSUME ReadInv, NEW c \in Conn, AcquireOk(c), Fresh(c), NEW t \in Table,
         NEW i \in IndexKey
  PROVE  Of(ScannedPairs(c, t), i) =
           IF i[1] = t
           THEN {k \in RowKeys(t) : /\ WriterView(c)[k] # None
                                    /\ WriterView(c)[k][1] = i[2]}
           ELSE {}
<1>1. \A k \in RowKeys(t) : View(c, k) = WriterView(c)[k]
  BY KeyParts, WriterViews DEF WriterView
<1>2. i = <<i[1], i[2]>>
  BY SMT DEF IndexKey
<1>3. \A y : y \in Of(ScannedPairs(c, t), i) <=>
        \E p \in ScannedPairs(c, t) : p[1] = i /\ y = p[2]
  BY DEF Of
<1>4. \A p : p \in ScannedPairs(c, t) <=>
        \E k \in RowKeys(t) : View(c, k) # None /\ p = <<<<t, View(c, k)[1]>>, k>>
  BY DEF ScannedPairs
<1>5. \A y : y \in Of(ScannedPairs(c, t), i) <=>
        y \in RowKeys(t) /\ View(c, y) # None /\ <<t, View(c, y)[1]>> = i
  <2>1. ASSUME NEW y, y \in Of(ScannedPairs(c, t), i)
        PROVE  y \in RowKeys(t) /\ View(c, y) # None /\ <<t, View(c, y)[1]>> = i
    <3>1. PICK p \in ScannedPairs(c, t) : p[1] = i /\ y = p[2]
      BY <1>3, <2>1
    <3>2. PICK k \in RowKeys(t) : View(c, k) # None /\ p = <<<<t, View(c, k)[1]>>, k>>
      BY <1>4
    <3> QED
      BY <3>1, <3>2
  <2>2. ASSUME NEW y \in RowKeys(t), View(c, y) # None, <<t, View(c, y)[1]>> = i
        PROVE  y \in Of(ScannedPairs(c, t), i)
    <3>1. <<i, y>> \in ScannedPairs(c, t)
      BY <1>4, <2>2
    <3> QED
      BY <1>3, <3>1
  <2> QED
    BY <2>1, <2>2
<1>6. \A y : y \in Of(ScannedPairs(c, t), i) <=>
        /\ i[1] = t /\ y \in RowKeys(t)
        /\ WriterView(c)[y] # None /\ WriterView(c)[y][1] = i[2]
  BY <1>1, <1>2, <1>5, SMT
<1> QED
  BY <1>6

\* CREATE INDEX and DROP INDEX.
LEMMA SetIndexesScan ==
  ASSUME ScanInv, OrderlyClients, NEW c \in Conn, IndexWriteStep(c), NEW t \in Table,
         NEW from, NEW to, SetIndexes(c, t, from, to),
         NEW del, NEW ins, Sync(c, del, ins),
         \/ from = SchemaSlot /\ to = Indexed /\ del = {} /\ ins = ScannedPairs(c, t)
         \/ from = Indexed /\ to = SchemaSlot /\ del = ScannedPairs(c, t) /\ ins = {}
  PROVE  ScanInv'
<1> DEFINE k == SchemaKey(t)
           f == Front(BaseTree[k])
           v == <<to, f.data[2]>>
           s == Update(Delete(BaseTree[k], state[c].txid), state[c].txid, v)
           W == WriterView(c)
           S == WriterSeen(c)
<1>1. /\ May(c, "index") /\ BaseTree[k] # {} /\ f.data[1] = from
      /\ Write(c, [BaseTree EXCEPT ![k] = s], {k})
  BY DEF SetIndexes
<1>2. /\ Faithful(W, S) /\ ReadInv /\ IInv /\ RowPayloads /\ AcquireOk(c) /\ Fresh(c)
      /\ \A j \in Key : W[j] = Current(c, j)
  BY <1>1, WriterAgrees
<1>3. k \in Key /\ k[2] = SchemaSlot
  BY KeyParts, KeyNames
<1>4. Live(BaseTree[k]) /\ W[k] = f.data
  BY <1>1, <1>2, <1>3, WriterBase, WriterViews
<1>5. f \in SnapshotItem
  BY <1>1, <1>2, <1>3, BaseFacts, FrontIsNewest DEF WellFormed
<1>6. v \in Datum /\ v # None /\ v[1] = to /\ W[k] # None
  BY <1>4, <1>5, DatumParts, NoneNotDatum, SMT DEF SnapshotItem
<1>7. Touched(c, k, s, v)
  BY <1>4, <1>6 DEF Touched
<1>8. del \in SUBSET (IndexKey \X Key) /\ ins \in SUBSET (IndexKey \X Key)
  BY <1>2, PairTypes
<1>9. \A i \in IndexKey : Of(ScannedPairs(c, t), i) =
        IF i[1] = t THEN {j \in RowKeys(t) : W[j] # None /\ W[j][1] = i[2]} ELSE {}
  BY <1>2, ScannedOf
<1>10. ASSUME NEW w, NEW seen, With(W, k, v, w), After(S, del, ins, seen)
       PROVE  Faithful(w, seen)
  <2>1. /\ w[k] = v /\ \A j \in Key : j # SchemaKey(t) => w[j] = W[j]
    BY <1>3, <1>10 DEF With
  <2>2. /\ Has(W, t) <=> from = Indexed
        /\ Has(w, t) <=> to = Indexed
    BY <1>1, <1>4, <1>6, <2>1 DEF Has
  <2> HIDE DEF W, S, k, v
  <2>3. CASE to = Indexed
    <3>1. ~Has(W, t) /\ Has(w, t) /\ del = {} /\ ins = ScannedPairs(c, t)
      BY <2>2, <2>3, SledAssumption
    <3> QED
      BY <1>2, <1>9, <1>10, <2>1, <3>1, FaithfulCreate, SMTT(60)
  <2>4. CASE to = SchemaSlot
    <3>1. Has(W, t) /\ ~Has(w, t) /\ del = ScannedPairs(c, t) /\ ins = {}
      BY <2>2, <2>4, SledAssumption
    <3> QED
      BY <1>2, <1>9, <1>10, <2>1, <3>1, FaithfulDrop, SMTT(60)
  <2> QED
    BY <2>3, <2>4
<1> HIDE DEF k, f, v, s
<1> QED
  BY <1>1, <1>3, <1>7, <1>8, <1>10, OneKeyScan

LEMMA WriteScan ==
  ASSUME ScanInv, OrderlyClients, NEW c \in Conn, IndexWriteStep(c)
  PROVE  ScanInv'
<1>1. PICK t \in Table :
        \/ \E r \in Row, v \in Val : IndexAppendData(c, t, r, v)
        \/ \E r \in Row, v \in Val : IndexInsertData(c, t, r, v)
        \/ \E r \in Row : IndexDeleteData(c, t, r)
        \/ IndexDeleteSchema(c, t)
        \/ IndexCreateIndex(c, t)
        \/ IndexDropIndex(c, t)
        \/ IndexOtherWrite(c, t)
  BY DEF IndexWriteStep
<1>2. ~May(c, "drop") /\ ~May(c, "rename")
  BY DEF May, OrderlyClients
<1>3. ~IndexDeleteSchema(c, t) /\ \A u : ~RenameSchema(c, t, u)
  BY <1>2 DEF IndexDeleteSchema, DeleteSchema, RenameSchema
<1>4. CASE IndexCreateIndex(c, t)
  BY <1>4, SetIndexesScan DEF IndexCreateIndex, CreateIndex
<1>5. CASE IndexDropIndex(c, t)
  BY <1>5, SetIndexesScan DEF IndexDropIndex, DropIndex
<1>6. CASE IndexOtherWrite(c, t)
  BY <1>3, <1>6, CreateTableScan, AlterScan DEF IndexOtherWrite
<1> QED
  BY <1>1, <1>3, <1>4, <1>5, <1>6, AppendScan, InsertScan, DeleteScan
=============================================================================
