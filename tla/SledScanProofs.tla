--------------------------- MODULE SledScanProofs ---------------------------
(***************************************************************************)
(* The indexes of SledStorage agree with its rows, for every reader: an    *)
(* index scan finds what a full scan finds (index.rs, index_sync.rs).      *)
(***************************************************************************)
EXTENDS SledSyncProofs

\* Most leaves are first-order; the ones that calculate cite SMT.
USE Zenon

-----------------------------------------------------------------------------
(* The other steps *)

NewRows == [k \in Key |-> NewView(k)]
NewSeen == [i \in IndexKey |-> SeenAt(index[i], nextId, lock.lock_txid)]
HolderRows == [k \in Key |-> HolderView(k)]
HolderSeen == [i \in IndexKey |-> SeenAt(index[i], nextId, None)]
RowsOf(d) == [k \in Key |-> View(d, k)]
SeenOf(d) == [i \in IndexKey |-> SeenAt(index[i], state[d].txid, lock.lock_txid)]

\* Whatever is read after the step was read before it.
LEMMA ScanStep ==
  ASSUME ScanInv, ReadInv', AllUndoable', EntriesSettled',
         \/ NewRows' = NewRows /\ NewSeen' = NewSeen
         \/ NewRows' = HolderRows /\ NewSeen' = HolderSeen,
         \/ HolderRows' = HolderRows /\ HolderSeen' = HolderSeen
         \/ HolderRows' = NewRows /\ HolderSeen' = NewSeen,
         \A d \in Conn : FetchOk(d)' =>
           \/ FetchOk(d) /\ RowsOf(d)' = RowsOf(d) /\ SeenOf(d)' = SeenOf(d)
           \/ RowsOf(d)' = NewRows /\ SeenOf(d)' = NewSeen
           \/ RowsOf(d)' = HolderRows /\ SeenOf(d)' = HolderSeen
  PROVE  ScanInv'
<1>1. /\ Faithful(NewRows, NewSeen) /\ Faithful(HolderRows, HolderSeen)
      /\ \A d \in Conn : FetchOk(d) => Faithful(RowsOf(d), SeenOf(d))
  BY DEF ScanInv, NewRows, NewSeen, HolderRows, HolderSeen, RowsOf, SeenOf
<1>2. /\ Faithful(NewRows', NewSeen') /\ Faithful(HolderRows', HolderSeen')
      /\ \A d \in Conn : FetchOk(d)' => Faithful(RowsOf(d)', SeenOf(d)')
  BY <1>1
<1> QED
  BY <1>2 DEF ScanInv, NewRows, NewSeen, HolderRows, HolderSeen, RowsOf, SeenOf

\* Ids are handed out, transactions begin or end, and nothing is written.
LEMMA SameScan ==
  ASSUME ScanInv, ReadInv', AllUndoable', tree' = tree, lock' = lock,
         index' = index, tempIndex' = tempIndex, wroteAt' = wroteAt, nextId <= nextId',
         \A k \in Key : NewView(k)' = NewView(k) /\ HolderView(k)' = HolderView(k),
         \A d \in Conn : FetchOk(d)' => \/ FetchOk(d) /\ state'[d] = state[d]
                                        \/ state'[d].txid = nextId
  PROVE  ScanInv'
<1> DEFINE h == lock.lock_txid
<1>1. /\ h # nextId /\ nextId \in Txid /\ nextId \in Nat /\ nextId' \in Nat
      /\ h # None => h < nextId /\ h \in Nat
  BY ScanFacts DEF ReadInv, IInv, TypeOK, Txid
<1>2. nextId' \in Txid /\ nextId' # h
  BY <1>1, NoneNotNat, SMT DEF Txid
<1>3. ASSUME NEW i \in IndexKey
      PROVE  /\ SeenAt(index[i], nextId', h) = SeenAt(index[i], nextId, h)
             /\ SeenAt(index[i], nextId', None) = SeenAt(index[i], nextId, None)
  <2>1. /\ index[i] \in SUBSET Entry /\ CommittedEntries(i) \in SUBSET Entry
        /\ \A w \in Txid : HasMark(index[i], w) => w < nextId
        /\ \A w \in Txid : HasMark(CommittedEntries(i), w) => w < nextId
        /\ \A t \in Txid : t # h =>
             SeenAt(index[i], t, h) = SeenAt(CommittedEntries(i), t, None)
    BY EntryFacts, CommittedEntryFacts
  <2>2. \A w \in Txid : w < nextId => w <= nextId /\ w <= nextId'
    BY <1>1, SMT DEF Txid
  <2>3. SeenAt(index[i], nextId', None) = SeenAt(index[i], nextId, None)
    BY <1>1, <1>2, <2>1, <2>2, SeenAbove
  <2>4. SeenAt(CommittedEntries(i), nextId', None) = SeenAt(CommittedEntries(i), nextId, None)
    BY <1>1, <1>2, <2>1, <2>2, SeenAbove
  <2> QED
    BY <1>1, <1>2, <2>1, <2>3, <2>4
<1>4. NewRows' = NewRows /\ HolderRows' = HolderRows
  BY DEF NewRows, HolderRows
<1>5. NewSeen' = NewSeen /\ HolderSeen' = HolderSeen
  BY <1>3 DEF NewSeen, HolderSeen
<1>6. ASSUME NEW d \in Conn, FetchOk(d)'
      PROVE  \/ FetchOk(d) /\ RowsOf(d)' = RowsOf(d) /\ SeenOf(d)' = SeenOf(d)
             \/ RowsOf(d)' = NewRows /\ SeenOf(d)' = NewSeen
  <2>1. CASE FetchOk(d) /\ state'[d] = state[d]
    BY <2>1 DEF RowsOf, SeenOf, View
  <2>2. CASE state'[d].txid = nextId
    BY <2>2 DEF RowsOf, SeenOf, View, NewRows, NewSeen, NewView
  <2> QED
    BY <1>6, <2>1, <2>2
<1>7. EntriesSettled'
  BY DEF ScanInv, EntriesSettled
<1> QED
  BY <1>4, <1>5, <1>6, <1>7, ScanStep

LEMMA QuietScan ==
  ASSUME ScanInv, IndexQuietStep \/ UNCHANGED allVars
  PROVE  ScanInv'
<1>1. ReadInv /\ AllUndoable /\ TypeOK
  BY ScanFacts DEF ScanInv
<1>2. \/ Tick \/ Reopen \/ UNCHANGED vars
      \/ \E c \in Conn : \/ Begin(c) \/ BeginStatement(c) \/ StatementFails(c)
                         \/ CommitFails(c) \/ PlanStatement(c) \/ FetchAllSchemas(c)
  BY DEF IndexQuietStep, allVars
<1>3. /\ ReadInv' /\ \A k \in Key : /\ NewView(k)' = NewView(k)
                                    /\ HolderView(k)' = HolderView(k)
  BY <1>1, <1>2, QuietStepsReads
<1>4. AllUndoable'
  BY <1>1, IndexQuietUndoable
<1>5. /\ tree' = tree /\ index' = index /\ tempIndex' = tempIndex
      /\ lock' = lock /\ wroteAt' = wroteAt
      /\ nextId <= nextId' /\ now' \in {now, now + 1}
      /\ \A d \in Conn : Active(d)' =>
           (Active(d) /\ state'[d] = state[d]) \/ state'[d].txid = nextId
  BY <1>1, QuietFacts
<1>6. ASSUME NEW d \in Conn, FetchOk(d)', Active(d), state'[d] = state[d]
      PROVE  FetchOk(d)
  <2>1. state[d].created_at \in Nat /\ now \in Nat /\ (Timeout = None \/ Timeout \in Nat)
    BY <1>1, <1>6, ActiveState, SledAssumption DEF TypeOK
  <2>2. Expired(state[d].created_at) => Expired(state[d].created_at)'
    BY <1>5, <1>6, <2>1, SMT DEF Expired
  <2> QED
    BY <1>5, <1>6, <2>2 DEF FetchOk, Collected
<1>7. \A d \in Conn : FetchOk(d)' => \/ FetchOk(d) /\ state'[d] = state[d]
                                     \/ state'[d].txid = nextId
  BY <1>5, <1>6 DEF FetchOk
<1> QED
  BY <1>3, <1>4, <1>5, <1>7, SameScan

\* A rollback or a take-over: what the holder wrote is gone.
LEMMA ForgetScan ==
  ASSUME ScanInv, ReadInv', AllUndoable', lock'.lock_txid = None,
         wroteAt' = wroteAt, nextId' = nextId,
         \A i \in IndexKey : index'[i] = CommittedEntries(i),
         \A k \in Key : /\ Committed(k)' = Committed(k) /\ NewView(k)' = NewView(k)
                        /\ HolderView(k)' = NewView(k),
         \A d \in Conn : FetchOk(d)' => /\ FetchOk(d) /\ state'[d] = state[d]
                                        /\ state[d].txid # lock.lock_txid
  PROVE  ScanInv'
<1>1. /\ ReadInv /\ TypeOK /\ wroteAt \in Nat
      /\ nextId \in Txid /\ nextId # lock.lock_txid
  BY ScanFacts
<1>2. \A i \in IndexKey :
        /\ CommittedEntries(i) \in SUBSET Entry /\ Apart(CommittedEntries(i))
        /\ \A w \in Txid : HasMark(CommittedEntries(i), w) => w < wroteAt
        /\ \A t \in Txid : t # lock.lock_txid =>
             SeenAt(index[i], t, lock.lock_txid) = SeenAt(CommittedEntries(i), t, None)
  BY CommittedEntryFacts
<1>3. EntriesSettled'
  BY <1>1, <1>2, SettledOf
<1>4. NewRows' = NewRows /\ HolderRows' = NewRows
  BY DEF NewRows, HolderRows
<1>5. NewSeen' = NewSeen /\ HolderSeen' = NewSeen
  BY <1>1, <1>2 DEF NewSeen, HolderSeen
<1>6. ASSUME NEW d \in Conn, FetchOk(d)'
      PROVE  FetchOk(d) /\ RowsOf(d)' = RowsOf(d) /\ SeenOf(d)' = SeenOf(d)
  <2>1. /\ FetchOk(d) /\ Active(d) /\ state'[d] = state[d]
        /\ state[d].txid # lock.lock_txid /\ state[d].txid \in Txid /\ state[d].txid # None
    BY <1>1, <1>6, ActiveState DEF FetchOk
  <2>2. \A k \in Key : View(d, k)' = View(d, k)
    BY <1>1, <2>1, SameCommitted
  <2> QED
    BY <1>2, <2>1, <2>2 DEF RowsOf, SeenOf
<1> QED
  BY <1>3, <1>4, <1>5, <1>6, ScanStep

LEMMA CallFailsScan ==
  ASSUME ScanInv, NEW c \in Conn, IndexCallFails(c)
  PROVE  ScanInv'
<1>1. /\ CallFails(c) /\ ReadInv /\ AllUndoable /\ TypeOK /\ OnRecord
      /\ index' = BaseIndex /\ tempIndex' = BaseTempIndex
  BY ScanFacts DEF IndexCallFails, ScanInv, ReadInv
<1>2. /\ nextId' = nextId /\ now' = now /\ state' = state /\ wroteAt' = wroteAt
      /\ lock' = IF LockTimedOut THEN Released(lock, lock.lock_txid) ELSE lock
      /\ tree' = BaseTree /\ nextId \in Nat /\ lock'.gc_txid = lock.gc_txid
  BY <1>1 DEF CallFails, TypeOK, Released, Lock
<1>3. /\ KeepsCommitted
      /\ \/ /\ LockTimedOut /\ lock'.lock_txid = None
            /\ \A k \in Key : HolderView(k)' = NewView(k)
         \/ /\ ~LockTimedOut /\ UNCHANGED <<tree, lock>>
            /\ \A k \in Key : HolderView(k)' = HolderView(k)
  BY <1>1, CallFailsReads
<1>4. AllUndoable'
  BY <1>1, IndexCallFailsUndoable
<1>5. \A d \in Conn : FetchOk(d)' => FetchOk(d) /\ state'[d] = state[d]
  BY <1>2 DEF FetchOk, Active, Expired, Collected
<1>6. CASE ~LockTimedOut
  <2>1. tree' = tree /\ lock' = lock /\ index' = index /\ tempIndex' = tempIndex
    BY <1>1, <1>3, <1>6 DEF BaseIndex, BaseTempIndex
  <2>2. nextId <= nextId'
    BY <1>2, SMT
  <2> QED
    BY <1>2, <1>3, <1>4, <1>5, <1>6, <2>1, <2>2, SameScan DEF KeepsCommitted
<1>7. CASE LockTimedOut
  <2>1. \A i \in IndexKey : index'[i] = CommittedEntries(i)
    BY <1>1, <1>7, BaseIndexIsCommitted
  <2>2. ASSUME NEW d \in Conn, FetchOk(d) PROVE state[d].txid # lock.lock_txid
    <3> SUFFICES ASSUME state[d].txid = lock.lock_txid PROVE FALSE
      OBVIOUS
    <3>1. lock.lock_created_at = state[d].created_at
      BY <1>1, <2>2 DEF OnRecord, FetchOk
    <3> QED
      BY <1>7, <2>2, <3>1 DEF LockTimedOut, FetchOk
  <2> QED
    BY <1>2, <1>3, <1>4, <1>5, <1>7, <2>1, <2>2, ForgetScan DEF KeepsCommitted
<1> QED
  BY <1>6, <1>7

LEMMA RollbackScan ==
  ASSUME ScanInv, NEW c \in Conn, IndexRollbackTx(c)
  PROVE  ScanInv'
<1> DEFINE me == state[c].txid
<1>1. RollbackTx(c) /\ ReadInv /\ AllUndoable /\ TypeOK /\ UniqueTx /\ nextId \in Nat
  BY ScanFacts DEF IndexRollbackTx, ScanInv, Txid
<1>2. /\ nextId' = nextId /\ now' = now /\ wroteAt' = wroteAt
      /\ state' = [state EXCEPT ![c] = Idle] /\ Active(c)
      /\ lock' = IF lock.lock_txid = me THEN Released(lock, me) ELSE lock
      /\ lock'.gc_txid = lock.gc_txid
  BY <1>1 DEF RollbackTx, Released, TypeOK, Lock
<1>3. /\ me \in Txid /\ me # None
  BY <1>1, <1>2, ActiveState
<1>4. /\ ReadInv'
      /\ \A k \in Key : Committed(k)' = Committed(k) /\ NewView(k)' = NewView(k)
      /\ \/ /\ lock.lock_txid = me /\ lock'.lock_txid = None
            /\ \A k \in Key : HolderView(k)' = NewView(k)
         \/ /\ lock.lock_txid # me /\ UNCHANGED <<tree, lock>>
            /\ \A k \in Key : HolderView(k)' = HolderView(k)
  BY <1>1, RollbackReads
<1>5. AllUndoable'
  BY <1>1, IndexRollbackUndoable
<1>6. ASSUME NEW d \in Conn, FetchOk(d)'
      PROVE  FetchOk(d) /\ state'[d] = state[d] /\ state[d].txid # me
  <2>1. d # c /\ state'[d] = state[d] /\ Active(d)
    BY <1>1, <1>2, <1>6 DEF FetchOk, Active, TypeOK
  <2> QED
    BY <1>1, <1>2, <1>6, <2>1 DEF FetchOk, Expired, Collected, UniqueTx
<1>7. CASE lock.lock_txid = me
  <2>1. \A i \in IndexKey : index'[i] = CommittedEntries(i)
    BY <1>3, <1>7, RolledBackIndexIsCommitted DEF IndexRollbackTx
  <2> QED
    BY <1>2, <1>4, <1>5, <1>6, <1>7, <2>1, ForgetScan
<1>8. CASE lock.lock_txid # me
  <2>1. tree' = tree /\ lock' = lock /\ index' = index /\ tempIndex' = tempIndex
    BY <1>4, <1>8 DEF IndexRollbackTx, indexVars
  <2>2. nextId <= nextId'
    BY <1>1, <1>2, SMT
  <2> QED
    BY <1>2, <1>4, <1>5, <1>6, <1>8, <2>1, <2>2, SameScan
<1> QED
  BY <1>7, <1>8

\* COMMIT, with its garbage collection.
LEMMA CommitScan ==
  ASSUME ScanInv, NEW c \in Conn, IndexCommit(c)
  PROVE  ScanInv'
<1> DEFINE me == state[c].txid
           h == lock.lock_txid
           l == lock'.lock_txid
           T == GcTxids(Unregistered(txdata, me), Released(lock, me).lock_txid)
<1>0. /\ Commit(c) /\ index' = GcIndex(T)
      /\ tempIndex' = {p \in tempIndex : p[1] \in T => TempIndexStays(p[1], p[2], T)}
  BY DEF IndexCommit
<1>1. /\ ReadInv /\ AllUndoable /\ TypeOK /\ UniqueTx /\ OnRecord /\ EntriesSettled
      /\ nextId \in Txid /\ nextId \in Nat /\ wroteAt \in Nat /\ h \in Txid \cup {None}
      /\ wroteAt <= nextId
      /\ h # None => h < nextId /\ wroteAt <= h
  BY ScanFacts DEF ScanInv, ReadInv, Txid
<1>2. Active(c) /\ me \in Txid /\ me # None /\ me \in Nat
  BY <1>0, <1>1, ActiveState DEF Commit, FetchOk, Txid
<1>3. /\ state' = [state EXCEPT ![c] = Idle] /\ nextId' = nextId /\ now' = now
      /\ wroteAt' = IF h = me THEN nextId ELSE wroteAt
  BY <1>0 DEF Commit
<1>4. /\ T \in SUBSET Nat /\ \A x \in T : x < nextId
      /\ \A K \in SUBSET T : K # {} => Last(K) \in T
      /\ \A d \in Conn : d # c /\ Active(d) /\ ~Expired(state[d].created_at) =>
           \A x \in T : x < state[d].txid
      /\ h \notin {None, me} => \A x \in T : x < h
  BY <1>0, <1>1, CollectedAreOld
<1>5. /\ ReadInv' /\ \A k \in Key : HolderView(k)' = HolderView(k)
      /\ h = me => l = None /\ \A k \in Key : NewView(k)' = HolderView(k)
      /\ h # me => l = h /\ \A k \in Key : NewView(k)' = NewView(k)
      /\ \A d \in Conn, k \in Key :
           d # c /\ Active(d) /\ ~Expired(state[d].created_at) =>
             Get(tree'[k], state[d].txid, l) = Get(tree[k], state[d].txid, l)
  BY <1>0, <1>1, CommitReads
<1>6. AllUndoable'
  BY <1>1, IndexCommitUndoable
<1> HIDE DEF T
<1>7. \A i \in IndexKey : \/ index'[i] = index[i]
                          \/ \E g \in T : index'[i] = GcEntries(index[i], g)
  BY <1>0, <1>4 DEF GcIndex, TouchingIndex
<1>8. \A i \in IndexKey : /\ index[i] \in SUBSET Entry /\ Apart(index[i])
                          /\ \A w \in Txid : HasMark(index[i], w) =>
                               w < nextId /\ (w = h \/ w < wroteAt)
  BY EntryFacts
<1>9. l = None \/ (l = h /\ h \notin {None, me} /\ \A x \in T : x < l)
  BY <1>4, <1>5
<1>10. ASSUME NEW i \in IndexKey, NEW t \in Txid, \A x \in T : x < t,
              NEW m \in {None, l}
       PROVE  SeenAt(index'[i], t, m) = SeenAt(index[i], t, m)
  <2>1. ASSUME NEW g \in T
        PROVE  SeenAt(GcEntries(index[i], g), t, m) = SeenAt(index[i], t, m)
    <3>1. g \in Nat /\ g < t /\ m \in Txid \cup {None} /\ (m = None \/ g < m)
      BY <1>1, <1>4, <1>9, <1>10
    <3> QED
      BY <1>8, <3>1, GcSeen
  <2> QED
    BY <1>7, <2>1, SMT
<1>11. ASSUME NEW i \in IndexKey
       PROVE  /\ index'[i] \in SUBSET Entry /\ Apart(index'[i])
              /\ \A w \in Txid : HasMark(index'[i], w) => HasMark(index[i], w)
  <2>1. index'[i] \subseteq index[i]
    BY <1>7 DEF GcEntries
  <2> QED
    BY <1>8, <2>1 DEF Apart, HasMark
<1>12. EntriesSettled'
  <2>1. ASSUME NEW i \in IndexKey, NEW w \in Txid, HasMark(index'[i], w)
        PROVE  w = l \/ w < wroteAt'
    BY <1>3, <1>5, <1>8, <1>11, <2>1
  <2>2. ASSUME NEW i \in IndexKey, l # None, HasMark(index'[i], l)
        PROVE  <<l, i>> \in tempIndex'
    <3>1. l = h /\ h \in Nat /\ HasMark(index[i], h)
      BY <1>1, <1>9, <1>11, <2>2 DEF Txid
    <3>2. <<h, i>> \in tempIndex
      BY <1>1, <2>2, <3>1 DEF EntriesSettled
    <3>3. h \notin T
      BY <1>9, <2>2, <3>1, SMT
    <3> QED
      BY <1>0, <3>1, <3>2, <3>3
  <2>3. wroteAt' \in Nat /\ (l # None => wroteAt' <= l)
    BY <1>1, <1>3, <1>5, <1>9
  <2> HIDE DEF l
  <2> QED
    BY <1>11, <2>1, <2>2, <2>3, SettledOf DEF l
<1>13. \A i \in IndexKey : /\ SeenAt(index'[i], nextId, l) = SeenAt(index[i], nextId, l)
                           /\ SeenAt(index'[i], nextId, None) = SeenAt(index[i], nextId, None)
  BY <1>1, <1>4, <1>10
<1>14. /\ HolderRows' = HolderRows /\ HolderSeen' = HolderSeen
       /\ h = me => NewRows' = HolderRows /\ NewSeen' = HolderSeen
       /\ h # me => NewRows' = NewRows /\ NewSeen' = NewSeen
  BY <1>3, <1>5, <1>13 DEF HolderRows, HolderSeen, NewRows, NewSeen
<1>15. ASSUME NEW d \in Conn, FetchOk(d)'
       PROVE  \/ FetchOk(d) /\ RowsOf(d)' = RowsOf(d) /\ SeenOf(d)' = SeenOf(d)
              \/ RowsOf(d)' = HolderRows /\ SeenOf(d)' = HolderSeen
  <2> DEFINE t == state[d].txid
  <2>1. d # c /\ Active(d) /\ state'[d] = state[d] /\ ~Expired(state[d].created_at)
    BY <1>1, <1>3, <1>15 DEF FetchOk, Active, Expired, TypeOK
  <2>2. FetchOk(d) /\ t \in Txid /\ t \in Nat /\ t # me
    BY <1>1, <1>2, <2>1, ActiveState DEF FetchOk, OnRecord, UniqueTx, Txid
  <2>3. /\ \A k \in Key : View(d, k)' = Get(tree[k], t, l)
        /\ \A i \in IndexKey : SeenAt(index'[i], state'[d].txid, l) = SeenAt(index[i], t, l)
    BY <1>4, <1>5, <1>10, <2>1, <2>2 DEF View
  <2>4. CASE h # me
    BY <1>5, <2>2, <2>3, <2>4 DEF RowsOf, SeenOf, View
  <2>5. CASE h = me /\ t < me
    <3>1. \A k \in Key : Get(tree[k], t, me) = Get(tree[k], t, None)
      BY <1>1, <1>2, <2>2, <2>5, YoungerGet DEF TypeOK
    <3>2. \A i \in IndexKey : SeenAt(index[i], t, me) = SeenAt(index[i], t, None)
      BY <1>2, <1>8, <2>2, <2>5, YoungerSeen
    <3> QED
      BY <1>5, <2>2, <2>3, <2>5, <3>1, <3>2 DEF RowsOf, SeenOf, View
  <2>6. CASE h = me /\ me < t
    <3>1. \A w \in Txid : w < nextId /\ (w = h \/ w < wroteAt) => w <= t /\ w <= nextId
      BY <1>1, <1>2, <2>2, <2>6, SMT DEF Txid
    <3>2. \A k \in Key : Get(tree[k], t, None) = Get(tree[k], nextId, None)
      <4> SUFFICES ASSUME NEW k \in Key
                   PROVE  Get(tree[k], t, None) = Get(tree[k], nextId, None)
        OBVIOUS
      <4>1. tree[k] \in SUBSET SnapshotItem
        BY <1>1 DEF TypeOK
      <4>2. \A w \in Txid : HasMark(tree[k], w) => w <= t /\ w <= nextId
        BY <1>1, <3>1, MarkBounds
      <4> QED
        BY <1>1, <2>2, <4>1, <4>2, GetAbove
    <3>3. \A i \in IndexKey : SeenAt(index[i], t, None) = SeenAt(index[i], nextId, None)
      BY <1>1, <1>8, <2>2, <3>1, SeenAbove
    <3> QED
      BY <1>5, <2>3, <2>6, <3>2, <3>3 DEF RowsOf, SeenOf, HolderRows, HolderSeen, HolderView
  <2> QED
    BY <1>2, <2>2, <2>4, <2>5, <2>6, SMT
<1> QED
  BY <1>5, <1>6, <1>12, <1>14, <1>15, ScanStep
-----------------------------------------------------------------------------
(* Theorems *)

LEMMA InitScan == IndexInit => ScanInv
<1> SUFFICES ASSUME IndexInit PROVE ScanInv
  OBVIOUS
<1>1. ReadInv /\ AllUndoable
  BY InitReads, IndexInitUndoable DEF IndexInit
<1>2. \A i \in IndexKey : index[i] = {}
  BY DEF IndexInit
<1>3. lock.lock_txid = None /\ \A c \in Conn : ~FetchOk(c)
  BY DEF IndexInit, Init, FetchOk, Active
<1>4. EntriesSettled
  BY <1>2, <1>3 DEF EntriesSettled
<1>5. \A k \in Key : NewView(k) = None /\ HolderView(k) = None
  BY DEF IndexInit, Init, NewView, HolderView, Get, VisibleItems
<1>6. ASSUME NEW t, NEW l PROVE \A i \in IndexKey : SeenAt(index[i], t, l) = {}
  BY <1>2 DEF SeenAt, VisibleItems
<1>7. ASSUME NEW v, NEW s, \A k \in Key : v[k] = None, \A i \in IndexKey : s[i] = {}
      PROVE  Faithful(v, s)
  BY <1>7, KeyParts DEF Faithful, IndexKey
<1>8. Faithful(NewRows, NewSeen) /\ Faithful(HolderRows, HolderSeen)
  <2>1. /\ \A k \in Key : NewRows[k] = None /\ HolderRows[k] = None
        /\ \A i \in IndexKey : NewSeen[i] = {} /\ HolderSeen[i] = {}
    BY <1>5, <1>6 DEF NewRows, NewSeen, HolderRows, HolderSeen
  <2> QED
    BY <1>7, <2>1
<1> QED
  BY <1>1, <1>3, <1>4, <1>8 DEF ScanInv, NewRows, NewSeen, HolderRows, HolderSeen

LEMMA NextScan == ScanInv /\ OrderlyClients /\ [IndexNext]_allVars => ScanInv'
BY QuietScan, WriteScan, CallFailsScan, RollbackScan, CommitScan DEF IndexNext

LEMMA ScanAgrees == ScanInv => IndexAgrees
<1> SUFFICES ASSUME ScanInv, NEW c \in Conn, NEW t \in Table, NEW v \in Val,
                    IndexUsable(c, t)
             PROVE  LET found == ScanIndexed(c, <<t, v>>)
                    IN  /\ {e.data : e \in found} =
                             {k \in RowKeys(t) : View(c, k) # None /\ View(c, k)[1] = v}
                        /\ \A e, f \in found : e.data = f.data => e = f
                        /\ \A e \in SeenEntries(c, <<t, v>>) : tree[e.data] # {}
  BY DEF IndexAgrees
<1> DEFINE i == <<t, v>>
           seen == SeenEntries(c, i)
<1>1. i \in IndexKey
  BY DEF IndexKey
<1>2. Apart(index[i])
  BY <1>1, EntryFacts
<1>3. Faithful(RowsOf(c), SeenOf(c)) /\ Has(RowsOf(c), t)
  BY KeyParts DEF ScanInv, RowsOf, SeenOf, IndexUsable, TableSeen, Has
<1>4. Exact(t, v, RowsOf(c), SeenOf(c)[i])
  BY <1>3, FaithfulExact
<1>5. SeenOf(c)[i] = {<<e.at, e.data>> : e \in seen} /\ seen \subseteq index[i]
  BY <1>1 DEF SeenOf, SeenAt, SeenEntries, VisibleItems
<1>6. \A k \in RowKeys(t) : RowsOf(c)[k] = View(c, k)
  BY KeyParts DEF RowsOf
<1> HIDE DEF i, seen
<1>7. \A e \in seen : /\ e.data \in RowKeys(t) /\ View(c, e.data) # None
                      /\ View(c, e.data)[1] = v
  <2> SUFFICES ASSUME NEW e \in seen
               PROVE  /\ e.data \in RowKeys(t) /\ View(c, e.data) # None
                      /\ View(c, e.data)[1] = v
    OBVIOUS
  <2>1. PICK p \in SeenOf(c)[i] : p = <<e.at, e.data>>
    BY <1>5
  <2>2. p[2] \in RowKeys(t) /\ RowsOf(c)[p[2]] # None /\ RowsOf(c)[p[2]][1] = v
    BY <1>4 DEF Exact
  <2> QED
    BY <1>6, <2>1, <2>2
<1>8. \A k \in RowKeys(t) : View(c, k) # None /\ View(c, k)[1] = v =>
        \E e \in seen : e.data = k
  BY <1>4, <1>5, <1>6, SMT DEF Exact
<1>9. \A e, f \in seen : e.data = f.data => e = f
  <2> SUFFICES ASSUME NEW e \in seen, NEW f \in seen, e.data = f.data PROVE e = f
    OBVIOUS
  <2>1. PICK p \in SeenOf(c)[i] : p = <<e.at, e.data>>
    BY <1>5
  <2>2. PICK q \in SeenOf(c)[i] : q = <<f.at, f.data>>
    BY <1>5
  <2>3. p[2] = q[2] => p = q
    BY <1>4 DEF Exact
  <2>4. e.at = f.at
    BY <2>1, <2>2, <2>3
  <2> QED
    BY <1>2, <1>5, <2>4 DEF Apart
<1>10. ScanIndexed(c, i) = seen
  BY <1>7 DEF ScanIndexed, seen
<1>11. \A e \in seen : tree[e.data] # {}
  BY <1>7 DEF View, Get, VisibleItems
<1>12. {e.data : e \in seen} = {k \in RowKeys(t) : View(c, k) # None /\ View(c, k)[1] = v}
  BY <1>7, <1>8
<1> QED
  BY <1>9, <1>10, <1>11, <1>12 DEF i, seen

\* For orderly clients, with any timeout and any number of connections, tables
\* and rows, the rows and the index entries that any one transaction reads are
\* in agreement, and so are those of the lock holder (index_sync.rs).
THEOREM ScanInvariance ==
  ASSUME OrderlyClients
  PROVE  IndexSpec => []ScanInv
<1>1. ScanInv /\ [IndexNext]_allVars => ScanInv'
  BY NextScan
<1> QED
  BY <1>1, InitScan, PTL DEF IndexSpec

\* For such clients an index scan finds exactly the rows that a full scan
\* finds, each once, and never an entry whose data key is gone (index.rs,
\* scan_indexed_data).
THEOREM IndexScansAgree ==
  ASSUME OrderlyClients
  PROVE  IndexSpec => []IndexAgrees
BY ScanInvariance, ScanAgrees, PTL
=============================================================================
