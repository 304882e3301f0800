----------------------------- MODULE SledIndex -----------------------------
(***************************************************************************)
(* The non-clustered indexes of SledStorage: SledStorage with the "index/" *)
(* keys and the index part of every write call (index_sync.rs,             *)
(* index_mut.rs), of rollback_txid and of gc, and the scan that reads them *)
(* (index.rs).                                                             *)
(*                                                                         *)
(* A table has at most one index, over the payload of its rows.  The value *)
(* under an index key is a Vec of snapshots of data keys; each of them has *)
(* exactly one item, so an entry here is that item, and the Vec is the set *)
(* of its entries.  The field `at` is the call that pushed an entry: the   *)
(* entries one call pushes have different data keys, and are not ordered.  *)
(***************************************************************************)
EXTENDS SledStorage

VARIABLES index,      \* IndexKey -> the entries of the Vec, {} for no key
          tempIndex   \* {<<txid, index key>>}: the "temp_index/" keys

indexVars == <<index, tempIndex>>
allVars == <<vars, indexVars>>

IndexKey == Table \X Val
Entry == [at: Nat, data: Key, created_by: Txid, deleted_by: Txid \cup {None}]

IndexTypeOK == /\ TypeOK
               /\ index \in [IndexKey -> SUBSET Entry]
               /\ tempIndex \in SUBSET (Txid \X IndexKey)

IndexInit == /\ Init
             /\ index = [i \in IndexKey |-> {}]
             /\ tempIndex = {}
-----------------------------------------------------------------------------
(* index_sync.rs *)

\* Fault: rollback leaves the index alone.
RolledBackIndexKept(txid) == index

\* Snapshot::rollback of every entry of the Vec.
RolledBackIndex(txid) ==
  [i \in IndexKey |-> IF <<txid, i>> \in tempIndex
                      THEN Rollback(index[i], txid) ELSE index[i]]

TempIndexWithout(txid) == {p \in tempIndex : p[1] # txid}

BaseIndex ==
  IF LockTimedOut THEN RolledBackIndex(lock.lock_txid) ELSE index
BaseTempIndex ==
  IF LockTimedOut THEN TempIndexWithout(lock.lock_txid) ELSE tempIndex

NewEntry(pos, txid, k) == NewItem(pos, txid, k)

\* insert_index_data: the data keys K are pushed after the others.
PushEntries(entries, txid, K) ==
  LET pos == IF entries = {} THEN 1 ELSE Last({e.at : e \in entries}) + 1
  IN  entries \cup {NewEntry(pos, txid, k) : k \in K}

\* delete_index_data: the entries of the data keys K that txid sees.
DeleteEntries(entries, txid, K) ==
  {IF e.data \in K /\ Visible(e, txid, None) THEN MarkDeleted(e, txid) ELSE e :
     e \in entries}

\* delete_index_data finds the key of every pair <<index key, data key>>.
Synced(del) == \A p \in del : BaseIndex[p[1]] # {}

Of(pairs, i) == {p[2] : p \in {q \in pairs : q[1] = i}}

\* Fault: no temp keys in autocommit, as for data.
SyncLikeData(c, del, ins) ==
  LET txid == state[c].txid
  IN  /\ Synced(del)
      /\ index' = [i \in IndexKey |->
           PushEntries(DeleteEntries(BaseIndex[i], txid, Of(del, i)),
                       txid, Of(ins, i))]
      /\ tempIndex' = BaseTempIndex \cup
           {<<txid, p[1]>> : p \in IF state[c].autocommit THEN {}
                                   ELSE del \cup ins}

\* The index part of a write: the pairs to delete, then those to insert.
\* Unlike data, index entries leave temp keys in autocommit too.
Sync(c, del, ins) ==
  LET txid == state[c].txid
  IN  /\ Synced(del)
      /\ index' = [i \in IndexKey |->
           PushEntries(DeleteEntries(BaseIndex[i], txid, Of(del, i)),
                       txid, Of(ins, i))]
      /\ tempIndex' = BaseTempIndex \cup {<<txid, p[1]>> : p \in del \cup ins}

\* IndexSync::new: the indexes of the schema the transaction sees.
HasIndex(c, t) ==
  Current(c, SchemaKey(t)) # None /\ Current(c, SchemaKey(t))[1] = Indexed

\* The pair of a row whose front version, deleted or not, is replaced.
FrontPair(k) == <<<<k[1], Front(BaseTree[k]).data[1]>>, k>>

RowDeletes(c, t, r) ==
  IF HasIndex(c, t) THEN {FrontPair(k) : k \in Present({<<t, r>>})} ELSE {}

RowInserts(c, t, r, v) ==
  IF HasIndex(c, t) THEN {<<<<t, v>>, <<t, r>>>>} ELSE {}

\* IndexSync::from_schema of the schema that delete_schema removes.
TableDeletes(t) ==
  IF Front(BaseTree[SchemaKey(t)]).data[1] = Indexed
  THEN {FrontPair(k) : k \in Present(RowKeys(t))} ELSE {}

\* The rows create_index and drop_index scan.
ScannedPairs(c, t) ==
  {<<<<t, View(c, k)[1]>>, k>> : k \in {j \in RowKeys(t) : View(c, j) # None}}
-----------------------------------------------------------------------------
(* The calls of SledStorage with their index part *)

\* Fault: an update leaves the entry of the old value.
IndexInsertDataOnly(c, t, r, v) ==
  InsertData(c, t, r, v) /\ Sync(c, {}, RowInserts(c, t, r, v))

IndexInsertData(c, t, r, v) ==
  /\ InsertData(c, t, r, v)
  /\ Sync(c, RowDeletes(c, t, r), RowInserts(c, t, r, v))

IndexAppendData(c, t, r, v) ==
  AppendData(c, t, r, v) /\ Sync(c, {}, RowInserts(c, t, r, v))

IndexDeleteData(c, t, r) ==
  DeleteData(c, t, r) /\ Sync(c, RowDeletes(c, t, r), {})

IndexDeleteSchema(c, t) == DeleteSchema(c, t) /\ Sync(c, TableDeletes(t), {})

IndexCreateIndex(c, t) == CreateIndex(c, t) /\ Sync(c, {}, ScannedPairs(c, t))

IndexDropIndex(c, t) == DropIndex(c, t) /\ Sync(c, ScannedPairs(c, t), {})

\* The other calls do not touch the index, rename_schema included.
IndexOtherWrite(c, t) ==
  /\ \/ InsertSchema(c, t)
     \/ \E u \in Table : RenameSchema(c, t, u)
     \/ RenameColumn(c, t) \/ AddColumn(c, t) \/ DropColumn(c, t)
  /\ Sync(c, {}, {})

\* The call fails with ConflictOnIndexDataDeleteSync: an index key is missing.
RowConflict(c, t, r) ==
  /\ May(c, "insert") \/ (May(c, "delete") /\ View(c, <<t, r>>) # None)
  /\ TableSeen(c, t) /\ ~Synced(RowDeletes(c, t, r))
DropConflict(c, t) ==
  May(c, "drop") /\ TableSeen(c, t) /\ ~Synced(TableDeletes(t))
DropIndexConflict(c, t) ==
  /\ May(c, "index") /\ BaseTree[SchemaKey(t)] # {}
  /\ Front(BaseTree[SchemaKey(t)]).data[1] = Indexed
  /\ ~Synced(ScannedPairs(c, t))
SyncConflict(c) ==
  \E t \in Table : \/ \E r \in Row : RowConflict(c, t, r)
                   \/ DropConflict(c, t) \/ DropIndexConflict(c, t)

\* A call fails on its own checks or on the index.
IndexCallFails(c) ==
  /\ CallFails(c)
  /\ SyncConflict(c) \/ \E kind \in {"rename", "alter", "index"} : May(c, kind)
  /\ index' = BaseIndex /\ tempIndex' = BaseTempIndex

\* gc.rs: each entry is a snapshot of its own.
GcEntries(entries, txid) ==
  {e \in entries : ~Collectable(e, txid)}

TouchingIndex(i, txids) == {t \in txids : <<t, i>> \in tempIndex}

GcIndex(txids) ==
  [i \in IndexKey |-> IF TouchingIndex(i, txids) = {} THEN index[i]
                      ELSE GcEntries(index[i], Last(TouchingIndex(i, txids)))]

TempIndexStays(t, i, txids) ==
  LET before == {u \in TouchingIndex(i, txids) : u < t}
  IN  \/ index[i] = {}
      \/ before # {} /\ GcEntries(index[i], Last(before)) = {}

IndexCommit(c) ==
  LET txids == GcTxids(Unregistered(txdata, state[c].txid),
                       Released(lock, state[c].txid).lock_txid)
  IN  /\ Commit(c)
      /\ index' = GcIndex(txids)
      /\ tempIndex' = {p \in tempIndex : p[1] \in txids =>
                                         TempIndexStays(p[1], p[2], txids)}

IndexRollbackTx(c) ==
  /\ RollbackTx(c)
  /\ IF lock.lock_txid = state[c].txid
     THEN /\ index' = RolledBackIndex(state[c].txid)
          /\ tempIndex' = TempIndexWithout(state[c].txid)
     ELSE UNCHANGED indexVars

IndexWriteStep(c) ==
  \E t \in Table :
    \/ \E r \in Row, v \in Val : IndexAppendData(c, t, r, v)
    \/ \E r \in Row, v \in Val : IndexInsertData(c, t, r, v)
    \/ \E r \in Row : IndexDeleteData(c, t, r)
    \/ IndexDeleteSchema(c, t)
    \/ IndexCreateIndex(c, t)
    \/ IndexDropIndex(c, t)
    \/ IndexOtherWrite(c, t)

IndexQuietStep ==
  /\ \/ Tick \/ Reopen
     \/ \E c \in Conn : \/ Begin(c) \/ BeginStatement(c) \/ StatementFails(c)
                        \/ CommitFails(c) \/ PlanStatement(c)
                        \/ FetchAllSchemas(c)
  /\ UNCHANGED indexVars

IndexNext ==
  \/ IndexQuietStep
  \/ \E c \in Conn : \/ IndexWriteStep(c) \/ IndexCallFails(c)
                     \/ IndexCommit(c) \/ IndexRollbackTx(c)

IndexSpec == IndexInit /\ [][IndexNext]_allVars
-----------------------------------------------------------------------------
(* index.rs: scan_indexed_data *)

\* The entries connection c sees under an index key.
SeenEntries(c, i) == VisibleItems(index[i], state[c].txid, lock.lock_txid)

\* The entries whose rows an equality scan of the index returns.
ScanIndexed(c, i) == {e \in SeenEntries(c, i) : View(c, e.data) # None}

\* The planner uses the index when the schema it reads has it.
IndexUsable(c, t) ==
  FetchOk(c) /\ TableSeen(c, t) /\ View(c, SchemaKey(t))[1] = Indexed

\* An index scan returns the rows that a full scan with the same condition
\* returns, each of them once, and meets no entry whose data key is gone
\* (ConflictOnEmptyIndexValueScan): for every reader, after any updates, ROLLBACKs
\* and garbage collection, whichever transaction created or dropped the index.
IndexAgrees ==
  \A c \in Conn, t \in Table, v \in Val :
    IndexUsable(c, t) =>
      LET found == ScanIndexed(c, <<t, v>>)
      IN  /\ {e.data : e \in found} =
               {k \in RowKeys(t) : View(c, k) # None /\ View(c, k)[1] = v}
          /\ \A e, f \in found : e.data = f.data => e = f
          /\ \A e \in SeenEntries(c, <<t, v>>) : tree[e.data] # {}

\* An entry written by an open transaction is found again by rollback_txid,
\* and only the holder of the write lock has such entries, in autocommit too.
EntriesUndoable ==
  \A c \in Conn, i \in IndexKey :
    Active(c) /\ HasMark(index[i], state[c].txid) =>
      lock.lock_txid = state[c].txid /\ <<state[c].txid, i>> \in tempIndex

\* The ids of entries were handed out, a Vec has a last entry, and rows hold
\* payloads.
EntriesFresh ==
  \A i \in IndexKey :
    /\ \A e \in index[i] : /\ e.created_by < nextId
                           /\ e.deleted_by = None \/ e.deleted_by < nextId
    /\ index[i] # {} => \E e \in index[i] : \A f \in index[i] : f.at <= e.at

RowPayloads ==
  \A t \in Table, r \in Row : \A i \in tree[<<t, r>>] : i.data[1] \in Val

\* Everything an open transaction wrote, in the data tree and in the indexes,
\* is under its lock and on record for rollback_txid: the inductive invariant.
AllUndoable == /\ IInv /\ IndexTypeOK
               /\ RowPayloads /\ EntriesFresh /\ EntriesUndoable

\* The entries of a Vec that a reader sees, by position and data key.
SeenAt(entries, txid, lock_txid) ==
  {<<e.at, e.data>> : e \in VisibleItems(entries, txid, lock_txid)}

\* What is read of the index of a table is its rows, each once, under their
\* payloads; of a table without an index nothing is read.
Faithful(view, seen) ==
  \A t \in Table, v \in Val :
    IF view[SchemaKey(t)] # None /\ view[SchemaKey(t)][1] = Indexed
    THEN /\ {p[2] : p \in seen[<<t, v>>]} =
              {k \in RowKeys(t) : view[k] # None /\ view[k][1] = v}
         /\ \A p, q \in seen[<<t, v>>] : p[2] = q[2] => p = q
    ELSE seen[<<t, v>>] = {}

\* The marks on entries are the lock holder's, which can be undone, or were
\* committed; no transaction has overtaken the holder; entries are told apart
\* by position and data key.
EntriesSettled ==
  /\ \A i \in IndexKey : \A e \in index[i] : \A u \in {e.created_by, e.deleted_by} :
       u \in {None, lock.lock_txid} \/ u < wroteAt
  /\ lock.lock_txid # None =>
       /\ wroteAt <= lock.lock_txid
       /\ \A i \in IndexKey : HasMark(index[i], lock.lock_txid) =>
                              <<lock.lock_txid, i>> \in tempIndex
  /\ \A i \in IndexKey : \A e, f \in index[i] :
       e.at = f.at /\ e.data = f.data => e = f

\* The inductive invariant behind IndexAgrees, under orderly clients: indexes
\* and rows agree for a new transaction, without and with the holder's writes,
\* and for every open one.
ScanInv ==
  /\ ReadInv /\ AllUndoable /\ EntriesSettled
  /\ Faithful([k \in Key |-> NewView(k)],
              [i \in IndexKey |-> SeenAt(index[i], nextId, lock.lock_txid)])
  /\ Faithful([k \in Key |-> HolderView(k)],
              [i \in IndexKey |-> SeenAt(index[i], nextId, None)])
  /\ \A c \in Conn : FetchOk(c) =>
       Faithful([k \in Key |-> View(c, k)],
                [i \in IndexKey |->
                   SeenAt(index[i], state[c].txid, lock.lock_txid)])
=============================================================================
