---------------------------- MODULE SledStorage ----------------------------
(***************************************************************************)
(* SledStorage: multi-version transactions over one shared sled tree       *)
(* (storages/sled-storage/src), driven by the statement executor           *)
(* (core/src/executor/execute.rs).                                         *)
(*                                                                         *)
(* A connection is one clone of SledStorage inside a Glue; all clones      *)
(* share the tree.  Store calls are synchronous, so an action is one Store *)
(* call of one connection, together with the reads of the same statement   *)
(* that decide it.                                                         *)
(***************************************************************************)
EXTENDS Snapshot, FiniteSets

CONSTANTS Conn,           \* connections (clones of the storage)
          Table,          \* table names
          Row,            \* primary keys / row ids
          Val,            \* row payloads
          SchemaSlot,     \* the slot of a table's key that holds its schema,
                          \* and the content of a schema without an index
          Indexed,        \* the content of a schema with an index
          Timeout,        \* tx_timeout: a number of ticks, or None
          Statements,     \* the kinds of statement the clients issue
          Modes,          \* the autocommit flags the clients use
          StaleWriters,   \* whether a transaction may write after a newer
                          \* one has committed a write
          MaxId, MaxNow,  \* bounds: ids generated, clock ticks,
          MaxVersions,    \* versions kept of one row,
          MaxSchemas      \* versions kept of one schema

Cols == {1, 2}            \* the shapes of a table: before/after ADD COLUMN
StatementKinds == {"append", "insert", "delete", "create", "drop", "rename",
                   "alter", "index", "plan", "show", "reopen"}
Key == Table \X (Row \cup {SchemaSlot})
SchemaKey(t) == <<t, SchemaSlot>>
RowKeys(t) == {<<t, r>> : r \in Row}

ASSUME SledAssumption ==
  /\ SchemaSlot \notin Row
  /\ SchemaSlot \notin Val /\ Indexed \notin Val
  /\ Indexed # SchemaSlot
  /\ Timeout \in (Nat \ {0}) \cup {None}
  /\ Statements \subseteq StatementKinds
  /\ Modes \subseteq BOOLEAN
  /\ StaleWriters \in BOOLEAN
  /\ MaxId \in Nat /\ MaxNow \in Nat /\ MaxVersions \in Nat /\ MaxSchemas \in Nat
  /\ Datum = (Val \cup {SchemaSlot, Indexed}) \X Cols

VARIABLES
  tree,      \* Key -> Snapshot: the "schema/" and "data/" keys
  temp,      \* {<<txid, key>>}: the "temp_data/" and "temp_schema/" keys
  txdata,    \* the "tx_data/" records
  lock,      \* the "lock/" record
  nextId,    \* id_offset + the next value of Db::generate_id
  now,       \* SystemTime::now()
  state,     \* Conn -> SledStorage.state
  stmt,      \* Conn -> where the executor is in an autocommit statement
  wroteAt    \* history: nextId when a writing transaction last committed

sledVars == <<tree, temp, txdata, lock, nextId>>
vars == <<tree, temp, txdata, lock, nextId, now, state, stmt, wroteAt>>

Idle == [txid |-> None, created_at |-> 0, autocommit |-> FALSE]
StmtState == {"none", "run", "created", "dropped", "commit", "rollback"}
TxState == [txid: Txid, created_at: Nat, autocommit: BOOLEAN]
TxData == [txid: Txid, alive: BOOLEAN, created_at: Nat]
Lock == [lock_txid: Txid \cup {None}, lock_created_at: Nat,
         gc_txid: Txid \cup {None}]

TypeOK ==
  /\ tree \in [Key -> SUBSET SnapshotItem]
  /\ temp \in SUBSET (Txid \X Key)
  /\ txdata \in SUBSET TxData
  /\ lock \in Lock
  /\ nextId \in Nat /\ now \in Nat /\ wroteAt \in Nat
  /\ state \in [Conn -> TxState \cup {Idle}]
  /\ stmt \in [Conn -> StmtState]

Init ==
  /\ tree = [k \in Key |-> {}]
  /\ temp = {} /\ txdata = {}
  /\ lock = [lock_txid |-> None, lock_created_at |-> 0, gc_txid |-> None]
  /\ nextId = 0 /\ now = 0 /\ wroteAt = 0
  /\ state = [c \in Conn |-> Idle]
  /\ stmt = [c \in Conn |-> "none"]
-----------------------------------------------------------------------------
(* lock.rs *)

Active(c) == state[c] # Idle

Expired(created_at) == Timeout # None /\ now >= Timeout + created_at

Collected(txid) == lock.gc_txid # None /\ txid <= lock.gc_txid

\* lock::fetch succeeds: the transaction may still read and commit.
FetchOk(c) == /\ Active(c)
              /\ ~Expired(state[c].created_at)
              /\ ~Collected(state[c].txid)

LockTimedOut == lock.lock_txid # None /\ Expired(lock.lock_created_at)

\* Fault: the lock of another transaction is not respected.
AcquireOkWithoutLock(c) == FetchOk(c)

\* lock::acquire succeeds, at once or after RollbackAndRetry.
AcquireOk(c) == /\ FetchOk(c)
                /\ \/ lock.lock_txid \in {None, state[c].txid}
                   \/ LockTimedOut

\* lock::register: a fresh id and its record.
Register(alive) ==
  /\ nextId < MaxId
  /\ nextId' = nextId + 1
  /\ txdata' = txdata \cup
       {[txid |-> nextId, alive |-> alive, created_at |-> now]}

Unregistered(records, txid) ==
  {IF d.txid = txid THEN [d EXCEPT !.alive = FALSE] ELSE d : d \in records}

\* Fault: the lock loses its creation time instead of resetting it.
ReleasedWithoutTime(l, txid) ==
  IF l.lock_txid = txid
  THEN [l EXCEPT !.lock_txid = None, !.lock_created_at = None] ELSE l

\* lock::release
Released(l, txid) ==
  IF l.lock_txid = txid
  THEN [l EXCEPT !.lock_txid = None, !.lock_created_at = 0] ELSE l
-----------------------------------------------------------------------------
(* transaction.rs: rollback_txid *)

\* Fault: rows are not rolled back.
RolledBackSchemaOnly(txid) ==
  [k \in Key |-> IF <<txid, k>> \in temp /\ k[2] = SchemaSlot
                 THEN Rollback(tree[k], txid) ELSE tree[k]]

RolledBack(txid) ==
  [k \in Key |-> IF <<txid, k>> \in temp THEN Rollback(tree[k], txid)
                 ELSE tree[k]]

TempWithout(txid) == {p \in temp : p[1] # txid}

\* The tree, temp keys and records a write starts from: those left by
\* rollback_txid and release when the lock of another transaction timed out.
BaseTree == IF LockTimedOut THEN RolledBack(lock.lock_txid) ELSE tree
BaseTemp == IF LockTimedOut THEN TempWithout(lock.lock_txid) ELSE temp
BaseTxData ==
  IF LockTimedOut THEN Unregistered(txdata, lock.lock_txid) ELSE txdata

View(c, k) == Get(tree[k], state[c].txid, lock.lock_txid)
TableSeen(c, t) == View(c, SchemaKey(t)) # None

\* The shape connection c gives the rows it writes to a table it sees.
Shape(c, t) == View(c, SchemaKey(t))[2]
-----------------------------------------------------------------------------
(* store_mut.rs, alter_table.rs: the write calls *)

Running(c) ==
  /\ Active(c)
  /\ state[c].autocommit => stmt[c] \in {"run", "created", "dropped"}

\* The calls that may follow in an autocommit statement: after insert_schema
\* the rows of CREATE TABLE AS, after delete_schema the next name of DROP
\* TABLE.
Continues(c, kind) ==
  /\ state[c].autocommit /\ stmt[c] = "created" => kind = "append"
  /\ state[c].autocommit /\ stmt[c] = "dropped" => kind = "drop"

\* No transaction that began later has committed a write.
Fresh(c) == state[c].txid >= wroteAt

May(c, kind) == /\ kind \in Statements
                /\ Running(c) /\ Continues(c, kind) /\ AcquireOk(c)
                /\ StaleWriters \/ Fresh(c)

\* Where an autocommit statement is after a call.
Reaches(c, phase) ==
  stmt' = IF state[c].autocommit THEN [stmt EXCEPT ![c] = phase] ELSE stmt

\* After its data call an autocommit statement has nothing left that fails.
DataDone(c) == Reaches(c, "commit")

\* Autocommit transactions leave no temp keys for data and ALTER TABLE.
Undoable(c, K) == IF state[c].autocommit THEN {} ELSE K

Write(c, newTree, temps) ==
  /\ \A k \in Key : Cardinality(newTree[k]) <=
                      IF k[2] = SchemaSlot THEN MaxSchemas ELSE MaxVersions
  /\ tree' = newTree
  /\ temp' = BaseTemp \cup {<<state[c].txid, k>> : k \in temps}
  /\ txdata' = BaseTxData
  /\ lock' = [lock EXCEPT !.lock_txid = state[c].txid,
                          !.lock_created_at = state[c].created_at]
  /\ UNCHANGED <<now, state, wroteAt>>

InsertSchema(c, t) ==
  /\ May(c, "create") /\ ~TableSeen(c, t)
  /\ Write(c, [BaseTree EXCEPT ![SchemaKey(t)] =
                 Update(@, state[c].txid, <<SchemaSlot, 1>>)], {SchemaKey(t)})
  /\ Reaches(c, "created") /\ UNCHANGED nextId

Present(K) == {k \in K : BaseTree[k] # {}}

DeleteSchema(c, t) ==
  LET gone == {SchemaKey(t)} \cup Present(RowKeys(t))
  IN  /\ May(c, "drop") /\ TableSeen(c, t)
      /\ Write(c, [k \in Key |-> IF k \in gone
                                 THEN Delete(BaseTree[k], state[c].txid)
                                 ELSE BaseTree[k]], gone)
      /\ Reaches(c, "dropped") /\ UNCHANGED nextId

AppendData(c, t, r, v) ==
  LET k == <<t, r>>
  IN  /\ May(c, "append") /\ TableSeen(c, t)
      /\ tree[k] = {} /\ nextId < MaxId
      /\ nextId' = nextId + 1
      /\ Write(c, [BaseTree EXCEPT ![k] =
                     NewSnapshot(state[c].txid, <<v, Shape(c, t)>>)],
               Undoable(c, {k}))
      /\ DataDone(c)

InsertData(c, t, r, v) ==
  LET k == <<t, r>>
  IN  /\ May(c, "insert") /\ TableSeen(c, t)
      /\ Write(c, [BaseTree EXCEPT ![k] =
                     Update(@, state[c].txid, <<v, Shape(c, t)>>)],
               Undoable(c, {k}))
      /\ DataDone(c) /\ UNCHANGED nextId

DeleteData(c, t, r) ==
  LET k == <<t, r>>
  IN  /\ May(c, "delete") /\ TableSeen(c, t) /\ View(c, k) # None
      /\ Write(c, [BaseTree EXCEPT ![k] = Delete(@, state[c].txid)],
               Undoable(c, {k}))
      /\ DataDone(c) /\ UNCHANGED nextId

\* Neither rename_schema nor the executor asks whether the old name is
\* visible or the new one free: it is enough that the old key exists.
RenameSchema(c, t, u) ==
  LET old == {SchemaKey(t)} \cup Present(RowKeys(t))
      From(k) == <<t, k[2]>>
      new == {<<u, k[2]>> : k \in old}
  IN  /\ May(c, "rename") /\ t # u /\ BaseTree[SchemaKey(t)] # {}
      /\ Write(c, [k \in Key |->
                     CASE k \in old -> Delete(BaseTree[k], state[c].txid)
                       [] k \in new -> NewSnapshot(state[c].txid,
                                         Front(BaseTree[From(k)]).data)
                       [] OTHER     -> BaseTree[k]],
               Undoable(c, old \cup new))
      /\ DataDone(c) /\ UNCHANGED nextId

\* The version an ALTER TABLE of connection c reads and replaces.
Current(c, k) == Get(BaseTree[k], state[c].txid, None)

\* ALTER TABLE rewrites the schema and the given rows to a shape.
Reshape(c, t, rows, cols) ==
  LET touched == rows \cup {SchemaKey(t)}
  IN  /\ Write(c, [k \in Key |-> IF k \in touched
                     THEN Update(BaseTree[k], state[c].txid,
                                 <<Current(c, k)[1], cols>>)
                     ELSE BaseTree[k]], Undoable(c, touched))
      /\ DataDone(c) /\ UNCHANGED nextId

AlterTarget(c, t) == May(c, "alter") /\ Current(c, SchemaKey(t)) # None

RenameColumn(c, t) ==
  /\ AlterTarget(c, t)
  /\ Reshape(c, t, {}, Current(c, SchemaKey(t))[2])

RowsSeen(c, t) == {k \in RowKeys(t) : Current(c, k) # None}

AddColumn(c, t) ==
  /\ AlterTarget(c, t) /\ Current(c, SchemaKey(t))[2] = 1
  /\ Reshape(c, t, RowsSeen(c, t), 2)

DropColumn(c, t) ==
  /\ AlterTarget(c, t) /\ Current(c, SchemaKey(t))[2] = 2
  /\ Reshape(c, t, RowsSeen(c, t), 1)

\* create_index and drop_index, the part that writes the schema: the front
\* version, deleted or not, is the one that is looked at and replaced.
SetIndexes(c, t, from, to) ==
  LET k == SchemaKey(t)
      f == Front(BaseTree[k])
  IN  /\ May(c, "index") /\ BaseTree[k] # {} /\ f.data[1] = from
      /\ Write(c, [BaseTree EXCEPT ![k] =
                     Update(Delete(@, state[c].txid), state[c].txid,
                            <<to, f.data[2]>>)], {k})
      /\ DataDone(c) /\ UNCHANGED nextId

CreateIndex(c, t) == /\ May(c, "index") /\ TableSeen(c, t)
                     /\ SetIndexes(c, t, SchemaSlot, Indexed)

DropIndex(c, t) == SetIndexes(c, t, Indexed, SchemaSlot)

\* The calls that may still fail once the lock is theirs: on a missing table,
\* column or index, a name that is taken, or an index entry that is not there.
FailingCalls == {"insert", "delete", "drop", "rename", "alter", "index"}

\* The sled transaction of the call aborts; what stays is what check_retry did
\* before the call was tried again, the take-over of a lock that timed out.
CallFails(c) ==
  /\ \E kind \in FailingCalls : May(c, kind)
  /\ tree' = BaseTree /\ temp' = BaseTemp /\ txdata' = BaseTxData
  /\ lock' = IF LockTimedOut THEN Released(lock, lock.lock_txid) ELSE lock
  /\ Reaches(c, "rollback")
  /\ UNCHANGED <<nextId, now, state, wroteAt>>

\* The call fails: the lock is taken, or the transaction expired.
StatementFails(c) ==
  /\ Running(c) /\ state[c].autocommit /\ ~AcquireOk(c)
  /\ stmt' = [stmt EXCEPT ![c] = "rollback"]
  /\ UNCHANGED <<sledVars, now, state, wroteAt>>
-----------------------------------------------------------------------------
(* transaction.rs and gc.rs, called as executor::execute does *)

\* BEGIN
Begin(c) ==
  /\ FALSE \in Modes /\ ~Active(c)
  /\ Register(TRUE)
  /\ state' = [state EXCEPT ![c] =
       [txid |-> nextId, created_at |-> now, autocommit |-> FALSE]]
  /\ UNCHANGED <<tree, temp, lock, now, stmt, wroteAt>>

\* begin(true) of a statement outside BEGIN.  A transaction left behind by a
\* failed commit is taken up again.
BeginStatement(c) ==
  /\ TRUE \in Modes /\ stmt[c] = "none"
  /\ \/ /\ ~Active(c)
        /\ Register(TRUE)
        /\ state' = [state EXCEPT ![c] =
             [txid |-> nextId, created_at |-> now, autocommit |-> TRUE]]
     \/ /\ Active(c) /\ state[c].autocommit
        /\ UNCHANGED <<nextId, txdata, state>>
  /\ stmt' = [stmt EXCEPT ![c] = "run"]
  /\ UNCHANGED <<tree, temp, lock, now, wroteAt>>

\* Fault: a record that timed out is collected while its lock is held.
GcDoneWithLock(d, lockTxid) ==
  ~d.alive \/ (Timeout # None /\ now - d.created_at >= Timeout)

\* gc.rs: the longest run of the oldest records that are dead or timed out.
GcDone(d, lockTxid) ==
  IF Timeout = None THEN ~d.alive
  ELSE (~d.alive \/ now - d.created_at >= Timeout) /\ d.txid # lockTxid

GcTxids(records, lockTxid) ==
  {d.txid : d \in {e \in records :
     \A f \in records : f.txid <= e.txid => GcDone(f, lockTxid)}}

Touching(k, txids) == {t \in txids : <<t, k>> \in temp}

Last(txids) == CHOOSE t \in txids : \A u \in txids : u <= t

GcTree(txids) ==
  [k \in Key |-> IF Touching(k, txids) = {} THEN tree[k]
                 ELSE Gc(tree[k], Last(Touching(k, txids)))]

\* A temp key outlives its transaction when the key it names was removed
\* before its turn came.
TempStays(t, k, txids) ==
  LET before == {u \in Touching(k, txids) : u < t}
  IN  \/ tree[k] = {}
      \/ before # {} /\ Gc(tree[k], Last(before)) = {}

GcTemp(txids) ==
  {p \in temp : p[1] \in txids => TempStays(p[1], p[2], txids)}

Commit(c) ==
  LET txid     == state[c].txid
      released == Released(lock, txid)
      records  == Unregistered(txdata, txid)
      txids    == GcTxids(records, released.lock_txid)
  IN  /\ FetchOk(c) /\ stmt[c] # "rollback"
      /\ tree' = GcTree(txids)
      /\ temp' = GcTemp(txids)
      /\ txdata' = {d \in records : d.txid \notin txids}
      /\ lock' = IF txids = {} THEN released
                 ELSE [released EXCEPT !.gc_txid = Last(txids)]
      /\ state' = [state EXCEPT ![c] = Idle]
      /\ stmt' = [stmt EXCEPT ![c] = "none"]
      /\ wroteAt' = IF lock.lock_txid = txid THEN nextId ELSE wroteAt
      /\ UNCHANGED <<nextId, now>>

\* commit of an expired autocommit statement: the error is returned, the
\* connection stays in its transaction.
CommitFails(c) ==
  /\ Active(c) /\ ~FetchOk(c) /\ stmt[c] \notin {"none", "rollback"}
  /\ stmt' = [stmt EXCEPT ![c] = "none"]
  /\ UNCHANGED <<sledVars, now, state, wroteAt>>

\* ROLLBACK, or the executor after a failed statement.  Without the lock
\* nothing is undone and the record stays alive.
RollbackTx(c) ==
  LET txid == state[c].txid
  IN  /\ Active(c) /\ stmt[c] # "commit"
      /\ IF lock.lock_txid = txid
         THEN /\ tree' = RolledBack(txid)
              /\ temp' = TempWithout(txid)
              /\ lock' = Released(lock, txid)
              /\ txdata' = Unregistered(txdata, txid)
         ELSE UNCHANGED <<tree, temp, lock, txdata>>
      /\ state' = [state EXCEPT ![c] = Idle]
      /\ stmt' = [stmt EXCEPT ![c] = "none"]
      /\ UNCHANGED <<nextId, now, wroteAt>>

\* fetch_schema outside a transaction: what planning a statement does.
PlanStatement(c) ==
  /\ "plan" \in Statements /\ ~Active(c)
  /\ Register(FALSE)
  /\ UNCHANGED <<tree, temp, lock, now, state, stmt, wroteAt>>

\* fetch_all_schemas outside a transaction: its record is never unregistered.
FetchAllSchemas(c) ==
  /\ "show" \in Statements /\ ~Active(c)
  /\ Register(TRUE)
  /\ UNCHANGED <<tree, temp, lock, now, state, stmt, wroteAt>>

Tick ==
  /\ now < MaxNow
  /\ now' = now + 1
  /\ UNCHANGED <<sledVars, state, stmt, wroteAt>>

\* The process ends between two calls and the tree is opened again.
Reopen ==
  /\ "reopen" \in Statements
  /\ \E c \in Conn : Active(c)
  /\ state' = [c \in Conn |-> Idle]
  /\ stmt' = [c \in Conn |-> "none"]
  /\ UNCHANGED <<sledVars, now, wroteAt>>

WriteStep(c) ==
  \E t \in Table :
    \/ InsertSchema(c, t)
    \/ DeleteSchema(c, t)
    \/ \E r \in Row, v \in Val : AppendData(c, t, r, v)
    \/ \E r \in Row, v \in Val : InsertData(c, t, r, v)
    \/ \E r \in Row : DeleteData(c, t, r)
    \/ \E u \in Table : RenameSchema(c, t, u)
    \/ RenameColumn(c, t)
    \/ AddColumn(c, t)
    \/ DropColumn(c, t)
    \/ CreateIndex(c, t)
    \/ DropIndex(c, t)

ConnStep(c) == \/ Begin(c) \/ BeginStatement(c)
               \/ WriteStep(c) \/ CallFails(c) \/ StatementFails(c)
               \/ Commit(c) \/ CommitFails(c) \/ RollbackTx(c)
               \/ PlanStatement(c) \/ FetchAllSchemas(c)

Next == Tick \/ Reopen \/ \E c \in Conn : ConnStep(c)

Spec == Init /\ [][Next]_vars
-----------------------------------------------------------------------------
(* Properties *)

\* What a transaction that begins now reads.
NewView(k) == Get(tree[k], nextId, lock.lock_txid)

\* What it would read had the lock holder committed.
HolderView(k) == Get(tree[k], nextId, None)

Promise == INSTANCE TxStore
             WITH committed <- [k \in Key |-> NewView(k)],
                  writer    <- lock.lock_txid,
                  workspace <- [k \in Key |-> HolderView(k)]

\* Transactions are all or nothing: what new transactions read changes only
\* when the lock holder commits, and then to exactly the holder's copy of the
\* database; rollback, take-over of a timed-out lock and garbage collection
\* leave it as it was (Snapshot::rollback, Snapshot::gc, lock::release).
AllOrNothing == Promise!Spec

\* While a connection is inside a transaction, a mark of that transaction on
\* a version (created_by, deleted_by) means that it holds the write lock: no
\* two open transactions ever have unfinished writes in the tree.  Autocommit
\* statements that outlive tx_timeout are left out: they have no temp keys.
MarksUnderLock ==
  \A c \in Conn, k \in Key :
    /\ Active(c) /\ (Timeout = None \/ ~state[c].autocommit)
    /\ HasMark(tree[k], state[c].txid)
    => lock.lock_txid = state[c].txid

\* Everything an open BEGIN transaction wrote can be found again by
\* rollback_txid: each marked key has its temp key.
MarksUndoable ==
  \A c \in Conn, k \in Key :
    Active(c) /\ ~state[c].autocommit /\ HasMark(tree[k], state[c].txid)
    => <<state[c].txid, k>> \in temp

\* The strengthening that makes the two properties above inductive: ids are
\* handed out once, open transactions have different ids, and without a
\* timeout the record of an open transaction is alive, so that gc leaves its
\* temp keys alone (lock::register, gc).
IdsFresh ==
  /\ \A k \in Key : \A i \in tree[k] :
       i.created_by < nextId /\ (i.deleted_by = None \/ i.deleted_by < nextId)
  /\ \A d \in txdata : d.txid < nextId
  /\ \A c \in Conn : Active(c) => /\ state[c].txid < nextId
                                 /\ state[c].autocommit \in Modes

UniqueTx ==
  \A c, d \in Conn : Active(c) /\ Active(d) /\ state[c].txid = state[d].txid
                     => c = d

AliveRecord ==
  Timeout = None =>
    \A c \in Conn, d \in txdata :
      Active(c) /\ d.txid = state[c].txid => d.alive

IInv == /\ TypeOK /\ \A k \in Key : WellFormed(tree[k])
        /\ IdsFresh /\ UniqueTx /\ AliveRecord
        /\ MarksUndoable /\ MarksUnderLock

\* No dirty reads: a connection reads what it would read if any one of the
\* other open transactions had been rolled back (Snapshot::extract with the
\* lock holder's txid).
NoDirtyRead ==
  \A c, d \in Conn, k \in Key :
    c # d /\ FetchOk(c) /\ Active(d) =>
      View(c, k) = Get(Rollback(tree[k], state[d].txid),
                       state[c].txid, lock.lock_txid)

\* The rows a new transaction reads have the shape of the schema it reads:
\* ALTER TABLE is never seen half done, whichever transaction was rolled
\* back, taken over or collected.
RowsFitSchema ==
  \A t \in Table, r \in Row :
    NewView(SchemaKey(t)) # None /\ NewView(<<t, r>>) # None
    => NewView(<<t, r>>)[2] = NewView(SchemaKey(t))[2]

Stays(c) == FetchOk(c) /\ FetchOk(c)' /\ state'[c] = state[c]
OwnWrite(c) == lock'.lock_txid = state[c].txid /\ UNCHANGED state
OlderCommit(c) ==
  \E d \in Conn : /\ Commit(d) /\ lock.lock_txid = state[d].txid
                  /\ state[d].txid < state[c].txid

\* The reads of an open transaction change only by its own writes and by the
\* commit of a transaction that began before it.  In particular no younger
\* writer, rollback, take-over or garbage collection changes them.
StableReads ==
  [][\A c \in Conn : Stays(c) /\ ~OwnWrite(c) /\ ~OlderCommit(c)
                     => \A k \in Key : View(c, k)' = View(c, k)]_vars

\* What a rollback of the lock holder would leave under a key.
Committed(k) == Rollback(tree[k], lock.lock_txid)

\* An open transaction that has not expired is on record, and above all that
\* was collected; so is the holder of the lock, whether still open or not.
OnRecord ==
  /\ \A c \in Conn : Active(c) /\ ~Expired(state[c].created_at) =>
       /\ [txid |-> state[c].txid, alive |-> TRUE,
           created_at |-> state[c].created_at] \in txdata
       /\ ~Collected(state[c].txid)
  /\ \A c \in Conn : Active(c) /\ lock.lock_txid = state[c].txid =>
       lock.lock_created_at = state[c].created_at
  /\ lock.lock_txid # None =>
       \E d \in txdata : d.txid = lock.lock_txid /\ d.alive
  /\ lock.gc_txid # None => lock.gc_txid < nextId

\* A mark is the lock holder's or was committed, before wroteAt.
Settled ==
  /\ wroteAt <= nextId
  /\ \A k \in Key : \A i \in tree[k] : \A u \in {i.created_by, i.deleted_by} :
       u \in {None, lock.lock_txid} \/ u < wroteAt

\* The marks of the holder can be undone whenever it may lose the lock
\* without a commit: by a take-over or by ROLLBACK.
HolderUndoable ==
  \A k \in Key :
    lock.lock_txid # None /\ HasMark(tree[k], lock.lock_txid) =>
      \/ <<lock.lock_txid, k>> \in temp
      \/ /\ Timeout = None
         /\ \A c \in Conn : Active(c) /\ state[c].txid = lock.lock_txid
                             => stmt[c] = "commit"

\* With and without the holder's marks, a snapshot has at most its front
\* version live, and the front version of a schema is live.
Layout ==
  \A k \in Key : \A s \in {tree[k], Committed(k)} :
    /\ OnlyFrontLive(s)
    /\ k[2] = SchemaSlot /\ s # {} => \E i \in s : i.deleted_by = None

\* A row version belongs to a table version of its shape.
RowsBelong(view) ==
  \A t \in Table, r \in Row :
    view[<<t, r>>] # None => /\ view[SchemaKey(t)] # None
                            /\ view[<<t, r>>][2] = view[SchemaKey(t)][2]

\* Clients whose reads are those of one version of the database: statements
\* cannot outlive tx_timeout half done, nobody writes over a newer commit, and
\* no table is dropped or renamed, which overwrites marks of others.
OrderlyClients ==
  /\ Timeout = None \/ TRUE \notin Modes
  /\ ~StaleWriters
  /\ "drop" \notin Statements /\ "rename" \notin Statements

\* The inductive invariant behind StableReads, RowsFitSchema and AllOrNothing
\* for such clients.
ReadInv == /\ IInv
           /\ OnRecord /\ Settled /\ HolderUndoable /\ Layout
           /\ RowsBelong([k \in Key |-> NewView(k)])
           /\ RowsBelong([k \in Key |-> HolderView(k)])

\* Repeatable read, as the documentation has it: the reads of an open
\* transaction change only by its own writes.
RepeatableRead ==
  [][\A c \in Conn : Stays(c) /\ ~OwnWrite(c)
                     => \A k \in Key : View(c, k)' = View(c, k)]_vars
=============================================================================
