------------------------------ MODULE Snapshot ------------------------------
(***************************************************************************)
(* The multi-version record kept under every schema, data and index key of *)
(* the sled tree (storages/sled-storage/src/snapshot.rs).                  *)
(*                                                                         *)
(* The code keeps a Vec of items, newest first.  Here a snapshot is the    *)
(* set of its items; the field `at` is the position an item was pushed at  *)
(* (a larger `at` is nearer to the front of the Vec), so the order of the  *)
(* Vec is the order of `at` and removing items keeps it.  The empty set is *)
(* an absent key: the code removes a key whose Vec became empty.           *)
(***************************************************************************)
EXTENDS Integers

CONSTANTS None,     \* Option::None
          Datum     \* what an item carries: a schema, a row or a data key

ASSUME NoneNotNat == None \notin Nat

ASSUME NoneNotDatum == None \notin Datum

Txid == Nat

SnapshotItem == [at: Nat, data: Datum, created_by: Txid,
                 deleted_by: Txid \cup {None}]

\* Positions are distinct and one is the front, as the indices of a Vec.
WellFormed(s) ==
  /\ s \subseteq SnapshotItem
  /\ s # {} => \E i \in s : \A j \in s : j.at <= i.at
  /\ \A i, j \in s : i.at = j.at => i = j

\* The item at index 0 of the Vec.
Front(s) == CHOOSE i \in s : \A j \in s : j.at <= i.at

Rest(s) == s \ {Front(s)}

NewItem(pos, txid, d) ==
  [at |-> pos, data |-> d, created_by |-> txid, deleted_by |-> None]

\* Snapshot::new
NewSnapshot(txid, d) == {NewItem(1, txid, d)}

MarkDeleted(item, txid) == [item EXCEPT !.deleted_by = txid]

\* Snapshot::delete: the front item is stamped, whoever deleted it before.
Delete(s, txid) ==
  IF s = {} THEN s ELSE Rest(s) \cup {MarkDeleted(Front(s), txid)}

\* Snapshot::update: the front item is stamped only when it is not deleted.
Update(s, txid, d) ==
  IF s = {} THEN NewSnapshot(txid, d)
  ELSE LET f   == Front(s)
           old == IF f.deleted_by = None THEN MarkDeleted(f, txid) ELSE f
       IN  Rest(s) \cup {old, NewItem(f.at + 1, txid, d)}

\* Fault: what the transaction deleted stays deleted.
RollbackCreatedOnly(s, txid) == {j \in s : j.created_by # txid}

\* Snapshot::rollback
Rollback(s, txid) ==
  {IF i.deleted_by = txid THEN MarkDeleted(i, None) ELSE i :
     i \in {j \in s : j.created_by # txid}}

\* Snapshot::gc: drop the items at the front up to the first one that is not
\* deleted by `txid` or an older transaction.
Collectable(item, txid) == item.deleted_by # None /\ item.deleted_by <= txid

Gc(s, txid) ==
  {i \in s : \E j \in s : j.at >= i.at /\ ~Collectable(j, txid)}

\* Fault: versions of the lock holder are not skipped.
VisibleUnlocked(item, txid, lock_txid) ==
  /\ txid >= item.created_by
  /\ ~(item.deleted_by # None /\ txid >= item.deleted_by)

\* Fault: a version is gone for everyone once its deletion is committed.
VisibleUntilDeleted(item, txid, lock_txid) ==
  LET other == IF lock_txid = txid THEN None ELSE lock_txid
  IN  /\ item.created_by # other
      /\ txid >= item.created_by
      /\ item.deleted_by \in {None, other}

\* Snapshot::get and Snapshot::extract: the versions that transaction `txid`
\* may read while `lock_txid` holds the write lock.
Visible(item, txid, lock_txid) ==
  LET other == IF lock_txid = txid THEN None ELSE lock_txid
  IN  /\ item.created_by # other
      /\ txid >= item.created_by
      /\ ~ /\ item.deleted_by # None
           /\ item.deleted_by # other
           /\ txid >= item.deleted_by

VisibleItems(s, txid, lock_txid) == {i \in s : Visible(i, txid, lock_txid)}

Get(s, txid, lock_txid) ==
  LET v == VisibleItems(s, txid, lock_txid)
  IN  IF v = {} THEN None ELSE Front(v).data

\* Only the front item may be without a deletion mark.
OnlyFrontLive(s) ==
  \A i \in s : i.deleted_by = None => \A j \in s : j.at <= i.at

\* What transaction `txid` left in a snapshot.
HasMark(s, txid) == \E i \in s : i.created_by = txid \/ i.deleted_by = txid
=============================================================================
