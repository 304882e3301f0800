------------------------------ MODULE TxStore ------------------------------
(***************************************************************************)
(* What a transactional GlueSQL storage promises its users                 *)
(* (core/src/store/transaction.rs and the pages of docs/ on transactions): *)
(* there is a committed database; one writer at a time changes a private   *)
(* copy of it; COMMIT installs the whole copy, ROLLBACK (or losing the     *)
(* lock to a time-out) forgets the whole copy.                             *)
(***************************************************************************)
CONSTANTS Key, None

VARIABLES committed,    \* Key -> value, or None
          writer,       \* who writes, or None
          workspace     \* Key -> the writer's copy of the database

vars == <<committed, writer, workspace>>

Init == /\ committed = [k \in Key |-> None]
        /\ writer = None
        /\ workspace = committed

\* The writer changes its copy; with no writer somebody becomes it.
Write == /\ writer' # None
         /\ writer = None \/ writer' = writer
         /\ UNCHANGED committed

Commit == /\ writer # None /\ writer' = None
          /\ committed' = workspace /\ UNCHANGED workspace

Abort == /\ writer # None /\ writer' = None
         /\ workspace' = committed /\ UNCHANGED committed

\* The writer is thrown out and its copy forgotten when another one starts.
Steal == /\ writer # None /\ writer' # None /\ writer' # writer
         /\ UNCHANGED committed

Next == Write \/ Commit \/ Abort \/ Steal

Spec == Init /\ [][Next]_vars
=============================================================================
