----------------------------- MODULE FileSystem -----------------------------
(***************************************************************************)
(* The file system the file-based storages use (std::fs; outside the       *)
(* repository).  A disk is a function from the paths that exist to their   *)
(* contents.  A storage call is a program: the sequence of the operations  *)
(* it asks of the file system, each with what the code does (`undo`) when  *)
(* the operation fails.                                                    *)
(***************************************************************************)
EXTENDS Naturals, Sequences, TLC

LOCAL INSTANCE SequencesExt

CONSTANTS Torn,    \* the content of a file created and not completely written
          Failed   \* the result of a read that is an error

\* A path: the table, what the file is, the row it is for (0: none), and
\* whether it is the file itself, its ".tmp" or its ".bak" sibling.
Path(t, file) == [table |-> t, file |-> file, key |-> 0, copy |-> "no"]

RowPath(t, key) == [table |-> t, file |-> "row", key |-> key, copy |-> "no"]

Temp(path) == [path EXCEPT !.copy = "tmp"]

Backup(path) == [path EXCEPT !.copy = "bak"]

Exists(disk, path) == path \in DOMAIN disk

Operation(do, path, to, content) ==
  [do |-> do, path |-> path, to |-> to, content |-> content,
   undo |-> <<>>, ignored |-> FALSE]

\* File::create: the file is there, and empty.
Create(path) == Operation("write", path, path, Torn)

\* The write of the whole content; a partial write leaves the file Torn.
Write(path, content) == Operation("write", path, path, content)

Rename(from, to) == Operation("rename", from, to, Torn)

Unlink(path) == Operation("remove", path, path, Torn)

\* All of a transaction at once: the content is the disk it leaves.
Install(disk) == Operation("install", Path("", "transaction"), Path("", "transaction"), disk)

\* The call returns an error here, of its own or of the server's.
Refuse == Operation("refuse", Path("", "refused"), Path("", "refused"), Torn)

\* What the code does when the operation fails.
OnFailure(operation, undo) == [operation EXCEPT !.undo = undo]

\* `let _ = ...`, or a flush in a destructor: its failure is not seen.
Ignored(operation) == [operation EXCEPT !.ignored = TRUE]

Without(disk, path) == [p \in DOMAIN disk \ {path} |-> disk[p]]

\* The disk after the operation.
Applied(disk, operation) ==
  CASE operation.do = "write"  -> operation.path :> operation.content @@ disk
    [] operation.do = "rename" -> operation.to :> disk[operation.path]
                                    @@ Without(disk, operation.path)
    [] operation.do = "remove" -> Without(disk, operation.path)
    [] operation.do = "install" -> operation.content
    [] OTHER                   -> disk

\* The disk after all of the program.
Run(disk, program) == FoldLeft(Applied, disk, program)
=============================================================================
