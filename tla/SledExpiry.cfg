SPECIFICATION IndexSpec
CONSTANTS
  None = None
  SchemaSlot = SchemaSlot
  Indexed = Indexed
  Conn = {c1, c2}
  Table = {t1}
  Row = {r1}
  Val = {v1}
  Timeout = 1
  Statements = {"append", "insert", "delete", "create", "index", "drop", "reopen"}
  Modes = {TRUE, FALSE}
  StaleWriters = FALSE
  MaxId = 3
  MaxNow = 2
  MaxVersions = 2
  MaxSchemas = 2
  Datum <- MCDatum
CHECK_DEADLOCK FALSE
SYMMETRY Symmetry
INVARIANTS
  EntriesUndoable
  IInv
