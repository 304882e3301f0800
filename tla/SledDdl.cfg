SPECIFICATION IndexSpec
CONSTANTS
  None = None
  SchemaSlot = SchemaSlot
  Indexed = Indexed
  Conn = {c1}
  Table = {t1, t2}
  Row = {r1}
  Val = {v1}
  Timeout = None
  Statements = {"append", "insert", "delete", "create", "drop", "index", "alter", "rename", "plan", "show", "reopen"}
  Modes = {TRUE}
  StaleWriters = FALSE
  MaxId = 6
  MaxNow = 0
  MaxVersions = 3
  MaxSchemas = 3
  Datum <- MCDatum
CHECK_DEADLOCK FALSE
SYMMETRY Symmetry
INVARIANTS
  AllUndoable
