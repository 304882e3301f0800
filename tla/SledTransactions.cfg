SPECIFICATION IndexSpec
CONSTANTS
  None = None
  SchemaSlot = SchemaSlot
  Indexed = Indexed
  Conn = {c1, c2}
  Table = {t1}
  Row = {r1}
  Val = {v1, v2}
  Timeout = 1
  Statements = {"insert", "delete", "create", "index", "alter"}
  Modes = {FALSE}
  StaleWriters = FALSE
  MaxId = 3
  MaxNow = 1
  MaxVersions = 2
  MaxSchemas = 3
  Datum <- MCDatum
CHECK_DEADLOCK FALSE
SYMMETRY Symmetry
INVARIANTS
  ScanInv
  NoDirtyRead
  RowsFitSchema
  IndexAgrees
PROPERTIES
  StableReads
  AllOrNothing
