SPECIFICATION IndexSpec
CONSTANTS
  None = None
  SchemaSlot = SchemaSlot
  Indexed = Indexed
  Conn = {c1, c2}
  Table = {t1}
  Row = {r1}
  Val = {v1}
  Timeout = None
  Statements = {"append", "insert", "create"}
  Modes = {FALSE}
  StaleWriters = FALSE
  MaxId = 3
  MaxNow = 0
  MaxVersions = 3
  MaxSchemas = 3
  Datum <- MCDatum
CHECK_DEADLOCK FALSE
PROPERTY RepeatableRead
