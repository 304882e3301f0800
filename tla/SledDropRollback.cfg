SPECIFICATION IndexSpec
CONSTANTS
  None = None
  SchemaSlot = SchemaSlot
  Indexed = Indexed
  Conn = {c1}
  Table = {t1}
  Row = {r1}
  Val = {v1}
  Timeout = None
  Statements = {"append", "insert", "delete", "create", "drop"}
  Modes = {TRUE, FALSE}
  StaleWriters = FALSE
  MaxId = 7
  MaxNow = 0
  MaxVersions = 3
  MaxSchemas = 3
  Datum <- MCDatum
CHECK_DEADLOCK FALSE
PROPERTY AllOrNothing
