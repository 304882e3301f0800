SPECIFICATION Spec
CONSTANTS
  Null = Null
  NoDefault = NoDefault
  NoRow = NoRow
  NoEngine = NoEngine
  Torn = Torn
  Failed = Failed
  NullText = NullText
  Kind = {"FILE", "GIT", "CSV", "CSVMAP", "PARQUET", "REDIS", "MONGO", "REDB", "SLED", "OLDREDB"}
  Table = {"t", "u"}
  KeyedTable = {"t"}
  MaxRows = 2
  MaxRedbRows = 1
  MaxRedbTables = 1
  MaxKey = 2
  MaxFaults = 1
  BatchSize = 2
INVARIANTS
  OthersUntouched
  PromiseKept
  
  OpensMigrated
  DoneIsCommitted
PROPERTIES
  MigrationCompletes
