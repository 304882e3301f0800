SPECIFICATION Spec
CONSTANTS
  Null = Null
  NoDefault = NoDefault
  NoRow = NoRow
  NoEngine = NoEngine
  Table = {"p", "c"}
  Setups <- DdlSetups
  MaxRows = 2
  MaxColumns = 2
  MaxId = 3
  table_names <- MemoryTableNames
  fetch_schema <- MemoryFetchSchema
  fetch_data <- MemoryFetchData
  scan_data <- MemoryScanData
  insert_schema <- MemoryInsertSchema
  delete_schema <- MemoryDeleteSchema
  append_data <- MemoryAppendData
  insert_data <- MemoryInsertData
  delete_data <- MemoryDeleteData
  rename_schema <- MemoryRenameSchema
  rename_column <- MemoryRenameColumn
  can_add_column <- MemoryCanAddColumn
  add_column <- MemoryAddColumn
  drop_column <- MemoryDropColumn
  within_bounds <- MemoryWithin
  settings <- MemorySettings
CHECK_DEADLOCK FALSE

  
PROPERTIES
  AlterKeepsValues
