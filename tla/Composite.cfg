SPECIFICATION Spec
CONSTANTS
  Null = Null
  NoDefault = NoDefault
  NoRow = NoRow
  NoEngine = NoEngine
  Table = {"p", "c"}
  Setups <- CompositeSetups
  MaxRows = 2
  MaxColumns = 2
  MaxId = 2
  table_names <- TableNames
  fetch_schema <- FetchSchema
  fetch_data <- FetchData
  scan_data <- ScanData
  insert_schema <- InsertSchema
  delete_schema <- DeleteSchema
  append_data <- AppendData
  insert_data <- InsertData
  delete_data <- DeleteData
  rename_schema <- RenameSchema
  rename_column <- RenameColumn
  can_add_column <- CanAddColumn
  add_column <- AddColumn
  drop_column <- DropColumn
  within_bounds <- Within
  settings <- Settings
CHECK_DEADLOCK FALSE

  
  
PROPERTIES
  UpdateKeepsRows
  AlterKeepsValues
