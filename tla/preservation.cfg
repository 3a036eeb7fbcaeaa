SPECIFICATION EverySpec
CONSTANTS
  d1 = d1 d2 = d2 jobs = jobs recipes = recipes
  Devices <- TwoDevices
  MaxDrafts = 5
  MaxLives = 2
  Tables <- TwoTables
  EvidenceWindow = 1
  MaxRows = 2
  MaxSettings = 1
  MaxNow = 3
  MaxPreflights = 2
  MaxBackups = 2
  MaxRehearsals = 2
  MaxResets = 1
SYMMETRY Interchangeable
CHECK_DEADLOCK FALSE
INVARIANTS RowShowsLog NoLostUpdate  ResetSoonAfterBackup
PROPERTY AppendOnlyLog
