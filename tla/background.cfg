SPECIFICATION EverySpec
CONSTANTS
  u1 = u1 u2 = u2 r1 = r1 r2 = r2 t1 = t1 t2 = t2 l1 = l1 l2 = l2
  NoUser = NoUser
  Users <- TwoUsers
  Urls <- TwoUrls
  Requests <- TwoRequests
  Tasks <- TwoTasks
  MaxJobs = 2
  MaxConcurrent = 2
  MaxPerUser = 1
  MaxOpen = 2
  DatabaseFails = TRUE
  Restarts = TRUE
  Translators <- TwoUsers
  OneRequestPerUser = FALSE
  Readers = {"reader"}
  NoReader = "nobody"
  Languages = {"en", "es"}
  Base = "en"
  SlotsPerReader = 2
  MaxTranslations = 2
  MaxVersions = 2
SYMMETRY Interchangeable
CHECK_DEADLOCK FALSE
INVARIANTS TypeOK SlotsMatchHolders OneActiveTranslation ShownIsCurrent
