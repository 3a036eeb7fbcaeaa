SPECIFICATION Spec
CONSTANTS
  u1 = u1 u2 = u2 r1 = r1 r2 = r2 t1 = t1 t2 = t2 english = english spanish = spanish
  NoUser = NoUser
  Users <- OneUser
  Languages <- TwoLanguages
  Requests <- TwoRequests
  Tasks <- TwoTasks
  Base <- english
  MaxPerUser = 1
  MaxJobs = 1
  MaxVersions = 1
SYMMETRY Interchangeable
CHECK_DEADLOCK FALSE
INVARIANT PollTranslates
