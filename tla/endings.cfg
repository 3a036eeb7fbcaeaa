SPECIFICATION EverySpec
CONSTANTS
  u1 = u1 u2 = u2 t1 = t1 t2 = t2 j1 = j1 w1 = w1 w2 = w2
  NoUser = NoUser
  Users <- TwoUsers
  Devices <- TwoDevices
  Jobs <- OneJob
  Workers <- TwoWorkers
  MaxAttempts = 2
  MaxRows = 1
  SlowSends = TRUE
CHECK_DEADLOCK FALSE
INVARIANT AlertsBoundedByAttempts
PROPERTIES EveryAlertEnds EveryEventSettles
