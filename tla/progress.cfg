SPECIFICATION EverySpec
CONSTANTS
  u1 = u1 u2 = u2 v1 = v1 v2 = v2 d1 = d1 h1 = h1 h2 = h2 w1 = w1 w2 = w2
  NoUser = NoUser NoUrl = NoUrl NoDelivery = NoDelivery
  Users <- OneUser
  Urls <- OneUrl
  Known <- NothingKnown
  Deliveries <- NoDeliveries
  Handlers <- OneHandler
  Workers <- OneWorker
  MaxJobs = 1
  MaxAttempts = 2
  SlowRuns = TRUE
PROPERTIES EveryJobEnds ExhaustedJobsAreReleased WaitingImportIsStarted
