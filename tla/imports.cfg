SPECIFICATION OneScenario
CONSTANTS
  u1 = u1 u2 = u2 v1 = v1 v2 = v2 d1 = d1 h1 = h1 h2 = h2 w1 = w1 w2 = w2
  NoUser = NoUser NoUrl = NoUrl NoDelivery = NoDelivery
  Users <- TwoUsers
  Urls <- TwoUrls
  Known <- SecondKnown
  Deliveries <- OneDelivery
  Handlers <- TwoHandlers
  Workers <- TwoWorkers
  MaxJobs = 2
  MaxAttempts = 2
  SlowRuns = TRUE
INVARIANTS TypeOK RequestsKeepToOwnJobs  RequestsKeepToTheirUrl OneActiveJobPerUrl CompletedHasRecipe ChargesBoundedByAttempts
PROPERTIES LedgerRowsAreFinal
