SPECIFICATION EverySpec
CONSTANTS
  u1 = u1 j1 = j1 j2 = j2 j3 = j3
  NoUser = NoUser
  Users <- OneUser
  Jobs <- ThreeJobs
  Watched = {}
  JobCost = 2
  DailyBudget = 4
  MonthlyBudget = 5
  FreeBudget = 4
  ProPrices <- DefaultOnly
  ProMargins <- DefaultOnly
  DefaultPrice = 10
  DefaultMargin = 40
  Costs <- CheapAndDear
  MaxAttempts = 2
  MaxDay = 1
  DaysPerMonth = 2
  Askers = {1}
  Imports = {1, 2, 3, 4}
  YearlyLimit = 1
  OpenLimit = 1
  ProCents = 1
  RunCosts = {1}
  RunsAtOnce = 1
  SubscriptionMoves = TRUE
  MaxMonth = 2
  MonthsPerYear = 2
  Clients = {r1, r2}
  Chains <- EveryChain
  KeyLimit <- KeyLimits
  Window = 2
  BanWindow = 3
  BanThreshold = 2
  BanDurations <- Durations
  MaxNow = 4
  MaxRestarts = 1
SYMMETRY Interchangeable
CHECK_DEADLOCK FALSE
INVARIANTS TypeOK  QuotaOvershootBounded AdmittedBounded ExtractBansStayScoped
PROPERTY SpentStaysSpent
