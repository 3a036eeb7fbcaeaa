SPECIFICATION EverySpec
CONSTANTS
  newApp = newApp oldApp = oldApp d1 = d1 d2 = d2
  NoClient = NoClient
  Clients <- TwoClients
  Legacy <- OldClients
  AppleClient = TRUE
  MaxTokens = 3
  Events <- PurchaseAndRefund
  Deliveries <- TwoDeliveries
  RestoreExpires = 3
  MaxAge = 1
  MaxNow = 2
  MaxFaults = 1
SYMMETRY Interchangeable
CHECK_DEADLOCK FALSE
INVARIANTS OneLiveTokenPerSession LostAnswerCanBeRepeated RepliesAgree  
PROPERTY EventsTakeEffectInOrder
