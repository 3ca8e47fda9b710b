SPECIFICATION FairPaymentsSpec
CONSTANTS
  Contractors = {c1, c2}
  None = None
  MaxCalls = 1
  PriceMayRefuse = TRUE
  MaxAttempts = 2
  MaxCrashes = 1
  CardsMayNeedAction = TRUE
  WebhooksMayBeLate = TRUE
INVARIANTS
  AssignedIsCharged
  SucceededIsCharged
PROPERTIES
  DispatchSpec
  ReservedGetsPayment
  PaidGetsAssigned
