SPECIFICATION PaymentsSpec
CONSTANTS
  Contractors = {c1}
  None = None
  MaxCalls = 1
  PriceMayRefuse = FALSE
  MaxAttempts = 2
  MaxCrashes = 0
  CardsMayNeedAction = TRUE
  WebhooksMayBeLate = FALSE
INVARIANTS
  ChargedOnce
