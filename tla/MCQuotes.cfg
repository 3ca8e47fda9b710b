SPECIFICATION QuotesSpec
CONSTANTS
  QuoteIds = {q1, q2}
  Requests = {r1, r2}
  NoQuote = NoQuote
  Nobody = Nobody
  Day = 6
  Minute = 2
  Configs <- MCConfigs
  Totals <- MCTotals
  Distances <- MCDistances
INVARIANTS
  CeilingCoversQuotedRules
  NeverAboveApproved
