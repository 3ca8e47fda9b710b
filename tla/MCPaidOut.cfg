SPECIFICATION FairPaidOutSpec
CONSTANTS
  Workers = {w1, w2}
  MaxPhotos = 3
  MaxCrashes = 2
  MaxEvents = 2
INVARIANTS
  ConfirmedOnEvidence
  TransferredOnce
  PayoutTellsTruth
  PaidIntoAccount
PROPERTIES
  EvidenceFrozen
  WaitingEnds
  EarnedGetsPayout
