SPECIFICATION FairNotificationsSpec
CONSTANTS
    Users = {u1}
    Devices = {d1, d2}
    Requests = {r1}
    Messages = {m1}
    Recipient <- MCRecipient
    Workers = {w1, w2}
    MaxAttempts = 2
    MaxCrashes = 1
    MaxTries = 2
    RetryLimit = 1
    None = None
    u1 = u1
CHECK_DEADLOCK FALSE
INVARIANTS
    GivenUpAfterTries
    SentWasShown
PROPERTIES
    PushSettles
