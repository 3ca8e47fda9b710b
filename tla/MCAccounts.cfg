CONSTANTS
    Accounts = {a1, a2}
    Requests = {r1, r2}
    Providers = {apple}
    Nobody = nobody
    MaxTokens = 2
    MaxActs = 2
SPECIFICATION AccountsSpec
SYMMETRY Symmetry
INVARIANTS
    RotatedOnce
    ShutOutLeavesFew
CHECK_DEADLOCK FALSE
