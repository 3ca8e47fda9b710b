CONSTANTS
    Requests = {r1, r2}
    Challenges = {h1}
    NoChallenge = noChallenge
    MaxCodes = 4
    MaxAttempts = 1
    MaxPerDay = 2
    MaxFailed = 2
SPECIFICATION AdminLoginSpec
SYMMETRY Symmetry
INVARIANTS
    LiveCodesBounded
    OvershootBounded
    ChallengeUsedOnce
    LoginsHaveCodes
