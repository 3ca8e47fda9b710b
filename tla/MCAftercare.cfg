SPECIFICATION AftercareSpec
CONSTANTS
    Bookings = {b1, b2}
    Workers = {w1, w2}
    MaxAddress = 2
    Clerks = {k1, k2}
    Years = {1, 2}
    None = None
SYMMETRY Symmetry
INVARIANTS
    DeletionClosesWork
    InvoicesGapless
CHECK_DEADLOCK FALSE
