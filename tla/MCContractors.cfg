SPECIFICATION ContractorsSpec
CONSTANTS
    Workers = {w1, w2}
    MaxRegs = 3
    MaxDocs = 2
    MaxFiles = 2
    w1 = w1
    w2 = w2
SYMMETRY Symmetry
INVARIANTS
    PendingBounded
    AttachmentIsStored
PROPERTIES
    ReviewedIsFrozen
    ReviewDecides
CHECK_DEADLOCK FALSE
