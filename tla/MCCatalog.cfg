SPECIFICATION CatalogSpec
CONSTANTS
    Workers = {w1, w2}
    Icons = {i1}
    Keys = {k1}
    OptionKeys = {o1}
    MaxFields = 2
    MaxOptions = 2
    MaxLimit = 1
    None = None
    w1 = w1
    w2 = w2
    i1 = i1
    k1 = k1
    o1 = o1
SYMMETRY Symmetry
INVARIANTS
    IconsExist
    OptionsHaveQuestion
    PrefillIsValid
CHECK_DEADLOCK FALSE
