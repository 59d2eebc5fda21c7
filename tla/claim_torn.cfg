SPECIFICATION Spec
CONSTANTS
    Managers = {m1, m2}
    Conns = {c1, c2, c3}
    Apps = {}
    Readers = {}
    None = None
    MaxDocs = 2
    MaxFaults = 1
    TearsRewrite = TRUE
    KvBeforeClaim = FALSE
SYMMETRY Symmetry
CHECK_DEADLOCK FALSE
INVARIANT SingleHolder
