SPECIFICATION Spec
CONSTANTS
    Managers = {m1, m2}
    Conns = {c1, c2, c3}
    Apps = {a1}
    Readers = {r1}
    None = None
    MaxDocs = 2
    MaxFaults = 1
    TearsRewrite = FALSE
    KvBeforeClaim = FALSE
SYMMETRY Symmetry
INVARIANTS TypeOK HolderIsOwner SameDocument MutexFollowsHolder
PROPERTIES DocumentStable PairingSpec
