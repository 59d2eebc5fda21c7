SPECIFICATION Spec
CONSTANTS
    Managers = {m1}
    Conns = {c1}
    Apps = {a1}
    Readers = {r1}
    None = None
    MaxDocs = 2
    MaxFaults = 0
    TearsRewrite = FALSE
    KvBeforeClaim = TRUE
INVARIANT OneDocument
