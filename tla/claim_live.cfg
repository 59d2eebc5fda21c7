SPECIFICATION LiveSpec
CONSTANTS
    Managers = {m1, m2}
    Conns = {c1, c2}
    Apps = {}
    Readers = {r1}
    None = None
    MaxDocs = 2
    MaxFaults = 1
    TearsRewrite = FALSE
    KvBeforeClaim = FALSE
PROPERTIES ClaimCompletes ClaimsEnd StateReadable
