SPECIFICATION LiveSpec
CONSTANTS
    Federations = {f1, f2}
    Setters = {s1, s2}
    Readers = {r1}
    Opening = Opening
    View = View
    None = None
    MaxSeeds = 2
    MaxFaults = 2
INVARIANTS TypeOK SecretKept LookupFound NoDeadlock
PROPERTIES ViewFresh VaultSpec CallsReturn Reopens
