SPECIFICATION LiveSpec
CONSTANTS
    Machines = {a, b}
    Federations = {f}
    Callers = {c}
    Syncer = s
    None = None
    Torn = Torn
    MaxCalls = 1
    MaxClaims = 2
    MaxFaults = 0
CHECK_DEADLOCK FALSE
PROPERTY AllSynced
