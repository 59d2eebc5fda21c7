SPECIFICATION LiveSpec
CONSTANTS
    Machines = {a, b}
    Federations = {f, g}
    Callers = {c}
    Syncer = s
    None = None
    Torn = Torn
    MaxCalls = 2
    MaxClaims = 2
    MaxFaults = 1
INVARIANTS TypeOK KeyFits
PROPERTIES NoSetBack RolloutSpec Converges SweepsRun
CHECK_DEADLOCK FALSE
