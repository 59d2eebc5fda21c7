SPECIFICATION LiveSpec
CONSTANTS
    Machines = {a, b}
    Federations = {f1}
    Contracts = {k1, k2}
    None = None
    MayStayDown = {b}
    MaxFaults = 1
    MaxSwitches = 1
PROPERTY PaymentsCredited
