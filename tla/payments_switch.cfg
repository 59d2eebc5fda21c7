SPECIFICATION LiveSpec
CONSTANTS
    Machines = {a}
    Federations = {f1, f2}
    Contracts = {k1}
    None = None
    MayStayDown = {}
    MaxFaults = 0
    MaxSwitches = 2
PROPERTY PaymentsCredited
