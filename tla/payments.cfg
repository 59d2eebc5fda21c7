SPECIFICATION LiveSpec
CONSTANTS
    Machines = {a}
    Federations = {f1}
    Contracts = {k1, k2}
    None = None
    MayStayDown = {}
    MaxFaults = 2
    MaxSwitches = 1
INVARIANTS TypeOK NoPaymentLost RemovedOnlyIfCredited
PROPERTIES CustodySpec PaymentsCredited
