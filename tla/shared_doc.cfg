SPECIFICATION LiveSpec
CONSTANTS
    IdLen = 1
    Machine = machine
    Manager = manager
    First = machine
    UserKeys <- MCUserKeys
    Values = {v, w}
    Empty = Empty
    Contracts <- MCContracts
    MaxWrites = 3
    MaxTime = 1
INVARIANTS TypeOK KvFaithful KvKept KvAgree ListedExist ContractKept
PROPERTIES ReadsForward KvConverges ContractsClaimed
CHECK_DEADLOCK FALSE
