\* Two deployments of a model, two operators, every single fault.
CONSTANTS
    d1 = d1
    d2 = d2
    Deployments = {d1, d2}
    Operators = {1, 2}
    Ports = {1, 2}
    MaxPids = 3
    MaxOps = 3
    MaxFaults = 1
SPECIFICATION FairSpec
CHECK_DEADLOCK FALSE
INVARIANTS RecordsAgree ServiceReturns
PROPERTIES RowsAreCorrected
