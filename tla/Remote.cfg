\* Two versions, two operators, every single fault; the properties say after what.
CONSTANTS
    v1 = v1
    v2 = v2
    Versions = {v1, v2}
    Operators = {1, 2}
    MaxPort = 3
    MaxOps = 3
    MaxOverlapped = 2
    MaxFaults = 1
SPECIFICATION FairSpec
CHECK_DEADLOCK FALSE
INVARIANTS ServiceSurvives RecordsAgree
PROPERTIES DeploymentSettles
