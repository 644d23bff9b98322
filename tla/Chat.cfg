CONSTANTS
    a = a
    b = b
    p1 = p1
    p2 = p2
    api = api
    Deployments = {a, b}
    Requests = {p1, p2, api}
    Pages = {p1, p2}
    Commands = {1, 2}
    Settings <- Setups
    LocalPorts = {1, 2}
    RemotePorts = {1, 2, 3}
    MaxTunnels = 4
    MaxThreads = 3
    MaxPending = 2
    MaxTurns = 3
    MaxKept = 1
SPECIFICATION FairSpec
CHECK_DEADLOCK FALSE
INVARIANTS AnswersAreReadable ForwarderIsHeld HistoryIsTrue
PROPERTIES CallsSettle
