\* One stream at a time, with a provisioning request, breaks, failures and a restart.
SPECIFICATION FairSpec
CHECK_DEADLOCK FALSE
CONSTANTS
    Callers = {1}
    Provisioners = {p1}
    Vocab <- MCVocab
    HeadWeight <- MCHeadWeight
    WeightStep <- MCWeightStep
    ActivationStep = 2
    Hiddens <- MCHiddens
    Ring = 16
    Rhos = {3, 12}
    Checks <- MCChecks
    MaxCandidates = 2
    SeedRhos <- MCSeedRhos
    MaxMasks = 2
    MaxRestarts = 1
    MaxWorkerFaults = 1
    MaxTokens = 2
    Eos = {2}
    MaxBreaks = 2
INVARIANTS AnswerIsWhole MaskUsedOnce TokenIsLargest
PROPERTIES StreamsEnd
