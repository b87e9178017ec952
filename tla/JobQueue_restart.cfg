\* One job, one worker, one stop and restart of it.
SPECIFICATION FairSpec
CONSTANTS
    j1 = j1
    j2 = j2
    j3 = j3
    w1 = w1
    w2 = w2
    workflow = workflow
    connector = connector
    Jobs = {j1}
    JobTypes = {workflow, connector}
    TypeOf <- MixedTypes
    Workers = {w1}
    TypesOf <- MixedFilters
    BatchSize = 2
    MaxAttempts = 3
    BaseBackoff = 2
    MaxBackoff = 3
    MaxAge = 1
    MaxFaults = 1
CHECK_DEADLOCK FALSE
PROPERTIES
    JobsSurviveRestart
