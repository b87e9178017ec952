\* Three jobs of two types, a filtered and an unfiltered worker with batches of
\* two, up to three attempts, one worker stop or failed update.
SPECIFICATION FairSpec
CONSTANTS
    j1 = j1
    j2 = j2
    j3 = j3
    w1 = w1
    w2 = w2
    workflow = workflow
    connector = connector
    Jobs = {j1, j2, j3}
    JobTypes = {workflow, connector}
    TypeOf <- MixedTypes
    Workers = {w1, w2}
    TypesOf <- MixedFilters
    BatchSize = 2
    MaxAttempts = 3
    BaseBackoff = 2
    MaxBackoff = 3
    MaxAge = 1
    MaxFaults = 1
CHECK_DEADLOCK FALSE
INVARIANTS
    OneHolder
    AttemptsHonest
    StuckCauses
PROPERTIES
    JobsFinish
