SPECIFICATION FairSpec
CONSTANTS
    s1 = s1
    s2 = s2
    w1 = w1
    w2 = w2
    None = None
    MaxTasks = 2
    Sources = {s1}
    Workers = {w1, w2}
    MaxAttempts = 2
    StopAfter = 1
    Limit = 2
    MaxCrashes = 2
INVARIANTS LeaseInv AttemptBudget OneHolder
PROPERTIES LeaseHonoured EveryWriteCounts ImplementsLedger TasksSettle
CHECK_DEADLOCK FALSE
