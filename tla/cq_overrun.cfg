SPECIFICATION Spec
CONSTANTS
    s1 = s1
    s2 = s2
    w1 = w1
    w2 = w2
    None = None
    MaxTasks = 1
    Sources = {s1, s2}
    Workers = {w1, w2}
    MaxAttempts = 2
    StopAfter = 2
    Limit = 2
    MaxCrashes = 0
PROPERTY LeaseRespected
CHECK_DEADLOCK FALSE
