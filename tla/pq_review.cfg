SPECIFICATION Spec
CONSTANTS
    a1 = a1
    a2 = a2
    w1 = w1
    w2 = w2
    r1 = r1
    r2 = r2
    s1 = s1
    s2 = s2
    None = None
    Archives = {a1}
    MaxJobs = 2
    Workers = {w1}
    Requests = {r1, r2}
    Shas = {s1}
    Kinds = {"trigger", "review"}
    Slow = FALSE
    MaxCrashes = 0
INVARIANT FreshParseUnreviewed
CHECK_DEADLOCK FALSE
