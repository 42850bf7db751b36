SPECIFICATION Spec
CONSTANTS
    Sections = 1
    Retries = 2
    Max404 = 2
    PollMax = 2
    SweepAfter = 6
    Outages = FALSE
INVARIANT SweeperComesLast
CHECK_DEADLOCK FALSE
