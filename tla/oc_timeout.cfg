SPECIFICATION FairSpec
CONSTANTS
    Sections = 1
    Retries = 2
    Max404 = 2
    PollMax = 2
    SweepAfter = 6
    Outages = TRUE
PROPERTY PollGivesUp
CHECK_DEADLOCK FALSE
