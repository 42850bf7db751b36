SPECIFICATION ReachableSpec
CONSTANTS
    Sections = 3
    Retries = 2
    Max404 = 2
    PollMax = 2
    SweepAfter = 6
    Outages = TRUE
INVARIANTS TypeOK MergeAligned NoDuplicateTask OneTaskPerSection
PROPERTIES Returns ImplementsSectionList EveryAnswerCounts
CHECK_DEADLOCK FALSE
