\* Two requests, crashing workers, one person and one change of a setting.
SPECIFICATION FairSpec
CONSTANTS
    MaxEdits = 1
    MaxRequests = 2
    Workers = {w1, w2}
    People = {p1}
    MaxAttempts = 2
    MaxChanges = 1
    SlowWorkers = FALSE
    Crashes = TRUE
CHECK_DEADLOCK FALSE
 
INVARIANT GateFailsClosed
 
PROPERTY SupersededForGood
PROPERTY EveryRequestSettles
