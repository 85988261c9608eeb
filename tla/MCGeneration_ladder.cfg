\* Prompt workers that do not die, one reviewer, fair scheduling.
SPECIFICATION FairSpec
CONSTANTS
    MaxRequests = 1
    Slots = {s1, s2}
    QuotaLimit = 2
    RenderWorkers = {w1}
    QcWorkers = {q1}
    Reviewers = {c1}
    Alternates = {FALSE}
    MaxAttempts = 2
    ReconcileLimit = 1
    SlowWorkers = FALSE
    Crashes = FALSE
CHECK_DEADLOCK FALSE
INVARIANT RetryFollowsFailure
 
 
