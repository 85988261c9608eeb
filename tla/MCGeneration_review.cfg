\* One request for one slot; slow and crashing workers of both kinds, a reviewer.
SPECIFICATION Spec
CONSTANTS
    MaxRequests = 1
    Slots = {s1}
    QuotaLimit = 1
    RenderWorkers = {w1, w2}
    QcWorkers = {q1, q2}
    Reviewers = {c1}
    Alternates = {FALSE}
    MaxAttempts = 2
    ReconcileLimit = 1
    SlowWorkers = TRUE
    Crashes = TRUE
CHECK_DEADLOCK FALSE
SYMMETRY Interchangeable
INVARIANT ApprovedPassedQc
 
