\* Two requests over two slots, QC retries after the settlement, crashes.
SPECIFICATION Spec
CONSTANTS
    MaxRequests = 2
    Slots = {s1, s2}
    QuotaLimit = 3
    RenderWorkers = {w1, w2}
    QcWorkers = {q1}
    Reviewers = {}
    Alternates = {TRUE, FALSE}
    MaxAttempts = 1
    ReconcileLimit = 1
    SlowWorkers = FALSE
    Crashes = TRUE
CHECK_DEADLOCK FALSE
SYMMETRY Interchangeable
INVARIANT QuotaBalanced
INVARIANT QuotaPaysForDelivered
INVARIANT OneLiveImage
