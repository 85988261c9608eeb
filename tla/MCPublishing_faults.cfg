\* Crashes, slow workers, cancellation and a successor publication.
SPECIFICATION Spec
CONSTANTS
    Pubs = {p1, p2}
    Variants = {v1}
    JobSlots = {s1}
    Workers = {w1, w2}
    Cancellers = {c1}
    MaxAttempts = 2
    RateLimit = 1
    SlowWorkers = TRUE
    Crashes = TRUE
CHECK_DEADLOCK FALSE
SYMMETRY Interchangeable
INVARIANT OnePostPerPublication
INVARIANT PublishedWasPosted
 
