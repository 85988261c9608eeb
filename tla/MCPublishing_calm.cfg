\* Slow workers, but none dies and nobody cancels; a limit that is never reached.
SPECIFICATION FairSpec
CONSTANTS
    Pubs = {p1, p2}
    Variants = {v1}
    JobSlots = {s1}
    Workers = {w1, w2}
    Cancellers = {}
    MaxAttempts = 2
    RateLimit = 4
    SlowWorkers = TRUE
    Crashes = FALSE
CHECK_DEADLOCK FALSE
INVARIANT RetryIsComing
INVARIANT SingleFlightCalls
PROPERTY TerminalIsFinal
PROPERTY EveryPublicationSettles
PROPERTY ImplementsPostOnce
