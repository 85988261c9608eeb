\* Two overlapping relays; no live worker outlasts the stuck-job threshold.
SPECIFICATION Spec
CONSTANTS
    MaxEvents = 2
    Relays = {r1, r2}
    RelayLimit = 1
    Workers = {w1, w2}
    MaxAttempts = 2
    SlowWorkers = FALSE
CHECK_DEADLOCK FALSE
SYMMETRY Interchangeable
INVARIANT NoEventLost
INVARIANT OneWorkerPerJob
INVARIANT BoundedExecutions
INVARIANT EffectsOnce
PROPERTY SettledForGood
