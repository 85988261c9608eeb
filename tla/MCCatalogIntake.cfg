\* Two requests in flight, in six scopes.
SPECIFICATION Spec
CONSTANTS
    Callers = {c1, c2}
    Photos = {good, poor, unfit}
    Unfit = {unfit}
    Poor = {poor}
    MaxKeys = 2
    Scopes <- SixScopes
    n1 = n1
    n2 = n2
    Names = {n1, n2}
    Presets <- TwoPresets
CHECK_DEADLOCK FALSE
SYMMETRY Interchangeable
INVARIANT AssetsBacked
INVARIANT ReadyWasEarned
INVARIANT SelectableTemplatesResolve
 
