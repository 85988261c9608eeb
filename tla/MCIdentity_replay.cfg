\* One person, one call in flight.
SPECIFICATION Spec
CONSTANTS
    Emails = {e1}
    Accounts = {a1}
    Tenants = {t1, t2}
    Callers = {c1}
    MaxUsers = 1
    MaxSessions = 1
    MaxTokens = 3
    BootstrapAdmins = {e1}
    BootstrapOwner = e1
    BootstrapTenant = t1
CHECK_DEADLOCK FALSE
INVARIANT ReplayEndsSession
