\* Two people, two accounts, two calls in flight, one bootstrap owner who is also the administrator.
SPECIFICATION Spec
CONSTANTS
    Emails = {e1, e2}
    Accounts = {a1, a2}
    Tenants = {t1, t2}
    Callers = {c1, c2}
    MaxUsers = 3
    MaxSessions = 2
    MaxTokens = 3
    BootstrapAdmins = {e1}
    BootstrapOwner = e1
    BootstrapTenant = t1
CHECK_DEADLOCK FALSE
SYMMETRY Interchangeable
INVARIANT OneUserPerEmail
INVARIANT AdmittedWithinMembership
INVARIANT DutiesApart
INVARIANT PlatformAccessTraced
PROPERTY RevokedForGood
