------------------------------ MODULE Identity ------------------------------
(***************************************************************************)
(* Logins, refresh-token sessions, tenant selection, impersonation and the *)
(* access tokens they issue (features/identity, decision D4).              *)
(*                                                                         *)
(* Tokens are numbers in the order of issue; a hash stands for its token.  *)
(* A use case runs in one transaction that reads rows without locks and    *)
(* writes back the columns it changed, so login and the two rotations are  *)
(* a read and a commit; an exception rolls everything back.  Logout and    *)
(* impersonation write nothing another transaction reads in between, and   *)
(* are one step.                                                           *)
(***************************************************************************)
EXTENDS Access, Naturals, FiniteSets

CONSTANTS
    Emails,
    Accounts,           \* (issuer, subject) pairs of the identity provider
    Tenants,
    Callers,            \* requests in flight
    MaxUsers,           \* bound: rows of users
    MaxSessions,        \* bound: rows of sessions
    MaxTokens,          \* bound: refresh tokens ever issued
    BootstrapAdmins,    \* bootstrap_admin_emails
    BootstrapOwner,     \* bootstrap_owner_email
    BootstrapTenant     \* bootstrap_owner_tenant_id

ASSUME IdentityAssumptions ==
    /\ MaxUsers \in Nat \ {0} /\ MaxSessions \in Nat /\ MaxTokens \in Nat
    /\ BootstrapAdmins \subseteq Emails
    /\ BootstrapOwner \in Emails
    /\ BootstrapTenant \in Tenants
    /\ None \notin Emails \cup Tenants

UserIds == 1..MaxUsers
SessionIds == 1..MaxSessions
Tokens == 1..MaxTokens
Nobody == 0

\* tenant_memberships: a role and extra_capabilities, or no row.
Memberships == [role: Roles \cup {None}, extra: SUBSET Capabilities]
NoMembership == [role |-> None, extra |-> {}]

\* AccessTokenClaims.
Claims == [subject: UserIds, tenant: Tenants \cup {None}, capabilities: SUBSET Capabilities,
           is_platform_admin: BOOLEAN, impersonated_by: UserIds \cup {Nobody}]

\* ended: revoked_at is set or expires_at has passed, which no code tells apart.
SessionRows == [user: UserIds \cup {Nobody}, tenant: Tenants \cup {None},
                current: Tokens \cup {0}, previous: Tokens \cup {0},
                ended: BOOLEAN]
NoSession == [user |-> Nobody, tenant |-> None, current |-> 0, previous |-> 0,
              ended |-> FALSE]

VARIABLES
    users,      \* users: the e-mail of each row
    identities, \* identities: the user of each account
    admins,     \* platform_admins
    members,    \* tenant_memberships
    sessions,   \* sessions
    calls,      \* the open transaction of each caller
    access,     \* access tokens issued
    audit,      \* audit_log: impersonation.started
    issued,     \* refresh tokens issued so far
    replayed    \* sessions whose rotated token was presented again (history)

vars == <<users, identities, admins, members, sessions, calls, access, audit, issued, replayed>>

\* op: login (with the rows it found, Nobody where none), refresh, select.
Calls == [op: {None, "login", "refresh", "select"},
          account: Accounts \cup {None}, email: Emails \cup {None},
          identity: UserIds \cup {Nobody}, user: UserIds \cup {Nobody},
          session: SessionIds \cup {0}, token: Tokens \cup {0},
          tenant: Tenants \cup {None}, enrol: BOOLEAN]
NoCall == [op |-> None, account |-> None, email |-> None, identity |-> Nobody, user |-> Nobody,
           session |-> 0, token |-> 0, tenant |-> None, enrol |-> FALSE]

TypeOK ==
    /\ users \in [UserIds -> Emails \cup {None}]
    /\ identities \in [Accounts -> UserIds \cup {Nobody}]
    /\ admins \subseteq UserIds
    /\ members \in [Tenants -> [UserIds -> Memberships]]
    /\ sessions \in [SessionIds -> SessionRows]
    /\ calls \in [Callers -> Calls]
    /\ access \subseteq Claims
    /\ audit \subseteq [actor: UserIds, subject: UserIds, tenant: Tenants]
    /\ issued \in 0..MaxTokens
    /\ replayed \subseteq SessionIds

\* One user exists, with any standing in the tenants (no use case adds members
\* other than the bootstrap owner; they come with the deployment).
Init ==
    /\ \E email \in Emails : users = [u \in UserIds |-> IF u = 1 THEN email ELSE None]
    /\ identities = [a \in Accounts |-> Nobody]
    /\ admins = {}
    /\ \E m \in [role: {"catalog_manager", "approver"}, extra: {{}}] \cup
              [role: {"viewer"}, extra: {{}, {"catalog.approve"}}] :
          members = [t \in Tenants |-> [u \in UserIds |->
                        IF u = 1 /\ t # BootstrapTenant THEN m ELSE NoMembership]]
    /\ sessions = [s \in SessionIds |-> NoSession]
    /\ calls = [c \in Callers |-> NoCall]
    /\ access = {}
    /\ audit = {}
    /\ issued = 0
    /\ replayed = {}

------------------------------------------------------------------------------
(* Rows *)

\* The row an INSERT makes (ids are UUIDs), 0 at the bound.
Unused(row, empty) ==
    LET free == {i \in DOMAIN row : row[i] = empty}
    IN  IF free = {} THEN 0 ELSE CHOOSE i \in free : TRUE

\* users.get_by_email.
UserOf(email) == IF \E u \in UserIds : users[u] = email
                 THEN CHOOSE u \in UserIds : users[u] = email ELSE Nobody

\* Session.is_active.
IsActive(s) == ~sessions[s].ended

CapabilitiesOf(member) == RoleCapabilities(member.role) \cup member.extra

\* PrincipalResolver.resolve, as the claims of the token made from it.
ResolvedClaims(u, t, asAdmin) ==
    [subject |-> u, tenant |-> t,
     capabilities |-> IF t = None THEN {} ELSE CapabilitiesOf(members[t][u]),
     is_platform_admin |-> asAdmin, impersonated_by |-> Nobody]

------------------------------------------------------------------------------
(* CompleteLogin *)

\* The user a login acts for, if there is one: the identity's, else the e-mail's.
KnownUser(account, email) ==
    IF identities[account] # Nobody THEN identities[account] ELSE UserOf(email)

\* The bootstrap owner has no membership of the bootstrap tenant yet.
Enrols(u, email) ==
    IF u = Nobody THEN email = BootstrapOwner
    ELSE users[u] = BootstrapOwner /\ members[BootstrapTenant][u] = NoMembership

\* The provider vouches for an account and an e-mail (a state mismatch or a
\* missing e-mail raises before any row is read); the rows are looked up.
LoginRead(c, account, email) ==
    LET known == KnownUser(account, email) IN
    /\ calls[c] = NoCall
    /\ calls' = [calls EXCEPT ![c] = [NoCall EXCEPT !.op = "login", !.account = account,
                                                    !.email = email,
                                                    !.identity = identities[account],
                                                    !.user = known,
                                                    !.enrol = Enrols(known, email)]]
    /\ UNCHANGED <<users, identities, admins, members, sessions, access, audit, issued, replayed>>

\* Mutant: no unique index on lower(email).
LoginAdmittedAny(call) == call.identity = Nobody => identities[call.account] = Nobody

\* The unique indexes on (provider, issuer, subject), lower(email) and
\* (tenant_id, user_id).
LoginAdmitted(call) ==
    /\ call.identity = Nobody => identities[call.account] = Nobody
    /\ call.user = Nobody => UserOf(call.email) = Nobody
    /\ (call.enrol /\ call.user # Nobody) => members[BootstrapTenant][call.user] = NoMembership

\* The rows are inserted, the bootstrap grants made, the session opened.
LoginCommit(c) ==
    LET call == calls[c]
        u == IF call.user # Nobody THEN call.user ELSE Unused(users, None)
        s == Unused(sessions, NoSession)
        newUsers == IF call.user = Nobody THEN [users EXCEPT ![u] = call.email] ELSE users
    IN  /\ call.op = "login"
        /\ LoginAdmitted(call)
        /\ u # 0 /\ s # 0 /\ issued < MaxTokens
        /\ users' = newUsers
        /\ identities' = [identities EXCEPT ![call.account] = u]
        /\ admins' = admins \cup {v \in {u} : newUsers[v] \in BootstrapAdmins}
        /\ members' = IF call.enrol
                      THEN [members EXCEPT ![BootstrapTenant][u] = [role |-> "owner", extra |-> {}]]
                      ELSE members
        /\ sessions' = [sessions EXCEPT ![s] = [NoSession EXCEPT !.user = u, !.current = issued + 1]]
        /\ access' = access \cup {ResolvedClaims(u, None, u \in admins')}
        /\ issued' = issued + 1
        /\ calls' = [calls EXCEPT ![c] = NoCall]
        /\ UNCHANGED <<audit, replayed>>

\* An index refuses the rows: IntegrityError, nothing is written.
LoginConflict(c) ==
    /\ calls[c].op = "login"
    /\ ~LoginAdmitted(calls[c])
    /\ calls' = [calls EXCEPT ![c] = NoCall]
    /\ UNCHANGED <<users, identities, admins, members, sessions, access, audit, issued, replayed>>

------------------------------------------------------------------------------
(* RefreshSession, SelectTenant, Logout *)

\* get_by_refresh_token_hash finds an active session.
Rotates(s, token) == sessions[s].current = token /\ IsActive(s)

RefreshRead(c, s, token) ==
    /\ calls[c] = NoCall
    /\ Rotates(s, token)
    /\ calls' = [calls EXCEPT ![c] = [NoCall EXCEPT !.op = "refresh", !.session = s,
                                                    !.token = token,
                                                    !.tenant = sessions[s].tenant]]
    /\ UNCHANGED <<users, identities, admins, members, sessions, access, audit, issued, replayed>>

\* Mutant: any tenant may be selected.
MaySelectAny(u, t) == TRUE

\* SelectTenant asks for a membership row.
MaySelect(u, t) == members[t][u] # NoMembership

SelectRead(c, s, token, t) ==
    /\ calls[c] = NoCall
    /\ Rotates(s, token)
    /\ MaySelect(sessions[s].user, t)
    /\ calls' = [calls EXCEPT ![c] = [NoCall EXCEPT !.op = "select", !.session = s,
                                                    !.token = token, !.tenant = t]]
    /\ UNCHANGED <<users, identities, admins, members, sessions, access, audit, issued, replayed>>

\* Mutant: the whole row is written back as it was read.
RotatedWholeRow(row, call) ==
    [row EXCEPT !.previous = call.token, !.current = issued + 1, !.tenant = call.tenant,
                !.ended = FALSE]

\* The columns a rotation changes; only SelectTenant writes the tenant.
Rotated(row, call) ==
    [row EXCEPT !.previous = call.token, !.current = issued + 1,
                !.tenant = IF call.op = "select" THEN call.tenant ELSE @]

\* Both rotations commit; the access token is made after the transaction.
RotateCommit(c) ==
    LET call == calls[c]
        u == sessions[call.session].user
    IN  /\ call.op \in {"refresh", "select"}
        /\ issued < MaxTokens
        /\ sessions' = [sessions EXCEPT ![call.session] = Rotated(@, call)]
        /\ access' = access \cup {ResolvedClaims(u, call.tenant, u \in admins)}
        /\ issued' = issued + 1
        /\ calls' = [calls EXCEPT ![c] = NoCall]
        /\ UNCHANGED <<users, identities, admins, members, audit, replayed>>

\* Either rotation is handed a token that was rotated away: the sessions of the
\* user are revoked, AuthenticationError leaves the transaction and __aexit__
\* rolls the revocation back.
PresentRotatedToken(s, token) ==
    /\ token \in 1..issued
    /\ \A other \in SessionIds : sessions[other].current # token
    /\ sessions[s].previous = token
    /\ replayed' = replayed \cup {s}
    /\ UNCHANGED <<users, identities, admins, members, sessions, calls, access, audit, issued>>

\* Logout; an unknown or revoked token is no error and changes nothing.
Logout(s, token) ==
    /\ token \in 1..issued
    /\ sessions[s].current = token /\ IsActive(s)
    /\ sessions' = [sessions EXCEPT ![s].ended = TRUE]
    /\ UNCHANGED <<users, identities, admins, members, calls, access, audit, issued, replayed>>

\* REFRESH_TOKEN_TTL passes.
Expire(s) ==
    /\ sessions[s].user # Nobody /\ IsActive(s)
    /\ sessions' = [sessions EXCEPT ![s].ended = TRUE]
    /\ UNCHANGED <<users, identities, admins, members, calls, access, audit, issued, replayed>>

------------------------------------------------------------------------------
(* Impersonation *)

\* Mutant: the administrator's own flag is carried over.
ImpersonationClaimsFlagged(admin, u, t) ==
    [ResolvedClaims(u, t, TRUE) EXCEPT !.impersonated_by = admin]

ImpersonationClaims(admin, u, t) ==
    [ResolvedClaims(u, t, FALSE) EXCEPT !.impersonated_by = admin]

\* The platform route admits the caller's token; the target is a member; the
\* audit record is committed before the token exists.
StartImpersonation(token, u, t) ==
    /\ AdmittedToPlatform(token)
    /\ members[t][u] # NoMembership
    /\ audit' = audit \cup {[actor |-> token.subject, subject |-> u, tenant |-> t]}
    /\ access' = access \cup {ImpersonationClaims(token.subject, u, t)}
    /\ UNCHANGED <<users, identities, admins, members, sessions, calls, issued, replayed>>

CallerStep(c) ==
    \/ \E a \in Accounts, e \in Emails : LoginRead(c, a, e)
    \/ \E s \in SessionIds, token \in Tokens :
          RefreshRead(c, s, token) \/ \E t \in Tenants : SelectRead(c, s, token, t)
    \/ LoginCommit(c) \/ LoginConflict(c) \/ RotateCommit(c)

Next ==
    \/ \E c \in Callers : CallerStep(c)
    \/ \E s \in SessionIds, token \in Tokens : PresentRotatedToken(s, token) \/ Logout(s, token)
    \/ \E s \in SessionIds : Expire(s)
    \/ \E token \in access, u \in UserIds, t \in Tenants : StartImpersonation(token, u, t)

Spec == Init /\ [][Next]_vars

------------------------------------------------------------------------------
(* Properties *)

\* First logins that race, through several accounts of one person, end in one
\* user: no two rows share an e-mail, and every identity points at a row.
OneUserPerEmail ==
    /\ \A u, v \in UserIds : users[u] = users[v] /\ users[u] # None => u = v
    /\ \A a \in Accounts : identities[a] # Nobody => users[identities[a]] # None

\* Whatever an access token opens on the admin plane, the membership it was made
\* from grants: a token is never worth more than the standing of its subject,
\* through logins, rotations in flight, tenant changes and impersonation.
AdmittedWithinMembership ==
    \A token \in access, route \in AdminRoutes :
        AdmittedToAdmin(token, route) =>
            LET member == members[token.tenant][token.subject] IN
            /\ member # NoMembership
            /\ route.gate # "member" => route.gate \in CapabilitiesOf(member)

\* Review is a duty apart: a catalog manager takes no review decision, an
\* approver changes nothing, and a viewer without extra capabilities only reads.
DutiesApart ==
    \A token \in access, route \in AdminRoutes :
        (AdmittedToAdmin(token, route) /\ members[token.tenant][token.subject].extra = {}) =>
            CASE members[token.tenant][token.subject].role = "catalog_manager" -> route.effect # "approve"
              [] members[token.tenant][token.subject].role = "approver" -> route.effect # "change"
              [] members[token.tenant][token.subject].role = "viewer" -> route.effect = "read"
              [] OTHER -> TRUE

\* The platform plane opens to platform administrators alone, and every
\* impersonation leads back to one of them and to an audit record, and opens
\* nothing on that plane, so it cannot be chained.
PlatformAccessTraced ==
    \A token \in access :
        /\ AdmittedToPlatform(token) => token.subject \in admins
        /\ token.impersonated_by # Nobody =>
              /\ token.impersonated_by \in admins
              /\ [actor |-> token.impersonated_by, subject |-> token.subject,
                  tenant |-> token.tenant] \in audit
              /\ ~AdmittedToPlatform(token)

\* A session that was revoked stays so, also under a rotation that was in flight
\* when it was revoked; and once none is, its row never changes.
RevokedForGood ==
    [][\A s \in SessionIds : sessions[s].ended =>
          /\ sessions'[s].ended
          /\ (\A c \in Callers : calls[c].session # s) =>
                sessions'[s] = sessions[s]]_vars

\* What refresh_session.py says of a replayed token: the entire session is
\* revoked, not just this one call rejected.
ReplayEndsSession == \A s \in replayed : sessions[s].ended
=============================================================================
