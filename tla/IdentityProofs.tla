--------------------------- MODULE IdentityProofs ---------------------------
(***************************************************************************)
(* Theorems about Identity and the routes of Access, for every value of    *)
(* the constants.                                                          *)
(***************************************************************************)
EXTENDS Identity, TLAPS

\* A membership belongs to a user that exists.
MembersInv == \A t \in Tenants, u \in UserIds :
                 users[u] = None => members[t][u] = NoMembership

\* u holds a membership of t (any u, for no tenant).
Belongs(u, t) == t # None => u \in UserIds /\ members[t][u] # NoMembership

\* A session with a token has a user, and the tenant it selected is one of the
\* user's.
SessionsInv == \A s \in SessionIds :
    /\ sessions[s].current # 0 => sessions[s].user \in UserIds
    /\ Belongs(sessions[s].user, sessions[s].tenant)

\* What an open transaction read still holds: the user it found exists, and the
\* session it found has a user who belongs to the tenant.
CallOK(call) ==
    /\ call.user # Nobody => users[call.user] # None
    /\ call.op = "login" => call.account \in Accounts /\ call.email \in Emails
    /\ call.op \in {"refresh", "select"} =>
          /\ call.session \in SessionIds
          /\ sessions[call.session].user \in UserIds
          /\ Belongs(sessions[call.session].user, call.tenant)

\* A token is worth no more than the membership of its subject, the platform
\* flag is an administrator's, and an impersonation is on record.
TokenOK(token) ==
    /\ Belongs(token.subject, token.tenant)
    /\ token.capabilities \subseteq
          IF token.tenant = None THEN {} ELSE CapabilitiesOf(members[token.tenant][token.subject])
    /\ token.is_platform_admin => token.subject \in admins
    /\ token.impersonated_by # Nobody =>
          /\ token.impersonated_by \in admins
          /\ [actor |-> token.impersonated_by, subject |-> token.subject,
              tenant |-> token.tenant] \in audit
          /\ ~token.is_platform_admin

IdentityInv ==
    /\ TypeOK /\ OneUserPerEmail /\ MembersInv /\ SessionsInv
    /\ \A c \in Callers : CallOK(calls[c])
    /\ \A token \in access : TokenOK(token)

------------------------------------------------------------------------------
(* Operators *)

\* Nobody is no user, and no e-mail or tenant is missing.
LEMMA Distinct ==
    /\ Nobody \notin UserIds /\ 0 \notin SessionIds /\ 0 \notin Tokens
    /\ None \notin Emails /\ None \notin Tenants /\ BootstrapTenant \in Tenants
  BY IdentityAssumptions DEF Nobody, UserIds, SessionIds, Tokens

\* The row an INSERT makes was unused.
LEMMA UnusedFacts ==
    ASSUME NEW row, NEW empty, Unused(row, empty) # 0
    PROVE  Unused(row, empty) \in DOMAIN row /\ row[Unused(row, empty)] = empty
<1> DEFINE free == {i \in DOMAIN row : row[i] = empty}
<1>1. free # {} /\ Unused(row, empty) = CHOOSE i \in free : TRUE
  BY DEF Unused
<1>2. (CHOOSE i \in free : TRUE) \in free
  BY <1>1
<1>3. QED
  BY <1>1, <1>2

\* users.get_by_email finds the user with the e-mail, if there is one.
LEMMA UserOfFacts ==
    ASSUME NEW email \in Emails
    PROVE  /\ UserOf(email) \in UserIds \cup {Nobody}
           /\ UserOf(email) # Nobody => users[UserOf(email)] = email
           /\ UserOf(email) = Nobody => \A u \in UserIds : users[u] # email
<1>1. CASE \E u \in UserIds : users[u] = email
  <2>1. UserOf(email) = CHOOSE u \in UserIds : users[u] = email
    BY <1>1 DEF UserOf
  <2>2. UserOf(email) \in UserIds /\ users[UserOf(email)] = email
    BY <1>1, <2>1
  <2>3. QED
    BY <2>2, Distinct
<1>2. CASE ~\E u \in UserIds : users[u] = email
  BY <1>2 DEF UserOf
<1>3. QED
  BY <1>1, <1>2

\* A membership grants capabilities, and none of them to nobody.
LEMMA CapabilityFacts ==
    ASSUME NEW member \in Memberships
    PROVE  CapabilitiesOf(member) \subseteq Capabilities
<1>1. member.extra \subseteq Capabilities
  BY DEF Memberships
<1>2. ManagerCapabilities \subseteq Capabilities
  BY DEF ManagerCapabilities, Capabilities
<1>3. RoleCapabilities(member.role) \subseteq Capabilities
  BY <1>2 DEF RoleCapabilities, Capabilities
<1>4. QED
  BY <1>1, <1>3 DEF CapabilitiesOf

\* The empty rows are rows.
LEMMA EmptyFacts ==
    /\ NoSession \in SessionRows /\ NoSession.user = Nobody /\ NoSession.current = 0
    /\ NoSession.tenant = None /\ NoSession.ended = FALSE
    /\ NoCall \in Calls /\ NoCall.user = Nobody /\ NoCall.op = None
    /\ NoMembership \in Memberships
    /\ [role |-> "owner", extra |-> {}] \in Memberships
    /\ [role |-> "owner", extra |-> {}] # NoMembership
<1>1. /\ NoSession \in SessionRows /\ NoSession.user = Nobody /\ NoSession.current = 0
      /\ NoSession.tenant = None /\ NoSession.ended = FALSE
  BY DEF NoSession, SessionRows
<1>2. NoCall \in Calls /\ NoCall.user = Nobody /\ NoCall.op = None
  BY DEF NoCall, Calls
<1>3. /\ NoMembership \in Memberships
      /\ [role |-> "owner", extra |-> {}] \in Memberships
  BY DEF NoMembership, Memberships, Roles
<1>4. [role |-> "owner", extra |-> {}] # NoMembership
  BY DEF NoMembership, None
<1>5. QED
  BY <1>1, <1>2, <1>3, <1>4

------------------------------------------------------------------------------
(* The steps *)

\* The initial state satisfies the invariant.
LEMMA IdentityInit == Init => IdentityInv
<1> SUFFICES ASSUME Init PROVE IdentityInv
  OBVIOUS
<1>1. PICK email \in Emails : users = [u \in UserIds |-> IF u = 1 THEN email ELSE None]
  BY DEF Init
<1>2. PICK m \in [role: {"catalog_manager", "approver"}, extra: {{}}] \cup
              [role: {"viewer"}, extra: {{}, {"catalog.approve"}}] :
          members = [t \in Tenants |-> [u \in UserIds |->
                        IF u = 1 /\ t # BootstrapTenant THEN m ELSE NoMembership]]
  BY DEF Init
<1>3. m \in Memberships
  BY DEF Memberships, Roles, Capabilities
<1>4. users \in [UserIds -> Emails \cup {None}] /\ members \in [Tenants -> [UserIds -> Memberships]]
  BY <1>1, <1>2, <1>3, EmptyFacts
<1>5. TypeOK
  BY <1>4, EmptyFacts, IdentityAssumptions DEF Init, TypeOK
<1>6. OneUserPerEmail
  BY <1>1, Distinct DEF OneUserPerEmail, Init
<1>7. MembersInv
  BY <1>1, <1>2, Distinct DEF MembersInv
<1>8. SessionsInv
  BY EmptyFacts DEF Init, SessionsInv, Belongs
<1>9. \A c \in Callers : CallOK(calls[c])
  BY EmptyFacts DEF Init, CallOK, None
<1>10. QED
  BY <1>5, <1>6, <1>7, <1>8, <1>9 DEF IdentityInv, Init

\* What a step may do to the rows others rely on: users, memberships, the user
\* of a session, administrators and audit records are added and never altered.
Grows ==
    /\ \A u \in UserIds : users[u] # None => users'[u] = users[u]
    /\ \A t \in Tenants, u \in UserIds :
          members[t][u] # NoMembership => members'[t][u] = members[t][u]
    /\ \A s \in SessionIds : sessions[s].user \in UserIds => sessions'[s].user = sessions[s].user
    /\ admins \subseteq admins' /\ audit \subseteq audit'

\* Then what belonged together still does, a transaction that did not move can
\* rely on what it read, and the tokens issued keep their standing.
LEMMA GrowthKeeps ==
    ASSUME IdentityInv, Grows
    PROVE  /\ \A u \in UserIds, t \in Tenants \cup {None} : Belongs(u, t) => Belongs(u, t)'
           /\ \A c \in Callers : calls'[c] = calls[c] => CallOK(calls[c])'
           /\ \A token \in access : TokenOK(token)'
<1>1. \A u \in UserIds, t \in Tenants \cup {None} : Belongs(u, t) => Belongs(u, t)'
  BY DEF Belongs, Grows
<1>2. ASSUME NEW c \in Callers, calls'[c] = calls[c]
      PROVE  CallOK(calls[c])'
  <2>1. calls[c] \in Calls /\ CallOK(calls[c])
    BY DEF IdentityInv, TypeOK
  <2>2. /\ calls[c].user \in UserIds \cup {Nobody}
        /\ calls[c].tenant \in Tenants \cup {None}
    BY <2>1 DEF Calls
  <2>3. calls[c].user # Nobody => users'[calls[c].user] # None
    BY <2>1, <2>2 DEF CallOK, Grows
  <2>4. calls[c].op \in {"refresh", "select"} =>
          /\ calls[c].session \in SessionIds
          /\ sessions'[calls[c].session].user \in UserIds
          /\ Belongs(sessions[calls[c].session].user, calls[c].tenant)'
    BY <1>1, <1>2, <2>1, <2>2 DEF CallOK, Grows, Belongs
  <2>5. QED
    BY <1>2, <2>1, <2>3, <2>4 DEF CallOK
<1>3. ASSUME NEW token \in access
      PROVE  TokenOK(token)'
  <2>1. token \in Claims /\ TokenOK(token)
    BY DEF IdentityInv, TypeOK
  <2>2. token.subject \in UserIds /\ token.tenant \in Tenants \cup {None}
    BY <2>1 DEF Claims
  <2>3. Belongs(token.subject, token.tenant)'
    BY <1>1, <2>1, <2>2 DEF TokenOK
  <2>4. token.tenant # None =>
          members'[token.tenant][token.subject] = members[token.tenant][token.subject]
    BY <2>1, <2>2 DEF TokenOK, Belongs, Grows
  <2>5. token.capabilities \subseteq
          IF token.tenant = None THEN {}
          ELSE CapabilitiesOf(members'[token.tenant][token.subject])
    BY <2>1, <2>4 DEF TokenOK
  <2>6. QED
    BY <2>1, <2>3, <2>5 DEF TokenOK, Grows
<1>4. QED
  BY <1>1, <1>2, <1>3

\* A transaction begins or ends without a trace in the tables.
LEMMA CallMoves ==
    ASSUME IdentityInv, NEW c \in Callers, NEW call \in Calls, CallOK(call),
           calls' = [calls EXCEPT ![c] = call],
           UNCHANGED <<users, identities, admins, members, sessions, access, audit, issued,
                       replayed>>
    PROVE  IdentityInv'
<1>1. \A b \in Callers : calls'[b] = IF b = c THEN call ELSE calls[b]
  BY DEF IdentityInv, TypeOK
<1>2. TypeOK'
  BY DEF IdentityInv, TypeOK
<1>3. Grows
  BY DEF Grows
<1>4. CallOK(call)'
  BY DEF CallOK, Belongs
<1>5. \A b \in Callers : CallOK(calls[b])'
  BY <1>1, <1>3, <1>4, GrowthKeeps
<1>6. \A token \in access' : TokenOK(token)'
  BY <1>3, GrowthKeeps
<1>7. OneUserPerEmail' /\ MembersInv' /\ SessionsInv'
  BY DEF IdentityInv, OneUserPerEmail, MembersInv, SessionsInv, Belongs
<1>8. QED
  BY <1>2, <1>5, <1>6, <1>7 DEF IdentityInv

\* Reading for a login, a refresh or a selection, and losing a login to an index.
LEMMA Reads ==
    ASSUME IdentityInv, NEW c \in Callers,
           \/ \E a \in Accounts, e \in Emails : LoginRead(c, a, e)
           \/ \E s \in SessionIds, token \in Tokens : RefreshRead(c, s, token)
           \/ \E s \in SessionIds, token \in Tokens, t \in Tenants : SelectRead(c, s, token, t)
           \/ LoginConflict(c)
    PROVE  IdentityInv'
<1>1. ASSUME NEW a \in Accounts, NEW e \in Emails, LoginRead(c, a, e)
      PROVE  IdentityInv'
  <2> DEFINE known == KnownUser(a, e)
  <2> DEFINE enrol == Enrols(known, e)
  <2> DEFINE call == [NoCall EXCEPT !.op = "login", !.account = a, !.email = e,
                                    !.identity = identities[a], !.user = known,
                                    !.enrol = enrol]
  <2>1. identities[a] \in UserIds \cup {Nobody}
    BY DEF IdentityInv, TypeOK
  <2>2. /\ known \in UserIds \cup {Nobody}
        /\ known # Nobody => users[known] # None
    BY <2>1, UserOfFacts, Distinct DEF KnownUser, IdentityInv, OneUserPerEmail
  <2>3. enrol \in BOOLEAN
    BY Zenon DEF Enrols
  <2>4. /\ calls' = [calls EXCEPT ![c] = call]
        /\ UNCHANGED <<users, identities, admins, members, sessions, access, audit, issued,
                       replayed>>
    BY <1>1 DEF LoginRead
  <2> HIDE DEF known, enrol
  <2>5. /\ call \in Calls /\ call.op = "login" /\ call.account = a /\ call.email = e
        /\ call.user = known
    BY <2>1, <2>2, <2>3 DEF NoCall, Calls
  <2> HIDE DEF call
  <2>6. CallOK(call)
    BY <2>2, <2>5 DEF CallOK
  <2>7. QED
    BY <2>4, <2>5, <2>6, CallMoves
<1>2. ASSUME NEW s \in SessionIds, NEW token \in Tokens, NEW t \in Tenants \cup {None},
             NEW op \in {"refresh", "select"},
             Rotates(s, token), Belongs(sessions[s].user, t),
             calls' = [calls EXCEPT ![c] = [NoCall EXCEPT !.op = op, !.session = s,
                                                          !.token = token, !.tenant = t]],
             UNCHANGED <<users, identities, admins, members, sessions, access, audit, issued,
                         replayed>>
      PROVE  IdentityInv'
  <2> DEFINE call == [NoCall EXCEPT !.op = op, !.session = s, !.token = token, !.tenant = t]
  <2>1. /\ call \in Calls /\ call.op = op /\ call.session = s /\ call.tenant = t
        /\ call.user = Nobody
    BY DEF NoCall, Calls
  <2> HIDE DEF call
  <2>2. sessions[s].user \in UserIds
    BY <1>2, Distinct DEF Rotates, IdentityInv, SessionsInv
  <2>3. CallOK(call)
    BY <1>2, <2>1, <2>2 DEF CallOK
  <2>4. calls' = [calls EXCEPT ![c] = call]
    BY <1>2 DEF call
  <2>5. QED
    BY <1>2, <2>1, <2>3, <2>4, CallMoves
<1>3. ASSUME NEW s \in SessionIds, NEW token \in Tokens, RefreshRead(c, s, token)
      PROVE  IdentityInv'
  <2>1. /\ Belongs(sessions[s].user, sessions[s].tenant)
        /\ sessions[s].tenant \in Tenants \cup {None}
    BY DEF IdentityInv, SessionsInv, TypeOK, SessionRows
  <2>2. QED
    BY <1>2, <1>3, <2>1 DEF RefreshRead
<1>4. ASSUME NEW s \in SessionIds, NEW token \in Tokens, NEW t \in Tenants,
             SelectRead(c, s, token, t)
      PROVE  IdentityInv'
  <2>1. sessions[s].user \in UserIds
    BY <1>4, Distinct DEF SelectRead, Rotates, IdentityInv, SessionsInv
  <2>2. Belongs(sessions[s].user, t)
    BY <1>4, <2>1 DEF SelectRead, MaySelect, Belongs
  <2>3. QED
    BY <1>2, <1>4, <2>2 DEF SelectRead
<1>5. CASE LoginConflict(c)
  <2>1. CallOK(NoCall)
    BY EmptyFacts DEF CallOK, None
  <2>2. QED
    BY <1>5, <2>1, EmptyFacts, CallMoves DEF LoginConflict
<1>6. QED
  BY <1>1, <1>3, <1>4, <1>5

\* Ending a session changes none of the columns others rely on.
LEMMA SessionEnds ==
    ASSUME IdentityInv, NEW s \in SessionIds, Expire(s) \/ \E token \in Tokens : Logout(s, token)
    PROVE  IdentityInv'
<1> DEFINE row == [sessions[s] EXCEPT !.ended = TRUE]
<1>1. /\ sessions' = [sessions EXCEPT ![s] = row]
      /\ UNCHANGED <<users, identities, admins, members, calls, access, audit, issued, replayed>>
  BY DEF Expire, Logout
<1>2. sessions \in [SessionIds -> SessionRows]
  BY DEF IdentityInv, TypeOK
<1>3. /\ row \in SessionRows /\ row.user = sessions[s].user /\ row.tenant = sessions[s].tenant
      /\ row.current = sessions[s].current
  BY <1>2 DEF SessionRows
<1> HIDE DEF row
<1>4. \A x \in SessionIds : /\ sessions'[x].user = sessions[x].user
                            /\ sessions'[x].tenant = sessions[x].tenant
                            /\ sessions'[x].current = sessions[x].current
  BY <1>1, <1>2, <1>3
<1>5. TypeOK'
  BY <1>1, <1>2, <1>3 DEF IdentityInv, TypeOK
<1>6. Grows
  BY <1>1, <1>4 DEF Grows
<1>7. SessionsInv'
  BY <1>1, <1>4 DEF IdentityInv, SessionsInv, Belongs
<1>8. OneUserPerEmail' /\ MembersInv'
  BY <1>1 DEF IdentityInv, OneUserPerEmail, MembersInv
<1>9. QED
  BY <1>1, <1>5, <1>6, <1>7, <1>8, GrowthKeeps DEF IdentityInv

\* A replayed token leaves the tables as they were.
LEMMA ReplayStep ==
    ASSUME IdentityInv, NEW s \in SessionIds, NEW token \in Tokens,
           PresentRotatedToken(s, token)
    PROVE  IdentityInv'
<1>1. /\ replayed' = replayed \cup {s}
      /\ UNCHANGED <<users, identities, admins, members, sessions, calls, access, audit, issued>>
  BY DEF PresentRotatedToken
<1>2. TypeOK'
  BY <1>1 DEF IdentityInv, TypeOK
<1>3. Grows
  BY <1>1 DEF Grows
<1>4. OneUserPerEmail' /\ MembersInv' /\ SessionsInv'
  BY <1>1 DEF IdentityInv, OneUserPerEmail, MembersInv, SessionsInv, Belongs
<1>5. QED
  BY <1>1, <1>2, <1>3, <1>4, GrowthKeeps DEF IdentityInv

\* What a token made from the memberships after a step is worth.
LEMMA NewToken ==
    ASSUME NEW u \in UserIds, NEW t \in Tenants \cup {None}, NEW flag \in BOOLEAN,
           NEW by \in UserIds \cup {Nobody}, NEW token,
           members' \in [Tenants -> [UserIds -> Memberships]], Belongs(u, t)',
           flag => u \in admins',
           by # Nobody => /\ by \in admins' /\ ~flag
                          /\ [actor |-> by, subject |-> u, tenant |-> t] \in audit',
           token = [subject |-> u, tenant |-> t,
                    capabilities |-> IF t = None THEN {} ELSE CapabilitiesOf(members'[t][u]),
                    is_platform_admin |-> flag, impersonated_by |-> by]
    PROVE  token \in Claims /\ TokenOK(token)'
<1> DEFINE caps == IF t = None THEN {} ELSE CapabilitiesOf(members'[t][u])
<1>1. caps \subseteq Capabilities
  <2>1. CASE t = None
    BY <2>1
  <2>2. CASE t # None
    <3>1. members'[t][u] \in Memberships
      BY <2>2
    <3>2. QED
      BY <2>2, <3>1, CapabilityFacts
  <2>3. QED
    BY <2>1, <2>2
<1>2. token = [subject |-> u, tenant |-> t, capabilities |-> caps,
               is_platform_admin |-> flag, impersonated_by |-> by]
  OBVIOUS
<1> HIDE DEF caps
<1>3. /\ token \in Claims /\ token.subject = u /\ token.tenant = t /\ token.capabilities = caps
      /\ token.is_platform_admin = flag /\ token.impersonated_by = by
  BY <1>1, <1>2 DEF Claims
<1>4. token.capabilities \subseteq
        IF token.tenant = None THEN {} ELSE CapabilitiesOf(members'[token.tenant][token.subject])
  BY <1>3 DEF caps
<1>5. QED
  BY <1>3, <1>4 DEF TokenOK

\* The impersonation token follows its audit record.
LEMMA ImpersonationStep ==
    ASSUME IdentityInv, NEW token \in access, NEW u \in UserIds, NEW t \in Tenants,
           StartImpersonation(token, u, t)
    PROVE  IdentityInv'
<1> DEFINE record == [actor |-> token.subject, subject |-> u, tenant |-> t]
<1>1. PICK new : new = ImpersonationClaims(token.subject, u, t)
  OBVIOUS
<1>2. /\ token.is_platform_admin /\ members[t][u] # NoMembership
      /\ audit' = audit \cup {record} /\ access' = access \cup {new}
      /\ UNCHANGED <<users, identities, admins, members, sessions, calls, issued, replayed>>
  BY <1>1 DEF StartImpersonation, AdmittedToPlatform
<1>3. token.subject \in UserIds /\ token.subject \in admins
  BY <1>2 DEF IdentityInv, TypeOK, Claims, TokenOK
<1>4. record \in [actor: UserIds, subject: UserIds, tenant: Tenants]
  BY <1>3
<1>5. new = [subject |-> u, tenant |-> t,
             capabilities |-> IF t = None THEN {} ELSE CapabilitiesOf(members'[t][u]),
             is_platform_admin |-> FALSE, impersonated_by |-> token.subject]
  BY <1>1, <1>2 DEF ImpersonationClaims, ResolvedClaims
<1>6. members' \in [Tenants -> [UserIds -> Memberships]] /\ Belongs(u, t)'
  BY <1>2 DEF IdentityInv, TypeOK, Belongs
<1>7. new \in Claims /\ TokenOK(new)'
  BY <1>2, <1>3, <1>5, <1>6, NewToken
<1> HIDE DEF record
<1>8. TypeOK'
  BY <1>2, <1>4, <1>7 DEF IdentityInv, TypeOK
<1>9. Grows
  BY <1>2 DEF Grows
<1>10. OneUserPerEmail' /\ MembersInv' /\ SessionsInv'
  BY <1>2 DEF IdentityInv, OneUserPerEmail, MembersInv, SessionsInv, Belongs
<1>11. QED
  BY <1>2, <1>7, <1>8, <1>9, <1>10, GrowthKeeps DEF IdentityInv

\* A rotation commits on the session it read, whatever became of it.
LEMMA RotateStep ==
    ASSUME IdentityInv, NEW c \in Callers, RotateCommit(c)
    PROVE  IdentityInv'
<1>1. PICK call, u, token : /\ call = calls[c] /\ u = sessions[call.session].user
                            /\ token = ResolvedClaims(u, call.tenant, u \in admins)
  OBVIOUS
<1> DEFINE x == call.session
<1> DEFINE tenant == IF call.op = "select" THEN call.tenant ELSE sessions[x].tenant
<1>2. PICK row : row = [sessions[x] EXCEPT !.previous = call.token, !.current = issued + 1,
                                           !.tenant = tenant]
  OBVIOUS
<1>3. /\ call.op \in {"refresh", "select"} /\ issued < MaxTokens
      /\ sessions' = [sessions EXCEPT ![x] = row]
      /\ access' = access \cup {token}
      /\ issued' = issued + 1
      /\ calls' = [calls EXCEPT ![c] = NoCall]
      /\ UNCHANGED <<users, identities, admins, members, audit, replayed>>
  BY <1>1, <1>2 DEF RotateCommit, Rotated
<1>4. /\ call \in Calls /\ CallOK(call) /\ sessions \in [SessionIds -> SessionRows]
      /\ issued \in 0..MaxTokens
  BY <1>1 DEF IdentityInv, TypeOK
<1>5. /\ x \in SessionIds /\ u \in UserIds /\ Belongs(u, call.tenant)
      /\ call.tenant \in Tenants \cup {None} /\ call.token \in Tokens \cup {0}
  BY <1>1, <1>3, <1>4 DEF CallOK, Calls
<1>6. tenant \in Tenants \cup {None} /\ Belongs(u, tenant)
  BY <1>1, <1>4, <1>5 DEF IdentityInv, SessionsInv, SessionRows
<1>7. issued + 1 \in Tokens /\ issued + 1 \in 0..MaxTokens
  BY <1>3, <1>4, IdentityAssumptions DEF Tokens
<1>8. /\ row \in SessionRows /\ row.user = u /\ row.current # 0
      /\ row.tenant \in Tenants \cup {None} /\ Belongs(u, row.tenant)
  <2> HIDE DEF tenant
  <2>1. row \in SessionRows /\ row.user = u /\ row.tenant = tenant /\ row.current = issued + 1
    BY <1>1, <1>2, <1>4, <1>5, <1>6, <1>7 DEF SessionRows
  <2>2. QED
    BY <1>6, <1>7, <2>1, Distinct
<1>9. \A s \in SessionIds : sessions'[s] = IF s = x THEN row ELSE sessions[s]
  BY <1>3, <1>4
<1>10. Belongs(u, call.tenant)' /\ Belongs(u, row.tenant)'
  BY <1>3, <1>5, <1>8 DEF Belongs
<1>11. token \in Claims /\ TokenOK(token)'
  <2>1. PICK flag \in BOOLEAN : flag = (u \in admins)
    <3>1. (u \in admins) \in BOOLEAN
      OBVIOUS
    <3>2. QED
      BY <3>1, Zenon
  <2>2. token = [subject |-> u, tenant |-> call.tenant,
                 capabilities |-> IF call.tenant = None THEN {}
                                  ELSE CapabilitiesOf(members'[call.tenant][u]),
                 is_platform_admin |-> flag, impersonated_by |-> Nobody]
    BY <1>1, <1>3, <2>1 DEF ResolvedClaims
  <2>3. members' \in [Tenants -> [UserIds -> Memberships]]
    BY <1>3 DEF IdentityInv, TypeOK
  <2>4. flag => u \in admins'
    BY <1>3, <2>1
  <2>5. QED
    BY <1>5, <1>10, <2>1, <2>2, <2>3, <2>4, NewToken
<1>12. TypeOK'
  <2>1. sessions' \in [SessionIds -> SessionRows]
    BY <1>3, <1>4, <1>8
  <2>2. calls' \in [Callers -> Calls]
    BY <1>3, EmptyFacts DEF IdentityInv, TypeOK
  <2>3. access' \subseteq Claims
    BY <1>3, <1>11 DEF IdentityInv, TypeOK
  <2>4. QED
    BY <1>3, <1>7, <2>1, <2>2, <2>3 DEF IdentityInv, TypeOK
<1>13. Grows
  BY <1>1, <1>3, <1>8, <1>9 DEF Grows
<1>14. SessionsInv'
  <2>1. ASSUME NEW s \in SessionIds
        PROVE  /\ sessions'[s].current # 0 => sessions'[s].user \in UserIds
               /\ Belongs(sessions[s].user, sessions[s].tenant)'
    <3>1. CASE s = x
      BY <1>5, <1>8, <1>9, <1>10, <3>1
    <3>2. CASE s # x
      BY <1>3, <1>9, <3>2 DEF IdentityInv, SessionsInv, Belongs
    <3>3. QED
      BY <3>1, <3>2
  <2>2. QED
    BY <2>1 DEF SessionsInv
<1>15. \A b \in Callers : CallOK(calls[b])'
  <2>1. \A b \in Callers : calls'[b] = IF b = c THEN NoCall ELSE calls[b]
    BY <1>3 DEF IdentityInv, TypeOK
  <2>2. CallOK(NoCall)'
    BY EmptyFacts DEF CallOK, None
  <2>3. QED
    BY <1>13, <2>1, <2>2, GrowthKeeps
<1>16. \A k \in access' : TokenOK(k)'
  BY <1>3, <1>11, <1>13, GrowthKeeps
<1>17. OneUserPerEmail' /\ MembersInv'
  BY <1>3 DEF IdentityInv, OneUserPerEmail, MembersInv
<1>18. QED
  BY <1>12, <1>14, <1>15, <1>16, <1>17 DEF IdentityInv

\* The user a login acts for: the one it found, or a new one whose e-mail no
\* row had when the indexes were checked.
LEMMA LoginUser ==
    ASSUME IdentityInv, NEW call \in Calls, CallOK(call), call.op = "login",
           LoginAdmitted(call), NEW u, u # 0,
           u = IF call.user # Nobody THEN call.user ELSE Unused(users, None),
           users' = IF call.user = Nobody THEN [users EXCEPT ![u] = call.email] ELSE users
    PROVE  /\ u \in UserIds /\ users' \in [UserIds -> Emails \cup {None}]
           /\ users'[u] # None
           /\ \A v \in UserIds \ {u} : users'[v] = users[v]
           /\ users[u] # None => users'[u] = users[u]
           /\ call.enrol => members[BootstrapTenant][u] = NoMembership
           /\ \A v, w \in UserIds : users'[v] = users'[w] /\ users'[v] # None => v = w
<1>1. users \in [UserIds -> Emails \cup {None}]
  BY DEF IdentityInv, TypeOK
<1>2. \A v, w \in UserIds : users[v] = users[w] /\ users[v] # None => v = w
  BY DEF IdentityInv, OneUserPerEmail
<1>3. CASE call.user # Nobody
  <2>1. u = call.user /\ users' = users
    BY <1>3
  <2>2. u \in UserIds /\ users[u] # None
    BY <1>3, <2>1 DEF Calls, CallOK
  <2>3. call.enrol => members[BootstrapTenant][u] = NoMembership
    BY <1>3, <2>1 DEF LoginAdmitted
  <2>4. QED
    BY <1>1, <1>2, <2>1, <2>2, <2>3
<1>4. CASE call.user = Nobody
  <2>1. u \in UserIds /\ users[u] = None
    <3>1. u = Unused(users, None) /\ u # 0
      BY <1>4
    <3>2. u \in DOMAIN users /\ users[u] = None
      BY <3>1, UnusedFacts
    <3>3. QED
      BY <1>1, <3>2
  <2>2. call.email \in Emails /\ call.email # None
    BY Distinct DEF CallOK
  <2>3. \A v \in UserIds : users[v] # call.email
    BY <1>4, <2>2, UserOfFacts DEF LoginAdmitted
  <2>4. users' = [users EXCEPT ![u] = call.email]
    BY <1>4
  <2>5. members[BootstrapTenant][u] = NoMembership
    BY <2>1, Distinct DEF IdentityInv, MembersInv
  <2>6. QED
    BY <1>1, <1>2, <2>1, <2>2, <2>3, <2>4, <2>5
<1>5. QED
  BY <1>3, <1>4

\* A login commits.
LEMMA LoginStep ==
    ASSUME IdentityInv, NEW c \in Callers, LoginCommit(c)
    PROVE  IdentityInv'
<1>1. PICK call, u, s, token :
          /\ call = calls[c]
          /\ u = IF call.user # Nobody THEN call.user ELSE Unused(users, None)
          /\ s = Unused(sessions, NoSession)
          /\ token = ResolvedClaims(u, None, u \in admins')
  OBVIOUS
<1>2. PICK row : row = [NoSession EXCEPT !.user = u, !.current = issued + 1]
  OBVIOUS
<1> DEFINE owner == [role |-> "owner", extra |-> {}]
<1>3. /\ call.op = "login" /\ LoginAdmitted(call)
      /\ u # 0 /\ s # 0 /\ issued < MaxTokens
      /\ users' = IF call.user = Nobody THEN [users EXCEPT ![u] = call.email] ELSE users
      /\ identities' = [identities EXCEPT ![call.account] = u]
      /\ \E new \in SUBSET {u} : admins' = admins \cup new
      /\ members' = IF call.enrol THEN [members EXCEPT ![BootstrapTenant][u] = owner] ELSE members
      /\ sessions' = [sessions EXCEPT ![s] = row]
      /\ access' = access \cup {token}
      /\ issued' = issued + 1
      /\ calls' = [calls EXCEPT ![c] = NoCall]
      /\ UNCHANGED <<audit, replayed>>
  <2>1. \E new \in SUBSET {u} : admins' = admins \cup new
    BY <1>1 DEF LoginCommit
  <2>2. QED
    BY <1>1, <1>2, <2>1 DEF LoginCommit
<1>4. call \in Calls /\ CallOK(call) /\ call.account \in Accounts
  BY <1>1, <1>3 DEF IdentityInv, TypeOK, CallOK
<1>5. /\ u \in UserIds /\ users' \in [UserIds -> Emails \cup {None}]
      /\ users'[u] # None
      /\ \A v \in UserIds \ {u} : users'[v] = users[v]
      /\ users[u] # None => users'[u] = users[u]
      /\ call.enrol => members[BootstrapTenant][u] = NoMembership
      /\ \A v, w \in UserIds : users'[v] = users'[w] /\ users'[v] # None => v = w
  BY <1>1, <1>3, <1>4, LoginUser
<1>6. s \in SessionIds /\ sessions[s] = NoSession
  <2>1. s \in DOMAIN sessions /\ sessions[s] = NoSession
    BY <1>1, <1>3, UnusedFacts
  <2>2. QED
    BY <2>1 DEF IdentityInv, TypeOK
<1>7. issued + 1 \in Tokens /\ issued + 1 \in 0..MaxTokens
  BY <1>3, IdentityAssumptions DEF Tokens, IdentityInv, TypeOK
<1>8. row \in SessionRows /\ row.user = u /\ row.tenant = None
  BY <1>2, <1>5, <1>7 DEF NoSession, SessionRows
<1>9. \A x \in SessionIds : sessions'[x] = IF x = s THEN row ELSE sessions[x]
  BY <1>3, <1>6 DEF IdentityInv, TypeOK
<1>10. admins \subseteq admins' /\ admins' \subseteq UserIds
  BY <1>3, <1>5 DEF IdentityInv, TypeOK
<1>11. /\ members' \in [Tenants -> [UserIds -> Memberships]]
       /\ \A t \in Tenants, v \in UserIds :
             \/ members'[t][v] = members[t][v]
             \/ v = u /\ members[t][v] = NoMembership
  <2>1. members \in [Tenants -> [UserIds -> Memberships]]
    BY DEF IdentityInv, TypeOK
  <2>2. owner \in Memberships
    BY EmptyFacts
  <2> HIDE DEF owner
  <2>3. CASE call.enrol
    <3>1. members' = [members EXCEPT ![BootstrapTenant][u] = owner]
      BY <1>3, <2>3
    <3>2. QED
      BY <1>5, <2>1, <2>2, <2>3, <3>1, Distinct
  <2>4. CASE ~call.enrol
    BY <1>3, <2>1, <2>4
  <2>5. QED
    BY <2>3, <2>4
<1>12. Grows
  <2>1. \A v \in UserIds : users[v] # None => users'[v] = users[v]
    BY <1>5
  <2>2. \A t \in Tenants, v \in UserIds :
           members[t][v] # NoMembership => members'[t][v] = members[t][v]
    BY <1>11
  <2>3. \A x \in SessionIds :
           sessions[x].user \in UserIds => sessions'[x].user = sessions[x].user
    BY <1>6, <1>9, EmptyFacts, Distinct
  <2>4. QED
    BY <1>3, <1>10, <2>1, <2>2, <2>3 DEF Grows
<1>13. token \in Claims /\ TokenOK(token)'
  <2>1. PICK flag \in BOOLEAN : flag = (u \in admins')
    <3>1. (u \in admins') \in BOOLEAN
      OBVIOUS
    <3>2. QED
      BY <3>1, Zenon
  <2>2. PICK t \in Tenants \cup {None} : t = None
    OBVIOUS
  <2>3. token = [subject |-> u, tenant |-> t,
                 capabilities |-> IF t = None THEN {} ELSE CapabilitiesOf(members'[t][u]),
                 is_platform_admin |-> flag, impersonated_by |-> Nobody]
    BY <1>1, <2>1, <2>2 DEF ResolvedClaims
  <2>4. Belongs(u, t)'
    BY <2>2 DEF Belongs
  <2>5. QED
    BY <1>5, <1>11, <2>1, <2>3, <2>4, NewToken
<1>14. TypeOK'
  <2>1. sessions' \in [SessionIds -> SessionRows]
    BY <1>3, <1>8 DEF IdentityInv, TypeOK
  <2>2. calls' \in [Callers -> Calls]
    BY <1>3, EmptyFacts DEF IdentityInv, TypeOK
  <2>3. access' \subseteq Claims
    BY <1>3, <1>13 DEF IdentityInv, TypeOK
  <2>4. identities' \in [Accounts -> UserIds \cup {Nobody}]
    BY <1>3, <1>5 DEF IdentityInv, TypeOK
  <2>5. issued' \in 0..MaxTokens /\ audit' = audit /\ replayed' = replayed
    BY <1>3, <1>7
  <2>6. QED
    BY <1>5, <1>10, <1>11, <2>1, <2>2, <2>3, <2>4, <2>5 DEF IdentityInv, TypeOK
<1>15. OneUserPerEmail'
  <2>1. \A a \in Accounts : identities'[a] # Nobody => users'[identities'[a]] # None
    <3>1. \A a \in Accounts : identities'[a] = IF a = call.account THEN u ELSE identities[a]
      BY <1>3 DEF IdentityInv, TypeOK
    <3>2. \A a \in Accounts : identities[a] # Nobody =>
             identities[a] \in UserIds /\ users[identities[a]] # None
      BY DEF IdentityInv, TypeOK, OneUserPerEmail
    <3>3. QED
      BY <1>5, <3>1, <3>2
  <2>2. QED
    BY <1>5, <2>1 DEF OneUserPerEmail
<1>16. MembersInv'
  BY <1>5, <1>11 DEF IdentityInv, MembersInv
<1>17. SessionsInv'
  <2>1. ASSUME NEW x \in SessionIds
        PROVE  /\ sessions'[x].current # 0 => sessions'[x].user \in UserIds
               /\ Belongs(sessions[x].user, sessions[x].tenant)'
    <3>1. CASE x = s
      BY <1>5, <1>8, <1>9, <3>1 DEF Belongs
    <3>2. CASE x # s
      <4>1. sessions'[x] = sessions[x] /\ sessions[x] \in SessionRows
        BY <1>9, <3>2 DEF IdentityInv, TypeOK
      <4>2. /\ sessions[x].current # 0 => sessions[x].user \in UserIds
            /\ Belongs(sessions[x].user, sessions[x].tenant)
            /\ sessions[x].tenant \in Tenants \cup {None}
        BY <4>1 DEF IdentityInv, SessionsInv, SessionRows
      <4>3. QED
        BY <1>12, <4>1, <4>2 DEF Belongs, Grows
    <3>3. QED
      BY <3>1, <3>2
  <2>2. QED
    BY <2>1 DEF SessionsInv
<1>18. \A b \in Callers : CallOK(calls[b])'
  <2>1. \A b \in Callers : calls'[b] = IF b = c THEN NoCall ELSE calls[b]
    BY <1>3 DEF IdentityInv, TypeOK
  <2>2. CallOK(NoCall)'
    BY EmptyFacts DEF CallOK, None
  <2>3. QED
    BY <1>12, <2>1, <2>2, GrowthKeeps
<1>19. \A k \in access' : TokenOK(k)'
  BY <1>3, <1>12, <1>13, GrowthKeeps
<1>20. QED
  BY <1>14, <1>15, <1>16, <1>17, <1>18, <1>19 DEF IdentityInv

\* Every step preserves the invariant.
LEMMA IdentityStep == IdentityInv /\ [Next]_vars => IdentityInv'
<1> SUFFICES ASSUME IdentityInv, [Next]_vars PROVE IdentityInv'
  OBVIOUS
<1>1. ASSUME NEW c \in Callers, CallerStep(c)
      PROVE  IdentityInv'
  <2>1. \/ \/ \E a \in Accounts, e \in Emails : LoginRead(c, a, e)
           \/ \E s \in SessionIds, token \in Tokens : RefreshRead(c, s, token)
           \/ \E s \in SessionIds, token \in Tokens, t \in Tenants : SelectRead(c, s, token, t)
           \/ LoginConflict(c)
        \/ LoginCommit(c)
        \/ RotateCommit(c)
    BY <1>1 DEF CallerStep
  <2>2. QED
    BY <2>1, Reads, LoginStep, RotateStep
<1>2. ASSUME NEW s \in SessionIds, NEW token \in Tokens,
             PresentRotatedToken(s, token) \/ Logout(s, token)
      PROVE  IdentityInv'
  BY <1>2, ReplayStep, SessionEnds
<1>3. ASSUME NEW s \in SessionIds, Expire(s)
      PROVE  IdentityInv'
  BY <1>3, SessionEnds
<1>4. ASSUME NEW token \in access, NEW u \in UserIds, NEW t \in Tenants,
             StartImpersonation(token, u, t)
      PROVE  IdentityInv'
  BY <1>4, ImpersonationStep
<1>5. CASE UNCHANGED vars
  <2>1. UNCHANGED <<users, identities, admins, members, sessions, calls, access, audit, issued,
                    replayed>>
    BY <1>5 DEF vars
  <2>2. Grows
    BY <2>1 DEF Grows
  <2>3. TypeOK'
    BY <2>1 DEF IdentityInv, TypeOK
  <2>4. OneUserPerEmail' /\ MembersInv' /\ SessionsInv'
    BY <2>1 DEF IdentityInv, OneUserPerEmail, MembersInv, SessionsInv, Belongs
  <2>5. QED
    BY <2>1, <2>2, <2>3, <2>4, GrowthKeeps DEF IdentityInv
<1>6. QED
  BY <1>1, <1>2, <1>3, <1>4, <1>5 DEF Next

\* The invariant of the module holds in every behaviour.
THEOREM IdentityInvariant == Spec => []IdentityInv
  BY IdentityInit, IdentityStep, PTL DEF Spec

\* Every variable keeps its type.
THEOREM TypeCorrect == Spec => []TypeOK
<1>1. IdentityInv => TypeOK
  BY DEF IdentityInv
<1>2. QED
  BY <1>1, IdentityInvariant, PTL

\* However first logins race, an e-mail has one user and every identity points
\* at a user that exists.
THEOREM OneUser == Spec => []OneUserPerEmail
<1>1. IdentityInv => OneUserPerEmail
  BY DEF IdentityInv
<1>2. QED
  BY <1>1, IdentityInvariant, PTL

\* No access token opens an admin route that the membership of its subject does
\* not grant, through logins, rotations in flight and impersonation.
THEOREM TokensWithinMembership == Spec => []AdmittedWithinMembership
<1>1. IdentityInv => AdmittedWithinMembership
  <2> SUFFICES ASSUME IdentityInv, NEW token \in access, NEW route \in AdminRoutes,
                      AdmittedToAdmin(token, route)
               PROVE  LET member == members[token.tenant][token.subject] IN
                      /\ member # NoMembership
                      /\ route.gate # "member" => route.gate \in CapabilitiesOf(member)
    BY DEF AdmittedWithinMembership
  <2>1. TokenOK(token) /\ token.tenant # None
    BY DEF IdentityInv, AdmittedToAdmin
  <2>2. QED
    BY <2>1 DEF TokenOK, Belongs, AdmittedToAdmin
<1>2. QED
  BY <1>1, IdentityInvariant, PTL

\* The platform plane opens to administrators alone; an impersonation leads back
\* to one of them and to its audit record, and cannot be chained.
THEOREM PlatformTraced == Spec => []PlatformAccessTraced
<1>1. IdentityInv => PlatformAccessTraced
  BY DEF IdentityInv, TokenOK, PlatformAccessTraced, AdmittedToPlatform
<1>2. QED
  BY <1>1, IdentityInvariant, PTL

------------------------------------------------------------------------------
(* Duties apart *)

\* A review decision asks for catalog.approve, and a change asks for a
\* capability other than that.
RouteApart(route) ==
    /\ route.effect \in {"read", "change", "approve"}
    /\ route.effect = "approve" => route.gate = "catalog.approve"
    /\ route.effect = "change" => route.gate \notin {"catalog.approve", "member"}

\* The three kinds of routes.
LEMMA RouteFacts ==
    /\ \A gate : RouteApart(Read(gate))
    /\ \A gate : gate \notin {"catalog.approve", "member"} => RouteApart(Change(gate))
    /\ RouteApart(Approve("catalog.approve"))
  BY DEF RouteApart, Read, Change, Approve

\* Every route of the admin plane, table by table.
LEMMA RoutesApart == \A route \in AdminRoutes : RouteApart(route)
<1>1. \A op \in DOMAIN CategoryRoutes : RouteApart(CategoryRoutes[op])
  BY RouteFacts DEF CategoryRoutes
<1>2. \A op \in DOMAIN AttributeRoutes : RouteApart(AttributeRoutes[op])
  BY RouteFacts DEF AttributeRoutes
<1>3. \A op \in DOMAIN AxisRoutes : RouteApart(AxisRoutes[op])
  BY RouteFacts DEF AxisRoutes
<1>4. \A op \in DOMAIN AxisValueRoutes : RouteApart(AxisValueRoutes[op])
  BY RouteFacts DEF AxisValueRoutes
<1>5. \A op \in DOMAIN InputSlotRoutes : RouteApart(InputSlotRoutes[op])
  BY RouteFacts DEF InputSlotRoutes
<1>6. \A op \in DOMAIN CatalogSlotRoutes : RouteApart(CatalogSlotRoutes[op])
  BY RouteFacts DEF CatalogSlotRoutes
<1>7. \A op \in DOMAIN RequirementRoutes : RouteApart(RequirementRoutes[op])
  BY RouteFacts DEF RequirementRoutes
<1>8. \A op \in DOMAIN SettingRoutes : RouteApart(SettingRoutes[op])
  BY RouteFacts DEF SettingRoutes
<1>9. \A op \in DOMAIN AssetRoutes : RouteApart(AssetRoutes[op])
  BY RouteFacts DEF AssetRoutes
<1>10. \A op \in DOMAIN TemplateRoutes : RouteApart(TemplateRoutes[op])
  BY RouteFacts DEF TemplateRoutes
<1>11. \A op \in DOMAIN ProductRoutes : RouteApart(ProductRoutes[op])
  BY RouteFacts DEF ProductRoutes
<1>12. \A op \in DOMAIN InputImageRoutes : RouteApart(InputImageRoutes[op])
  BY RouteFacts DEF InputImageRoutes
<1>13. \A op \in DOMAIN GenerationRoutes : RouteApart(GenerationRoutes[op])
  BY RouteFacts DEF GenerationRoutes
<1>14. \A op \in DOMAIN CatalogImageRoutes : RouteApart(CatalogImageRoutes[op])
  BY RouteFacts DEF CatalogImageRoutes
<1>15. \A op \in DOMAIN ContentRoutes : RouteApart(ContentRoutes[op])
  BY RouteFacts DEF ContentRoutes
<1>16. \A op \in DOMAIN ContentReviewRoutes : RouteApart(ContentReviewRoutes[op])
  BY RouteFacts DEF ContentReviewRoutes
<1>17. \A op \in DOMAIN PublishingRoutes : RouteApart(PublishingRoutes[op])
  BY RouteFacts DEF PublishingRoutes
<1>18. \A op \in DOMAIN DomainRoutes : RouteApart(DomainRoutes[op])
  BY RouteFacts DEF DomainRoutes
<1>19. QED
  BY <1>1, <1>2, <1>3, <1>4, <1>5, <1>6, <1>7, <1>8, <1>9, <1>10,
     <1>11, <1>12, <1>13, <1>14, <1>15, <1>16, <1>17, <1>18 DEF AdminRoutes

\* A catalog manager without extra capabilities takes no review decision, an
\* approver changes nothing and a viewer only reads, whatever token they hold.
THEOREM DutiesStayApart == Spec => []DutiesApart
<1>1. IdentityInv => DutiesApart
  <2> SUFFICES ASSUME IdentityInv, NEW token \in access, NEW route \in AdminRoutes,
                      AdmittedToAdmin(token, route),
                      members[token.tenant][token.subject].extra = {}
               PROVE  CASE members[token.tenant][token.subject].role = "catalog_manager" ->
                              route.effect # "approve"
                        [] members[token.tenant][token.subject].role = "approver" ->
                              route.effect # "change"
                        [] members[token.tenant][token.subject].role = "viewer" ->
                              route.effect = "read"
                        [] OTHER -> TRUE
    BY DEF DutiesApart
  <2> DEFINE role == members[token.tenant][token.subject].role
  <2>1. TokenOK(token) /\ token.tenant # None
    BY DEF IdentityInv, AdmittedToAdmin
  <2>2. token.capabilities \subseteq RoleCapabilities(role)
    BY <2>1 DEF TokenOK, CapabilitiesOf
  <2>3. RouteApart(route) /\ (route.gate = "member" \/ route.gate \in RoleCapabilities(role))
    BY <2>2, RoutesApart DEF AdmittedToAdmin
  <2> HIDE DEF role
  <2>4. role = "catalog_manager" => route.effect # "approve"
    BY <2>3 DEF RouteApart, RoleCapabilities, ManagerCapabilities
  <2>5. role = "approver" => route.effect # "change"
    BY <2>3 DEF RouteApart, RoleCapabilities
  <2>6. role = "viewer" => route.effect = "read"
    BY <2>3 DEF RouteApart, RoleCapabilities
  <2>7. QED
    BY <2>4, <2>5, <2>6 DEF role
<1>2. QED
  BY <1>1, IdentityInvariant, PTL

------------------------------------------------------------------------------
(* Revoked for good *)

\* A session that ended stays ended under a rotation in flight, and once none is
\* its row never changes.
THEOREM RevokedStays == Spec => RevokedForGood
<1> DEFINE Kept == \A s \in SessionIds : sessions[s].ended =>
                      /\ sessions'[s].ended
                      /\ (\A c \in Callers : calls[c].session # s) =>
                            sessions'[s] = sessions[s]
<1>1. IdentityInv /\ [Next]_vars => [Kept]_vars
  <2> SUFFICES ASSUME IdentityInv, Next, NEW s \in SessionIds, sessions[s].ended
               PROVE  /\ sessions'[s].ended
                      /\ (\A c \in Callers : calls[c].session # s) =>
                            sessions'[s] = sessions[s]
    OBVIOUS
  <2>1. sessions \in [SessionIds -> SessionRows]
    BY DEF IdentityInv, TypeOK
  <2>2. CASE sessions' = sessions
    BY <2>2
  <2>3. ASSUME NEW c \in Callers, LoginCommit(c)
        PROVE  sessions'[s] = sessions[s]
    <3>1. PICK x, row : /\ x = Unused(sessions, NoSession) /\ x # 0
                        /\ sessions' = [sessions EXCEPT ![x] = row]
      BY <2>3 DEF LoginCommit
    <3>2. sessions[x] = NoSession
      BY <3>1, UnusedFacts
    <3>3. x # s
      BY <3>2, EmptyFacts
    <3>4. QED
      BY <2>1, <3>1, <3>3
  <2>4. ASSUME NEW c \in Callers, RotateCommit(c)
        PROVE  /\ sessions'[s].ended
               /\ calls[c].session # s => sessions'[s] = sessions[s]
    <3>1. sessions' = [sessions EXCEPT ![calls[c].session] =
                          Rotated(sessions[calls[c].session], calls[c])]
      BY <2>4 DEF RotateCommit
    <3>2. sessions[s] \in SessionRows
      BY <2>1
    <3>3. Rotated(sessions[s], calls[c]).ended = sessions[s].ended
      BY <3>2 DEF Rotated, SessionRows
    <3>4. QED
      BY <2>1, <3>1, <3>3
  <2>5. ASSUME NEW x \in SessionIds, ~sessions[x].ended,
               sessions' = [sessions EXCEPT ![x].ended = TRUE]
        PROVE  sessions'[s] = sessions[s]
    BY <2>1, <2>5
  <2>6. \/ sessions' = sessions
        \/ \E c \in Callers : LoginCommit(c) \/ RotateCommit(c)
        \/ \E x \in SessionIds : /\ ~sessions[x].ended
                                 /\ sessions' = [sessions EXCEPT ![x].ended = TRUE]
    BY DEF Next, CallerStep, LoginRead, RefreshRead, SelectRead, LoginConflict,
           PresentRotatedToken, Logout, Expire, IsActive, StartImpersonation
  <2>7. QED
    BY <2>2, <2>3, <2>4, <2>5, <2>6
<1>2. QED
  BY <1>1, IdentityInvariant, PTL DEF Spec, RevokedForGood
=============================================================================
