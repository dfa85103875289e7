------------------------------- MODULE Sessions -------------------------------
(***************************************************************************)
(* The sessions of the service and the tokens they hand out: login, the    *)
(* MFA challenge, tenant selection, onboarding, refresh, logout, the three *)
(* ways of revoking, and the check a request's access token goes through.  *)
(*                                                                         *)
(* Every route opens one database transaction, reads the rows it needs,    *)
(* and commits the columns it changed; nothing locks or versions a row, so *)
(* two requests interleave between their reads and their commits.  The     *)
(* blacklist lives in the cache: it is written at once, before the commit  *)
(* and whether or not the commit happens.  A request is therefore a Begin  *)
(* action (its reads and its checks), cache writes, and a commit; Abort is *)
(* everything that ends it early.                                          *)
(*                                                                         *)
(* A session id, a refresh token and a jti are random in the code: here    *)
(* they are numbers drawn from one counter, never drawn twice.             *)
(***************************************************************************)
EXTENDS Naturals, FiniteSets

CONSTANTS
  Users, Tenants, Devices,
  NoUser,                \* the user of a free request slot
  Procs,                 \* the requests that may be in flight together
  NoTenant, NoDevice,    \* the absent values of the optional columns
  AccessTTL,             \* access_expire_minutes * 60
  Grace,                 \* the 30 seconds added to the blacklist's TTL
  RefreshTTL,            \* refresh_expire_days
  ChallengeTTL,          \* five minutes
  Existing,              \* the tenants of the initial state
  Joined,                \* its memberships, pairs <<user, tenant>>
  Invited,               \* its outstanding invitations, pairs likewise
  Ops,                   \* the operations an instance of the model issues
  MaxId, MaxTime         \* bounds: identifiers drawn, clock ticks

ASSUME NullAssumption ==
  NoUser \notin Users /\ NoTenant \notin Tenants /\ NoDevice \notin Devices
ASSUME TimeAssumption ==
  /\ AccessTTL \in Nat /\ RefreshTTL \in Nat /\ ChallengeTTL \in Nat
  /\ Grace \in Nat \ {0}
ASSUME InitialAssumption ==
  /\ Existing \subseteq Tenants
  /\ Joined \subseteq Users \X Existing /\ Invited \subseteq Users \X Existing
ASSUME BoundAssumption == MaxId \in Nat /\ MaxTime \in Nat

VARIABLES
  now,          \* the clock
  fresh,        \* the next identifier
  users,        \* accounts that exist
  active,       \* those whose is_active is set
  mfa,          \* those whose mfa_enabled is set
  enrolled,     \* those who hold an mfa_secret
  tenants,      \* organisations that exist
  members,      \* memberships, pairs <<user, tenant>>
  suspended,    \* memberships whose user_tenant_status is false
  invites,      \* invitations still open, pairs <<user, tenant>>
  rows,         \* table xauth_sessions: id -> Row
  access,       \* access tokens handed out: jti -> what the JWT says
  bl,           \* cache entry of a jti: when it expires, 0 if never written
  challenges,   \* MFA challenge tokens handed out
  req,          \* the requests in flight
  granted,      \* history: memberships that have existed
  closedRows,   \* history: sessions closed by a logout or a revocation
  closedJtis,   \* history: the jtis those requests had read
  quiet         \* history: users deactivated while nothing of theirs ran

account == <<users, active, mfa, enrolled>>
tenancy == <<tenants, members, suspended, invites, granted>>
tokens  == <<access, bl, challenges>>
history == <<closedRows, closedJtis, quiet>>

vars == <<now, fresh, account, tenancy, rows, tokens, req, history>>

-------------------------------------------------------------------------------
Ids == 1 .. MaxId

Operations == {"login", "verifyMfa", "refresh", "selectTenant", "setupCreate",
               "setupJoin", "logout", "revokeSession", "revokeAll",
               "deactivate", "changePassword", "enableMfa", "disableMfa"}

\* `parent` is history: the refresh token the session was rotated from, or 0.
Row == [user : Users, tenant : Tenants \cup {NoTenant},
        device : Devices \cup {NoDevice}, token : Ids, jti : Ids \cup {0},
        exp : Nat, revoked : BOOLEAN, parent : Ids \cup {0}]

\* A request in flight.  `kind` says what its commit will do.
Req == [kind : {"idle", "issue", "setup", "listed", "close", "mfa"},
        op : Operations \cup {"none"},
        user : Users \cup {NoUser},
        tenant : Tenants \cup {NoTenant},
        device : Devices \cup {NoDevice},
        bearer : BOOLEAN,        \* issue: does the new session get a jti
        parent : Ids \cup {0},   \* issue: the refresh token presented
        sid : Ids \cup {0},      \* setup: the session changed in place
        revoke : SUBSET Ids,     \* the sessions its commit revokes
        jtis : SUBSET Ids,       \* the jtis it read, to be blacklisted
        todo : SUBSET Ids,       \* those not yet written to the cache
        mark : Nat]              \* fresh when `revoke` was read

NewReq(kind, op, u) ==
  [kind |-> kind, op |-> op, user |-> u, tenant |-> NoTenant,
   device |-> NoDevice, bearer |-> TRUE, parent |-> 0, sid |-> 0,
   revoke |-> {}, jtis |-> {}, todo |-> {}, mark |-> 0]

IdleReq == NewReq("idle", "none", NoUser)

Start(p, r) == /\ req[p].kind = "idle" /\ r.op \in Ops
               /\ req' = [req EXCEPT ![p] = r]
Finish(p) == req' = [req EXCEPT ![p] = IdleReq]

-------------------------------------------------------------------------------
Live(i) == i \in DOMAIN rows /\ ~rows[i].revoked

\* SessionRepository.get_by_refresh_token: the session of a token, if not revoked
GetByRefreshToken(tok) == {i \in DOMAIN rows : Live(i) /\ rows[i].token = tok}

ActiveSessions(u) == {i \in DOMAIN rows : Live(i) /\ rows[i].user = u}

\* revoke_active_for_device: the sessions it finds; none without a fingerprint
DeviceSessions(u, d) ==
  IF d = NoDevice THEN {} ELSE {i \in ActiveSessions(u) : rows[i].device = d}

Jtis(S) == {rows[i].jti : i \in S} \ {0}

\* XAuthBackend.decode_token: signature and expiry, blacklist, account exists
Accepts(j) ==
  /\ j \in DOMAIN access
  /\ now <= access[j].exp
  /\ ~(now < bl[j])
  /\ access[j].user \in users

\* xauth.verify_token over IPC: signature and expiry only
IpcVerifies(j) == j \in DOMAIN access /\ now <= access[j].exp

Authenticated(u) == \E j \in DOMAIN access : access[j].user = u /\ Accepts(j)

\* The operators named Slip... are never used here: each is a mistake the code
\* could make in the definition that follows it, and that a property must catch.

\* the membership of the tenant asked for is not looked up
SlipMayEnter(u, t) == u \in users

MayEnter(u, t) == <<u, t>> \in members

\* a password is enough
SlipMayLogIn(u) == u \in users

MayLogIn(u) == u \in active

TenantsOf(u) == {t \in Tenants : <<u, t>> \in members}

-------------------------------------------------------------------------------
(* Login.  A refused attempt only writes an audit row and rolls back.      *)

\* The tenant a login settles on: the one it names, whose membership must be
\* active, or, naming none, the only one the user has, active or not.
Resolves(u, t) == \/ <<u, t>> \in members \ suspended
                  \/ TenantsOf(u) = {t}

Issue(op, u, t, d, S) ==
  [NewReq("issue", op, u) EXCEPT !.tenant = t, !.device = d, !.revoke = S]

BeginLogin(p, u, d) ==
  /\ MayLogIn(u)
  /\ \/ \* no membership: a session without tenant, to create or join one
        /\ TenantsOf(u) = {}
        /\ Start(p, Issue("login", u, NoTenant, d, DeviceSessions(u, d)))
     \/ \* several: a session without access token, to select one
        /\ Cardinality(TenantsOf(u)) > 1
        /\ Start(p, [Issue("login", u, NoTenant, d, {}) EXCEPT !.bearer = FALSE])
     \/ \E t \in Tenants :
          /\ Resolves(u, t) /\ u \notin mfa
          /\ Start(p, Issue("login", u, t, d, DeviceSessions(u, d)))
  /\ UNCHANGED <<now, fresh, account, tenancy, rows, tokens, history>>

\* A challenge token is signed and stored nowhere; it is not used up.
Challenge(u, t) ==
  /\ challenges' = challenges \cup
                     {[user |-> u, tenant |-> t, exp |-> now + ChallengeTTL]}
  /\ UNCHANGED <<now, fresh, account, tenancy, rows, access, bl, req, history>>

LoginChallenge(u, t) ==
  /\ "login" \in Ops
  /\ MayLogIn(u) /\ u \in mfa /\ Resolves(u, t)
  /\ Challenge(u, t)

\* The code given is right; is_active is not looked at again.
BeginVerifyMfa(p, c, d) ==
  /\ now <= c.exp /\ c.user \in enrolled
  /\ Start(p, Issue("verifyMfa", c.user, c.tenant, d, DeviceSessions(c.user, d)))
  /\ UNCHANGED <<now, fresh, account, tenancy, rows, tokens, history>>

-------------------------------------------------------------------------------
(* The requests that present a refresh token.                              *)

Unexpired(i) == now <= rows[i].exp

Rotate(op, i, t) ==
  [Issue(op, rows[i].user, t, rows[i].device, {i}) EXCEPT
     !.parent = rows[i].token]

BeginRefresh(p, tok) ==
  /\ \E i \in GetByRefreshToken(tok) :
       Unexpired(i) /\ Start(p, Rotate("refresh", i, rows[i].tenant))
  /\ UNCHANGED <<now, fresh, account, tenancy, rows, tokens, history>>

BeginSelectTenant(p, tok, t) ==
  /\ \E i \in GetByRefreshToken(tok) :
       /\ Unexpired(i)
       /\ MayEnter(rows[i].user, t)
       /\ rows[i].user \notin mfa
       /\ Start(p, Rotate("selectTenant", i, t))
  /\ UNCHANGED <<now, fresh, account, tenancy, rows, tokens, history>>

SelectTenantChallenge(tok, t) ==
  /\ "selectTenant" \in Ops
  /\ \E i \in GetByRefreshToken(tok) :
       /\ Unexpired(i)
       /\ MayEnter(rows[i].user, t)
       /\ rows[i].user \in mfa
       /\ Challenge(rows[i].user, t)

\* resolve_pending_session, then the checks of setup_create_tenant
BeginSetupCreate(p, tok, t) ==
  /\ t \notin tenants
  /\ \E i \in GetByRefreshToken(tok) :
       /\ Unexpired(i)
       /\ Start(p, [NewReq("setup", "setupCreate", rows[i].user) EXCEPT
                      !.tenant = t, !.sid = i])
  /\ UNCHANGED <<now, fresh, account, tenancy, rows, tokens, history>>

BeginSetupJoin(p, tok, t) ==
  /\ \E i \in GetByRefreshToken(tok) :
       /\ Unexpired(i)
       /\ <<rows[i].user, t>> \in invites \ members
       /\ Start(p, [NewReq("setup", "setupJoin", rows[i].user) EXCEPT
                      !.tenant = t, !.sid = i])
  /\ UNCHANGED <<now, fresh, account, tenancy, rows, tokens, history>>

\* Enabling and disabling the second factor: the code is checked against the
\* secret read, the columns are written at the commit.
BeginMfa(p, op, u) ==
  /\ Authenticated(u) /\ u \in enrolled
  /\ Start(p, NewReq("mfa", op, u))
  /\ UNCHANGED <<now, fresh, account, tenancy, rows, tokens, history>>

-------------------------------------------------------------------------------
(* Commits.  The row of the user is a foreign key: a commit for an account *)
(* deleted meanwhile fails.                                                *)

Revoked(S) == [i \in DOMAIN rows |->
                 IF i \in S THEN [rows[i] EXCEPT !.revoked = TRUE] ELSE rows[i]]

MintAccess(u, t) ==
  access' = [j \in DOMAIN access \cup {fresh} |->
               IF j = fresh
               THEN [user |-> u, tenant |-> t, exp |-> now + AccessTTL]
               ELSE access[j]]

\* the session is renewed under the refresh token presented
SlipNewToken(r) == IF r.parent = 0 THEN fresh ELSE r.parent

NewToken(r) == fresh

CommitIssue(p) ==
  LET r == req[p]
      row == [user |-> r.user, tenant |-> r.tenant, device |-> r.device,
              token |-> NewToken(r), jti |-> IF r.bearer THEN fresh ELSE 0,
              exp |-> now + RefreshTTL, revoked |-> FALSE, parent |-> r.parent]
  IN /\ r.kind = "issue" /\ r.user \in users /\ fresh <= MaxId
     /\ rows' = [i \in DOMAIN rows \cup {fresh} |->
                   IF i = fresh THEN row ELSE Revoked(r.revoke)[i]]
     /\ IF r.bearer THEN MintAccess(r.user, r.tenant) ELSE UNCHANGED access
     /\ fresh' = fresh + 1
     /\ Finish(p)
     /\ UNCHANGED <<now, account, tenancy, bl, challenges, history>>

\* the whole row is written back as it was read, active
SlipOverwrite(row, t) ==
  [row EXCEPT !.tenant = t, !.token = fresh, !.jti = fresh, !.revoked = FALSE]

Overwrite(row, t) == [row EXCEPT !.tenant = t, !.token = fresh, !.jti = fresh]

\* The session keeps its id: its tenant, token and jti are overwritten.
CommitSetup(p) ==
  LET r == req[p]
      ut == <<r.user, r.tenant>>
  IN /\ r.kind = "setup" /\ r.user \in users /\ fresh <= MaxId
     /\ ut \notin members                     \* uq_tenant_member
     /\ \/ /\ r.op = "setupCreate"
           /\ r.tenant \notin tenants         \* the slug is unique
           /\ tenants' = tenants \cup {r.tenant}
           /\ UNCHANGED invites
        \/ /\ r.op = "setupJoin"
           /\ invites' = invites \ {ut}
           /\ UNCHANGED tenants
     /\ members' = members \cup {ut}
     /\ granted' = granted \cup {ut}
     /\ rows' = [rows EXCEPT ![r.sid] = Overwrite(@, r.tenant)]
     /\ MintAccess(r.user, r.tenant)
     /\ fresh' = fresh + 1
     /\ Finish(p)
     /\ UNCHANGED <<now, account, suspended, bl, challenges, history>>

-------------------------------------------------------------------------------
(* Closing sessions.                                                       *)

\* The jtis of the sessions read, to be blacklisted one cache write at a time.
Closing(kind, op, u, S) ==
  [NewReq(kind, op, u) EXCEPT !.revoke = S, !.jtis = Jtis(S), !.todo = Jtis(S)]

BeginLogout(p, tok) ==
  /\ \E i \in GetByRefreshToken(tok) :
       Start(p, Closing("close", "logout", rows[i].user, {i}))
  /\ UNCHANGED <<now, fresh, account, tenancy, rows, tokens, history>>

BeginRevokeSession(p, u, i) ==
  /\ Authenticated(u) /\ i \in ActiveSessions(u)
  /\ Start(p, Closing("close", "revokeSession", u, {i}))
  /\ UNCHANGED <<now, fresh, account, tenancy, rows, tokens, history>>

BeginRevokeAll(p, u) ==
  /\ Authenticated(u)
  /\ Start(p, Closing("listed", "revokeAll", u, ActiveSessions(u)))
  /\ UNCHANGED <<now, fresh, account, tenancy, rows, tokens, history>>

BeginDeactivate(p, u) ==
  /\ u \in active
  /\ Start(p, Closing("listed", "deactivate", u, ActiveSessions(u)))
  /\ UNCHANGED <<now, fresh, account, tenancy, rows, tokens, history>>

\* The new password is committed; the sessions follow in a second transaction,
\* which blacklists nothing.
BeginChangePassword(p, u) ==
  /\ Authenticated(u)
  /\ Start(p, NewReq("listed", "changePassword", u))
  /\ UNCHANGED <<now, fresh, account, tenancy, rows, tokens, history>>

\* the margin is forgotten
SlipBlacklistTTL == AccessTTL
\* the margin alone
SlipBlacklistMargin == Grace

BlacklistTTL == AccessTTL + Grace

BlacklistOne(p, j) ==
  /\ j \in req[p].todo
  /\ bl' = [bl EXCEPT ![j] = now + BlacklistTTL]
  /\ req' = [req EXCEPT ![p].todo = @ \ {j}]
  /\ UNCHANGED <<now, fresh, account, tenancy, rows, access, challenges, history>>

\* revoke_all_for_user lists the active sessions again.
Relist(p) ==
  /\ req[p].kind = "listed" /\ req[p].todo = {}
  /\ req' = [req EXCEPT ![p].kind = "close", ![p].mark = fresh,
                        ![p].revoke = ActiveSessions(req[p].user)]
  /\ UNCHANGED <<now, fresh, account, tenancy, rows, tokens, history>>

\* History: nothing of u is under way that could open a session, and none was
\* opened since request p listed them.
NothingUnderWay(p, u) ==
  /\ \A q \in Procs : req[q].kind \in {"issue", "setup"} => req[q].user # u
  /\ \A c \in challenges : c.user = u => c.exp < now
  /\ \A i \in DOMAIN rows : i >= req[p].mark => rows[i].user # u

\* the sessions are revoked first, the cache is written afterwards
SlipReadyToClose(r) == r.kind = "close"

ReadyToClose(r) == r.kind = "close" /\ r.todo = {}

CommitClose(p) ==
  LET r == req[p] IN
  /\ ReadyToClose(r) /\ r.user \in users
  /\ rows' = Revoked(r.revoke)
  /\ \/ /\ r.op = "deactivate"
        /\ active' = active \ {r.user}
        /\ quiet' = IF NothingUnderWay(p, r.user) THEN quiet \cup {r.user}
                                                  ELSE quiet
     \/ /\ r.op # "deactivate"
        /\ UNCHANGED <<active, quiet>>
  /\ IF r.op = "changePassword"
     THEN UNCHANGED <<closedRows, closedJtis>>
     ELSE /\ closedRows' = closedRows \cup r.revoke
          /\ closedJtis' = closedJtis \cup r.jtis
  /\ Finish(p)
  /\ UNCHANGED <<now, fresh, users, mfa, enrolled, tenancy, tokens>>

\* Enabling writes mfa_enabled only: the secret may have gone meanwhile.
CommitMfa(p) ==
  LET u == req[p].user IN
  /\ req[p].kind = "mfa" /\ u \in users
  /\ \/ /\ req[p].op = "enableMfa"
        /\ mfa' = mfa \cup {u} /\ UNCHANGED enrolled
     \/ /\ req[p].op = "disableMfa"
        /\ mfa' = mfa \ {u} /\ enrolled' = enrolled \ {u}
  /\ Finish(p)
  /\ UNCHANGED <<now, fresh, users, active, tenancy, rows, tokens, history>>

\* An exception, a refused commit, a cache failure, a client gone, the process
\* killed: the transaction rolls back, what reached the cache stays.
Abort(p) ==
  /\ req[p].kind # "idle"
  /\ Finish(p)
  /\ UNCHANGED <<now, fresh, account, tenancy, rows, tokens, history>>

-------------------------------------------------------------------------------
(* Accounts and memberships.  One row and one column each: atomic.         *)

Activate(u) ==
  /\ "activate" \in Ops
  /\ u \in users \ active
  /\ active' = active \cup {u} /\ quiet' = quiet \ {u}
  /\ UNCHANGED <<now, fresh, users, mfa, enrolled, tenancy, rows, tokens, req,
                 closedRows, closedJtis>>

\* The sessions and the memberships of the account go with it.
DeleteUser(u) ==
  /\ "deleteUser" \in Ops
  /\ u \in users
  /\ users' = users \ {u} /\ active' = active \ {u}
  /\ mfa' = mfa \ {u} /\ enrolled' = enrolled \ {u}
  /\ members' = {m \in members : m[1] # u}
  /\ suspended' = {m \in suspended : m[1] # u}
  /\ rows' = [i \in {j \in DOMAIN rows : rows[j].user # u} |-> rows[i]]
  /\ UNCHANGED <<now, fresh, tenants, invites, granted, tokens, req, history>>

\* The secret and the backup codes are written whatever was there.
SetupMfa(u) ==
  /\ "mfa" \in Ops
  /\ Authenticated(u) /\ enrolled' = enrolled \cup {u}
  /\ UNCHANGED <<now, fresh, users, active, mfa, tenancy, rows, tokens, req, history>>

\* A membership made elsewhere: an invitation accepted, an organisation created.
AddMember(u, t) ==
  /\ "membership" \in Ops
  /\ u \in users /\ t \in tenants /\ <<u, t>> \notin members
  /\ members' = members \cup {<<u, t>>} /\ granted' = granted \cup {<<u, t>>}
  /\ UNCHANGED <<now, fresh, account, tenants, suspended, invites, rows, tokens,
                 req, history>>

\* the row goes, its status stays behind for the next membership
SlipDropStatus(u, t) == suspended

DropStatus(u, t) == suspended \ {<<u, t>>}

\* Sessions and tokens of the member are left alone.
RemoveMember(u, t) ==
  /\ "membership" \in Ops
  /\ <<u, t>> \in members
  /\ members' = members \ {<<u, t>>} /\ suspended' = DropStatus(u, t)
  /\ UNCHANGED <<now, fresh, account, tenants, invites, granted, rows, tokens,
                 req, history>>

SetMemberStatus(u, t) ==
  /\ "membership" \in Ops
  /\ <<u, t>> \in members
  /\ suspended' \in {suspended \cup {<<u, t>>}, suspended \ {<<u, t>>}}
  /\ UNCHANGED <<now, fresh, account, tenants, members, invites, granted, rows,
                 tokens, req, history>>

Tick ==
  /\ now < MaxTime /\ now' = now + 1
  /\ UNCHANGED <<fresh, account, tenancy, rows, tokens, req, history>>

-------------------------------------------------------------------------------
Init ==
  /\ now = 0 /\ fresh = 1
  /\ users = Users /\ active = Users /\ mfa = {} /\ enrolled = {}
  /\ tenants = Existing /\ members = Joined /\ suspended = {}
  /\ invites = Invited /\ granted = Joined
  /\ rows = [i \in {} |-> IdleReq] /\ access = [j \in {} |-> IdleReq]
  /\ bl = [j \in Ids |-> 0] /\ challenges = {}
  /\ req = [p \in Procs |-> IdleReq]
  /\ closedRows = {} /\ closedJtis = {} /\ quiet = {}

Request(p) ==
  \/ \E u \in Users, d \in Devices \cup {NoDevice} : BeginLogin(p, u, d)
  \/ \E c \in challenges, d \in Devices \cup {NoDevice} : BeginVerifyMfa(p, c, d)
  \/ \E k \in Ids : BeginRefresh(p, k) \/ BeginLogout(p, k)
  \/ \E k \in Ids, t \in Tenants : \/ BeginSelectTenant(p, k, t)
                                   \/ BeginSetupCreate(p, k, t)
                                   \/ BeginSetupJoin(p, k, t)
  \/ \E u \in Users, i \in Ids : BeginRevokeSession(p, u, i)
  \/ \E u \in Users : \/ BeginRevokeAll(p, u)
                      \/ BeginDeactivate(p, u)
                      \/ BeginChangePassword(p, u)
                      \/ BeginMfa(p, "enableMfa", u)
                      \/ BeginMfa(p, "disableMfa", u)

Proceed(p) ==
  \/ \E j \in Ids : BlacklistOne(p, j)
  \/ Relist(p)
  \/ CommitIssue(p) \/ CommitSetup(p) \/ CommitClose(p) \/ CommitMfa(p)
  \/ Abort(p)

Administer ==
  \/ \E u \in Users : Activate(u) \/ DeleteUser(u) \/ SetupMfa(u)
  \/ \E u \in Users, t \in Tenants : \/ LoginChallenge(u, t)
                                     \/ AddMember(u, t)
                                     \/ RemoveMember(u, t)
                                     \/ SetMemberStatus(u, t)
  \/ \E k \in Ids, t \in Tenants : SelectTenantChallenge(k, t)

Next == \/ \E p \in Procs : Request(p) \/ Proceed(p)
        \/ Administer
        \/ Tick

Spec == Init /\ [][Next]_vars

-------------------------------------------------------------------------------
(* Properties.                                                             *)

\* Every variable keeps its type; rows, tokens and requests only name
\* identifiers already drawn.
TypeOK ==
  /\ now \in Nat /\ fresh \in Nat \ {0}
  /\ users \subseteq Users /\ active \subseteq users
  /\ mfa \subseteq users /\ enrolled \subseteq users
  /\ tenants \subseteq Tenants
  /\ members \subseteq Users \X Tenants /\ suspended \subseteq members
  /\ invites \subseteq Users \X Tenants /\ granted \subseteq Users \X Tenants
  /\ rows \in [DOMAIN rows -> Row] /\ DOMAIN rows \subseteq Ids
  /\ access \in [DOMAIN access -> [user : Users, exp : Nat,
                                   tenant : Tenants \cup {NoTenant}]]
  /\ DOMAIN access \subseteq Ids
  /\ bl \in [Ids -> Nat]
  /\ challenges \subseteq [user : Users, tenant : Tenants, exp : Nat]
  /\ req \in [Procs -> Req]
  /\ \A p \in Procs : req[p].kind = "setup" => req[p].tenant \in Tenants
  /\ closedRows \subseteq Ids /\ closedJtis \subseteq Ids
  /\ quiet \subseteq Users

\* A blacklist entry outlives the access token it is about: the cache never
\* forgets a jti that decode_token could still accept.  The TTL counts from the
\* revocation, the token's life from its issue, and the two ends are not
\* compared the same way: this is what the extra 30 seconds are for.
BlacklistOutlivesToken ==
  \A j \in DOMAIN access : bl[j] # 0 => access[j].exp < bl[j]

\* Once a logout, a revocation or a deactivation has committed, the access
\* tokens it had read are refused: the cache is written before the commit, so
\* no crash leaves a closed session with a working access token.
ClosedTokenRefused == \A j \in closedJtis : ~Accepts(j)

\* A session is only ever opened on an organisation its user was admitted to,
\* along every chain of logins, challenges, selections, onboarding steps and
\* refreshes.  (A sign-in through a provider is in OAuth, where the callback opens
\* sessions on an organisation its user never joined.)
SessionTenantGranted ==
  \A i \in DOMAIN rows :
    rows[i].tenant # NoTenant => <<rows[i].user, rows[i].tenant>> \in granted

\* A user deactivated while none of their requests could still open a session
\* has no session left, and gets none before being activated again: the second
\* listing misses none and no chain of requests starts from an inactive account.
QuietUserLockedOut ==
  \A u \in quiet : /\ u \notin active
                   /\ ActiveSessions(u) = {}

\* A session row once revoked is never active again, whatever the interleaving
\* of requests that had read it before.
SessionLife == INSTANCE Lifecycle WITH
  life <- [i \in Ids |-> IF fresh <= i THEN "unissued"
                         ELSE IF Live(i) THEN "valid" ELSE "dead"]
SessionLifecycle == SessionLife!Spec

\* A refresh token that stopped working (rotated, replaced in place, logged out,
\* revoked) never works again.
RefreshLife == INSTANCE Lifecycle WITH
  life <- [k \in Ids |-> IF fresh <= k THEN "unissued"
                         ELSE IF GetByRefreshToken(k) # {} THEN "valid" ELSE "dead"]
RefreshLifecycle == RefreshLife!Spec

\* An access token that was refused once is refused ever after: neither the
\* expiry of its blacklist entry nor any request brings it back.
AccessLife == INSTANCE Lifecycle WITH
  life <- [j \in Ids |-> IF fresh <= j THEN "unissued"
                         ELSE IF Accepts(j) THEN "valid" ELSE "dead"]
AccessLifecycle == AccessLife!Spec

-------------------------------------------------------------------------------
(* The invariant the proofs use: what makes the properties inductive.      *)

\* Nothing names an identifier not yet drawn.
Drawn ==
  /\ \A i \in DOMAIN rows : i < fresh /\ rows[i].token < fresh /\ rows[i].jti < fresh
  /\ \A j \in DOMAIN access : j < fresh
  /\ \A j \in Ids : bl[j] # 0 => j < fresh
  /\ \A p \in Procs : /\ \A j \in req[p].jtis \cup req[p].todo : j < fresh
                      /\ req[p].sid < fresh

\* No access token lives longer than one issued now.
TokenAges == \A j \in DOMAIN access : access[j].exp <= now + AccessTTL

\* A jti read by a closing request is still to be written, or has been.
CacheFirst ==
  /\ \A p \in Procs : \A j \in req[p].jtis : j \in req[p].todo \/ bl[j] # 0
  /\ \A j \in closedJtis : bl[j] # 0

\* Whatever can become a session is for a membership that existed.
TenantsEarned ==
  /\ members \subseteq granted
  /\ \A c \in challenges : <<c.user, c.tenant>> \in granted
  /\ \A p \in Procs :
       /\ req[p].kind = "issue" /\ req[p].tenant # NoTenant =>
            <<req[p].user, req[p].tenant>> \in granted
       /\ req[p].kind = "setup" /\ req[p].sid \in DOMAIN rows =>
            rows[req[p].sid].user = req[p].user

\* A locked out user has nothing that could become a session, and a request
\* that is to deactivate a user holds every active session older than its mark.
LockoutHolds ==
  /\ \A u \in quiet :
       /\ \A p \in Procs : req[p].kind \in {"issue", "setup"} => req[p].user # u
       /\ \A c \in challenges : c.user = u => c.exp < now
  /\ \A p \in Procs : req[p].kind = "close" /\ req[p].op = "deactivate" =>
       /\ req[p].mark <= fresh
       /\ \A i \in ActiveSessions(req[p].user) :
            i < req[p].mark => i \in req[p].revoke

IInv == /\ TypeOK /\ Drawn /\ TokenAges /\ CacheFirst /\ TenantsEarned
        /\ LockoutHolds /\ BlacklistOutlivesToken /\ SessionTenantGranted
        /\ QuietUserLockedOut

-------------------------------------------------------------------------------
(* What the documentation says and the code does not do.                   *)

\* docs/flows.md: after a refresh the old refresh token is invalid.  Then no
\* refresh token has two sessions rotated from it.
OneSuccessorPerToken ==
  \A i, k \in DOMAIN rows :
    rows[i].parent # 0 /\ rows[i].parent = rows[k].parent => i = k

\* docs/ipc.md: xauth.verify_token answers that a blacklisted token is invalid.
IpcRefusesBlacklisted ==
  \A j \in DOMAIN access : now < bl[j] => ~IpcVerifies(j)

\* docs/security/tokens.md: DELETE /auth/sessions blacklists every active
\* last_jti.  Then no session it closed has a working access token.
ClosedSessionTokenRefused ==
  \A i \in closedRows \cap DOMAIN rows : ~Accepts(rows[i].jti)
=============================================================================
