# XAuth: models and proofs

XAuth is the authentication plugin of this repository: accounts, sessions and
tokens, organisations, roles and permissions, invitations, a second factor,
sign-in through outside providers.  It is loaded by a kernel (xcore), serves
REST routes and IPC calls, keeps its tables in PostgreSQL and a few entries in a
cache.  This directory holds TLA+ models of it, checked with TLC, and theorems
about them, checked with TLAPS.

Paths below are relative to `src/src/` unless they begin with `docs/` or
`tests/`, which are `src/docs/` and `src/tests/`.

Contents: [how the code works](#how-the-code-works) ·
[components](#components) · [modules](#modules) · [runs](#runs) ·
[fairness and deadlock](#fairness-and-deadlock) · [proofs](#proofs) ·
[disagreements](#where-the-code-does-something-else) ·
[not modelled](#what-is-not-modelled) · [plan](#plan).

## How the code works

One pattern shapes every module.  A route opens a database session, reads the
rows it needs, checks them, sets attributes, and commits at the end.  No row is
locked and none carries a version: between what a request read and its commit,
any other request may read and commit.  The commit writes the columns that were
changed, whatever is in the table by then; only unique keys and foreign keys can
make it fail.  A route that raises before its commit leaves no trace in the
tables.

The cache is outside the transaction.  A blacklisted `jti`, a permission entry
deleted, an OAuth state consumed or a counter advanced is visible at once, and
stays when the transaction rolls back.

So a request is, in the models:

* a `Begin...` action: all that it reads and checks, at one instant (in `Rbac` a
  reader takes two, because what it reads in between matters there);
* its cache accesses, one action each;
* a `Commit...` action that fails (is not enabled) when a key of the schema would
  make it fail;
* or `Abort`: an exception, a refused commit, a client gone, the process killed.
  Every request in flight may end so at every step.

A check that fails and returns an error is a request that does not begin.

## Components

| component | state | operations | hard part | what makes it correct |
|---|---|---|---|---|
| sessions and tokens (`services/auth/`, `services/token.py`, `backend.py`, `routes/auth.py`, `routes/sessions.py`, `routes/admin.py`) | session rows, JWTs handed out, blacklist in the cache | login, MFA challenge, tenant selection, onboarding, refresh, logout, revoke one or all, deactivate, delete, the check of an access token | requests between read and commit; cache first, database second; two clocks (token life, blacklist TTL) | what is closed stays closed; the blacklist outlives the token; a session only on an organisation its user was admitted to; a suspended user is out |
| roles and permissions (`services/rbac/`, `services/iam.py`, `routes/rbac.py`, `routes/_scope.py`) | roles, what they hold, primary and added roles, direct permissions, a cache of answers | assign, add, remove, grant, revoke, whole-member save, role create, edit, delete, platform roles, reads | the cache entry is deleted before the commit; several partly overlapping ways to the same row; delegation | no organisation makes itself platform administrator; organisations do not reach into each other; answers catch up with the tables |
| invitations (`services/invite.py`, `services/auth/onboarding.py`) | invitations, memberships | create, accept, join in onboarding, revoke, sweep | two ways in with different checks; no lock on the invitation | an invitation that is over lets nobody in; it gives roles of its organisation only |
| second factor (`services/mfa.py`, `routes/mfa.py`) | secret, backup codes, flag | setup, enable, disable, verify, login | read, shorten, write back a list | a code refused stays refused; an unused one works |
| provider sign-in (`services/oauth.py`) | states in the cache, linked accounts | authorize, callback, link, unlink, renewal of stored tokens, first password | waits for the provider between check and commit | a link stays whose it is; a suspended user stays out; nobody unlinks his last way in |
| permission catalogue and seed (`services/rbac/grants.py`, `services/seed.py`, `main.py`) | permissions and their source, platform roles | seed at start, declaration and unloading of plugins, edits | event order, failed handlers, restarts | plugins do not touch each other's; the administrator has it all; what goes is disabled |
| rate limiting (`utils/rate_limit.py`, `middleware/rate_limit.py`) | counters in the cache | one call | get, compare, set without atomicity; cache failures | no caller is refused for calls he did not make; sequential calls are limited |
| organisations (`routes/tenants.py`, `services/auth/onboarding.py`, `services/seed.py`, `main.py`) | organisations, owners, roles by name | seed at start, create (at most three over HTTP), delete; the event that tells other plugins | count, then insert; event after the commit; roles that outlive their organisation | a limit passed by overlap only; no organisation left unannounced; what is looked up by name is the platform's |
| licensing (`services/licensing.py`) | licences | set, remove, filter | none reached: see below | – |
| password reset (`services/password.py`) | reset tokens | forgot, reset | none reached: see below | – |
| the rest | | audit, notifications, mail, bridge, schema upgrade | none: single rows or no state | – |

How they interact.  `Sessions` trusts memberships that `Invites`, onboarding and
the organisation routes write, and is trusted by all routes through the check of
the access token.  `Rbac` reads memberships and the catalogue; every
administrator's route asks it first.  The catalogue writes into platform roles
from event handlers, without telling the permission cache.  `Mfa` gates login and
three routes of the account.  `OAuth` opens sessions of its own.  Where one
module needs a variable of another, it has a small version of it and an action
that moves it freely (`AddMember`, `RemoveMember` in `Sessions`; `Join`,
`Declare` in `Rbac`; `Elsewhere` in `OAuth`; `SetCarries` in `Invites`; `Join`,
`CreateRole` in `Tenants`, `NewRole` in `Catalogue`), so what is shown there does not depend on the other
module behaving well.  What others may rely on is stated apart, in `Lifecycle` and
`Admission`.

## Modules

PROJECT.json maps every definition to the lines it stands for.

**`Sessions`** – Variables: the clock, the next identifier (session ids, refresh
tokens and jtis are random in the code; here they are drawn from one counter),
accounts and their three flags, memberships, `rows` (table `xauth_sessions`),
`access` (what each JWT says), `bl` (when a jti's cache entry expires),
`challenges`, `req`.  `BeginLogin`, `BeginRefresh`, `BeginSelectTenant`,
`BeginVerifyMfa` prepare a session that `CommitIssue` inserts while it revokes
those they had read; `BeginSetupCreate`/`BeginSetupJoin` end in `CommitSetup`,
which overwrites columns of a session in place; `BeginLogout`,
`BeginRevokeSession`, `BeginRevokeAll`, `BeginDeactivate`,
`BeginChangePassword` write the blacklist one jti at a time (`BlacklistOne`), the
last three list the sessions a second time (`Relist`), and `CommitClose` revokes.
`Accepts` is `decode_token`: signature, expiry, blacklist, the account exists; it
does not look at `is_active`.  `Authenticated` is what guards the routes that need
an access token.  Failed logins write an audit row and roll back: they are left
out.  An access token is minted when the session that carries it is committed.

**`Lifecycle`** – what every credential promises: issued, valid, dead, and never
valid again.  `Sessions` implements it three times (session rows, refresh tokens,
access tokens) and `Mfa` once (codes).

**`Rbac`** – The tables (`roles`, `rolePerms`, `primary`, `extra`, `direct`), the
`cache` of a member's permissions with its remaining life, and `req`.  A request
records the difference it means to write and the cache entries it will delete.
Rows of the two association tables carry an id, as in the code: a request that
read a row does not delete another row of the same content.  Duplicates can exist
(the unique constraint compares NULL scopes) and then `get_one` raises: a change
that looks up a row needs at most one.  `Manages` is `require_tenant_admin`,
`IamManages` the slightly different rule of `services/iam.py`, `Entitled` adds
the IPC calls, which ask nobody.  Roles are told apart by their ids; names matter
to one rule, and `TenantAdmins` are the roles named `tenant_admin`: the platform's,
those an organisation made and called so, and whatever platform roles share the
name.  They may be handed out (`Assignable`), and who holds one is an organisation's
administrator (`Runs`), whatever the scope it was given for.  The foreign key from
invitations to roles is left out here.

**`Invites`** – An invitation has an organisation, an addressee (identified with
the user who has the address), a role, an expiry and two flags.  `BeginAccept`
checks the role again and not the addressee, `BeginJoin` (onboarding) the
addressee and not the role; both end in `Commit`, which the unique key of the
memberships may refuse.  `Found` is the other way to become a member: a new
organisation and its owner, in onboarding or over HTTP; an owner is never removed.
The third writer of memberships is the seed, which makes its administrator the owner
of its organisation before the first request: he is not among `Users`.  Roles are
fixed, one of them is named `tenant_admin`; what they carry is not (`SetCarries`).
Users and organisations are not deleted here.

**`Admission`** – what invitations promise: an offer is made for one organisation,
is open, then closed for good; whoever found it open may enter, and into an
organisation that is there nobody enters in another way.  Its founder is its
first member.  `Invites` implements it (`KeepsPromise`), with the columns, the
dates and the two ways in hidden behind `open` and `at`.  It lets two people who
both found an offer open enter: the code does too.

**`Tenants`** – The tables of organisations, memberships, owners and roles by name,
and the service's own starts and stops.  `Start` is the seed's one transaction;
`Announce` the event it leaves for `xcore.plugins.booted`, which an exception
loses.  `BeginCreate` counts and looks, `Commit` inserts under the unique slug and
the foreign keys, `Tell` sends the event, in this order; `Stop` ends the process
between any two.  `CommitDelete` is what the ORM's relationships do: members go,
roles lose their organisation and so become the platform's, and a row of an
invitation makes it fail.  Rows of other tables that refer to the organisation
would too; they are not here, and `Abort` stands for them.  `CreateRole` is
`POST /rbac/roles`: a role of an organisation, or of the platform, of any name, a
name already taken included.  `seeded` says which roles the seed made; no step
reads it.

**`Mfa`** – One account; two share nothing.  A code is a backup code of a given
setup or the authenticator's for a given secret.  Five kinds of request check a
code and differ in what they commit; `POST /mfa/verify` commits nothing.  The
mapper updates the columns whose value differs from what the request read: a
disabling that had read the flag as off does not write it (`WriteEnabled`).

**`OAuth`** – A callback is four steps: read the state, delete it, look up once
the provider has answered, commit.  The provider answers with any identity.  A
callback whose provider does not match its state has used the state up and
fails: `TakeState`, then `Abort`.  `BeginRenew` and `CommitRenew` are
`get_valid_access_token`, which plugins reach by IPC.  The cipher is configured,
so tokens are kept (`renew` stands for the refresh token).  Which users have a
second factor does not change.  A callback that is to create its user fails when
somebody has his address by the time it commits, one that found him fails when he
has gone (`fresh`).  A user deleted and created again while a request is under way
counts as the same user here, though his id is new and the commit would fail: the
model allows more than the code.

**`Catalogue`** – The table of permissions with their source, and the platform's
roles: those the seed syncs (`SeededRoles`: admin, user and tenant_admin) and those
that come by `POST /rbac/roles` or from an organisation deleted (`NewRole`).  `Start`
is the seed, which resets the former only, followed by the listeners; the kernel, external,
loads and unloads plugins and sends one event for each, handled later, in order
for one plugin, in any order between plugins; `Fail` is a handler that raises,
after which nothing is sent again.

**`RateLimits`** – One counter per caller and window.  `failOpen` says which of
the two limiters it is: the middleware lets a call through when the cache fails,
the dependency refuses it.  What is let through is counted by caller and window
of arrival, the unit the limits are about.

**`...Proofs`** – the theorems about a module: `SessionsProofs`, `RbacProofs`,
`InvitesProofs`, `TenantsProofs`, `MfaProofs`, `OAuthProofs`, `CatalogueProofs`,
`RateLimitsProofs`.  See [Proofs](#proofs).

**`MC...`** – instances for TLC: constants that are not model values.

Definitions named `Slip...` are used by no specification.  Each is the definition
after it with one plausible mistake in it; PROJECT.json pairs each with a property
that must then be violated, which shows that the property depends on that line.

## Runs

Every run explores all reachable states of its instance.

| run | module | what it asks | bounds |
|---|---|---|---|
| `sessions_close` | Sessions | `BlacklistOutlivesToken`, `ClosedTokenRefused`, `QuietUserLockedOut`, and `SessionLifecycle`, `RefreshLifecycle`, `AccessLifecycle`: the three refinements of `Lifecycle` | one user, invited into one organisation; 2 requests in flight; 2 identifiers; clock to 2 with every lifetime 1; no device |
| `sessions_tenants` | Sessions | `TypeOK`, `SessionTenantGranted` | one user, 2 organisations of which one does not exist yet, one device; 1 request at a time; 3 identifiers; the clock stands still (an expiry only takes moves away) |
| `rbac_escalate` | Rbac | `TypeOK`, `NoSelfMadeAdmin`, `Isolation`, `ScopeReach`, `SaveKeepsAsked` | platform staff in a home organisation, the owner of another one; one role an organisation may create, itself named `tenant_admin`; one scope; `admin:*` and one plugin permission; one association row (`MaxRows`); 1 request at a time, the platform's edits of its roles among them |
| `rbac_catch_up` | Rbac | `CatchesUp` (liveness), `TwinsOnlyTogether` | an owner and a member of one organisation; 2 requests in flight; 2 association rows; cache entries live 1 tick; any cache call may fail |
| `tenants_found` | Tenants | `TypeOK`, `NoneForgotten`, `RoleAtHome`, `LimitCounted`, `FoundByName` | the administrator and another user; 2 slugs, one of them seeded; 2 organisations (`MaxTenants`) and 3 roles (`MaxRoles`) ever, the two of the seed and one made over HTTP, of either name; invitations into one organisation (`MaxInvited`); 2 requests; a limit of 1; no bound on restarts |
| `invites_settle` | Invites | `TypeOK`, `InvitedRoleFits`, `InviteSettles`, `MembershipKept`, and `KeepsPromise`: the refinement of `Admission` | 2 organisations, one of which is still to be founded, 2 users, 2 invitations (`MaxInvites`), 2 requests; a role of the other organisation and `tenant_admin`; clock to 2, invitations live 1 |
| `mfa_codes` | Mfa | `TypeOK`, `CodeLifecycle`, `Sequential` | 2 setups (`MaxSetups`), 2 backup codes each, 2 requests |
| `oauth_links` | OAuth | `TypeOK`, `LinkKept`, `SuspendedOpensNone`, `Sequential` | two providers whose identity has the address of a new user, and a known user with a password and a factor; 2 states (`MaxStates`), 2 account rows (`MaxRows`), 2 requests |
| `catalogue_order` | Catalogue | `TypeOK`, `AdminComplete`, `HeldAccounted`, `PluginsApart`, `GoneWhenHeard` | a plugin and the reserved name, three permissions of which one is both seeded and of the plugin's prefix, two platform roles, of which the seed syncs one; no bound on restarts |
| `limits_calls` | RateLimits | `TypeOK`, `WindowLimit`, `NoOvercount` | one caller, 2 calls in flight, limit 2, two windows of 2 ticks (`MaxTime`), up to 4 calls counted in each window (`MaxCalls`), the cache may fail |
| `mfa_checked_twice` | Mfa | violates `BackupCodeUsedOnce` | one request at a time |
| `oauth_forced_tenant` | OAuth | violates `SessionsOfMembers` | one new user, one callback |

Why these bounds.  The races of this code are between what two requests read and
wrote, over one row: two requests in flight and one or two rows meet all of them.
Two identifiers let a session be rotated once, closed and its successor tried;
three let a chain login, onboarding or selection, refresh run with a token of each
kind outstanding.  A clock that goes past every lifetime by one lets a token and
the blacklist entry about it both expire, in the order the margin gives them.  One
association row reaches every path of the changes, since a save computes its
difference from it; two rows make the duplicates `TwinsOnlyTogether` is about.  A
limit of one organisation is passed by two, which is how many the instance has
room for.  Two providers are needed for two requests to unlink the last two
accounts.  Two windows let a late write reach a window already over.
In the sessions instances devices exist in `sessions_tenants` only; the theorems
about Sessions hold for any set of devices.  Every property of the passing runs but
one is also proved for all bounds: what the instances add is the evidence that the
interesting cases happen, and the mutants.

`Ops` selects the operations an instance issues, so that a question is asked of
the operations it is about.  In the module it is a conjunct of guards and no
property mentions it.  `MaxId`, `MaxTime`, `MaxRows`, `MaxInvites`, `MaxSetups`,
`MaxUses`, `MaxStates`, `MaxCalls`, `MaxTenants`, `MaxRoles`, `MaxInvited` are the bounds, each
named in a guard.

Symmetry is used over requests, whose slots are interchangeable, in `invites_settle`
over the users and in `oauth_links` over the providers, which start alike; and
never with the liveness run.

What the properties say of the code:

* `BlacklistOutlivesToken`: the thirty seconds added to the TTL
  (`services/auth/session.py:96`) are needed, since a token is accepted at the
  very second of its expiry, and any positive margin is enough.
* `ClosedTokenRefused`: because the cache is written before the commit, no crash
  between the two leaves a closed session whose token works.  It is about the
  jtis the request had read; sessions opened between the two listings are in the
  table below.
* `QuietUserLockedOut`: an account deactivated while none of its requests was past
  its checks has no session until activated again.  The premise is needed: a
  login or an MFA challenge begun earlier can commit afterwards.
* `SessionTenantGranted`: an organisation gets into a session only along a chain
  that began with a membership of its user.  It is about memberships that were: the
  code does not look again, and a session may outlast one.
* `InviteSettles`: used, revoked or expired, and read by no request under way, an
  invitation is over for good, whatever becomes of the member it admitted.
* `KeepsPromise`: whatever the two ways in check and in whatever order, nobody
  becomes a member of an organisation that is there but by an invitation into it
  that was open when his request looked, and a closed one stays closed.  Two
  people who found one open may both come in.
* `InvitedRoleFits`: by either way in, the role is of that organisation or
  `tenant_admin`.  What the role carries by then is not looked at by onboarding.
* `NoSelfMadeAdmin`: with the platform's own edits of roles among the steps, but
  not with plugins coming and going: no declaration can name `admin:*`
  (`Catalogue!PluginsApart`), and the two together are too many states.
* `ScopeReach`: a role given or taken for a scope changes no permission outside it;
  a role named `tenant_admin`, whatever its scope, makes or unmakes its member an
  administrator of the whole organisation, and it is the only door a scope leaves
  open.  `models/rbac.py:118` says there is none: see the table below.
* `SaveKeepsAsked`: a save removes added rows, adds others and sets the primary
  role on the strength of one reading; what it asked for is held at the end, but
  for a role whose added row it had itself marked for removal.  Those the code
  loses (`SavedRolesHeld`, below).
* `TwinsOnlyTogether`: two rows of one grant come from two requests that looked
  before either committed, in no other way.
* `Mfa!Sequential` and `OAuth!Sequential`: what the documentation promises and
  overlapping requests break (see the table below) holds of every sequence of
  requests that do not overlap, however long, aborted ones among them.  `alone` is
  the history variable that says so.
* `LimitCounted`: creation over HTTP passes the limit only by a membership
  committed after it counted.  `NoneForgotten`: an organisation no plugin was told
  of is owed an event, or lost it to a stop or an exception; the seeded one is
  announced anew at each start.  `RoleAtHome`: a member's role is of his
  organisation or the platform's.  `FoundByName`: nothing keeps names single, but
  the seed makes each of its roles once, whatever namesakes there are, so no
  creation finds the role of owners missing and what it found is still there, under
  that name, when it commits.
* `AdminComplete`, `HeldAccounted`: the administrator's role has what the catalogue
  offers; every platform role has what it was given and was not taken back, since
  the start if the seed syncs it, ever if not, and beyond that nothing but the seed's
  list.
* `GoneWhenHeard`: permissions of a plugin that left are disabled, but for those the
  seed lists and those of a plugin whose going no handler heard of.
* `CatchesUp`: entries are deleted before the commit, so a reader may cache what
  is about to be wrong, and the deletion may be lost; answers still become right
  once the tables are left alone.  It rests on the cache, which is external, to
  drop an entry at its expiry: `services/rbac/permissions.py:101` passes that as
  `ex=300`, every other call of the repository as `ttl=`.
* `WindowLimit` holds of the dependency while calls do not overlap, `NoOvercount`
  always: the counter loses calls and never invents any.

Premises.  Many of these properties hold of what the code can keep, and their
premise (`Quiet`, `alone`, no request holding it, no call overlapping, not lost, not
unseen) leaves out a race it loses.  Each of those races is a statement of the table
under [disagreements](#where-the-code-does-something-else), or is noted with its
hazard in PROJECT.json: no property of a passing run covers it.

## Fairness and deadlock

All specifications but `Rbac` are safety only: nothing says that a client comes
back or that a request ends.  `Rbac!Spec` assumes weak fairness of `Tick`, while
an entry is in the cache (its expiry is given to the cache with the value,
`services/rbac/permissions.py:99`), and of `Proceed(p)`, a request that has begun
ends in one way or another, if only by `Abort`: the handlers have no loop and the
server drops a request whose client has gone.  Nothing obliges a request to begin
or to succeed.

`CHECK_DEADLOCK FALSE` is in every cfg: a server that nobody calls is idle, and an
instance whose bounds are used up has nothing left to do.

## Proofs

Every safety property, action property and refinement that a passing run checks
is a theorem, for any sets of users, organisations, devices, roles, permissions,
providers and callers, any number of requests in flight, any lifetimes and limits,
any operations and any bounds.  One holds with a hypothesis, `SaveAlone`, and one
property stays with TLC, `CatchesUp`.

| module | theorem | statement |
|---|---|---|
| SessionsProofs | `Invariance`, `TypeCorrect` | `Spec => []IInv`, `[]TypeOK` |
| | `BlacklistSound` | `Spec => []BlacklistOutlivesToken` |
| | `ClosedStaysClosed` | `Spec => []ClosedTokenRefused` |
| | `TenantsGranted` | `Spec => []SessionTenantGranted` |
| | `LockedOut` | `Spec => []QuietUserLockedOut` |
| | `AccessTokenLife`, `RefreshTokenLife`, `SessionRowLife` | `Spec => AccessLifecycle`, `RefreshLifecycle`, `SessionLifecycle`: three refinements of `Lifecycle` |
| RbacProofs | `Invariance`, `TypeCorrect` | `Spec => []IInv`, `[]TypeOK` |
| | `NobodyElseAdmin` | `Spec => []NoSelfMadeAdmin` |
| | `Isolated`, `ScopesReach`, `TwinsTogether` | `Spec => Isolation`, `ScopeReach`, `TwinsOnlyTogether` |
| | `SaveAlone` | `Procs = {only}` implies `Spec => SaveKeepsAsked` |
| InvitesProofs | `Invariance`, `TypeCorrect` | `Spec => []IInv`, `[]TypeOK` |
| | `RolesFit` | `Spec => []InvitedRoleFits` |
| | `Settles`, `MembersKept` | `Spec => InviteSettles`, `MembershipKept` |
| | `PromiseKept` | `Spec => KeepsPromise`: the refinement of `Admission` |
| TenantsProofs | `Invariance`, `TypeCorrect` | `Spec => []IInv`, `[]TypeOK` |
| | `EventsAccounted`, `RolesAtHome`, `RolesFound` | `Spec => []NoneForgotten`, `[]RoleAtHome`, `[]FoundByName` |
| | `LimitCountedOnce` | `Spec => LimitCounted` |
| MfaProofs | `Invariance`, `TypeCorrect`, `OneAtATime` | `Spec => []IInv`, `[]TypeOK`, `[]Sequential` |
| | `CodesLive` | `Spec => CodeLifecycle`: codes refine `Lifecycle` |
| OAuthProofs | `Invariance`, `TypeCorrect`, `OneAtATime` | `Spec => []IInv`, `[]TypeOK`, `[]Sequential` |
| | `LinksKept`, `SuspendedKeptOut` | `Spec => LinkKept`, `SuspendedOpensNone` |
| CatalogueProofs | `Invariance`, `TypeCorrect` | `Spec => []IInv`, `[]TypeOK` |
| | `AdminHasAll`, `RolesAccounted`, `GoneMadeGood` | `Spec => []AdminComplete`, `[]HeldAccounted`, `[]GoneWhenHeard` |
| | `PluginsKeptApart` | `Spec => PluginsApart` |
| RateLimitsProofs | `Invariance`, `TypeCorrect` | `Spec => []IInv`, `[]TypeOK` |
| | `NoneInvented`, `WindowLimited` | `Spec => []NoOvercount`, `[]WindowLimit` |

### Assumptions

They are the `ASSUME`s of the modules, and TLC evaluates them in every run.  The
absent values (`NoUser`, `NoRole`, ...) are not members of the sets they are absent
from; lifetimes and bounds are naturals.  Beyond that:

* `Sessions`: the margin of the blacklist, `Grace`, is not zero; the memberships
  and invitations of the start are on organisations that exist.
* `Rbac`: at the start no role but `Admin` carries `admin:*`, no permission that
  may be delegated or that a plugin declares is `admin:*` (`Catalogue!PluginsApart`
  is the reason for the second), and nobody holds a role of another organisation;
  the platform's `tenant_admin` is one of `TenantAdmins`, and `admin` is none.
* `Invites`: `tenant_admin` is a role of the platform; the seed's organisation is one
  of the organisations.
* `Tenants`: the two names that are looked up differ; there is room for one
  organisation, the seeded one.
* `Mfa`: a setup has a backup code, and `MaxUses`, where the count of uses stops,
  is not zero.
* `OAuth`: a second factor is of a user of the start, and so are the memberships.
* `Catalogue`: a permission has one prefix; the seed syncs the administrator's role
  and perhaps others; its lists are of seeded permissions, and that of the
  administrator is all of them.
* `RateLimits`: limit and period are not zero (`utils/rate_limit.py:38` ignores a
  configured one that is).

### Inductive invariants

Few of the properties are inductive.  Each `IInv` says what requests in flight
know, for a step of a request is right because of what it read steps ago.

`Sessions`:

* `Drawn`: nothing names an identifier not yet drawn.  Without it, a request could
  hold a jti or a session id that the next commit draws.
* `TokenAges`: no access token lives longer than one issued now.  A blacklist
  entry written now lasts `AccessTTL + Grace`, so it outlives them all.
* `CacheFirst`: a jti that a closing request read is still on its list or is in the
  cache; a commit waits for the list to be empty, so closed jtis are in the
  cache.  With `BlacklistOutlivesToken` they are refused while they live, and
  expired afterwards.
* `TenantsEarned`: challenges and requests in flight name memberships that
  existed, and an onboarding request is of the user of the session it changes.
* `LockoutHolds`: a locked out user has no request, no living challenge and no
  session from which a new one could come; and a request that is to deactivate
  somebody holds every active session older than its second listing.

For the refinements, `SessionsProofs` first shows that each step `Evolves`: rows
are only revoked, changed in place with a fresh token, added or deleted, tokens and
blacklist entries only added; then that what evolves so advances `Lifecycle`.

`Rbac`: `Sound` says what a request of each kind may still write: an organisation's
gives roles of its own or a `tenant_admin`, never `admin:*`, and touches its own
members only; and that a request with a scope writes rows of that scope alone.  `OnlyStaff` says where `admin` and `admin:*` are, the cache included:
a stale answer could otherwise make an administrator.  `RolesAtHome` keeps the
deletion of a role within its organisation.  `Looked` says that a twin of what a
request is to grant is younger than its look, which is `TwinsOnlyTogether`.
`SaveAlone` has an invariant of its own, `SaveAsks`: with another request between
reading and commit the property is about what two saves do to each other, and
false.

`Invites`: `RolesOffered`, because onboarding never checks the role: it is right
when it was right at the creation.  `PromiseKept` maps the columns, the dates and
both ways in to the offers of `Admission`.

`Tenants`: `RolesCarried` and `Filled` (what a creation read, the role of owners by
name, is there when it commits: roles of the platform are never deleted), `SeedsOwn`
(the seed's roles are the platform's, one of each name, and there as soon as any role
is: the seed looks a role up by name and makes it only when it finds none), `Quiet` (a stop leaves nothing in
flight), `Heard` (who still waits for an event, up or down), `Counted` (a creation
that saw no late membership still has room).

`Mfa`: `Coded`, and `Solo`: alone, a request in flight finds its code good, the list
and the flag as it read them.

`OAuth`: `Carried` (what a request past its reads has), `Unspent` (a state not handed
out is not used) and `Solo`: alone, states in the cache or read were never taken,
and who is to unlink an account has a password or another account.  The count of
`MayUnlink` gives the other account because the accounts of a user are finite: they
inject into the row numbers (`LinkedFinite`).

`Catalogue`: `Owned` (a plugin owns names of its prefix), `SeedThere`, `Announced` (a
declaration waiting is of a plugin loaded) and `Accounted`, which is `GoneWhenHeard`
while events are still waiting and while the service is down.

`RateLimits`: `Earned` (neither an entry nor what was read of it is ahead of the
calls counted) and `Alone` (neither is behind, and an entry that counted a call
outlives the call's window: two periods from the writing, `WindowSpan`).

The invariants were checked with TLC on the runs' instances before they were
proved.

### How the proofs are laid out

`TypeCorrect` first, or the invariant at once where its parts need each other.  A
lemma `Steps` puts the actions into a few shapes (a request begins with something
it read; it checks; it commits; it ends) and one lemma per shape says what it
changes; then one lemma for each conjunct of the invariant, one step for each
shape.  An action property names its body (`KeptStep`, `OutStep`, ...) and is proved of
every step from the invariant.

### Left to TLC

`CatchesUp` is liveness under fairness.  `SaveKeepsAsked` is proved for one request
slot, as the run has.  The statements of the table below are refuted, not proved.

## Where the code does something else

Two disagreements have a run:

* `mfa_checked_twice`: docs/security/mfa.md:74 says a backup code is deleted after
  use.  `POST /mfa/verify` (`routes/mfa.py:130`) returns without a commit.
* `oauth_forced_tenant`: the comment at `services/oauth.py:269` says memberships
  are checked as in login.  An organisation named by the state is taken before
  they are looked at (`services/oauth.py:281`).

The others are stated in the modules, under "What the documentation says and the
code does not do", and no run checks them.  Put in place of a run's properties,
TLC refutes each, with the changes to the run's constants given here.

| statement | code, against | how TLC gets there |
|---|---|---|
| `Sessions!OneSuccessorPerToken` | `services/auth/session.py:52`, docs/flows.md:100 | `sessions_close`, `MaxId = 3`: two refreshes of a token begin before either commits |
| `Sessions!ClosedSessionTokenRefused` | `routes/sessions.py:116`, docs/security/tokens.md:49 | `sessions_close`: a login commits between the two listings of a revoke-all; its session is revoked, its token not blacklisted |
| `Sessions!IpcRefusesBlacklisted` | `ipc.py:33`, docs/ipc.md:28 | `sessions_close`: login, then logout; the IPC check reads no blacklist |
| `Rbac!FreshWhenAnswered` | `services/rbac/permissions.py:171`, docs/rbac-frontend.md:174 | `rbac_catch_up`, `CacheFails = FALSE`, no `"declare"`: a read under way fills the cache after the deletion and the commit of a grant |
| `Rbac!OneRowPerGrant` | `services/rbac/permissions.py:160`, `models/rbac.py:141` | `rbac_catch_up`: two grants of a permission begin before either commits |
| `Rbac!ScopedRoleStaysScoped` | `services/rbac/members.py:35`, `models/rbac.py:118` | `rbac_escalate`: a role named `tenant_admin` added with a scope |
| `Rbac!SavedRolesHeld` | `services/iam.py:344`, `services/iam.py:301` | `rbac_escalate`: a role is added, then a save makes it primary; its own second half clears the column |
| `Invites!InviteUsedOnce` | `services/invite.py:112`, `services/invite.py:86` | `invites_settle`: two users accept before either commits |
| `Mfa!BackupCodeUsedOnce` | `services/mfa.py:98`, docs/security/mfa.md:74 | `mfa_codes`, `MaxUses = 2`, no `"check"`: two requests read the list before either commits |
| `Mfa!EnabledHasSecret` | `services/mfa.py:130`, docs/security/mfa.md:96 | `mfa_codes`: an enabling and a disabling under way together |
| `Mfa!SecretInForceConfirmed` | `services/mfa.py:48`, docs/security/mfa.md:22 and :36 | `mfa_codes`: enabling with a backup code, or a setup while enabled |
| `Mfa!UnusedCodeWorks` | `services/mfa.py:99`, docs/security/mfa.md:72 | `mfa_codes`: a setup between the read and the commit of a code check; the old list is written back |
| `OAuth!WayIn` | `services/oauth.py:461`, docs/api/oauth.md:114 | `oauth_links`: two unlinkings count before either commits |
| `OAuth!OneAccountPerProvider` | `services/oauth.py:437`, `repositories/oauth.py:26` | `oauth_links`, `Subjects = {s1, s2}`: two links of one provider |
| `OAuth!StateUsedOnce` | `services/oauth.py:197`, `services/oauth.py:195` | `oauth_links`: two callbacks read a state before either deletes it |
| `OAuth!NewcomersInDefault` | `services/oauth.py:282`, docs/api/oauth.md:67 and :139 | `oauth_links`: any newcomer |
| `Catalogue!GoneIsDisabled` | `main.py:248`, `models/rbac.py:77` | `catalogue_order`: the unloading event fails, or the plugin goes while the service is down |
| `Catalogue!SeededHasNoPlugin` | `services/rbac/grants.py:48`, `models/rbac.py:71` | `catalogue_order`: a plugin declares a seeded name of its prefix |
| `RateLimits!EveryWindowLimit` | `utils/rate_limit.py:66`, docs/security/rate-limiting.md:15 | `limits_calls`, `CacheFails = FALSE`: two calls read one count |
| `Tenants!LimitHolds` | `services/auth/onboarding.py:47`, `routes/tenants.py:55` | `tenants_found`: creation at registration counts nothing |
| `Tenants!RolesStayHome` | `routes/tenants.py:205`, `models/rbac.py:52` | `tenants_found`: an organisation with a role of its own is deleted; the role is the platform's then |
| `Tenants!OneOfItsName` | `repositories/rbac.py:22`, `main.py:220` | `tenants_found`: the same, the role being named `admin`, or `POST /rbac/roles` with that name and no organisation; `get_by_name` finds two rows and raises at each later declaration |
| `Tenants!AllTold` | `routes/tenants.py:97`, `main.py:176` | `tenants_found`: a stop, or an exception, between the commit and the event |

Not stated in a module: the window of the limiter is fixed, so the end of one and
the start of the next let twice the limit through (`middleware/rate_limit.py:73`),
against the sliding window of `middleware/rate_limit.py:4`; `Retry-After` is always the whole period
(`middleware/rate_limit.py:93`), against docs/security/rate-limiting.md:89; and no
code of the repository mounts the middleware, against
docs/security/rate-limiting.md:62.

## What is not modelled

* Password reset by a token.  `routes/password.py:92` passes by position what
  `services/password.py:52` takes by keyword only: the route ends in a TypeError
  before it does anything.
* Licensing.  `licensed()` has no caller, `get_permissions_for_user` does not
  filter although `services/licensing.py:5` says so, and `main.py` does not mount
  the router.
* Registration beyond its session: uniqueness of names and addresses rests on the
  unique keys.
* Organisations renamed and their settings: texts nothing else reads.  Roles in
  `Tenants` have a name and a home only; what they hold, and their deletion by an
  organisation, is in `Rbac`.  In
  `Sessions` an organisation is created by onboarding and never deleted.
* The margin of thirty seconds before a provider's token is renewed, the calls to
  mail and calendar providers, and what the providers answer, which is an input.
* Audit, notifications, mail, the bridge page, schema upgrade, headers: single
  rows, reads, or no state.
* `regenerate_backup_codes`, which no route calls.
* The content of tokens, e-mails, secrets; hashing; the wording of errors.
* Anything without a cache: it is configured in every instance.

## Plan

Done, in this order: `Lifecycle`, `Sessions` and its proofs; `Rbac`; `Invites` and
`Admission`; `Mfa`; `OAuth`; `Catalogue`; `RateLimits`; `Tenants`.

Then the proofs, one module per component: every property of a passing run but
the liveness one is a theorem.

Next:

1. What the theorems show of the parts is not composed yet.  `Sessions` lets
   memberships come and go freely; the onboarding part of `Sessions` as another
   implementation of `Admission` would tie it to `Invites`.
2. An abstract permission service (tables and answers, no cache) that `Rbac`
   implements, but for answers at most one cache life old: the safety half of
   `CatchesUp`, and within reach of a proof.
3. `SaveKeepsAsked` with several requests: which other changes a save tolerates
   between its reading and its commit, stated so that it holds.
4. `ClosedTokenRefused` says nothing of sessions opened between the two listings of
   a revoke-all; a bound on how many those are.
