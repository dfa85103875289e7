--------------------------------- MODULE Rbac ---------------------------------
(***************************************************************************)
(* Roles and permissions: who may do what in which organisation, who may   *)
(* change it, and the cache the answers are read from.                     *)
(*                                                                         *)
(* What a member may do is the union of a primary role, of added roles and *)
(* of permissions given directly.  It is computed from several tables and  *)
(* cached for five minutes.  A change deletes the cache entries it touches *)
(* and only then commits; a reader that computed from the old tables may   *)
(* fill the cache in between, or after.  Nothing locks a row.              *)
(*                                                                         *)
(* A request is a Begin action (authority, checks, reads), its cache       *)
(* deletions one by one, and a commit; or it is a reader, which looks at   *)
(* the member first and at the roles afterwards.  Foreign keys and primary *)
(* keys are those of the schema: a commit that breaks one fails.           *)
(***************************************************************************)
EXTENDS Naturals, FiniteSets

CONSTANTS
  Users, Tenants, Roles, Perms,
  Scopes, NoScope,       \* the scopes a row may be limited to; none: NoScope
  NoRole, NoTenant, NoUser,
  RoleTenant,            \* tenant_id of a role; NoTenant for a platform role
  Admin, TenantAdmin,    \* the seed's roles `admin` and `tenant_admin`
  TenantAdmins,          \* the roles named as the second, whosever they are
  AdminPerm,             \* admin:*, which rbac:write comes with
  PluginPerms,           \* the permissions a plugin declares
  Owners,                \* memberships with is_owner, pairs <<user, tenant>>
  FirstPrimary,          \* the memberships of the initial state, with their role
  FirstRoles,            \* its roles
  FirstPerms,            \* and what each role holds
  FirstGrantable,        \* the permissions a tenant may delegate
  CacheTTL,              \* _PERM_CACHE_TTL
  CacheFails,            \* may a call to the cache raise?
  Procs, Ops,            \* request slots, and the operations issued
  MaxRows                \* bound: rows added to the two association tables

Members == Users \X Tenants

ASSUME NullAssumption ==
  /\ NoRole \notin Roles /\ NoTenant \notin Tenants /\ NoScope \notin Scopes
  /\ NoUser \notin Users
ASSUME RoleAssumption ==
  /\ RoleTenant \in [Roles -> Tenants \cup {NoTenant}]
  /\ {Admin, TenantAdmin} \subseteq FirstRoles /\ FirstRoles \subseteq Roles
  /\ RoleTenant[Admin] = NoTenant /\ RoleTenant[TenantAdmin] = NoTenant
  /\ TenantAdmin \in TenantAdmins /\ TenantAdmins \subseteq Roles \ {Admin}
ASSUME PermAssumption ==
  /\ AdminPerm \in Perms /\ PluginPerms \subseteq Perms
  /\ AdminPerm \notin PluginPerms \cup FirstGrantable
  /\ FirstGrantable \subseteq Perms
ASSUME FirstAssumption ==
  /\ FirstPerms \in [Roles -> SUBSET Perms]
  /\ \A r \in Roles : AdminPerm \in FirstPerms[r] => r = Admin
  /\ \A r \in Roles \ FirstRoles : FirstPerms[r] = {}
  /\ DOMAIN FirstPrimary \subseteq Members
  /\ FirstPrimary \in [DOMAIN FirstPrimary -> FirstRoles \cup {NoRole}]
  /\ \A m \in DOMAIN FirstPrimary :
       FirstPrimary[m] # NoRole => RoleTenant[FirstPrimary[m]] \in {m[2], NoTenant}
  /\ Owners \subseteq DOMAIN FirstPrimary
ASSUME BoundAssumption ==
  CacheTTL \in Nat \ {0} /\ MaxRows \in Nat /\ CacheFails \in BOOLEAN

VARIABLES
  active,      \* permissions whose `active` is set
  grantable,   \* those whose `tenant_grantable` is set
  roles,       \* table xauth_roles
  rolePerms,   \* table xauth_role_permissions, by role
  primary,     \* table xauth_tenant_members: role_id of each membership
  joined,      \* id of each membership's row, 0 for the first ones
  extra,       \* table xauth_member_roles
  direct,      \* table xauth_member_permissions
  fresh,       \* the next row id
  cache,       \* xauth:perms:<user>:<tenant>; left = 0 when there is none
  req,         \* the requests in flight
  platformGave \* history: has the platform given admin:* to another role?

db == <<active, grantable, roles, rolePerms, primary, joined, extra, direct,
        fresh>>
vars == <<db, cache, req, platformGave>>

-------------------------------------------------------------------------------
RowIds == 1 .. MaxRows
Bucket == Scopes \cup {NoScope}

RoleRow == [id : RowIds, m : Members, role : Roles, scope : Bucket]
PermRow == [id : RowIds, m : Members, perm : Perms]

\* What a request read and means to write.
Req == [kind : {"idle", "read", "member", "leave", "role", "delete"},
        tenant : Tenants \cup {NoTenant},  \* NoTenant: a platform operation
        m : Members \cup {<<NoUser, NoTenant>>},
        role : Roles \cup {NoRole},
        primaryTo : SUBSET (Roles \cup {NoRole}), \* {}: the column is left alone
        addRoles : SUBSET Roles, scope : Bucket,
        addPerms : SUBSET Perms, dropPerms : SUBSET Perms,
        dropRows : SUBSET (RoleRow \cup PermRow), \* association rows it deletes
        asked : SUBSET Roles,              \* history: the roles a save asks for
        mark : 1 .. MaxRows + 1,           \* fresh when it read
        held : SUBSET Roles, names : SUBSET Perms, \* reader: seen so far
        stripped : SUBSET Members,         \* delete: memberships to be nulled
        keys : SUBSET Members]             \* cache entries still to be deleted

NewReq(kind, t, m) ==
  [kind |-> kind, tenant |-> t, m |-> m, role |-> NoRole, primaryTo |-> {},
   addRoles |-> {}, scope |-> NoScope, addPerms |-> {}, dropPerms |-> {},
   dropRows |-> {}, asked |-> {}, mark |-> fresh, held |-> {}, names |-> {},
   stripped |-> {}, keys |-> {}]

IdleReq == [NewReq("idle", NoTenant, <<NoUser, NoTenant>>) EXCEPT !.mark = 1]

\* the membership a request read is still the one in the table
Current(r, m) == m \in DOMAIN primary /\ joined[m] < r.mark

Start(p, r) == /\ req[p].kind = "idle"
               /\ req' = [req EXCEPT ![p] = r]
               /\ UNCHANGED <<db, cache, platformGave>>
Finish(p) == req' = [req EXCEPT ![p] = IdleReq]

-------------------------------------------------------------------------------
(* What a member holds.                                                    *)

RoleRows(m, S) == {x \in extra : x.m = m /\ x.scope \in S}
PermRows(m) == {x \in direct : x.m = m}

\* the primary role and the added ones of the buckets S
Held(m, S) == ({primary[m]} \ {NoRole}) \cup {x.role : x \in RoleRows(m, S)}

DirectNames(m) == {x.perm : x \in PermRows(m)} \cap active

RoleNames(R) == UNION {rolePerms[r] : r \in R} \cap active

\* the rows of every scope count
SlipEffective(m) ==
  IF m \in DOMAIN primary
  THEN DirectNames(m) \cup RoleNames(Held(m, Bucket)) ELSE {}

\* get_permissions_for_user without the cache
Effective(m) ==
  IF m \in DOMAIN primary
  THEN DirectNames(m) \cup RoleNames(Held(m, {NoScope})) ELSE {}

Cached(m) == cache[m].left > 0

\* get_permissions_for_user: what its caller is told
Seen(m) == IF Cached(m) THEN cache[m].perms ELSE Effective(m)

\* get_roles_for_user: every row of the member, whatever its scope
NamedRoles(m) == Held(m, Bucket)

PlatformAdmin(u) == \E t \in Tenants : AdminPerm \in Seen(<<u, t>>)

\* an owner, or a member who has a role named tenant_admin
Runs(u, t) == /\ <<u, t>> \in DOMAIN primary
              /\ \/ <<u, t>> \in Owners
                 \/ NamedRoles(<<u, t>>) \cap TenantAdmins # {}

\* require_tenant_admin
Manages(u, t) == PlatformAdmin(u) \/ Runs(u, t)

\* Authority: here admin:* must be held in the organisation itself
IamAdmin(u, t) == <<u, t>> \in DOMAIN primary /\ AdminPerm \in Seen(<<u, t>>)
IamManages(u, t) == IamAdmin(u, t) \/ Runs(u, t)

\* The operators named Slip... are never used here: each is a mistake the code
\* could make in the definition that follows it, and that a property must catch.

\* every platform role may be handed out
SlipAssignable(r, t) == r \in roles /\ RoleTenant[r] \in {t, NoTenant}

\* what an organisation gives: its own roles, and the platform's tenant_admin
Gives(t) == {r \in Roles : RoleTenant[r] = t}
            \cup {r \in TenantAdmins : RoleTenant[r] = NoTenant}

\* the role is not looked up
SlipAssignableGone(r, t) == r \in Gives(t)

\* _get_assignable_role
Assignable(r, t) == r \in roles \cap Gives(t)

\* a role the tenant may hand out is one it may edit
SlipOwned(r, t) == Assignable(r, t)

\* _get_owned_role: a role only its own tenant edits
Owned(r, t) == r \in roles /\ RoleTenant[r] = t

Delegable(p) == p \in active \cap grantable

-------------------------------------------------------------------------------
(* Readers.                                                                *)

\* a cache miss: the membership, its roles, its direct permissions
BeginRead(p, m) ==
  /\ "read" \in Ops
  /\ ~Cached(m) /\ m \in DOMAIN primary
  /\ Start(p, [NewReq("read", m[2], m) EXCEPT
                 !.held = Held(m, {NoScope}), !.names = DirectNames(m)])

\* then what the roles hold; the result goes to the cache, which may refuse it
Fill(p) ==
  LET r == req[p] IN
  /\ r.kind = "read"
  /\ \/ cache' = [cache EXCEPT ![r.m] =
                    [perms |-> r.names \cup RoleNames(r.held), left |-> CacheTTL]]
     \/ CacheFails /\ UNCHANGED cache
  /\ Finish(p)
  /\ UNCHANGED <<db, platformGave>>

-------------------------------------------------------------------------------
(* Changes to a member.  `a` is who asks.                                  *)

\* get_one raises on two rows, so a change that looks one up needs at most one
RowsFor(m, r, s) == {x \in RoleRows(m, {s}) : x.role = r}
RowsOf(m, q) == {x \in PermRows(m) : x.perm = q}

Change(m) == [NewReq("member", m[2], m) EXCEPT !.keys = {m}]

\* assign_role_to_member
BeginAssignRole(p, a, m, r) ==
  /\ "assign" \in Ops
  /\ Manages(a, m[2]) /\ m \in DOMAIN primary /\ Assignable(r, m[2])
  /\ Start(p, [Change(m) EXCEPT !.primaryTo = {r}])

\* over REST an administrator asks, without a scope; over IPC a trusted plugin
Entitled(a, m, s) == \/ Manages(a, m[2]) /\ s = NoScope
                     \/ "ipc" \in Ops

\* add_role_to_member
BeginAddRole(p, a, m, r, s) ==
  /\ "addRole" \in Ops
  /\ Entitled(a, m, s) /\ m \in DOMAIN primary /\ Assignable(r, m[2])
  /\ RowsFor(m, r, s) = {}
  /\ Start(p, [Change(m) EXCEPT !.addRoles = {r}, !.scope = s])

\* remove_role_from_member: the row, and the primary role if it is that one
BeginDropRole(p, a, m, r, s) ==
  LET isPrimary == s = NoScope /\ m \in DOMAIN primary /\ primary[m] = r IN
  /\ "dropRole" \in Ops
  /\ Entitled(a, m, s)
  /\ Cardinality(RowsFor(m, r, s)) <= 1
  /\ RowsFor(m, r, s) # {} \/ isPrimary
  /\ Start(p, [Change(m) EXCEPT
                 !.dropRows = RowsFor(m, r, s), !.scope = s,
                 !.primaryTo = IF isPrimary THEN {NoRole} ELSE {}])

\* the insert relies on the unique constraint
SlipBeginGrant(p, a, m, q) ==
  /\ "grant" \in Ops
  /\ Manages(a, m[2]) /\ m \in DOMAIN primary /\ Delegable(q)
  /\ Start(p, [Change(m) EXCEPT !.addPerms = {q}])

\* grant_permission_to_member
BeginGrant(p, a, m, q) ==
  /\ "grant" \in Ops
  /\ Manages(a, m[2]) /\ m \in DOMAIN primary /\ Delegable(q)
  /\ RowsOf(m, q) = {}
  /\ Start(p, [Change(m) EXCEPT !.addPerms = {q}])

\* revoke_permission_from_member
BeginRevoke(p, a, m, q) ==
  /\ "revoke" \in Ops
  /\ Manages(a, m[2]) /\ Cardinality(RowsOf(m, q)) = 1
  /\ Start(p, [Change(m) EXCEPT !.dropRows = RowsOf(m, q)])

\* the role that was primary is the one left out
SlipWanted(m, r, R) == R \ {primary[m]}

\* the added roles a save asks for beside the primary one
Wanted(m, r, R) == R \ {r}

\* IamService.member_save: the whole of a member's accesses, by difference.
\* Nobody but the platform takes away or changes an access of their own.  A row
\* for the role that was primary is not part of the difference; one for the role
\* that becomes primary is dropped, and remove_role_from_member then finds that
\* role in the column it has just been written to, and clears it.
BeginMemberSave(p, a, m, r, R, Q) ==
  LET before == {x.role : x \in RoleRows(m, {NoScope})}
      wanted == Wanted(m, r, R)
      add  == wanted \ before
      drop == {x \in RoleRows(m, {NoScope}) : /\ x.role # primary[m]
                                              /\ x.role \notin wanted}
      addQ  == Q \ {x.perm : x \in PermRows(m)}
      dropQ == {x \in PermRows(m) : x.perm \notin Q}
      changed == r # primary[m]
      column == IF r \in {x.role : x \in drop} THEN NoRole ELSE r
  IN /\ "memberSave" \in Ops
     /\ IamManages(a, m[2]) /\ m \in DOMAIN primary
     /\ changed /\ r # NoRole => Assignable(r, m[2])
     /\ \A x \in add : Assignable(x, m[2])
     /\ \A q \in addQ : Delegable(q)
     /\ \A x \in drop : Cardinality(RowsFor(m, x.role, NoScope)) = 1
     /\ \A x \in dropQ : Cardinality(RowsOf(m, x.perm)) = 1
     /\ a = m[1] /\ ~IamAdmin(a, m[2]) => drop = {} /\ dropQ = {} /\ ~changed
     /\ changed \/ add # {} \/ drop # {} \/ addQ # {} \/ dropQ # {}
     /\ Start(p, [Change(m) EXCEPT
                    !.primaryTo = IF changed THEN {column} ELSE {},
                    !.addRoles = add, !.addPerms = addQ,
                    !.dropRows = drop \cup dropQ,
                    !.asked = (R \cup {r}) \ {NoRole}])

\* remove_member, which leaves the cache alone, and IamService.member_remove.
\* The rows of the two association tables stay.
BeginLeave(p, a, m) ==
  /\ "leave" \in Ops
  /\ m \in DOMAIN primary \ Owners
  /\ \/ /\ Manages(a, m[2])
        /\ Start(p, NewReq("leave", m[2], m))
     \/ /\ IamManages(a, m[2]) /\ a # m[1]
        /\ Start(p, [NewReq("leave", m[2], m) EXCEPT !.keys = {m}])

-------------------------------------------------------------------------------
(* Changes to a role.                                                      *)

MembersOf(t) == {m \in DOMAIN primary : m[2] = t}

\* create_tenant_role; or create_role, by the platform: any name, no permission
CreateRole(a, r, Q) ==
  LET t == RoleTenant[r] IN
  /\ "createRole" \in Ops
  /\ r \notin roles
  /\ \/ t # NoTenant /\ Manages(a, t) /\ \A q \in Q : Delegable(q)
     \/ PlatformAdmin(a) /\ Q = {}
  /\ roles' = roles \cup {r}
  /\ rolePerms' = [rolePerms EXCEPT ![r] = Q]
  /\ UNCHANGED <<joined, active, grantable, primary, extra, direct, fresh, cache,
                 req, platformGave>>

\* add_permission_to_tenant_role and remove_permission_from_tenant_role, which
\* change one; IamService.role_save changes several and checks all of them.
BeginRoleSave(p, a, t, r, Q) ==
  /\ "roleSave" \in Ops
  /\ Manages(a, t) /\ Owned(r, t)
  /\ \/ \A q \in Q : Delegable(q)
     \/ \E q \in Perms : \/ Q = rolePerms[r] \cup {q} /\ Delegable(q)
                        \/ Q = rolePerms[r] \ {q}
  /\ Start(p, [NewReq("role", t, <<NoUser, NoTenant>>) EXCEPT
                 !.role = r, !.addPerms = Q \ rolePerms[r],
                 !.dropPerms = rolePerms[r] \ Q, !.keys = MembersOf(t)])

\* What a request of the platform changes: any role, any permission.
PlatformChange(r, Q, K) ==
  [IdleReq EXCEPT !.kind = "role", !.role = r, !.mark = fresh, !.keys = K,
                  !.addPerms = Q \ rolePerms[r], !.dropPerms = rolePerms[r] \ Q]

\* assign_permission_to_role and remove_permission_from_role change one, and
\* leave the cache alone; IamService._save_platform_role gives a platform role
\* any active permissions, and deletes the entries of the organisation it was
\* called from, where the caller must hold admin:*.
BeginPlatformRole(p, a, r, Q) ==
  /\ "platformRole" \in Ops
  /\ r \in roles
  /\ \/ /\ PlatformAdmin(a)
        /\ \E q \in Perms : Q \in {rolePerms[r] \cup {q}, rolePerms[r] \ {q}}
        /\ Start(p, PlatformChange(r, Q, {}))
     \/ /\ RoleTenant[r] = NoTenant /\ Q \subseteq active
        /\ \E t \in Tenants : /\ IamAdmin(a, t)
                              /\ Start(p, PlatformChange(r, Q, MembersOf(t)))

\* delete_tenant_role; IamService.role_delete asks first that nobody holds it
BeginDeleteRole(p, a, t, r) ==
  LET holders == {m \in MembersOf(t) : primary[m] = r}
      rows == {x \in extra : x.m[2] = t /\ x.role = r}
  IN /\ "deleteRole" \in Ops
     /\ Manages(a, t) /\ Owned(r, t)
     /\ Start(p, [NewReq("delete", t, <<NoUser, NoTenant>>) EXCEPT
                    !.role = r, !.dropPerms = rolePerms[r],
                    !.stripped = holders, !.dropRows = rows,
                    !.keys = holders \cup {x.m : x \in rows}])

-------------------------------------------------------------------------------
(* The rest of a request.                                                  *)

\* _invalidate_cache: an exception is swallowed
Invalidate(p, m) ==
  /\ m \in req[p].keys
  /\ req' = [req EXCEPT ![p].keys = @ \ {m}]
  /\ \/ cache' = [cache EXCEPT ![m].left = 0, ![m].perms = {}]
     \/ CacheFails /\ UNCHANGED cache
  /\ UNCHANGED <<db, platformGave>>

Ready(p, k) == req[p].kind = k /\ req[p].keys = {}

\* one more row for each role or permission added
NewRoleRows(r, i) == {[id |-> i, m |-> r.m, role |-> x, scope |-> r.scope] :
                        x \in r.addRoles}
NewPermRows(r, i) == {[id |-> i, m |-> r.m, perm |-> x] : x \in r.addPerms}

CommitMember(p) ==
  LET r == req[p] IN
  /\ Ready(p, "member")
  /\ r.primaryTo # {} => Current(r, r.m)
  /\ (r.primaryTo \cup r.addRoles) \ {NoRole} \subseteq roles
  /\ r.scope # NoScope => \A x \in r.addRoles : RowsFor(r.m, x, r.scope) = {}
  /\ primary' = [m \in DOMAIN primary |->
                   IF m = r.m /\ r.primaryTo # {}
                   THEN CHOOSE x \in r.primaryTo : TRUE ELSE primary[m]]
  /\ IF r.addRoles \cup r.addPerms = {} THEN UNCHANGED fresh
     ELSE fresh <= MaxRows /\ fresh' = fresh + 1
  /\ extra' = (extra \ r.dropRows) \cup NewRoleRows(r, fresh)
  /\ direct' = (direct \ r.dropRows) \cup NewPermRows(r, fresh)
  /\ Finish(p)
  /\ UNCHANGED <<joined, active, grantable, roles, rolePerms, cache, platformGave>>

CommitLeave(p) ==
  /\ Ready(p, "leave")
  /\ primary' = [m \in {x \in DOMAIN primary :
                         ~(x = req[p].m /\ Current(req[p], x))} |-> primary[m]]
  /\ Finish(p)
  /\ UNCHANGED <<joined, active, grantable, roles, rolePerms, extra, direct, fresh,
                 cache, platformGave>>

\* A pair already there, or already gone, makes the whole commit fail.
CommitRole(p) ==
  LET r == req[p] IN
  /\ Ready(p, "role")
  /\ r.role \in roles
  /\ r.addPerms \cap rolePerms[r.role] = {}
  /\ r.dropPerms \subseteq rolePerms[r.role]
  /\ rolePerms' = [rolePerms EXCEPT ![r.role] = (@ \ r.dropPerms) \cup r.addPerms]
  /\ platformGave' =
       (platformGave \/ (r.tenant = NoTenant /\ AdminPerm \in r.addPerms))
  /\ Finish(p)
  /\ UNCHANGED <<joined, active, grantable, roles, primary, extra, direct, fresh,
                 cache>>

\* Nothing may refer to the role any more.
CommitDelete(p) ==
  LET r == req[p] IN
  /\ Ready(p, "delete")
  /\ r.role \in roles /\ rolePerms[r.role] = r.dropPerms
  /\ \A m \in r.stripped : Current(r, m)
  /\ \A m \in DOMAIN primary \ r.stripped : primary[m] # r.role
  /\ \A x \in (extra \ r.dropRows) : x.role # r.role
  /\ roles' = roles \ {r.role}
  /\ rolePerms' = [rolePerms EXCEPT ![r.role] = {}]
  /\ primary' = [m \in DOMAIN primary |->
                   IF m \in r.stripped THEN NoRole ELSE primary[m]]
  /\ extra' = (extra \ r.dropRows)
  /\ Finish(p)
  /\ UNCHANGED <<joined, active, grantable, direct, fresh, cache, platformGave>>

\* A refused commit, an exception, a client gone: what was deleted from the
\* cache stays deleted.
Abort(p) ==
  /\ req[p].kind # "idle"
  /\ Finish(p)
  /\ UNCHANGED <<db, cache, platformGave>>

-------------------------------------------------------------------------------
(* What happens around: memberships made, plugins, time.                   *)

\* An accepted invitation: no role, one of the tenant's, or tenant_admin.
Join(m, r) ==
  /\ "join" \in Ops
  /\ m \notin DOMAIN primary /\ (r = NoRole \/ Assignable(r, m[2]))
  /\ primary' = [x \in DOMAIN primary \cup {m} |-> IF x = m THEN r ELSE primary[x]]
  /\ fresh <= MaxRows /\ fresh' = fresh + 1
  /\ joined' = [joined EXCEPT ![m] = fresh]
  /\ UNCHANGED <<active, grantable, roles, rolePerms, extra, direct, cache, req,
                 platformGave>>

\* A plugin declares D, of which G may be delegated and A goes to tenant_admin.
\* The cache is not told.  get_by_name raises where the platform has two roles
\* of that name.
Declare(D, G, A) ==
  /\ "declare" \in Ops
  /\ A # {} => \A r \in roles \cap TenantAdmins :
                RoleTenant[r] = NoTenant => r = TenantAdmin
  /\ active' = (active \ PluginPerms) \cup D
  /\ grantable' = (grantable \ D) \cup G
  /\ rolePerms' = [rolePerms EXCEPT ![Admin] = @ \cup D, ![TenantAdmin] = @ \cup A]
  /\ UNCHANGED <<joined, roles, primary, extra, direct, fresh, cache, req,
                 platformGave>>

Unload ==
  /\ "declare" \in Ops
  /\ active' = active \ PluginPerms
  /\ UNCHANGED <<joined, grantable, roles, rolePerms, primary, extra, direct, fresh,
                 cache, req, platformGave>>

\* the entry was written without `ex`
SlipAged(n) == n

\* a cache entry lives CacheTTL ticks
Aged(n) == IF n > 0 THEN n - 1 ELSE 0

Tick ==
  /\ \E m \in Members : Cached(m)
  /\ cache' = [m \in Members |->
                 [left |-> Aged(cache[m].left),
                  perms |-> IF Aged(cache[m].left) = 0 THEN {} ELSE cache[m].perms]]
  /\ UNCHANGED <<db, req, platformGave>>

-------------------------------------------------------------------------------
Init ==
  /\ active = Perms /\ grantable = FirstGrantable
  /\ roles = FirstRoles /\ rolePerms = FirstPerms
  /\ primary = FirstPrimary /\ joined = [m \in Members |-> 0]
  /\ extra = {} /\ direct = {} /\ fresh = 1
  /\ cache = [m \in Members |-> [perms |-> {}, left |-> 0]]
  /\ req = [p \in Procs |-> IdleReq]
  /\ platformGave = FALSE

\* the roles a save for m may name without being refused
Choices(m) == {r \in roles : Assignable(r, m[2]) \/ r \in Held(m, {NoScope})}

Request(p, a) ==
  \/ \E m \in Members, r \in Roles : BeginAssignRole(p, a, m, r)
  \/ \E m \in Members, r \in Roles, s \in Bucket : \/ BeginAddRole(p, a, m, r, s)
                                                   \/ BeginDropRole(p, a, m, r, s)
  \/ \E m \in Members, q \in Perms : BeginGrant(p, a, m, q) \/ BeginRevoke(p, a, m, q)
  \/ \E m \in {x \in DOMAIN primary : IamManages(a, x[2])} :
        \E r \in Choices(m) \cup {NoRole}, R \in SUBSET Choices(m), Q \in SUBSET Perms :
          BeginMemberSave(p, a, m, r, R, Q)
  \/ \E m \in Members : BeginLeave(p, a, m)
  \/ \E r \in Roles, Q \in SUBSET Perms : BeginPlatformRole(p, a, r, Q)
  \/ \E t \in Tenants, r \in Roles, Q \in SUBSET Perms : BeginRoleSave(p, a, t, r, Q)
  \/ \E t \in Tenants, r \in Roles : BeginDeleteRole(p, a, t, r)

Proceed(p) ==
  \/ Fill(p)
  \/ \E m \in Members : Invalidate(p, m)
  \/ CommitMember(p) \/ CommitLeave(p) \/ CommitRole(p) \/ CommitDelete(p)
  \/ Abort(p)

Next ==
  \/ \E p \in Procs : \/ \E m \in Members : BeginRead(p, m)
                      \/ req[p].kind = "idle" /\ \E a \in Users : Request(p, a)
                      \/ Proceed(p)
  \/ \E a \in Users, r \in Roles, Q \in SUBSET Perms : CreateRole(a, r, Q)
  \/ \E m \in Members, r \in Roles \cup {NoRole} : Join(m, r)
  \/ \E D \in SUBSET PluginPerms : \E G, A \in SUBSET D : Declare(D, G, A)
  \/ Unload
  \/ Tick

\* Cache entries expire, and a request that has begun ends, one way or another.
Fairness == WF_vars(Tick) /\ \A p \in Procs : WF_vars(Proceed(p))

Spec == Init /\ [][Next]_vars /\ Fairness

-------------------------------------------------------------------------------
(* Properties.                                                             *)

\* Every variable keeps its type; rows name ids already drawn.
TypeOK ==
  /\ active \subseteq Perms /\ grantable \subseteq Perms
  /\ roles \subseteq Roles /\ rolePerms \in [Roles -> SUBSET Perms]
  /\ DOMAIN primary \subseteq Members
  /\ primary \in [DOMAIN primary -> roles \cup {NoRole}]
  /\ joined \in [Members -> 0 .. MaxRows]
  /\ extra \subseteq RoleRow /\ direct \subseteq PermRow
  /\ \A x \in extra \cup direct : x.id < fresh
  /\ \A x \in extra : x.role \in roles
  /\ fresh \in 1 .. MaxRows + 1
  /\ cache \in [Members -> [perms : SUBSET Perms, left : 0 .. CacheTTL]]
  /\ req \in [Procs -> Req]
  /\ platformGave \in BOOLEAN

Staff == {u \in Users : \E t \in Tenants :
            <<u, t>> \in DOMAIN FirstPrimary /\ FirstPrimary[<<u, t>>] = Admin}

\* routes/_scope.py: an organisation's administrator cannot make admin:* for
\* themselves, by any sequence of delegations, roles created and edited, direct
\* grants and members joining; unless the platform gave it.  That plugins cannot
\* declare it is PluginsApart of Catalogue.
NoSelfMadeAdmin ==
  ~platformGave => \A u \in Users : PlatformAdmin(u) => u \in Staff

\* What an organisation's administrator does changes nothing in another
\* organisation, though tenant_admin is one role shared by all of them.
Isolation ==
  [][\A p \in Procs :
       (req[p].tenant # NoTenant /\ req'[p].kind = "idle") =>
         \A m \in Members : m[2] # req[p].tenant => Effective(m)' = Effective(m)]_vars

\* services/rbac/members.py: a scope is looked at where permissions are computed
\* and nowhere else.  A role given or taken for a scope changes no permission
\* anyone has outside it; but a role named tenant_admin, which is asked for by
\* name, makes or unmakes its member an administrator of the whole organisation.
\* That is the only door it opens or shuts, and no other role opens any.
ScopeReach ==
  [][\A p \in Procs :
       (req[p].scope # NoScope /\ req'[p].kind = "idle") =>
         /\ \A m \in Members : Effective(m)' = Effective(m)
         /\ \A u \in Users, t \in Tenants :
              Runs(u, t)' # Runs(u, t) =>
                /\ <<u, t>> = req[p].m
                /\ (req[p].addRoles \cup {x.role : x \in req[p].dropRows})
                     \cap TenantAdmins # {}]_vars

\* IamService.member_save is given the whole of a member's accesses and applies
\* differences, step by step.  Saved alone, every role it names is held in the
\* end, except one whose added row the save itself took away.
SaveKeepsAsked ==
  [][\A p \in Procs, m \in Members :
       (m = req[p].m /\ req'[p].kind = "idle" /\ db' # db) =>
         \A r \in req[p].asked \ {x.role : x \in req[p].dropRows \cap RoleRow} :
           r \in Held(m, {NoScope})']_vars

\* The unique constraint of xauth_member_permissions does not bite on NULL
\* scopes: what keeps rows single is the look before the insert.  A second row
\* comes only from a request that had looked before the first was committed.
TwinsOnlyTogether ==
  [][\A p \in Procs :
       (req[p].kind = "member" /\ req'[p].kind = "idle") =>
         \A x \in direct' \ direct, y \in direct \cap direct' :
           (x.m = y.m /\ x.perm = y.perm) => y.id >= req[p].mark]_vars

Fresh == \A m \in Members : Cached(m) => cache[m].perms = Effective(m)

\* Once the tables stop changing, what members are told catches up with them and
\* stays right, although readers fill the cache with what they read earlier and
\* deletions of cache entries may be lost.
CatchesUp == <>[][FALSE]_db => <>[]Fresh

-------------------------------------------------------------------------------
(* What the documentation says and the code does not do.                   *)

\* docs/rbac-frontend.md: when a change is answered, the server's cache has
\* already been invalidated.  Then, with nothing in flight, it is right.
FreshWhenAnswered == (\A p \in Procs : req[p].kind = "idle") => Fresh

\* models/rbac.py, uq_member_permission: one row per member and permission.
OneRowPerGrant ==
  \A x, y \in direct : x.m = y.m /\ x.perm = y.perm => x = y

\* models/rbac.py: a role given for a scope is effective in that scope only.
ScopedRoleStaysScoped ==
  \A m \in DOMAIN primary :
    NamedRoles(m) \cap TenantAdmins # {} =>
      Held(m, {NoScope}) \cap TenantAdmins # {}

\* IamService.member_save: the whole of the accesses is given.  Then whatever
\* role was asked for is held once the save has committed.
SavedRolesHeld ==
  [][\A p \in Procs, m \in Members :
       (m = req[p].m /\ req'[p].kind = "idle" /\ db' # db) =>
         \A r \in req[p].asked : r \in Held(m, {NoScope})']_vars
=============================================================================
