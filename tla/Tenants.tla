-------------------------------- MODULE Tenants --------------------------------
(***************************************************************************)
(* Organisations: seeded at each start, created over HTTP or when a user   *)
(* registers, deleted by the platform; their owners, their roles, and the  *)
(* event that tells the other plugins of a new one.                        *)
(*                                                                         *)
(* A creation reads (how many organisations the user has, the slug, the    *)
(* role of owners), commits, and sends the event after the commit; the     *)
(* service may stop in between.  The unique keys and foreign keys of the   *)
(* schema decide at the commit.  How members come by invitation, what      *)
(* roles hold and what sessions see is in Invites, Rbac and Sessions.      *)
(***************************************************************************)
EXTENDS Naturals, FiniteSets

CONSTANTS
  Users, Adm,            \* accounts; Adm is that of ADMIN_EMAIL
  Slugs, Home,           \* Home is ADMIN_TENANT_SLUG
  Names,                 \* names of roles
  AdminName, OwnerName,  \* ADMIN_ROLE_NAME and tenant_admin
  Limit,                 \* how many organisations a user may have: 3
  Procs,                 \* request slots
  NoTenant, NoUser, NoSlug, NoRole,
  MaxTenants, MaxRoles,  \* bounds: organisations and roles ever created,
  MaxInvited             \* and organisations with invitations at a time

ASSUME NameAssumption ==
  /\ Adm \in Users /\ Home \in Slugs
  /\ {AdminName, OwnerName} \subseteq Names /\ AdminName # OwnerName
ASSUME NullAssumption ==
  /\ NoTenant \notin Nat /\ NoRole \notin Nat
  /\ NoUser \notin Users /\ NoSlug \notin Slugs
ASSUME BoundAssumption ==
  /\ Limit \in Nat \ {0} /\ MaxTenants \in Nat \ {0} /\ MaxRoles \in Nat
  /\ MaxInvited \in Nat

VARIABLES
  up,        \* is the service running?
  toTell,    \* the organisation to announce when the plugins are loaded
  accounts,  \* table xauth_users
  closed,    \* the accounts deleted from it
  tenants,   \* table xauth_tenants: id -> slug
  members,   \* table xauth_tenant_members: <<user, tenant>> -> role
  owners,    \* the memberships with is_owner
  roles,     \* table xauth_roles: id -> [home, name]; NoTenant: the platform's
             \* (history: did the seed create it?)
  invited,   \* organisations a row of xauth_invites refers to
  req,       \* the requests in flight
  made,      \* history: organisations ever committed
  told,      \* history: organisations whose event was sent
  lost       \* history: those whose event was lost by a stop or an exception

people == <<accounts, closed>>
db == <<people, tenants, members, owners, roles, invited>>
history == <<made, told, lost>>
vars == <<up, toTell, db, req, history>>

-------------------------------------------------------------------------------
Ids == 1 .. MaxTenants
RoleIds == 1 .. MaxRoles
Role(home, name, seeded) == [home |-> home, name |-> name, seeded |-> seeded]
Members == Users \X Ids

Req == [kind : {"idle", "create", "setup", "delete", "owes"},
        user : Users \cup {NoUser}, slug : Slugs \cup {NoSlug},
        role : RoleIds \cup {NoRole},
        tenant : Ids \cup {NoTenant}, \* the one it deletes, or has created
        saw : SUBSET Members,    \* delete: the rows it loaded, still there
        late : BOOLEAN]          \* history: has he had another row since?

NewReq(kind) == [kind |-> kind, user |-> NoUser, slug |-> NoSlug,
                 role |-> NoRole, tenant |-> NoTenant, saw |-> {},
                 late |-> FALSE]
Idle == NewReq("idle")

Begin(p, r) == /\ up /\ req[p] = Idle
               /\ req' = [req EXCEPT ![p] = r]
               /\ UNCHANGED <<up, toTell, db, history>>

Finish(p) == req' = [req EXCEPT ![p] = Idle]

\* a row is inserted for m: no request in flight has seen it
Inserted(m) == [q \in Procs |->
                  [req[q] EXCEPT !.late = @ \/ req[q].user = m[1],
                                 !.saw = @ \ {m}]]

Of(u) == {m \in DOMAIN members : m[1] = u}
In(t) == {m \in DOMAIN members : m[2] = t}

\* f with f[x] = y
With(f, x, y) == [z \in DOMAIN f \cup {x} |-> IF z = x THEN y ELSE f[z]]
Without(f, S) == [z \in DOMAIN f \ S |-> f[z]]

\* identifiers are random: none comes twice
NewId == CHOOSE i \in Ids : i \notin made
SomeId == Ids \ made # {}

\* The operators named Slip... are never used here: each is a mistake the code
\* could make in the definition that follows it, and that a property must catch.

\* whoever's they are
SlipNamed(n) == {r \in DOMAIN roles : roles[r].name = n}

\* the platform's roles of that name: list_for_tenant(None), then the first one
Named(n) == {r \in DOMAIN roles : roles[r].home = NoTenant /\ roles[r].name = n}

\* the roles an organisation may give a member (Rbac: Assignable)
Gives(t) == {r \in DOMAIN roles : roles[r].home = t} \cup Named(OwnerName)
            \cup {NoRole}

-------------------------------------------------------------------------------
(* Starts and stops.                                                       *)

Homes == {t \in DOMAIN tenants : tenants[t] = Home}

\* the role `admin` is looked for by a name it does not have
SlipMissing == {AdminName} \cup {n \in {OwnerName} : Named(n) = {}}

\* the roles the seed must create
Missing == {n \in {AdminName, OwnerName} : Named(n) = {}}

\* only an organisation just created is announced
SlipToAnnounce(t) == IF t \in made THEN NoTenant ELSE t

\* run_seed returns the organisation whether it was there or not
ToAnnounce(t) == t

\* on_load: one transaction creates or repairs the organisation, the roles, the
\* account and its membership.  A start that fails changes nothing.
Start ==
  LET ids == CHOOSE f \in [Missing -> RoleIds \ DOMAIN roles] :
               \A a, b \in Missing : f[a] = f[b] => a = b
  IN
  /\ ~up /\ up' = TRUE
  /\ Homes = {} => SomeId
  /\ Cardinality(RoleIds \ DOMAIN roles) >= Cardinality(Missing)
  /\ roles' = [r \in DOMAIN roles \cup {ids[n] : n \in Missing} |->
                 IF r \in DOMAIN roles THEN roles[r]
                 ELSE Role(NoTenant, CHOOSE n \in Missing : ids[n] = r, TRUE)]
  /\ \E t \in (IF Homes = {} THEN {NewId} ELSE Homes), r \in Named(AdminName)' :
       /\ tenants' = With(tenants, t, Home)
       /\ members' = With(members, <<Adm, t>>, r)
       /\ owners' = owners \cup {<<Adm, t>>}
       /\ made' = made \cup {t}
       /\ toTell' = ToAnnounce(t)
  /\ accounts' = accounts \cup {Adm} /\ closed' = closed \ {Adm}
  /\ UNCHANGED <<invited, req, told, lost>>

\* xcore.plugins.booted: the event is sent; an exception is swallowed
Announce ==
  /\ up /\ toTell # NoTenant
  /\ toTell' = NoTenant
  /\ \/ told' = told \cup {toTell} /\ UNCHANGED lost
     \/ lost' = lost \cup {toTell} /\ UNCHANGED told
  /\ UNCHANGED <<up, db, req, made>>

Owes(p) == req[p].kind = "owes"
Owed == {req[p].tenant : p \in {q \in Procs : Owes(q)}}

\* the process ends: what was in flight is gone
Stop ==
  /\ up /\ up' = FALSE
  /\ toTell' = NoTenant
  /\ req' = [p \in Procs |-> Idle]
  /\ lost' = lost \cup Owed
  /\ UNCHANGED <<db, made, told>>

-------------------------------------------------------------------------------
(* Organisations created.                                                  *)

Free(s) == \A t \in DOMAIN tenants : tenants[t] # s

\* the limit is passed by one
SlipRoomFor(u) == Cardinality(Of(u)) <= Limit

\* create_tenant counts the memberships, owned or not
RoomFor(u) == Cardinality(Of(u)) < Limit

\* create_tenant
BeginCreate(p, u, s, r) ==
  /\ u \in accounts /\ RoomFor(u) /\ Free(s)
  /\ r \in Named(OwnerName)
  /\ Begin(p, [NewReq("create") EXCEPT !.user = u, !.slug = s, !.role = r])

\* setup_create_tenant: no limit, and an owner without a role if none is found
BeginSetup(p, u, s, r) ==
  /\ u \in accounts /\ Free(s)
  /\ r \in (IF Named(OwnerName) = {} THEN {NoRole} ELSE Named(OwnerName))
  /\ Begin(p, [NewReq("setup") EXCEPT !.user = u, !.slug = s, !.role = r])

\* the membership does not refer to an account
SlipInsertable(r) == Free(r.slug)

\* the keys of the two tables
Insertable(r) == r.user \in accounts /\ Free(r.slug)

\* the organisation and its owner, if nobody took the slug meanwhile
Commit(p) ==
  LET r == req[p]
      m == <<r.user, NewId>>
  IN
  /\ r.kind \in {"create", "setup"}
  /\ Insertable(r) /\ SomeId
  /\ tenants' = With(tenants, NewId, r.slug)
  /\ members' = With(members, m, r.role)
  /\ owners' = owners \cup {m}
  /\ made' = made \cup {NewId}
  /\ req' = [Inserted(m) EXCEPT ![p] = [NewReq("owes") EXCEPT !.tenant = NewId]]
  /\ UNCHANGED <<up, toTell, people, roles, invited, told, lost>>

\* tenant_created, after the commit: those who listen may raise
Tell(p) ==
  /\ Owes(p)
  /\ \/ told' = told \cup {req[p].tenant} /\ UNCHANGED lost
     \/ lost' = lost \cup {req[p].tenant} /\ UNCHANGED told
  /\ Finish(p)
  /\ UNCHANGED <<up, toTell, db, made>>

\* a key refuses, or the request fails otherwise
Abort(p) ==
  /\ req[p].kind \in {"create", "setup", "delete"}
  /\ Finish(p)
  /\ UNCHANGED <<up, toTell, db, history>>

-------------------------------------------------------------------------------
(* Organisations deleted.                                                  *)

BeginDelete(p, t) ==
  /\ t \in DOMAIN tenants
  /\ Begin(p, [NewReq("delete") EXCEPT !.tenant = t, !.saw = In(t)])

\* Members go with it and its roles become the platform's, whatever they are
\* named.  An invitation, used or not, refuses the deletion; so does a
\* membership it had not loaded, and so do rows of tables that are not here
\* (roles added to a member, for one): that is an Abort.
CommitDelete(p) ==
  LET t == req[p].tenant IN
  /\ req[p].kind = "delete"
  /\ t \in DOMAIN tenants /\ t \notin invited
  /\ In(t) \subseteq req[p].saw
  /\ tenants' = Without(tenants, {t})
  /\ members' = Without(members, In(t)) /\ owners' = owners \ In(t)
  /\ roles' = [r \in DOMAIN roles |->
                 IF roles[r].home = t THEN [roles[r] EXCEPT !.home = NoTenant]
                 ELSE roles[r]]
  /\ Finish(p)
  /\ UNCHANGED <<up, toTell, people, invited, history>>

-------------------------------------------------------------------------------
(* What happens in organisations and to accounts.                          *)

\* an invitation is created, and its row stays
Invite(t) ==
  /\ up /\ t \in DOMAIN tenants /\ Cardinality(invited) < MaxInvited
  /\ invited' = invited \cup {t}
  /\ UNCHANGED <<up, toTell, people, tenants, members, owners, roles, req,
                 history>>

\* an invitation is accepted
Join(u, t, r) ==
  /\ up /\ u \in accounts /\ t \in invited \cap DOMAIN tenants
  /\ <<u, t>> \notin DOMAIN members /\ r \in Gives(t)
  /\ members' = With(members, <<u, t>>, r)
  /\ req' = Inserted(<<u, t>>)
  /\ UNCHANGED <<up, toTell, people, tenants, owners, roles, invited, history>>

\* remove_member: not the owner
RemoveMember(m) ==
  /\ up /\ m \in DOMAIN members \ owners
  /\ members' = Without(members, {m})
  /\ UNCHANGED <<up, toTell, people, tenants, owners, roles, invited, req,
                 history>>

\* a role under any name: of an organisation (create_tenant_role, create_role), or
\* of the platform (create_role), which asks for no name of its own
CreateRole(home, n) ==
  /\ up /\ home \in DOMAIN tenants \cup {NoTenant}
  /\ RoleIds \ DOMAIN roles # {}
  /\ roles' = With(roles, CHOOSE r \in RoleIds : r \notin DOMAIN roles,
                   Role(home, n, FALSE))
  /\ UNCHANGED <<up, toTell, people, tenants, members, owners, invited, req,
                 history>>

\* an account is registered; a deleted one does not come back, but the seed's
Register(u) ==
  /\ up /\ u \notin accounts \cup closed
  /\ accounts' = accounts \cup {u}
  /\ UNCHANGED <<up, toTell, closed, tenants, members, owners, roles, invited,
                 req, history>>

\* delete_user: the memberships go with the account, the organisations stay
DeleteUser(u) ==
  /\ up /\ u \in accounts
  /\ accounts' = accounts \ {u} /\ closed' = closed \cup {u}
  /\ members' = Without(members, Of(u)) /\ owners' = owners \ Of(u)
  /\ UNCHANGED <<up, toTell, tenants, roles, invited, req, history>>

-------------------------------------------------------------------------------
\* a database nothing was ever seeded in
Init ==
  /\ up = FALSE /\ toTell = NoTenant
  /\ accounts = {} /\ closed = {}
  /\ tenants = [t \in {} |-> Home] /\ members = [m \in {} |-> NoRole]
  /\ owners = {} /\ roles = [r \in {} |-> NoRole] /\ invited = {}
  /\ req = [p \in Procs |-> Idle]
  /\ made = {} /\ told = {} /\ lost = {}

Next ==
  \/ Start \/ Announce \/ Stop
  \/ \E p \in Procs :
       \/ \E u \in Users, s \in Slugs, r \in DOMAIN roles \cup {NoRole} :
            BeginCreate(p, u, s, r) \/ BeginSetup(p, u, s, r)
       \/ \E t \in Ids : BeginDelete(p, t)
       \/ Commit(p) \/ Tell(p) \/ CommitDelete(p) \/ Abort(p)
  \/ \E t \in Ids : Invite(t)
  \/ \E home \in Ids \cup {NoTenant}, n \in Names : CreateRole(home, n)
  \/ \E m \in Members, r \in DOMAIN roles \cup {NoRole} : Join(m[1], m[2], r)
  \/ \E m \in Members : RemoveMember(m)
  \/ \E u \in Users : Register(u) \/ DeleteUser(u)

Spec == Init /\ [][Next]_vars

-------------------------------------------------------------------------------
(* Properties.                                                             *)

\* Every variable keeps its type; slugs are unique, memberships and roles name
\* what exists.
TypeOK ==
  /\ up \in BOOLEAN /\ toTell \in Ids \cup {NoTenant}
  /\ accounts \subseteq Users /\ closed \subseteq Users \ accounts
  /\ DOMAIN tenants \subseteq made /\ tenants \in [DOMAIN tenants -> Slugs]
  /\ \A s, t \in DOMAIN tenants : tenants[s] = tenants[t] => s = t
  /\ DOMAIN members \subseteq accounts \X DOMAIN tenants
  /\ members \in [DOMAIN members -> DOMAIN roles \cup {NoRole}]
  /\ owners \subseteq DOMAIN members
  /\ DOMAIN roles \subseteq RoleIds
  /\ roles \in [DOMAIN roles -> [home : DOMAIN tenants \cup {NoTenant},
                                 name : Names, seeded : BOOLEAN]]
  /\ invited \subseteq DOMAIN tenants
  /\ req \in [Procs -> Req]
  /\ made \subseteq Ids /\ told \subseteq Ids /\ lost \subseteq Ids

\* routes/tenants.py: three organisations at most.  Creating one over HTTP takes
\* a user past the limit only when another membership of theirs was committed
\* after the request had counted.
LimitCounted ==
  [][\A p \in Procs, u \in Users :
       (req[p].kind = "create" /\ req[p].user = u /\ Owes(p)') =>
         Cardinality(Of(u)') <= Limit \/ req[p].late]_vars

\* main.py, _announce_seeded_tenant: no organisation is left unannounced.  While
\* the service runs, each has been, is owed an event by a request or the boot, or
\* lost its event to a stop or an exception; and a stop does not lose that of
\* the seeded one, announced anew at the next start.
NoneForgotten ==
  up => \A t \in DOMAIN tenants : t \in told \cup lost \cup Owed \cup {toTell}

\* services/invite.py, services/seed.py: the roles given out are found by name,
\* and roles change hands when an organisation is deleted.  What a member holds
\* is still a role of that organisation or of the platform.
RoleAtHome ==
  \A m \in DOMAIN members :
    members[m] # NoRole => roles[members[m]].home \in {m[2], NoTenant}

\* services/iam.py: the platform's roles are designated by their name, and nothing
\* keeps names single: POST /rbac/roles and the deletion of an organisation make
\* others.  The seed does not: whatever starts, stops and namesakes came, it made
\* each of its two roles once, and they stay.  So no creation finds the role of
\* owners missing, which would leave an owner without one, and what it found is
\* still the platform's, under that name, when it commits.
FoundByName ==
  /\ \A n \in {AdminName, OwnerName} :
       LET own == {r \in Named(n) : roles[r].seeded} IN
       /\ up => own # {}
       /\ \A r, s \in own : r = s
  /\ \A p \in Procs :
       req[p].kind \in {"create", "setup"} => req[p].role \in Named(OwnerName)

-------------------------------------------------------------------------------
(* What comments say and the code does not do.                             *)

\* routes/tenants.py: "Limite de 3 tenants atteinte".
LimitHolds ==
  \A u \in Users : Cardinality({m \in owners : m[1] = u}) <= Limit

\* models/rbac.py: a role with a tenant is that tenant's.
RolesStayHome ==
  [][\A r \in DOMAIN roles \cap DOMAIN roles' :
       roles[r].home # NoTenant => roles'[r].home = roles[r].home]_vars

\* RoleRepository.get_by_name asks for the one role of the platform of a name.
OneOfItsName == \A n \in {AdminName, OwnerName} : Cardinality(Named(n)) <= 1

\* main.py: whoever listens learns of each organisation.
AllTold == up => \A t \in DOMAIN tenants : t \in told \cup Owed \cup {toTell}
=============================================================================
