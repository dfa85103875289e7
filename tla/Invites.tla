-------------------------------- MODULE Invites --------------------------------
(***************************************************************************)
(* Invitations into an organisation: created over HTTP or IPC, accepted by *)
(* a signed-in user or during onboarding, revoked, swept away at start-up; *)
(* and the founding of organisations, the other way to become a member.    *)
(*                                                                         *)
(* Both ways of accepting read the invitation, check it, insert a          *)
(* membership and write two columns of the invitation, in one transaction  *)
(* and without a lock: a request is a Begin action, its reads and checks,  *)
(* and a commit that fails on the unique key of the memberships.           *)
(*                                                                         *)
(* The seed's administrator, a member of the seeded organisation from the  *)
(* start and as its owner for good, is not among the users here.           *)
(***************************************************************************)
EXTENDS Naturals, FiniteSets

CONSTANTS
  Users,             \* an address is its user: e-mails are unique
  Tenants, Roles,
  RoleTenant,        \* the organisation of a role, or Platform
  Platform,          \* "no organisation": a role of the platform
  TenantAdmin,       \* the platform's role every organisation may give
  Seeded,            \* the organisation of the seed
  NoRole, NoInvite, NoUser,
  Procs,             \* the requests that may be in flight together
  TTL,               \* expires_hours
  MaxInvites, MaxTime

ASSUME RoleAssumption ==
  /\ Platform \notin Tenants /\ RoleTenant \in [Roles -> Tenants \cup {Platform}]
  /\ TenantAdmin \in Roles /\ RoleTenant[TenantAdmin] = Platform
  /\ NoRole \notin Roles
ASSUME SeedAssumption == Seeded \in Tenants
ASSUME SlotAssumption == NoInvite \notin Nat /\ NoUser \notin Users
ASSUME TimeAssumption == TTL \in Nat /\ MaxInvites \in Nat /\ MaxTime \in Nat

VARIABLES
  now,         \* the clock
  fresh,       \* the next invitation
  invites,     \* table xauth_invites: id -> Invite
  members,     \* the role a membership came with: <<user, tenant>> -> role
  owners,      \* those of them that are is_owner
  carriers,    \* roles that carry admin:*
  req,         \* the requests in flight
  admitted     \* history: who came in by an invitation

vars == <<now, fresh, invites, members, owners, carriers, req, admitted>>

Ids == 1 .. MaxInvites

Invite == [tenant : Tenants, to : Users, role : Roles \cup {NoRole},
           exp : Nat, used : BOOLEAN, active : BOOLEAN]

Req == [invite : Ids \cup {NoInvite}, user : Users \cup {NoUser}]

Idle == [invite |-> NoInvite, user |-> NoUser]

Finish(p) == req' = [req EXCEPT ![p] = Idle]

\* The organisations there are: each but the seed's has the owner who founded it.
Founded == {Seeded} \cup {m[2] : m \in owners}

-------------------------------------------------------------------------------
\* setup_create_tenant and POST /tenants: a new organisation and its owner, in
\* one transaction.
Found(u, t) ==
  /\ t \notin Founded
  /\ owners' = owners \cup {<<u, t>>}
  /\ members' = [m \in DOMAIN members \cup {<<u, t>>} |->
                   IF m = <<u, t>> THEN TenantAdmin ELSE members[m]]
  /\ UNCHANGED <<now, fresh, invites, carriers, req, admitted>>

\* The roles of another organisation are let through.
SlipOfTenant(t, r) == RoleTenant[r] \in Tenants \/ r = TenantAdmin

OfTenant(t, r) == RoleTenant[r] = t \/ r = TenantAdmin

\* _validate_role_for_tenant
ValidRole(t, r) == r # NoRole => OfTenant(t, r) /\ r \notin carriers

\* only the date is looked at
SlipUsable(i) == now <= invites[i].exp

Usable(i) == invites[i].active /\ ~invites[i].used /\ now <= invites[i].exp

\* create_invite
Create(t, u, r) ==
  /\ fresh <= MaxInvites /\ t \in Founded
  /\ ValidRole(t, r)
  /\ invites' = [i \in DOMAIN invites \cup {fresh} |->
                   IF i = fresh
                   THEN [tenant |-> t, to |-> u, role |-> r, exp |-> now + TTL,
                         used |-> FALSE, active |-> TRUE]
                   ELSE invites[i]]
  /\ fresh' = fresh + 1
  /\ UNCHANGED <<now, members, owners, carriers, req, admitted>>

\* What the two ways of accepting have in common.
Begin(p, i, u) ==
  /\ req[p] = Idle /\ i \in DOMAIN invites
  /\ Usable(i)
  /\ <<u, invites[i].tenant>> \notin DOMAIN members
  /\ req' = [req EXCEPT ![p] = [invite |-> i, user |-> u]]
  /\ UNCHANGED <<now, fresh, invites, members, owners, carriers, admitted>>

\* accept_invite: the role is checked again; the address is not looked at.
BeginAccept(p, i, u) ==
  /\ Begin(p, i, u)
  /\ ValidRole(invites[i].tenant, invites[i].role)

\* setup_join_tenant: the address must be the user's; the role is not looked at.
BeginJoin(p, i, u) ==
  /\ Begin(p, i, u)
  /\ invites[i].to = u

\* is_active is left as it was
SlipSpend(inv) == [inv EXCEPT !.used = TRUE]

Spend(inv) == [inv EXCEPT !.used = TRUE, !.active = FALSE]

\* the unique key of the memberships is forgotten
SlipAdmissible(u, t) == u \in Users

\* uq_tenant_member
Admissible(u, t) == <<u, t>> \notin DOMAIN members

Commit(p) ==
  LET i == req[p].invite
      u == req[p].user
      t == invites[i].tenant
  IN /\ req[p] # Idle
     /\ Admissible(u, t)
     /\ members' = [m \in DOMAIN members \cup {<<u, t>>} |->
                      IF m = <<u, t>> THEN invites[i].role ELSE members[m]]
     /\ invites' = [invites EXCEPT ![i] = Spend(@)]
     /\ admitted' = admitted \cup {<<i, u>>}
     /\ Finish(p)
     /\ UNCHANGED <<now, fresh, owners, carriers>>

Abort(p) ==
  /\ req[p] # Idle
  /\ Finish(p)
  /\ UNCHANGED <<now, fresh, invites, members, owners, carriers, admitted>>

\* revoke_invite looks at nothing but who asks: a used invitation may be revoked.
Revoke(i) ==
  /\ i \in DOMAIN invites
  /\ invites' = [invites EXCEPT ![i].active = FALSE]
  /\ UNCHANGED <<now, fresh, members, owners, carriers, req, admitted>>

\* deactivate_expired, run when the service starts: one UPDATE.
DeactivateExpired ==
  /\ invites' = [i \in DOMAIN invites |->
                   IF invites[i].exp < now
                   THEN [invites[i] EXCEPT !.active = FALSE] ELSE invites[i]]
  /\ UNCHANGED <<now, fresh, members, owners, carriers, req, admitted>>

\* A member leaves, an owner never; what a role carries is edited.
RemoveMember(m) ==
  /\ m \in DOMAIN members \ owners
  /\ members' = [n \in DOMAIN members \ {m} |-> members[n]]
  /\ UNCHANGED <<now, fresh, invites, owners, carriers, req, admitted>>

SetCarries(r) ==
  /\ RoleTenant[r] \in Founded \cup {Platform}
  /\ carriers' \in {carriers \cup {r}, carriers \ {r}}
  /\ UNCHANGED <<now, fresh, invites, members, owners, req, admitted>>

Tick ==
  /\ now < MaxTime /\ now' = now + 1
  /\ UNCHANGED <<fresh, invites, members, owners, carriers, req, admitted>>

-------------------------------------------------------------------------------
Init ==
  /\ now = 0 /\ fresh = 1
  /\ invites = [i \in {} |-> Idle]
  /\ members = [m \in {} |-> NoRole] /\ owners = {}
  /\ carriers = {} /\ req = [p \in Procs |-> Idle] /\ admitted = {}

Next ==
  \/ \E u \in Users, t \in Tenants : Found(u, t)
  \/ \E t \in Tenants, u \in Users, r \in Roles \cup {NoRole} : Create(t, u, r)
  \/ \E p \in Procs, i \in Ids, u \in Users : \/ BeginAccept(p, i, u)
                                             \/ BeginJoin(p, i, u)
  \/ \E p \in Procs : Commit(p) \/ Abort(p)
  \/ \E i \in Ids : Revoke(i)
  \/ DeactivateExpired
  \/ \E m \in Users \X Tenants : RemoveMember(m)
  \/ \E r \in Roles : SetCarries(r)
  \/ Tick

Spec == Init /\ [][Next]_vars

-------------------------------------------------------------------------------
(* Properties.                                                             *)

\* Every variable keeps its type; a used invitation is not active, a request in
\* flight names an invitation that exists and a user, and memberships and
\* invitations are of organisations there are.
TypeOK ==
  /\ now \in Nat /\ fresh \in Nat \ {0}
  /\ DOMAIN invites = {i \in Ids : i < fresh}
  /\ invites \in [DOMAIN invites -> Invite]
  /\ \A i \in DOMAIN invites : invites[i].used => ~invites[i].active
  /\ DOMAIN members \subseteq Users \X Tenants
  /\ members \in [DOMAIN members -> Roles \cup {NoRole}]
  /\ owners \subseteq DOMAIN members
  /\ \A m \in DOMAIN members : m[2] \in Founded
  /\ \A i \in DOMAIN invites : invites[i].tenant \in Founded
  /\ carriers \subseteq Roles
  /\ req \in [Procs -> Req]
  /\ \A p \in Procs : req[p] = Idle \/ (/\ req[p].invite \in DOMAIN invites
                                        /\ req[p].user \in Users)
  /\ admitted \subseteq Ids \X Users

\* An invitation that is used, revoked or expired, and that no request under way
\* had read before, is over: it lets nobody in any more and never opens again,
\* whatever becomes of the member it admitted.
Over(i) == /\ i \in DOMAIN invites
           /\ invites[i].used \/ ~invites[i].active \/ invites[i].exp < now
           /\ \A p \in Procs : req[p].invite # i

InviteSettles ==
  [][\A i \in Ids : Over(i) =>
       /\ Over(i)'
       /\ \A u \in Users : <<i, u>> \in admitted' => <<i, u>> \in admitted]_vars

\* Two invitations of one user into one organisation, accepted together, do not
\* overwrite each other: the role a member came with stays while they are one.
MembershipKept ==
  [][\A m \in DOMAIN members \cap DOMAIN members' : members'[m] = members[m]]_vars

\* Whichever way it was accepted, and whatever the role's grants became in
\* between, an invitation only gives roles of its own organisation or tenant_admin:
\* onboarding relies on the check made when the invitation was created.
InvitedRoleFits ==
  \A m \in DOMAIN members :
    members[m] # NoRole => \/ RoleTenant[members[m]] = m[2]
                           \/ members[m] = TenantAdmin

\* What this means to whoever relies on invitations: dates, columns and roles
\* apart, an invitation is an offer of Admission, open until it is used, revoked
\* or past its date, and the memberships made are those offers entered and those
\* of the founders.
Promise == INSTANCE Admission WITH
  Offers <- Ids, People <- Users, Houses <- Tenants, Doors <- Procs,
  built <- Founded,
  made <- [i \in DOMAIN invites |-> invites[i].tenant],
  open <- {i \in DOMAIN invites : /\ invites[i].active /\ ~invites[i].used
                                  /\ now <= invites[i].exp},
  at <- [p \in Procs |-> IF req[p] = Idle THEN {}
                         ELSE {<<req[p].invite, req[p].user>>}],
  inside <- DOMAIN members

\* Every step of the code's is one the promise allows: nobody comes into an
\* organisation that is there but by an invitation into it that was open when the
\* request looked.
KeepsPromise == Promise!Spec

\* services/invite.py: "Invite has already been used".  Then an invitation
\* admits one user.
InviteUsedOnce == \A a, b \in admitted : a[1] = b[1] => a = b
=============================================================================
