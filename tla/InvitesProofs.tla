----------------------------- MODULE InvitesProofs -----------------------------
(***************************************************************************)
(* What holds of invitations for every set of users, organisations, roles  *)
(* and requests, and for every lifetime of an invitation.                  *)
(***************************************************************************)
EXTENDS Invites, TLAPS

-------------------------------------------------------------------------------
(* The inductive invariant.                                                *)

\* The promise of the creation: the role of an invitation may be given in its
\* organisation.  Onboarding never looks again.
RolesOffered ==
  \A i \in DOMAIN invites :
    invites[i].role # NoRole => OfTenant(invites[i].tenant, invites[i].role)

IInv == TypeOK /\ RolesOffered /\ InvitedRoleFits

LEMMA IdleType == Idle \in Req
BY DEF Idle, Req

\* A slot in use names an invitation that exists, and its user.
LEMMA SlotType ==
  ASSUME TypeOK, NEW p \in Procs, req[p] # Idle
  PROVE  /\ req[p].invite \in DOMAIN invites /\ req[p].user \in Users
         /\ invites[req[p].invite] \in Invite
BY DEF TypeOK

\* The columns a step changes are two switches: an invitation's organisation,
\* role and date are what they were.
Amended(inv, was) ==
  /\ inv \in Invite
  /\ inv.tenant = was.tenant /\ inv.role = was.role /\ inv.exp = was.exp
  /\ was.used => inv.used
  /\ ~was.active => ~inv.active
  /\ inv.used => ~inv.active

LEMMA SpendAmends ==
  ASSUME NEW inv \in Invite
  PROVE  Amended(Spend(inv), inv) /\ ~Spend(inv).active
BY DEF Amended, Spend, Invite

LEMMA SwitchOffAmends ==
  ASSUME NEW inv \in Invite, inv.used => ~inv.active
  PROVE  /\ Amended([inv EXCEPT !.active = FALSE], inv)
         /\ ~[inv EXCEPT !.active = FALSE].active
BY DEF Amended, Invite

LEMMA SameAmends ==
  ASSUME NEW inv \in Invite, inv.used => ~inv.active
  PROVE  Amended(inv, inv)
BY DEF Amended

\* No step but Create adds an invitation, and none rewrites what one offers.
AllAmended ==
  /\ DOMAIN invites' = DOMAIN invites
  /\ invites' \in [DOMAIN invites -> Invite]
  /\ \A i \in DOMAIN invites : Amended(invites'[i], invites[i])

LEMMA AmendedTypes ==
  ASSUME TypeOK, AllAmended, fresh' = fresh
  PROVE  /\ DOMAIN invites' = {i \in Ids : i < fresh'}
         /\ invites' \in [DOMAIN invites' -> Invite]
         /\ \A i \in DOMAIN invites' : invites'[i].used => ~invites'[i].active
BY DEF TypeOK, AllAmended, Amended

LEMMA CommitAmends ==
  ASSUME TypeOK, NEW p \in Procs, Commit(p)
  PROVE  /\ AllAmended
         /\ ~invites'[req[p].invite].active
         /\ \A i \in DOMAIN invites :
              i # req[p].invite => invites'[i] = invites[i]
<1>1. req[p].invite \in DOMAIN invites
  BY SlotType DEF Commit
<1>2. invites' = [invites EXCEPT ![req[p].invite] = Spend(@)]
  BY DEF Commit
<1>3. invites \in [DOMAIN invites -> Invite]
  BY DEF TypeOK
<1>4. \A i \in DOMAIN invites :
         /\ Amended(invites[i], invites[i])
         /\ Amended(Spend(invites[i]), invites[i])
         /\ ~Spend(invites[i]).active
  BY <1>3, SpendAmends, SameAmends DEF TypeOK
<1>5. /\ DOMAIN invites' = DOMAIN invites
      /\ invites'[req[p].invite] = Spend(invites[req[p].invite])
      /\ \A i \in DOMAIN invites :
           i # req[p].invite => invites'[i] = invites[i]
  BY <1>1, <1>2, <1>3
<1>6. \A i \in DOMAIN invites : Amended(invites'[i], invites[i])
  BY <1>4, <1>5
<1>7. invites' \in [DOMAIN invites -> Invite]
  BY <1>2, <1>3, <1>6, <1>5 DEF Amended
<1>. QED
  BY <1>1, <1>4, <1>5, <1>6, <1>7 DEF AllAmended

LEMMA RevokeAmends ==
  ASSUME TypeOK, NEW i \in Ids, Revoke(i)
  PROVE  AllAmended
<1>1. /\ i \in DOMAIN invites /\ invites \in [DOMAIN invites -> Invite]
      /\ invites' = [invites EXCEPT ![i].active = FALSE]
  BY DEF TypeOK, Revoke
<1>2. \A j \in DOMAIN invites :
         invites'[j] = IF j = i THEN [invites[j] EXCEPT !.active = FALSE]
                       ELSE invites[j]
  BY <1>1
<1>3. \A j \in DOMAIN invites : Amended(invites'[j], invites[j])
  BY <1>1, <1>2, SwitchOffAmends, SameAmends DEF TypeOK
<1>. QED
  BY <1>1, <1>3 DEF AllAmended, Amended

LEMMA DeactivateAmends ==
  ASSUME TypeOK, DeactivateExpired
  PROVE  AllAmended
<1>1. \A j \in DOMAIN invites :
         invites'[j] = IF invites[j].exp < now
                       THEN [invites[j] EXCEPT !.active = FALSE] ELSE invites[j]
  BY DEF DeactivateExpired
<1>2. DOMAIN invites' = DOMAIN invites
  BY DEF DeactivateExpired
<1>3. \A j \in DOMAIN invites : Amended(invites'[j], invites[j])
  BY <1>1, SwitchOffAmends, SameAmends DEF TypeOK
<1>. QED
  BY <1>2, <1>3 DEF AllAmended, Amended, DeactivateExpired

-------------------------------------------------------------------------------
(* Type correctness: one step per action.                                  *)

LEMMA TypeInit == Init => TypeOK
BY IdleType DEF Init, TypeOK, Ids

\* Who founds an organisation is its owner and first member.
LEMMA FoundFacts ==
  ASSUME TypeOK, NEW u \in Users, NEW t \in Tenants, Found(u, t)
  PROVE  /\ <<u, t>> \notin DOMAIN members
         /\ DOMAIN members' = DOMAIN members \cup {<<u, t>>}
         /\ members' \in [DOMAIN members' -> Roles \cup {NoRole}]
         /\ members'[<<u, t>>] = TenantAdmin
         /\ \A m \in DOMAIN members : members'[m] = members[m]
         /\ Founded' = Founded \cup {t} /\ t \notin Founded
<1>1. <<u, t>> \notin DOMAIN members
  BY DEF Found, TypeOK
<1>2. TenantAdmin \in Roles
  BY RoleAssumption
<1>3. members' = [m \in DOMAIN members \cup {<<u, t>>} |->
                    IF m = <<u, t>> THEN TenantAdmin ELSE members[m]]
  BY DEF Found
<1>4. Founded' = Founded \cup {t}
  <2>1. owners' = owners \cup {<<u, t>>} /\ <<u, t>>[2] = t
    BY DEF Found
  <2>2. {m[2] : m \in owners \cup {<<u, t>>}} = {m[2] : m \in owners} \cup {t}
    BY <2>1
  <2>. QED
    BY <2>1, <2>2 DEF Founded
<1>. QED
  BY <1>1, <1>2, <1>3, <1>4 DEF Found, TypeOK

LEMMA TypeStep == TypeOK /\ [Next]_vars => TypeOK'
<1>. SUFFICES ASSUME TypeOK, [Next]_vars PROVE TypeOK'
  OBVIOUS
<1>0. \A p \in Procs : Finish(p) =>
        /\ req' \in [Procs -> Req]
        /\ \A q \in Procs : req'[q] = Idle \/ req'[q] = req[q]
  BY IdleType DEF Finish, TypeOK
<1>1. ASSUME NEW t \in Tenants, NEW u \in Users, NEW r \in Roles \cup {NoRole},
             Create(t, u, r)
      PROVE  TypeOK'
  <2>1. fresh \in Ids /\ fresh' = fresh + 1
    BY <1>1, TimeAssumption DEF Create, TypeOK, Ids
  <2>2. [tenant |-> t, to |-> u, role |-> r, exp |-> now + TTL,
         used |-> FALSE, active |-> TRUE] \in Invite
    BY TimeAssumption DEF Invite, TypeOK
  <2>3. DOMAIN invites' = {i \in Ids : i < fresh'}
    <3>1. DOMAIN invites = {i \in Ids : i < fresh} /\ fresh \in Nat
      BY DEF TypeOK
    <3>2. DOMAIN invites' = DOMAIN invites \cup {fresh}
      BY <1>1 DEF Create
    <3>. QED
      BY <2>1, <3>1, <3>2 DEF Ids
  <2>4. /\ invites' \in [DOMAIN invites' -> Invite]
        /\ \A i \in DOMAIN invites' : invites'[i].used => ~invites'[i].active
    BY <1>1, <2>2 DEF Create, TypeOK
  <2>5. /\ DOMAIN invites \subseteq DOMAIN invites'
        /\ UNCHANGED <<now, members, owners, carriers, req, admitted>>
        /\ \A i \in DOMAIN invites' : invites'[i].tenant \in Founded
        /\ Founded' = Founded
    BY <1>1 DEF Create, TypeOK, Founded
  <2>6. fresh' \in Nat \ {0}
    BY <2>1 DEF Ids
  <2>. QED
    BY <2>3, <2>4, <2>5, <2>6 DEF TypeOK
<1>2. ASSUME NEW p \in Procs, NEW i \in Ids, NEW u \in Users,
             BeginAccept(p, i, u) \/ BeginJoin(p, i, u)
      PROVE  TypeOK'
  <2>1. Begin(p, i, u)
    BY <1>2 DEF BeginAccept, BeginJoin
  <2>2. [invite |-> i, user |-> u] \in Req
    BY DEF Req
  <2>. QED
    BY <2>1, <2>2 DEF Begin, TypeOK, Founded
<1>3. ASSUME NEW p \in Procs, Commit(p) PROVE TypeOK'
  <2>1. AllAmended /\ Finish(p) /\ UNCHANGED <<now, fresh, owners, carriers>>
    BY <1>3, CommitAmends DEF Commit
  <2>2. /\ req[p].invite \in Ids /\ req[p].user \in Users
        /\ invites[req[p].invite].tenant \in Tenants \cap Founded
        /\ invites[req[p].invite].role \in Roles \cup {NoRole}
    BY <1>3, SlotType DEF Commit, TypeOK, Invite
  <2>3. /\ DOMAIN members' \subseteq Users \X Tenants
        /\ members' \in [DOMAIN members' -> Roles \cup {NoRole}]
        /\ admitted' \subseteq Ids \X Users
        /\ owners' \subseteq DOMAIN members'
        /\ \A m \in DOMAIN members' : m[2] \in Founded
    BY <1>3, <2>2 DEF Commit, TypeOK
  <2>4. /\ DOMAIN invites' = DOMAIN invites /\ Founded' = Founded
        /\ \A i \in DOMAIN invites' : invites'[i].tenant \in Founded
    BY <2>1 DEF AllAmended, Amended, Founded, TypeOK
  <2>. QED
    BY <1>0, <2>1, <2>3, <2>4, AmendedTypes DEF TypeOK
<1>4. ASSUME NEW p \in Procs, Abort(p) PROVE TypeOK'
  BY <1>0, <1>4 DEF Abort, TypeOK, Founded
<1>5. ASSUME NEW i \in Ids, Revoke(i) PROVE TypeOK'
  <2>1. AllAmended
    BY <1>5, RevokeAmends
  <2>2. \A j \in DOMAIN invites' : invites'[j].tenant \in Founded'
    BY <1>5, <2>1 DEF AllAmended, Amended, Founded, Revoke, TypeOK
  <2>. QED
    BY <1>5, <2>1, <2>2, AmendedTypes DEF Revoke, TypeOK, AllAmended, Founded
<1>6. CASE DeactivateExpired
  <2>1. AllAmended
    BY <1>6, DeactivateAmends
  <2>2. \A j \in DOMAIN invites' : invites'[j].tenant \in Founded'
    BY <1>6, <2>1 DEF AllAmended, Amended, Founded, DeactivateExpired, TypeOK
  <2>. QED
    BY <1>6, <2>1, <2>2, AmendedTypes
    DEF DeactivateExpired, TypeOK, AllAmended, Founded
<1>7. ASSUME NEW m \in Users \X Tenants, RemoveMember(m) PROVE TypeOK'
  BY <1>7 DEF RemoveMember, TypeOK, Founded
<1>8. ASSUME NEW r \in Roles, SetCarries(r) PROVE TypeOK'
  BY <1>8 DEF SetCarries, TypeOK, Founded
<1>9. CASE Tick
  BY <1>9 DEF Tick, TypeOK, Founded
<1>10. CASE UNCHANGED vars
  BY <1>10 DEF vars, TypeOK, Founded
<1>11. ASSUME NEW u \in Users, NEW t \in Tenants, Found(u, t) PROVE TypeOK'
  <2>1. /\ DOMAIN members' = DOMAIN members \cup {<<u, t>>}
        /\ members' \in [DOMAIN members' -> Roles \cup {NoRole}]
        /\ Founded' = Founded \cup {t}
    BY <1>11, FoundFacts
  <2>2. /\ owners' = owners \cup {<<u, t>>}
        /\ UNCHANGED <<now, fresh, invites, carriers, req, admitted>>
    BY <1>11 DEF Found
  <2>. QED
    BY <2>1, <2>2 DEF TypeOK
<1>. QED
  BY <1>1, <1>2, <1>3, <1>4, <1>5, <1>6, <1>7, <1>8, <1>9, <1>10, <1>11
  DEF Next

\* Every variable keeps its type, whatever the numbers of users, organisations
\* and requests: a used invitation is never active, and a request in flight
\* always names an invitation that exists.
THEOREM TypeCorrect == Spec => []TypeOK
BY TypeInit, TypeStep, PTL DEF Spec

-------------------------------------------------------------------------------
(* Roles: what an invitation offers, and what it gave.                     *)

LEMMA InvInit == Init => IInv
<1>1. Init => TypeOK
  BY TypeInit
<1>. QED
  BY <1>1 DEF Init, IInv, RolesOffered, InvitedRoleFits

LEMMA AmendedOffers ==
  ASSUME RolesOffered, AllAmended
  PROVE  RolesOffered'
BY DEF RolesOffered, AllAmended, Amended

LEMMA InvStep == IInv /\ [Next]_vars => IInv'
<1>. SUFFICES ASSUME IInv, [Next]_vars PROVE IInv'
  OBVIOUS
<1>. USE DEF IInv
<1>0. TypeOK'
  BY TypeStep
<1>1. ASSUME NEW t \in Tenants, NEW u \in Users, NEW r \in Roles \cup {NoRole},
             Create(t, u, r)
      PROVE  RolesOffered' /\ InvitedRoleFits'
  <2>1. r # NoRole => OfTenant(t, r)
    BY <1>1 DEF Create, ValidRole
  <2>2. RolesOffered'
    BY <1>1, <2>1 DEF Create, RolesOffered
  <2>. QED
    BY <1>1, <2>2 DEF Create, InvitedRoleFits
<1>2. ASSUME NEW p \in Procs, NEW i \in Ids, NEW u \in Users,
             BeginAccept(p, i, u) \/ BeginJoin(p, i, u)
      PROVE  RolesOffered' /\ InvitedRoleFits'
  BY <1>2 DEF BeginAccept, BeginJoin, Begin, RolesOffered, InvitedRoleFits
<1>3. ASSUME NEW p \in Procs, Commit(p)
      PROVE  RolesOffered' /\ InvitedRoleFits'
  <2>. DEFINE i == req[p].invite
              m == <<req[p].user, invites[i].tenant>>
  <2>1. i \in DOMAIN invites
    BY <1>3, SlotType DEF Commit
  <2>2. members' = [n \in DOMAIN members \cup {m} |->
                      IF n = m THEN invites[i].role ELSE members[n]]
    BY <1>3 DEF Commit
  <2>3. invites[i].role # NoRole => \/ RoleTenant[invites[i].role] = m[2]
                                    \/ invites[i].role = TenantAdmin
    BY <2>1 DEF RolesOffered, OfTenant
  <2>4. InvitedRoleFits'
    BY <2>2, <2>3 DEF InvitedRoleFits
  <2>. QED
    BY <1>3, <2>4, CommitAmends, AmendedOffers
<1>4. ASSUME NEW p \in Procs, Abort(p) PROVE RolesOffered' /\ InvitedRoleFits'
  BY <1>4 DEF Abort, RolesOffered, InvitedRoleFits
<1>5. ASSUME NEW i \in Ids, Revoke(i) PROVE RolesOffered' /\ InvitedRoleFits'
  BY <1>5, RevokeAmends, AmendedOffers DEF Revoke, InvitedRoleFits
<1>6. ASSUME DeactivateExpired PROVE RolesOffered' /\ InvitedRoleFits'
  BY <1>6, DeactivateAmends, AmendedOffers
  DEF DeactivateExpired, InvitedRoleFits
<1>7. ASSUME NEW m \in Users \X Tenants, RemoveMember(m)
      PROVE  RolesOffered' /\ InvitedRoleFits'
  BY <1>7 DEF RemoveMember, RolesOffered, InvitedRoleFits
<1>8. ASSUME NEW r \in Roles, SetCarries(r)
      PROVE  RolesOffered' /\ InvitedRoleFits'
  BY <1>8 DEF SetCarries, RolesOffered, InvitedRoleFits
<1>9. ASSUME Tick \/ UNCHANGED vars PROVE RolesOffered' /\ InvitedRoleFits'
  BY <1>9 DEF Tick, vars, RolesOffered, InvitedRoleFits
<1>10. ASSUME NEW u \in Users, NEW t \in Tenants, Found(u, t)
       PROVE  RolesOffered' /\ InvitedRoleFits'
  <2>1. InvitedRoleFits'
    BY <1>10, FoundFacts DEF InvitedRoleFits
  <2>. QED
    BY <1>10, <2>1 DEF Found, RolesOffered
<1>. QED
  BY <1>0, <1>1, <1>2, <1>3, <1>4, <1>5, <1>6, <1>7, <1>8, <1>9, <1>10 DEF Next

\* The inductive invariant: an invitation offers only what its organisation may
\* give, from its creation on, and so does every membership made of one.
THEOREM Invariance == Spec => []IInv
BY InvInit, InvStep, PTL DEF Spec

\* The role somebody came in with is a role of that organisation or
\* tenant_admin, although setup_join_tenant never checks the role again.
THEOREM RolesFit == Spec => []InvitedRoleFits
<1>1. IInv => InvitedRoleFits
  BY DEF IInv
<1>. QED
  BY <1>1, Invariance, PTL

-------------------------------------------------------------------------------
(* What a step may never do.                                               *)

\* An invitation that is over stays over and admits nobody.
SettledStep ==
  \A i \in Ids : Over(i) =>
    /\ Over(i)'
    /\ \A u \in Users : <<i, u>> \in admitted' => <<i, u>> \in admitted

LEMMA AmendedStaysOver ==
  ASSUME TypeOK, AllAmended, now' \in Nat, now <= now', NEW i \in Ids, Over(i),
         \A p \in Procs : req'[p].invite # i
  PROVE  Over(i)'
BY DEF Over, AllAmended, Amended, TypeOK, Invite

LEMMA SettlesStep == TypeOK /\ [Next]_vars => SettledStep
<1>. SUFFICES ASSUME TypeOK, [Next]_vars, NEW i \in Ids, Over(i)
              PROVE  /\ Over(i)'
                     /\ \A u \in Users :
                          <<i, u>> \in admitted' => <<i, u>> \in admitted
  BY DEF SettledStep
<1>0. /\ now \in Nat /\ i \in DOMAIN invites /\ i \in Nat
      /\ Idle.invite # i
      /\ \A p \in Procs : req[p].invite # i
  BY SlotAssumption DEF TypeOK, Over, Ids, Idle
<1>fin. ASSUME NEW p \in Procs, Finish(p)
        PROVE  \A q \in Procs : req'[q].invite # i
  BY <1>0, <1>fin DEF Finish, TypeOK
<1>1. ASSUME NEW t \in Tenants, NEW u \in Users, NEW r \in Roles \cup {NoRole},
             Create(t, u, r)
      PROVE  Over(i)' /\ admitted' = admitted
  <2>1. i # fresh
    BY <1>0 DEF TypeOK
  <2>. QED
    BY <1>0, <1>1, <2>1 DEF Create, Over
<1>2. ASSUME NEW p \in Procs, NEW j \in Ids, NEW u \in Users,
             BeginAccept(p, j, u) \/ BeginJoin(p, j, u)
      PROVE  Over(i)' /\ admitted' = admitted
  <2>1. Begin(p, j, u)
    BY <1>2 DEF BeginAccept, BeginJoin
  <2>2. j # i
    BY <1>0, <2>1 DEF Begin, Usable, Over, TypeOK, Invite
  <2>3. \A q \in Procs : req'[q].invite # i
    BY <1>0, <2>1, <2>2 DEF Begin, TypeOK
  <2>. QED
    BY <2>1, <2>3 DEF Begin, Over
<1>3. ASSUME NEW p \in Procs, Commit(p)
      PROVE  /\ Over(i)'
             /\ \A u \in Users : <<i, u>> \in admitted' => <<i, u>> \in admitted
  <2>1. /\ admitted' = admitted \cup {<<req[p].invite, req[p].user>>}
        /\ Finish(p) /\ now' = now
    BY <1>3 DEF Commit
  <2>2. Over(i)'
    BY <1>0, <1>3, <2>1, <1>fin, CommitAmends, AmendedStaysOver
  <2>. QED
    BY <1>0, <2>1, <2>2
<1>4. ASSUME NEW p \in Procs, Abort(p) PROVE Over(i)' /\ admitted' = admitted
  BY <1>4, <1>fin DEF Abort, Over
<1>5. ASSUME NEW j \in Ids, Revoke(j) PROVE Over(i)' /\ admitted' = admitted
  <2>1. AllAmended
    BY <1>5, RevokeAmends
  <2>2. UNCHANGED <<now, req, admitted>>
    BY <1>5 DEF Revoke
  <2>. QED
    BY <1>0, <2>1, <2>2, AmendedStaysOver
<1>6. ASSUME DeactivateExpired PROVE Over(i)' /\ admitted' = admitted
  BY <1>0, <1>6, DeactivateAmends, AmendedStaysOver DEF DeactivateExpired
<1>7. ASSUME NEW m \in Users \X Tenants, RemoveMember(m)
      PROVE  Over(i)' /\ admitted' = admitted
  BY <1>7 DEF RemoveMember, Over
<1>8. ASSUME NEW r \in Roles, SetCarries(r)
      PROVE  Over(i)' /\ admitted' = admitted
  BY <1>8 DEF SetCarries, Over
<1>9. ASSUME Tick PROVE Over(i)' /\ admitted' = admitted
  <2>1. now' = now + 1 /\ UNCHANGED <<invites, req, admitted>>
    BY <1>9 DEF Tick
  <2>2. invites[i].exp \in Nat
    BY <1>0 DEF TypeOK, Invite
  <2>. QED
    BY <1>0, <2>1, <2>2 DEF Over
<1>10. CASE UNCHANGED vars
  BY <1>10 DEF vars, Over
<1>11. ASSUME NEW u \in Users, NEW t \in Tenants, Found(u, t)
       PROVE  Over(i)' /\ admitted' = admitted
  BY <1>11 DEF Found, Over
<1>. QED
  BY <1>1, <1>2, <1>3, <1>4, <1>5, <1>6, <1>7, <1>8, <1>9, <1>10, <1>11
  DEF Next

\* An invitation used, revoked or past its date, which no request still holds,
\* is over for good and lets nobody in, whatever is done to it afterwards.
THEOREM Settles == Spec => InviteSettles
<1>1. TypeOK /\ [Next]_vars => [SettledStep]_vars
  BY SettlesStep
<1>. QED
  BY <1>1, TypeCorrect, PTL DEF Spec, InviteSettles, SettledStep

\* No step rewrites the role of a member.
LEMMA MembersStep ==
  ASSUME TypeOK, [Next]_vars, NEW m \in DOMAIN members \cap DOMAIN members'
  PROVE  members'[m] = members[m]
<1>1. ASSUME NEW p \in Procs, Commit(p) PROVE members'[m] = members[m]
  BY <1>1 DEF Commit, Admissible
<1>2. ASSUME NEW n \in Users \X Tenants, RemoveMember(n)
      PROVE  members'[m] = members[m]
  BY <1>2 DEF RemoveMember
<1>3. ASSUME NEW u \in Users, NEW t \in Tenants, Found(u, t)
      PROVE  members'[m] = members[m]
  BY <1>3, FoundFacts
<1>. QED
  BY <1>1, <1>2, <1>3 DEF Next, vars, Create, BeginAccept, BeginJoin, Begin, Abort,
                    Revoke, DeactivateExpired, SetCarries, Tick

\* Two invitations of one user into one organisation, accepted together, never
\* overwrite one another's membership.
THEOREM MembersKept == Spec => MembershipKept
<1>1. TypeOK /\ [Next]_vars =>
        [\A m \in DOMAIN members \cap DOMAIN members' :
           members'[m] = members[m]]_vars
  BY MembersStep
<1>. QED
  BY <1>1, TypeCorrect, PTL DEF Spec, MembershipKept

-------------------------------------------------------------------------------
(* The invitations implement Admission.                                    *)

\* What a door holds: nothing, or the offer somebody found open at it.
Held(r) == IF r = Idle THEN {} ELSE {<<r.invite, r.user>>}

Opened == {i \in DOMAIN invites : Usable(i)}

MadeNow == [i \in DOMAIN invites |-> invites[i].tenant]

LEMMA HeldOne ==
  ASSUME TypeOK, NEW p \in Procs
  PROVE  Held(req[p]) = {} <=> req[p] = Idle
BY DEF Held

\* A step that amends invitations makes none, and opens none.
LEMMA AmendedPromise ==
  ASSUME TypeOK, AllAmended, now' \in Nat, now <= now'
  PROVE  /\ MadeNow' = MadeNow
         /\ Opened' \in SUBSET Opened
<1>1. \A i \in DOMAIN invites : Amended(invites'[i], invites[i])
  BY DEF AllAmended
<1>2. \A i \in DOMAIN invites' :
        /\ i \in DOMAIN invites
        /\ invites'[i].tenant = invites[i].tenant
  BY <1>1 DEF AllAmended, Amended
<1>3. MadeNow' = MadeNow
  BY <1>2 DEF AllAmended, MadeNow
<1>4. ASSUME NEW i \in Opened' PROVE i \in Opened
  <2>1. i \in DOMAIN invites /\ Amended(invites'[i], invites[i])
    BY <1>1, <1>4 DEF AllAmended, Opened
  <2>2. invites[i].exp \in Nat /\ invites[i] \in Invite /\ now \in Nat
    BY <2>1 DEF TypeOK, Invite
  <2>3. /\ invites'[i].active /\ ~invites'[i].used
        /\ now' <= invites'[i].exp
    BY <1>4 DEF Opened, Usable
  <2>. QED
    BY <2>1, <2>2, <2>3 DEF Amended, Opened, Usable, Invite
<1>. QED
  BY <1>3, <1>4

LEMMA FinishHolds ==
  ASSUME TypeOK, NEW p \in Procs, Finish(p)
  PROVE  [q \in Procs |-> Held(req'[q])] =
           [[q \in Procs |-> Held(req[q])] EXCEPT ![p] = {}]
BY DEF Finish, Held, TypeOK

LEMMA PromiseInit == Init => Promise!Init
<1>. SUFFICES ASSUME Init PROVE Promise!Init
  OBVIOUS
<1>1. invites = [i \in {} |-> Idle] /\ DOMAIN invites = {}
  BY DEF Init
<1>2. [i \in DOMAIN invites |-> invites[i].tenant] = [o \in {} |-> o]
  BY <1>1
<1>3. Founded \subseteq Tenants
  BY SeedAssumption DEF Init, Founded
<1>. QED
  BY <1>1, <1>2, <1>3 DEF Init, Promise!Init

LEMMA PromiseStep == TypeOK /\ [Next]_vars => [Promise!Next]_(Promise!vars)
<1>. SUFFICES ASSUME TypeOK, [Next]_vars PROVE [Promise!Next]_(Promise!vars)
  OBVIOUS
<1>. DEFINE At == [p \in Procs |-> Held(req[p])]
            Inside == DOMAIN members
<1>made. LET M == [i \in DOMAIN invites |-> invites[i].tenant]
         IN  M = MadeNow /\ M' = MadeNow'
  BY DEF MadeNow
<1>open. LET O == {i \in DOMAIN invites : /\ invites[i].active
                                          /\ ~invites[i].used
                                          /\ now <= invites[i].exp}
         IN  O = Opened /\ O' = Opened'
  BY DEF Opened, Usable
<1>at. LET A == [p \in Procs |-> IF req[p] = Idle THEN {}
                                 ELSE {<<req[p].invite, req[p].user>>}]
       IN  A = At /\ A' = At'
  BY DEF Held
<1>stut. ASSUME UNCHANGED <<Founded, MadeNow, Opened, At, Inside>>
         PROVE  UNCHANGED Promise!vars
  BY <1>stut, <1>made, <1>open, <1>at DEF Promise!vars
<1>close. ASSUME UNCHANGED <<Founded, MadeNow, At, Inside>>, Opened' \in SUBSET Opened
          PROVE  Promise!Next
  BY <1>close, <1>made, <1>open, <1>at DEF Promise!Next, Promise!Close
<1>0. now \in Nat
  BY DEF TypeOK
<1>kept. ASSUME owners' = owners PROVE Founded' = Founded
  BY <1>kept DEF Founded
<1>1. ASSUME NEW t \in Tenants, NEW u \in Users, NEW r \in Roles \cup {NoRole},
             Create(t, u, r)
      PROVE  Promise!Next
  <2>1. fresh \in Ids /\ fresh \notin DOMAIN invites
    BY <1>1, TimeAssumption DEF Create, TypeOK, Ids
  <2>2. MadeNow' = [x \in DOMAIN MadeNow \cup {fresh} |->
                      IF x = fresh THEN t ELSE MadeNow[x]]
    BY <1>1, <2>1 DEF Create, MadeNow
  <2>3. Opened' = Opened \cup {fresh}
    BY <1>0, <1>1, <2>1, TimeAssumption DEF Create, Opened, Usable
  <2>4. /\ UNCHANGED <<Founded, At, Inside>> /\ t \in Founded
        /\ fresh \notin DOMAIN MadeNow
    BY <1>1, <1>kept, <2>1 DEF Create, MadeNow
  <2>5. Promise!Make(fresh, t)
    BY <2>2, <2>3, <2>4, <1>made, <1>open, <1>at DEF Promise!Make
  <2>. QED
    BY <2>1, <2>5 DEF Promise!Next
<1>2. ASSUME NEW p \in Procs, NEW i \in Ids, NEW u \in Users,
             BeginAccept(p, i, u) \/ BeginJoin(p, i, u)
      PROVE  Promise!Next
  <2>1. Begin(p, i, u)
    BY <1>2 DEF BeginAccept, BeginJoin
  <2>2. i \in Opened /\ At[p] = {} /\ <<u, MadeNow[i]>> \notin Inside
    BY <2>1 DEF Begin, Opened, MadeNow, Held
  <2>3. [invite |-> i, user |-> u] # Idle
    BY SlotAssumption DEF Idle
  <2>4. At' = [At EXCEPT ![p] = {<<i, u>>}]
    BY <2>1, <2>3 DEF Begin, Held, TypeOK
  <2>5. UNCHANGED <<Founded, MadeNow, Opened, Inside>>
    BY <2>1, <1>kept DEF Begin, MadeNow, Opened, Usable
  <2>6. Promise!Find(p, i, u)
    BY <2>2, <2>4, <2>5, <1>made, <1>open, <1>at DEF Promise!Find
  <2>. QED
    BY <2>6 DEF Promise!Next
<1>3. ASSUME NEW p \in Procs, Commit(p) PROVE Promise!Next
  <2>1. PICK i \in Ids, u \in Users :
               i = req[p].invite /\ u = req[p].user /\ i \in DOMAIN invites
    BY <1>3, SlotType DEF Commit, TypeOK
  <2>2. At[p] = {<<i, u>>} /\ <<u, MadeNow[i]>> \notin Inside
    BY <1>3, <2>1 DEF Commit, Admissible, MadeNow, Held
  <2>3. Inside' = Inside \cup {<<u, MadeNow[i]>>}
    BY <1>3, <2>1 DEF Commit, MadeNow
  <2>4. At' = [At EXCEPT ![p] = {}]
    BY <1>3, FinishHolds DEF Commit
  <2>5. now' = now /\ Founded' = Founded
    BY <1>3, <1>kept DEF Commit
  <2>6. MadeNow' = MadeNow /\ Opened' \in SUBSET Opened
    BY <1>0, <1>3, <2>5, CommitAmends, AmendedPromise
  <2>7. Opened' = Opened \ {i}
    <3>1. i \notin Opened'
      BY <1>3, <2>1, CommitAmends DEF Opened, Usable
    <3>2. ASSUME NEW j \in Opened, j # i PROVE j \in Opened'
      BY <1>3, <2>1, <2>5, <3>2, CommitAmends DEF Opened, Usable, AllAmended
    <3>. QED
      BY <2>6, <3>1, <3>2
  <2>8. Promise!Enter(p, i, u)
    BY <2>2, <2>3, <2>4, <2>5, <2>6, <2>7, <1>made, <1>open, <1>at
    DEF Promise!Enter
  <2>. QED
    BY <2>8 DEF Promise!Next
<1>4. ASSUME NEW p \in Procs, Abort(p) PROVE Promise!Next
  <2>1. At' = [At EXCEPT ![p] = {}]
    BY <1>4, FinishHolds DEF Abort
  <2>2. UNCHANGED <<Founded, MadeNow, Opened, Inside>>
    BY <1>4, <1>kept DEF Abort, MadeNow, Opened, Usable
  <2>3. Promise!GiveUp(p)
    BY <2>1, <2>2, <1>made, <1>open, <1>at DEF Promise!GiveUp
  <2>. QED
    BY <2>3 DEF Promise!Next
<1>5. ASSUME NEW i \in Ids, Revoke(i) PROVE Promise!Next
  <2>1. UNCHANGED <<Founded, now, At, Inside>> /\ AllAmended
    BY <1>5, <1>kept, RevokeAmends DEF Revoke
  <2>. QED
    BY <1>0, <2>1, <1>close, AmendedPromise
<1>6. ASSUME DeactivateExpired PROVE Promise!Next
  <2>1. UNCHANGED <<Founded, now, At, Inside>> /\ AllAmended
    BY <1>6, <1>kept, DeactivateAmends DEF DeactivateExpired
  <2>. QED
    BY <1>0, <2>1, <1>close, AmendedPromise
<1>7. ASSUME NEW m \in Users \X Tenants, RemoveMember(m) PROVE Promise!Next
  <2>1. Inside' \in SUBSET Inside /\ UNCHANGED <<Founded, MadeNow, Opened, At>>
    BY <1>7, <1>kept DEF RemoveMember, MadeNow, Opened, Usable
  <2>2. Promise!Leave
    BY <2>1, <1>made, <1>open, <1>at DEF Promise!Leave
  <2>. QED
    BY <2>2 DEF Promise!Next
<1>8. ASSUME (\E r \in Roles : SetCarries(r)) \/ UNCHANGED vars
      PROVE  UNCHANGED Promise!vars
  BY <1>8, <1>stut, <1>kept DEF SetCarries, vars, MadeNow, Opened, Usable
<1>9. ASSUME Tick PROVE Promise!Next
  <2>1. now' = now + 1 /\ UNCHANGED <<Founded, invites, At, Inside>>
    BY <1>9, <1>kept DEF Tick
  <2>2. AllAmended
    BY <2>1, SameAmends DEF AllAmended, TypeOK
  <2>. QED
    BY <1>0, <2>1, <2>2, <1>close, AmendedPromise
<1>10. ASSUME NEW u \in Users, NEW t \in Tenants, Found(u, t)
       PROVE  Promise!Next
  <2>1. /\ Inside' = Inside \cup {<<u, t>>}
        /\ Founded' = Founded \cup {t} /\ t \notin Founded
    BY <1>10, FoundFacts
  <2>2. UNCHANGED <<MadeNow, Opened, At>>
    BY <1>10 DEF Found, MadeNow, Opened, Usable
  <2>3. Promise!Build(t, u)
    BY <2>1, <2>2, <1>made, <1>open, <1>at DEF Promise!Build
  <2>. QED
    BY <2>3 DEF Promise!Next
<1>. QED
  BY <1>1, <1>2, <1>3, <1>4, <1>5, <1>6, <1>7, <1>8, <1>9, <1>10 DEF Next

\* The invitations keep the promise of Admission: but for its founder, nobody
\* enters an organisation except by an offer of it which was open when the request
\* looked, and entering closes it.
THEOREM PromiseKept == Spec => KeepsPromise
BY PromiseInit, PromiseStep, TypeCorrect, PTL
DEF Spec, KeepsPromise, Promise!Spec
=============================================================================
