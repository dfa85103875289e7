------------------------------ MODULE RbacProofs ------------------------------
(***************************************************************************)
(* What holds of roles and permissions for every set of users,             *)
(* organisations, roles, permissions and requests, and whatever the cache  *)
(* loses.                                                                  *)
(***************************************************************************)
EXTENDS Rbac, TLAPS

-------------------------------------------------------------------------------
(* Requests: what each of them may write, once its checks have passed.     *)

\* What an organisation hands out: its own roles, and the platform's
\* tenant_admin.
Given(r, t) == /\ r # Admin
               /\ RoleTenant[r] \in {t, NoTenant}

\* A request of an organisation writes in that organisation only, gives roles
\* and permissions it may give, and a scope is that of all it writes.
Sound(r) ==
  /\ r.kind = "idle" => r.tenant = NoTenant /\ r.scope = NoScope
  /\ r.kind \in {"read", "member", "leave"} =>
       r.m \in Members /\ r.tenant = r.m[2]
  /\ r.kind = "member" =>
       /\ \A x \in (r.primaryTo \cup r.addRoles) \ {NoRole} : Given(x, r.tenant)
       /\ \A x \in r.dropRows : x.m = r.m
       /\ AdminPerm \notin r.addPerms
  /\ r.kind = "role" /\ r.tenant # NoTenant =>
       RoleTenant[r.role] = r.tenant /\ AdminPerm \notin r.addPerms
  /\ r.kind = "delete" =>
       /\ r.tenant \in Tenants /\ RoleTenant[r.role] = r.tenant
       /\ \A m \in r.stripped : m[2] = r.tenant
       /\ \A x \in r.dropRows : x.m[2] = r.tenant
  /\ r.scope # NoScope =>
       /\ r.kind = "member" /\ r.primaryTo = {} /\ r.addPerms = {}
       /\ r.dropRows \subseteq {x \in RoleRow : x.scope = r.scope}
  /\ r.kind = "read" =>
       AdminPerm \notin r.names /\ (Admin \in r.held => r.m[1] \in Staff)

\* A permission about to be given directly: any row already there is a row the
\* request could not have seen.
Looked(r) ==
  r.kind = "member" =>
    /\ r.mark <= fresh
    /\ \A y \in direct :
         y.m = r.m /\ y.perm \in r.addPerms => y.id >= r.mark

\* Who holds admin, and what carries admin:*, as long as the platform gave it
\* to no other role.
OnlyStaff ==
  /\ AdminPerm \notin grantable
  /\ \A m \in DOMAIN primary : primary[m] = Admin => m[1] \in Staff
  /\ \A x \in extra : x.role # Admin
  /\ \A x \in direct : x.perm # AdminPerm
  /\ ~platformGave =>
       /\ \A r \in Roles : AdminPerm \in rolePerms[r] => r = Admin
       /\ \A m \in Members : AdminPerm \in cache[m].perms => m[1] \in Staff

\* Nobody holds a role of another organisation.
RolesAtHome ==
  /\ \A m \in DOMAIN primary :
       primary[m] # NoRole => RoleTenant[primary[m]] \in {m[2], NoTenant}
  /\ \A x \in extra : RoleTenant[x.role] \in {x.m[2], NoTenant}

IInv ==
  /\ TypeOK
  /\ \A p \in Procs : Sound(req[p]) /\ Looked(req[p])
  /\ OnlyStaff
  /\ RolesAtHome

\* What a Begin action does, whatever it is about.
Begun(p) ==
  \E r \in Req : Start(p, r) /\ Sound(r) /\ Looked(r)

-------------------------------------------------------------------------------
(* How requests are built.                                                 *)

LEMMA AssignableGiven ==
  ASSUME NEW r, NEW t \in Tenants, Assignable(r, t)
  PROVE  Given(r, t) /\ r \in roles
BY NullAssumption, RoleAssumption DEF Assignable, Gives, Given

LEMMA DelegableNotAdmin ==
  ASSUME OnlyStaff, NEW q, Delegable(q)
  PROVE  q # AdminPerm /\ q \in active
BY DEF OnlyStaff, Delegable

LEMMA NewReqType ==
  ASSUME TypeOK,
         NEW kind \in {"idle", "read", "member", "leave", "role", "delete"},
         NEW t \in Tenants \cup {NoTenant},
         NEW m \in Members \cup {<<NoUser, NoTenant>>}
  PROVE  NewReq(kind, t, m) \in Req
BY DEF NewReq, Req, TypeOK, Bucket

LEMMA IdleType ==
  ASSUME BoundAssumption
  PROVE  /\ IdleReq \in Req /\ IdleReq.kind = "idle"
         /\ Sound(IdleReq) /\ Looked(IdleReq)
BY BoundAssumption DEF IdleReq, NewReq, Req, Bucket, Sound, Looked

LEMMA RowTypes ==
  ASSUME TypeOK, NEW m \in Members
  PROVE  /\ \A S : RoleRows(m, S) \subseteq RoleRow
         /\ PermRows(m) \subseteq PermRow
         /\ \A S : \A x \in RoleRows(m, S) : x.m = m
         /\ \A x \in PermRows(m) : x.m = m
         /\ m \in DOMAIN primary => \A S : Held(m, S) \subseteq Roles
BY DEF TypeOK, RoleRows, PermRows, Held, RoleRow, PermRow

LEMMA ReadBegun ==
  ASSUME IInv, NEW p \in Procs, NEW m \in Members, BeginRead(p, m)
  PROVE  Begun(p)
<1>. DEFINE r == [NewReq("read", m[2], m) EXCEPT
                    !.held = Held(m, {NoScope}), !.names = DirectNames(m)]
<1>. USE DEF IInv
<1>1. m \in DOMAIN primary /\ Start(p, r) /\ m[2] \in Tenants
  BY DEF BeginRead, Members
<1>2. Held(m, {NoScope}) \subseteq Roles /\ DirectNames(m) \subseteq Perms
  BY <1>1, RowTypes DEF DirectNames, TypeOK
<1>3. NewReq("read", m[2], m) \in Req
  BY <1>1, NewReqType
<1>4. r \in Req
  BY <1>2, <1>3 DEF Req
<1>5. AdminPerm \notin DirectNames(m)
  BY DEF DirectNames, PermRows, OnlyStaff
<1>6. Admin \in Held(m, {NoScope}) => m[1] \in Staff
  BY <1>1 DEF Held, RoleRows, OnlyStaff
<1>7. Sound(r) /\ Looked(r)
  BY <1>1, <1>5, <1>6 DEF Sound, Looked, NewReq
<1>. QED
  BY <1>1, <1>4, <1>7 DEF Begun

LEMMA ChangeType ==
  ASSUME TypeOK, NEW m \in Members
  PROVE  /\ Change(m) \in Req
         /\ Change(m) = [NewReq("member", m[2], m) EXCEPT !.keys = {m}]
         /\ Change(m).kind = "member" /\ Change(m).mark = fresh
         /\ Change(m).m = m /\ Change(m).tenant = m[2]
         /\ Change(m).primaryTo = {} /\ Change(m).addRoles = {}
         /\ Change(m).addPerms = {} /\ Change(m).dropRows = {}
         /\ Change(m).scope = NoScope
<1>1. m[2] \in Tenants
  BY DEF Members
<1>2. NewReq("member", m[2], m) \in Req
  BY <1>1, NewReqType
<1>. QED
  BY <1>2 DEF Change, NewReq, Req

\* Editing a request keeps it a request.
LEMMA EditType ==
  ASSUME NEW c \in Req
  PROVE  /\ \A R \in SUBSET (Roles \cup {NoRole}) :
              [c EXCEPT !.primaryTo = R] \in Req
         /\ \A R \in SUBSET Roles, s \in Bucket :
              [c EXCEPT !.addRoles = R, !.scope = s] \in Req
         /\ \A Q \in SUBSET Perms : [c EXCEPT !.addPerms = Q] \in Req
         /\ \A X \in SUBSET (RoleRow \cup PermRow) :
              [c EXCEPT !.dropRows = X] \in Req
         /\ \A X \in SUBSET (RoleRow \cup PermRow),
               R \in SUBSET (Roles \cup {NoRole}), s \in Bucket :
              [c EXCEPT !.dropRows = X, !.scope = s, !.primaryTo = R] \in Req
         /\ \A R \in SUBSET (Roles \cup {NoRole}), S \in SUBSET Roles,
               Q \in SUBSET Perms, X \in SUBSET (RoleRow \cup PermRow),
               A \in SUBSET Roles :
              [c EXCEPT !.primaryTo = R, !.addRoles = S, !.addPerms = Q,
                        !.dropRows = X, !.asked = A] \in Req
<1>. USE DEF Req
<1>1. \A R \in SUBSET (Roles \cup {NoRole}) :
        [c EXCEPT !.primaryTo = R] \in Req
  OBVIOUS
<1>2. \A R \in SUBSET Roles, s \in Bucket :
        [c EXCEPT !.addRoles = R, !.scope = s] \in Req
  OBVIOUS
<1>3. \A Q \in SUBSET Perms : [c EXCEPT !.addPerms = Q] \in Req
  OBVIOUS
<1>4. \A X \in SUBSET (RoleRow \cup PermRow) : [c EXCEPT !.dropRows = X] \in Req
  OBVIOUS
<1>5. \A X \in SUBSET (RoleRow \cup PermRow), R \in SUBSET (Roles \cup {NoRole}),
         s \in Bucket :
        [c EXCEPT !.dropRows = X, !.scope = s, !.primaryTo = R] \in Req
  OBVIOUS
<1>6. \A R \in SUBSET (Roles \cup {NoRole}), S \in SUBSET Roles,
         Q \in SUBSET Perms, X \in SUBSET (RoleRow \cup PermRow),
         A \in SUBSET Roles :
        [c EXCEPT !.primaryTo = R, !.addRoles = S, !.addPerms = Q,
                  !.dropRows = X, !.asked = A] \in Req
  OBVIOUS
<1>. HIDE DEF Req
<1>. QED
  BY <1>1, <1>2, <1>3, <1>4, <1>5, <1>6

\* A change to one member is sound when what it gives may be given, what it
\* removes are that member's rows, and what it inserts was looked for.
LEMMA ChangeSound ==
  ASSUME IInv, NEW m \in Members, NEW r \in Req,
         r.kind = "member", r.mark = fresh, r.m = m, r.tenant = m[2],
         \A x \in (r.primaryTo \cup r.addRoles) \ {NoRole} : Given(x, m[2]),
         \A x \in r.dropRows : x.m = m,
         AdminPerm \notin r.addPerms,
         \A y \in direct : y.m = m => y.perm \notin r.addPerms,
         r.scope # NoScope =>
           /\ r.primaryTo = {} /\ r.addPerms = {}
           /\ r.dropRows \subseteq {x \in RoleRow : x.scope = r.scope}
  PROVE  Sound(r) /\ Looked(r)
<1>1. Sound(r)
  BY DEF Sound
<1>2. Looked(r)
  BY DEF Looked, IInv, TypeOK
<1>. QED
  BY <1>1, <1>2

LEMMA MemberBegun ==
  ASSUME IInv, NEW p \in Procs, NEW a \in Users, NEW m \in Members,
         NEW r \in Roles, NEW s \in Bucket, NEW q \in Perms,
         \/ BeginAssignRole(p, a, m, r)
         \/ BeginAddRole(p, a, m, r, s) \/ BeginDropRole(p, a, m, r, s)
         \/ BeginGrant(p, a, m, q) \/ BeginRevoke(p, a, m, q)
  PROVE  Begun(p)
<1>. USE DEF IInv
<1>0. NoScope \in Bucket /\ m[2] \in Tenants
  BY DEF Bucket, Members
<1>1. CASE BeginAssignRole(p, a, m, r)
  <2>. DEFINE c == [Change(m) EXCEPT !.primaryTo = {r}]
  <2>1. Start(p, c) /\ Given(r, m[2])
    BY <1>0, <1>1, AssignableGiven DEF BeginAssignRole
  <2>2. /\ c \in Req /\ c.kind = "member" /\ c.mark = fresh
        /\ c.m = m /\ c.tenant = m[2]
        /\ c.primaryTo = {r} /\ c.addRoles = {} /\ c.scope = NoScope
        /\ c.addPerms = {} /\ c.dropRows = {}
    <3>1. {r} \in SUBSET (Roles \cup {NoRole})
      OBVIOUS
    <3>2. c \in Req
      BY <3>1, ChangeType, EditType
    <3>. QED
      BY <3>2, ChangeType DEF Req
  <2>3. c \in Req /\ Sound(c) /\ Looked(c)
    BY <1>0, <2>1, <2>2, ChangeSound
  <2>. QED
    BY <2>1, <2>3 DEF Begun
<1>2. CASE BeginAddRole(p, a, m, r, s)
  <2>. DEFINE c == [Change(m) EXCEPT !.addRoles = {r}, !.scope = s]
  <2>1. Start(p, c) /\ Given(r, m[2])
    BY <1>0, <1>2, AssignableGiven DEF BeginAddRole
  <2>2. /\ c \in Req /\ c.kind = "member" /\ c.mark = fresh
        /\ c.m = m /\ c.tenant = m[2]
        /\ c.primaryTo = {} /\ c.addRoles = {r} /\ c.scope = s
        /\ c.addPerms = {} /\ c.dropRows = {}
    <3>1. {r} \in SUBSET Roles
      OBVIOUS
    <3>2. c \in Req
      BY <3>1, ChangeType, EditType
    <3>. QED
      BY <3>2, ChangeType DEF Req
  <2>3. c \in Req /\ Sound(c) /\ Looked(c)
    BY <2>1, <2>2, ChangeSound
  <2>. QED
    BY <2>1, <2>3 DEF Begun
<1>3. CASE BeginDropRole(p, a, m, r, s)
  <2>. DEFINE X == RowsFor(m, r, s)
              R1 == IF s = NoScope /\ m \in DOMAIN primary /\ primary[m] = r
                    THEN {NoRole} ELSE {}
              c == [Change(m) EXCEPT !.dropRows = X, !.scope = s,
                                     !.primaryTo = R1]
  <2>1. Start(p, c)
    BY <1>3 DEF BeginDropRole
  <2>2. X \in SUBSET (RoleRow \cup PermRow) /\ \A x \in X : x.m = m
    BY RowTypes DEF RowsFor
  <2>2a. X \subseteq {x \in RoleRow : x.scope = s}
    BY RowTypes DEF RowsFor, RoleRows
  <2>3. /\ R1 \in SUBSET (Roles \cup {NoRole}) /\ R1 \ {NoRole} = {}
        /\ s # NoScope => R1 = {}
    OBVIOUS
  <2>. HIDE DEF X, R1
  <2>4. /\ c \in Req /\ c.kind = "member" /\ c.mark = fresh
        /\ c.m = m /\ c.tenant = m[2]
        /\ c.primaryTo = R1 /\ c.addRoles = {} /\ c.scope = s
        /\ c.addPerms = {} /\ c.dropRows = X
    <3>1. c \in Req
      BY <2>2, <2>3, ChangeType, EditType
    <3>. QED
      BY <3>1, ChangeType DEF Req
  <2>5. c \in Req /\ Sound(c) /\ Looked(c)
    BY <2>2, <2>2a, <2>4, <2>3, ChangeSound
  <2>. QED
    BY <2>1, <2>5 DEF Begun
<1>4. CASE BeginGrant(p, a, m, q)
  <2>. DEFINE c == [Change(m) EXCEPT !.addPerms = {q}]
  <2>1. Start(p, c) /\ q # AdminPerm
    BY <1>4, DelegableNotAdmin DEF BeginGrant
  <2>2. \A y \in direct : y.m = m => y.perm \notin {q}
    BY <1>4 DEF BeginGrant, RowsOf, PermRows
  <2>3. /\ c \in Req /\ c.kind = "member" /\ c.mark = fresh
        /\ c.m = m /\ c.tenant = m[2]
        /\ c.primaryTo = {} /\ c.addRoles = {} /\ c.scope = NoScope
        /\ c.addPerms = {q} /\ c.dropRows = {}
    <3>1. {q} \in SUBSET Perms
      OBVIOUS
    <3>2. c \in Req
      BY <3>1, ChangeType, EditType
    <3>. QED
      BY <3>2, ChangeType DEF Req
  <2>4. c \in Req /\ Sound(c) /\ Looked(c)
    BY <1>0, <2>1, <2>2, <2>3, ChangeSound
  <2>. QED
    BY <2>1, <2>4 DEF Begun
<1>5. CASE BeginRevoke(p, a, m, q)
  <2>. DEFINE X == RowsOf(m, q)
              c == [Change(m) EXCEPT !.dropRows = X]
  <2>1. Start(p, c)
    BY <1>5 DEF BeginRevoke
  <2>2. X \in SUBSET (RoleRow \cup PermRow) /\ \A x \in X : x.m = m
    BY RowTypes DEF RowsOf
  <2>3. /\ c \in Req /\ c.kind = "member" /\ c.mark = fresh
        /\ c.m = m /\ c.tenant = m[2]
        /\ c.primaryTo = {} /\ c.addRoles = {} /\ c.scope = NoScope
        /\ c.addPerms = {} /\ c.dropRows = X
    <3>1. c \in Req
      BY <2>2, ChangeType, EditType
    <3>. QED
      BY <3>1, ChangeType DEF Req
  <2>4. c \in Req /\ Sound(c) /\ Looked(c)
    BY <1>0, <2>2, <2>3, ChangeSound
  <2>. QED
    BY <2>1, <2>4 DEF Begun
<1>. QED
  BY <1>1, <1>2, <1>3, <1>4, <1>5

LEMMA SaveBegun ==
  ASSUME IInv, NEW p \in Procs, NEW a \in Users, NEW m \in DOMAIN primary,
         NEW r \in Choices(m) \cup {NoRole}, NEW R \in SUBSET Choices(m),
         NEW Q \in SUBSET Perms, BeginMemberSave(p, a, m, r, R, Q)
  PROVE  Begun(p)
<1>. USE DEF IInv
<1>. DEFINE before == {x.role : x \in RoleRows(m, {NoScope})}
            wanted == Wanted(m, r, R)
            add == wanted \ before
            drop == {x \in RoleRows(m, {NoScope}) : /\ x.role # primary[m]
                                                    /\ x.role \notin wanted}
            addQ == Q \ {x.perm : x \in PermRows(m)}
            dropQ == {x \in PermRows(m) : x.perm \notin Q}
            changed == r # primary[m]
            column == IF r \in {x.role : x \in drop} THEN NoRole ELSE r
            R1 == IF changed THEN {column} ELSE {}
            X == drop \cup dropQ
            A == (R \cup {r}) \ {NoRole}
            c == [Change(m) EXCEPT !.primaryTo = R1, !.addRoles = add,
                                   !.addPerms = addQ, !.dropRows = X,
                                   !.asked = A]
<1>1. /\ Start(p, c)
      /\ changed /\ r # NoRole => Assignable(r, m[2])
      /\ \A x \in add : Assignable(x, m[2])
      /\ \A q \in addQ : Delegable(q)
  BY DEF BeginMemberSave
<1>2. m \in Members /\ NoScope \in Bucket
  BY DEF TypeOK, Bucket
<1>3. Choices(m) \subseteq Roles
  BY DEF Choices, TypeOK
<1>4. /\ R1 \in SUBSET (Roles \cup {NoRole}) /\ add \in SUBSET Roles
      /\ A \in SUBSET Roles
  BY <1>3 DEF Wanted
<1>5. \A x \in (R1 \cup add) \ {NoRole} : Given(x, m[2])
  <2>1. m[2] \in Tenants
    BY DEF TypeOK, Members
  <2>. QED
    BY <1>1, <2>1, AssignableGiven
<1>6. X \in SUBSET (RoleRow \cup PermRow) /\ \A x \in X : x.m = m
  BY <1>2, RowTypes
<1>7. addQ \in SUBSET Perms /\ AdminPerm \notin addQ
  BY <1>1, DelegableNotAdmin
<1>8. \A y \in direct : y.m = m => y.perm \notin addQ
  BY DEF PermRows
<1>. HIDE DEF X, R1, add, addQ, A
<1>9. /\ c \in Req /\ c.kind = "member" /\ c.mark = fresh
      /\ c.m = m /\ c.tenant = m[2]
      /\ c.primaryTo = R1 /\ c.addRoles = add /\ c.scope = NoScope
      /\ c.addPerms = addQ /\ c.dropRows = X
  <2>1. c \in Req
    BY <1>2, <1>4, <1>6, <1>7, ChangeType, EditType
  <2>. QED
    BY <1>2, <2>1, ChangeType DEF Req
<1>. HIDE DEF c
<1>10. c \in Req /\ Sound(c) /\ Looked(c)
  BY <1>2, <1>4, <1>5, <1>6, <1>7, <1>8, <1>9, ChangeSound
<1>. QED
  BY <1>1, <1>10 DEF Begun

LEMMA LeaveBegun ==
  ASSUME IInv, NEW p \in Procs, NEW a \in Users, NEW m \in Members,
         BeginLeave(p, a, m)
  PROVE  Begun(p)
<1>. USE DEF IInv
<1>. DEFINE c == NewReq("leave", m[2], m)
            d == [c EXCEPT !.keys = {m}]
<1>1. Start(p, c) \/ Start(p, d)
  BY DEF BeginLeave
<1>2. m[2] \in Tenants
  BY DEF Members
<1>3. c \in Req
  BY <1>2, NewReqType
<1>4. d \in Req
  BY <1>3 DEF Req
<1>5. /\ c.kind = "leave" /\ c.tenant = m[2] /\ c.m = m /\ c.scope = NoScope
      /\ d.kind = "leave" /\ d.tenant = m[2] /\ d.m = m /\ d.scope = NoScope
  BY DEF NewReq
<1>6. Sound(c) /\ Looked(c) /\ Sound(d) /\ Looked(d)
  BY <1>5 DEF Sound, Looked
<1>. QED
  BY <1>1, <1>3, <1>4, <1>6 DEF Begun

LEMMA NobodyType == <<NoUser, NoTenant>> \in Members \cup {<<NoUser, NoTenant>>}
OBVIOUS

LEMMA RoleSaveBegun ==
  ASSUME IInv, NEW p \in Procs, NEW a \in Users, NEW t \in Tenants,
         NEW r \in Roles, NEW Q \in SUBSET Perms, BeginRoleSave(p, a, t, r, Q)
  PROVE  Begun(p)
<1>. USE DEF IInv
<1>. DEFINE b == NewReq("role", t, <<NoUser, NoTenant>>)
            add == Q \ rolePerms[r]
            drop == rolePerms[r] \ Q
            c == [b EXCEPT !.role = r, !.addPerms = add, !.dropPerms = drop,
                           !.keys = MembersOf(t)]
<1>1. Start(p, c) /\ RoleTenant[r] = t
  BY DEF BeginRoleSave, Owned
<1>2. AdminPerm \notin add
  BY DelegableNotAdmin DEF BeginRoleSave
<1>3. /\ add \in SUBSET Perms /\ drop \in SUBSET Perms
      /\ MembersOf(t) \in SUBSET Members
  BY DEF TypeOK, MembersOf
<1>4. b \in Req
  BY NewReqType, NobodyType
<1>5. c \in Req
  BY <1>3, <1>4 DEF Req
<1>6. /\ c.kind = "role" /\ c.tenant = t /\ c.role = r /\ c.addPerms = add
      /\ c.scope = NoScope
  BY DEF NewReq
<1>7. Sound(c) /\ Looked(c)
  BY <1>1, <1>2, <1>6 DEF Sound, Looked
<1>. QED
  BY <1>1, <1>5, <1>7 DEF Begun

LEMMA PlatformRoleBegun ==
  ASSUME IInv, NEW p \in Procs, NEW a \in Users,
         NEW r \in Roles, NEW Q \in SUBSET Perms, BeginPlatformRole(p, a, r, Q)
  PROVE  Begun(p)
<1>. USE DEF IInv
<1>1. PICK K \in SUBSET Members : Start(p, PlatformChange(r, Q, K))
  BY DEF BeginPlatformRole, MembersOf, TypeOK
<1>. DEFINE c == PlatformChange(r, Q, K)
<1>2. IdleReq \in Req
  BY IdleType, BoundAssumption
<1>3. /\ fresh \in 1 .. MaxRows + 1
      /\ Q \ rolePerms[r] \in SUBSET Perms /\ rolePerms[r] \ Q \in SUBSET Perms
  BY DEF TypeOK
<1>4. c \in Req
  BY <1>2, <1>3 DEF PlatformChange, Req
<1>5. c.kind = "role" /\ c.tenant = NoTenant /\ c.scope = NoScope
  BY DEF PlatformChange, IdleReq, NewReq
<1>6. Sound(c) /\ Looked(c)
  BY <1>5 DEF Sound, Looked
<1>. QED
  BY <1>1, <1>4, <1>6 DEF Begun

LEMMA DeleteRoleBegun ==
  ASSUME IInv, NEW p \in Procs, NEW a \in Users, NEW t \in Tenants,
         NEW r \in Roles, BeginDeleteRole(p, a, t, r)
  PROVE  Begun(p)
<1>. USE DEF IInv
<1>. DEFINE holders == {m \in MembersOf(t) : primary[m] = r}
            rows == {x \in extra : x.m[2] = t /\ x.role = r}
            K == holders \cup {x.m : x \in rows}
            b == NewReq("delete", t, <<NoUser, NoTenant>>)
            c == [b EXCEPT !.role = r, !.dropPerms = rolePerms[r],
                           !.stripped = holders, !.dropRows = rows,
                           !.keys = K]
<1>1. Start(p, c) /\ RoleTenant[r] = t
  BY DEF BeginDeleteRole, Owned
<1>2. /\ holders \in SUBSET Members /\ \A m \in holders : m[2] = t
      /\ rows \in SUBSET (RoleRow \cup PermRow) /\ \A x \in rows : x.m[2] = t
      /\ rolePerms[r] \in SUBSET Perms
  BY DEF MembersOf, TypeOK
<1>3. K \in SUBSET Members
  BY <1>2 DEF TypeOK, RoleRow
<1>4. b \in Req
  BY NewReqType, NobodyType
<1>. HIDE DEF holders, rows, K
<1>5. c \in Req
  BY <1>2, <1>3, <1>4 DEF Req
<1>6. /\ c.kind = "delete" /\ c.tenant = t /\ c.role = r
      /\ c.stripped = holders /\ c.dropRows = rows /\ c.scope = NoScope
  BY DEF NewReq
<1>7. Sound(c) /\ Looked(c)
  BY <1>1, <1>2, <1>6 DEF Sound, Looked
<1>. QED
  BY <1>1, <1>5, <1>7 DEF Begun

\* Whatever is asked, the request that begins is a sound one.
LEMMA RequestBegun ==
  ASSUME IInv, NEW p \in Procs, NEW a \in Users, Request(p, a)
  PROVE  Begun(p)
<1>0. NoScope \in Bucket /\ AdminPerm \in Perms /\ Admin \in Roles
  BY PermAssumption, RoleAssumption DEF Bucket
<1>1. ASSUME NEW m \in Members, NEW r \in Roles, BeginAssignRole(p, a, m, r)
      PROVE  Begun(p)
  BY <1>0, <1>1, MemberBegun
<1>2. ASSUME NEW m \in Members, NEW r \in Roles, NEW s \in Bucket,
             BeginAddRole(p, a, m, r, s) \/ BeginDropRole(p, a, m, r, s)
      PROVE  Begun(p)
  BY <1>0, <1>2, MemberBegun
<1>3. ASSUME NEW m \in Members, NEW q \in Perms,
             BeginGrant(p, a, m, q) \/ BeginRevoke(p, a, m, q)
      PROVE  Begun(p)
  BY <1>0, <1>3, MemberBegun
<1>4. ASSUME NEW m \in {x \in DOMAIN primary : IamManages(a, x[2])},
             NEW r \in Choices(m) \cup {NoRole}, NEW R \in SUBSET Choices(m),
             NEW Q \in SUBSET Perms, BeginMemberSave(p, a, m, r, R, Q)
      PROVE  Begun(p)
  BY <1>4, SaveBegun
<1>. QED
  BY <1>1, <1>2, <1>3, <1>4, LeaveBegun, RoleSaveBegun, PlatformRoleBegun,
     DeleteRoleBegun DEF Request

-------------------------------------------------------------------------------
(* What the steps do.                                                      *)

Moves ==
  \/ \E p \in Procs : \/ Begun(p)
                      \/ Proceed(p)
  \/ \E a \in Users, r \in Roles, Q \in SUBSET Perms : CreateRole(a, r, Q)
  \/ \E m \in Members, r \in Roles \cup {NoRole} : Join(m, r)
  \/ \E D \in SUBSET PluginPerms : \E G, A \in SUBSET D : Declare(D, G, A)
  \/ Unload
  \/ Tick
  \/ UNCHANGED vars

LEMMA NextMoves ==
  ASSUME IInv, [Next]_vars
  PROVE  Moves
BY ReadBegun, RequestBegun DEF Next, Moves

\* The commit of a change to a member: one column, rows removed, rows added.
LEMMA CommitMemberFacts ==
  ASSUME IInv, NEW p \in Procs, CommitMember(p), NEW r, r = req[p]
  PROVE  /\ r \in Req /\ r.kind = "member" /\ r.m \in Members
         /\ r.tenant = r.m[2] /\ Sound(r) /\ Looked(r)
         /\ DOMAIN primary' = DOMAIN primary
         /\ \A m \in DOMAIN primary :
              \/ primary'[m] = primary[m]
              \/ m = r.m /\ primary'[m] \in r.primaryTo
         /\ \A x \in r.primaryTo \ {NoRole} : x \in roles
         /\ r.addRoles \subseteq roles
         /\ \/ r.addRoles = {} /\ r.addPerms = {} /\ fresh' = fresh
            \/ fresh \in RowIds /\ fresh' = fresh + 1
         /\ extra' = (extra \ r.dropRows) \cup NewRoleRows(r, fresh)
         /\ direct' = (direct \ r.dropRows) \cup NewPermRows(r, fresh)
         /\ Finish(p)
         /\ UNCHANGED <<joined, active, grantable, roles, rolePerms, cache,
                        platformGave>>
<1>. USE DEF IInv
<1>1. r \in Req /\ r.kind = "member" /\ Sound(r) /\ Looked(r)
  BY DEF CommitMember, Ready, TypeOK
<1>2. r.m \in Members /\ r.tenant = r.m[2]
  BY <1>1 DEF Sound
<1>3. /\ DOMAIN primary' = DOMAIN primary
      /\ \A m \in DOMAIN primary :
           \/ primary'[m] = primary[m]
           \/ m = r.m /\ primary'[m] \in r.primaryTo
  BY DEF CommitMember
<1>4. /\ (r.primaryTo \cup r.addRoles) \ {NoRole} \subseteq roles
      /\ extra' = (extra \ r.dropRows) \cup NewRoleRows(r, fresh)
      /\ direct' = (direct \ r.dropRows) \cup NewPermRows(r, fresh)
      /\ Finish(p)
      /\ UNCHANGED <<joined, active, grantable, roles, rolePerms, cache,
                     platformGave>>
  BY DEF CommitMember
<1>5. NoRole \notin r.addRoles
  BY <1>1, NullAssumption DEF Req
<1>6. \/ r.addRoles = {} /\ r.addPerms = {} /\ fresh' = fresh
      \/ fresh \in RowIds /\ fresh' = fresh + 1
  <2>1. fresh \in 1 .. MaxRows + 1
    BY DEF TypeOK
  <2>. QED
    BY <2>1, BoundAssumption DEF CommitMember, RowIds
<1>. QED
  BY <1>1, <1>2, <1>3, <1>4, <1>5, <1>6

LEMMA NewRows ==
  ASSUME NEW r, NEW i
  PROVE  /\ \A x \in NewRoleRows(r, i) :
              /\ x.id = i /\ x.m = r.m /\ x.scope = r.scope
              /\ x.role \in r.addRoles
         /\ \A x \in NewPermRows(r, i) :
              x.id = i /\ x.m = r.m /\ x.perm \in r.addPerms
         /\ r.addRoles = {} => NewRoleRows(r, i) = {}
         /\ r.addPerms = {} => NewPermRows(r, i) = {}
         /\ r \in Req /\ i \in RowIds /\ r.m \in Members =>
              NewRoleRows(r, i) \subseteq RoleRow /\ NewPermRows(r, i) \subseteq PermRow
BY DEF NewRoleRows, NewPermRows, RoleRow, PermRow, Req

LEMMA FinishType ==
  ASSUME IInv, NEW p \in Procs, Finish(p)
  PROVE  /\ req' \in [Procs -> Req]
         /\ \A q \in Procs : req'[q] = IdleReq \/ req'[q] = req[q]
         /\ req'[p] = IdleReq
         /\ \A q \in Procs : q # p => req'[q] = req[q]
BY IdleType, BoundAssumption DEF IInv, TypeOK, Finish

LEMMA RoleNamesType ==
  ASSUME TypeOK, NEW R \in SUBSET Roles
  PROVE  RoleNames(R) \in SUBSET Perms
BY DEF RoleNames, TypeOK

-------------------------------------------------------------------------------
(* Type correctness: one step per kind of move.                            *)

LEMMA TypeInit == Init => TypeOK
<1>. SUFFICES ASSUME Init PROVE TypeOK
  OBVIOUS
<1>1. fresh \in 1 .. MaxRows + 1 /\ 0 \in 0 .. MaxRows /\ 0 \in 0 .. CacheTTL
  BY BoundAssumption DEF Init
<1>2. primary \in [DOMAIN primary -> roles \cup {NoRole}]
  BY FirstAssumption DEF Init
<1>. QED
  BY <1>1, <1>2, IdleType, BoundAssumption, RoleAssumption, PermAssumption,
     FirstAssumption DEF Init, TypeOK

LEMMA CommitType ==
  ASSUME IInv, NEW p \in Procs,
         CommitMember(p) \/ CommitLeave(p) \/ CommitRole(p) \/ CommitDelete(p)
  PROVE  TypeOK'
<1>. USE DEF IInv
<1>0. fresh \in 1 .. MaxRows + 1 /\ MaxRows \in Nat
  BY BoundAssumption DEF TypeOK
<1>1. CASE CommitMember(p)
  <2>. DEFINE r == req[p]
  <2>1. /\ r \in Req /\ r.m \in Members
        /\ DOMAIN primary' = DOMAIN primary
        /\ \A m \in DOMAIN primary :
             primary'[m] = primary[m] \/ primary'[m] \in r.primaryTo
        /\ \A x \in r.primaryTo \ {NoRole} : x \in roles
        /\ r.addRoles \subseteq roles
        /\ \/ r.addRoles = {} /\ r.addPerms = {} /\ fresh' = fresh
           \/ fresh \in RowIds /\ fresh' = fresh + 1
        /\ extra' = (extra \ r.dropRows) \cup NewRoleRows(r, fresh)
        /\ direct' = (direct \ r.dropRows) \cup NewPermRows(r, fresh)
        /\ Finish(p)
        /\ UNCHANGED <<joined, active, grantable, roles, rolePerms, cache,
                       platformGave>>
    BY <1>1, CommitMemberFacts
  <2>2. primary' \in [DOMAIN primary' -> roles' \cup {NoRole}]
    <3>1. \A m \in DOMAIN primary' : primary'[m] \in roles' \cup {NoRole}
      BY <2>1 DEF TypeOK
    <3>2. primary' = [m \in DOMAIN primary' |-> primary'[m]]
      BY <1>1, <2>1 DEF CommitMember
    <3>. QED
      BY <3>1, <3>2
  <2>3. fresh' \in 1 .. MaxRows + 1 /\ fresh <= fresh'
    BY <1>0, <2>1 DEF RowIds
  <2>. HIDE DEF r
  <2>4. /\ NewRoleRows(r, fresh) \subseteq RoleRow
        /\ NewPermRows(r, fresh) \subseteq PermRow
        /\ \A x \in NewRoleRows(r, fresh) \cup NewPermRows(r, fresh) :
             x.id < fresh'
        /\ \A x \in NewRoleRows(r, fresh) : x.role \in roles
    <3>1. CASE r.addRoles = {} /\ r.addPerms = {}
      BY <3>1, NewRows
    <3>2. CASE fresh \in RowIds /\ fresh' = fresh + 1
      BY <1>0, <2>1, <3>2, NewRows
    <3>. QED
      BY <2>1, <3>1, <3>2
  <2>5. /\ extra' \subseteq RoleRow /\ direct' \subseteq PermRow
        /\ \A x \in extra' \cup direct' : x.id < fresh'
        /\ \A x \in extra' : x.role \in roles'
    <3>1. \A x \in extra \cup direct : x.id \in Nat /\ x.id < fresh
      BY DEF TypeOK, RoleRow, PermRow, RowIds
    <3>. QED
      BY <1>0, <2>1, <2>3, <2>4, <3>1 DEF TypeOK
  <2>6. req' \in [Procs -> Req] /\ DOMAIN primary' \subseteq Members
    BY <2>1, FinishType DEF TypeOK
  <2>. QED
    BY <2>1, <2>2, <2>3, <2>5, <2>6 DEF TypeOK
<1>2. CASE CommitLeave(p)
  <2>1. Finish(p) /\ DOMAIN primary' \subseteq DOMAIN primary
    BY <1>2 DEF CommitLeave
  <2>2. req' \in [Procs -> Req]
    BY <2>1, FinishType
  <2>3. primary' \in [DOMAIN primary' -> roles \cup {NoRole}]
    BY <1>2 DEF CommitLeave, TypeOK
  <2>. QED
    BY <1>2, <2>1, <2>2, <2>3 DEF CommitLeave, TypeOK
<1>3. CASE CommitRole(p)
  <2>1. Finish(p) /\ req[p] \in Req
    BY <1>3 DEF CommitRole, TypeOK
  <2>2. req' \in [Procs -> Req]
    BY <2>1, FinishType
  <2>3. req[p].addPerms \subseteq Perms /\ req[p].role \in roles
    BY <1>3, <2>1 DEF CommitRole, Req
  <2>4. rolePerms' \in [Roles -> SUBSET Perms]
    BY <1>3, <2>3 DEF CommitRole, TypeOK
  <2>5. platformGave' \in BOOLEAN
    BY <1>3 DEF CommitRole, TypeOK
  <2>. QED
    BY <1>3, <2>2, <2>4, <2>5 DEF CommitRole, TypeOK
<1>4. CASE CommitDelete(p)
  <2>1. Finish(p)
    BY <1>4 DEF CommitDelete
  <2>2. req' \in [Procs -> Req]
    BY <2>1, FinishType
  <2>3. rolePerms' \in [Roles -> SUBSET Perms]
    BY <1>4 DEF CommitDelete, TypeOK
  <2>4. primary' \in [DOMAIN primary' -> roles' \cup {NoRole}]
    BY <1>4 DEF CommitDelete, TypeOK
  <2>5. /\ extra' \subseteq extra /\ roles' \subseteq roles
        /\ \A x \in extra' : x.role \in roles'
    BY <1>4 DEF CommitDelete, TypeOK
  <2>. QED
    BY <1>4, <2>2, <2>3, <2>4, <2>5 DEF CommitDelete, TypeOK
<1>. QED
  BY <1>1, <1>2, <1>3, <1>4

LEMMA TypeStep ==
  ASSUME IInv, Moves
  PROVE  TypeOK'
<1>. USE DEF IInv
<1>0. fresh \in 1 .. MaxRows + 1 /\ MaxRows \in Nat /\ CacheTTL \in Nat \ {0}
  BY BoundAssumption DEF TypeOK
<1>1. ASSUME NEW p \in Procs, Begun(p) PROVE TypeOK'
  BY <1>1 DEF Begun, Start, db, TypeOK
<1>2. ASSUME NEW p \in Procs, Fill(p) PROVE TypeOK'
  <2>1. Finish(p) /\ req[p] \in Req
    BY <1>2 DEF Fill, TypeOK
  <2>2. req' \in [Procs -> Req]
    BY <2>1, FinishType
  <2>3. req[p].names \cup RoleNames(req[p].held) \in SUBSET Perms
    BY <2>1, RoleNamesType DEF Req
  <2>4. cache' \in [Members -> [perms : SUBSET Perms, left : 0 .. CacheTTL]]
    <3>1. [perms |-> req[p].names \cup RoleNames(req[p].held), left |-> CacheTTL]
            \in [perms : SUBSET Perms, left : 0 .. CacheTTL]
      BY <1>0, <2>3
    <3>. QED
      BY <1>2, <3>1 DEF Fill, TypeOK
  <2>. QED
    BY <1>2, <2>2, <2>4 DEF Fill, db, TypeOK
<1>3. ASSUME NEW p \in Procs, NEW m \in Members, Invalidate(p, m) PROVE TypeOK'
  <2>1. req' \in [Procs -> Req]
    <3>0. req[p] \in Req
      BY DEF TypeOK
    <3>1. [req[p] EXCEPT !.keys = @ \ {m}] \in Req
      BY <3>0 DEF Req
    <3>. QED
      BY <1>3, <3>1 DEF Invalidate, TypeOK
  <2>2. cache' \in [Members -> [perms : SUBSET Perms, left : 0 .. CacheTTL]]
    BY <1>0, <1>3 DEF Invalidate, TypeOK
  <2>. QED
    BY <1>3, <2>1, <2>2 DEF Invalidate, db, TypeOK
<1>4. ASSUME NEW p \in Procs, Abort(p) PROVE TypeOK'
  BY <1>4, FinishType DEF Abort, db, TypeOK
<1>5. ASSUME NEW a \in Users, NEW r \in Roles, NEW Q \in SUBSET Perms,
             CreateRole(a, r, Q)
      PROVE  TypeOK'
  <2>1. rolePerms' \in [Roles -> SUBSET Perms]
    BY <1>5 DEF CreateRole, TypeOK
  <2>. QED
    BY <1>5, <2>1 DEF CreateRole, TypeOK
<1>6. ASSUME NEW m \in Members, NEW r \in Roles \cup {NoRole}, Join(m, r)
      PROVE  TypeOK'
  <2>1. r \in roles \cup {NoRole}
    BY <1>6 DEF Join, Assignable
  <2>2. primary' \in [DOMAIN primary' -> roles \cup {NoRole}]
    BY <1>6, <2>1 DEF Join, TypeOK
  <2>3. fresh \in 0 .. MaxRows /\ fresh' = fresh + 1
    BY <1>0, <1>6 DEF Join
  <2>4. joined' \in [Members -> 0 .. MaxRows] /\ fresh' \in 1 .. MaxRows + 1
    BY <1>0, <1>6, <2>3 DEF Join, TypeOK
  <2>5. \A x \in extra \cup direct : x.id < fresh'
    <3>1. \A x \in extra \cup direct : x.id \in Nat /\ x.id < fresh
      BY DEF TypeOK, RoleRow, PermRow, RowIds
    <3>. QED
      BY <1>0, <2>3, <3>1
  <2>. QED
    BY <1>6, <2>2, <2>4, <2>5 DEF Join, TypeOK
<1>7. ASSUME NEW D \in SUBSET PluginPerms, NEW G \in SUBSET D,
             NEW A \in SUBSET D, Declare(D, G, A)
      PROVE  TypeOK'
  <2>1. D \subseteq Perms /\ G \subseteq Perms /\ A \subseteq Perms
    BY PermAssumption
  <2>2. rolePerms' \in [Roles -> SUBSET Perms]
    BY <1>7, <2>1 DEF Declare, TypeOK
  <2>. QED
    BY <1>7, <2>1, <2>2 DEF Declare, TypeOK
<1>8. CASE Unload
  BY <1>8 DEF Unload, TypeOK
<1>9. CASE Tick
  <2>1. \A n \in 0 .. CacheTTL : Aged(n) \in 0 .. CacheTTL
    BY <1>0 DEF Aged
  <2>2. cache' \in [Members -> [perms : SUBSET Perms, left : 0 .. CacheTTL]]
    BY <1>9, <2>1 DEF Tick, TypeOK
  <2>. QED
    BY <1>9, <2>2 DEF Tick, db, TypeOK
<1>10. CASE UNCHANGED vars
  BY <1>10 DEF vars, db, TypeOK
<1>. QED
  BY <1>1, <1>2, <1>3, <1>4, <1>5, <1>6, <1>7, <1>8, <1>9, <1>10, CommitType
  DEF Moves, Proceed

-------------------------------------------------------------------------------
(* Requests stay sound until they end.                                     *)

LEMMA SoundStep ==
  ASSUME IInv, Moves, NEW q \in Procs
  PROVE  Sound(req'[q])
<1>. USE DEF IInv
<1>0. Sound(IdleReq) /\ Sound(req[q]) /\ req \in [Procs -> Req]
  BY IdleType, BoundAssumption DEF TypeOK
<1>1. ASSUME NEW p \in Procs, Begun(p) PROVE Sound(req'[q])
  BY <1>0, <1>1 DEF Begun, Start
<1>2. ASSUME NEW p \in Procs, NEW m \in Members, Invalidate(p, m)
      PROVE  Sound(req'[q])
  <2>1. CASE q = p
    <3>1. req'[q] = [req[q] EXCEPT !.keys = @ \ {m}] /\ req[q] \in Req
      BY <1>0, <1>2, <2>1 DEF Invalidate
    <3>2. /\ req'[q].kind = req[q].kind /\ req'[q].tenant = req[q].tenant
          /\ req'[q].m = req[q].m /\ req'[q].role = req[q].role
          /\ req'[q].primaryTo = req[q].primaryTo
          /\ req'[q].addRoles = req[q].addRoles
          /\ req'[q].scope = req[q].scope /\ req'[q].names = req[q].names
          /\ req'[q].addPerms = req[q].addPerms
          /\ req'[q].dropRows = req[q].dropRows
          /\ req'[q].stripped = req[q].stripped /\ req'[q].held = req[q].held
      BY <3>1 DEF Req
    <3>. QED
      BY <1>0, <3>2 DEF Sound
  <2>2. CASE q # p
    BY <1>0, <1>2, <2>2 DEF Invalidate
  <2>. QED
    BY <2>1, <2>2
<1>3. ASSUME NEW p \in Procs, Finish(p) PROVE Sound(req'[q])
  BY <1>0, <1>3, FinishType
<1>4. ASSUME UNCHANGED req PROVE Sound(req'[q])
  BY <1>0, <1>4
<1>. QED
  BY <1>1, <1>2, <1>3, <1>4 DEF Moves, Proceed, Fill, CommitMember, CommitLeave,
     CommitRole, CommitDelete, Abort, CreateRole, Join, Declare, Unload, Tick, vars

\* Rows added later than a request looked have later numbers.
LEMMA LookedStays ==
  ASSUME IInv, NEW r \in Req, Looked(r), fresh <= fresh', fresh' \in Nat,
         \A y \in direct' : y \in direct \/ y.id = fresh
  PROVE  r.kind = "member" =>
           /\ r.mark <= fresh'
           /\ \A y \in direct' :
                y.m = r.m /\ y.perm \in r.addPerms => y.id >= r.mark
<1>1. fresh \in Nat /\ r.mark \in Nat
  BY DEF IInv, TypeOK, Req
<1>. QED
  BY <1>1 DEF Looked

LEMMA DirectStep ==
  ASSUME IInv, Moves
  PROVE  /\ fresh' \in Nat /\ fresh <= fresh'
         /\ \A y \in direct' : y \in direct \/ y.id = fresh
<1>. USE DEF IInv
<1>0. fresh \in Nat
  BY DEF TypeOK
<1>1. ASSUME NEW p \in Procs, CommitMember(p)
      PROVE  /\ fresh' = fresh \/ fresh' = fresh + 1
             /\ \A y \in direct' : y \in direct \/ y.id = fresh
  BY <1>1, CommitMemberFacts, NewRows
<1>2. ASSUME NEW m \in Members, NEW r \in Roles \cup {NoRole}, Join(m, r)
      PROVE  direct' = direct /\ fresh' = fresh + 1
  BY <1>2 DEF Join
<1>3. \/ fresh' = fresh /\ direct' = direct
      \/ \E p \in Procs : CommitMember(p)
      \/ \E m \in Members, r \in Roles \cup {NoRole} : Join(m, r)
  BY DEF Moves, Proceed, Begun, Start, Fill, Invalidate, CommitLeave, CommitRole,
         CommitDelete, Abort, CreateRole, Declare, Unload, Tick, vars, db
<1>. QED
  BY <1>0, <1>1, <1>2, <1>3

LEMMA LookedStep ==
  ASSUME IInv, Moves, NEW q \in Procs
  PROVE  Looked(req[q])'
<1>. USE DEF IInv
<1>0. req \in [Procs -> Req] /\ IdleReq \in Req /\ IdleReq.kind = "idle"
  BY IdleType, BoundAssumption DEF TypeOK
<1>a. ASSUME NEW r \in Req, Looked(r), req'[q] = r PROVE Looked(req[q])'
  <2>1. r.kind = "member" =>
           /\ r.mark <= fresh'
           /\ \A y \in direct' :
                y.m = r.m /\ y.perm \in r.addPerms => y.id >= r.mark
    BY <1>a, DirectStep, LookedStays
  <2>. QED
    BY <1>a, <2>1 DEF Looked
<1>1. ASSUME NEW p \in Procs, Begun(p) PROVE Looked(req[q])'
  BY <1>0, <1>1, <1>a DEF Begun, Start
<1>2. ASSUME NEW p \in Procs, NEW m \in Members, Invalidate(p, m)
      PROVE  Looked(req[q])'
  <2>1. \/ req'[q] = req[q]
        \/ req'[q] = [req[q] EXCEPT !.keys = @ \ {m}]
    BY <1>0, <1>2 DEF Invalidate
  <2>2. [req[q] EXCEPT !.keys = @ \ {m}] \in Req
    BY <1>0 DEF Req
  <2>3. Looked([req[q] EXCEPT !.keys = @ \ {m}])
    BY <1>0 DEF Looked, Req
  <2>. QED
    BY <1>0, <2>1, <2>2, <2>3, <1>a
<1>3. ASSUME NEW p \in Procs, Finish(p) PROVE Looked(req[q])'
  BY <1>0, <1>3, <1>a, FinishType, IdleType, BoundAssumption
<1>4. ASSUME UNCHANGED req PROVE Looked(req[q])'
  BY <1>0, <1>4, <1>a
<1>. QED
  BY <1>1, <1>2, <1>3, <1>4 DEF Moves, Proceed, Fill, CommitMember, CommitLeave,
     CommitRole, CommitDelete, Abort, CreateRole, Join, Declare, Unload, Tick, vars

-------------------------------------------------------------------------------
(* Who holds admin, and whose roles are whose: one step per move that       *)
(* writes the tables or the cache.                                         *)

LEMMA NewRoleNotAdmin ==
  ASSUME NEW t \in Tenants, NEW r, Given(r, t)
  PROVE  r # Admin /\ RoleTenant[r] \in {t, NoTenant}
BY DEF Given

\* A member told of admin:* is a member of the staff.
LEMMA EffectiveStaff ==
  ASSUME IInv, ~platformGave, NEW m \in Members, AdminPerm \in Effective(m)
  PROVE  m[1] \in Staff
<1>. USE DEF IInv
<1>1. m \in DOMAIN primary /\ AdminPerm \notin DirectNames(m)
  BY DEF Effective, DirectNames, PermRows, OnlyStaff
<1>2. PICK r \in Held(m, {NoScope}) : AdminPerm \in rolePerms[r]
  BY <1>1 DEF Effective, RoleNames
<1>3. r \in Roles
  BY <1>1, <1>2, RowTypes
<1>4. r = Admin
  BY <1>2, <1>3 DEF OnlyStaff
<1>. QED
  BY <1>1, <1>2, <1>4 DEF Held, RoleRows, OnlyStaff

LEMMA CommitStaff ==
  ASSUME IInv, NEW p \in Procs,
         CommitMember(p) \/ CommitLeave(p) \/ CommitRole(p) \/ CommitDelete(p)
  PROVE  OnlyStaff' /\ RolesAtHome'
<1>. USE DEF IInv
<1>1. CASE CommitMember(p)
  <2>. DEFINE r == req[p]
  <2>1. /\ r.m \in Members /\ r.tenant = r.m[2] /\ Sound(r) /\ r.kind = "member"
        /\ r \in Req
        /\ DOMAIN primary' = DOMAIN primary
        /\ \A m \in DOMAIN primary :
              \/ primary'[m] = primary[m]
              \/ m = r.m /\ primary'[m] \in r.primaryTo
        /\ extra' = (extra \ r.dropRows) \cup NewRoleRows(r, fresh)
        /\ direct' = (direct \ r.dropRows) \cup NewPermRows(r, fresh)
        /\ UNCHANGED <<grantable, rolePerms, cache, platformGave>>
    BY <1>1, CommitMemberFacts
  <2>. HIDE DEF r
  <2>2. r.tenant \in Tenants
    BY <2>1 DEF Members
  <2>3. /\ \A x \in (r.primaryTo \cup r.addRoles) \ {NoRole} : Given(x, r.tenant)
        /\ AdminPerm \notin r.addPerms
    BY <2>1 DEF Sound
  <2>4. NoRole \notin r.addRoles /\ NoRole # Admin
    BY <2>1, NullAssumption, RoleAssumption DEF Req
  <2>5. \A x \in (r.primaryTo \cup r.addRoles) \ {NoRole} :
          x # Admin /\ RoleTenant[x] \in {r.tenant, NoTenant}
    BY <2>2, <2>3, NewRoleNotAdmin
  <2>6. \A m \in DOMAIN primary' :
          /\ primary'[m] = Admin => m[1] \in Staff
          /\ primary'[m] # NoRole => RoleTenant[primary'[m]] \in {m[2], NoTenant}
    BY <2>1, <2>4, <2>5 DEF OnlyStaff, RolesAtHome
  <2>7. \A x \in extra' : /\ x.role # Admin
                          /\ RoleTenant[x.role] \in {x.m[2], NoTenant}
    BY <2>1, <2>4, <2>5, NewRows DEF OnlyStaff, RolesAtHome
  <2>8. \A x \in direct' : x.perm # AdminPerm
    BY <2>1, <2>3, NewRows DEF OnlyStaff
  <2>. QED
    BY <2>1, <2>6, <2>7, <2>8 DEF OnlyStaff, RolesAtHome
<1>2. CASE CommitLeave(p)
  BY <1>2 DEF CommitLeave, OnlyStaff, RolesAtHome
<1>3. CASE CommitRole(p)
  <2>. DEFINE r == req[p]
  <2>1. /\ r \in Req /\ Sound(r) /\ r.kind = "role"
        /\ rolePerms' = [rolePerms EXCEPT ![r.role] = (@ \ r.dropPerms) \cup r.addPerms]
        /\ platformGave' =
             (platformGave \/ (r.tenant = NoTenant /\ AdminPerm \in r.addPerms))
        /\ UNCHANGED <<grantable, primary, extra, direct, cache>>
    BY <1>3 DEF CommitRole, Ready, TypeOK
  <2>. HIDE DEF r
  <2>2. ~platformGave' => ~platformGave /\ AdminPerm \notin r.addPerms
    BY <2>1 DEF Sound
  <2>3. ~platformGave' =>
           \A x \in Roles : AdminPerm \in rolePerms'[x] => AdminPerm \in rolePerms[x]
    BY <2>1, <2>2 DEF TypeOK
  <2>. QED
    BY <2>1, <2>2, <2>3 DEF OnlyStaff, RolesAtHome
<1>4. CASE CommitDelete(p)
  <2>1. /\ DOMAIN primary' = DOMAIN primary
        /\ \A m \in DOMAIN primary :
             primary'[m] = NoRole \/ primary'[m] = primary[m]
        /\ extra' \subseteq extra
        /\ \A r \in Roles : rolePerms'[r] \subseteq rolePerms[r]
        /\ UNCHANGED <<grantable, direct, cache, platformGave>>
    BY <1>4 DEF CommitDelete, TypeOK
  <2>2. NoRole # Admin
    BY NullAssumption, RoleAssumption
  <2>. QED
    BY <2>1, <2>2 DEF OnlyStaff, RolesAtHome
<1>. QED
  BY <1>1, <1>2, <1>3, <1>4

LEMMA StaffStep ==
  ASSUME IInv, Moves
  PROVE  OnlyStaff' /\ RolesAtHome'
<1>. USE DEF IInv
<1>1. ASSUME NEW p \in Procs, Fill(p) PROVE OnlyStaff' /\ RolesAtHome'
  <2>. DEFINE r == req[p]
              S == r.names \cup RoleNames(r.held)
  <2>1. /\ r \in Req /\ Sound(r) /\ r.kind = "read" /\ r.m \in Members
        /\ cache' = cache \/ cache' = [cache EXCEPT ![r.m] =
                                         [perms |-> S, left |-> CacheTTL]]
        /\ UNCHANGED <<db, platformGave>>
    BY <1>1 DEF Fill, TypeOK, Sound
  <2>2. ~platformGave /\ AdminPerm \in S => r.m[1] \in Staff
    <3>1. AdminPerm \notin r.names /\ (Admin \in r.held => r.m[1] \in Staff)
      BY <2>1 DEF Sound
    <3>2. r.held \subseteq Roles
      BY <2>1 DEF Req
    <3>. QED
      BY <3>1, <3>2 DEF RoleNames, OnlyStaff
  <2>. HIDE DEF S
  <2>. HIDE DEF r
  <2>3. \A m \in Members :
          \/ cache'[m].perms = cache[m].perms
          \/ m = r.m /\ cache'[m].perms = S
    <3>1. DOMAIN cache = Members
      BY DEF TypeOK
    <3>2. CASE cache' = [cache EXCEPT ![r.m] =
                            [perms |-> S, left |-> CacheTTL]]
      BY <2>1, <3>1, <3>2
    <3>. QED
      BY <2>1, <3>2
  <2>. QED
    BY <2>1, <2>2, <2>3 DEF OnlyStaff, RolesAtHome, db
<1>2. ASSUME NEW p \in Procs, NEW n \in Members, Invalidate(p, n)
      PROVE  OnlyStaff' /\ RolesAtHome'
  <2>1. \A m \in Members : cache'[m].perms \subseteq cache[m].perms
    BY <1>2 DEF Invalidate, TypeOK
  <2>2. UNCHANGED <<db, platformGave>>
    BY <1>2 DEF Invalidate
  <2>. QED
    BY <2>1, <2>2 DEF OnlyStaff, RolesAtHome, db
<1>3. ASSUME NEW a \in Users, NEW r \in Roles, NEW Q \in SUBSET Perms,
             CreateRole(a, r, Q)
      PROVE  OnlyStaff' /\ RolesAtHome'
  <2>1. AdminPerm \notin Q
    BY <1>3, DelegableNotAdmin DEF CreateRole
  <2>2. \A x \in Roles : AdminPerm \in rolePerms'[x] => AdminPerm \in rolePerms[x]
    BY <1>3, <2>1 DEF CreateRole, TypeOK
  <2>. QED
    BY <1>3, <2>2 DEF CreateRole, OnlyStaff, RolesAtHome
<1>4. ASSUME NEW m \in Members, NEW r \in Roles \cup {NoRole}, Join(m, r)
      PROVE  OnlyStaff' /\ RolesAtHome'
  <2>1. m[2] \in Tenants /\ NoRole # Admin
    BY NullAssumption, RoleAssumption DEF Members
  <2>2. r # Admin /\ (r # NoRole => RoleTenant[r] \in {m[2], NoTenant})
    BY <1>4, <2>1, AssignableGiven, NewRoleNotAdmin DEF Join
  <2>3. primary' = [x \in DOMAIN primary \cup {m} |->
                      IF x = m THEN r ELSE primary[x]]
    BY <1>4 DEF Join
  <2>4. \A n \in DOMAIN primary' :
          \/ n \in DOMAIN primary /\ primary'[n] = primary[n]
          \/ n = m /\ primary'[n] = r
    BY <2>3
  <2>. QED
    BY <1>4, <2>2, <2>4 DEF Join, OnlyStaff, RolesAtHome
<1>5. ASSUME NEW D \in SUBSET PluginPerms, NEW G \in SUBSET D,
             NEW A \in SUBSET D, Declare(D, G, A)
      PROVE  OnlyStaff' /\ RolesAtHome'
  <2>1. AdminPerm \notin D /\ AdminPerm \notin G /\ AdminPerm \notin A
    BY PermAssumption
  <2>2. \A x \in Roles : AdminPerm \in rolePerms'[x] => AdminPerm \in rolePerms[x]
    BY <1>5, <2>1 DEF Declare, TypeOK
  <2>. QED
    BY <1>5, <2>1, <2>2 DEF Declare, OnlyStaff, RolesAtHome
<1>6. ASSUME Tick PROVE OnlyStaff' /\ RolesAtHome'
  <2>1. \A m \in Members : cache'[m].perms \subseteq cache[m].perms
    BY <1>6 DEF Tick, TypeOK
  <2>2. UNCHANGED <<db, platformGave>>
    BY <1>6 DEF Tick
  <2>. QED
    BY <2>1, <2>2 DEF OnlyStaff, RolesAtHome, db
<1>7. ASSUME \/ \E p \in Procs : Begun(p) \/ Abort(p)
             \/ Unload \/ UNCHANGED vars
      PROVE  OnlyStaff' /\ RolesAtHome'
  <2>1. UNCHANGED <<grantable, rolePerms, primary, extra, direct, cache,
                    platformGave>>
    BY <1>7 DEF Begun, Start, Abort, Unload, vars, db
  <2>. QED
    BY <2>1 DEF OnlyStaff, RolesAtHome
<1>. QED
  BY <1>1, <1>2, <1>3, <1>4, <1>5, <1>6, <1>7, CommitStaff DEF Moves, Proceed

LEMMA InvInit == Init => IInv
<1>. SUFFICES ASSUME Init PROVE IInv
  OBVIOUS
<1>1. TypeOK
  BY TypeInit
<1>2. \A p \in Procs : Sound(req[p]) /\ Looked(req[p])
  BY IdleType, BoundAssumption DEF Init
<1>3. OnlyStaff
  <2>1. AdminPerm \notin grantable
    BY PermAssumption DEF Init
  <2>2. \A m \in DOMAIN primary : primary[m] = Admin => m[1] \in Staff
    <3>1. SUFFICES ASSUME NEW m \in DOMAIN FirstPrimary, FirstPrimary[m] = Admin
                   PROVE  m[1] \in Staff
      BY DEF Init
    <3>2. m \in Users \X Tenants
      BY FirstAssumption DEF Members
    <3>3. m = <<m[1], m[2]>> /\ m[1] \in Users /\ m[2] \in Tenants
      BY <3>2
    <3>. QED
      BY <3>1, <3>3 DEF Staff
  <2>. QED
    BY <2>1, <2>2, FirstAssumption DEF Init, OnlyStaff
<1>4. RolesAtHome
  BY FirstAssumption DEF Init, RolesAtHome
<1>. QED
  BY <1>1, <1>2, <1>3, <1>4 DEF IInv

LEMMA InvStep == IInv /\ [Next]_vars => IInv'
<1>. SUFFICES ASSUME IInv, [Next]_vars PROVE IInv'
  OBVIOUS
<1>1. Moves
  BY NextMoves
<1>2. \A q \in Procs : Sound(req'[q]) /\ Looked(req[q])'
  BY <1>1, SoundStep, LookedStep
<1>3. \A q \in Procs : Sound(req'[q]) <=> Sound(req[q])'
  BY DEF Sound
<1>. QED
  BY <1>1, <1>2, <1>3, TypeStep, StaffStep DEF IInv

-------------------------------------------------------------------------------
(* The theorems about states.                                              *)

\* The inductive invariant: a request writes only what its organisation may,
\* admin and admin:* stay with the staff, nobody holds a foreign role.
THEOREM Invariance == Spec => []IInv
BY InvInit, InvStep, PTL DEF Spec

\* Every variable keeps its type, whatever the number of users, organisations,
\* roles, permissions and requests: a membership never names a role that is gone.
THEOREM TypeCorrect == Spec => []TypeOK
<1>1. IInv => TypeOK
  BY DEF IInv
<1>. QED
  BY <1>1, Invariance, PTL

\* No sequence of delegations, roles, direct grants, saves and joins gives
\* admin:* to anyone but the platform's staff, unless the platform gave it.
THEOREM NobodyElseAdmin == Spec => []NoSelfMadeAdmin
<1>1. ASSUME IInv PROVE NoSelfMadeAdmin
  <2>1. SUFFICES ASSUME ~platformGave, NEW u \in Users, NEW t \in Tenants,
                        AdminPerm \in Seen(<<u, t>>)
                 PROVE  u \in Staff
    BY DEF NoSelfMadeAdmin, PlatformAdmin
  <2>2. <<u, t>> \in Members
    BY DEF Members
  <2>3. CASE Cached(<<u, t>>)
    BY <1>1, <2>1, <2>2, <2>3 DEF Seen, IInv, OnlyStaff
  <2>4. CASE ~Cached(<<u, t>>)
    BY <1>1, <2>1, <2>2, <2>4, EffectiveStaff DEF Seen
  <2>. QED
    BY <2>3, <2>4
<1>. QED
  BY <1>1, Invariance, PTL

-------------------------------------------------------------------------------
(* What a step may never do.                                               *)

\* A request that ends has filled the cache, committed, or given up.
Ends(p) == \/ Fill(p) \/ Abort(p) \/ CommitMember(p) \/ CommitLeave(p)
           \/ CommitRole(p) \/ CommitDelete(p)

LEMMA EndingStep ==
  ASSUME IInv, [Next]_vars, NEW p \in Procs,
         req[p].kind # "idle", req'[p].kind = "idle"
  PROVE  Ends(p)
<1>. USE DEF IInv
<1>0. Moves /\ req \in [Procs -> Req]
  BY NextMoves DEF TypeOK
<1>1. ASSUME NEW q \in Procs, Begun(q) PROVE FALSE
  <2>1. req'[p] = req[p] \/ (q = p /\ req[q].kind = "idle")
    BY <1>0, <1>1 DEF Begun, Start
  <2>. QED
    BY <2>1
<1>2. ASSUME NEW q \in Procs, NEW m \in Members, Invalidate(q, m) PROVE FALSE
  BY <1>0, <1>2 DEF Invalidate, Req
<1>3. ASSUME NEW q \in Procs, Ends(q) PROVE Ends(p)
  <2>1. Finish(q)
    BY <1>3 DEF Ends, Fill, CommitMember, CommitLeave, CommitRole,
                CommitDelete, Abort
  <2>2. q = p
    BY <2>1, FinishType
  <2>. QED
    BY <1>3, <2>2
<1>4. ASSUME UNCHANGED req PROVE FALSE
  BY <1>4
<1>5. \/ \E q \in Procs : \/ Begun(q) \/ Ends(q)
                          \/ \E m \in Members : Invalidate(q, m)
      \/ UNCHANGED req
  BY <1>0 DEF Moves, Proceed, Ends, CreateRole, Join, Declare, Unload, Tick, vars
<1>. QED
  BY <1>1, <1>2, <1>3, <1>4, <1>5

\* What a member may do depends on the member's own column and rows, and on
\* what the roles they hold carry.
LEMMA EffectiveLocal ==
  ASSUME NEW m, m \in DOMAIN primary <=> m \in DOMAIN primary',
         m \in DOMAIN primary => primary'[m] = primary[m],
         RoleRows(m, {NoScope})' = RoleRows(m, {NoScope}),
         PermRows(m)' = PermRows(m), active' = active,
         m \in DOMAIN primary =>
           \A r \in Held(m, {NoScope}) : rolePerms'[r] = rolePerms[r]
  PROVE  Effective(m)' = Effective(m)
<1>1. CASE m \notin DOMAIN primary
  BY <1>1 DEF Effective
<1>2. CASE m \in DOMAIN primary
  <2>1. DirectNames(m)' = DirectNames(m)
    BY DEF DirectNames
  <2>2. Held(m, {NoScope})' = Held(m, {NoScope})
    BY <1>2 DEF Held
  <2>3. RoleNames(Held(m, {NoScope}))' = RoleNames(Held(m, {NoScope}))
    BY <1>2, <2>2 DEF RoleNames
  <2>. QED
    BY <1>2, <2>1, <2>3 DEF Effective
<1>. QED
  BY <1>1, <1>2

\* A member of another organisation holds no role of this one.
LEMMA ForeignRole ==
  ASSUME IInv, NEW m \in DOMAIN primary, NEW t \in Tenants, m[2] # t,
         NEW r \in Held(m, {NoScope})
  PROVE  RoleTenant[r] # t
BY NullAssumption DEF IInv, RolesAtHome, Held, RoleRows

LEMMA RolePermsType == TypeOK => DOMAIN rolePerms = Roles
BY DEF TypeOK

LEMMA IsolationStep ==
  ASSUME IInv, [Next]_vars, NEW p \in Procs, req[p].tenant # NoTenant,
         req'[p].kind = "idle", NEW m \in Members, m[2] # req[p].tenant
  PROVE  Effective(m)' = Effective(m)
<1>. USE DEF IInv
<1>. DEFINE r == req[p]
<1>0. r \in Req /\ Sound(r) /\ r.kind # "idle" /\ r.tenant \in Tenants
  BY DEF TypeOK, Sound, Req
<1>1. Ends(p)
  BY <1>0, EndingStep
<1>2. CASE Fill(p) \/ Abort(p)
  BY <1>2, EffectiveLocal DEF Fill, Abort, db, RoleRows, PermRows
<1>3. CASE CommitMember(p)
  <2>1. /\ r.m[2] = r.tenant
        /\ DOMAIN primary' = DOMAIN primary
        /\ \A n \in DOMAIN primary :
             \/ primary'[n] = primary[n]
             \/ n = r.m /\ primary'[n] \in r.primaryTo
        /\ extra' = (extra \ r.dropRows) \cup NewRoleRows(r, fresh)
        /\ direct' = (direct \ r.dropRows) \cup NewPermRows(r, fresh)
        /\ UNCHANGED <<active, rolePerms>>
        /\ r.kind = "member"
    BY <1>3, CommitMemberFacts
  <2>2. m # r.m /\ \A x \in r.dropRows : x.m = r.m
    BY <1>0, <2>1 DEF Sound
  <2>. HIDE DEF r
  <2>3. RoleRows(m, {NoScope})' = RoleRows(m, {NoScope})
    BY <2>1, <2>2, NewRows DEF RoleRows
  <2>4. PermRows(m)' = PermRows(m)
    BY <2>1, <2>2, NewRows DEF PermRows
  <2>. QED
    BY <2>1, <2>2, <2>3, <2>4, EffectiveLocal
<1>4. CASE CommitLeave(p)
  <2>1. r.m[2] = r.tenant
    BY <1>0, <1>4 DEF CommitLeave, Ready, Sound
  <2>2. m # r.m
    BY <2>1
  <2>3. /\ m \in DOMAIN primary <=> m \in DOMAIN primary'
        /\ m \in DOMAIN primary => primary'[m] = primary[m]
        /\ UNCHANGED <<active, rolePerms, extra, direct>>
    BY <1>4, <2>2 DEF CommitLeave
  <2>. QED
    BY <2>3, EffectiveLocal DEF RoleRows, PermRows
<1>5. CASE CommitRole(p)
  <2>1. RoleTenant[r.role] = r.tenant
    BY <1>0, <1>5 DEF CommitRole, Ready, Sound
  <2>2. UNCHANGED <<active, primary, extra, direct>>
    BY <1>5 DEF CommitRole
  <2>3. \A x : x # r.role => rolePerms'[x] = rolePerms[x]
    BY <1>5 DEF CommitRole, TypeOK
  <2>4. m \in DOMAIN primary =>
          \A x \in Held(m, {NoScope}) : rolePerms'[x] = rolePerms[x]
    BY <1>0, <2>1, <2>3, ForeignRole
  <2>. QED
    BY <2>2, <2>4, EffectiveLocal DEF RoleRows, PermRows
<1>6. CASE CommitDelete(p)
  <2>1. /\ RoleTenant[r.role] = r.tenant
        /\ \A n \in r.stripped : n[2] = r.tenant
        /\ \A x \in r.dropRows : x.m[2] = r.tenant
    BY <1>0, <1>6 DEF CommitDelete, Ready, Sound
  <2>2. /\ UNCHANGED <<active, direct>> /\ DOMAIN primary' = DOMAIN primary
        /\ m \in DOMAIN primary => primary'[m] = primary[m]
    BY <1>6, <2>1 DEF CommitDelete
  <2>3. extra' = extra \ r.dropRows
    BY <1>6 DEF CommitDelete
  <2>4. RoleRows(m, {NoScope})' = RoleRows(m, {NoScope})
    BY <2>1, <2>3 DEF RoleRows
  <2>5. \A x : x # r.role => rolePerms'[x] = rolePerms[x]
    BY <1>6 DEF CommitDelete, TypeOK
  <2>6. m \in DOMAIN primary =>
          \A x \in Held(m, {NoScope}) : rolePerms'[x] = rolePerms[x]
    BY <1>0, <2>1, <2>5, ForeignRole
  <2>. QED
    BY <2>2, <2>4, <2>6, EffectiveLocal DEF PermRows
<1>. QED
  BY <1>1, <1>2, <1>3, <1>4, <1>5, <1>6 DEF Ends

IsolatedStep ==
  \A p \in Procs :
    (req[p].tenant # NoTenant /\ req'[p].kind = "idle") =>
      \A m \in Members : m[2] # req[p].tenant => Effective(m)' = Effective(m)

\* What an organisation's administrator does changes nothing of what anybody may
\* do in another organisation.
THEOREM Isolated == Spec => Isolation
<1>1. IInv /\ [Next]_vars => [IsolatedStep]_vars
  BY IsolationStep DEF IsolatedStep
<1>. QED
  BY <1>1, Invariance, PTL DEF Spec, Isolation, IsolatedStep

LEMMA RowsDiffer == RoleRow \cap PermRow = {}
<1>1. ASSUME NEW x \in RoleRow, x \in PermRow PROVE FALSE
  <2>1. DOMAIN x = {"id", "m", "role", "scope"}
    BY <1>1 DEF RoleRow
  <2>2. DOMAIN x = {"id", "m", "perm"}
    BY <1>1 DEF PermRow
  <2>. QED
    BY <2>1, <2>2
<1>. QED
  BY <1>1

\* What a request with a scope writes, if anything: rows of one member, of that
\* scope.
LEMMA ScopedWrites ==
  ASSUME IInv, [Next]_vars, NEW p \in Procs, NEW r, r = req[p],
         r.scope # NoScope, req'[p].kind = "idle"
  PROVE  /\ UNCHANGED <<direct, active, rolePerms>>
         /\ DOMAIN primary' = DOMAIN primary
         /\ \A n \in DOMAIN primary : primary'[n] = primary[n]
         /\ \A x \in extra \ extra' :
              x \in r.dropRows /\ x.m = r.m /\ x.scope = r.scope
         /\ \A x \in extra' \ extra :
              x.role \in r.addRoles /\ x.m = r.m /\ x.scope = r.scope
<1>. USE DEF IInv
<1>0. /\ r \in Req /\ r.kind = "member" /\ r.primaryTo = {} /\ r.addPerms = {}
      /\ r.dropRows \subseteq {x \in RoleRow : x.scope = r.scope}
      /\ \A x \in r.dropRows : x.m = r.m
  BY DEF TypeOK, Sound
<1>1. Ends(p)
  BY <1>0, EndingStep
<1>2. CASE Abort(p)
  BY <1>2 DEF Abort, db
<1>3. CASE CommitMember(p)
  <2>1. /\ DOMAIN primary' = DOMAIN primary
        /\ \A n \in DOMAIN primary :
             primary'[n] = primary[n] \/ primary'[n] \in r.primaryTo
        /\ extra' = (extra \ r.dropRows) \cup NewRoleRows(r, fresh)
        /\ direct' = (direct \ r.dropRows) \cup NewPermRows(r, fresh)
        /\ UNCHANGED <<active, rolePerms>>
    BY <1>3, CommitMemberFacts
  <2>2. NewPermRows(r, fresh) = {}
    BY <1>0, NewRows
  <2>3. direct \cap r.dropRows = {}
    BY <1>0, RowsDiffer DEF TypeOK
  <2>4. \A x \in NewRoleRows(r, fresh) :
          x.role \in r.addRoles /\ x.m = r.m /\ x.scope = r.scope
    BY NewRows
  <2>. QED
    BY <1>0, <2>1, <2>2, <2>3, <2>4
<1>. QED
  BY <1>0, <1>1, <1>2, <1>3
  DEF Ends, Fill, CommitLeave, CommitRole, CommitDelete, Ready

LEMMA ScopeStep ==
  ASSUME IInv, [Next]_vars, NEW p \in Procs, req[p].scope # NoScope,
         req'[p].kind = "idle", NEW m \in Members
  PROVE  Effective(m)' = Effective(m)
<1>1. PICK r : r = req[p]
  OBVIOUS
<1>2. /\ UNCHANGED <<direct, active, rolePerms>>
      /\ DOMAIN primary' = DOMAIN primary
      /\ \A n \in DOMAIN primary : primary'[n] = primary[n]
      /\ \A x \in extra \ extra' : x.scope # NoScope
      /\ \A x \in extra' \ extra : x.scope # NoScope
  BY <1>1, ScopedWrites
<1>3. RoleRows(m, {NoScope})' = RoleRows(m, {NoScope})
  BY <1>2 DEF RoleRows
<1>. QED
  BY <1>2, <1>3, EffectiveLocal DEF PermRows

LEMMA DoorStep ==
  ASSUME IInv, [Next]_vars, NEW p \in Procs, req[p].scope # NoScope,
         req'[p].kind = "idle", NEW u \in Users, NEW t \in Tenants,
         Runs(u, t)' # Runs(u, t)
  PROVE  /\ <<u, t>> = req[p].m
         /\ (req[p].addRoles \cup {x.role : x \in req[p].dropRows})
              \cap TenantAdmins # {}
<1>1. PICK r : r = req[p]
  OBVIOUS
<1>2. PICK m \in Members : m = <<u, t>>
  BY DEF Members
<1>3. /\ DOMAIN primary' = DOMAIN primary
      /\ \A n \in DOMAIN primary : primary'[n] = primary[n]
      /\ \A x \in extra \ extra' : x \in r.dropRows /\ x.m = r.m
      /\ \A x \in extra' \ extra : x.role \in r.addRoles /\ x.m = r.m
  BY <1>1, ScopedWrites
\* what the rows of m say of the name
<1>. DEFINE Door(R) == \E x \in R : x.m = m /\ x.scope \in Bucket
                                    /\ x.role \in TenantAdmins
<1>4. /\ Runs(u, t) <=> /\ m \in DOMAIN primary
                        /\ \/ m \in Owners
                           \/ primary[m] \in TenantAdmins \ {NoRole}
                           \/ Door(extra)
      /\ Runs(u, t)' <=> /\ m \in DOMAIN primary'
                         /\ \/ m \in Owners
                            \/ primary'[m] \in TenantAdmins \ {NoRole}
                            \/ Door(extra')
  BY <1>2 DEF Runs, NamedRoles, Held, RoleRows
<1>5. Runs(u, t) \in BOOLEAN /\ Runs(u, t)' \in BOOLEAN
  BY DEF Runs
<1>6. ~(Door(extra) <=> Door(extra'))
  BY <1>3, <1>4, <1>5
<1>7. PICK x : /\ x \in (extra \ extra') \cup (extra' \ extra)
               /\ x.m = m /\ x.role \in TenantAdmins
  BY <1>6
<1>. QED
  BY <1>1, <1>2, <1>3, <1>7

ScopedStep ==
  \A p \in Procs :
    (req[p].scope # NoScope /\ req'[p].kind = "idle") =>
      /\ \A m \in Members : Effective(m)' = Effective(m)
      /\ \A u \in Users, t \in Tenants :
           Runs(u, t)' # Runs(u, t) =>
             /\ <<u, t>> = req[p].m
             /\ (req[p].addRoles \cup {x.role : x \in req[p].dropRows})
                  \cap TenantAdmins # {}

\* A role given or taken for a scope changes no permission anyone has outside it,
\* and makes or unmakes an administrator of the organisation only of its member,
\* and only under the name tenant_admin (services/rbac/members.py).
THEOREM ScopesReach == Spec => ScopeReach
<1>1. IInv /\ [Next]_vars => [ScopedStep]_vars
  BY ScopeStep, DoorStep DEF ScopedStep
<1>. QED
  BY <1>1, Invariance, PTL DEF Spec, ScopeReach, ScopedStep

LEMMA TwinStep ==
  ASSUME IInv, [Next]_vars, NEW p \in Procs, req[p].kind = "member",
         req'[p].kind = "idle", NEW x \in direct' \ direct,
         NEW y \in direct \cap direct', x.m = y.m, x.perm = y.perm
  PROVE  y.id >= req[p].mark
<1>1. Ends(p)
  BY EndingStep
<1>2. CASE CommitMember(p)
  <2>1. x \in NewPermRows(req[p], fresh) /\ Looked(req[p])
    BY <1>2, CommitMemberFacts
  <2>. QED
    BY <2>1, NewRows DEF Looked
<1>. QED
  BY <1>1, <1>2
  DEF Ends, Fill, Abort, db, CommitLeave, CommitRole, CommitDelete, Ready

TwinsStep ==
  \A p \in Procs :
    (req[p].kind = "member" /\ req'[p].kind = "idle") =>
      \A x \in direct' \ direct, y \in direct \cap direct' :
        (x.m = y.m /\ x.perm = y.perm) => y.id >= req[p].mark

\* A permission is given twice to a member only by two requests of which the
\* second had looked before the first was committed.
THEOREM TwinsTogether == Spec => TwinsOnlyTogether
<1>1. IInv /\ [Next]_vars => [TwinsStep]_vars
  BY TwinStep DEF TwinsStep
<1>. QED
  BY <1>1, Invariance, PTL DEF Spec, TwinsOnlyTogether, TwinsStep

-------------------------------------------------------------------------------
(* A save that is alone: with one request at a time, the differences it     *)
(* computed are still right when it commits.                                *)

\* A role the save asks for will be held: it becomes the primary one, is added,
\* or is there already and stays.
WillHold(r, x) ==
  /\ r.kind = "member" /\ r.scope = NoScope
  /\ \/ r.primaryTo = {x}
     \/ x \in r.addRoles
     \/ \E z \in extra \ r.dropRows :
          z.m = r.m /\ z.scope = NoScope /\ z.role = x
     \/ r.primaryTo = {} /\ r.m \in DOMAIN primary /\ primary[r.m] = x

AskedOf(r) == r.asked \ {z.role : z \in r.dropRows \cap RoleRow}

AllAsked(r) == \A x \in AskedOf(r) : WillHold(r, x)

SaveAsks == \A p \in Procs : AllAsked(req[p])

LEMMA NoneAsked ==
  ASSUME NEW r, r.asked = {}
  PROVE  AllAsked(r)
BY DEF AllAsked, AskedOf

LEMMA SaveAsked ==
  ASSUME IInv, NEW p \in Procs, NEW a \in Users, NEW m \in DOMAIN primary,
         NEW r \in Choices(m) \cup {NoRole}, NEW R \in SUBSET Choices(m),
         NEW Q \in SUBSET Perms, BeginMemberSave(p, a, m, r, R, Q)
  PROVE  AllAsked(req'[p])
<1>. USE DEF IInv
<1>. DEFINE before == {x.role : x \in RoleRows(m, {NoScope})}
            wanted == Wanted(m, r, R)
            add == wanted \ before
            drop == {x \in RoleRows(m, {NoScope}) : /\ x.role # primary[m]
                                                    /\ x.role \notin wanted}
            addQ == Q \ {x.perm : x \in PermRows(m)}
            dropQ == {x \in PermRows(m) : x.perm \notin Q}
            changed == r # primary[m]
            column == IF r \in {x.role : x \in drop} THEN NoRole ELSE r
            R1 == IF changed THEN {column} ELSE {}
            X == drop \cup dropQ
            A == (R \cup {r}) \ {NoRole}
            c == [Change(m) EXCEPT !.primaryTo = R1, !.addRoles = add,
                                   !.addPerms = addQ, !.dropRows = X,
                                   !.asked = A]
<1>1. Start(p, c)
  BY DEF BeginMemberSave
<1>2. m \in Members /\ drop \subseteq RoleRow
  BY RowTypes DEF TypeOK
<1>3. req'[p] = c
  BY <1>1 DEF Start, TypeOK
<1>4. ASSUME NEW x \in A \ {z.role : z \in X \cap RoleRow}
      PROVE  \/ R1 = {x} \/ x \in add
             \/ \E z \in extra \ X :
                  z.m = m /\ z.scope = NoScope /\ z.role = x
             \/ R1 = {} /\ m \in DOMAIN primary /\ primary[m] = x
  <2>1. x \notin {z.role : z \in drop}
    BY <1>2, <1>4
  <2>2. CASE x = r
    BY <2>1, <2>2
  <2>3. CASE x # r
    <3>1. x \in wanted
      BY <1>4, <2>3 DEF Wanted
    <3>2. CASE x \notin before
      BY <3>1, <3>2
    <3>3. CASE x \in before
      <4>1. PICK z \in RoleRows(m, {NoScope}) : z.role = x
        BY <3>3
      <4>2. z \in extra /\ z.m = m /\ z.scope = NoScope
        BY <4>1 DEF RoleRows
      <4>3. z \notin drop
        BY <3>1, <4>1
      <4>4. z \notin dropQ
        BY <4>1, <4>2 DEF PermRows, TypeOK, RoleRow, PermRow
      <4>. QED
        BY <4>1, <4>2, <4>3, <4>4
    <3>. QED
      BY <3>2, <3>3
  <2>. QED
    BY <2>2, <2>3
<1>. HIDE DEF X, R1, add, addQ, A
<1>5. /\ c.kind = "member" /\ c.m = m /\ c.primaryTo = R1 /\ c.addRoles = add
      /\ c.scope = NoScope /\ c.dropRows = X /\ c.asked = A
  BY <1>2, ChangeType DEF Req
<1>. HIDE DEF c
<1>. QED
  BY <1>3, <1>4, <1>5 DEF AllAsked, AskedOf, WillHold

\* Every other request asks for nothing.
LEMMA OthersAsked ==
  ASSUME IInv, NEW p \in Procs, NEW a \in Users, Request(p, a)
  PROVE  AllAsked(req'[p])
<1>. USE DEF IInv, Start
<1>0. req \in [Procs -> Req]
  BY DEF TypeOK
<1>1. ASSUME NEW m \in Members, NEW r \in Roles, BeginAssignRole(p, a, m, r)
      PROVE  req'[p].asked = {}
  BY <1>0, <1>1 DEF BeginAssignRole, Change, NewReq
<1>2. ASSUME NEW m \in Members, NEW r \in Roles, NEW s \in Bucket,
             BeginAddRole(p, a, m, r, s)
      PROVE  req'[p].asked = {}
  BY <1>0, <1>2 DEF BeginAddRole, Change, NewReq
<1>3. ASSUME NEW m \in Members, NEW r \in Roles, NEW s \in Bucket,
             BeginDropRole(p, a, m, r, s)
      PROVE  req'[p].asked = {}
  BY <1>0, <1>3 DEF BeginDropRole, Change, NewReq
<1>4. ASSUME NEW m \in Members, NEW q \in Perms, BeginGrant(p, a, m, q)
      PROVE  req'[p].asked = {}
  BY <1>0, <1>4 DEF BeginGrant, Change, NewReq
<1>5. ASSUME NEW m \in Members, NEW q \in Perms, BeginRevoke(p, a, m, q)
      PROVE  req'[p].asked = {}
  BY <1>0, <1>5 DEF BeginRevoke, Change, NewReq
<1>6. ASSUME NEW m \in {x \in DOMAIN primary : IamManages(a, x[2])},
             NEW r \in Choices(m) \cup {NoRole}, NEW R \in SUBSET Choices(m),
             NEW Q \in SUBSET Perms, BeginMemberSave(p, a, m, r, R, Q)
      PROVE  AllAsked(req'[p])
  BY <1>6, SaveAsked
<1>7. ASSUME NEW m \in Members, BeginLeave(p, a, m) PROVE req'[p].asked = {}
  BY <1>0, <1>7 DEF BeginLeave, NewReq
<1>8. ASSUME NEW r \in Roles, NEW Q \in SUBSET Perms,
             BeginPlatformRole(p, a, r, Q)
      PROVE  req'[p].asked = {}
  <2>1. PICK K : Start(p, PlatformChange(r, Q, K))
    BY <1>8 DEF BeginPlatformRole
  <2>2. PlatformChange(r, Q, K).asked = {}
    BY DEF PlatformChange, IdleReq, NewReq
  <2>. QED
    BY <1>0, <2>1, <2>2
<1>9. ASSUME NEW t \in Tenants, NEW r \in Roles, NEW Q \in SUBSET Perms,
             BeginRoleSave(p, a, t, r, Q)
      PROVE  req'[p].asked = {}
  BY <1>0, <1>9 DEF BeginRoleSave, NewReq
<1>10. ASSUME NEW t \in Tenants, NEW r \in Roles, BeginDeleteRole(p, a, t, r)
       PROVE  req'[p].asked = {}
  BY <1>0, <1>10 DEF BeginDeleteRole, NewReq
<1>. QED
  BY <1>1, <1>2, <1>3, <1>4, <1>5, <1>6, <1>7, <1>8, <1>9, <1>10, NoneAsked
  DEF Request

\* What a request computed is still so while nobody else writes.
LEMMA AskedStays ==
  ASSUME NEW r, AllAsked(r), extra' = extra,
         \A m \in DOMAIN primary :
           m \in DOMAIN primary' /\ primary'[m] = primary[m]
  PROVE  \A x \in AskedOf(r) :
           /\ r.kind = "member" /\ r.scope = NoScope
           /\ \/ r.primaryTo = {x}
              \/ x \in r.addRoles
              \/ \E z \in extra' \ r.dropRows :
                   z.m = r.m /\ z.scope = NoScope /\ z.role = x
              \/ /\ r.primaryTo = {} /\ r.m \in DOMAIN primary'
                 /\ primary'[r.m] = x
BY DEF AllAsked, WillHold

LEMMA AskedStep ==
  ASSUME IInv, SaveAsks, [Next]_vars, NEW only, Procs = {only}
  PROVE  SaveAsks'
<1>. USE DEF IInv
<1>0. req \in [Procs -> Req] /\ only \in Procs
  BY DEF TypeOK
<1>old. AllAsked(req[only])
  BY <1>0 DEF SaveAsks
<1>goal. SUFFICES AllAsked(req[only])'
  BY DEF SaveAsks
<1>keep. ASSUME NEW r, AllAsked(r), extra' = extra, req'[only] = r,
                \A m \in DOMAIN primary :
                  m \in DOMAIN primary' /\ primary'[m] = primary[m]
         PROVE  AllAsked(req[only])'
  <2>1. \A x \in AskedOf(r) :
           /\ r.kind = "member" /\ r.scope = NoScope
           /\ \/ r.primaryTo = {x}
              \/ x \in r.addRoles
              \/ \E z \in extra' \ r.dropRows :
                   z.m = r.m /\ z.scope = NoScope /\ z.role = x
              \/ /\ r.primaryTo = {} /\ r.m \in DOMAIN primary'
                 /\ primary'[r.m] = x
    BY <1>keep, AskedStays
  <2>. QED
    BY <1>keep, <2>1 DEF AllAsked, AskedOf, WillHold
<1>none. ASSUME Finish(only) PROVE AllAsked(req[only])'
  <2>1. req'[only] = IdleReq
    BY <1>0, <1>none, FinishType
  <2>2. IdleReq.asked = {}
    BY DEF IdleReq, NewReq
  <2>. QED
    BY <2>1, <2>2 DEF AllAsked, AskedOf
<1>1. ASSUME NEW m \in Members, BeginRead(only, m) PROVE AllAsked(req[only])'
  <2>1. req'[only].asked = {}
    BY <1>0, <1>1 DEF BeginRead, Start, NewReq
  <2>. QED
    BY <2>1 DEF AllAsked, AskedOf
<1>2. ASSUME NEW a \in Users, Request(only, a) PROVE AllAsked(req[only])'
  <2>1. AllAsked(req'[only])
    BY <1>0, <1>2, OthersAsked
  <2>2. UNCHANGED <<primary, extra>>
    <3>1. Begun(only)
      BY <1>0, <1>2, RequestBegun
    <3>. QED
      BY <3>1 DEF Begun, Start, db
  <2>. QED
    BY <2>1, <2>2, <1>keep
<1>3. ASSUME NEW m \in Members, Invalidate(only, m) PROVE AllAsked(req[only])'
  <2>1. /\ req'[only] = [req[only] EXCEPT !.keys = @ \ {m}]
        /\ req[only] \in Req /\ UNCHANGED <<primary, extra>>
    BY <1>0, <1>3 DEF Invalidate, db
  <2>2. AllAsked(req'[only])
    BY <1>old, <2>1 DEF AllAsked, AskedOf, WillHold, Req
  <2>. QED
    BY <2>1, <2>2, <1>keep
<1>4. ASSUME Ends(only) PROVE AllAsked(req[only])'
  BY <1>4, <1>none DEF Ends, Fill, CommitMember, CommitLeave, CommitRole,
     CommitDelete, Abort
<1>5. ASSUME NEW m \in Members, NEW r \in Roles \cup {NoRole}, Join(m, r)
      PROVE  AllAsked(req[only])'
  <2>1. /\ UNCHANGED <<extra, req>>
        /\ \A n \in DOMAIN primary :
             n \in DOMAIN primary' /\ primary'[n] = primary[n]
    BY <1>5 DEF Join
  <2>. QED
    BY <1>old, <2>1, <1>keep
<1>6. ASSUME UNCHANGED <<primary, extra, req>> PROVE AllAsked(req[only])'
  BY <1>old, <1>6, <1>keep
<1>7. \/ \E m \in Members : BeginRead(only, m) \/ Invalidate(only, m)
      \/ \E a \in Users : Request(only, a)
      \/ Ends(only)
      \/ \E m \in Members, r \in Roles \cup {NoRole} : Join(m, r)
      \/ UNCHANGED <<primary, extra, req>>
  BY DEF Next, Proceed, Ends, CreateRole, Declare, Unload, Tick, vars, db
<1>. QED
  BY <1>1, <1>2, <1>3, <1>4, <1>5, <1>6, <1>7

LEMMA KeepsStep ==
  ASSUME IInv, SaveAsks, [Next]_vars, NEW p \in Procs, NEW m \in Members,
         m = req[p].m, req'[p].kind = "idle", db' # db,
         NEW x \in AskedOf(req[p]), Procs = {p}
  PROVE  x \in Held(m, {NoScope})'
<1>. USE DEF IInv
<1>. DEFINE r == req[p]
<1>0. r \in Req /\ WillHold(r, x) /\ r.kind = "member" /\ x \in Roles
  BY DEF TypeOK, SaveAsks, AllAsked, WillHold, AskedOf, Req
<1>1. CommitMember(p)
  <2>1. Ends(p)
    BY <1>0, EndingStep
  <2>. QED
    BY <1>0, <2>1
    DEF Ends, Fill, Abort, CommitLeave, CommitRole, CommitDelete, Ready
<1>2. /\ extra' = (extra \ r.dropRows) \cup NewRoleRows(r, fresh)
      /\ DOMAIN primary' = DOMAIN primary
      /\ primary' = [n \in DOMAIN primary |->
                       IF n = r.m /\ r.primaryTo # {}
                       THEN CHOOSE y \in r.primaryTo : TRUE ELSE primary[n]]
      /\ r.primaryTo # {} => r.m \in DOMAIN primary
  BY <1>1 DEF CommitMember, Current
<1>3. x # NoRole
  BY <1>0, NullAssumption
<1>4. CASE r.primaryTo = {x}
  <2>1. primary'[m] = CHOOSE y \in {x} : TRUE
    BY <1>2, <1>4
  <2>2. primary'[m] = x
    BY <2>1
  <2>. QED
    BY <1>3, <2>2 DEF Held
<1>5. CASE x \in r.addRoles
  <2>1. [id |-> fresh, m |-> r.m, role |-> x, scope |-> r.scope] \in extra'
    BY <1>2, <1>5 DEF NewRoleRows
  <2>. QED
    BY <1>0, <2>1 DEF Held, RoleRows, WillHold
<1>6. CASE \E z \in extra \ r.dropRows :
             z.m = r.m /\ z.scope = NoScope /\ z.role = x
  BY <1>2, <1>6 DEF Held, RoleRows
<1>7. CASE r.primaryTo = {} /\ r.m \in DOMAIN primary /\ primary[r.m] = x
  BY <1>2, <1>3, <1>7 DEF Held
<1>. QED
  BY <1>0, <1>4, <1>5, <1>6, <1>7 DEF WillHold

KeptStep ==
  \A p \in Procs, m \in Members :
    (m = req[p].m /\ req'[p].kind = "idle" /\ db' # db) =>
      \A r \in req[p].asked \ {x.role : x \in req[p].dropRows \cap RoleRow} :
        r \in Held(m, {NoScope})'

\* With one request at a time, every role a save names is held once it has
\* committed, except one whose added row the save itself took away; what
\* happens in between (members joining, plugins, roles created) changes nothing.
THEOREM SaveAlone ==
  ASSUME NEW only, Procs = {only}
  PROVE  Spec => SaveKeepsAsked
<1>1. Init => SaveAsks
  BY DEF Init, SaveAsks, AllAsked, AskedOf, IdleReq, NewReq
<1>2. IInv /\ SaveAsks /\ [Next]_vars => SaveAsks'
  BY AskedStep
<1>3. IInv /\ SaveAsks /\ [Next]_vars => [KeptStep]_vars
  BY KeepsStep DEF KeptStep, AskedOf
<1>. QED
  BY <1>1, <1>2, <1>3, Invariance, PTL DEF Spec, SaveKeepsAsked, KeptStep
=============================================================================
