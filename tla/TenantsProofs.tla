----------------------------- MODULE TenantsProofs -----------------------------
(***************************************************************************)
(* What holds of organisations for every set of users, slugs and names of  *)
(* roles, every limit, and any numbers of requests, organisations and      *)
(* roles, through any number of stops and starts.                          *)
(***************************************************************************)
EXTENDS Tenants, FiniteSetTheorems, TLAPS

-------------------------------------------------------------------------------
(* The inductive invariant.                                                *)

\* r is a role of the platform's, named as the owners'.
OfOwners(r) == /\ r \in DOMAIN roles
               /\ roles[r].home = NoTenant /\ roles[r].name = OwnerName

\* The role a creation carries is a role of owners, and there still.
RolesCarried ==
  \A p \in Procs :
    req[p].role # NoRole \/ req[p].kind \in {"create", "setup"} =>
      OfOwners(req[p].role)

\* What the seed made is the platform's, one role of each of its two names; both
\* are there as soon as there is any role at all.
SeedsOwn ==
  /\ \A r \in DOMAIN roles : roles[r].seeded => roles[r].home = NoTenant
  /\ \A r, s \in DOMAIN roles :
       roles[r].seeded /\ roles[s].seeded /\ roles[r].name = roles[s].name =>
         r = s
  /\ up \/ DOMAIN roles # {} =>
       \A n \in {AdminName, OwnerName} :
         \E r \in DOMAIN roles : roles[r].seeded /\ roles[r].name = n

\* A creation has a slug, and an event that is owed has its organisation.
Filled ==
  \A p \in Procs :
    /\ req[p].kind \in {"create", "setup"} => req[p].slug \in Slugs
    /\ req[p].kind = "owes" => req[p].tenant \in Ids

\* Nothing is in flight while the service is down.
Quiet == ~up => toTell = NoTenant /\ \A p \in Procs : req[p] = Idle

\* Whoever still waits for their event; while the service is down, that is the
\* seeded organisation only, and the boot announces no other.
Heard ==
  /\ \A t \in DOMAIN tenants :
       \/ t \in told \cup lost
       \/ up /\ t \in Owed \cup {toTell}
       \/ ~up /\ tenants[t] = Home
  /\ toTell \in DOMAIN tenants => tenants[toTell] = Home
  /\ toTell \in made \cup {NoTenant}

\* A creation that saw no other membership of its user made still has room.
Counted ==
  \A p \in Procs :
    req[p].kind = "create" /\ ~req[p].late => RoomFor(req[p].user)

IInv == /\ TypeOK /\ RolesCarried /\ SeedsOwn /\ Filled
        /\ RoleAtHome /\ Quiet /\ Heard /\ Counted

-------------------------------------------------------------------------------
(* Operators of the model.                                                 *)

LEMMA NewReqType ==
  ASSUME NEW kind \in {"idle", "create", "setup", "delete", "owes"}
  PROVE  /\ NewReq(kind) \in Req
         /\ NewReq(kind).kind = kind /\ NewReq(kind).role = NoRole
BY DEF NewReq, Req

LEMMA IdleType ==
  Idle \in Req /\ Idle.kind = "idle" /\ Idle.role = NoRole
BY NewReqType DEF Idle

LEMMA NewIdFresh ==
  ASSUME SomeId
  PROVE  NewId \in Ids /\ NewId \notin made
BY DEF SomeId, NewId

LEMMA WithType ==
  ASSUME NEW S, NEW f, f \in [DOMAIN f -> S], NEW x, NEW y \in S
  PROVE  With(f, x, y) \in [DOMAIN With(f, x, y) -> S]
BY DEF With

LEMMA WithoutType ==
  ASSUME NEW S, NEW f, f \in [DOMAIN f -> S], NEW X
  PROVE  Without(f, X) \in [DOMAIN Without(f, X) -> S]
BY DEF Without

\* An insertion only tells the requests in flight; what they are stays.
LEMMA InsertedFacts ==
  ASSUME TypeOK, NEW m
  PROVE  /\ Inserted(m) \in [Procs -> Req]
         /\ \A q \in Procs :
              /\ Inserted(m)[q].kind = req[q].kind
              /\ Inserted(m)[q].user = req[q].user
              /\ Inserted(m)[q].slug = req[q].slug
              /\ Inserted(m)[q].role = req[q].role
              /\ Inserted(m)[q].tenant = req[q].tenant
              /\ req[q].late => Inserted(m)[q].late
              /\ req[q].user = m[1] => Inserted(m)[q].late
<1>1. ASSUME NEW q \in Procs
      PROVE  /\ [req[q] EXCEPT !.late = @ \/ req[q].user = m[1],
                               !.saw = @ \ {m}] \in Req
             /\ req[q] \in Req
  <2>1. req[q] \in Req
    BY DEF TypeOK
  <2>2. (req[q].late \/ req[q].user = m[1]) \in BOOLEAN
    BY <2>1 DEF Req
  <2>. QED
    BY <2>1, <2>2 DEF Req
<1>. QED
  BY <1>1 DEF Inserted, Req

-------------------------------------------------------------------------------
(* A start of the service.                                                 *)

\* Two names find two identifiers.
LEMMA NewIdsExist ==
  ASSUME NEW S, IsFiniteSet(S), NEW T \in SUBSET {AdminName, OwnerName},
         Cardinality(S) >= Cardinality(T)
  PROVE  \E f \in [T -> S] : \A a, b \in T : f[a] = f[b] => a = b
<1>0. Cardinality(S) \in Nat
  BY FS_CardinalityType
<1>1. CASE T = {}
  <2>1. [x \in T |-> x] \in [T -> S]
    BY <1>1
  <2>. QED
    BY <1>1, <2>1
<1>2. ASSUME NEW a, T = {a}
      PROVE  \E f \in [T -> S] : \A x, y \in T : f[x] = f[y] => x = y
  <2>1. Cardinality(T) = 1
    BY <1>2, FS_Singleton
  <2>2. S # {}
    BY <1>0, <2>1, FS_EmptySet
  <2>3. PICK s \in S : TRUE
    BY <2>2
  <2>4. [x \in T |-> s] \in [T -> S]
    BY <2>3
  <2>. QED
    BY <1>2, <2>4
<1>3. CASE T = {AdminName, OwnerName}
  <2>1. IsFiniteSet({AdminName}) /\ Cardinality({AdminName}) = 1
    BY FS_Singleton
  <2>2. T = {AdminName} \cup {OwnerName} /\ OwnerName \notin {AdminName}
    BY <1>3, NameAssumption
  <2>3. Cardinality(T) = 2
    BY <2>1, <2>2, FS_AddElement
  <2>4. PICK s \in S : TRUE
    BY <1>0, <2>3, FS_EmptySet
  <2>5. IsFiniteSet(S \ {s}) /\ Cardinality(S \ {s}) = Cardinality(S) - 1
    BY <2>4, FS_RemoveElement
  <2>6. PICK z \in S \ {s} : TRUE
    BY <1>0, <2>3, <2>5, FS_EmptySet
  <2>7. [x \in T |-> IF x = AdminName THEN s ELSE z] \in [T -> S]
    BY <2>4, <2>6
  <2>8. \A x, y \in T :
          (IF x = AdminName THEN s ELSE z) = (IF y = AdminName THEN s ELSE z)
            => x = y
    BY <1>3, <2>6
  <2>. QED
    BY <2>7, <2>8
<1>4. \/ T = {} \/ T = {AdminName} \/ T = {OwnerName}
      \/ T = {AdminName, OwnerName}
  OBVIOUS
<1>. QED
  BY <1>1, <1>2, <1>3, <1>4

\* The seed leaves the roles that are there alone, and creates one role of the
\* platform for each name that has none.
RolesSeeded ==
  /\ DOMAIN roles \subseteq DOMAIN roles' /\ DOMAIN roles' \subseteq RoleIds
  /\ roles' = [x \in DOMAIN roles' |-> roles'[x]]
  /\ \A x \in DOMAIN roles : roles'[x] = roles[x]
  /\ \A x \in DOMAIN roles' \ DOMAIN roles :
       roles'[x].home = NoTenant /\ roles'[x].name \in Missing
         /\ roles'[x] \in [home : {NoTenant}, name : Missing, seeded : {TRUE}]
  /\ \A n \in Missing : \E x : Named(n)' = {x}

LEMMA StartRoles ==
  ASSUME TypeOK, Start
  PROVE  RolesSeeded
<1>. DEFINE F == RoleIds \ DOMAIN roles
            Good(f) == \A a, b \in Missing : f[a] = f[b] => a = b
            ids == CHOOSE f \in [Missing -> F] : Good(f)
<1>1. /\ Cardinality(F) >= Cardinality(Missing)
      /\ roles' = [x \in DOMAIN roles \cup {ids[n] : n \in Missing} |->
                     IF x \in DOMAIN roles THEN roles[x]
                     ELSE [home |-> NoTenant,
                           name |-> CHOOSE n \in Missing : ids[n] = x,
                           seeded |-> TRUE]]
  BY DEF Start, Role
<1>2. IsFiniteSet(F)
  <2>1. IsFiniteSet(RoleIds)
    BY BoundAssumption, FS_Interval DEF RoleIds
  <2>. QED
    BY <2>1, FS_Subset
<1>3. Missing \in SUBSET {AdminName, OwnerName}
  BY DEF Missing
<1>4. \E f \in [Missing -> F] : Good(f)
  BY <1>1, <1>2, <1>3, NewIdsExist
<1>5. ids \in [Missing -> F] /\ Good(ids)
  BY <1>4
<1>5a. PICK f \in [Missing -> F] : f = ids /\ Good(f)
  BY <1>5
<1>. HIDE DEF ids
<1>6. \A n \in Missing : /\ f[n] \in RoleIds \ DOMAIN roles
                         /\ (CHOOSE k \in Missing : f[k] = f[n]) = n
  BY <1>5a
<1>7. \A n \in Missing :
        /\ f[n] \in DOMAIN roles'
        /\ roles'[f[n]] = [home |-> NoTenant, name |-> n, seeded |-> TRUE]
  <2>1. ASSUME NEW n \in Missing
        PROVE  /\ f[n] \in DOMAIN roles'
               /\ roles'[f[n]] = [home |-> NoTenant,
                                  name |-> CHOOSE k \in Missing : f[k] = f[n],
                                  seeded |-> TRUE]
    BY <1>1, <1>5a, <1>6
  <2>. QED
    BY <1>6, <2>1
<1>7a. ASSUME NEW n \in Missing
       PROVE  /\ f[n] \in DOMAIN roles'
              /\ roles'[f[n]].home = NoTenant
              /\ roles'[f[n]].name = n
              /\ roles'[f[n]]
                   \in [home : {NoTenant}, name : Missing, seeded : {TRUE}]
  <2>. DEFINE row == [home |-> NoTenant, name |-> n, seeded |-> TRUE]
  <2>1. /\ row.home = NoTenant /\ row.name = n
        /\ row \in [home : {NoTenant}, name : Missing, seeded : {TRUE}]
    OBVIOUS
  <2>. QED
    BY <1>7, <2>1
<1>8. \A x \in DOMAIN roles' \ DOMAIN roles : \E n \in Missing : x = f[n]
  BY <1>1, <1>5a
<1>9. \A x \in DOMAIN roles : roles'[x] = roles[x]
  BY <1>1
<1>10. \A n \in Missing : Named(n)' = {f[n]}
  <2>1. SUFFICES ASSUME NEW n \in Missing PROVE Named(n)' = {f[n]}
    OBVIOUS
  <2>2. \A x \in DOMAIN roles : ~(roles[x].home = NoTenant /\ roles[x].name = n)
    BY <2>1 DEF Missing, Named
  <2>3. f[n] \in Named(n)'
    BY <1>7a DEF Named
  <2>4. ASSUME NEW x \in Named(n)' PROVE x = f[n]
    <3>1. x \in DOMAIN roles' /\ roles'[x].home = NoTenant /\ roles'[x].name = n
      BY <2>4 DEF Named
    <3>2. x \notin DOMAIN roles
      BY <2>2, <3>1, <1>9
    <3>3. PICK k \in Missing : x = f[k]
      BY <3>1, <3>2, <1>8
    <3>. QED
      BY <3>1, <3>3, <1>7a
  <2>. QED
    BY <2>3, <2>4
<1>11. /\ DOMAIN roles' = DOMAIN roles \cup {f[n] : n \in Missing}
       /\ roles' = [x \in DOMAIN roles' |-> roles'[x]]
  BY <1>1, <1>5a
<1>12. DOMAIN roles' \subseteq RoleIds
  BY <1>6, <1>11 DEF TypeOK
<1>13. \A x \in DOMAIN roles' \ DOMAIN roles :
         /\ roles'[x].home = NoTenant /\ roles'[x].name \in Missing
         /\ roles'[x] \in [home : {NoTenant}, name : Missing, seeded : {TRUE}]
  <2>1. SUFFICES
          ASSUME NEW x \in DOMAIN roles' \ DOMAIN roles, NEW row, row = roles'[x]
          PROVE  /\ row.home = NoTenant /\ row.name \in Missing
                 /\ row \in [home : {NoTenant}, name : Missing, seeded : {TRUE}]
    OBVIOUS
  <2>2. PICK n \in Missing : x = f[n]
    BY <1>8
  <2>. QED
    BY <1>7a, <2>1, <2>2
<1>. QED
  BY <1>9, <1>10, <1>11, <1>12, <1>13 DEF RolesSeeded

\* What one start does to the organisation it seeds.
Seeds(t, r) ==
  /\ IF Homes = {} THEN t \in Ids \ made ELSE t \in Homes
  /\ r \in Named(AdminName)'
  /\ tenants' = With(tenants, t, Home)
  /\ members' = With(members, <<Adm, t>>, r)
  /\ owners' = owners \cup {<<Adm, t>>}
  /\ made' = made \cup {t}
  /\ toTell' = t
  /\ accounts' = accounts \cup {Adm} /\ closed' = closed \ {Adm}
  /\ ~up /\ up' = TRUE
  /\ UNCHANGED <<invited, req, told, lost>>

LEMMA StartSeeds ==
  ASSUME Start
  PROVE  \E t, r : Seeds(t, r)
<1>1. PICK t \in (IF Homes = {} THEN {NewId} ELSE Homes), r \in Named(AdminName)' :
        /\ tenants' = With(tenants, t, Home)
        /\ members' = With(members, <<Adm, t>>, r)
        /\ owners' = owners \cup {<<Adm, t>>}
        /\ made' = made \cup {t}
        /\ toTell' = ToAnnounce(t)
  BY DEF Start
<1>2. IF Homes = {} THEN t \in Ids \ made ELSE t \in Homes
  BY <1>1, NewIdFresh DEF Start
<1>. QED
  BY <1>1, <1>2 DEF Start, Seeds, ToAnnounce

LEMMA TypeInit == Init => TypeOK
BY IdleType DEF Init, TypeOK

LEMMA FinishType ==
  ASSUME TypeOK, NEW p \in Procs, Finish(p)
  PROVE  /\ req' \in [Procs -> Req]
         /\ \A q \in Procs : req'[q] = Idle \/ req'[q] = req[q]
         /\ \A q \in Procs : q # p => req'[q] = req[q]
         /\ req'[p] = Idle
BY IdleType DEF TypeOK, Finish

LEMMA IdsAreNat == Ids \subseteq Nat /\ NoTenant \notin Ids
BY NullAssumption DEF Ids

LEMMA StartType ==
  ASSUME TypeOK, Start
  PROVE  TypeOK'
<1>1. PICK t, r : Seeds(t, r)
  BY StartSeeds
<1>2. RolesSeeded
  BY StartRoles
<1>3. t \in Ids /\ (t \in DOMAIN tenants => tenants[t] = Home)
  BY <1>1 DEF Seeds, Homes, TypeOK
<1>4. /\ DOMAIN tenants' = DOMAIN tenants \cup {t}
      /\ tenants'[t] = Home
      /\ \A s \in DOMAIN tenants : tenants'[s] = tenants[s]
  BY <1>1, <1>3 DEF Seeds, With
<1>5. tenants' \in [DOMAIN tenants' -> Slugs]
  BY <1>1, NameAssumption, WithType DEF Seeds, TypeOK
<1>6. \A a, b \in DOMAIN tenants' : tenants'[a] = tenants'[b] => a = b
  BY <1>1, <1>4 DEF Seeds, Homes, TypeOK
<1>7. DOMAIN tenants' \subseteq made' /\ made' \subseteq Ids
  BY <1>1, <1>3, <1>4 DEF Seeds, TypeOK
<1>8. accounts' \subseteq Users /\ closed' \subseteq Users \ accounts'
  BY <1>1, NameAssumption DEF Seeds, TypeOK
<1>9. /\ DOMAIN members' = DOMAIN members \cup {<<Adm, t>>}
      /\ members'[<<Adm, t>>] = r
      /\ \A m \in DOMAIN members : m # <<Adm, t>> => members'[m] = members[m]
  BY <1>1 DEF Seeds, With
<1>10. r \in DOMAIN roles' /\ DOMAIN roles \subseteq DOMAIN roles'
  BY <1>1, <1>2 DEF Seeds, RolesSeeded, Named
<1>11. members' \in [DOMAIN members' -> DOMAIN roles' \cup {NoRole}]
  <2>1. members \in [DOMAIN members -> DOMAIN roles' \cup {NoRole}]
    BY <1>10 DEF TypeOK
  <2>. QED
    BY <1>1, <1>10, <2>1, WithType DEF Seeds
<1>12. DOMAIN members' \subseteq accounts' \X DOMAIN tenants'
  BY <1>1, <1>4, <1>9 DEF Seeds, TypeOK
<1>13. owners' \subseteq DOMAIN members'
  BY <1>1, <1>9 DEF Seeds, TypeOK
<1>14. DOMAIN roles' \subseteq RoleIds
  BY <1>2 DEF RolesSeeded
<1>15. \A x \in DOMAIN roles' :
         roles'[x] \in [home : DOMAIN tenants' \cup {NoTenant}, name : Names,
                        seeded : BOOLEAN]
  <2>. DEFINE New == [home : DOMAIN tenants' \cup {NoTenant}, name : Names,
                      seeded : BOOLEAN]
              Old == [home : DOMAIN tenants \cup {NoTenant}, name : Names,
                      seeded : BOOLEAN]
  <2>1. ASSUME NEW x \in Old PROVE x \in New
    BY <1>4
  <2>2. \A x \in DOMAIN roles : roles[x] \in Old
    BY DEF TypeOK
  <2>3. Missing \subseteq Names
    BY NameAssumption DEF Missing
  <2>4. ASSUME NEW x \in [home : {NoTenant}, name : Missing, seeded : {TRUE}]
        PROVE  x \in New
    BY <2>3
  <2>. HIDE DEF New, Old
  <2>5. \A x \in DOMAIN roles' : roles'[x] \in New
    BY <1>2, <2>1, <2>2, <2>4 DEF RolesSeeded
  <2>. QED
    BY <2>5 DEF New
<1>16. roles' \in [DOMAIN roles' -> [home : DOMAIN tenants' \cup {NoTenant},
                                     name : Names, seeded : BOOLEAN]]
  BY <1>2, <1>15 DEF RolesSeeded
<1>17. invited' \subseteq DOMAIN tenants' /\ req' \in [Procs -> Req]
  BY <1>1, <1>4 DEF Seeds, TypeOK
<1>18. up' \in BOOLEAN /\ toTell' \in Ids \cup {NoTenant}
       /\ told' \subseteq Ids /\ lost' \subseteq Ids
  BY <1>1, <1>3 DEF Seeds, TypeOK
<1>. QED
  BY <1>5, <1>6, <1>7, <1>8, <1>11, <1>12, <1>13, <1>14, <1>16, <1>17, <1>18
  DEF TypeOK

LEMMA CommitType ==
  ASSUME TypeOK, RolesCarried, Filled, NEW p \in Procs, Commit(p)
  PROVE  TypeOK'
<1>. DEFINE r == req[p]
            m == <<r.user, NewId>>
<1>1. /\ Insertable(r) /\ SomeId
      /\ tenants' = With(tenants, NewId, r.slug)
      /\ members' = With(members, m, r.role)
      /\ owners' = owners \cup {m}
      /\ made' = made \cup {NewId}
      /\ req' = [Inserted(m) EXCEPT ![p] =
                   [NewReq("owes") EXCEPT !.tenant = NewId]]
      /\ UNCHANGED <<up, toTell, people, roles, invited, told, lost>>
  BY DEF Commit
<1>2. NewId \in Ids /\ NewId \notin made /\ NewId \notin DOMAIN tenants
  BY <1>1, NewIdFresh DEF TypeOK
<1>3. [NewReq("owes") EXCEPT !.tenant = NewId] \in Req
  BY <1>2 DEF NewReq, Req
<1>4. Inserted(m) \in [Procs -> Req]
  BY InsertedFacts
<1>5. req' \in [Procs -> Req]
  BY <1>1, <1>3, <1>4
<1>6. /\ r.role \in DOMAIN roles \cup {NoRole} /\ r.slug \in Slugs
      /\ r.user \in accounts /\ Free(r.slug)
  BY <1>1 DEF RolesCarried, OfOwners, Filled, Commit, Insertable
<1>. HIDE DEF r
<1>7. /\ DOMAIN tenants' = DOMAIN tenants \cup {NewId}
      /\ tenants'[NewId] = r.slug
      /\ \A s \in DOMAIN tenants : tenants'[s] = tenants[s]
  BY <1>1, <1>2 DEF With
<1>8. /\ tenants' \in [DOMAIN tenants' -> Slugs]
      /\ \A a, b \in DOMAIN tenants' : tenants'[a] = tenants'[b] => a = b
  <2>1. tenants' \in [DOMAIN tenants' -> Slugs]
    BY <1>1, <1>6, WithType DEF TypeOK
  <2>. QED
    BY <2>1, <1>6, <1>7 DEF TypeOK, Free
<1>9. /\ DOMAIN members' = DOMAIN members \cup {m}
      /\ members'[m] = r.role
      /\ \A n \in DOMAIN members : n # m => members'[n] = members[n]
  BY <1>1 DEF With
<1>10. members' \in [DOMAIN members' -> DOMAIN roles \cup {NoRole}]
  BY <1>1, <1>6, WithType DEF TypeOK
<1>11. DOMAIN members' \subseteq accounts \X DOMAIN tenants'
  BY <1>6, <1>7, <1>9 DEF TypeOK
<1>12. roles \in [DOMAIN roles -> [home : DOMAIN tenants' \cup {NoTenant},
                                   name : Names, seeded : BOOLEAN]]
  BY <1>7 DEF TypeOK
<1>13. /\ owners' \subseteq DOMAIN members'
       /\ DOMAIN tenants' \subseteq made' /\ made' \subseteq Ids
       /\ invited \subseteq DOMAIN tenants'
  BY <1>1, <1>2, <1>7, <1>9 DEF TypeOK
<1>. QED
  BY <1>1, <1>5, <1>8, <1>10, <1>11, <1>12, <1>13 DEF TypeOK, people

\* Fewer memberships are still memberships.
LEMMA WithoutMembers ==
  ASSUME TypeOK, NEW S, members' = Without(members, S)
  PROVE  /\ DOMAIN members' = DOMAIN members \ S
         /\ \A m \in DOMAIN members' : members'[m] = members[m]
         /\ members' \in [DOMAIN members' -> DOMAIN roles \cup {NoRole}]
BY WithoutType DEF TypeOK, Without

LEMMA DeleteType ==
  ASSUME TypeOK, NEW p \in Procs, CommitDelete(p)
  PROVE  TypeOK'
<1>. DEFINE t == req[p].tenant
<1>1. /\ t \in DOMAIN tenants /\ t \notin invited
      /\ tenants' = Without(tenants, {t})
      /\ members' = Without(members, In(t)) /\ owners' = owners \ In(t)
      /\ roles' = [r \in DOMAIN roles |->
                     IF roles[r].home = t
                     THEN [roles[r] EXCEPT !.home = NoTenant] ELSE roles[r]]
      /\ Finish(p)
      /\ UNCHANGED <<up, toTell, people, invited, history>>
  BY DEF CommitDelete
<1>. HIDE DEF t
<1>2. req' \in [Procs -> Req]
  BY <1>1, FinishType
<1>3. /\ DOMAIN tenants' = DOMAIN tenants \ {t}
      /\ \A s \in DOMAIN tenants' : tenants'[s] = tenants[s]
  BY <1>1 DEF Without
<1>4. /\ tenants' \in [DOMAIN tenants' -> Slugs]
      /\ \A a, b \in DOMAIN tenants' : tenants'[a] = tenants'[b] => a = b
      /\ DOMAIN tenants' \subseteq made
  <2>1. tenants' \in [DOMAIN tenants' -> Slugs]
    BY <1>1, WithoutType DEF TypeOK
  <2>. QED
    BY <2>1, <1>3 DEF TypeOK
<1>5. /\ DOMAIN members' = DOMAIN members \ In(t)
      /\ members' \in [DOMAIN members' -> DOMAIN roles \cup {NoRole}]
  BY <1>1, WithoutMembers
<1>6. DOMAIN members' \subseteq accounts \X DOMAIN tenants'
  <2>1. ASSUME NEW m \in DOMAIN members' PROVE m \in accounts \X DOMAIN tenants'
    <3>1. m \in accounts \X DOMAIN tenants /\ m[2] # t
      BY <1>5, <2>1 DEF In, TypeOK
    <3>. QED
      BY <3>1, <1>3
  <2>. QED
    BY <2>1
<1>7. DOMAIN roles' = DOMAIN roles
  BY <1>1
<1>8. roles' \in [DOMAIN roles' -> [home : DOMAIN tenants' \cup {NoTenant},
                                    name : Names, seeded : BOOLEAN]]
  <2>1. ASSUME NEW x \in [home : DOMAIN tenants \cup {NoTenant}, name : Names,
                          seeded : BOOLEAN]
        PROVE  /\ [x EXCEPT !.home = NoTenant]
                    \in [home : DOMAIN tenants' \cup {NoTenant}, name : Names,
                         seeded : BOOLEAN]
               /\ x.home # t =>
                    x \in [home : DOMAIN tenants' \cup {NoTenant}, name : Names,
                          seeded : BOOLEAN]
    BY <1>3
  <2>. QED
    BY <1>1, <2>1 DEF TypeOK
<1>9. owners' \subseteq DOMAIN members' /\ invited \subseteq DOMAIN tenants'
  BY <1>1, <1>3, <1>5 DEF TypeOK
<1>. QED
  BY <1>1, <1>2, <1>4, <1>5, <1>6, <1>7, <1>8, <1>9 DEF TypeOK, people, history

\* The requests that begin.
Begins(p) ==
  \/ \E u \in Users, s \in Slugs, r \in DOMAIN roles \cup {NoRole} :
       BeginCreate(p, u, s, r) \/ BeginSetup(p, u, s, r)
  \/ \E t \in Ids : BeginDelete(p, t)

LEMMA BeginFacts ==
  ASSUME IInv, NEW p \in Procs, Begins(p)
  PROVE  \E r \in Req :
           /\ Begin(p, r)
           /\ r.role # NoRole \/ r.kind \in {"create", "setup"} =>
                OfOwners(r.role)
           /\ r.kind \in {"create", "setup"} => r.slug \in Slugs
           /\ r.kind # "owes"
           /\ r.kind = "create" => RoomFor(r.user)
<1>. USE DEF IInv
<1>roles. DOMAIN roles \subseteq RoleIds
  BY DEF TypeOK
<1>1. ASSUME NEW u \in Users, NEW s \in Slugs,
             NEW r \in DOMAIN roles \cup {NoRole}, BeginCreate(p, u, s, r)
      PROVE  \E c \in Req :
               /\ Begin(p, c) /\ c.role = r /\ r \in Named(OwnerName)
               /\ c.slug = s /\ c.kind = "create" /\ RoomFor(c.user)
  <2>. DEFINE c == [NewReq("create") EXCEPT !.user = u, !.slug = s, !.role = r]
  <2>1. c \in Req /\ c.role = r /\ c.slug = s /\ c.kind = "create" /\ c.user = u
    BY <1>roles DEF NewReq, Req
  <2>. QED
    BY <1>1, <2>1 DEF BeginCreate
<1>2. ASSUME NEW u \in Users, NEW s \in Slugs,
             NEW r \in DOMAIN roles \cup {NoRole}, BeginSetup(p, u, s, r)
      PROVE  \E c \in Req :
               /\ Begin(p, c) /\ c.role = r /\ r \in Named(OwnerName)
               /\ c.slug = s /\ c.kind = "setup"
  <2>. DEFINE c == [NewReq("setup") EXCEPT !.user = u, !.slug = s, !.role = r]
  <2>1. c \in Req /\ c.role = r /\ c.slug = s /\ c.kind = "setup"
    BY <1>roles DEF NewReq, Req
  <2>2. Named(OwnerName) # {}
    BY <1>2 DEF BeginSetup, Begin, SeedsOwn, Named
  <2>. QED
    BY <1>2, <2>1, <2>2 DEF BeginSetup
<1>3. ASSUME NEW t \in Ids, BeginDelete(p, t)
      PROVE  \E c \in Req :
               Begin(p, c) /\ c.role = NoRole /\ c.kind = "delete"
  <2>. DEFINE c == [NewReq("delete") EXCEPT !.tenant = t, !.saw = In(t)]
  <2>1. In(t) \subseteq Members
    BY DEF In, TypeOK, Members
  <2>2. c \in Req /\ c.role = NoRole /\ c.kind = "delete"
    BY <2>1 DEF NewReq, Req
  <2>. QED
    BY <1>3, <2>2 DEF BeginDelete
<1>4. \A r \in Named(OwnerName) : OfOwners(r)
  BY DEF Named, OfOwners
<1>. QED
  BY <1>1, <1>2, <1>3, <1>4 DEF Begins

LEMMA JoinType ==
  ASSUME TypeOK, NEW u \in Users, NEW t \in Ids,
         NEW r \in DOMAIN roles \cup {NoRole}, Join(u, t, r)
  PROVE  TypeOK'
<1>1. /\ u \in accounts /\ t \in DOMAIN tenants
      /\ members' = With(members, <<u, t>>, r)
      /\ req' = Inserted(<<u, t>>)
      /\ UNCHANGED <<up, toTell, people, tenants, owners, roles, invited, history>>
  BY DEF Join
<1>2. members' \in [DOMAIN members' -> DOMAIN roles \cup {NoRole}]
  BY <1>1, WithType DEF TypeOK
<1>3. DOMAIN members' = DOMAIN members \cup {<<u, t>>}
  BY <1>1 DEF With
<1>4. req' \in [Procs -> Req]
  BY <1>1, InsertedFacts
<1>5. /\ DOMAIN members' \subseteq accounts \X DOMAIN tenants
      /\ owners \subseteq DOMAIN members'
  BY <1>1, <1>3 DEF TypeOK
<1>. QED
  BY <1>1, <1>2, <1>4, <1>5 DEF TypeOK, people, history

LEMMA CreateRoleType ==
  ASSUME TypeOK, NEW h \in Ids \cup {NoTenant}, NEW n \in Names,
         CreateRole(h, n)
  PROVE  /\ TypeOK'
         /\ up /\ UNCHANGED <<up, toTell, tenants, members, req, made, told, lost>>
         /\ \E r \in RoleIds \ DOMAIN roles :
              roles' = With(roles, r, Role(h, n, FALSE))
<1>. DEFINE r == CHOOSE x \in RoleIds : x \notin DOMAIN roles
            S == [home : DOMAIN tenants \cup {NoTenant}, name : Names,
                  seeded : BOOLEAN]
<1>1. /\ up /\ h \in DOMAIN tenants \cup {NoTenant}
      /\ RoleIds \ DOMAIN roles # {}
      /\ roles' = With(roles, r, Role(h, n, FALSE))
      /\ UNCHANGED <<up, toTell, people, tenants, members, owners, invited,
                     req, history>>
  BY DEF CreateRole
<1>2. r \in RoleIds \ DOMAIN roles
  BY <1>1
<1>. HIDE DEF r
<1>3. Role(h, n, FALSE) \in S
  BY <1>1 DEF Role
<1>4. roles' \in [DOMAIN roles' -> S]
  BY <1>1, <1>3, WithType DEF TypeOK
<1>5. DOMAIN roles' = DOMAIN roles \cup {r}
  BY <1>1 DEF With
<1>6. members \in [DOMAIN members -> DOMAIN roles' \cup {NoRole}]
  BY <1>5 DEF TypeOK
<1>7. TypeOK'
  BY <1>1, <1>2, <1>4, <1>5, <1>6 DEF TypeOK, people, history
<1>. QED
  BY <1>1, <1>2, <1>7 DEF history

LEMMA TypeStep == IInv /\ [Next]_vars => TypeOK'
<1>. SUFFICES ASSUME IInv, [Next]_vars PROVE TypeOK'
  OBVIOUS
<1>. USE DEF IInv
<1>1. CASE Start
  BY <1>1, StartType
<1>2. CASE Announce
  BY <1>2 DEF Announce, db, people, TypeOK
<1>3. CASE Stop
  <2>1. Owed \subseteq Ids
    BY DEF Owed, Owes, Filled
  <2>2. req' \in [Procs -> Req]
    BY <1>3, IdleType DEF Stop
  <2>. QED
    BY <1>3, <2>1, <2>2 DEF Stop, db, people, TypeOK
<1>4. ASSUME NEW p \in Procs, Begins(p) PROVE TypeOK'
  <2>1. PICK r \in Req : Begin(p, r)
    BY <1>4, BeginFacts
  <2>. QED
    BY <2>1 DEF Begin, db, people, history, TypeOK
<1>5. ASSUME NEW p \in Procs, Commit(p) PROVE TypeOK'
  BY <1>5, CommitType
<1>6. ASSUME NEW p \in Procs, Tell(p) PROVE TypeOK'
  <2>1. req[p].tenant \in Ids /\ Finish(p)
    BY <1>6 DEF Tell, Owes, Filled
  <2>2. req' \in [Procs -> Req]
    BY <2>1, FinishType
  <2>. QED
    BY <1>6, <2>1, <2>2 DEF Tell, db, people, TypeOK
<1>7. ASSUME NEW p \in Procs, CommitDelete(p) PROVE TypeOK'
  BY <1>7, DeleteType
<1>8. ASSUME NEW p \in Procs, Abort(p) PROVE TypeOK'
  BY <1>8, FinishType DEF Abort, db, people, history, TypeOK
<1>9. ASSUME NEW t \in Ids, Invite(t) PROVE TypeOK'
  BY <1>9 DEF Invite, people, history, TypeOK
<1>10. ASSUME NEW h \in Ids \cup {NoTenant}, NEW n \in Names, CreateRole(h, n)
       PROVE  TypeOK'
  BY <1>10, CreateRoleType
<1>11. ASSUME NEW m \in Members, NEW r \in DOMAIN roles \cup {NoRole},
              Join(m[1], m[2], r)
       PROVE  TypeOK'
  BY <1>11, JoinType DEF Members
<1>12. ASSUME NEW m \in Members, RemoveMember(m) PROVE TypeOK'
  <2>1. /\ m \notin owners /\ members' = Without(members, {m})
        /\ UNCHANGED <<up, toTell, people, tenants, owners, roles, invited,
                       req, history>>
    BY <1>12 DEF RemoveMember
  <2>2. /\ DOMAIN members' = DOMAIN members \ {m}
        /\ members' \in [DOMAIN members' -> DOMAIN roles \cup {NoRole}]
    BY <2>1, WithoutMembers
  <2>3. /\ DOMAIN members' \subseteq accounts \X DOMAIN tenants
        /\ owners \subseteq DOMAIN members'
    BY <2>1, <2>2 DEF TypeOK
  <2>. QED
    BY <2>1, <2>2, <2>3 DEF people, history, TypeOK
<1>13. ASSUME NEW u \in Users, Register(u) PROVE TypeOK'
  <2>1. /\ u \notin closed /\ accounts' = accounts \cup {u}
        /\ UNCHANGED <<up, toTell, closed, tenants, members, owners, roles,
                       invited, req, history>>
    BY <1>13 DEF Register
  <2>. QED
    BY <2>1 DEF history, TypeOK
<1>14. ASSUME NEW u \in Users, DeleteUser(u) PROVE TypeOK'
  <2>1. /\ accounts' = accounts \ {u} /\ closed' = closed \cup {u}
        /\ members' = Without(members, Of(u)) /\ owners' = owners \ Of(u)
        /\ UNCHANGED <<up, toTell, tenants, roles, invited, req, history>>
    BY <1>14 DEF DeleteUser
  <2>2. /\ DOMAIN members' = DOMAIN members \ Of(u)
        /\ members' \in [DOMAIN members' -> DOMAIN roles \cup {NoRole}]
    BY <2>1, WithoutMembers
  <2>3. DOMAIN members' \subseteq accounts' \X DOMAIN tenants
    BY <2>1, <2>2 DEF Of, TypeOK
  <2>. QED
    BY <2>1, <2>2, <2>3 DEF history, TypeOK
<1>15. CASE UNCHANGED vars
  BY <1>15 DEF vars, db, people, history, TypeOK
<1>. QED
  BY <1>1, <1>2, <1>3, <1>4, <1>5, <1>6, <1>7, <1>8, <1>9, <1>10, <1>11,
     <1>12, <1>13, <1>14, <1>15 DEF Next, Begins
-------------------------------------------------------------------------------
(* What a step does to requests, roles and memberships.                    *)

\* What happens in organisations, but for an invitation that is accepted.
Everyday ==
  \/ \E t \in Ids : Invite(t)
  \/ \E home \in Ids \cup {NoTenant}, n \in Names : CreateRole(home, n)
  \/ \E m \in Members : RemoveMember(m)
  \/ \E u \in Users : Register(u) \/ DeleteUser(u)

LEMMA EverydayFacts ==
  ASSUME TypeOK, Everyday
  PROVE  /\ up' = up /\ toTell' = toTell /\ tenants' = tenants /\ req' = req
         /\ made' = made /\ told' = told /\ lost' = lost
         /\ DOMAIN members' \subseteq DOMAIN members
         /\ \A m \in DOMAIN members' : members'[m] = members[m]
         /\ \A x \in DOMAIN roles : x \in DOMAIN roles' /\ roles'[x] = roles[x]
         /\ \A x \in DOMAIN roles' \ DOMAIN roles : up /\ ~roles'[x].seeded
<1>1. ASSUME NEW h \in Ids \cup {NoTenant}, NEW n \in Names, CreateRole(h, n)
      PROVE  /\ members' = members
             /\ \A x \in DOMAIN roles' \ DOMAIN roles : up /\ ~roles'[x].seeded
             /\ \A x \in DOMAIN roles :
                  x \in DOMAIN roles' /\ roles'[x] = roles[x]
  <2>1. PICK r \in RoleIds \ DOMAIN roles :
          roles' = With(roles, r, Role(h, n, FALSE))
    BY <1>1, CreateRoleType
  <2>2. members' = members /\ up
    BY <1>1, CreateRoleType
  <2>3. ~Role(h, n, FALSE).seeded
    BY DEF Role
  <2>. QED
    BY <2>1, <2>2, <2>3 DEF With
<1>2. ASSUME NEW m \in Members, RemoveMember(m)
      PROVE  /\ DOMAIN members' \subseteq DOMAIN members
             /\ \A x \in DOMAIN members' : members'[x] = members[x]
  BY <1>2, WithoutMembers DEF RemoveMember
<1>3. ASSUME NEW u \in Users, DeleteUser(u)
      PROVE  /\ DOMAIN members' \subseteq DOMAIN members
             /\ \A x \in DOMAIN members' : members'[x] = members[x]
  BY <1>3, WithoutMembers DEF DeleteUser
<1>4. /\ up' = up /\ toTell' = toTell /\ tenants' = tenants /\ req' = req
      /\ made' = made /\ told' = told /\ lost' = lost
  BY DEF Everyday, Invite, CreateRole, RemoveMember, Register, DeleteUser,
         history
<1>5. /\ DOMAIN members' \subseteq DOMAIN members
      /\ \A m \in DOMAIN members' : members'[m] = members[m]
  BY <1>1, <1>2, <1>3 DEF Everyday, Invite, Register
<1>6. /\ \A x \in DOMAIN roles : x \in DOMAIN roles' /\ roles'[x] = roles[x]
      /\ \A x \in DOMAIN roles' \ DOMAIN roles : up /\ ~roles'[x].seeded
  BY <1>1 DEF Everyday, Invite, RemoveMember, Register, DeleteUser
<1>. QED
  BY <1>4, <1>5, <1>6

\* The steps, as the proofs below tell them apart.
LEMMA Steps ==
  ASSUME [Next]_vars
  PROVE  \/ Start \/ Announce \/ Stop
         \/ \E p \in Procs : \/ Begins(p) \/ Commit(p) \/ Tell(p)
                             \/ CommitDelete(p) \/ Abort(p)
         \/ \E u \in Users, t \in Ids, r \in DOMAIN roles \cup {NoRole} :
              Join(u, t, r)
         \/ Everyday
         \/ UNCHANGED vars
<1>1. ASSUME NEW m \in Members, NEW r \in DOMAIN roles \cup {NoRole},
             Join(m[1], m[2], r)
      PROVE  \E u \in Users, t \in Ids, x \in DOMAIN roles \cup {NoRole} :
               Join(u, t, x)
  BY <1>1 DEF Members
<1>. QED
  BY <1>1 DEF Next, Begins, Everyday

\* The request of q goes on, whatever was inserted.
Kept(q) ==
  /\ req'[q].kind = req[q].kind /\ req'[q].user = req[q].user
  /\ req'[q].slug = req[q].slug /\ req'[q].role = req[q].role
  /\ req'[q].tenant = req[q].tenant
  /\ req[q].late => req'[q].late

LEMMA JoinFacts ==
  ASSUME TypeOK, NEW u \in Users, NEW t \in Ids,
         NEW r \in DOMAIN roles \cup {NoRole}, Join(u, t, r)
  PROVE  /\ up /\ up' = up /\ toTell' = toTell
         /\ tenants' = tenants /\ roles' = roles
         /\ made' = made /\ told' = told /\ lost' = lost
         /\ members' = With(members, <<u, t>>, r) /\ r \in Gives(t)
         /\ \A q \in Procs :
              Kept(q) /\ (req[q].user = u => req'[q].late)
<1>1. req' = Inserted(<<u, t>>)
  BY DEF Join
<1>2. <<u, t>>[1] = u
  OBVIOUS
<1>3. \A q \in Procs : Kept(q) /\ (req[q].user = u => req'[q].late)
  BY <1>1, <1>2, InsertedFacts DEF Kept
<1>. QED
  BY <1>3 DEF Join, history

LEMMA CommitFacts ==
  ASSUME IInv, NEW p \in Procs, Commit(p)
  PROVE  /\ up' = up /\ toTell' = toTell /\ roles' = roles
         /\ made' = made \cup {NewId} /\ told' = told /\ lost' = lost
         /\ req[p].kind \in {"create", "setup"}
         /\ req[p].user \in accounts /\ Free(req[p].slug)
         /\ NewId \in Ids \ made
         /\ tenants' = With(tenants, NewId, req[p].slug)
         /\ members' = With(members, <<req[p].user, NewId>>, req[p].role)
         /\ req'[p].kind = "owes" /\ req'[p].role = NoRole
         /\ req'[p].tenant = NewId
         /\ \A q \in Procs \ {p} :
              Kept(q) /\ (req[q].user = req[p].user => req'[q].late)
<1>. DEFINE m == <<req[p].user, NewId>>
            n == [NewReq("owes") EXCEPT !.tenant = NewId]
<1>1. req' = [Inserted(m) EXCEPT ![p] = n]
  BY DEF Commit
<1>2. m[1] = req[p].user
  OBVIOUS
<1>3. Inserted(m) \in [Procs -> Req]
  BY InsertedFacts DEF IInv
<1>4. n.kind = "owes" /\ n.role = NoRole /\ n.tenant = NewId
  BY DEF NewReq
<1>. HIDE DEF n
<1>5. \A q \in Procs \ {p} : req'[q] = Inserted(m)[q]
  BY <1>1, <1>3
<1>6. req'[p] = n
  BY <1>1, <1>3
<1>7. \A q \in Procs \ {p} :
        Kept(q) /\ (req[q].user = req[p].user => req'[q].late)
  <2>1. TypeOK
    BY DEF IInv
  <2>. HIDE DEF m
  <2>2. ASSUME NEW q \in Procs \ {p}
        PROVE  Kept(q) /\ (req[q].user = req[p].user => req'[q].late)
    <3>1. req'[q] = Inserted(m)[q]
      BY <1>5
    <3>2. /\ Inserted(m)[q].kind = req[q].kind
          /\ Inserted(m)[q].user = req[q].user
          /\ Inserted(m)[q].slug = req[q].slug
          /\ Inserted(m)[q].role = req[q].role
          /\ Inserted(m)[q].tenant = req[q].tenant
          /\ req[q].late => Inserted(m)[q].late
          /\ req[q].user = m[1] => Inserted(m)[q].late
      BY <2>1, InsertedFacts
    <3>. QED
      BY <1>2, <3>1, <3>2 DEF Kept
  <2>. QED
    BY <2>2
<1>. HIDE DEF m
<1>8. NewId \in Ids \ made
  BY NewIdFresh DEF Commit
<1>. QED
  BY <1>4, <1>6, <1>7, <1>8 DEF Commit, Insertable, m

\* A request begins as it should, goes on, ends or owes its event.
LEMMA ReqStep ==
  ASSUME IInv, [Next]_vars, NEW q \in Procs
  PROVE  \/ req'[q] = Idle
         \/ Kept(q)
         \/ /\ Commit(q)
            /\ req'[q].kind = "owes" /\ req'[q].role = NoRole
            /\ req'[q].tenant \in Ids
         \/ \E r \in Req :
              /\ req[q] = Idle /\ req'[q] = r
              /\ up /\ up' = up /\ members' = members
              /\ r.role # NoRole \/ r.kind \in {"create", "setup"} =>
                   OfOwners(r.role)
              /\ r.kind \in {"create", "setup"} => r.slug \in Slugs
              /\ r.kind # "owes"
              /\ r.kind = "create" => RoomFor(r.user)
<1>1. CASE req' = req
  BY <1>1 DEF Kept
<1>2. CASE Stop
  BY <1>2 DEF Stop
<1>3. ASSUME NEW p \in Procs, Begins(p)
      PROVE  \E r \in Req :
               /\ Begin(p, r) /\ up /\ up' = up /\ members' = members
               /\ req[p] = Idle /\ req'[p] = r
               /\ \A k \in Procs : k # p => req'[k] = req[k]
               /\ r.role # NoRole \/ r.kind \in {"create", "setup"} =>
                    OfOwners(r.role)
               /\ r.kind \in {"create", "setup"} => r.slug \in Slugs
               /\ r.kind # "owes"
               /\ r.kind = "create" => RoomFor(r.user)
  BY <1>3, BeginFacts DEF Begin, db, IInv, TypeOK
<1>4. ASSUME NEW p \in Procs, Tell(p) \/ CommitDelete(p) \/ Abort(p)
      PROVE  req'[q] = Idle \/ req'[q] = req[q]
  BY <1>4, FinishType DEF Tell, CommitDelete, Abort, IInv
<1>5. ASSUME NEW p \in Procs, Commit(p)
      PROVE  \/ Kept(q)
             \/ /\ Commit(q)
                /\ req'[q].kind = "owes" /\ req'[q].role = NoRole
                /\ req'[q].tenant \in Ids
  BY <1>5, CommitFacts
<1>6. ASSUME NEW u \in Users, NEW t \in Ids,
             NEW r \in DOMAIN roles \cup {NoRole}, Join(u, t, r)
      PROVE  Kept(q)
  BY <1>6, JoinFacts DEF IInv
<1>7. CASE Everyday
  BY <1>1, <1>7, EverydayFacts DEF IInv
<1>8. req'[q] = req[q] => Kept(q)
  BY DEF Kept
<1>9. CASE \E p \in Procs : Begins(p)
  <2>1. PICK p \in Procs : Begins(p)
    BY <1>9
  <2>2. CASE q = p
    BY <1>3, <2>1, <2>2
  <2>3. CASE q # p
    BY <1>3, <1>8, <2>1, <2>3
  <2>. QED
    BY <2>2, <2>3
<1>. QED
  BY <1>1, <1>2, <1>4, <1>5, <1>6, <1>7, <1>8, <1>9, Steps
  DEF Start, Announce, vars

\* A role stays and keeps its name; its home becomes, at most, the platform.
LEMMA RolesKept ==
  ASSUME TypeOK, [Next]_vars, NEW x \in DOMAIN roles
  PROVE  /\ x \in DOMAIN roles' /\ roles'[x].name = roles[x].name
         /\ roles'[x].home \in {roles[x].home, NoTenant}
         /\ roles'[x].seeded = roles[x].seeded
<1>1. CASE Start
  BY <1>1, StartRoles DEF RolesSeeded
<1>2. ASSUME NEW p \in Procs, CommitDelete(p)
      PROVE  /\ x \in DOMAIN roles' /\ roles'[x].name = roles[x].name
             /\ roles'[x].home \in {roles[x].home, NoTenant}
             /\ roles'[x].seeded = roles[x].seeded
  <2>1. /\ x \in DOMAIN roles'
        /\ roles'[x] = IF roles[x].home = req[p].tenant
                       THEN [roles[x] EXCEPT !.home = NoTenant] ELSE roles[x]
    BY <1>2 DEF CommitDelete
  <2>2. roles[x] \in [home : DOMAIN tenants \cup {NoTenant}, name : Names,
                      seeded : BOOLEAN]
    BY DEF TypeOK
  <2>. QED
    BY <2>1, <2>2
<1>3. CASE roles' = roles
  BY <1>3
<1>4. CASE Everyday
  BY <1>4, EverydayFacts
<1>. QED
  BY <1>1, <1>2, <1>3, <1>4, Steps
  DEF Announce, Stop, Begins, BeginCreate, BeginSetup, BeginDelete, Begin,
      Commit, Tell, Abort, Join, vars, db
-------------------------------------------------------------------------------
(* Each conjunct of the invariant is kept.                                 *)

LEMMA CarriedStep == IInv /\ [Next]_vars => RolesCarried'
<1>. SUFFICES ASSUME IInv, [Next]_vars, NEW q \in Procs, NEW x,
                     x = req'[q].role,
                     x # NoRole \/ req'[q].kind \in {"create", "setup"}
              PROVE  /\ x \in DOMAIN roles' /\ roles'[x].home = NoTenant
                     /\ roles'[x].name = OwnerName
  BY DEF RolesCarried, OfOwners
<1>1. OfOwners(x)
  <2>1. CASE Kept(q)
    BY <2>1 DEF Kept, IInv, RolesCarried
  <2>. QED
    BY <2>1, ReqStep, IdleType
<1>2. /\ x \in DOMAIN roles' /\ roles'[x].name = roles[x].name
      /\ roles'[x].home \in {roles[x].home, NoTenant}
  BY <1>1, RolesKept DEF IInv, OfOwners
<1>. QED
  BY <1>1, <1>2 DEF OfOwners

\* The roles that a step makes are the seed's, those it found missing, or are
\* not seeded.
LEMMA RolesMade ==
  ASSUME IInv, [Next]_vars
  PROVE  \/ Start /\ RolesSeeded
         \/ /\ \A x \in DOMAIN roles' \ DOMAIN roles : up /\ ~roles'[x].seeded
            /\ up' => up
<1>1. CASE Start
  BY <1>1, StartRoles DEF IInv
<1>2. CASE Everyday
  BY <1>2, EverydayFacts DEF IInv
<1>3. ASSUME NEW p \in Procs, CommitDelete(p)
      PROVE  DOMAIN roles' = DOMAIN roles /\ up' = up
  BY <1>3 DEF CommitDelete
<1>4. CASE roles' = roles /\ (up' => up)
  BY <1>4
<1>. QED
  BY <1>1, <1>2, <1>3, <1>4, Steps
  DEF Announce, Stop, Begins, BeginCreate, BeginSetup, BeginDelete, Begin,
      Commit, Tell, Abort, Join, vars, db

LEMMA SeedsStep == IInv /\ [Next]_vars => SeedsOwn'
<1>. SUFFICES ASSUME IInv, [Next]_vars PROVE SeedsOwn'
  OBVIOUS
<1>0. SeedsOwn
  BY DEF IInv
<1>1. \A x \in DOMAIN roles :
        /\ x \in DOMAIN roles' /\ roles'[x].name = roles[x].name
        /\ roles'[x].home \in {roles[x].home, NoTenant}
        /\ roles'[x].seeded = roles[x].seeded
  BY RolesKept DEF IInv
<1>2. CASE Start /\ RolesSeeded
  <2>1. \A x \in DOMAIN roles' \ DOMAIN roles :
          /\ roles'[x].home = NoTenant /\ roles'[x].name \in Missing
          /\ roles'[x].seeded
    BY <1>2 DEF RolesSeeded
  <2>2. \A n \in Missing : \E x : Named(n)' = {x}
    BY <1>2 DEF RolesSeeded
  <2>3. \A n \in Missing, x \in DOMAIN roles :
          ~(roles[x].home = NoTenant /\ roles[x].name = n)
    BY DEF Missing, Named
  <2>4. \A x \in DOMAIN roles' : roles'[x].seeded => roles'[x].home = NoTenant
    BY <1>0, <1>1, <2>1 DEF SeedsOwn
  <2>5. ASSUME NEW r \in DOMAIN roles', NEW s \in DOMAIN roles',
               roles'[r].seeded, roles'[s].seeded, roles'[r].name = roles'[s].name
        PROVE  r = s
    <3>1. ASSUME NEW n \in Missing, roles'[r].name = n PROVE r = s
      <4>1. PICK x : Named(n)' = {x}
        BY <2>2
      <4>2. r \in Named(n)' /\ s \in Named(n)'
        BY <2>4, <2>5, <3>1 DEF Named
      <4>. QED
        BY <4>1, <4>2
    <3>2. CASE roles'[r].name \notin Missing
      BY <1>0, <1>1, <2>1, <2>5, <3>2 DEF SeedsOwn
    <3>. QED
      BY <3>1, <3>2
  <2>6. ASSUME NEW n \in {AdminName, OwnerName}
        PROVE  \E r \in DOMAIN roles' : roles'[r].seeded /\ roles'[r].name = n
    <3>1. CASE n \in Missing
      <4>1. PICK x : Named(n)' = {x}
        BY <2>2, <3>1
      <4>2. x \in DOMAIN roles' /\ roles'[x].home = NoTenant /\ roles'[x].name = n
        BY <4>1 DEF Named
      <4>3. x \notin DOMAIN roles
        BY <1>2, <2>3, <3>1, <4>2 DEF RolesSeeded
      <4>. QED
        BY <2>1, <4>2, <4>3
    <3>2. CASE n \notin Missing
      <4>1. DOMAIN roles # {}
        BY <3>2 DEF Missing, Named
      <4>. QED
        BY <1>0, <1>1, <4>1 DEF SeedsOwn
    <3>. QED
      BY <3>1, <3>2
  <2>. QED
    BY <2>4, <2>5, <2>6 DEF SeedsOwn
<1>3. CASE /\ \A x \in DOMAIN roles' \ DOMAIN roles : up /\ ~roles'[x].seeded
           /\ up' => up
  <2>1. \A x \in DOMAIN roles' : roles'[x].seeded => x \in DOMAIN roles
    BY <1>3
  <2>2. up' \/ DOMAIN roles' # {} => up \/ DOMAIN roles # {}
    BY <1>3
  <2>. QED
    BY <1>0, <1>1, <2>1, <2>2 DEF SeedsOwn
<1>. QED
  BY <1>2, <1>3, RolesMade

LEMMA FilledStep == IInv /\ [Next]_vars => Filled'
<1>. SUFFICES ASSUME IInv, [Next]_vars, NEW q \in Procs
              PROVE  /\ req'[q].kind \in {"create", "setup"} =>
                          req'[q].slug \in Slugs
                     /\ req'[q].kind = "owes" => req'[q].tenant \in Ids
  BY DEF Filled
<1>1. CASE Kept(q)
  BY <1>1 DEF Kept, IInv, Filled
<1>. QED
  BY <1>1, ReqStep, IdleType

\* A membership is an old one, or its role is of the organisation or of the
\* platform.
LEMMA MembersStep ==
  ASSUME IInv, [Next]_vars, NEW m \in DOMAIN members'
  PROVE  \/ m \in DOMAIN members /\ members'[m] = members[m]
         \/ members'[m] = NoRole
         \/ roles'[members'[m]].home \in {m[2], NoTenant}
<1>1. CASE Start
  <2>1. PICK t, r : Seeds(t, r)
    BY <1>1, StartSeeds
  <2>2. roles'[r].home = NoTenant
    BY <2>1 DEF Seeds, Named
  <2>. QED
    BY <2>1, <2>2 DEF Seeds, With
<1>2. CASE members' = members
  BY <1>2
<1>3. CASE Everyday
  BY <1>3, EverydayFacts DEF IInv
<1>4. ASSUME NEW p \in Procs, Commit(p)
      PROVE  \/ m \in DOMAIN members /\ members'[m] = members[m]
             \/ members'[m] = NoRole
             \/ roles'[members'[m]].home \in {m[2], NoTenant}
  <2>1. PICK n, x : /\ members' = With(members, n, x) /\ roles' = roles
                    /\ x # NoRole => roles[x].home = NoTenant
    BY <1>4, CommitFacts DEF IInv, RolesCarried, OfOwners
  <2>. QED
    BY <2>1 DEF With
<1>5. ASSUME NEW p \in Procs, CommitDelete(p)
      PROVE  m \in DOMAIN members /\ members'[m] = members[m]
  BY <1>5, WithoutMembers DEF CommitDelete, IInv
<1>6. ASSUME NEW u \in Users, NEW t \in Ids,
             NEW r \in DOMAIN roles \cup {NoRole}, Join(u, t, r)
      PROVE  \/ m \in DOMAIN members /\ members'[m] = members[m]
             \/ members'[m] = NoRole
             \/ roles'[members'[m]].home \in {m[2], NoTenant}
  <2>1. /\ members' = With(members, <<u, t>>, r) /\ roles' = roles
        /\ r \in Gives(t)
    BY <1>6, JoinFacts DEF IInv
  <2>2. r = NoRole \/ roles[r].home \in {t, NoTenant}
    BY <2>1 DEF Gives, Named
  <2>3. <<u, t>>[2] = t
    OBVIOUS
  <2>. QED
    BY <2>1, <2>2, <2>3 DEF With
<1>. QED
  BY <1>1, <1>2, <1>3, <1>4, <1>5, <1>6, Steps
  DEF Announce, Stop, Begins, BeginCreate, BeginSetup, BeginDelete, Begin,
      Tell, Abort, vars, db

LEMMA HomeStep == IInv /\ [Next]_vars => RoleAtHome'
<1>. SUFFICES ASSUME IInv, [Next]_vars, NEW m \in DOMAIN members',
                     members'[m] # NoRole
              PROVE  roles'[members'[m]].home \in {m[2], NoTenant}
  BY DEF RoleAtHome
<1>1. CASE m \in DOMAIN members /\ members'[m] = members[m]
  <2>1. PICK x \in DOMAIN roles : x = members[m] /\ x = members'[m]
    BY <1>1 DEF IInv, TypeOK
  <2>2. roles[x].home \in {m[2], NoTenant}
    BY <1>1, <2>1 DEF IInv, RoleAtHome
  <2>3. roles'[x].home \in {roles[x].home, NoTenant}
    BY RolesKept DEF IInv
  <2>. QED
    BY <2>1, <2>2, <2>3
<1>. QED
  BY <1>1, MembersStep

\* A request that is in flight shows that the service runs.
LEMMA Awake ==
  ASSUME Quiet, NEW p \in Procs,
         Begins(p) \/ Commit(p) \/ Tell(p) \/ CommitDelete(p) \/ Abort(p)
  PROVE  up /\ up' = up /\ toTell' = toTell
BY IdleType
DEF Quiet, Begins, BeginCreate, BeginSetup, BeginDelete, Begin, Commit, Tell,
    Owes, CommitDelete, Abort

LEMMA QuietStep == IInv /\ [Next]_vars => Quiet'
<1>. SUFFICES ASSUME IInv, [Next]_vars PROVE Quiet'
  OBVIOUS
<1>1. CASE Start
  BY <1>1 DEF Start, Quiet
<1>2. CASE Announce
  BY <1>2 DEF Announce, Quiet
<1>3. CASE Stop
  BY <1>3 DEF Stop, Quiet
<1>4. CASE \E p \in Procs : \/ Begins(p) \/ Commit(p) \/ Tell(p)
                            \/ CommitDelete(p) \/ Abort(p)
  BY <1>4, Awake DEF IInv, Quiet
<1>5. ASSUME NEW u \in Users, NEW t \in Ids,
             NEW r \in DOMAIN roles \cup {NoRole}, Join(u, t, r)
      PROVE  Quiet'
  <2>1. up /\ up' = up
    BY <1>5 DEF Join
  <2>. QED
    BY <2>1 DEF Quiet
<1>6. CASE Everyday
  BY <1>6, EverydayFacts DEF IInv, Quiet
<1>7. CASE UNCHANGED vars
  BY <1>7 DEF vars, IInv, Quiet
<1>. QED
  BY <1>1, <1>2, <1>3, <1>4, <1>5, <1>6, <1>7, Steps

\* What is owed stays owed, but for the request that ends.
LEMMA OwedKept ==
  ASSUME NEW S \in SUBSET Procs,
         \A q \in Procs \ S : Owes(q) =>
           req'[q].kind = "owes" /\ req'[q].tenant = req[q].tenant
  PROVE  \A t \in Owed : t \in Owed' \/ \E q \in S : Owes(q) /\ t = req[q].tenant
<1>1. ASSUME NEW q \in Procs \ S, Owes(q)
      PROVE  req[q].tenant \in Owed'
  <2>1. q \in {k \in Procs : Owes(k)'}
    BY <1>1 DEF Owes
  <2>. QED
    BY <1>1, <2>1 DEF Owed
<1>. QED
  BY <1>1 DEF Owed

\* Heard, of one organisation.
HeardOf(t) == \/ t \in told \cup lost
              \/ up /\ t \in Owed \cup {toTell}
              \/ ~up /\ tenants[t] = Home

LEMMA HeardStep == IInv /\ [Next]_vars => Heard'
<1>. SUFFICES ASSUME IInv, [Next]_vars PROVE Heard'
  OBVIOUS
<1>0. /\ \A t \in DOMAIN tenants : HeardOf(t)
      /\ toTell \in DOMAIN tenants => tenants[toTell] = Home
      /\ toTell \in made \cup {NoTenant}
      /\ TypeOK /\ NoTenant \notin DOMAIN tenants
  BY IdsAreNat DEF IInv, Heard, HeardOf, TypeOK
<1>a. SUFFICES /\ \A t \in DOMAIN tenants' : HeardOf(t)'
               /\ toTell' \in DOMAIN tenants' => tenants'[toTell'] = Home
               /\ toTell' \in made' \cup {NoTenant}
  BY DEF Heard, HeardOf
<1>1. CASE Start
  <2>1. PICK t, r : Seeds(t, r)
    BY <1>1, StartSeeds
  <2>2. /\ DOMAIN tenants' = DOMAIN tenants \cup {t} /\ tenants'[t] = Home
        /\ toTell' = t /\ up' /\ ~up /\ told' = told /\ lost' = lost
        /\ made' = made \cup {t}
        /\ Homes # {} => t \in Homes
    BY <2>1 DEF Seeds, With
  <2>3. ASSUME NEW s \in DOMAIN tenants, s # t PROVE s \in told \cup lost
    <3>1. s \in told \cup lost \/ tenants[s] = Home
      BY <1>0, <2>2 DEF HeardOf
    <3>2. CASE tenants[s] = Home
      <4>1. t \in DOMAIN tenants /\ tenants[t] = Home
        BY <2>2, <3>2 DEF Homes
      <4>. QED
        BY <1>0, <2>3, <3>2, <4>1 DEF TypeOK
    <3>. QED
      BY <3>1, <3>2
  <2>. QED
    BY <2>2, <2>3 DEF HeardOf
<1>2. CASE Announce
  <2>1. /\ up /\ up' = up /\ toTell' = NoTenant /\ tenants' = tenants
        /\ req' = req /\ toTell \in told' \cup lost'
        /\ told \cup lost \subseteq told' \cup lost' /\ made' = made
    BY <1>2 DEF Announce, db
  <2>2. Owed' = Owed
    BY <2>1 DEF Owed, Owes
  <2>. QED
    BY <1>0, <2>1, <2>2 DEF HeardOf
<1>3. CASE Stop
  <2>1. /\ up /\ ~up' /\ toTell' = NoTenant /\ tenants' = tenants
        /\ told' = told /\ lost' = lost \cup Owed /\ made' = made
    BY <1>3 DEF Stop, db
  <2>2. ASSUME NEW t \in DOMAIN tenants PROVE HeardOf(t)'
    <3>1. t \in told' \cup lost' \/ t = toTell
      BY <1>0, <2>1 DEF HeardOf
    <3>. QED
      BY <1>0, <2>1, <3>1 DEF HeardOf
  <2>. QED
    BY <1>0, <2>1, <2>2
<1>4. ASSUME up' = up, toTell' = toTell, made \subseteq made',
             told \cup lost \subseteq told' \cup lost',
             DOMAIN tenants' \subseteq DOMAIN tenants,
             \A t \in DOMAIN tenants' : tenants'[t] = tenants[t],
             \A t \in Owed : t \in Owed' \cup told' \cup lost'
      PROVE  Heard'
  <2>1. ASSUME NEW t \in DOMAIN tenants' PROVE HeardOf(t)'
    <3>1. t \in DOMAIN tenants /\ tenants'[t] = tenants[t]
      BY <1>4
    <3>2. HeardOf(t)
      BY <1>0, <3>1
    <3>. QED
      BY <1>4, <3>1, <3>2 DEF HeardOf
  <2>2. /\ toTell' \in DOMAIN tenants' => tenants'[toTell'] = Home
        /\ toTell' \in made' \cup {NoTenant}
    BY <1>0, <1>4
  <2>. QED
    BY <2>1, <2>2 DEF Heard, HeardOf
<1>5. ASSUME \A q \in Procs : Owes(q) =>
               req'[q].kind = "owes" /\ req'[q].tenant = req[q].tenant
      PROVE  \A t \in Owed : t \in Owed'
  <2>1. {} \in SUBSET Procs /\ Procs \ {} = Procs
    OBVIOUS
  <2>. QED
    BY <1>5, <2>1, OwedKept
<1>6. ASSUME NEW p \in Procs, Begins(p) PROVE Heard'
  <2>1. PICK r \in Req : Begin(p, r)
    BY <1>6, BeginFacts
  <2>2. \A q \in Procs : Owes(q) =>
          req'[q].kind = "owes" /\ req'[q].tenant = req[q].tenant
    BY <1>0, <2>1, IdleType DEF Begin, Owes, TypeOK
  <2>. QED
    BY <1>4, <1>5, <2>1, <2>2 DEF Begin, db, history
<1>7. ASSUME NEW p \in Procs, Commit(p) PROVE Heard'
  <2>1. /\ up' = up /\ toTell' = toTell /\ made' = made \cup {NewId}
        /\ told' = told /\ lost' = lost /\ NewId \in Ids \ made
        /\ req[p].kind \in {"create", "setup"} /\ up
        /\ req'[p].kind = "owes" /\ req'[p].tenant = NewId
        /\ \A q \in Procs \ {p} : Kept(q)
    BY <1>7, CommitFacts, Awake DEF IInv
  <2>2. /\ DOMAIN tenants' = DOMAIN tenants \cup {NewId}
        /\ \A t \in DOMAIN tenants : t # NewId => tenants'[t] = tenants[t]
    BY <1>7, CommitFacts DEF With
  <2>3. \A t \in Owed : t \in Owed'
    <3>1. \A q \in Procs : Owes(q) =>
            req'[q].kind = "owes" /\ req'[q].tenant = req[q].tenant
      BY <2>1 DEF Owes, Kept
    <3>. QED
      BY <1>5, <3>1
  <2>4. NewId \in Owed'
    <3>1. p \in {k \in Procs : Owes(k)'}
      BY <2>1 DEF Owes
    <3>. QED
      BY <2>1, <3>1 DEF Owed
  <2>5. \A t \in DOMAIN tenants' : HeardOf(t)'
    BY <1>0, <2>1, <2>2, <2>3, <2>4 DEF HeardOf
  <2>6. toTell # NewId
    BY <1>0, <2>1, IdsAreNat
  <2>7. /\ toTell' \in DOMAIN tenants' => tenants'[toTell'] = Home
        /\ toTell' \in made' \cup {NoTenant}
    BY <1>0, <2>1, <2>2, <2>6
  <2>. QED
    BY <2>5, <2>7 DEF Heard, HeardOf
<1>8. ASSUME NEW p \in Procs, Tell(p) PROVE Heard'
  <2>1. /\ up' = up /\ toTell' = toTell /\ made' = made /\ tenants' = tenants
        /\ told \cup lost \subseteq told' \cup lost'
        /\ req[p].tenant \in told' \cup lost'
        /\ \A q \in Procs \ {p} : req'[q] = req[q]
    BY <1>0, <1>8, FinishType DEF Tell, db
  <2>2. {p} \in SUBSET Procs
    OBVIOUS
  <2>3. \A q \in Procs \ {p} : Owes(q) =>
          req'[q].kind = "owes" /\ req'[q].tenant = req[q].tenant
    BY <2>1 DEF Owes
  <2>4. \A t \in Owed : t \in Owed' \cup told' \cup lost'
    BY <2>1, <2>2, <2>3, OwedKept
  <2>. QED
    BY <1>4, <2>1, <2>4
<1>9. ASSUME NEW p \in Procs, CommitDelete(p) \/ Abort(p) PROVE Heard'
  <2>1. /\ up' = up /\ toTell' = toTell /\ made' = made
        /\ told' = told /\ lost' = lost /\ ~Owes(p)
        /\ \A q \in Procs \ {p} : req'[q] = req[q]
    BY <1>0, <1>9, FinishType DEF CommitDelete, Abort, db, history, Owes
  <2>2. /\ DOMAIN tenants' \subseteq DOMAIN tenants
        /\ \A t \in DOMAIN tenants' : tenants'[t] = tenants[t]
    BY <1>9 DEF CommitDelete, Abort, db, Without
  <2>3. \A q \in Procs : Owes(q) =>
          req'[q].kind = "owes" /\ req'[q].tenant = req[q].tenant
    BY <2>1 DEF Owes
  <2>. QED
    BY <1>4, <1>5, <2>1, <2>2, <2>3
<1>10. ASSUME NEW u \in Users, NEW t \in Ids,
              NEW r \in DOMAIN roles \cup {NoRole}, Join(u, t, r)
       PROVE  Heard'
  <2>1. /\ up' = up /\ toTell' = toTell /\ made' = made /\ tenants' = tenants
        /\ told' = told /\ lost' = lost /\ \A q \in Procs : Kept(q)
    BY <1>0, <1>10, JoinFacts
  <2>2. \A q \in Procs : Owes(q) =>
          req'[q].kind = "owes" /\ req'[q].tenant = req[q].tenant
    BY <2>1 DEF Kept, Owes
  <2>. QED
    BY <1>4, <1>5, <2>1, <2>2
<1>11. CASE Everyday \/ UNCHANGED vars
  <2>1. /\ up' = up /\ toTell' = toTell /\ made' = made /\ tenants' = tenants
        /\ told' = told /\ lost' = lost /\ req' = req
    BY <1>0, <1>11, EverydayFacts DEF vars, db, history
  <2>2. \A t \in Owed : t \in Owed' \cup told' \cup lost'
    BY <2>1 DEF Owed, Owes
  <2>3. /\ DOMAIN tenants' \subseteq DOMAIN tenants
        /\ \A t \in DOMAIN tenants' : tenants'[t] = tenants[t]
    BY <2>1
  <2>4. made \subseteq made' /\ told \cup lost \subseteq told' \cup lost'
    BY <2>1
  <2>. QED
    BY <1>4, <2>1, <2>2, <2>3, <2>4 DEF Heard, HeardOf
<1>. QED
  BY <1>1, <1>2, <1>3, <1>6, <1>7, <1>8, <1>9, <1>10, <1>11, Steps DEF Heard,
     HeardOf

LEMMA OfFinite ==
  ASSUME TypeOK, NEW u
  PROVE  IsFiniteSet(Of(u)) /\ Cardinality(Of(u)) \in Nat
<1>1. IsFiniteSet(Ids) /\ IsFiniteSet({u})
  <2>1. 1 \in Int /\ MaxTenants \in Int
    BY BoundAssumption
  <2>. QED
    BY <2>1, FS_Interval, FS_Singleton DEF Ids
<1>2. IsFiniteSet({u} \X Ids)
  BY <1>1, FS_Product
<1>3. Of(u) \subseteq {u} \X Ids
  BY DEF Of, TypeOK
<1>. QED
  BY <1>2, <1>3, FS_Subset, FS_CardinalityType

\* No membership of u is new, or his requests in flight know.
LEMMA OfStep ==
  ASSUME IInv, [Next]_vars, NEW q \in Procs, NEW u, Kept(q), req[q].user = u,
         req[q].kind = "create"
  PROVE  Of(u)' \subseteq Of(u) \/ req'[q].late
<1>1. CASE Start
  BY <1>1, IdleType DEF Start, IInv, Quiet
<1>2. CASE DOMAIN members' \subseteq DOMAIN members
  BY <1>2 DEF Of
<1>3. ASSUME NEW p \in Procs, Commit(p)
      PROVE  Of(u)' \subseteq Of(u) \/ req'[q].late
  <2>1. CASE q = p
    BY <1>3, <2>1, CommitFacts DEF Kept
  <2>2. CASE q # p /\ req[p].user = u
    BY <1>3, <2>2, CommitFacts
  <2>3. CASE req[p].user # u
    <3>1. PICK x : members' = With(members, <<req[p].user, NewId>>, x)
      BY <1>3, CommitFacts
    <3>2. <<req[p].user, NewId>>[1] # u
      BY <2>3
    <3>. QED
      BY <3>1, <3>2 DEF With, Of
  <2>. QED
    BY <2>1, <2>2, <2>3
<1>4. ASSUME NEW v \in Users, NEW t \in Ids,
             NEW r \in DOMAIN roles \cup {NoRole}, Join(v, t, r)
      PROVE  Of(u)' \subseteq Of(u) \/ req'[q].late
  <2>1. /\ members' = With(members, <<v, t>>, r)
        /\ req[q].user = v => req'[q].late
    BY <1>4, JoinFacts DEF IInv
  <2>2. <<v, t>>[1] = v
    OBVIOUS
  <2>. QED
    BY <2>1, <2>2 DEF With, Of
<1>5. ASSUME NEW p \in Procs,
             Begins(p) \/ Tell(p) \/ CommitDelete(p) \/ Abort(p)
      PROVE  DOMAIN members' \subseteq DOMAIN members
  BY <1>5, WithoutMembers
  DEF IInv, Begins, BeginCreate, BeginSetup, BeginDelete, Begin, Tell,
      CommitDelete, Abort, db
<1>6. CASE Announce \/ Stop \/ Everyday \/ UNCHANGED vars
  <2>1. DOMAIN members' \subseteq DOMAIN members
    BY <1>6, EverydayFacts DEF IInv, Announce, Stop, vars, db
  <2>. QED
    BY <1>2, <2>1
<1>. QED
  BY <1>1, <1>2, <1>3, <1>4, <1>5, <1>6, Steps

LEMMA CountedStep == IInv /\ [Next]_vars => Counted'
<1>. SUFFICES ASSUME IInv, [Next]_vars, NEW q \in Procs,
                     req'[q].kind = "create", ~req'[q].late,
                     NEW u, u = req'[q].user
              PROVE  Cardinality(Of(u)') < Limit
  BY DEF Counted, RoomFor
<1>1. CASE Kept(q)
  <2>1. /\ req[q].kind = "create" /\ ~req[q].late /\ req[q].user = u
    BY <1>1 DEF Kept
  <2>2. Cardinality(Of(u)) < Limit
    BY <2>1 DEF IInv, Counted, RoomFor
  <2>3. Of(u)' \subseteq Of(u)
    BY <1>1, <2>1, OfStep DEF Of
  <2>4. IsFiniteSet(Of(u)) /\ Cardinality(Of(u)) \in Nat
    BY OfFinite DEF IInv
  <2>5. Cardinality(Of(u)') <= Cardinality(Of(u)) /\ IsFiniteSet(Of(u)')
    BY <2>3, <2>4, FS_Subset
  <2>6. Cardinality(Of(u)') \in Nat
    BY <2>5, FS_CardinalityType
  <2>. QED
    BY <2>2, <2>4, <2>5, <2>6, BoundAssumption
<1>2. CASE \E r \in Req : /\ req'[q] = r /\ members' = members
                          /\ r.kind = "create" => RoomFor(r.user)
  <2>1. RoomFor(u) /\ members' = members
    BY <1>2
  <2>. QED
    BY <2>1 DEF RoomFor, Of
<1>. QED
  BY <1>1, <1>2, ReqStep, IdleType

-------------------------------------------------------------------------------
(* The theorems.                                                           *)

LEMMA InvInit == Init => IInv
<1>. SUFFICES ASSUME Init PROVE IInv
  OBVIOUS
<1>1. TypeOK
  BY TypeInit
<1>2. \A p \in Procs : req[p] = Idle
  BY DEF Init
<1>3. RolesCarried /\ Filled /\ Quiet /\ Counted
  BY <1>2, IdleType DEF RolesCarried, Filled, Quiet, Counted, Init
<1>3a. SeedsOwn
  BY DEF SeedsOwn, Init
<1>4. RoleAtHome /\ Heard
  BY DEF RoleAtHome, Heard, Init
<1>. QED
  BY <1>1, <1>3, <1>3a, <1>4 DEF IInv

LEMMA InvStep == IInv /\ [Next]_vars => IInv'
BY TypeStep, CarriedStep, SeedsStep, FilledStep, HomeStep, QuietStep, HeardStep,
   CountedStep DEF IInv

\* The inductive invariant holds of every state: what a request carries is
\* still there when it commits, and every event is accounted for (Tenants.tla).
THEOREM Invariance == Spec => []IInv
BY InvInit, InvStep, PTL DEF Spec

\* Slugs are unique, memberships name an account and an organisation that
\* exist, owners are members, and roles are of an organisation that exists or
\* the platform's (models/tenant.py, models/rbac.py).
THEOREM TypeCorrect == Spec => []TypeOK
<1>1. IInv => TypeOK
  BY DEF IInv
<1>. QED
  BY <1>1, Invariance, PTL

\* While the service runs, each organisation has been announced, is owed its
\* event, or lost it to a stop or an exception (main.py, routes/tenants.py).
THEOREM EventsAccounted == Spec => []NoneForgotten
<1>1. IInv => NoneForgotten
  BY DEF IInv, Heard, NoneForgotten
<1>. QED
  BY <1>1, Invariance, PTL

\* What a member holds is a role of that organisation or of the platform, also
\* after other organisations were deleted and their roles freed.
THEOREM RolesAtHome == Spec => []RoleAtHome
<1>1. IInv => RoleAtHome
  BY DEF IInv
<1>. QED
  BY <1>1, Invariance, PTL

LEMMA LimitKept ==
  ASSUME IInv, [Next]_vars, NEW p \in Procs, NEW u \in Users,
         req[p].kind = "create", req[p].user = u, Owes(p)'
  PROVE  Cardinality(Of(u)') <= Limit \/ req[p].late
<1>1. Commit(p)
  <2>1. req'[p].kind = "owes" /\ req[p] # Idle
    BY IdleType DEF Owes
  <2>. QED
    BY <2>1, ReqStep, IdleType DEF Kept
<1>. SUFFICES ASSUME ~req[p].late PROVE Cardinality(Of(u)') <= Limit
  OBVIOUS
<1>2. Cardinality(Of(u)) < Limit
  BY DEF IInv, Counted, RoomFor
<1>3. IsFiniteSet(Of(u)) /\ Cardinality(Of(u)) \in Nat
  BY OfFinite DEF IInv
<1>4. PICK m, x : members' = With(members, m, x) /\ m[1] = u
  <2>1. <<u, NewId>>[1] = u
    OBVIOUS
  <2>. QED
    BY <1>1, <2>1, CommitFacts
<1>5. Of(u)' = Of(u) \cup {m}
  BY <1>4 DEF With, Of
<1>6. \/ Cardinality(Of(u)') = Cardinality(Of(u))
      \/ Cardinality(Of(u)') = Cardinality(Of(u)) + 1
  BY <1>3, <1>5, FS_AddElement
<1>. QED
  BY <1>2, <1>3, <1>6, BoundAssumption

LimitStep ==
  \A p \in Procs, u \in Users :
    (req[p].kind = "create" /\ req[p].user = u /\ Owes(p)') =>
      Cardinality(Of(u)') <= Limit \/ req[p].late

\* Creating an organisation over HTTP takes a user past the limit only when
\* another membership of theirs was made after the request had counted
\* (routes/tenants.py, create_tenant).
THEOREM LimitCountedOnce == Spec => LimitCounted
<1>1. IInv /\ [Next]_vars => [LimitStep]_vars
  BY LimitKept DEF LimitStep
<1>. QED
  BY <1>1, Invariance, PTL DEF Spec, LimitCounted, LimitStep

\* Whatever namesakes come of POST /rbac/roles and of deleted organisations, the
\* seed made each of its two roles once and they stay: no creation lacks the role
\* of owners, and the one it carries is the platform's (services/seed.py,
\* routes/tenants.py, routes/onboarding.py).
THEOREM RolesFound == Spec => []FoundByName
<1>1. ASSUME IInv PROVE FoundByName
  <2>1. ASSUME NEW n \in {AdminName, OwnerName}
        PROVE  LET own == {r \in Named(n) : roles[r].seeded} IN
               /\ up => own # {}
               /\ \A r, s \in own : r = s
    BY <1>1 DEF IInv, SeedsOwn, Named
  <2>2. ASSUME NEW p \in Procs, req[p].kind \in {"create", "setup"}
        PROVE  req[p].role \in Named(OwnerName)
    BY <1>1, <2>2 DEF IInv, RolesCarried, OfOwners, Named
  <2>. QED
    BY <2>1, <2>2 DEF FoundByName
<1>. QED
  BY <1>1, Invariance, PTL
=============================================================================
