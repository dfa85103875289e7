------------------------------ MODULE OAuthProofs ------------------------------
(***************************************************************************)
(* What holds of signing in through providers for every set of users,      *)
(* organisations, providers and subjects, whoever has which address, and   *)
(* for any number of requests, states and linked accounts.                 *)
(***************************************************************************)
EXTENDS OAuth, FiniteSetTheorems, TLAPS

-------------------------------------------------------------------------------
(* The inductive invariant.                                                *)

\* A request past its reads has what it needs to commit.
Carried ==
  \A p \in Procs :
    /\ req[p].phase \in {"signIn", "link"} => req[p].id \in Identities
    /\ req[p].phase = "signIn" => req[p].user \in Users
    /\ req[p].phase = "renew" => req[p].row # 0
    /\ req[p].phase = "read" => req[p].state \in 1 .. issued

\* A state that was not handed out yet was not used either.
Unspent == \A k \in StateIds : issued < k => spent[k] = 0

\* As long as requests came one at a time: no state still in the cache, or
\* about to be taken, was used; and who unlinks an account still has another
\* way in, if he is still there.
Solo ==
  alone =>
    /\ \A p, q \in Procs : req[p] # Idle /\ req[q] # Idle => p = q
    /\ \A k \in DOMAIN states : spent[k] = 0
    /\ \A p \in Procs : req[p].phase = "read" => spent[req[p].state] = 0
    /\ \A p \in Procs :
         req[p].phase = "unlink" /\ req[p].id \in DOMAIN accounts =>
           /\ accounts[req[p].id].user = req[p].user
           /\ \/ req[p].user \in passwords
              \/ \E j \in DOMAIN accounts :
                   j # req[p].id /\ accounts[j].user = req[p].user

IInv == TypeOK /\ Carried /\ Unspent /\ Solo /\ Sequential

-------------------------------------------------------------------------------
(* Operators of the model.                                                 *)

LEMMA IdleType == Idle \in Req /\ Idle.phase = "idle"
BY BoundAssumption DEF Idle, Req

\* What is written to the linked accounts: a row keeps its user, its number and
\* its refresh token; a row that is new is of the request that writes it.
Writes(r) ==
  /\ accounts' \in [DOMAIN accounts' -> Account]
  /\ DOMAIN accounts \subseteq DOMAIN accounts'
  /\ DOMAIN accounts' \subseteq Identities
  /\ \A i \in DOMAIN accounts :
       /\ accounts'[i].user = accounts[i].user
       /\ accounts'[i].row = accounts[i].row
       /\ accounts[i].renew => accounts'[i].renew
  /\ drawn' \in 0 .. MaxRows /\ drawn <= drawn'
  /\ \A i \in DOMAIN accounts' \ DOMAIN accounts :
       /\ r.row = 0 /\ i = r.id /\ accounts'[i].user = r.user
       /\ accounts'[i].row = drawn + 1 /\ drawn' = drawn + 1
  /\ r.row = 0 => r.id \in DOMAIN accounts' /\ accounts'[r.id].user = r.user

LEMMA WriteFacts ==
  ASSUME TypeOK, NEW r \in Req, NEW got \in BOOLEAN, WriteAccount(r, got),
         r.row = 0 => r.id \in Identities /\ r.user \in Users
  PROVE  Writes(r)
<1>0. drawn \in 0 .. MaxRows /\ MaxRows \in Nat
  BY BoundAssumption DEF TypeOK
<1>1. CASE r.row # 0
  <2>1. PICK i \in DOMAIN accounts :
          /\ i = r.id
          /\ accounts' = [accounts EXCEPT ![i].renew = @ \/ got]
          /\ drawn' = drawn
    BY <1>1 DEF WriteAccount, Renew
  <2>2. accounts[i] \in Account
    BY DEF TypeOK
  <2>3. PICK b \in BOOLEAN : b = (accounts[i].renew \/ got)
    OBVIOUS
  <2>a. /\ [accounts[i] EXCEPT !.renew = b] \in Account
        /\ [accounts[i] EXCEPT !.renew = b].user = accounts[i].user
        /\ [accounts[i] EXCEPT !.renew = b].row = accounts[i].row
        /\ [accounts[i] EXCEPT !.renew = b].renew = b
    BY <2>2 DEF Account
  <2>b. [accounts[i] EXCEPT !.renew = @ \/ got]
          = [accounts[i] EXCEPT !.renew = b]
    BY <2>3
  <2>4. PICK a : /\ a = [accounts[i] EXCEPT !.renew = @ \/ got]
                 /\ a \in Account /\ a.user = accounts[i].user
                 /\ a.row = accounts[i].row /\ (accounts[i].renew => a.renew)
    BY <2>3, <2>a, <2>b
  <2>5. accounts' = [accounts EXCEPT ![i] = a]
    BY <2>1, <2>4
  <2>6. /\ DOMAIN accounts' = DOMAIN accounts /\ accounts'[i] = a
        /\ \A j \in DOMAIN accounts : j # i => accounts'[j] = accounts[j]
    BY <2>5
  <2>7. accounts' \in [DOMAIN accounts' -> Account]
    BY <2>4, <2>5 DEF TypeOK
  <2>. QED
    BY <1>0, <1>1, <2>1, <2>4, <2>6, <2>7 DEF TypeOK, Writes
<1>2. CASE r.row = 0
  <2>1. PICK a : /\ a = [user |-> r.user, row |-> drawn + 1, renew |-> got]
                 /\ drawn < MaxRows /\ drawn' = drawn + 1
                 /\ r.id \notin DOMAIN accounts
                 /\ accounts' = [i \in DOMAIN accounts \cup {r.id} |->
                                   IF i = r.id THEN a ELSE accounts[i]]
    BY <1>2 DEF WriteAccount, Insertable
  <2>2. drawn + 1 \in 1 .. MaxRows
    BY <1>0, <2>1
  <2>3. a \in Account /\ a.user = r.user /\ a.row = drawn + 1
    BY <1>2, <2>1, <2>2 DEF Account
  <2>4. /\ DOMAIN accounts' = DOMAIN accounts \cup {r.id}
        /\ accounts'[r.id] = a
        /\ \A i \in DOMAIN accounts : accounts'[i] = accounts[i]
    BY <2>1
  <2>5. accounts' \in [DOMAIN accounts' -> Account]
    BY <2>1, <2>3 DEF TypeOK
  <2>. QED
    BY <1>0, <1>2, <2>1, <2>2, <2>3, <2>4, <2>5 DEF TypeOK, Writes
<1>. QED
  BY <1>1, <1>2

LEMMA FoundType ==
  ASSUME TypeOK, NEW id \in Identities
  PROVE  FoundUser(id) \in Users /\ FoundRow(id) \in 0 .. MaxRows
<1>1. CASE id \in DOMAIN accounts
  <2>1. accounts[id] \in Account
    BY <1>1 DEF TypeOK
  <2>. QED
    BY <1>1, <2>1, BoundAssumption DEF FoundUser, FoundRow, Account
<1>2. CASE id \notin DOMAIN accounts
  BY <1>2, InitialAssumption, BoundAssumption
  DEF FoundUser, FoundRow, Email, Identities
<1>. QED
  BY <1>1, <1>2

LEMMA TenantType ==
  ASSUME NEW forced \in Tenants \cup {NoTenant}, NEW u
  PROVE  SessionTenant(forced, u) \in Tenants \cup {NoTenant}
<1>1. CASE \E t \in Tenants : TenantsOf(u) = {t}
  <2>1. (CHOOSE t \in Tenants : TenantsOf(u) = {t}) \in Tenants
    BY <1>1
  <2>. QED
    BY <2>1 DEF SessionTenant
<1>2. CASE ~\E t \in Tenants : TenantsOf(u) = {t}
  BY <1>2 DEF SessionTenant
<1>. QED
  BY <1>1, <1>2

\* The accounts of a user are finitely many, for their rows are numbered.
LEMMA LinkedFinite ==
  ASSUME TypeOK, NEW u
  PROVE  IsFiniteSet(Linked(u))
<1>. DEFINE f == [id \in Linked(u) |-> accounts[id].row]
<1>1. IsFiniteSet(1 .. MaxRows)
  <2>1. 1 \in Int /\ MaxRows \in Int
    BY BoundAssumption
  <2>. QED
    BY <2>1, FS_Interval
<1>2. Linked(u) \subseteq DOMAIN accounts
  BY DEF Linked
<1>3. f \in [Linked(u) -> 1 .. MaxRows]
  BY <1>2 DEF TypeOK, Account
<1>4. \A i, j \in Linked(u) : f[i] = f[j] => i = j
  BY <1>2 DEF TypeOK
<1>. QED
  BY <1>1, <1>3, <1>4, FS_Injection DEF Injection, IsInjective

\* Who may unlink one of his accounts and has no password has another.
LEMMA MayUnlinkFacts ==
  ASSUME TypeOK, NEW u, MayUnlink(u), u \notin passwords, NEW id \in Linked(u)
  PROVE  \E j \in Linked(u) : j # id
<1>1. Cardinality(Linked(u)) > 1
  BY DEF MayUnlink
<1>2. SUFFICES ASSUME Linked(u) = {id} PROVE FALSE
  OBVIOUS
<1>3. Cardinality(Linked(u)) = 1
  BY <1>2, FS_Singleton
<1>. QED
  BY <1>1, <1>3

-------------------------------------------------------------------------------
(* The steps, as the proofs below tell them apart.                         *)

tables == <<user, accounts, drawn, issued, opened, newcomers>>

\* A request begins with r, what it has read.
Starts(p, r) ==
  /\ req[p] = Idle /\ r \in Req /\ Move(p, r) /\ Begins
  /\ UNCHANGED <<tables, states, spent>>
  /\ r.phase \in {"read", "unlink", "renew", "password"}
  /\ r.phase = "read" => r.state \in DOMAIN states
  /\ r.phase = "renew" => r.row # 0
  /\ r.phase = "unlink" => r.id \in Linked(r.user) /\ MayUnlink(r.user)

\* The provider has answered, and the request goes on as r.
Checks(p, r) ==
  /\ req[p].phase = "taken" /\ r \in Req /\ Move(p, r)
  /\ UNCHANGED <<tables, states, spent, alone>>
  /\ r.phase \in {"signIn", "link"} /\ r.id \in Identities
  /\ r.phase = "signIn" => r.user \in Users /\ LetIn(r.user)

\* A request commits what it has of an account, and is over.
Commits(p) == \E got \in BOOLEAN :
                CommitSignIn(p, got) \/ CommitLink(p, got) \/ CommitRenew(p, got)

LEMMA StartFacts ==
  ASSUME TypeOK, NEW p \in Procs,
         \/ \E k \in StateIds : ReadState(p, k)
         \/ \E k \in StateIds, prov \in Providers, u \in Users :
              ReadLinkState(p, k, prov, u)
         \/ \E u \in Users, prov \in Providers :
              BeginUnlink(p, u, prov) \/ BeginRenew(p, u, prov)
         \/ \E u \in Users : BeginSetPassword(p, u)
  PROVE  \E r : Starts(p, r)
<1>0. MaxRows \in Nat
  BY BoundAssumption
<1>1. ASSUME NEW k \in StateIds, ReadState(p, k) PROVE \E r : Starts(p, r)
  <2>. DEFINE r == [Idle EXCEPT !.phase = "read", !.state = k,
                      !.provider = states[k].provider,
                      !.tenant = states[k].tenant, !.user = states[k].link,
                      !.byLink = states[k].link # NoUser]
  <2>1. states[k] \in State /\ k \in DOMAIN states
    BY <1>1 DEF ReadState, TypeOK
  <2>2. r \in Req /\ r.phase = "read" /\ r.state = k
    BY IdleType, <2>1 DEF Req, State
  <2>. QED
    BY <1>1, <2>1, <2>2 DEF ReadState, Starts, tables
<1>2. ASSUME NEW k \in StateIds, NEW prov \in Providers, NEW u \in Users,
             ReadLinkState(p, k, prov, u)
      PROVE  \E r : Starts(p, r)
  <2>. DEFINE r == [Idle EXCEPT !.phase = "read", !.state = k,
                      !.provider = prov, !.user = u, !.byLink = TRUE]
  <2>1. r \in Req /\ r.phase = "read" /\ r.state = k
    BY IdleType DEF Req
  <2>. QED
    BY <1>2, <2>1 DEF ReadLinkState, Starts, tables
<1>3. ASSUME NEW u \in Users, NEW prov \in Providers, BeginUnlink(p, u, prov)
      PROVE  \E r : Starts(p, r)
  <2>1. PICK id \in Linked(u) :
          Move(p, [Idle EXCEPT !.phase = "unlink", !.user = u, !.id = id,
                               !.row = accounts[id].row])
    BY <1>3 DEF BeginUnlink
  <2>2. /\ id \in Identities /\ accounts[id].row \in 1 .. MaxRows
        /\ 1 .. MaxRows \subseteq 0 .. MaxRows /\ 0 \notin 1 .. MaxRows
    BY <1>0 DEF Linked, TypeOK, Account
  <2>a. PICK n \in 0 .. MaxRows : n = accounts[id].row /\ n # 0
    BY <2>2
  <2>. DEFINE r == [Idle EXCEPT !.phase = "unlink", !.user = u, !.id = id,
                                !.row = n]
  <2>3. r \in Req /\ r.phase = "unlink" /\ r.id = id /\ r.user = u
    BY IdleType, <2>2, <2>a DEF Req
  <2>. QED
    BY <1>3, <2>1, <2>a, <2>3 DEF BeginUnlink, Starts, tables
<1>4. ASSUME NEW u \in Users, NEW prov \in Providers, BeginRenew(p, u, prov)
      PROVE  \E r : Starts(p, r)
  <2>1. PICK id \in Linked(u) :
          Move(p, [Idle EXCEPT !.phase = "renew", !.user = u, !.id = id,
                               !.row = accounts[id].row])
    BY <1>4 DEF BeginRenew
  <2>2. /\ id \in Identities /\ accounts[id].row \in 1 .. MaxRows
        /\ 1 .. MaxRows \subseteq 0 .. MaxRows /\ 0 \notin 1 .. MaxRows
    BY <1>0 DEF Linked, TypeOK, Account
  <2>a. PICK n \in 0 .. MaxRows : n = accounts[id].row /\ n # 0
    BY <2>2
  <2>. DEFINE r == [Idle EXCEPT !.phase = "renew", !.user = u, !.id = id,
                                !.row = n]
  <2>3. r \in Req /\ r.phase = "renew" /\ r.row # 0
    BY IdleType, <2>2, <2>a DEF Req
  <2>. QED
    BY <1>4, <2>1, <2>a, <2>3 DEF BeginRenew, Starts, tables
<1>5. ASSUME NEW u \in Users, BeginSetPassword(p, u) PROVE \E r : Starts(p, r)
  <2>. DEFINE r == [Idle EXCEPT !.phase = "password", !.user = u]
  <2>1. r \in Req /\ r.phase = "password"
    BY IdleType DEF Req
  <2>. QED
    BY <1>5, <2>1 DEF BeginSetPassword, Starts, tables
<1>. QED
  BY <1>1, <1>2, <1>3, <1>4, <1>5

LEMMA CheckFacts ==
  ASSUME TypeOK, NEW p \in Procs, NEW id \in Identities,
         LookUp(p, id) \/ LookUpLink(p, id)
  PROVE  \E r : Checks(p, r)
<1>0. req[p] \in Req
  BY DEF TypeOK
<1>1. FoundUser(id) \in Users /\ FoundRow(id) \in 0 .. MaxRows
  BY FoundType
<1>2. CASE LookUp(p, id)
  <2>. DEFINE t == SessionTenant(req[p].tenant, FoundUser(id))
              b == FoundUser(id) \notin users
              r == [req[p] EXCEPT !.phase = "signIn", !.id = id,
                      !.user = FoundUser(id), !.row = FoundRow(id),
                      !.fresh = b, !.tenant = t]
  <2>1. t \in Tenants \cup {NoTenant} /\ b \in BOOLEAN
    BY <1>0, TenantType DEF Req
  <2>. HIDE DEF t, b
  <2>2. r \in Req /\ r.phase = "signIn" /\ r.id = id /\ r.user = FoundUser(id)
    BY <1>0, <1>1, <2>1 DEF Req
  <2>3. Move(p, r)
    BY <1>2 DEF LookUp, t, b
  <2>. QED
    BY <1>1, <1>2, <2>2, <2>3 DEF LookUp, Checks, tables
<1>3. CASE LookUpLink(p, id)
  <2>. DEFINE r == [req[p] EXCEPT !.phase = "link", !.id = id,
                                  !.row = FoundRow(id)]
  <2>1. r \in Req /\ r.phase = "link" /\ r.id = id
    BY <1>0, <1>1 DEF Req
  <2>. QED
    BY <1>3, <2>1 DEF LookUpLink, Checks, tables
<1>. QED
  BY <1>2, <1>3

LEMMA CommitFacts ==
  ASSUME TypeOK, Carried, NEW p \in Procs, Commits(p)
  PROVE  /\ Writes(req[p]) /\ Move(p, Idle)
         /\ users \subseteq users' /\ users' \subseteq Users
         /\ active' \subseteq users' /\ active \subseteq active'
         /\ \A u \in users' \ users : u = req[p].user /\ req[p].row = 0
         /\ req[p].row = 0 => req[p].user \in users'
         /\ UNCHANGED <<passwords, members, states, issued, spent, alone>>
         /\ opened' \subseteq [user : Users, tenant : Tenants \cup {NoTenant},
                               member : BOOLEAN]
         /\ \A o \in opened' \ opened :
              req[p].phase = "signIn" /\ o.user = req[p].user
         /\ newcomers' \subseteq Users
<1>0. req[p] \in Req
  BY DEF TypeOK
<1>1. PICK got \in BOOLEAN :
        CommitSignIn(p, got) \/ CommitLink(p, got) \/ CommitRenew(p, got)
  BY DEF Commits
<1>2. /\ WriteAccount(req[p], got) /\ Move(p, Idle)
      /\ UNCHANGED <<states, issued, spent, alone>>
      /\ UNCHANGED <<passwords, members>>
  BY <1>1 DEF CommitSignIn, CommitLink, CommitRenew, user
<1>3. req[p].row = 0 => req[p].id \in Identities /\ req[p].user \in Users
  BY <1>1
  DEF CommitSignIn, CommitLink, CommitRenew, Carried, Present, TypeOK
<1>4. Writes(req[p])
  BY <1>0, <1>2, <1>3, WriteFacts
<1>5. CASE CommitSignIn(p, got)
  <2>. DEFINE u == req[p].user
              o == [user |-> u, tenant |-> req[p].tenant,
                    member |-> <<u, req[p].tenant>> \in members]
  <2>1. /\ u \in Users /\ opened' = opened \cup {o}
        /\ req[p].phase = "signIn"
    BY <1>5 DEF CommitSignIn, Carried
  <2>2. /\ o \in [user : Users, tenant : Tenants \cup {NoTenant},
                  member : BOOLEAN]
        /\ o.user = u
    BY <1>0, <2>1 DEF Req
  <2>3. /\ \A k \in opened' \ opened : k.user = u
        /\ opened' \subseteq [user : Users, tenant : Tenants \cup {NoTenant},
                              member : BOOLEAN]
    BY <2>1, <2>2 DEF TypeOK
  <2>4. \/ u \in users /\ users' = users /\ active' = active
           /\ newcomers' = newcomers
        \/ /\ u \notin users /\ req[p].row = 0
           /\ users' = users \cup {u} /\ active' = active \cup {u}
           /\ newcomers' = newcomers \cup {u}
    BY <1>5 DEF CommitSignIn, user
  <2>5. /\ users \subseteq users' /\ users' \subseteq Users
        /\ active' \subseteq users' /\ active \subseteq active'
        /\ newcomers' \subseteq Users /\ u \in users'
        /\ \A k \in users' \ users : k = u /\ req[p].row = 0
    BY <2>1, <2>4 DEF TypeOK
  <2>. QED
    BY <1>2, <1>4, <2>1, <2>3, <2>5
<1>6. CASE CommitLink(p, got) \/ CommitRenew(p, got)
  <2>1. /\ UNCHANGED <<users, active, opened, newcomers>>
        /\ req[p].row = 0 => req[p].user \in users
    BY <1>6 DEF CommitLink, CommitRenew, user, Present, Carried
  <2>. QED
    BY <1>2, <1>4, <2>1 DEF TypeOK
<1>. QED
  BY <1>1, <1>5, <1>6

LEMMA Steps ==
  ASSUME TypeOK, [Next]_vars
  PROVE  \/ \E s \in State : Authorize(s)
         \/ \E k \in StateIds : StateExpires(k)
         \/ \E p \in Procs : \/ \E r : Starts(p, r)
                             \/ TakeState(p)
                             \/ \E r : Checks(p, r)
                             \/ Commits(p)
                             \/ CommitUnlink(p) \/ CommitSetPassword(p)
                             \/ Abort(p)
         \/ Elsewhere
         \/ UNCHANGED vars
<1>1. ASSUME NEW p \in Procs, Callback(p) \/ Methods(p)
      PROVE  \/ \E r : Starts(p, r)
             \/ TakeState(p)
             \/ \E r : Checks(p, r)
             \/ Commits(p) \/ CommitUnlink(p) \/ CommitSetPassword(p)
  BY <1>1, StartFacts, CheckFacts DEF Callback, Methods, Commits
<1>. QED
  BY <1>1 DEF Next

LEMMA MoveFacts ==
  ASSUME TypeOK, NEW p \in Procs, NEW r \in Req, Move(p, r)
  PROVE  /\ req' \in [Procs -> Req] /\ req'[p] = r
         /\ \A q \in Procs : q # p => req'[q] = req[q]
BY DEF Move, TypeOK

\* A state is handed out under a number of its own, and goes once.
LEMMA AuthorizeFacts ==
  ASSUME TypeOK, NEW s \in State, Authorize(s)
  PROVE  /\ issued' = issued + 1 /\ issued' \in 0 .. MaxStates
         /\ DOMAIN states' = DOMAIN states \cup {issued + 1}
         /\ DOMAIN states' \subseteq 1 .. issued'
         /\ states' \in [DOMAIN states' -> State]
         /\ issued \in Nat /\ issued + 1 \in StateIds
         /\ UNCHANGED <<user, accounts, drawn, req, opened, spent, newcomers,
                        alone>>
<1>1. issued \in Nat /\ issued < MaxStates /\ MaxStates \in Nat
  BY BoundAssumption DEF Authorize, TypeOK
<1>2. /\ issued + 1 \in StateIds /\ issued + 1 \in 0 .. MaxStates
      /\ 1 .. issued \subseteq 1 .. (issued + 1)
      /\ issued + 1 \in 1 .. (issued + 1)
  BY <1>1 DEF StateIds
<1>3. states' \in [DOMAIN states' -> State]
  BY DEF Authorize, TypeOK
<1>. QED
  BY <1>1, <1>2, <1>3 DEF Authorize, TypeOK

LEMMA TakeFacts ==
  ASSUME TypeOK, NEW p \in Procs, TakeState(p)
  PROVE  /\ \E r \in Req : Move(p, r) /\ r.phase = "taken"
         /\ req[p].phase = "read"
         /\ states' \in [DOMAIN states' -> State]
         /\ DOMAIN states' = DOMAIN states \ {req[p].state}
         /\ spent' \in [StateIds -> 0 .. 2]
         /\ \A k \in StateIds : k # req[p].state => spent'[k] = spent[k]
         /\ \A k \in StateIds : spent[k] = 0 => spent'[k] < 2
         /\ UNCHANGED <<tables, alone>>
<1>1. /\ [req[p] EXCEPT !.phase = "taken"] \in Req
      /\ [req[p] EXCEPT !.phase = "taken"].phase = "taken"
  <2>1. req[p] \in Req
    BY DEF TypeOK
  <2>. QED
    BY <2>1 DEF Req
<1>2. PICK k : k = req[p].state
  OBVIOUS
<1>3. /\ spent' = [spent EXCEPT ![k] = IF @ = 2 THEN 2 ELSE @ + 1]
      /\ spent \in [StateIds -> 0 .. 2]
  BY <1>2 DEF TakeState, TypeOK
<1>4. /\ spent' \in [StateIds -> 0 .. 2]
      /\ \A j \in StateIds : j # k => spent'[j] = spent[j]
      /\ \A j \in StateIds : spent[j] = 0 => spent'[j] < 2
  <2>1. \A n \in 0 .. 2 : /\ (IF n = 2 THEN 2 ELSE n + 1) \in 0 .. 2
                          /\ n = 0 => (IF n = 2 THEN 2 ELSE n + 1) < 2
    OBVIOUS
  <2>2. /\ DOMAIN spent' = StateIds
        /\ \A j \in StateIds :
             spent'[j] = IF j = k
                         THEN (IF spent[j] = 2 THEN 2 ELSE spent[j] + 1)
                         ELSE spent[j]
    BY <1>3
  <2>3. \A j \in StateIds : spent[j] \in 0 .. 2 /\ spent'[j] \in 0 .. 2
    BY <1>3, <2>1, <2>2
  <2>4. spent' \in [StateIds -> 0 .. 2]
    BY <1>3, <2>2, <2>3
  <2>5. \A j \in StateIds : spent[j] = 0 => spent'[j] < 2
    BY <2>1, <2>2
  <2>. QED
    BY <2>2, <2>4, <2>5
<1>5. states' \in [DOMAIN states' -> State]
  BY DEF TakeState, TypeOK
<1>. QED
  BY <1>1, <1>2, <1>4, <1>5 DEF TakeState, tables

\* What the rest of the service does leaves each account that stays with its
\* user, and each user that stays with what he has.
LEMMA ElsewhereFacts ==
  ASSUME TypeOK, Elsewhere
  PROVE  /\ users' \subseteq users /\ active' \subseteq users'
         /\ passwords' = passwords \cap users'
         /\ members' \subseteq users' \X Tenants
         /\ DOMAIN accounts' =
              {i \in DOMAIN accounts : accounts[i].user \in users'}
         /\ \A i \in DOMAIN accounts' : accounts'[i] = accounts[i]
         /\ accounts' \in [DOMAIN accounts' -> Account]
         /\ UNCHANGED <<drawn, states, issued, req, opened, spent, newcomers,
                        alone>>
<1>1. PICK u \in users :
        \/ /\ active' \in {active \cup {u}, active \ {u}}
           /\ UNCHANGED <<users, passwords, members, accounts>>
        \/ /\ \E t \in Tenants : members' \in {members \cup {<<u, t>>},
                                               members \ {<<u, t>>}}
           /\ UNCHANGED <<users, active, passwords, accounts>>
        \/ /\ users' = users \ {u} /\ active' = active \ {u}
           /\ passwords' = passwords \ {u}
           /\ members' = {m \in members : m[1] # u}
           /\ accounts' = [id \in DOMAIN accounts \ Linked(u) |-> accounts[id]]
  BY DEF Elsewhere
<1>u. UNCHANGED <<drawn, states, issued, req, opened, spent, newcomers, alone>>
  BY DEF Elsewhere
<1>2. CASE users' = users /\ passwords' = passwords /\ accounts' = accounts
  <2>1. /\ passwords = passwords \cap users
        /\ DOMAIN accounts
             = {i \in DOMAIN accounts : accounts[i].user \in users}
        /\ accounts \in [DOMAIN accounts -> Account]
    BY DEF TypeOK
  <2>2. active' \subseteq users /\ members' \subseteq users \X Tenants
    <3>1. active \subseteq users /\ members \subseteq users \X Tenants
      BY DEF TypeOK
    <3>. QED
      BY <1>1, <1>2, <3>1
  <2>. QED
    BY <1>2, <1>u, <2>1, <2>2
<1>4. CASE /\ users' = users \ {u} /\ active' = active \ {u}
           /\ passwords' = passwords \ {u}
           /\ members' = {m \in members : m[1] # u}
           /\ accounts' = [id \in DOMAIN accounts \ Linked(u) |-> accounts[id]]
  <2>1. members' \subseteq users' \X Tenants
    BY <1>4 DEF TypeOK
  <2>2. /\ DOMAIN accounts' =
             {i \in DOMAIN accounts : accounts[i].user \in users'}
        /\ \A i \in DOMAIN accounts' : accounts'[i] = accounts[i]
        /\ accounts' \in [DOMAIN accounts' -> Account]
    BY <1>4 DEF TypeOK, Linked
  <2>. QED
    BY <1>4, <1>u, <2>1, <2>2 DEF TypeOK
<1>. QED
  BY <1>1, <1>2, <1>4

LEMMA UnlinkFacts ==
  ASSUME TypeOK, NEW p \in Procs, CommitUnlink(p)
  PROVE  /\ req[p].phase = "unlink" /\ req[p].id \in DOMAIN accounts
         /\ DOMAIN accounts' = DOMAIN accounts \ {req[p].id}
         /\ \A i \in DOMAIN accounts' : accounts'[i] = accounts[i]
         /\ accounts' \in [DOMAIN accounts' -> Account]
         /\ Move(p, Idle)
         /\ UNCHANGED <<user, drawn, states, issued, opened, spent, newcomers,
                        alone>>
BY DEF CommitUnlink, TypeOK

-------------------------------------------------------------------------------
(* Each conjunct of the invariant is kept.                                 *)

LEMMA TypeStep == IInv /\ [Next]_vars => TypeOK'
<1>. SUFFICES ASSUME IInv, [Next]_vars PROVE TypeOK'
  OBVIOUS
<1>0. TypeOK /\ Carried
  BY DEF IInv
<1>1. ASSUME NEW s \in State, Authorize(s) PROVE TypeOK'
  BY <1>0, <1>1, AuthorizeFacts DEF TypeOK, user
<1>2. ASSUME NEW k \in StateIds, StateExpires(k) PROVE TypeOK'
  <2>1. /\ states' \in [DOMAIN states' -> State]
        /\ DOMAIN states' \subseteq 1 .. issued
    BY <1>0, <1>2 DEF StateExpires, TypeOK
  <2>. QED
    BY <1>0, <1>2, <2>1 DEF StateExpires, TypeOK, user
<1>3. ASSUME NEW p \in Procs, NEW r, Starts(p, r) \/ Checks(p, r)
      PROVE  TypeOK'
  <2>1. req' \in [Procs -> Req]
    BY <1>0, <1>3, MoveFacts DEF Starts, Checks
  <2>2. alone' \in BOOLEAN
    BY <1>0, <1>3 DEF Starts, Begins, Checks, TypeOK
  <2>. QED
    BY <1>0, <1>3, <2>1, <2>2 DEF Starts, Checks, tables, user, TypeOK
<1>4. ASSUME NEW p \in Procs, TakeState(p) PROVE TypeOK'
  <2>1. req' \in [Procs -> Req]
    BY <1>0, <1>4, TakeFacts, MoveFacts
  <2>2. /\ states' \in [DOMAIN states' -> State]
        /\ DOMAIN states' \subseteq DOMAIN states
        /\ spent' \in [StateIds -> 0 .. 2] /\ UNCHANGED <<tables, alone>>
    BY <1>0, <1>4, TakeFacts
  <2>. QED
    BY <1>0, <2>1, <2>2 DEF tables, user, TypeOK
<1>5. ASSUME NEW p \in Procs, Commits(p) PROVE TypeOK'
  <2>1. Writes(req[p]) /\ req' \in [Procs -> Req]
    BY <1>0, <1>5, CommitFacts, MoveFacts, IdleType
  <2>2. /\ users \subseteq users' /\ users' \subseteq Users
        /\ active' \subseteq users'
        /\ req[p].row = 0 => req[p].user \in users'
        /\ UNCHANGED <<passwords, members, states, issued, spent, alone>>
        /\ opened' \subseteq [user : Users, tenant : Tenants \cup {NoTenant},
                              member : BOOLEAN]
        /\ newcomers' \subseteq Users
    BY <1>0, <1>5, CommitFacts
  <2>3. \A i \in DOMAIN accounts' :
          /\ accounts'[i].user \in users' /\ accounts'[i].row <= drawn'
          /\ i \notin DOMAIN accounts => accounts'[i].row = drawn + 1
    <3>1. ASSUME NEW i \in DOMAIN accounts
          PROVE  accounts'[i].user \in users' /\ accounts'[i].row <= drawn'
      <4>1. /\ accounts'[i].user = accounts[i].user
            /\ accounts'[i].row = accounts[i].row /\ drawn <= drawn'
            /\ drawn' \in 0 .. MaxRows
        BY <2>1 DEF Writes
      <4>2. /\ accounts[i].user \in users /\ accounts[i].row <= drawn
            /\ accounts[i].row \in 1 .. MaxRows /\ drawn \in 0 .. MaxRows
        BY <1>0 DEF TypeOK, Account
      <4>. QED
        BY <2>2, <4>1, <4>2, BoundAssumption
    <3>2. drawn' \in Nat
      BY <2>1, BoundAssumption DEF Writes
    <3>3. \A i \in DOMAIN accounts' \ DOMAIN accounts :
            /\ accounts'[i].user \in users' /\ accounts'[i].row = drawn'
            /\ accounts'[i].row = drawn + 1
      BY <2>1, <2>2 DEF Writes
    <3>. QED
      BY <3>1, <3>2, <3>3
  <2>4. \A i, j \in DOMAIN accounts' :
          accounts'[i].row = accounts'[j].row => i = j
    <3>1. \A i \in DOMAIN accounts :
            accounts'[i].row = accounts[i].row /\ accounts'[i].row # drawn + 1
      <4>1. ASSUME NEW i \in DOMAIN accounts
            PROVE  accounts[i].row # drawn + 1
        <5>1. /\ accounts[i].row <= drawn /\ accounts[i].row \in 1 .. MaxRows
              /\ drawn \in 0 .. MaxRows
          BY <1>0 DEF TypeOK, Account
        <5>. QED
          BY <5>1, BoundAssumption
      <4>. QED
        BY <2>1, <4>1 DEF Writes
    <3>2. \A i, j \in DOMAIN accounts' \ DOMAIN accounts : i = j
      BY <2>1 DEF Writes
    <3>. QED
      BY <1>0, <2>3, <3>1, <3>2 DEF TypeOK
  <2>5. members' \subseteq users' \X Tenants /\ passwords' \subseteq users'
    BY <1>0, <2>2 DEF TypeOK
  <2>. QED
    BY <1>0, <2>1, <2>2, <2>3, <2>4, <2>5 DEF TypeOK, Writes
<1>6. ASSUME NEW p \in Procs, CommitUnlink(p) PROVE TypeOK'
  <2>1. req' \in [Procs -> Req]
    BY <1>0, <1>6, UnlinkFacts, MoveFacts, IdleType
  <2>2. /\ DOMAIN accounts' \subseteq DOMAIN accounts
        /\ \A i \in DOMAIN accounts' : accounts'[i] = accounts[i]
        /\ accounts' \in [DOMAIN accounts' -> Account]
        /\ UNCHANGED <<user, drawn, states, issued, opened, spent, newcomers,
                       alone>>
    BY <1>0, <1>6, UnlinkFacts
  <2>. QED
    BY <1>0, <2>1, <2>2 DEF TypeOK, user
<1>7. ASSUME NEW p \in Procs, CommitSetPassword(p) \/ Abort(p) PROVE TypeOK'
  <2>1. req' \in [Procs -> Req]
    BY <1>0, <1>7, MoveFacts, IdleType DEF CommitSetPassword, Abort
  <2>2. passwords' \subseteq users
    BY <1>0, <1>7 DEF CommitSetPassword, Abort, Present, user, TypeOK
  <2>. QED
    BY <1>0, <1>7, <2>1, <2>2 DEF CommitSetPassword, Abort, user, TypeOK
<1>8. CASE Elsewhere
  BY <1>0, <1>8, ElsewhereFacts DEF TypeOK
<1>9. CASE UNCHANGED vars
  BY <1>0, <1>9 DEF vars, user, TypeOK
<1>. QED
  BY <1>0, <1>1, <1>2, <1>3, <1>4, <1>5, <1>6, <1>7, <1>8, <1>9, Steps

LEMMA CarriedStep == IInv /\ [Next]_vars => Carried'
<1>. SUFFICES ASSUME IInv, [Next]_vars PROVE Carried'
  OBVIOUS
<1>0. /\ TypeOK /\ Carried /\ issued \in Nat /\ DOMAIN states \subseteq 1 .. issued
      /\ Idle.phase = "idle"
  BY BoundAssumption, IdleType DEF IInv, TypeOK
<1>1. ASSUME NEW s \in State, Authorize(s) PROVE Carried'
  <2>1. req' = req /\ 1 .. issued \subseteq 1 .. issued'
    BY <1>0, <1>1, AuthorizeFacts
  <2>. QED
    BY <1>0, <2>1 DEF Carried
<1>2. ASSUME NEW k \in StateIds, StateExpires(k) PROVE Carried'
  BY <1>0, <1>2 DEF StateExpires, Carried
<1>3. ASSUME NEW p \in Procs, NEW r, Starts(p, r) \/ Checks(p, r)
      PROVE  Carried'
  <2>1. req'[p] = r /\ \A q \in Procs : q # p => req'[q] = req[q]
    BY <1>0, <1>3, MoveFacts DEF Starts, Checks
  <2>2. /\ r.phase \in {"signIn", "link"} => r.id \in Identities
        /\ r.phase = "signIn" => r.user \in Users
        /\ r.phase = "renew" => r.row # 0
        /\ r.phase = "read" => r.state \in 1 .. issued
        /\ issued' = issued
    BY <1>0, <1>3 DEF Starts, Checks, tables
  <2>. QED
    BY <1>0, <2>1, <2>2 DEF Carried
<1>4. ASSUME NEW p \in Procs, TakeState(p) PROVE Carried'
  <2>1. PICK r \in Req : Move(p, r) /\ r.phase = "taken"
    BY <1>0, <1>4, TakeFacts
  <2>2. req'[p] = r /\ \A q \in Procs : q # p => req'[q] = req[q]
    BY <1>0, <2>1, MoveFacts
  <2>3. issued' = issued
    BY <1>4 DEF TakeState
  <2>. QED
    BY <1>0, <2>1, <2>2, <2>3 DEF Carried
<1>5. ASSUME NEW p \in Procs, Move(p, Idle), issued' = issued PROVE Carried'
  <2>1. req'[p] = Idle /\ \A q \in Procs : q # p => req'[q] = req[q]
    BY <1>0, <1>5, MoveFacts, IdleType
  <2>. QED
    BY <1>0, <1>5, <2>1 DEF Carried
<1>6. ASSUME NEW p \in Procs, Commits(p) PROVE Carried'
  BY <1>0, <1>5, <1>6, CommitFacts
<1>7. ASSUME NEW p \in Procs,
             CommitUnlink(p) \/ CommitSetPassword(p) \/ Abort(p)
      PROVE  Carried'
  BY <1>5, <1>7 DEF CommitUnlink, CommitSetPassword, Abort
<1>8. CASE Elsewhere
  BY <1>0, <1>8 DEF Elsewhere, Carried
<1>9. CASE UNCHANGED vars
  BY <1>0, <1>9 DEF vars, Carried
<1>. QED
  BY <1>0, <1>1, <1>2, <1>3, <1>4, <1>6, <1>7, <1>8, <1>9, Steps

LEMMA UnspentStep == IInv /\ [Next]_vars => Unspent'
<1>. SUFFICES ASSUME IInv, [Next]_vars PROVE Unspent'
  OBVIOUS
<1>0. TypeOK /\ Carried /\ Unspent /\ issued \in Nat /\ StateIds \subseteq Nat
  BY BoundAssumption DEF IInv, TypeOK, StateIds
<1>1. ASSUME NEW s \in State, Authorize(s) PROVE Unspent'
  <2>1. issued' = issued + 1 /\ spent' = spent
    BY <1>0, <1>1, AuthorizeFacts
  <2>2. \A k \in StateIds : issued + 1 < k => issued < k
    BY <1>0
  <2>. QED
    BY <1>0, <2>1, <2>2 DEF Unspent
<1>2. ASSUME NEW p \in Procs, TakeState(p) PROVE Unspent'
  <2>1. /\ req[p].state \in 1 .. issued /\ issued' = issued
        /\ \A k \in StateIds : k # req[p].state => spent'[k] = spent[k]
    BY <1>0, <1>2, TakeFacts DEF Carried, tables
  <2>2. \A k \in StateIds : issued < k => k # req[p].state
    BY <1>0, <2>1
  <2>. QED
    BY <1>0, <2>1, <2>2 DEF Unspent
<1>3. ASSUME UNCHANGED <<issued, spent>> PROVE Unspent'
  BY <1>0, <1>3 DEF Unspent
<1>4. ASSUME NEW p \in Procs, \/ \E r : Starts(p, r) \/ Checks(p, r)
                              \/ Commits(p) \/ CommitUnlink(p)
                              \/ CommitSetPassword(p) \/ Abort(p)
      PROVE  UNCHANGED <<issued, spent>>
  BY <1>0, <1>4, CommitFacts
  DEF Starts, Checks, tables, CommitUnlink, CommitSetPassword, Abort
<1>5. ASSUME \/ \E k \in StateIds : StateExpires(k)
             \/ Elsewhere \/ UNCHANGED vars
      PROVE  UNCHANGED <<issued, spent>>
  BY <1>5 DEF StateExpires, Elsewhere, vars
<1>. QED
  BY <1>0, <1>1, <1>2, <1>3, <1>4, <1>5, Steps

LEMMA SoloStep == IInv /\ [Next]_vars => Solo'
<1>. SUFFICES ASSUME IInv, [Next]_vars, alone' PROVE Solo'
  BY DEF Solo
<1>0. /\ TypeOK /\ Carried /\ Unspent /\ Solo /\ Idle.phase = "idle"
      /\ issued \in Nat
  BY BoundAssumption, IdleType DEF IInv, TypeOK
<1>1. ASSUME NEW s \in State, Authorize(s) PROVE Solo'
  <2>1. /\ DOMAIN states' = DOMAIN states \cup {issued + 1}
        /\ issued + 1 \in StateIds
        /\ UNCHANGED <<user, accounts, req, spent, alone>>
    BY <1>0, <1>1, AuthorizeFacts
  <2>2. spent[issued + 1] = 0
    BY <1>0, <2>1 DEF Unspent
  <2>. QED
    BY <1>0, <2>1, <2>2 DEF Solo, user
<1>2. ASSUME NEW k \in StateIds, StateExpires(k) PROVE Solo'
  BY <1>0, <1>2 DEF StateExpires, Solo, user
<1>3. ASSUME NEW p \in Procs, NEW r, Starts(p, r) PROVE Solo'
  <2>1. /\ req'[p] = r /\ \A q \in Procs : q # p => req'[q] = req[q]
        /\ alone /\ \A q \in Procs : req[q] = Idle
    BY <1>0, <1>3, MoveFacts DEF Starts, Begins
  <2>2. UNCHANGED <<users, passwords, accounts, states, spent>>
    BY <1>3 DEF Starts, tables, user
  <2>3. r.phase = "read" => spent[r.state] = 0
    BY <1>0, <1>3, <2>1 DEF Starts, Solo
  <2>4. ASSUME r.phase = "unlink"
        PROVE  /\ accounts[r.id].user = r.user
               /\ \/ r.user \in passwords
                  \/ \E j \in DOMAIN accounts :
                       j # r.id /\ accounts[j].user = r.user
    <3>1. PICK u, id : /\ u = r.user /\ id = r.id /\ id \in Linked(u)
                       /\ MayUnlink(u)
      BY <1>3, <2>4 DEF Starts
    <3>2. u \in passwords \/ \E j \in Linked(u) : j # id
      BY <1>0, <3>1, MayUnlinkFacts
    <3>. QED
      BY <3>1, <3>2 DEF Linked
  <2>. QED
    BY <1>0, <2>1, <2>2, <2>3, <2>4 DEF Solo
<1>4. ASSUME NEW p \in Procs, TakeState(p) PROVE Solo'
  <2>1. PICK r \in Req : Move(p, r) /\ r.phase = "taken"
    BY <1>0, <1>4, TakeFacts
  <2>2. /\ req'[p] = r /\ \A q \in Procs : q # p => req'[q] = req[q]
        /\ req[p] # Idle /\ alone
    BY <1>0, <1>4, <2>1, MoveFacts, TakeFacts
  <2>3. \A q \in Procs : q # p => req'[q] = Idle
    BY <1>0, <2>2 DEF Solo
  <2>4. DOMAIN states \subseteq StateIds
    BY <1>0, BoundAssumption DEF TypeOK, StateIds
  <2>5. \A k \in DOMAIN states' : spent'[k] = 0
    BY <1>0, <1>4, <2>2, <2>4, TakeFacts DEF Solo
  <2>. QED
    BY <1>0, <2>1, <2>2, <2>3, <2>5 DEF Solo
<1>5. ASSUME NEW p \in Procs, NEW r, Checks(p, r) PROVE Solo'
  <2>1. /\ req'[p] = r /\ \A q \in Procs : q # p => req'[q] = req[q]
        /\ req[p] # Idle /\ alone /\ r.phase \in {"signIn", "link"}
        /\ UNCHANGED <<states, spent>>
    BY <1>0, <1>5, MoveFacts DEF Checks
  <2>2. \A q \in Procs : q # p => req'[q] = Idle
    BY <1>0, <2>1 DEF Solo
  <2>. QED
    BY <1>0, <2>1, <2>2 DEF Solo
<1>6. ASSUME NEW p \in Procs, Move(p, Idle), req[p] # Idle,
             UNCHANGED <<states, spent, alone>>
      PROVE  Solo'
  <2>1. req'[p] = Idle /\ \A q \in Procs : q # p => req'[q] = req[q]
    BY <1>0, <1>6, MoveFacts, IdleType
  <2>2. \A q \in Procs : req'[q] = Idle
    BY <1>0, <1>6, <2>1 DEF Solo
  <2>. QED
    BY <1>0, <1>6, <2>2 DEF Solo
<1>7. ASSUME NEW p \in Procs, Commits(p) PROVE Solo'
  <2>1. req[p] # Idle
    BY <1>0, <1>7 DEF Commits, CommitSignIn, CommitLink, CommitRenew
  <2>. QED
    BY <1>0, <1>6, <1>7, <2>1, CommitFacts
<1>8. ASSUME NEW p \in Procs,
             CommitUnlink(p) \/ CommitSetPassword(p) \/ Abort(p)
      PROVE  Solo'
  <2>1. /\ Move(p, Idle) /\ req[p] # Idle
        /\ UNCHANGED <<states, spent, alone>>
    BY <1>0, <1>8 DEF CommitUnlink, CommitSetPassword, Abort
  <2>. QED
    BY <1>6, <2>1
<1>9. CASE Elsewhere
  <2>1. /\ passwords' = passwords \cap users'
        /\ DOMAIN accounts' =
             {i \in DOMAIN accounts : accounts[i].user \in users'}
        /\ \A i \in DOMAIN accounts' : accounts'[i] = accounts[i]
        /\ UNCHANGED <<states, req, spent, alone>>
    BY <1>0, <1>9, ElsewhereFacts
  <2>. QED
    BY <1>0, <2>1 DEF Solo
<1>10. CASE UNCHANGED vars
  BY <1>0, <1>10 DEF vars, user, Solo
<1>. QED
  BY <1>0, <1>1, <1>2, <1>3, <1>4, <1>5, <1>7, <1>8, <1>9, <1>10, Steps

\* A user has kept a way in, when the password or an account is still his.
LEMMA SequentialStep == IInv /\ [Next]_vars => Sequential'
<1>. SUFFICES ASSUME IInv, [Next]_vars, alone' PROVE Sequential'
  BY DEF Sequential
<1>0. /\ TypeOK /\ Carried /\ Solo /\ Sequential
  BY DEF IInv
<1>1. ASSUME UNCHANGED <<users, passwords, accounts, spent>>, alone
      PROVE  Sequential'
  BY <1>0, <1>1 DEF Sequential, WayIn, Linked, StateUsedOnce
<1>2. ASSUME UNCHANGED spent, alone,
             \A u \in users' :
               u \in passwords' \/ \E i \in DOMAIN accounts' :
                                     accounts'[i].user = u
      PROVE  Sequential'
  BY <1>0, <1>2 DEF Sequential, WayIn, Linked, StateUsedOnce
<1>3. alone => \A u \in users : u \in passwords \/ \E i \in DOMAIN accounts :
                                                    accounts[i].user = u
  BY <1>0 DEF Sequential, WayIn, Linked
<1>4. ASSUME NEW p \in Procs, TakeState(p) PROVE Sequential'
  <2>1. /\ req[p].phase = "read" /\ UNCHANGED <<tables, alone>>
        /\ \A k \in StateIds : k # req[p].state => spent'[k] = spent[k]
        /\ \A k \in StateIds : spent[k] = 0 => spent'[k] < 2
    BY <1>0, <1>4, TakeFacts
  <2>2. spent[req[p].state] = 0
    BY <1>0, <2>1 DEF Solo
  <2>3. StateUsedOnce'
    BY <1>0, <2>1, <2>2 DEF Sequential, StateUsedOnce
  <2>. QED
    BY <1>0, <2>1, <2>3 DEF Sequential, WayIn, Linked, tables, user
<1>5. ASSUME NEW p \in Procs, Commits(p) PROVE Sequential'
  <2>1. /\ Writes(req[p])
        /\ \A u \in users' \ users : u = req[p].user /\ req[p].row = 0
        /\ UNCHANGED <<passwords, spent, alone>>
    BY <1>0, <1>5, CommitFacts
  <2>2. ASSUME NEW u \in users'
        PROVE  u \in passwords' \/ \E i \in DOMAIN accounts' :
                                     accounts'[i].user = u
    <3>1. CASE u \in users
      BY <1>3, <2>1, <3>1 DEF Writes
    <3>2. CASE u \notin users
      BY <2>1, <3>2 DEF Writes
    <3>. QED
      BY <3>1, <3>2
  <2>. QED
    BY <1>2, <2>1, <2>2
<1>6. ASSUME NEW p \in Procs, CommitUnlink(p) PROVE Sequential'
  <2>1. /\ req[p].phase = "unlink" /\ req[p].id \in DOMAIN accounts
        /\ DOMAIN accounts' = DOMAIN accounts \ {req[p].id}
        /\ \A i \in DOMAIN accounts' : accounts'[i] = accounts[i]
        /\ UNCHANGED <<users, passwords, spent, alone>>
    BY <1>0, <1>6, UnlinkFacts DEF user
  <2>2. /\ accounts[req[p].id].user = req[p].user
        /\ \/ req[p].user \in passwords
           \/ \E j \in DOMAIN accounts :
                j # req[p].id /\ accounts[j].user = req[p].user
    BY <1>0, <2>1 DEF Solo
  <2>3. ASSUME NEW u \in users
        PROVE  u \in passwords \/ \E i \in DOMAIN accounts' :
                                    accounts'[i].user = u
    <3>1. CASE u = req[p].user
      BY <2>1, <2>2, <3>1
    <3>2. CASE u # req[p].user
      BY <1>3, <2>1, <2>2, <3>2
    <3>. QED
      BY <3>1, <3>2
  <2>. QED
    BY <1>2, <2>1, <2>3
<1>7. ASSUME NEW p \in Procs, CommitSetPassword(p) PROVE Sequential'
  BY <1>2, <1>3, <1>7 DEF CommitSetPassword
<1>8. CASE Elsewhere
  <2>1. /\ users' \subseteq users /\ passwords' = passwords \cap users'
        /\ DOMAIN accounts' =
             {i \in DOMAIN accounts : accounts[i].user \in users'}
        /\ \A i \in DOMAIN accounts' : accounts'[i] = accounts[i]
        /\ UNCHANGED <<spent, alone>>
    BY <1>0, <1>8, ElsewhereFacts
  <2>. QED
    BY <1>2, <1>3, <2>1
<1>9. ASSUME NEW p \in Procs, NEW r,
             Starts(p, r) \/ Checks(p, r) \/ Abort(p)
      PROVE  Sequential'
  <2>1. alone
    BY <1>9 DEF Starts, Checks, Abort, Begins
  <2>2. UNCHANGED <<users, passwords, accounts, spent>>
    BY <1>9 DEF Starts, Checks, Abort, tables, user
  <2>. QED
    BY <1>1, <2>1, <2>2
<1>10. ASSUME \/ \E s \in State : Authorize(s)
              \/ \E k \in StateIds : StateExpires(k)
              \/ UNCHANGED vars
       PROVE  Sequential'
  BY <1>1, <1>10 DEF Authorize, StateExpires, vars, user
<1>. QED
  BY <1>0, <1>4, <1>5, <1>6, <1>7, <1>8, <1>9, <1>10, Steps

LEMMA InvInit == Init => IInv
<1>. SUFFICES ASSUME Init PROVE IInv
  OBVIOUS
<1>0. /\ MaxStates \in Nat /\ MaxRows \in Nat /\ 0 \in 0 .. MaxStates
      /\ 0 \in 0 .. MaxRows /\ 0 \in 0 .. 2
  BY BoundAssumption
<1>1. req \in [Procs -> Req] /\ \A p \in Procs : req[p] = Idle
  BY IdleType DEF Init
<1>2. DOMAIN accounts = {} /\ DOMAIN states = {}
  BY DEF Init
<1>3. spent \in [StateIds -> 0 .. 2] /\ \A k \in StateIds : spent[k] = 0
  BY <1>0 DEF Init
<1>4. /\ accounts \in [DOMAIN accounts -> Account]
      /\ states \in [DOMAIN states -> State]
  BY DEF Init
<1>5. TypeOK
  BY <1>0, <1>1, <1>2, <1>3, <1>4, InitialAssumption DEF Init, TypeOK
<1>6. Carried /\ Unspent /\ Solo
  BY <1>1, <1>2, <1>3, IdleType DEF Carried, Unspent, Solo
<1>7. Sequential
  BY <1>0, <1>3 DEF Init, Sequential, WayIn, StateUsedOnce
<1>. QED
  BY <1>5, <1>6, <1>7 DEF IInv

-------------------------------------------------------------------------------
(* Theorems.                                                               *)

\* The invariant holds of every behaviour, for any number of requests in flight.
THEOREM Invariance == Spec => []IInv
<1>1. Init => IInv
  BY InvInit
<1>2. IInv /\ [Next]_vars => IInv'
  BY TypeStep, CarriedStep, UnspentStep, SoloStep, SequentialStep DEF IInv
<1>. QED
  BY <1>1, <1>2, PTL DEF Spec

\* Callbacks, links, unlinks and deletions leave every account with a user who
\* exists and a row of its own, however they interleave.
THEOREM TypeCorrect == Spec => []TypeOK
<1>1. IInv => TypeOK
  BY DEF IInv
<1>. QED
  BY <1>1, Invariance, PTL

\* Requests that come one at a time leave every user a way in (_find_or_create_user,
\* link_provider, unlink_provider) and use each state once (handle_callback).
THEOREM OneAtATime == Spec => []Sequential
<1>1. IInv => Sequential
  BY DEF IInv
<1>. QED
  BY <1>1, Invariance, PTL

KeptStep ==
  \A id \in DOMAIN accounts \cap DOMAIN accounts' :
    /\ accounts'[id].user = accounts[id].user
    /\ accounts[id].renew => accounts'[id].renew

\* An identity is never handed to another user while it is linked, and its refresh
\* token is never overwritten by an answer that has none (_apply_token_fields).
THEOREM LinksKept == Spec => LinkKept
<1>1. IInv /\ [Next]_vars => [KeptStep]_vars
  <2>. SUFFICES ASSUME IInv, [Next]_vars PROVE KeptStep
    OBVIOUS
  <2>0. TypeOK /\ Carried
    BY DEF IInv
  <2>1. ASSUME NEW p \in Procs, Commits(p) PROVE KeptStep
    BY <2>0, <2>1, CommitFacts DEF Writes, KeptStep
  <2>2. ASSUME NEW p \in Procs, CommitUnlink(p) PROVE KeptStep
    BY <2>0, <2>2, UnlinkFacts DEF KeptStep
  <2>3. CASE Elsewhere
    BY <2>0, <2>3, ElsewhereFacts DEF KeptStep
  <2>4. ASSUME NEW p \in Procs,
               \/ \E r : Starts(p, r) \/ Checks(p, r)
               \/ TakeState(p) \/ CommitSetPassword(p) \/ Abort(p)
        PROVE  KeptStep
    BY <2>4 DEF Starts, Checks, tables, TakeState, CommitSetPassword, Abort,
                KeptStep
  <2>5. ASSUME \/ \E s \in State : Authorize(s)
               \/ \E k \in StateIds : StateExpires(k)
               \/ UNCHANGED vars
        PROVE  KeptStep
    BY <2>5 DEF Authorize, StateExpires, vars, KeptStep
  <2>. QED
    BY <2>0, <2>1, <2>2, <2>3, <2>4, <2>5, Steps
<1>. QED
  BY <1>1, Invariance, PTL DEF Spec, LinkKept, KeptStep

OutStep ==
  \A u \in users \ active :
    Quiet(u) /\ u \in users' \ active' =>
      Quiet(u)' /\ \A s \in opened' \ opened : s.user # u

\* Who is suspended while no callback is past its reads for him is let in by none:
\* no session is opened for him, by identity or by address (handle_callback).
THEOREM SuspendedKeptOut == Spec => SuspendedOpensNone
<1>1. IInv /\ [Next]_vars => [OutStep]_vars
  <2>. SUFFICES ASSUME IInv, [Next]_vars,
                       NEW u \in users \ active, Quiet(u)
                PROVE  Quiet(u)' /\ \A s \in opened' \ opened : s.user # u
    BY DEF OutStep
  <2>0. TypeOK /\ Carried /\ Idle.phase = "idle"
    BY IdleType DEF IInv
  <2>1. ASSUME NEW p \in Procs, NEW r \in Req, Move(p, r),
               ~(r.phase = "signIn" /\ r.user = u)
        PROVE  Quiet(u)'
    <3>1. req'[p] = r /\ \A q \in Procs : q # p => req'[q] = req[q]
      BY <2>0, <2>1, MoveFacts
    <3>. QED
      BY <2>1, <3>1 DEF Quiet
  <2>2. ASSUME req' = req PROVE Quiet(u)'
    BY <2>2 DEF Quiet
  <2>3. ASSUME NEW p \in Procs, NEW r, Starts(p, r) \/ Checks(p, r)
        PROVE  Quiet(u)' /\ opened' = opened
    <3>1. ~(r.phase = "signIn" /\ r.user = u)
      BY <2>3 DEF Starts, Checks, LetIn
    <3>. QED
      BY <2>1, <2>3, <3>1 DEF Starts, Checks, tables
  <2>4. ASSUME NEW p \in Procs, TakeState(p)
        PROVE  Quiet(u)' /\ opened' = opened
    <3>1. PICK r \in Req : Move(p, r) /\ r.phase = "taken"
      BY <2>0, <2>4, TakeFacts
    <3>. QED
      BY <2>1, <2>4, <3>1 DEF TakeState
  <2>5. ASSUME NEW p \in Procs, Commits(p)
        PROVE  Quiet(u)' /\ \A s \in opened' \ opened : s.user # u
    <3>1. /\ Move(p, Idle)
          /\ \A s \in opened' \ opened :
               req[p].phase = "signIn" /\ s.user = req[p].user
      BY <2>0, <2>5, CommitFacts
    <3>2. Quiet(u)'
      BY <2>0, <2>1, <3>1, IdleType
    <3>. QED
      BY <3>1, <3>2 DEF Quiet
  <2>6. ASSUME NEW p \in Procs,
               CommitUnlink(p) \/ CommitSetPassword(p) \/ Abort(p)
        PROVE  Quiet(u)' /\ opened' = opened
    <3>1. Move(p, Idle) /\ opened' = opened
      BY <2>6 DEF CommitUnlink, CommitSetPassword, Abort
    <3>. QED
      BY <2>0, <2>1, <3>1, IdleType
  <2>7. ASSUME \/ \E s \in State : Authorize(s)
               \/ \E k \in StateIds : StateExpires(k)
               \/ Elsewhere \/ UNCHANGED vars
        PROVE  req' = req /\ opened' = opened
    BY <2>7 DEF Authorize, StateExpires, Elsewhere, vars
  <2>. QED
    BY <2>0, <2>2, <2>3, <2>4, <2>5, <2>6, <2>7, Steps
<1>. QED
  BY <1>1, Invariance, PTL DEF Spec, SuspendedOpensNone, OutStep
=============================================================================
