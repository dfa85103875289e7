---------------------------- MODULE SessionsProofs ----------------------------
(***************************************************************************)
(* What holds of Sessions for every set of users, tenants and requests,    *)
(* and for every lifetime of the tokens: its type, the inductive invariant *)
(* IInv and the safety invariants that follow from it, and that session    *)
(* rows, refresh tokens and access tokens implement Lifecycle.             *)
(***************************************************************************)
EXTENDS Sessions, TLAPS

(* Requests are well typed however they are built. *)

LEMMA NewReqType ==
  ASSUME NEW kind \in {"idle", "issue", "setup", "listed", "close", "mfa"},
         NEW op \in Operations \cup {"none"}, NEW u \in Users \cup {NoUser}
  PROVE  NewReq(kind, op, u) \in Req
BY DEF NewReq, Req

LEMMA IssueType ==
  ASSUME NEW op \in Operations, NEW u \in Users,
         NEW t \in Tenants \cup {NoTenant}, NEW d \in Devices \cup {NoDevice},
         NEW S \in SUBSET Ids
  PROVE  /\ Issue(op, u, t, d, S) \in Req
         /\ Issue(op, u, t, d, S).kind = "issue"
BY DEF Issue, NewReq, Req

LEMMA ClosingType ==
  ASSUME TypeOK,
         NEW kind \in {"listed", "close"}, NEW op \in Operations,
         NEW u \in Users, NEW S \in SUBSET DOMAIN rows
  PROVE  /\ Closing(kind, op, u, S) \in Req
         /\ Closing(kind, op, u, S).kind # "setup"
<1>1. Jtis(S) \in SUBSET Ids
  BY DEF TypeOK, Jtis, Row
<1>2. S \in SUBSET Ids
  BY DEF TypeOK
<1>. QED  BY <1>1, <1>2 DEF Closing, NewReq, Req

\* A Begin action leaves everything but its slot alone.
LEMMA StartType ==
  ASSUME TypeOK, NEW p \in Procs, NEW r \in Req, Start(p, r),
         r.kind = "setup" => r.tenant \in Tenants,
         UNCHANGED <<now, fresh, account, tenancy, rows, tokens, history>>
  PROVE  TypeOK'
<1>1. /\ req' \in [Procs -> Req]
      /\ \A q \in Procs : req'[q].kind = "setup" => req'[q].tenant \in Tenants
  BY DEF TypeOK, Start
<1>. QED
  BY <1>1 DEF TypeOK, account, tenancy, tokens, history

LEMMA FinishType ==
  ASSUME TypeOK, NEW p \in Procs, Finish(p)
  PROVE  /\ req' \in [Procs -> Req]
         /\ \A q \in Procs : req'[q].kind = "setup" => req'[q].tenant \in Tenants
BY NewReqType DEF TypeOK, Finish, IdleReq, NewReq

LEMMA RevokedType ==
  ASSUME TypeOK, NEW S \in SUBSET Ids
  PROVE  Revoked(S) \in [DOMAIN rows -> Row]
<1>1. ASSUME NEW r \in Row
      PROVE  [r EXCEPT !.revoked = TRUE] \in Row
  BY DEF Row
<1>. QED
  BY <1>1 DEF TypeOK, Revoked

LEMMA MintType ==
  ASSUME TypeOK, NEW u \in Users, NEW t \in Tenants \cup {NoTenant},
         fresh <= MaxId, MintAccess(u, t)
  PROVE  /\ access' \in [DOMAIN access' -> [user : Users, exp : Nat,
                                            tenant : Tenants \cup {NoTenant}]]
         /\ DOMAIN access' \subseteq Ids
BY BoundAssumption, TimeAssumption DEF TypeOK, MintAccess, Ids

-------------------------------------------------------------------------------
(* Type correctness: one step per action.                                  *)

LEMMA TypeInit == Init => TypeOK
<1>. SUFFICES ASSUME Init PROVE TypeOK
  OBVIOUS
<1>1. IdleReq \in Req /\ IdleReq.kind = "idle"
  BY NewReqType DEF IdleReq, NewReq
<1>. QED
  BY <1>1, InitialAssumption DEF Init, TypeOK, Ids

LEMMA RequestType ==
  ASSUME TypeOK, NEW p \in Procs, Request(p)
  PROVE  TypeOK'
<1>live. \A u : ActiveSessions(u) \in SUBSET DOMAIN rows
  BY DEF ActiveSessions
<1>dev. \A u, d : DeviceSessions(u, d) \in SUBSET Ids
  BY DEF DeviceSessions, ActiveSessions, TypeOK
<1>row. \A i \in DOMAIN rows :
           /\ i \in Ids /\ rows[i].user \in Users /\ rows[i].token \in Ids
           /\ rows[i].tenant \in Tenants \cup {NoTenant}
           /\ rows[i].device \in Devices \cup {NoDevice}
  BY DEF TypeOK, Row
<1>tok. \A k : GetByRefreshToken(k) \subseteq DOMAIN rows
  BY DEF GetByRefreshToken
<1>rot. ASSUME NEW op \in Operations, NEW i \in DOMAIN rows,
               NEW t \in Tenants \cup {NoTenant}
        PROVE  /\ Rotate(op, i, t) \in Req
               /\ Rotate(op, i, t).kind = "issue"
  BY <1>row DEF Rotate, Issue, NewReq, Req
<1>1. ASSUME NEW u \in Users, NEW d \in Devices \cup {NoDevice},
             BeginLogin(p, u, d)
      PROVE  TypeOK'
  <2>1. \A t \in Tenants \cup {NoTenant} :
          /\ Issue("login", u, t, d, DeviceSessions(u, d)) \in Req
          /\ Issue("login", u, t, d, DeviceSessions(u, d)).kind = "issue"
    BY <1>dev, IssueType DEF Operations
  <2>2. /\ [Issue("login", u, NoTenant, d, {}) EXCEPT !.bearer = FALSE] \in Req
        /\ [Issue("login", u, NoTenant, d, {}) EXCEPT !.bearer = FALSE].kind
             = "issue"
    BY DEF Issue, NewReq, Req, Operations
  <2>. QED
    BY <1>1, <2>1, <2>2, StartType DEF BeginLogin
<1>2. ASSUME NEW c \in challenges, NEW d \in Devices \cup {NoDevice},
             BeginVerifyMfa(p, c, d)
      PROVE  TypeOK'
  <2>1. c.user \in Users /\ c.tenant \in Tenants
    BY DEF TypeOK
  <2>2. /\ Issue("verifyMfa", c.user, c.tenant, d, DeviceSessions(c.user, d)) \in Req
        /\ Issue("verifyMfa", c.user, c.tenant, d, DeviceSessions(c.user, d)).kind
             = "issue"
    <3>1. DeviceSessions(c.user, d) \in SUBSET Ids /\ "verifyMfa" \in Operations
      BY <1>dev DEF Operations
    <3>. QED
      BY <2>1, <3>1, IssueType
  <2>. QED
    BY <1>2, <2>2, StartType DEF BeginVerifyMfa
<1>3. ASSUME NEW k \in Ids, BeginRefresh(p, k) PROVE TypeOK'
  BY <1>3, <1>row, <1>tok, <1>rot, StartType DEF BeginRefresh, Operations
<1>4. ASSUME NEW k \in Ids, BeginLogout(p, k) PROVE TypeOK'
  BY <1>4, <1>row, <1>tok, ClosingType, StartType DEF BeginLogout, Operations
<1>5. ASSUME NEW k \in Ids, NEW t \in Tenants, BeginSelectTenant(p, k, t)
      PROVE  TypeOK'
  BY <1>5, <1>tok, <1>rot, StartType DEF BeginSelectTenant, Operations
<1>set. ASSUME NEW op \in {"setupCreate", "setupJoin"}, NEW i \in DOMAIN rows,
               NEW t \in Tenants
        PROVE  /\ [NewReq("setup", op, rows[i].user) EXCEPT
                      !.tenant = t, !.sid = i] \in Req
               /\ [NewReq("setup", op, rows[i].user) EXCEPT
                      !.tenant = t, !.sid = i].tenant \in Tenants
  BY <1>row DEF NewReq, Operations, Req
<1>6. ASSUME NEW k \in Ids, NEW t \in Tenants, BeginSetupCreate(p, k, t)
      PROVE  TypeOK'
  BY <1>6, <1>tok, <1>set, StartType DEF BeginSetupCreate
<1>7. ASSUME NEW k \in Ids, NEW t \in Tenants, BeginSetupJoin(p, k, t)
      PROVE  TypeOK'
  BY <1>7, <1>tok, <1>set, StartType DEF BeginSetupJoin
<1>8. ASSUME NEW u \in Users, NEW i \in Ids, BeginRevokeSession(p, u, i)
      PROVE  TypeOK'
  BY <1>8, <1>live, ClosingType, StartType DEF BeginRevokeSession, Operations
<1>9. ASSUME NEW u \in Users, BeginRevokeAll(p, u) PROVE TypeOK'
  BY <1>9, <1>live, ClosingType, StartType DEF BeginRevokeAll, Operations
<1>10. ASSUME NEW u \in Users, BeginDeactivate(p, u) PROVE TypeOK'
  BY <1>10, <1>live, ClosingType, StartType DEF BeginDeactivate, Operations
<1>11. ASSUME NEW u \in Users, BeginChangePassword(p, u) PROVE TypeOK'
  <2>1. /\ NewReq("listed", "changePassword", u) \in Req
        /\ NewReq("listed", "changePassword", u).kind # "setup"
    BY NewReqType DEF Operations, NewReq
  <2>. QED  BY <1>11, <2>1, StartType DEF BeginChangePassword
<1>12. ASSUME NEW u \in Users, NEW op \in {"enableMfa", "disableMfa"},
              BeginMfa(p, op, u)
       PROVE  TypeOK'
  <2>1. NewReq("mfa", op, u) \in Req /\ NewReq("mfa", op, u).kind # "setup"
    BY NewReqType DEF Operations, NewReq
  <2>. QED  BY <1>12, <2>1, StartType DEF BeginMfa
<1>. QED
  BY <1>1, <1>2, <1>3, <1>4, <1>5, <1>6, <1>7, <1>8, <1>9, <1>10, <1>11, <1>12
  DEF Request

LEMMA ProceedType ==
  ASSUME TypeOK, NEW p \in Procs, Proceed(p)
  PROVE  TypeOK'
<1>r. req[p] \in Req
  BY DEF TypeOK
<1>f. Finish(p) =>
        /\ req' \in [Procs -> Req]
        /\ \A q \in Procs : req'[q].kind = "setup" => req'[q].tenant \in Tenants
  BY FinishType
<1>1. ASSUME NEW j \in Ids, BlacklistOne(p, j) PROVE TypeOK'
  <2>1. [req[p] EXCEPT !.todo = @ \ {j}] \in Req
    BY <1>r DEF Req
  <2>2. /\ req' \in [Procs -> Req]
        /\ \A q \in Procs : req'[q].kind = "setup" => req'[q].tenant \in Tenants
    BY <1>1, <2>1 DEF BlacklistOne, TypeOK, Req
  <2>3. bl' \in [Ids -> Nat]
    BY <1>1, TimeAssumption DEF BlacklistOne, BlacklistTTL, TypeOK
  <2>. QED
    BY <1>1, <2>2, <2>3 DEF BlacklistOne, TypeOK, account, tenancy, history
<1>2. ASSUME Relist(p) PROVE TypeOK'
  <2>1. ActiveSessions(req[p].user) \in SUBSET Ids
    BY DEF ActiveSessions, TypeOK
  <2>2. [req[p] EXCEPT !.kind = "close", !.mark = fresh,
                       !.revoke = ActiveSessions(req[p].user)] \in Req
    BY <1>r, <2>1 DEF Req, TypeOK
  <2>3. /\ req' \in [Procs -> Req]
        /\ \A q \in Procs : req'[q].kind = "setup" => req'[q].tenant \in Tenants
    BY <1>2, <2>2 DEF Relist, TypeOK, Req
  <2>. QED
    BY <1>2, <2>3 DEF Relist, TypeOK, account, tenancy, tokens, history
<1>3. ASSUME CommitIssue(p) PROVE TypeOK'
  <2>1. /\ fresh \in Ids /\ req[p].user \in Users
        /\ req[p].tenant \in Tenants \cup {NoTenant}
        /\ req[p].device \in Devices \cup {NoDevice}
        /\ req[p].parent \in Ids \cup {0} /\ req[p].revoke \in SUBSET Ids
    BY <1>3, <1>r, BoundAssumption DEF CommitIssue, TypeOK, Req, Ids
  <2>2. [user |-> req[p].user, tenant |-> req[p].tenant,
         device |-> req[p].device, token |-> NewToken(req[p]),
         jti |-> IF req[p].bearer THEN fresh ELSE 0, exp |-> now + RefreshTTL,
         revoked |-> FALSE, parent |-> req[p].parent] \in Row
    BY <2>1, TimeAssumption DEF Row, NewToken, TypeOK
  <2>3. /\ rows' \in [DOMAIN rows' -> Row] /\ DOMAIN rows' \subseteq Ids
    BY <1>3, <2>1, <2>2, RevokedType DEF CommitIssue, TypeOK
  <2>4. /\ access' \in [DOMAIN access' -> [user : Users, exp : Nat,
                                           tenant : Tenants \cup {NoTenant}]]
        /\ DOMAIN access' \subseteq Ids
    BY <1>3, <2>1, MintType DEF CommitIssue, TypeOK
  <2>5. fresh' \in Nat \ {0}
    BY <1>3 DEF CommitIssue, TypeOK
  <2>6. UNCHANGED <<now, account, tenancy, bl, challenges, history>> /\ Finish(p)
    BY <1>3 DEF CommitIssue
  <2>. QED
    BY <1>f, <2>3, <2>4, <2>5, <2>6 DEF TypeOK, account, tenancy, history
<1>4. ASSUME CommitSetup(p) PROVE TypeOK'
  <2>1. /\ fresh \in Ids /\ req[p].user \in Users
        /\ req[p].tenant \in Tenants \cup {NoTenant}
    BY <1>4, <1>r, BoundAssumption DEF CommitSetup, TypeOK, Req, Ids
  <2>t. req[p].tenant \in Tenants
    BY <1>4 DEF CommitSetup, TypeOK
  <2>2. \A row \in Row : Overwrite(row, req[p].tenant) \in Row
    BY <2>1 DEF Overwrite, Row
  <2>3. /\ rows' \in [DOMAIN rows' -> Row] /\ DOMAIN rows' \subseteq Ids
    BY <1>4, <2>1, <2>2 DEF CommitSetup, TypeOK
  <2>4. /\ access' \in [DOMAIN access' -> [user : Users, exp : Nat,
                                           tenant : Tenants \cup {NoTenant}]]
        /\ DOMAIN access' \subseteq Ids
    BY <1>4, <2>1, MintType DEF CommitSetup, TypeOK
  <2>5. /\ fresh' \in Nat \ {0} /\ tenants' \subseteq Tenants
        /\ members' \subseteq Users \X Tenants /\ members \subseteq members'
        /\ invites' \subseteq Users \X Tenants
        /\ granted' \subseteq Users \X Tenants
    BY <1>4, <2>1, <2>t DEF CommitSetup, TypeOK
  <2>6. UNCHANGED <<now, account, suspended, bl, challenges, history>> /\ Finish(p)
    BY <1>4 DEF CommitSetup
  <2>. QED
    BY <1>f, <2>3, <2>4, <2>5, <2>6 DEF TypeOK, account, history
<1>5. ASSUME CommitClose(p) PROVE TypeOK'
  <2>1. /\ req[p].user \in Users /\ req[p].revoke \in SUBSET Ids
        /\ req[p].jtis \in SUBSET Ids
    BY <1>5, <1>r DEF CommitClose, TypeOK, Req
  <2>3. /\ rows' \in [DOMAIN rows' -> Row] /\ DOMAIN rows' \subseteq Ids
    BY <1>5, <2>1, RevokedType DEF CommitClose, TypeOK
  <2>. QED
    BY <1>5, <1>f, <2>1, <2>3 DEF CommitClose, TypeOK, tenancy, tokens, history
<1>6. ASSUME Abort(p) PROVE TypeOK'
  BY <1>6, <1>f DEF Abort, TypeOK, account, tenancy, tokens, history
<1>7. ASSUME CommitMfa(p) PROVE TypeOK'
  BY <1>7, <1>f DEF CommitMfa, TypeOK, tenancy, tokens, history
<1>. QED
  BY <1>1, <1>2, <1>3, <1>4, <1>5, <1>6, <1>7 DEF Proceed

LEMMA AdministerType ==
  ASSUME TypeOK, Administer
  PROVE  TypeOK'
<1>. USE DEF TypeOK, tenancy, tokens, history
<1>c. ASSUME NEW u \in Users, NEW t \in Tenants, Challenge(u, t) PROVE TypeOK'
  BY <1>c, TimeAssumption DEF Challenge, account
<1>1. ASSUME NEW u \in Users, Activate(u) PROVE TypeOK'
  BY <1>1 DEF Activate
<1>2. ASSUME NEW u \in Users, DeleteUser(u) PROVE TypeOK'
  BY <1>2 DEF DeleteUser
<1>3. ASSUME NEW u \in Users, SetupMfa(u) PROVE TypeOK'
  <2>1. u \in users
    BY <1>3 DEF SetupMfa, Authenticated, Accepts
  <2>. QED  BY <1>3, <2>1 DEF SetupMfa
<1>4. ASSUME NEW u \in Users, NEW t \in Tenants, LoginChallenge(u, t)
      PROVE  TypeOK'
  BY <1>4, <1>c DEF LoginChallenge
<1>5. ASSUME NEW u \in Users, NEW t \in Tenants, AddMember(u, t) PROVE TypeOK'
  BY <1>5 DEF AddMember, account
<1>6. ASSUME NEW u \in Users, NEW t \in Tenants, RemoveMember(u, t) PROVE TypeOK'
  BY <1>6 DEF RemoveMember, DropStatus, account
<1>7. ASSUME NEW u \in Users, NEW t \in Tenants, SetMemberStatus(u, t)
      PROVE  TypeOK'
  BY <1>7 DEF SetMemberStatus, account
<1>8. ASSUME NEW k \in Ids, NEW t \in Tenants, SelectTenantChallenge(k, t)
       PROVE  TypeOK'
  BY <1>8, <1>c DEF SelectTenantChallenge, GetByRefreshToken, Row
<1>. QED
  BY <1>1, <1>2, <1>3, <1>4, <1>5, <1>6, <1>7, <1>8 DEF Administer

LEMMA TypeStep == TypeOK /\ [Next]_vars => TypeOK'
<1>1. TypeOK /\ Tick => TypeOK'
  BY DEF Tick, TypeOK, account, tenancy, tokens, history
<1>2. TypeOK /\ UNCHANGED vars => TypeOK'
  BY DEF vars, TypeOK, account, tenancy, tokens, history
<1>. QED
  BY <1>1, <1>2, RequestType, ProceedType, AdministerType DEF Next

\* The tables, the cache and the requests keep their types in every run.
THEOREM TypeCorrect == Spec => []TypeOK
BY TypeInit, TypeStep, PTL DEF Spec

-------------------------------------------------------------------------------
(* The inductive invariant and the safety invariants.                      *)

\* What every request knows when it starts, whichever route it came through.
WellStarted(r) ==
  /\ r.jtis = r.todo /\ r.jtis \subseteq Jtis(DOMAIN rows)
  /\ r.kind = "issue" /\ r.tenant # NoTenant => <<r.user, r.tenant>> \in granted
  /\ r.kind = "setup" => r.sid \in DOMAIN rows /\ rows[r.sid].user = r.user
  /\ r.kind # "setup" => r.sid = 0
  /\ r.kind \in {"issue", "setup"} =>
       \/ r.user \in active
       \/ ActiveSessions(r.user) # {}
       \/ \E c \in challenges : c.user = r.user /\ now <= c.exp
  /\ r.kind = "close" => r.op # "deactivate"

LEMMA RequestStarts ==
  ASSUME TypeOK, TenantsEarned, SessionTenantGranted, NEW p \in Procs, Request(p)
  PROVE  /\ UNCHANGED <<now, fresh, account, tenancy, rows, tokens, history>>
         /\ \E r : WellStarted(r) /\ Start(p, r)
<1>. DEFINE Frame == UNCHANGED <<now, fresh, account, tenancy, rows, tokens, history>>
            Goal == Frame /\ \E r : WellStarted(r) /\ Start(p, r)
<1>act. \A i \in DOMAIN rows : Live(i) => ActiveSessions(rows[i].user) # {}
  BY DEF ActiveSessions
<1>tok. \A k : \A i \in GetByRefreshToken(k) : i \in DOMAIN rows /\ Live(i)
  BY DEF GetByRefreshToken
<1>jti. \A S \in SUBSET DOMAIN rows : Jtis(S) \subseteq Jtis(DOMAIN rows)
  BY DEF Jtis
<1>sub. \A u : ActiveSessions(u) \in SUBSET DOMAIN rows
  BY DEF ActiveSessions
<1>rot. ASSUME NEW op, NEW i \in DOMAIN rows, Live(i), NEW t \in Tenants \cup {NoTenant},
               t # NoTenant => <<rows[i].user, t>> \in granted
        PROVE  WellStarted(Rotate(op, i, t))
  BY <1>rot, <1>act DEF WellStarted, Rotate, Issue, NewReq
<1>set. ASSUME NEW op, NEW i \in DOMAIN rows, Live(i), NEW t
        PROVE  WellStarted([NewReq("setup", op, rows[i].user) EXCEPT
                              !.tenant = t, !.sid = i])
  BY <1>set, <1>act DEF WellStarted, NewReq
<1>cls. ASSUME NEW kind \in {"listed", "close"}, NEW op, NEW u,
               NEW S \in SUBSET DOMAIN rows, kind = "close" => op # "deactivate"
        PROVE  WellStarted(Closing(kind, op, u, S))
  BY <1>cls, <1>jti DEF WellStarted, Closing, NewReq
<1>1. ASSUME NEW u \in Users, NEW d \in Devices \cup {NoDevice},
             BeginLogin(p, u, d)
      PROVE  Goal
  <2>1. u \in active
    BY <1>1 DEF BeginLogin, MayLogIn
  <2>2. \A t \in Tenants : Resolves(u, t) => <<u, t>> \in granted
    BY DEF Resolves, TenantsOf, TenantsEarned
  <2>3. /\ WellStarted(Issue("login", u, NoTenant, d, DeviceSessions(u, d)))
        /\ WellStarted([Issue("login", u, NoTenant, d, {}) EXCEPT !.bearer = FALSE])
    BY <2>1 DEF WellStarted, Issue, NewReq
  <2>4. \A t \in Tenants : Resolves(u, t) =>
          WellStarted(Issue("login", u, t, d, DeviceSessions(u, d)))
    BY <2>1, <2>2 DEF WellStarted, Issue, NewReq
  <2>. QED
    BY <1>1, <2>3, <2>4 DEF BeginLogin
<1>2. ASSUME NEW c \in challenges, NEW d \in Devices \cup {NoDevice},
             BeginVerifyMfa(p, c, d)
      PROVE  Goal
  <2>1. /\ <<c.user, c.tenant>> \in granted /\ now <= c.exp
        /\ Frame
        /\ Start(p, Issue("verifyMfa", c.user, c.tenant, d, DeviceSessions(c.user, d)))
    BY <1>2 DEF BeginVerifyMfa, TenantsEarned
  <2>2. WellStarted(Issue("verifyMfa", c.user, c.tenant, d, DeviceSessions(c.user, d)))
    BY <2>1 DEF WellStarted, Issue, NewReq
  <2>. QED
    BY <2>1, <2>2
<1>3. ASSUME NEW k \in Ids, BeginRefresh(p, k) PROVE Goal
  <2>1. PICK i \in GetByRefreshToken(k) : Start(p, Rotate("refresh", i, rows[i].tenant))
    BY <1>3 DEF BeginRefresh
  <2>2. WellStarted(Rotate("refresh", i, rows[i].tenant))
    BY <1>tok, <1>rot DEF SessionTenantGranted, TypeOK, Row
  <2>. QED
    BY <1>3, <2>1, <2>2 DEF BeginRefresh
<1>4. ASSUME NEW k \in Ids, BeginLogout(p, k) PROVE Goal
  <2>1. PICK i \in GetByRefreshToken(k) :
          Start(p, Closing("close", "logout", rows[i].user, {i}))
    BY <1>4 DEF BeginLogout
  <2>2. WellStarted(Closing("close", "logout", rows[i].user, {i}))
    BY <1>tok, <1>cls
  <2>. QED
    BY <1>4, <2>1, <2>2 DEF BeginLogout
<1>5. ASSUME NEW k \in Ids, NEW t \in Tenants, BeginSelectTenant(p, k, t)
      PROVE  Goal
  <2>1. PICK i \in GetByRefreshToken(k) :
          MayEnter(rows[i].user, t) /\ Start(p, Rotate("selectTenant", i, t))
    BY <1>5 DEF BeginSelectTenant
  <2>2. <<rows[i].user, t>> \in granted
    BY <2>1 DEF MayEnter, TenantsEarned
  <2>3. WellStarted(Rotate("selectTenant", i, t))
    BY <2>2, <1>tok, <1>rot
  <2>. QED
    BY <1>5, <2>1, <2>3 DEF BeginSelectTenant
<1>6. ASSUME NEW k \in Ids, NEW t \in Tenants,
             BeginSetupCreate(p, k, t) \/ BeginSetupJoin(p, k, t)
      PROVE  Goal
  BY <1>6, <1>tok, <1>set DEF BeginSetupCreate, BeginSetupJoin
<1>7. ASSUME NEW u \in Users, NEW i \in Ids, BeginRevokeSession(p, u, i)
      PROVE  Goal
  <2>1. WellStarted(Closing("close", "revokeSession", u, {i}))
    BY <1>7, <1>sub, <1>cls DEF BeginRevokeSession
  <2>. QED
    BY <1>7, <2>1 DEF BeginRevokeSession
<1>8. ASSUME NEW u \in Users, BeginRevokeAll(p, u) \/ BeginDeactivate(p, u)
      PROVE  Goal
  <2>1. \A op : WellStarted(Closing("listed", op, u, ActiveSessions(u)))
    BY <1>sub, <1>cls
  <2>. QED
    BY <1>8, <2>1 DEF BeginRevokeAll, BeginDeactivate
<1>9. ASSUME NEW u \in Users, BeginChangePassword(p, u) PROVE Goal
  <2>1. WellStarted(NewReq("listed", "changePassword", u))
    BY DEF WellStarted, NewReq
  <2>. QED
    BY <1>9, <2>1 DEF BeginChangePassword
<1>10. ASSUME NEW u \in Users, NEW op, BeginMfa(p, op, u) PROVE Goal
  <2>1. WellStarted(NewReq("mfa", op, u))
    BY DEF WellStarted, NewReq
  <2>. QED
    BY <1>10, <2>1 DEF BeginMfa
<1>. QED
  BY <1>1, <1>2, <1>3, <1>4, <1>5, <1>6, <1>7, <1>8, <1>9, <1>10 DEF Request

-------------------------------------------------------------------------------
(* One lemma per kind of step: each keeps IInv.                             *)

LEMMA InvInit == Init => IInv
<1>. SUFFICES ASSUME Init PROVE IInv
  OBVIOUS
<1>1. \A p \in Procs : req[p] = NewReq("idle", "none", NoUser)
  BY DEF Init, IdleReq
<1>2. \A p \in Procs : /\ req[p].kind = "idle" /\ req[p].jtis = {}
                       /\ req[p].todo = {} /\ req[p].sid = 0
  BY <1>1 DEF NewReq
<1>. QED
  BY <1>2, TypeInit
  DEF Init, IInv, Drawn, TokenAges, CacheFirst, TenantsEarned, LockoutHolds,
      BlacklistOutlivesToken, SessionTenantGranted, QuietUserLockedOut

LEMMA InvRequest ==
  ASSUME IInv, NEW p \in Procs, Request(p)
  PROVE  IInv'
<1>. USE DEF IInv
<1>1. PICK r : WellStarted(r) /\ Start(p, r)
  BY RequestStarts
<1>2. UNCHANGED <<now, fresh, account, tenancy, rows, tokens, history>>
  BY RequestStarts
<1>t. TypeOK'
  BY RequestType
<1>q. /\ req'[p] = r
      /\ \A q \in Procs : q # p => req'[q] = req[q]
  BY <1>1 DEF Start, TypeOK
<1>. USE <1>2 DEF account, tenancy, tokens, history
<1>3. Drawn'
  <2>1. \A j \in Jtis(DOMAIN rows) : j < fresh
    BY DEF Jtis, Drawn
  <2>2. \A j \in r.jtis \cup r.todo : j < fresh
    BY <1>1, <2>1 DEF WellStarted
  <2>3. r.sid < fresh
    BY <1>1 DEF WellStarted, Drawn, TypeOK
  <2>. QED
    BY <1>q, <2>2, <2>3 DEF Drawn
<1>4. TokenAges' /\ BlacklistOutlivesToken' /\ SessionTenantGranted'
  BY DEF TokenAges, BlacklistOutlivesToken, SessionTenantGranted
<1>5. CacheFirst'
  BY <1>q, <1>1 DEF CacheFirst, WellStarted
<1>6. TenantsEarned'
  BY <1>q, <1>1 DEF TenantsEarned, WellStarted
<1>a. \A u : ActiveSessions(u)' = ActiveSessions(u)
  BY DEF ActiveSessions, Live
<1>7. QuietUserLockedOut'
  BY <1>a DEF QuietUserLockedOut
<1>8. LockoutHolds'
  <2>1. ASSUME NEW u \in quiet, r.kind \in {"issue", "setup"} PROVE r.user # u
    BY <2>1, <1>1 DEF WellStarted, QuietUserLockedOut, LockoutHolds, TypeOK
  <2>2. r.kind = "close" => r.op # "deactivate"
    BY <1>1 DEF WellStarted
  <2>. QED
    BY <1>q, <1>a, <2>1, <2>2 DEF LockoutHolds
<1>. QED
  BY <1>t, <1>3, <1>4, <1>5, <1>6, <1>7, <1>8

\* A step that only moves accounts and memberships: what it must respect.
LEMMA InvAccounts ==
  ASSUME IInv, TypeOK',
         UNCHANGED <<now, fresh, rows, tokens, req, history>>,
         active' \subseteq active, granted \subseteq granted',
         members' \subseteq granted'
  PROVE  IInv'
<1>a. \A u : ActiveSessions(u)' = ActiveSessions(u)
  BY DEF ActiveSessions, Live
<1>1. QuietUserLockedOut' /\ LockoutHolds'
  BY <1>a DEF IInv, QuietUserLockedOut, LockoutHolds, tokens, history
<1>. QED
  BY <1>1 DEF IInv, Drawn, TokenAges, CacheFirst, TenantsEarned,
     BlacklistOutlivesToken, SessionTenantGranted, tokens, history

LEMMA InvBlacklistOne ==
  ASSUME IInv, NEW p \in Procs, NEW j \in Ids, BlacklistOne(p, j)
  PROVE  IInv'
<1>. USE DEF IInv
<1>1. /\ bl' = [bl EXCEPT ![j] = now + BlacklistTTL] /\ j \in req[p].todo
      /\ req' = [req EXCEPT ![p] = [req[p] EXCEPT !.todo = @ \ {j}]]
      /\ UNCHANGED <<now, fresh, account, tenancy, rows, access, challenges, history>>
  BY DEF BlacklistOne
<1>t. TypeOK'
  BY ProceedType DEF Proceed
<1>r. req[p] \in Req
  BY DEF TypeOK
<1>2. /\ req'[p].todo = req[p].todo \ {j}
      /\ req'[p].jtis = req[p].jtis /\ req'[p].sid = req[p].sid
      /\ req'[p].kind = req[p].kind /\ req'[p].op = req[p].op
      /\ req'[p].user = req[p].user /\ req'[p].tenant = req[p].tenant
      /\ req'[p].mark = req[p].mark /\ req'[p].revoke = req[p].revoke
      /\ \A q \in Procs : q # p => req'[q] = req[q]
  BY <1>1, <1>r DEF TypeOK, Req
<1>. USE DEF account, tenancy, history
<1>b. /\ bl'[j] = now + AccessTTL + Grace /\ bl'[j] # 0
      /\ \A k \in Ids : k # j => bl'[k] = bl[k]
  BY <1>1, TimeAssumption DEF BlacklistTTL, TypeOK
<1>3. Drawn' /\ TokenAges' /\ CacheFirst' /\ TenantsEarned' /\ SessionTenantGranted'
  BY <1>1, <1>2, <1>b
  DEF Drawn, TokenAges, CacheFirst, TenantsEarned, SessionTenantGranted, TypeOK
<1>4. BlacklistOutlivesToken'
  <2>1. \A k \in DOMAIN access : access[k].exp \in Nat /\ k \in Ids
    BY DEF TypeOK
  <2>2. j \in DOMAIN access => access[j].exp < bl'[j]
    BY <2>1, <1>b, TimeAssumption DEF TokenAges, TypeOK
  <2>. QED
    BY <1>1, <1>b, <2>1, <2>2 DEF BlacklistOutlivesToken
<1>a. \A u : ActiveSessions(u)' = ActiveSessions(u)
  BY <1>1 DEF ActiveSessions, Live
<1>5. QuietUserLockedOut' /\ LockoutHolds'
  BY <1>1, <1>2, <1>a DEF QuietUserLockedOut, LockoutHolds
<1>. QED
  BY <1>t, <1>3, <1>4, <1>5

LEMMA InvRelist ==
  ASSUME IInv, NEW p \in Procs, Relist(p)
  PROVE  IInv'
<1>. USE DEF IInv
<1>1. /\ req' = [req EXCEPT ![p] = [req[p] EXCEPT !.kind = "close", !.mark = fresh,
                                      !.revoke = ActiveSessions(req[p].user)]]
      /\ UNCHANGED <<now, fresh, account, tenancy, rows, tokens, history>>
  BY DEF Relist
<1>t. TypeOK'
  BY ProceedType DEF Proceed
<1>r. req[p] \in Req
  BY DEF TypeOK
<1>2. /\ req'[p].todo = req[p].todo
      /\ req'[p].jtis = req[p].jtis /\ req'[p].sid = req[p].sid
      /\ req'[p].kind = "close" /\ req'[p].op = req[p].op
      /\ req'[p].user = req[p].user /\ req'[p].tenant = req[p].tenant
      /\ req'[p].mark = fresh /\ req'[p].revoke = ActiveSessions(req[p].user)
      /\ \A q \in Procs : q # p => req'[q] = req[q]
  BY <1>1, <1>r DEF TypeOK, Req
<1>. USE <1>1 DEF account, tenancy, tokens, history
<1>3. Drawn' /\ TokenAges' /\ CacheFirst' /\ TenantsEarned' /\ SessionTenantGranted'
      /\ BlacklistOutlivesToken'
  BY <1>2 DEF Drawn, TokenAges, CacheFirst, TenantsEarned, SessionTenantGranted,
     BlacklistOutlivesToken
<1>a. \A u : ActiveSessions(u)' = ActiveSessions(u)
  BY DEF ActiveSessions, Live
<1>5. QuietUserLockedOut' /\ LockoutHolds'
  BY <1>2, <1>a DEF QuietUserLockedOut, LockoutHolds, TypeOK
<1>. QED
  BY <1>t, <1>3, <1>5

\* The slot a request leaves is empty.
LEMMA FinishFrees ==
  ASSUME TypeOK, NEW p \in Procs, Finish(p)
  PROVE  /\ req'[p].kind = "idle" /\ req'[p].jtis = {} /\ req'[p].todo = {}
         /\ req'[p].sid = 0
         /\ \A q \in Procs : q # p => req'[q] = req[q]
BY DEF TypeOK, Finish, IdleReq, NewReq

\* A request that ends having changed at most the second factor of an account.
LEMMA InvFinish ==
  ASSUME IInv, NEW p \in Procs, Abort(p) \/ CommitMfa(p)
  PROVE  IInv'
<1>. USE DEF IInv
<1>1. /\ UNCHANGED <<now, fresh, users, active, tenancy, rows, tokens, history>>
      /\ Finish(p)
  BY DEF Abort, CommitMfa, account
<1>t. TypeOK'
  BY ProceedType DEF Proceed
<1>. USE <1>1, FinishFrees DEF account, tenancy, tokens, history
<1>3. Drawn' /\ TokenAges' /\ CacheFirst' /\ TenantsEarned' /\ SessionTenantGranted'
      /\ BlacklistOutlivesToken'
  BY DEF Drawn, TokenAges, CacheFirst, TenantsEarned, SessionTenantGranted,
     BlacklistOutlivesToken, TypeOK
<1>a. \A u : ActiveSessions(u)' = ActiveSessions(u)
  BY DEF ActiveSessions, Live
<1>5. QuietUserLockedOut' /\ LockoutHolds'
  BY <1>a DEF QuietUserLockedOut, LockoutHolds
<1>. QED
  BY <1>t, <1>3, <1>5

LEMMA InvCommitIssue ==
  ASSUME IInv, NEW p \in Procs, CommitIssue(p)
  PROVE  IInv'
<1>. USE DEF IInv
<1>. DEFINE r == req[p]
            row == [user |-> r.user, tenant |-> r.tenant, device |-> r.device,
                    token |-> NewToken(r), jti |-> IF r.bearer THEN fresh ELSE 0,
                    exp |-> now + RefreshTTL, revoked |-> FALSE,
                    parent |-> r.parent]
<1>1. /\ r.kind = "issue" /\ r.user \in users /\ fresh \in Ids
      /\ rows' = [i \in DOMAIN rows \cup {fresh} |->
                    IF i = fresh THEN row ELSE Revoked(r.revoke)[i]]
      /\ IF r.bearer THEN MintAccess(r.user, r.tenant) ELSE UNCHANGED access
      /\ fresh' = fresh + 1 /\ Finish(p)
      /\ UNCHANGED <<now, account, tenancy, bl, challenges, history>>
  BY BoundAssumption DEF CommitIssue, TypeOK, Ids
<1>t. TypeOK'
  BY ProceedType DEF Proceed
<1>r. req[p] \in Req
  BY DEF TypeOK
<1>n. fresh \notin DOMAIN rows /\ fresh \in Nat
  BY DEF Drawn, TypeOK
<1>2. /\ DOMAIN rows' = DOMAIN rows \cup {fresh} /\ rows'[fresh] = row
      /\ \A i \in DOMAIN rows :
           /\ rows'[i].user = rows[i].user /\ rows'[i].tenant = rows[i].tenant
           /\ rows'[i].token = rows[i].token /\ rows'[i].jti = rows[i].jti
           /\ ~rows'[i].revoked => ~rows[i].revoked
  <2>1. \A i \in DOMAIN rows :
          /\ rows'[i] = IF i \in r.revoke THEN [rows[i] EXCEPT !.revoked = TRUE]
                                          ELSE rows[i]
          /\ rows[i] \in Row
    BY <1>1, <1>n DEF Revoked, TypeOK
  <2>2. DOMAIN rows' = DOMAIN rows \cup {fresh} /\ rows'[fresh] = row
    BY <1>1
  <2>3. ASSUME NEW i \in DOMAIN rows
        PROVE  /\ rows'[i].user = rows[i].user /\ rows'[i].tenant = rows[i].tenant
               /\ rows'[i].token = rows[i].token /\ rows'[i].jti = rows[i].jti
               /\ ~rows'[i].revoked => ~rows[i].revoked
    <3>1. CASE i \in r.revoke
      <4>1. rows'[i] = [rows[i] EXCEPT !.revoked = TRUE] /\ rows[i] \in Row
        BY <2>1, <3>1
      <4>. HIDE DEF r
      <4>. QED
        BY <3>1, <4>1 DEF Row
    <3>2. CASE i \notin r.revoke
      BY <2>1, <3>2
    <3>. QED
      BY <3>1, <3>2
  <2>. QED
    BY <2>2, <2>3
<1>3. /\ DOMAIN access \subseteq DOMAIN access'
      /\ \A j \in DOMAIN access' :
           \/ j \in DOMAIN access /\ access'[j] = access[j]
           \/ j = fresh /\ access'[j].exp = now + AccessTTL
  BY <1>1, <1>n DEF MintAccess, Drawn, TypeOK
<1>f. /\ req'[p].kind = "idle" /\ req'[p].jtis = {} /\ req'[p].todo = {}
      /\ req'[p].sid = 0
      /\ \A q \in Procs : q # p => req'[q] = req[q]
  BY <1>1, FinishFrees
<1>u. UNCHANGED <<now, account, tenancy, bl, challenges, history>> /\ fresh' = fresh + 1
  BY <1>1
<1>. HIDE DEF r, row
<1>. USE <1>f, <1>u DEF account, tenancy, history
<1>4. Drawn'
  <2>1. rows'[fresh].token = fresh /\ rows'[fresh].jti \in {0, fresh}
    BY <1>2 DEF row, NewToken
  <2>2. /\ \A i \in DOMAIN rows' :
             i < fresh' /\ rows'[i].token < fresh' /\ rows'[i].jti < fresh'
        /\ \A j \in DOMAIN access' : j < fresh'
    <3>1. \A i \in DOMAIN rows : i \in Nat /\ rows[i].token \in Nat /\ rows[i].jti \in Nat
      BY DEF TypeOK, Row, Ids
    <3>2. \A j \in DOMAIN access : j \in Nat
      BY DEF TypeOK, Ids
    <3>. QED
      BY <2>1, <3>1, <3>2, <1>2, <1>3, <1>n DEF Drawn
  <2>3. \A q \in Procs : /\ req[q].jtis \in SUBSET Ids /\ req[q].todo \in SUBSET Ids
                         /\ req[q].sid \in Nat
    BY DEF TypeOK, Req, Ids
  <2>. QED
    BY <2>2, <2>3, <1>n DEF Drawn, Ids
<1>5. TokenAges' /\ CacheFirst'
  <2>1. TokenAges'
    BY <1>3, TimeAssumption DEF TokenAges, TypeOK
  <2>2. CacheFirst'
    BY DEF CacheFirst
  <2>. QED
    BY <2>1, <2>2
<1>6. BlacklistOutlivesToken'
  <2>1. bl[fresh] = 0
    BY <1>1, <1>n DEF Drawn, TypeOK
  <2>. QED
    BY <2>1, <1>3 DEF BlacklistOutlivesToken
<1>7. SessionTenantGranted'
  <2>1. row.user = r.user /\ row.tenant = r.tenant
    BY DEF row
  <2>2. r.tenant # NoTenant => <<r.user, r.tenant>> \in granted
    BY <1>1 DEF TenantsEarned, r
  <2>. QED
    BY <2>1, <2>2, <1>2 DEF SessionTenantGranted
<1>8. TenantsEarned'
  <2>1. \A q \in Procs : req[q].kind = "setup" => req[q].sid # fresh
    BY <1>n DEF Drawn, TypeOK
  <2>. QED
    BY <2>1, <1>2 DEF TenantsEarned
<1>a. \A u : \A i \in ActiveSessions(u)' :
        i \in ActiveSessions(u) \/ (i = fresh /\ u = r.user)
  <2>1. row.user = r.user
    BY DEF row
  <2>. QED
    BY <2>1, <1>2 DEF ActiveSessions, Live
<1>9. QuietUserLockedOut'
  <2>1. \A u \in quiet : u # r.user
    BY <1>1 DEF LockoutHolds, r
  <2>. QED
    BY <2>1, <1>a DEF QuietUserLockedOut, TypeOK
<1>10. LockoutHolds'
  <2>1. ASSUME NEW q \in Procs, q # p, req[q].kind = "close", req[q].op = "deactivate",
               NEW i \in ActiveSessions(req[q].user)', i < req[q].mark
        PROVE  i \in req[q].revoke
    <3>1. i # fresh
      BY <2>1, <1>n DEF LockoutHolds, TypeOK, Req
    <3>. QED
      BY <2>1, <3>1, <1>a DEF LockoutHolds
  <2>2. \A q \in Procs : req[q].mark \in Nat
    BY DEF TypeOK, Req
  <2>. QED
    BY <2>1, <2>2, <1>n DEF LockoutHolds
<1>. QED
  BY <1>t, <1>4, <1>5, <1>6, <1>7, <1>8, <1>9, <1>10

LEMMA InvCommitSetup ==
  ASSUME IInv, NEW p \in Procs, CommitSetup(p)
  PROVE  IInv'
<1>. USE DEF IInv
<1>. DEFINE r == req[p]
<1>1. /\ r.kind = "setup" /\ r.user \in users /\ fresh \in Ids
      /\ members' = members \cup {<<r.user, r.tenant>>}
      /\ granted' = granted \cup {<<r.user, r.tenant>>}
      /\ rows' = [rows EXCEPT ![r.sid] = Overwrite(rows[r.sid], r.tenant)]
      /\ MintAccess(r.user, r.tenant)
      /\ fresh' = fresh + 1 /\ Finish(p)
      /\ UNCHANGED <<now, account, suspended, bl, challenges, history>>
  BY BoundAssumption DEF CommitSetup, TypeOK, Ids
<1>t. TypeOK'
  BY ProceedType DEF Proceed
<1>n. fresh \notin DOMAIN rows /\ fresh \in Nat
  BY DEF Drawn, TypeOK
<1>2. /\ DOMAIN rows' = DOMAIN rows
      /\ \A i \in DOMAIN rows :
           /\ i # r.sid => rows'[i] = rows[i]
           /\ rows'[i].user = rows[i].user
           /\ ~rows'[i].revoked => ~rows[i].revoked
      /\ r.sid \in DOMAIN rows =>
           /\ rows'[r.sid].tenant = r.tenant
           /\ rows'[r.sid].token = fresh /\ rows'[r.sid].jti = fresh
  <2>1. ASSUME NEW x \in Row
        PROVE  LET y == Overwrite(x, r.tenant) IN
               /\ y.user = x.user /\ y.tenant = r.tenant /\ y.token = fresh
               /\ y.jti = fresh /\ y.revoked = x.revoked
    BY DEF Row, Overwrite
  <2>2. /\ DOMAIN rows' = DOMAIN rows
        /\ \A i \in DOMAIN rows :
             /\ rows'[i] = IF i = r.sid THEN Overwrite(rows[i], r.tenant) ELSE rows[i]
             /\ rows[i] \in Row
    BY <1>1 DEF TypeOK
  <2>. QED
    BY <2>1, <2>2
<1>3. /\ DOMAIN access \subseteq DOMAIN access'
      /\ \A j \in DOMAIN access' :
           \/ j \in DOMAIN access /\ access'[j] = access[j]
           \/ j = fresh /\ access'[j].exp = now + AccessTTL
  BY <1>1, <1>n DEF MintAccess, Drawn, TypeOK
<1>f. /\ req'[p].kind = "idle" /\ req'[p].jtis = {} /\ req'[p].todo = {}
      /\ req'[p].sid = 0
      /\ \A q \in Procs : q # p => req'[q] = req[q]
  BY <1>1, FinishFrees
<1>u. /\ UNCHANGED <<now, account, suspended, bl, challenges, history>>
      /\ fresh' = fresh + 1
      /\ granted \subseteq granted' /\ <<r.user, r.tenant>> \in granted'
      /\ members' \subseteq members \cup granted'
      /\ r.sid \in DOMAIN rows => rows[r.sid].user = r.user
  BY <1>1 DEF TenantsEarned
<1>. HIDE DEF r
<1>. USE <1>f, <1>u DEF account, history
<1>4. Drawn'
  <2>1. \A i \in DOMAIN rows : i \in Nat /\ rows[i].token \in Nat /\ rows[i].jti \in Nat
    BY DEF TypeOK, Row, Ids
  <2>2. \A j \in DOMAIN access : j \in Nat
    BY DEF TypeOK, Ids
  <2>3. \A i \in DOMAIN rows' :
           i < fresh' /\ rows'[i].token < fresh' /\ rows'[i].jti < fresh'
    BY <2>1, <1>2, <1>n DEF Drawn
  <2>4. \A j \in DOMAIN access' : j < fresh'
    BY <2>2, <1>3, <1>n DEF Drawn
  <2>5. \A q \in Procs : /\ req[q].jtis \in SUBSET Ids /\ req[q].todo \in SUBSET Ids
                         /\ req[q].sid \in Nat
    BY DEF TypeOK, Req, Ids
  <2>. QED
    BY <2>3, <2>4, <2>5, <1>n DEF Drawn, Ids
<1>5. TokenAges' /\ CacheFirst'
  <2>1. TokenAges'
    BY <1>3, TimeAssumption DEF TokenAges, TypeOK
  <2>2. CacheFirst'
    BY DEF CacheFirst
  <2>. QED
    BY <2>1, <2>2
<1>6. BlacklistOutlivesToken'
  <2>1. bl[fresh] = 0
    BY <1>1, <1>n DEF Drawn, TypeOK
  <2>. QED
    BY <2>1, <1>3 DEF BlacklistOutlivesToken
<1>7. SessionTenantGranted'
  BY <1>2 DEF SessionTenantGranted
<1>8. TenantsEarned'
  BY <1>2 DEF TenantsEarned
<1>a. \A u : ActiveSessions(u)' \subseteq ActiveSessions(u)
  BY <1>2 DEF ActiveSessions, Live
<1>9. QuietUserLockedOut'
  BY <1>a DEF QuietUserLockedOut
<1>10. LockoutHolds'
  <2>1. \A q \in Procs : req[q].mark \in Nat
    BY DEF TypeOK, Req
  <2>. QED
    BY <2>1, <1>a, <1>n DEF LockoutHolds
<1>. QED
  BY <1>t, <1>4, <1>5, <1>6, <1>7, <1>8, <1>9, <1>10

LEMMA InvCommitClose ==
  ASSUME IInv, NEW p \in Procs, CommitClose(p)
  PROVE  IInv'
<1>. USE DEF IInv
<1>. DEFINE r == req[p]
<1>1. /\ r.kind = "close" /\ r.todo = {} /\ rows' = Revoked(r.revoke) /\ Finish(p)
      /\ closedJtis' \subseteq closedJtis \cup r.jtis
      /\ active' \subseteq active
      /\ UNCHANGED <<now, fresh, users, mfa, enrolled, tenancy, tokens>>
  BY DEF CommitClose, ReadyToClose
<1>2. \/ UNCHANGED quiet
      \/ /\ r.op = "deactivate" /\ active' = active \ {r.user}
         /\ quiet' = quiet \cup {r.user} /\ NothingUnderWay(p, r.user)
  BY DEF CommitClose
<1>t. TypeOK'
  BY ProceedType DEF Proceed
<1>3. /\ DOMAIN rows' = DOMAIN rows
      /\ \A i \in DOMAIN rows :
           /\ rows'[i].user = rows[i].user /\ rows'[i].tenant = rows[i].tenant
           /\ rows'[i].token = rows[i].token /\ rows'[i].jti = rows[i].jti
           /\ ~rows'[i].revoked => ~rows[i].revoked /\ i \notin r.revoke
  <2>1. /\ DOMAIN rows' = DOMAIN rows
        /\ \A i \in DOMAIN rows :
             /\ rows'[i] = IF i \in r.revoke THEN [rows[i] EXCEPT !.revoked = TRUE]
                                             ELSE rows[i]
             /\ rows[i] \in Row
    BY <1>1 DEF Revoked, TypeOK
  <2>2. ASSUME NEW i \in DOMAIN rows
        PROVE  /\ rows'[i].user = rows[i].user /\ rows'[i].tenant = rows[i].tenant
               /\ rows'[i].token = rows[i].token /\ rows'[i].jti = rows[i].jti
               /\ ~rows'[i].revoked => ~rows[i].revoked /\ i \notin r.revoke
    <3>1. CASE i \in r.revoke
      <4>1. rows'[i] = [rows[i] EXCEPT !.revoked = TRUE] /\ rows[i] \in Row
        BY <2>1, <3>1
      <4>. HIDE DEF r
      <4>. QED
        BY <3>1, <4>1 DEF Row
    <3>2. CASE i \notin r.revoke
      BY <2>1, <3>2
    <3>. QED
      BY <3>1, <3>2
  <2>. QED
    BY <2>1, <2>2
<1>f. /\ req'[p].kind = "idle" /\ req'[p].jtis = {} /\ req'[p].todo = {}
      /\ req'[p].sid = 0
      /\ \A q \in Procs : q # p => req'[q] = req[q]
  BY <1>1, FinishFrees
<1>4. /\ Drawn' /\ TokenAges' /\ BlacklistOutlivesToken' /\ SessionTenantGranted'
      /\ TenantsEarned'
  <2>1. Drawn'
    BY <1>1, <1>3, <1>f DEF Drawn, tokens, TypeOK
  <2>2. TokenAges' /\ BlacklistOutlivesToken'
    BY <1>1 DEF tokens, TokenAges, BlacklistOutlivesToken
  <2>3. SessionTenantGranted' /\ TenantsEarned'
    BY <1>1, <1>3, <1>f DEF tenancy, tokens, SessionTenantGranted, TenantsEarned
  <2>. QED
    BY <2>1, <2>2, <2>3
<1>5. CacheFirst'
  <2>1. \A j \in r.jtis : bl[j] # 0
    BY <1>1 DEF CacheFirst
  <2>. QED
    BY <2>1, <1>1, <1>f DEF CacheFirst, tokens
<1>a. \A u : ActiveSessions(u)' \subseteq ActiveSessions(u) \ r.revoke
  BY <1>3 DEF ActiveSessions, Live
<1>6. QuietUserLockedOut'
  <2>1. ASSUME r.op = "deactivate", NEW u, u = r.user, NothingUnderWay(p, u)
        PROVE  ActiveSessions(u)' = {}
    <3>1. \A i \in ActiveSessions(u) : i \in Nat /\ (i < r.mark => i \in r.revoke)
      BY <1>1, <2>1 DEF LockoutHolds, ActiveSessions, TypeOK, Ids
    <3>2. \A i \in ActiveSessions(u) : i < r.mark
      BY <2>1, <3>1 DEF NothingUnderWay, ActiveSessions, TypeOK, Req
    <3>. QED
      BY <3>1, <3>2, <1>a
  <2>. QED
    BY <2>1, <1>1, <1>2, <1>a DEF QuietUserLockedOut
<1>7. LockoutHolds'
  BY <1>1, <1>2, <1>a, <1>f DEF LockoutHolds, NothingUnderWay, tokens
<1>. QED
  BY <1>t, <1>4, <1>5, <1>6, <1>7

LEMMA InvAdminister ==
  ASSUME IInv, Administer
  PROVE  IInv'
<1>. USE DEF IInv
<1>t. TypeOK'
  BY AdministerType
<1>m. members \subseteq granted
  BY DEF TenantsEarned
<1>c. ASSUME NEW u \in Users, NEW t \in Tenants, Challenge(u, t), u \notin quiet,
             <<u, t>> \in granted
      PROVE  IInv'
  <2>1. /\ UNCHANGED <<now, fresh, account, tenancy, rows, access, bl, req, history>>
        /\ challenges' = challenges \cup
                           {[user |-> u, tenant |-> t, exp |-> now + ChallengeTTL]}
    BY <1>c DEF Challenge
  <2>2. \A c \in challenges' : c \in challenges \/ (c.user = u /\ c.tenant = t)
    BY <2>1
  <2>. USE <2>1 DEF account, tenancy, history
  <2>3. TenantsEarned'
    BY <1>c, <2>2 DEF TenantsEarned
  <2>4. /\ Drawn' /\ TokenAges' /\ CacheFirst' /\ BlacklistOutlivesToken'
        /\ SessionTenantGranted'
    BY DEF Drawn, TokenAges, CacheFirst, BlacklistOutlivesToken, SessionTenantGranted
  <2>a. \A v : ActiveSessions(v)' = ActiveSessions(v)
    BY DEF ActiveSessions, Live
  <2>5. QuietUserLockedOut' /\ LockoutHolds'
    BY <1>c, <2>2, <2>a DEF QuietUserLockedOut, LockoutHolds
  <2>. QED
    BY <1>t, <2>3, <2>4, <2>5
<1>1. ASSUME NEW u \in Users, Activate(u) PROVE IInv'
  <2>1. /\ active' = active \cup {u} /\ quiet' = quiet \ {u}
        /\ UNCHANGED <<now, fresh, users, mfa, enrolled, tenancy, rows, tokens, req,
                       closedRows, closedJtis>>
    BY <1>1 DEF Activate
  <2>. USE <2>1 DEF tenancy, tokens
  <2>a. \A v : ActiveSessions(v)' = ActiveSessions(v)
    BY DEF ActiveSessions, Live
  <2>2. QuietUserLockedOut' /\ LockoutHolds'
    BY <2>a DEF QuietUserLockedOut, LockoutHolds
  <2>. QED
    BY <1>t, <2>2 DEF Drawn, TokenAges, CacheFirst, TenantsEarned,
       BlacklistOutlivesToken, SessionTenantGranted
<1>2. ASSUME NEW u \in Users, DeleteUser(u) PROVE IInv'
  <2>1. /\ active' \subseteq active /\ members' \subseteq members
        /\ UNCHANGED <<now, fresh, granted, tokens, req, history>>
    BY <1>2 DEF DeleteUser
  <2>2. /\ DOMAIN rows' \subseteq DOMAIN rows
        /\ \A i \in DOMAIN rows' : rows'[i] = rows[i]
    BY <1>2 DEF DeleteUser
  <2>. USE <2>1, <2>2 DEF tokens, history
  <2>a. \A v : ActiveSessions(v)' \subseteq ActiveSessions(v)
    BY DEF ActiveSessions, Live
  <2>3. QuietUserLockedOut' /\ LockoutHolds'
    BY <2>a DEF QuietUserLockedOut, LockoutHolds
  <2>4. Drawn' /\ TenantsEarned' /\ SessionTenantGranted'
    BY DEF Drawn, TenantsEarned, SessionTenantGranted
  <2>. QED
    BY <1>t, <2>3, <2>4 DEF TokenAges, CacheFirst, BlacklistOutlivesToken
<1>3. ASSUME NEW u \in Users, SetupMfa(u) PROVE IInv'
  BY <1>3, <1>t, <1>m, InvAccounts DEF SetupMfa, tenancy
<1>4. ASSUME NEW u \in Users, NEW t \in Tenants, LoginChallenge(u, t) PROVE IInv'
  <2>1. u \notin quiet
    BY <1>4 DEF LoginChallenge, MayLogIn, QuietUserLockedOut
  <2>2. <<u, t>> \in granted
    BY <1>4, <1>m DEF LoginChallenge, Resolves, TenantsOf
  <2>. QED
    BY <1>4, <1>c, <2>1, <2>2 DEF LoginChallenge
<1>5. ASSUME NEW u \in Users, NEW t \in Tenants,
             AddMember(u, t) \/ RemoveMember(u, t) \/ SetMemberStatus(u, t)
      PROVE  IInv'
  BY <1>5, <1>t, <1>m, InvAccounts
  DEF AddMember, RemoveMember, SetMemberStatus, account
<1>6. ASSUME NEW k \in Ids, NEW t \in Tenants, SelectTenantChallenge(k, t)
      PROVE  IInv'
  <2>1. PICK i \in GetByRefreshToken(k) :
          MayEnter(rows[i].user, t) /\ Challenge(rows[i].user, t)
    BY <1>6 DEF SelectTenantChallenge
  <2>2. rows[i].user \in Users /\ rows[i].user \notin quiet
    BY DEF GetByRefreshToken, ActiveSessions, QuietUserLockedOut, TypeOK, Row
  <2>. QED
    BY <2>1, <2>2, <1>m, <1>c DEF MayEnter
<1>. QED
  BY <1>1, <1>2, <1>3, <1>4, <1>5, <1>6 DEF Administer

LEMMA InvTick ==
  ASSUME IInv, Tick
  PROVE  IInv'
<1>. USE DEF IInv
<1>1. /\ now \in Nat /\ now' = now + 1
      /\ UNCHANGED <<fresh, account, tenancy, rows, tokens, req, history>>
  BY DEF Tick, TypeOK
<1>t. TypeOK'
  BY <1>1, TypeStep DEF Next
<1>. USE <1>1 DEF account, tenancy, tokens, history
<1>2. TokenAges'
  BY TimeAssumption DEF TokenAges, TypeOK
<1>3. /\ Drawn' /\ CacheFirst' /\ BlacklistOutlivesToken' /\ SessionTenantGranted'
      /\ TenantsEarned'
  BY DEF Drawn, CacheFirst, BlacklistOutlivesToken, SessionTenantGranted, TenantsEarned
<1>a. \A v : ActiveSessions(v)' = ActiveSessions(v)
  BY DEF ActiveSessions, Live
<1>4. QuietUserLockedOut' /\ LockoutHolds'
  <2>1. \A c \in challenges : c.exp \in Nat /\ (c.exp < now => c.exp < now')
    BY DEF TypeOK
  <2>. QED
    BY <1>a, <2>1 DEF QuietUserLockedOut, LockoutHolds
<1>. QED
  BY <1>t, <1>2, <1>3, <1>4

LEMMA InvStep == IInv /\ [Next]_vars => IInv'
<1>1. IInv /\ UNCHANGED vars => IInv'
  <2>. SUFFICES ASSUME IInv, UNCHANGED vars PROVE IInv'
    OBVIOUS
  <2>1. members \subseteq granted
    BY DEF IInv, TenantsEarned
  <2>. QED
    BY <2>1, TypeStep, InvAccounts DEF IInv, vars, account, tenancy
<1>2. ASSUME IInv, NEW p \in Procs, Proceed(p) PROVE IInv'
  BY <1>2, InvBlacklistOne, InvRelist, InvCommitIssue, InvCommitSetup,
     InvCommitClose, InvFinish DEF Proceed
<1>. QED
  BY <1>1, <1>2, InvRequest, InvAdminister, InvTick DEF Next

\* The inductive invariant holds in every run.
THEOREM Invariance == Spec => []IInv
BY InvInit, InvStep, PTL DEF Spec

-------------------------------------------------------------------------------
(* What follows.                                                           *)

\* The cache keeps a blacklisted jti longer than its access token can live.
THEOREM BlacklistSound == Spec => []BlacklistOutlivesToken
<1>1. IInv => BlacklistOutlivesToken
  BY DEF IInv
<1>. QED
  BY <1>1, Invariance, PTL

\* The tokens a committed logout, revocation or deactivation had read are refused.
THEOREM ClosedStaysClosed == Spec => []ClosedTokenRefused
<1>1. IInv => ClosedTokenRefused
  <2>. SUFFICES ASSUME IInv, NEW j \in closedJtis, Accepts(j) PROVE FALSE
    BY DEF ClosedTokenRefused
  <2>1. j \in DOMAIN access /\ now <= access[j].exp /\ ~(now < bl[j])
    BY DEF Accepts
  <2>2. access[j].exp < bl[j]
    BY <2>1 DEF IInv, CacheFirst, BlacklistOutlivesToken
  <2>3. now \in Nat /\ access[j].exp \in Nat /\ bl[j] \in Nat
    BY <2>1 DEF IInv, TypeOK
  <2>. QED
    BY <2>1, <2>2, <2>3
<1>. QED
  BY <1>1, Invariance, PTL

\* Sessions only exist on organisations their user was admitted to.
THEOREM TenantsGranted == Spec => []SessionTenantGranted
<1>1. IInv => SessionTenantGranted
  BY DEF IInv
<1>. QED
  BY <1>1, Invariance, PTL

\* A user deactivated in peace has no session until activated again.
THEOREM LockedOut == Spec => []QuietUserLockedOut
<1>1. IInv => QuietUserLockedOut
  BY DEF IInv
<1>. QED
  BY <1>1, Invariance, PTL

-------------------------------------------------------------------------------
(* A credential that stopped working never works again.                    *)

(* How one step may change what the three life cycles look at. *)

\* Time and identifiers only go up, accounts only go away.
Onward ==
  /\ now <= now' /\ users' \subseteq users
  /\ fresh <= fresh' /\ fresh' <= fresh + 1

\* An access token drawn earlier is what it was; a cache write is for now on.
TokensKept ==
  /\ \A j \in Ids : j < fresh /\ j \in DOMAIN access' =>
                      j \in DOMAIN access /\ access'[j] = access[j]
  /\ \A j \in Ids : bl'[j] = bl[j] \/ (now' = now /\ now < bl'[j])

\* A row drawn earlier keeps its revocation; its token is what it was, or new.
RowsKept ==
  \A i \in DOMAIN rows' :
    \/ /\ i \in DOMAIN rows
       /\ rows[i].revoked => rows'[i].revoked
       /\ \/ rows'[i].token = rows[i].token
          \/ rows'[i].token = fresh /\ fresh' = fresh + 1
    \/ i = fresh /\ rows'[i].token = fresh /\ fresh' = fresh + 1

Evolves == Onward /\ TokensKept /\ RowsKept

LEMMA EvolvesIdle ==
  ASSUME TypeOK, now <= now', now' \in Nat, users' \subseteq users,
         UNCHANGED <<fresh, access, bl>>,
         DOMAIN rows' \subseteq DOMAIN rows,
         \A i \in DOMAIN rows' : rows'[i] = rows[i]
  PROVE  Evolves
BY DEF Evolves, Onward, TokensKept, RowsKept, TypeOK

LEMMA EvolvesProceed ==
  ASSUME IInv, NEW p \in Procs, Proceed(p)
  PROVE  Evolves
<1>. USE DEF IInv
<1>0. now \in Nat /\ fresh \in Nat /\ rows \in [DOMAIN rows -> Row]
  BY DEF TypeOK
<1>rev. ASSUME NEW S PROVE \A i \in DOMAIN rows :
                 /\ Revoked(S)[i].token = rows[i].token
                 /\ rows[i].revoked => Revoked(S)[i].revoked
  <2>1. ASSUME NEW x \in Row
        PROVE  /\ [x EXCEPT !.revoked = TRUE].token = x.token
               /\ [x EXCEPT !.revoked = TRUE].revoked = TRUE
    BY DEF Row
  <2>. QED
    BY <1>0, <2>1 DEF Revoked
<1>1. ASSUME NEW j \in Ids, BlacklistOne(p, j) PROVE Evolves
  <2>0. /\ UNCHANGED <<now, fresh, account, tenancy, rows, access, challenges, history>>
        /\ bl' = [bl EXCEPT ![j] = now + BlacklistTTL]
    BY <1>1 DEF BlacklistOne
  <2>1. /\ UNCHANGED <<now, fresh, users, rows, access>>
        /\ \A k \in Ids : bl'[k] = bl[k] \/ bl'[k] = now + BlacklistTTL
    BY <2>0 DEF account, TypeOK
  <2>2. now < now + BlacklistTTL
    BY <1>0, TimeAssumption DEF BlacklistTTL
  <2>3. TokensKept
    BY <2>1, <2>2 DEF TokensKept
  <2>. QED
    BY <1>0, <2>1, <2>3 DEF Evolves, Onward, RowsKept
<1>2. ASSUME Relist(p) \/ Abort(p) \/ CommitMfa(p) PROVE Evolves
  BY <1>0, <1>2, EvolvesIdle DEF Relist, Abort, CommitMfa, account, tokens
<1>mint. ASSUME NEW u, NEW t, MintAccess(u, t) \/ UNCHANGED access
         PROVE  \A j \in Ids : j < fresh /\ j \in DOMAIN access' =>
                                 j \in DOMAIN access /\ access'[j] = access[j]
  BY <1>0, <1>mint DEF MintAccess, Ids
<1>3. ASSUME CommitIssue(p) PROVE Evolves
  <2>1. /\ UNCHANGED <<now, users, bl>> /\ fresh' = fresh + 1
        /\ MintAccess(req[p].user, req[p].tenant) \/ UNCHANGED access
    BY <1>3 DEF CommitIssue, account
  <2>2. /\ DOMAIN rows' = DOMAIN rows \cup {fresh}
        /\ \A i \in DOMAIN rows : i # fresh => rows'[i] = Revoked(req[p].revoke)[i]
        /\ rows'[fresh].token = fresh
    BY <1>3 DEF CommitIssue, NewToken
  <2>3. RowsKept
    BY <2>1, <2>2, <1>rev DEF RowsKept
  <2>4. TokensKept
    BY <2>1, <1>mint DEF TokensKept
  <2>. QED
    BY <1>0, <2>1, <2>3, <2>4 DEF Evolves, Onward
<1>4. ASSUME CommitSetup(p) PROVE Evolves
  <2>1. /\ UNCHANGED <<now, users, bl>> /\ fresh' = fresh + 1
        /\ MintAccess(req[p].user, req[p].tenant)
    BY <1>4 DEF CommitSetup, account
  <2>2. ASSUME NEW x \in Row
        PROVE  LET y == Overwrite(x, req[p].tenant) IN
               y.token = fresh /\ y.revoked = x.revoked
    BY DEF Row, Overwrite
  <2>3. /\ DOMAIN rows' = DOMAIN rows
        /\ \A i \in DOMAIN rows :
             rows'[i] = IF i = req[p].sid THEN Overwrite(rows[i], req[p].tenant)
                                          ELSE rows[i]
    BY <1>4, <1>0 DEF CommitSetup
  <2>4. RowsKept
    BY <1>0, <2>1, <2>2, <2>3 DEF RowsKept
  <2>5. TokensKept
    BY <2>1, <1>mint DEF TokensKept
  <2>. QED
    BY <1>0, <2>1, <2>4, <2>5 DEF Evolves, Onward
<1>5. ASSUME CommitClose(p) PROVE Evolves
  <2>1. /\ UNCHANGED <<now, fresh, users, access, bl>>
        /\ rows' = Revoked(req[p].revoke)
    BY <1>5 DEF CommitClose, tokens
  <2>2. DOMAIN rows' = DOMAIN rows
    BY <2>1 DEF Revoked
  <2>3. RowsKept /\ TokensKept
    BY <2>1, <2>2, <1>rev DEF RowsKept, TokensKept
  <2>. QED
    BY <1>0, <2>1, <2>3 DEF Evolves, Onward
<1>. QED
  BY <1>1, <1>2, <1>3, <1>4, <1>5 DEF Proceed

LEMMA EvolvesStep == IInv /\ [Next]_vars => Evolves
<1>. SUFFICES ASSUME IInv, [Next]_vars PROVE Evolves
  OBVIOUS
<1>0. TypeOK /\ now \in Nat /\ TenantsEarned /\ SessionTenantGranted
  BY DEF IInv, TypeOK
<1>1. ASSUME NEW p \in Procs, Request(p) PROVE Evolves
  <2>1. UNCHANGED <<now, fresh, account, tenancy, rows, tokens, history>>
    BY <1>0, <1>1, RequestStarts
  <2>. QED
    BY <1>0, <2>1, EvolvesIdle DEF account, tokens
<1>2. ASSUME Administer PROVE Evolves
  <2>. DEFINE Kept == /\ UNCHANGED <<now, fresh, access, bl>> /\ users' \subseteq users
                      /\ DOMAIN rows' \subseteq DOMAIN rows
                      /\ \A i \in DOMAIN rows' : rows'[i] = rows[i]
  <2>1. ASSUME NEW u \in Users, NEW t \in Tenants, Challenge(u, t) PROVE Kept
    BY <2>1 DEF Challenge, account
  <2>2. ASSUME NEW u \in Users, Activate(u) \/ SetupMfa(u) PROVE Kept
    BY <2>2 DEF Activate, SetupMfa, tokens
  <2>3. ASSUME NEW u \in Users, DeleteUser(u) PROVE Kept
    BY <2>3 DEF DeleteUser, tokens
  <2>4. ASSUME NEW u \in Users, NEW t \in Tenants,
               AddMember(u, t) \/ RemoveMember(u, t) \/ SetMemberStatus(u, t)
        PROVE  Kept
    BY <2>4 DEF AddMember, RemoveMember, SetMemberStatus, tokens, account
  <2>5. ASSUME NEW u \in Users, NEW t \in Tenants, LoginChallenge(u, t) PROVE Kept
    BY <2>5, <2>1 DEF LoginChallenge
  <2>6. ASSUME NEW k \in Ids, NEW t \in Tenants, SelectTenantChallenge(k, t)
        PROVE  Kept
    <3>1. PICK i \in GetByRefreshToken(k) : Challenge(rows[i].user, t)
      BY <2>6 DEF SelectTenantChallenge
    <3>2. rows[i].user \in Users
      BY <1>0 DEF GetByRefreshToken, TypeOK, Row
    <3>. QED
      BY <3>1, <3>2, <2>1
  <2>7. Kept
    <3>. HIDE DEF Kept
    <3>. QED
      BY <1>2, <2>2, <2>3, <2>4, <2>5, <2>6 DEF Administer
  <2>. QED
    BY <1>0, <2>7, EvolvesIdle
<1>3. ASSUME Tick \/ UNCHANGED vars PROVE Evolves
  BY <1>0, <1>3, EvolvesIdle DEF Tick, vars, account, tokens
<1>. QED
  BY <1>1, <1>2, <1>3, EvolvesProceed DEF Next

-------------------------------------------------------------------------------
(* The refinements.                                                        *)

LEMMA EvolvesDrawn ==
  ASSUME IInv, IInv', Evolves
  PROVE  /\ fresh \in Nat /\ fresh' \in Nat
         /\ \A k \in Ids : k \in Nat /\ (fresh' <= k => fresh <= k)
BY DEF Evolves, Onward, IInv, TypeOK, Ids

LEMMA InitNothing == Init => \A k \in Ids : fresh <= k
BY DEF Init, Ids

\* Access tokens implement Lifecycle.
THEOREM AccessTokenLife == Spec => AccessLifecycle
<1>1. Init => AccessLife!Init
  BY InitNothing DEF AccessLife!Init
<1>2. IInv /\ IInv' /\ Evolves => AccessLife!Advance
  <2>. SUFFICES ASSUME IInv, IInv', Evolves PROVE AccessLife!Advance
    OBVIOUS
  <2>1. ASSUME NEW j \in Ids, j < fresh, Accepts(j)' PROVE Accepts(j)
    <3>1. /\ j \in DOMAIN access' /\ now' <= access'[j].exp /\ ~(now' < bl'[j])
          /\ access'[j].user \in users'
      BY <2>1 DEF Accepts
    <3>2. j \in DOMAIN access /\ access'[j] = access[j]
      BY <2>1, <3>1 DEF Evolves, TokensKept
    <3>3. /\ now \in Nat /\ now' \in Nat /\ bl[j] \in Nat /\ bl'[j] \in Nat
          /\ access[j].exp \in Nat /\ now <= now' /\ users' \subseteq users
      BY <2>1, <3>2 DEF Evolves, Onward, IInv, TypeOK
    <3>4. ~(now < bl[j])
      <4>. SUFFICES ASSUME now < bl[j] PROVE FALSE
        OBVIOUS
      <4>1. access[j].exp < bl[j]
        BY <3>2, <3>3 DEF IInv, BlacklistOutlivesToken
      <4>2. bl'[j] = bl[j]
        BY <3>1, <3>3 DEF Evolves, TokensKept
      <4>. QED
        BY <3>1, <3>2, <3>3, <4>1, <4>2
    <3>. QED
      BY <3>1, <3>2, <3>3, <3>4 DEF Accepts
  <2>. SUFFICES ASSUME NEW j \in Ids
       PROVE  LET old == IF fresh <= j THEN "unissued"
                         ELSE IF Accepts(j) THEN "valid" ELSE "dead"
                  new == IF fresh' <= j THEN "unissued"
                         ELSE IF Accepts(j)' THEN "valid" ELSE "dead"
              IN /\ new \in AccessLife!Stages
                 /\ new # old => <<old, new>> \in AccessLife!Forward
    BY DEF AccessLife!Advance
  <2>2. fresh' <= j => fresh <= j
    BY EvolvesDrawn
  <2>3. CASE fresh <= j
    BY <2>3 DEF AccessLife!Forward, AccessLife!Stages
  <2>4. CASE ~(fresh <= j) /\ Accepts(j)
    BY <2>2, <2>4 DEF AccessLife!Forward, AccessLife!Stages
  <2>5. CASE ~(fresh <= j) /\ ~Accepts(j)
    <3>1. j < fresh
      BY <2>5, EvolvesDrawn
    <3>2. ~(Accepts(j)')
      BY <2>1, <2>5, <3>1
    <3>. QED
      BY <2>2, <2>5, <3>2 DEF AccessLife!Forward, AccessLife!Stages
  <2>. QED
    BY <2>3, <2>4, <2>5
<1>. QED
  BY <1>1, <1>2, EvolvesStep, InvStep, Invariance, PTL
  DEF Spec, AccessLifecycle, AccessLife!Spec

\* Refresh tokens implement Lifecycle.
THEOREM RefreshTokenLife == Spec => RefreshLifecycle
<1>1. Init => RefreshLife!Init
  BY InitNothing DEF RefreshLife!Init
<1>2. IInv /\ IInv' /\ Evolves => RefreshLife!Advance
  <2>. SUFFICES ASSUME IInv, IInv', Evolves PROVE RefreshLife!Advance
    OBVIOUS
  <2>1. ASSUME NEW k \in Ids, k < fresh, GetByRefreshToken(k)' # {}
        PROVE  GetByRefreshToken(k) # {}
    <3>1. PICK i \in DOMAIN rows' : ~rows'[i].revoked /\ rows'[i].token = k
      BY <2>1 DEF GetByRefreshToken, Live
    <3>2. k # fresh
      BY <2>1 DEF IInv, TypeOK, Ids
    <3>3. i \in DOMAIN rows /\ ~rows[i].revoked /\ rows[i].token = k
      BY <3>1, <3>2 DEF Evolves, RowsKept
    <3>. QED
      BY <3>3 DEF GetByRefreshToken, Live
  <2>. SUFFICES ASSUME NEW k \in Ids
       PROVE  LET old == IF fresh <= k THEN "unissued"
                         ELSE IF GetByRefreshToken(k) # {} THEN "valid" ELSE "dead"
                  new == IF fresh' <= k THEN "unissued"
                         ELSE IF GetByRefreshToken(k)' # {} THEN "valid" ELSE "dead"
              IN /\ new \in RefreshLife!Stages
                 /\ new # old => <<old, new>> \in RefreshLife!Forward
    BY DEF RefreshLife!Advance
  <2>2. fresh' <= k => fresh <= k
    BY EvolvesDrawn
  <2>3. CASE fresh <= k
    BY <2>3 DEF RefreshLife!Forward, RefreshLife!Stages
  <2>4. CASE ~(fresh <= k) /\ GetByRefreshToken(k) # {}
    BY <2>2, <2>4 DEF RefreshLife!Forward, RefreshLife!Stages
  <2>5. CASE ~(fresh <= k) /\ GetByRefreshToken(k) = {}
    <3>1. k < fresh
      BY <2>5, EvolvesDrawn
    <3>2. ~(GetByRefreshToken(k)' # {})
      BY <2>1, <2>5, <3>1
    <3>. QED
      BY <2>2, <2>5, <3>2 DEF RefreshLife!Forward, RefreshLife!Stages
  <2>. QED
    BY <2>3, <2>4, <2>5
<1>. QED
  BY <1>1, <1>2, EvolvesStep, InvStep, Invariance, PTL
  DEF Spec, RefreshLifecycle, RefreshLife!Spec

\* Session rows implement Lifecycle.
THEOREM SessionRowLife == Spec => SessionLifecycle
<1>1. Init => SessionLife!Init
  BY InitNothing DEF SessionLife!Init
<1>2. IInv /\ IInv' /\ Evolves => SessionLife!Advance
  <2>. SUFFICES ASSUME IInv, IInv', Evolves PROVE SessionLife!Advance
    OBVIOUS
  <2>1. ASSUME NEW i \in Ids, i < fresh, Live(i)' PROVE Live(i)
    <3>1. i \in DOMAIN rows' /\ ~rows'[i].revoked /\ i # fresh
      BY <2>1 DEF Live, IInv, TypeOK, Ids
    <3>. QED
      BY <3>1 DEF Live, Evolves, RowsKept
  <2>. SUFFICES ASSUME NEW i \in Ids
       PROVE  LET old == IF fresh <= i THEN "unissued"
                         ELSE IF Live(i) THEN "valid" ELSE "dead"
                  new == IF fresh' <= i THEN "unissued"
                         ELSE IF Live(i)' THEN "valid" ELSE "dead"
              IN /\ new \in SessionLife!Stages
                 /\ new # old => <<old, new>> \in SessionLife!Forward
    BY DEF SessionLife!Advance
  <2>2. fresh' <= i => fresh <= i
    BY EvolvesDrawn
  <2>3. CASE fresh <= i
    BY <2>3 DEF SessionLife!Forward, SessionLife!Stages
  <2>4. CASE ~(fresh <= i) /\ Live(i)
    BY <2>2, <2>4 DEF SessionLife!Forward, SessionLife!Stages
  <2>5. CASE ~(fresh <= i) /\ ~Live(i)
    <3>1. i < fresh
      BY <2>5, EvolvesDrawn
    <3>2. ~(Live(i)')
      BY <2>1, <2>5, <3>1
    <3>. QED
      BY <2>2, <2>5, <3>2 DEF SessionLife!Forward, SessionLife!Stages
  <2>. QED
    BY <2>3, <2>4, <2>5
<1>. QED
  BY <1>1, <1>2, EvolvesStep, InvStep, Invariance, PTL
  DEF Spec, SessionLifecycle, SessionLife!Spec
===============================================================================
