--------------------------------- MODULE OAuth ---------------------------------
(***************************************************************************)
(* Signing in through an outside provider: the states handed out before    *)
(* the user leaves, the callback they come back on, the provider accounts  *)
(* linked to users, and the ways of linking and unlinking them.            *)
(*                                                                         *)
(* A callback reads its state from the cache, deletes it, waits for the    *)
(* provider twice, reads the tables and commits: each of those is a step   *)
(* other requests come between.  The sessions it opens live on as those of *)
(* Sessions; here they are the history of what was opened.                 *)
(***************************************************************************)
EXTENDS Naturals, FiniteSets

CONSTANTS
  Users, Tenants, Providers, Subjects,
  EmailOf,            \* the user who has, or would get, the address of a subject
  Default,            \* the tenant the documentation attaches new users to
  NoUser, NoTenant, NoIdentity,
  Procs,              \* the requests that may be in flight together
  Known,              \* users of the initial state, registered with a password
  WithFactor,         \* users who have enabled a second factor
  Joined,             \* memberships of the initial state
  Ops,                \* the operations an instance of the model issues
  MaxStates, MaxRows  \* bounds: states handed out, accounts ever linked

ASSUME NullAssumption == NoUser \notin Users /\ NoTenant \notin Tenants
ASSUME InitialAssumption ==
  /\ Known \subseteq Users /\ WithFactor \subseteq Known
  /\ EmailOf \in [Subjects -> Users]
  /\ Joined \subseteq Known \X Tenants /\ Default \in Tenants
ASSUME BoundAssumption == MaxStates \in Nat /\ MaxRows \in Nat

VARIABLES
  users, active, passwords,   \* accounts, their is_active, hashed_password set
  members,      \* memberships, pairs <<user, tenant>>
  accounts,     \* table of linked accounts: identity -> Account
  drawn,        \* account rows ever written
  states,       \* cache: outstanding states, id -> State
  issued,       \* states ever handed out
  req,          \* the requests in flight
  opened,       \* history: sessions opened, [user, tenant, member]
  spent,        \* history: states used, how often, up to 2
  newcomers,    \* history: users created by a callback
  alone         \* history: has no request begun while another was in flight?

user == <<users, active, passwords, members>>
vars == <<user, accounts, drawn, states, issued, req, opened, spent, newcomers,
          alone>>

Identities == Providers \X Subjects
Email(id) == EmailOf[id[2]]
StateIds == 1 .. MaxStates

Account == [user : Users, row : 1 .. MaxRows, renew : BOOLEAN]
State == [provider : Providers, tenant : Tenants \cup {NoTenant},
          link : Users \cup {NoUser}]

\* `phase` is how far the request got.  `user` is who it is for, once known, and
\* `fresh` whether it is to create him.
Req == [phase : {"idle", "read", "taken", "signIn", "link", "unlink", "password",
                 "renew"},
        state : StateIds \cup {0}, provider : Providers \cup {NoTenant},
        tenant : Tenants \cup {NoTenant}, user : Users \cup {NoUser},
        byLink : BOOLEAN, id : Identities \cup {NoIdentity},
        row : 0 .. MaxRows, fresh : BOOLEAN]

Idle == [phase |-> "idle", state |-> 0, provider |-> NoTenant,
         tenant |-> NoTenant, user |-> NoUser, byLink |-> FALSE,
         id |-> NoIdentity, row |-> 0, fresh |-> FALSE]

Move(p, r) == req' = [req EXCEPT ![p] = r]

\* for the history: a request begins
Begins == alone' = (alone /\ \A p \in Procs : req[p] = Idle)

-------------------------------------------------------------------------------
\* get_auth_url.  The user to link is the one of the access token presented.
Authorize(s) ==
  /\ issued < MaxStates
  /\ "authorize" \in Ops /\ (s.link # NoUser => "link" \in Ops /\ s.link \in users)
  /\ (s.tenant # NoTenant => "tenant" \in Ops)
  /\ states' = [k \in DOMAIN states \cup {issued + 1} |->
                  IF k = issued + 1 THEN s ELSE states[k]]
  /\ issued' = issued + 1
  /\ UNCHANGED <<user, accounts, drawn, req, opened, spent, newcomers, alone>>

StateExpires(k) ==
  /\ k \in DOMAIN states
  /\ states' = [j \in DOMAIN states \ {k} |-> states[j]]
  /\ UNCHANGED <<user, accounts, drawn, issued, req, opened, spent, newcomers,
                 alone>>

\* handle_callback: the state is read ...
ReadState(p, k) ==
  /\ req[p] = Idle /\ k \in DOMAIN states
  /\ Move(p, [Idle EXCEPT !.phase = "read", !.state = k,
                !.provider = states[k].provider, !.tenant = states[k].tenant,
                !.user = states[k].link, !.byLink = states[k].link # NoUser])
  /\ Begins
  /\ UNCHANGED <<user, accounts, drawn, states, issued, opened, spent, newcomers>>

\* link_provider reads the state too, and does not look at what it says.
ReadLinkState(p, k, prov, u) ==
  /\ "link" \in Ops
  /\ req[p] = Idle /\ k \in DOMAIN states /\ u \in users
  /\ Move(p, [Idle EXCEPT !.phase = "read", !.state = k, !.provider = prov,
                          !.user = u, !.byLink = TRUE])
  /\ Begins
  /\ UNCHANGED <<user, accounts, drawn, states, issued, opened, spent, newcomers>>

\* ... and deleted, whether or not it is still there.
TakeState(p) ==
  /\ req[p].phase = "read"
  /\ states' = [j \in DOMAIN states \ {req[p].state} |-> states[j]]
  /\ spent' = [spent EXCEPT ![req[p].state] = IF @ = 2 THEN 2 ELSE @ + 1]
  /\ Move(p, [req[p] EXCEPT !.phase = "taken"])
  /\ UNCHANGED <<user, accounts, drawn, issued, opened, newcomers, alone>>

-------------------------------------------------------------------------------
(* The provider has answered with an identity: the reads and the checks.    *)

TenantsOf(u) == {t \in Tenants : <<u, t>> \in members}

\* _find_or_create_user: by identity, else by address, else a new user.
FoundUser(id) == IF id \in DOMAIN accounts THEN accounts[id].user ELSE Email(id)

\* The row a request means to update, 0 for one it is to insert.
FoundRow(id) == IF id \in DOMAIN accounts THEN accounts[id].row ELSE 0

\* an account suspended is let in
SlipLetIn(u) == u \in Users

\* is_active; a user about to be created is active
LetIn(u) == u \in users => u \in active

\* The session's organisation: the one of the state, the only one, or none.  With
\* a second factor the session names none and the challenge token does.
SessionTenant(forced, u) ==
  IF u \in users \cap WithFactor THEN NoTenant
  ELSE IF forced # NoTenant THEN forced
  ELSE IF \E t \in Tenants : TenantsOf(u) = {t}
  THEN CHOOSE t \in Tenants : TenantsOf(u) = {t}
  ELSE NoTenant

LookUp(p, id) ==
  /\ req[p].phase = "taken" /\ ~req[p].byLink /\ id[1] = req[p].provider
  /\ LetIn(FoundUser(id))
  /\ Move(p, [req[p] EXCEPT !.phase = "signIn", !.id = id, !.user = FoundUser(id),
                            !.row = FoundRow(id),
                            !.fresh = FoundUser(id) \notin users,
                            !.tenant = SessionTenant(@, FoundUser(id))])
  /\ UNCHANGED <<user, accounts, drawn, states, issued, opened, spent, newcomers,
                 alone>>

\* Linked to somebody else, the identity is refused.
LookUpLink(p, id) ==
  /\ req[p].phase = "taken" /\ req[p].byLink /\ id[1] = req[p].provider
  /\ id \in DOMAIN accounts => accounts[id].user = req[p].user
  /\ Move(p, [req[p] EXCEPT !.phase = "link", !.id = id, !.row = FoundRow(id)])
  /\ UNCHANGED <<user, accounts, drawn, states, issued, opened, spent, newcomers,
                 alone>>

-------------------------------------------------------------------------------
(* Commits.                                                                *)

\* accounts without the foreign key to their user
SlipPresent(u) == u \in Users

\* A row about a user who has gone fails: foreign key, or update of no row.
Present(u) == u \in users

\* the token of the last consent is kept only if this answer repeats it
SlipRenew(old, got) == got

\* _apply_token_fields: an answer without a refresh token leaves the one stored
Renew(old, got) == old \/ got

\* the unique key of the identities is forgotten
SlipInsertable(id) == id \in Identities

\* uq_oauth_provider_uid
Insertable(id) == id \notin DOMAIN accounts

\* An update of a row that has gone fails; an insert fails on the unique key.
WriteAccount(r, got) ==
  \/ /\ r.row # 0
     /\ r.id \in DOMAIN accounts /\ accounts[r.id].row = r.row
     /\ accounts' = [accounts EXCEPT ![r.id].renew = Renew(@, got)]
     /\ UNCHANGED drawn
  \/ /\ r.row = 0 /\ drawn < MaxRows
     /\ Insertable(r.id)
     /\ accounts' = [i \in DOMAIN accounts \cup {r.id} |->
                       IF i = r.id
                       THEN [user |-> r.user, row |-> drawn + 1, renew |-> got]
                       ELSE accounts[i]]
     /\ drawn' = drawn + 1

CommitLink(p, got) ==
  /\ req[p].phase = "link" /\ Present(req[p].user)
  /\ WriteAccount(req[p], got)
  /\ Move(p, Idle)
  /\ UNCHANGED <<user, states, issued, opened, spent, newcomers,
                 alone>>

\* The user is inserted with its account when nobody had the address: refused by
\* the unique key if somebody has it by now, as an account for a user who has gone
\* is by the foreign key.
CommitSignIn(p, got) ==
  LET u == req[p].user IN
  /\ req[p].phase = "signIn"
  /\ WriteAccount(req[p], got)
  /\ \/ u \in users /\ ~req[p].fresh /\ UNCHANGED <<user, newcomers>>
     \/ /\ u \notin users /\ req[p].fresh /\ req[p].row = 0
        /\ users' = users \cup {u} /\ active' = active \cup {u}
        /\ newcomers' = newcomers \cup {u}
        /\ UNCHANGED <<passwords, members>>
  /\ opened' = opened \cup {[user |-> u, tenant |-> req[p].tenant,
                             member |-> <<u, req[p].tenant>> \in members]}
  /\ Move(p, Idle)
  /\ UNCHANGED <<states, issued, spent, alone>>

Linked(u) == {id \in DOMAIN accounts : accounts[id].user = u}

\* `< 1` for `<= 1`
SlipMayUnlink(u) == u \in passwords \/ Cardinality(Linked(u)) >= 1

MayUnlink(u) == u \in passwords \/ Cardinality(Linked(u)) > 1

\* get_by_user_and_provider raises when it finds two.
BeginUnlink(p, u, prov) ==
  /\ "unlink" \in Ops /\ req[p] = Idle /\ u \in users
  /\ MayUnlink(u)
  /\ \E id \in Linked(u) :
       /\ {j \in Linked(u) : j[1] = prov} = {id}
       /\ Move(p, [Idle EXCEPT !.phase = "unlink", !.user = u, !.id = id,
                               !.row = accounts[id].row])
  /\ Begins
  /\ UNCHANGED <<user, accounts, drawn, states, issued, opened, spent, newcomers>>

CommitUnlink(p) ==
  LET id == req[p].id IN
  /\ req[p].phase = "unlink"
  /\ id \in DOMAIN accounts /\ accounts[id].row = req[p].row
  /\ accounts' = [i \in DOMAIN accounts \ {id} |-> accounts[i]]
  /\ Move(p, Idle)
  /\ UNCHANGED <<user, drawn, states, issued, opened, spent, newcomers,
                 alone>>

\* get_valid_access_token, on behalf of a plugin that calls the provider's API:
\* the stored access token has expired, the stored refresh token gets another ...
BeginRenew(p, u, prov) ==
  /\ "renew" \in Ops /\ req[p] = Idle
  /\ \E id \in Linked(u) :
       /\ {j \in Linked(u) : j[1] = prov} = {id} /\ accounts[id].renew
       /\ Move(p, [Idle EXCEPT !.phase = "renew", !.user = u, !.id = id,
                               !.row = accounts[id].row])
  /\ Begins
  /\ UNCHANGED <<user, accounts, drawn, states, issued, opened, spent, newcomers>>

\* ... and the answer is written to the row it was read from, if that is there.
CommitRenew(p, got) ==
  /\ req[p].phase = "renew"
  /\ WriteAccount(req[p], got)
  /\ Move(p, Idle)
  /\ UNCHANGED <<user, states, issued, opened, spent, newcomers, alone>>

\* set_password, for an account that has none.
BeginSetPassword(p, u) ==
  /\ "password" \in Ops /\ req[p] = Idle /\ u \in users \ passwords
  /\ Move(p, [Idle EXCEPT !.phase = "password", !.user = u])
  /\ Begins
  /\ UNCHANGED <<user, accounts, drawn, states, issued, opened, spent, newcomers>>

CommitSetPassword(p) ==
  /\ req[p].phase = "password" /\ Present(req[p].user)
  /\ passwords' = passwords \cup {req[p].user}
  /\ Move(p, Idle)
  /\ UNCHANGED <<users, active, members, accounts, drawn, states, issued, opened,
                 spent, newcomers, alone>>

\* A check that fails, a provider that does not answer, a commit refused.
Abort(p) ==
  /\ req[p] # Idle /\ Move(p, Idle)
  /\ UNCHANGED <<user, accounts, drawn, states, issued, opened, spent, newcomers,
                 alone>>

\* What the other parts of the service do to a user meanwhile.
Elsewhere ==
  /\ "elsewhere" \in Ops
  /\ \E u \in users :
       \/ /\ active' \in {active \cup {u}, active \ {u}}
          /\ UNCHANGED <<users, passwords, members, accounts>>
       \/ /\ \E t \in Tenants : members' \in {members \cup {<<u, t>>},
                                              members \ {<<u, t>>}}
          /\ UNCHANGED <<users, active, passwords, accounts>>
       \/ /\ users' = users \ {u} /\ active' = active \ {u}
          /\ passwords' = passwords \ {u}
          /\ members' = {m \in members : m[1] # u}
          /\ accounts' = [id \in DOMAIN accounts \ Linked(u) |-> accounts[id]]
  /\ UNCHANGED <<drawn, states, issued, req, opened, spent, newcomers,
                 alone>>

-------------------------------------------------------------------------------
Init ==
  /\ users = Known /\ active = Known /\ passwords = Known
  /\ members = Joined
  /\ accounts = [id \in {} |-> Idle] /\ drawn = 0
  /\ states = [k \in {} |-> Idle] /\ issued = 0
  /\ req = [p \in Procs |-> Idle]
  /\ opened = {} /\ spent = [k \in StateIds |-> 0] /\ newcomers = {}
  /\ alone = TRUE

Callback(p) ==
  \/ \E k \in StateIds : ReadState(p, k)
  \/ \E k \in StateIds, prov \in Providers, u \in Users :
       ReadLinkState(p, k, prov, u)
  \/ TakeState(p)
  \/ \E id \in Identities : LookUp(p, id) \/ LookUpLink(p, id)
  \/ \E got \in BOOLEAN : CommitSignIn(p, got) \/ CommitLink(p, got)

Methods(p) ==
  \/ \E u \in Users, prov \in Providers : BeginUnlink(p, u, prov)
  \/ CommitUnlink(p)
  \/ \E u \in Users, prov \in Providers : BeginRenew(p, u, prov)
  \/ \E got \in BOOLEAN : CommitRenew(p, got)
  \/ \E u \in Users : BeginSetPassword(p, u)
  \/ CommitSetPassword(p)

Next ==
  \/ \E s \in State : Authorize(s)
  \/ \E k \in StateIds : StateExpires(k)
  \/ \E p \in Procs : Callback(p) \/ Methods(p) \/ Abort(p)
  \/ Elsewhere

Spec == Init /\ [][Next]_vars

-------------------------------------------------------------------------------
(* Properties.                                                             *)

\* Every variable keeps its type, and no two identities share a row.
TypeOK ==
  /\ users \subseteq Users /\ active \subseteq users /\ passwords \subseteq users
  /\ members \subseteq users \X Tenants
  /\ accounts \in [DOMAIN accounts -> Account]
  /\ DOMAIN accounts \subseteq Identities
  /\ \A id \in DOMAIN accounts : /\ accounts[id].user \in users
                                 /\ accounts[id].row <= drawn
  /\ \A i, j \in DOMAIN accounts : accounts[i].row = accounts[j].row => i = j
  /\ drawn \in 0 .. MaxRows /\ issued \in 0 .. MaxStates
  /\ states \in [DOMAIN states -> State] /\ DOMAIN states \subseteq 1 .. issued
  /\ req \in [Procs -> Req]
  /\ opened \subseteq [user : Users, tenant : Tenants \cup {NoTenant},
                       member : BOOLEAN]
  /\ spent \in [StateIds -> 0 .. 2] /\ newcomers \subseteq Users
  /\ alone \in BOOLEAN

\* An identity linked to a user stays his for as long as that link lasts, and the
\* refresh token once stored for it is not lost to an answer that has none, while
\* callbacks, links and deletions of users race for it.
LinkKept ==
  [][\A id \in DOMAIN accounts \cap DOMAIN accounts' :
       /\ accounts'[id].user = accounts[id].user
       /\ accounts[id].renew => accounts'[id].renew]_vars

\* No callback is past its reads for this user.
Quiet(u) == \A p \in Procs : ~(req[p].phase = "signIn" /\ req[p].user = u)

\* The callback refuses a suspended account whichever way it finds him, by identity
\* or by address: suspended while none is past its reads, he stays out of all of
\* them, and so without a session, until he is let in again or his account goes.
SuspendedOpensNone ==
  [][\A u \in users \ active :
       Quiet(u) /\ u \in users' \ active' =>
         Quiet(u)' /\ \A s \in opened' \ opened : s.user # u]_vars

\* docs/api/oauth.md: the last provider of an account without password cannot be
\* unlinked.  Then every user has a way in: a password, or a provider.
WayIn == \A u \in users : u \in passwords \/ Linked(u) # {}

\* services/oauth.py: the state is verified and consumed.
StateUsedOnce == \A k \in StateIds : spent[k] < 2

\* As long as no request begins while another is in flight, nobody who has no
\* password loses the last of his providers, whatever he signs in with, links
\* and unlinks, and whoever is deleted meanwhile; and no state lets two
\* callbacks in.
Sequential == alone => WayIn /\ StateUsedOnce

-------------------------------------------------------------------------------
(* What the code or the documentation says and the code does not do.       *)

\* repositories/oauth.py, get_by_user_and_provider: one row or none.
OneAccountPerProvider ==
  \A i, j \in DOMAIN accounts :
    accounts[i].user = accounts[j].user /\ i[1] = j[1] => i = j

\* services/oauth.py: the memberships are checked as login does.  Then a session
\* opened on an organisation is of one of its members.
SessionsOfMembers == \A s \in opened : s.tenant # NoTenant => s.member

\* docs/api/oauth.md: users created by a provider are attached to `default`.
NewcomersInDefault == \A u \in newcomers \cap users : <<u, Default>> \in members
=============================================================================
