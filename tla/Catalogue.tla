------------------------------- MODULE Catalogue -------------------------------
(***************************************************************************)
(* The catalogue of permissions and the platform's roles, across restarts. *)
(*                                                                         *)
(* Three parties write them.  Each start runs the seed, which brings the   *)
(* seeded permissions and three of the platform's roles back to lists in   *)
(* the code; the platform's other roles it leaves alone.  The plugins,     *)
(* loaded after this one, announce their permissions by an event and lose  *)
(* them by another when they are unloaded.  Administrators edit roles in   *)
(* between.  An event is handled in one transaction, which may fail;       *)
(* nothing is handled while the service is down.                           *)
(*                                                                         *)
(* A role is its name here.  That the platform may come to have two roles  *)
(* of one name, and a handler that looks one up then fails, is in Tenants. *)
(***************************************************************************)
EXTENDS Naturals, FiniteSets

CONSTANTS
  Perms, Plugins,
  Space,              \* the plugin named by the prefix of a permission
  Reserved,           \* prefixes no plugin may declare in
  Roles, Admin,       \* the platform's roles, one of them the administrator's
  SeededRoles,        \* those of the seed: admin, user and tenant_admin
  Seeded,             \* permissions of the seed
  Listed,             \* the seed's list for each of its roles
  Platform,           \* the source of a permission no plugin owns
  Ops                 \* what an instance allows: "restart", "fail", "edit"

ASSUME CatalogueAssumption ==
  /\ Space \in [Perms -> Plugins] /\ Reserved \subseteq Plugins
  /\ Admin \in SeededRoles /\ SeededRoles \subseteq Roles
  /\ Seeded \subseteq Perms
  /\ Listed \in [SeededRoles -> SUBSET Seeded] /\ Listed[Admin] = Seeded
  /\ Platform \notin Plugins

VARIABLES
  perms,      \* table of permissions: name -> [source, active]
  roles,      \* the platform roles there are
  held,       \* permissions of each of them
  up,         \* the service is loaded
  loaded,     \* the plugins the kernel has loaded
  waiting,    \* the event of each plugin that is still to be handled
  declared,   \* history: plugins declared since the start, and still loaded
  given,      \* history: pairs <<role, permission>> given and not taken back,
              \* to a role of the seed since the start, to another one ever
  taken,      \* history: permissions taken from the administrator's role since
  unseen      \* history: plugins that went and of whom no handler heard it

vars == <<perms, roles, held, up, loaded, waiting, declared, given, taken, unseen>>

Permission == [source : Plugins \cup {Platform}, active : BOOLEAN]
Events == {"none", "declare", "unloaded"}

-------------------------------------------------------------------------------
(* Operators on the tables.                                                *)

\* neither the prefix nor the reserved list is looked at
SlipValidGrant(g, n) == n \in Perms

\* _is_valid_grant
ValidGrant(g, n) == g \notin Reserved /\ Space[n] = g

\* reconcile_plugin_grants: what is declared is the plugin's and active, what it
\* owns and no longer declares is inactive.
Reconciled(g, grants) ==
  LET desired == {n \in grants : ValidGrant(g, n)} IN
  [n \in DOMAIN perms \cup desired |->
     IF n \in desired THEN [source |-> g, active |-> TRUE]
     ELSE IF perms[n].source = g THEN [perms[n] EXCEPT !.active = FALSE]
     ELSE perms[n]]

\* the rows are deleted
SlipDisabled(g) == [n \in {m \in DOMAIN perms : perms[m].source # g} |-> perms[n]]

\* what the plugin has given to roles stays on
SlipDisabledUnused(g) ==
  [n \in DOMAIN perms |->
     IF perms[n].source = g /\ \A r \in Roles : n \notin held[r]
     THEN [perms[n] EXCEPT !.active = FALSE] ELSE perms[n]]

\* disable_plugin
Disabled(g) ==
  [n \in DOMAIN perms |->
     IF perms[n].source = g THEN [perms[n] EXCEPT !.active = FALSE] ELSE perms[n]]

\* the administrator is given what the table held before the declaration
SlipOffered(g, table) ==
  {n \in DOMAIN perms : perms[n].source = g /\ perms[n].active}

\* What the plugin has to offer the roles: list_by_plugin, the active ones.
Offered(g, table) == {n \in DOMAIN table : table[n].source = g /\ table[n].active}

\* All of it to the administrator's role, to the others what is asked for them,
\* where there are such roles.
Shares(g, table, asked) ==
  [r \in Roles |-> IF r = Admin THEN Offered(g, table)
                   ELSE IF r \in roles THEN Offered(g, table) \cap asked[r]
                   ELSE {}]

\* seed_permissions: a row that is there is activated and keeps its source
SeededTable ==
  [n \in DOMAIN perms \cup Seeded |->
     IF n \notin Seeded THEN perms[n]
     ELSE IF n \in DOMAIN perms THEN [perms[n] EXCEPT !.active = TRUE]
     ELSE [source |-> Platform, active |-> TRUE]]

\* the seed adds what is missing and removes nothing
SlipSynced(r) == held[r] \cup Listed[r]

\* _sync_role_permissions: exactly the list
Synced(r) == Listed[r]

Pairs(f) == UNION {{<<r, n>> : n \in f[r]} : r \in Roles}

\* what was given to the roles the seed does not sync
Lasting == {x \in given : x[1] \notin SeededRoles}

-------------------------------------------------------------------------------
(* The service.                                                            *)

\* run_seed, then the listeners; the plugins already loaded come after.
Start ==
  /\ ~up /\ up' = TRUE
  /\ perms' = SeededTable
  /\ roles' = roles \cup SeededRoles
  /\ held' = [r \in Roles |-> IF r \in SeededRoles THEN Synced(r) ELSE held[r]]
  /\ waiting' = [g \in Plugins |-> IF g \in loaded THEN "declare" ELSE "none"]
  /\ declared' = {} /\ given' = Lasting /\ taken' = {}
  /\ UNCHANGED <<loaded, unseen>>

Stop ==
  /\ "restart" \in Ops
  /\ up /\ up' = FALSE
  /\ waiting' = [g \in Plugins |-> "none"]
  /\ declared' = {} /\ given' = Lasting /\ taken' = {}
  /\ unseen' = unseen \cup {g \in Plugins : waiting[g] = "unloaded"}
  /\ UNCHANGED <<perms, roles, held, loaded>>

\* The kernel: a plugin comes, announces itself anew, or goes.
Load(g) ==
  /\ waiting[g] = "none"
  /\ loaded' = loaded \cup {g}
  /\ waiting' = [waiting EXCEPT ![g] = IF up THEN "declare" ELSE "none"]
  /\ UNCHANGED <<perms, roles, held, up, declared, given, taken, unseen>>

Unload(g) ==
  /\ waiting[g] = "none" /\ g \in loaded
  /\ loaded' = loaded \ {g} /\ declared' = declared \ {g}
  /\ waiting' = [waiting EXCEPT ![g] = IF up THEN "unloaded" ELSE "none"]
  /\ unseen' = IF up THEN unseen ELSE unseen \cup {g}
  /\ UNCHANGED <<perms, roles, held, up, given, taken>>

\* _on_rbac_declare
OnDeclare(g, grants, asked) ==
  LET table == Reconciled(g, grants)
      shares == Shares(g, table, asked) IN
  /\ waiting[g] = "declare"
  /\ perms' = table
  /\ held' = [r \in Roles |-> held[r] \cup shares[r]]
  /\ given' = given \cup Pairs(shares) /\ taken' = taken \ shares[Admin]
  /\ declared' = declared \cup {g}
  /\ waiting' = [waiting EXCEPT ![g] = "none"]
  /\ UNCHANGED <<roles, up, loaded, unseen>>

\* _on_plugin_unloaded
OnUnloaded(g) ==
  /\ waiting[g] = "unloaded"
  /\ perms' = Disabled(g)
  /\ unseen' = unseen \ {g}
  /\ waiting' = [waiting EXCEPT ![g] = "none"]
  /\ UNCHANGED <<roles, held, up, loaded, declared, given, taken>>

\* The handler's transaction fails, and the event is not sent again.
Fail(g) ==
  /\ "fail" \in Ops /\ waiting[g] # "none"
  /\ unseen' = IF waiting[g] = "unloaded" THEN unseen \cup {g} ELSE unseen
  /\ waiting' = [waiting EXCEPT ![g] = "none"]
  /\ UNCHANGED <<perms, roles, held, up, loaded, declared, given, taken>>

-------------------------------------------------------------------------------
(* Administrators.                                                         *)

CreatePermission(n) ==
  /\ "edit" \in Ops /\ up /\ n \notin DOMAIN perms
  /\ perms' = [m \in DOMAIN perms \cup {n} |->
                 IF m = n THEN [source |-> Platform, active |-> TRUE]
                 ELSE perms[m]]
  /\ UNCHANGED <<roles, held, up, loaded, waiting, declared, given, taken, unseen>>

\* A role with nothing, of any name (create_role), or one that the deletion of its
\* organisation leaves to the platform with what it holds.  None ever goes.
NewRole(r, holds) ==
  /\ "role" \in Ops /\ up /\ r \notin roles /\ holds \subseteq DOMAIN perms
  /\ roles' = roles \cup {r}
  /\ held' = [held EXCEPT ![r] = holds]
  /\ given' = given \cup ({r} \X holds)
  /\ UNCHANGED <<perms, up, loaded, waiting, declared, taken, unseen>>

\* The route gives inactive permissions too; the settings screen does not.
AssignPermission(r, n) ==
  /\ "edit" \in Ops /\ up /\ r \in roles /\ n \in DOMAIN perms \ held[r]
  /\ held' = [held EXCEPT ![r] = @ \cup {n}]
  /\ given' = given \cup {<<r, n>>}
  /\ taken' = IF r = Admin THEN taken \ {n} ELSE taken
  /\ UNCHANGED <<perms, roles, up, loaded, waiting, declared, unseen>>

RemovePermission(r, n) ==
  /\ "edit" \in Ops /\ up /\ n \in held[r]
  /\ held' = [held EXCEPT ![r] = @ \ {n}]
  /\ given' = given \ {<<r, n>>}
  /\ taken' = IF r = Admin THEN taken \cup {n} ELSE taken
  /\ UNCHANGED <<perms, roles, up, loaded, waiting, declared, unseen>>

Init ==
  /\ perms = [n \in {} |-> 0] /\ roles = {} /\ held = [r \in Roles |-> {}]
  /\ up = FALSE /\ loaded = {} /\ waiting = [g \in Plugins |-> "none"]
  /\ declared = {} /\ given = {} /\ taken = {} /\ unseen = {}

Kernel == Start \/ Stop \/ \E g \in Plugins : Load(g) \/ Unload(g)

Handler(g) ==
  \/ \E grants \in SUBSET Perms :
       \E asked \in [Roles \ {Admin} -> SUBSET grants] : OnDeclare(g, grants, asked)
  \/ OnUnloaded(g)

Editing ==
  \/ \E n \in Perms : CreatePermission(n)
  \/ \E r \in Roles, holds \in SUBSET Perms : NewRole(r, holds)
  \/ \E r \in Roles, n \in Perms : AssignPermission(r, n) \/ RemovePermission(r, n)

Next ==
  \/ Kernel
  \/ \E g \in Plugins : Handler(g) \/ Fail(g)
  \/ Editing

Spec == Init /\ [][Next]_vars

-------------------------------------------------------------------------------
(* Properties.                                                             *)

\* Every variable keeps its type, the roles hold permissions that exist, and only a
\* running service has events to handle.
TypeOK ==
  /\ perms \in [DOMAIN perms -> Permission] /\ DOMAIN perms \subseteq Perms
  /\ roles \subseteq Roles /\ (up => SeededRoles \subseteq roles)
  /\ held \in [Roles -> SUBSET DOMAIN perms]
  /\ \A r \in Roles \ roles : held[r] = {}
  /\ up \in BOOLEAN /\ loaded \subseteq Plugins
  /\ waiting \in [Plugins -> Events]
  /\ ~up => \A g \in Plugins : waiting[g] = "none"
  /\ declared \subseteq loaded
  /\ given \subseteq Roles \X Perms /\ taken \subseteq Perms
  /\ unseen \subseteq Plugins

\* While the service is up, plugins come and go without touching what the others
\* and the platform own, whatever they declare: a permission that changes is of the
\* plugin whose event is handled, and of no reserved prefix.
PluginsApart ==
  [][up /\ up' =>
       \A n \in DOMAIN perms : perms'[n] # perms[n] =>
         Space[n] \notin Reserved /\ waiting[Space[n]] # "none"]_vars

\* The administrator's role has every active permission that the seed created or a
\* plugin declared since the start, in whatever order plugins, restarts and failed
\* events came, unless it was taken from it by hand.
AdminComplete ==
  up => \A n \in DOMAIN perms :
          perms[n].active /\ (perms[n].source \in declared \/ n \in Seeded) =>
            n \in held[Admin] \cup taken

\* services/seed.py, _sync_role_permissions: a start takes from admin, user and
\* tenant_admin all that plugins and administrators had given them, and nothing from
\* the platform's other roles.  So, through any restarts, declarations and edits, a
\* role has what it was given and was not taken back, since the start or ever; and
\* beyond that, nothing but the seed's list.
HeldAccounted ==
  \A r \in Roles :
    LET got == {n \in Perms : <<r, n>> \in given} IN
    /\ got \subseteq held[r]
    /\ up /\ r \in SeededRoles => held[r] \subseteq got \cup Listed[r]
    /\ r \notin SeededRoles => held[r] = got

\* models/rbac.py: a permission is disabled when its plugin is gone.  Here: once the
\* service is up and has handled every event.
GoneIsDisabled ==
  up /\ (\A g \in Plugins : waiting[g] = "none") =>
    \A n \in DOMAIN perms :
      perms[n].active => perms[n].source \in loaded \cup {Platform}

\* A permission that outlives its plugin is one the seed switches on at each start,
\* or of a plugin that went while the service was down or whose event was lost:
\* every going that a handler hears of is made good, after any restarts, failures
\* and reloads.
GoneWhenHeard ==
  up /\ (\A g \in Plugins : waiting[g] = "none") =>
    \A n \in DOMAIN perms \ Seeded :
      perms[n].active => perms[n].source \in loaded \cup unseen \cup {Platform}

-------------------------------------------------------------------------------
(* What the code says and does not do.                                     *)

\* models/rbac.py: a permission of the seed has no plugin.
SeededHasNoPlugin ==
  \A n \in DOMAIN perms \cap Seeded : perms[n].source = Platform
=============================================================================
