---------------------------- MODULE CatalogueProofs ----------------------------
(***************************************************************************)
(* What holds of the catalogue for every set of permissions, plugins and   *)
(* roles, whatever the seed lists, and through any number of restarts,     *)
(* reloads and failed events.                                              *)
(***************************************************************************)
EXTENDS Catalogue, TLAPS

-------------------------------------------------------------------------------
(* The inductive invariant.                                                *)

\* Only a plugin that is loaded has a declaration to be handled.
Announced == \A g \in Plugins : waiting[g] = "declare" => g \in loaded

\* What a plugin owns has its prefix, which is no reserved one.
Owned ==
  \A n \in DOMAIN perms : perms[n].source \in Plugins =>
    Space[n] = perms[n].source /\ Space[n] \notin Reserved

\* While the service runs, the permissions of the seed are in the table.
SeedThere == up => Seeded \subseteq DOMAIN perms

\* GoneWhenHeard, also while events are still to be handled and while the
\* service is down.
Accounted ==
  \A n \in DOMAIN perms \ Seeded : perms[n].active =>
    \/ perms[n].source \in loaded \cup unseen \cup {Platform}
    \/ perms[n].source \in Plugins /\ waiting[perms[n].source] = "unloaded"

IInv == /\ TypeOK /\ Announced /\ Owned /\ SeedThere /\ Accounted
        /\ AdminComplete /\ HeldAccounted

-------------------------------------------------------------------------------
(* Operators on the tables.                                                *)

\* A declaration leaves every permission in the table, changes those of the
\* plugin and those it may declare, and switches on no other.
LEMMA ReconciledFacts ==
  ASSUME TypeOK, Owned, NEW g \in Plugins, NEW grants \in SUBSET Perms
  PROVE  /\ Reconciled(g, grants) \in [DOMAIN Reconciled(g, grants) -> Permission]
         /\ DOMAIN perms \subseteq DOMAIN Reconciled(g, grants)
         /\ DOMAIN Reconciled(g, grants) \subseteq Perms
         /\ \A n \in DOMAIN Reconciled(g, grants) :
              \/ n \in DOMAIN perms /\ Reconciled(g, grants)[n] = perms[n]
              \/ /\ Reconciled(g, grants)[n].source = g
                 /\ Space[n] = g /\ g \notin Reserved
<1>. DEFINE D == {n \in grants : ValidGrant(g, n)}
            T == Reconciled(g, grants)
            on == [source |-> g, active |-> TRUE]
<1>1. /\ DOMAIN T = DOMAIN perms \cup D
      /\ \A n \in D : T[n] = on /\ n \in Perms /\ Space[n] = g /\ g \notin Reserved
      /\ \A n \in DOMAIN perms \ D :
           IF perms[n].source = g THEN T[n] = [perms[n] EXCEPT !.active = FALSE]
           ELSE T[n] = perms[n]
  BY DEF Reconciled, ValidGrant
<1>2. on \in Permission /\ on.source = g
  BY DEF Permission
<1>3. ASSUME NEW n \in DOMAIN perms
      PROVE  /\ perms[n] \in Permission
             /\ [perms[n] EXCEPT !.active = FALSE] \in Permission
             /\ [perms[n] EXCEPT !.active = FALSE].source = perms[n].source
  <2>1. perms[n] \in Permission
    BY DEF TypeOK
  <2>. QED
    BY <2>1 DEF Permission
<1>. HIDE DEF on
<1>4. \A n \in DOMAIN T : T[n] \in Permission
  BY <1>1, <1>2, <1>3
<1>5. T \in [DOMAIN T -> Permission]
  BY <1>4 DEF Reconciled
<1>6. \A n \in DOMAIN T :
        \/ n \in DOMAIN perms /\ T[n] = perms[n]
        \/ T[n].source = g /\ Space[n] = g /\ g \notin Reserved
  BY <1>1, <1>2, <1>3 DEF Owned
<1>7. DOMAIN perms \subseteq DOMAIN T /\ DOMAIN T \subseteq Perms
  BY <1>1 DEF TypeOK
<1>. QED
  BY <1>5, <1>6, <1>7

\* A plugin that goes takes no row with it: its permissions are switched off.
LEMMA DisabledFacts ==
  ASSUME TypeOK, NEW g \in Plugins
  PROVE  /\ Disabled(g) \in [DOMAIN perms -> Permission]
         /\ \A n \in DOMAIN perms :
              IF perms[n].source = g
              THEN Disabled(g)[n].source = g /\ ~Disabled(g)[n].active
              ELSE Disabled(g)[n] = perms[n]
<1>1. ASSUME NEW n \in DOMAIN perms
      PROVE  /\ perms[n] \in Permission
             /\ [perms[n] EXCEPT !.active = FALSE] \in Permission
             /\ [perms[n] EXCEPT !.active = FALSE].source = perms[n].source
             /\ ~[perms[n] EXCEPT !.active = FALSE].active
  <2>1. perms[n] \in Permission
    BY DEF TypeOK
  <2>. QED
    BY <2>1 DEF Permission
<1>. QED
  BY <1>1 DEF Disabled

\* The seed adds its permissions as the platform's and changes no source.
LEMMA SeededFacts ==
  ASSUME TypeOK
  PROVE  /\ SeededTable \in [DOMAIN perms \cup Seeded -> Permission]
         /\ \A n \in DOMAIN perms :
              /\ SeededTable[n].source = perms[n].source
              /\ n \notin Seeded => SeededTable[n] = perms[n]
         /\ \A n \in Seeded \ DOMAIN perms : SeededTable[n].source = Platform
<1>1. ASSUME NEW n \in DOMAIN perms
      PROVE  /\ perms[n] \in Permission
             /\ [perms[n] EXCEPT !.active = TRUE] \in Permission
             /\ [perms[n] EXCEPT !.active = TRUE].source = perms[n].source
  <2>1. perms[n] \in Permission
    BY DEF TypeOK
  <2>. QED
    BY <2>1 DEF Permission
<1>2. /\ [source |-> Platform, active |-> TRUE] \in Permission
      /\ [source |-> Platform, active |-> TRUE].source = Platform
  BY DEF Permission
<1>. QED
  BY <1>1, <1>2 DEF SeededTable

\* The roles get permissions that are in the table, the administrator's all
\* that is active of the plugin, and what they get is on record.
LEMMA SharesFacts ==
  ASSUME NEW g, NEW table, NEW asked
  PROVE  /\ Shares(g, table, asked) \in [Roles -> SUBSET DOMAIN table]
         /\ Shares(g, table, asked)[Admin] = Offered(g, table)
         /\ \A r \in Roles : r \in roles \/ r = Admin
                            \/ Shares(g, table, asked)[r] = {}
         /\ \A r \in Roles : \A n :
              n \in Shares(g, table, asked)[r] <=>
                <<r, n>> \in Pairs(Shares(g, table, asked))
         /\ Pairs(Shares(g, table, asked)) \subseteq Roles \X DOMAIN table
<1>. DEFINE S == Shares(g, table, asked)
<1>1. Offered(g, table) \in SUBSET DOMAIN table
  BY DEF Offered
<1>2. /\ S \in [Roles -> SUBSET DOMAIN table] /\ S[Admin] = Offered(g, table)
      /\ \A r \in Roles : r \in roles \/ r = Admin \/ S[r] = {}
  BY <1>1, CatalogueAssumption DEF Shares
<1>. HIDE DEF S
<1>3. ASSUME NEW r \in Roles, NEW n
      PROVE  n \in S[r] <=> <<r, n>> \in Pairs(S)
  BY DEF Pairs
<1>4. Pairs(S) \subseteq Roles \X DOMAIN table
  BY <1>2 DEF Pairs
<1>. QED
  BY <1>2, <1>3, <1>4 DEF S

-------------------------------------------------------------------------------
(* The steps.                                                              *)

\* What one declaration does, with S what the roles get of it.
Declares(g, S) ==
  /\ waiting[g] = "declare"
  /\ perms' \in [DOMAIN perms' -> Permission]
  /\ DOMAIN perms \subseteq DOMAIN perms' /\ DOMAIN perms' \subseteq Perms
  /\ \A n \in DOMAIN perms' :
       \/ n \in DOMAIN perms /\ perms'[n] = perms[n]
       \/ perms'[n].source = g /\ Space[n] = g /\ g \notin Reserved
  /\ S \in [Roles -> SUBSET DOMAIN perms']
  /\ \A n \in DOMAIN perms' :
       perms'[n].source = g /\ perms'[n].active => n \in S[Admin]
  /\ held' = [r \in Roles |-> held[r] \cup S[r]]
  /\ \A r \in Roles : r \in roles \/ r = Admin \/ S[r] = {}
  /\ \A r \in Roles : \A n :
       <<r, n>> \in given' <=> <<r, n>> \in given \/ n \in S[r]
  /\ given' \subseteq given \cup (Roles \X Perms)
  /\ taken' = taken \ S[Admin]
  /\ declared' = declared \cup {g}
  /\ waiting' = [waiting EXCEPT ![g] = "none"]
  /\ UNCHANGED <<roles, up, loaded, unseen>>

LEMMA DeclareFacts ==
  ASSUME IInv, NEW g \in Plugins, NEW grants \in SUBSET Perms, NEW asked,
         OnDeclare(g, grants, asked)
  PROVE  \E S : Declares(g, S)
<1>1. PICK T, S :
        /\ T = Reconciled(g, grants) /\ S = Shares(g, T, asked)
        /\ waiting[g] = "declare" /\ perms' = T
        /\ held' = [r \in Roles |-> held[r] \cup S[r]]
        /\ given' = given \cup Pairs(S) /\ taken' = taken \ S[Admin]
        /\ declared' = declared \cup {g}
        /\ waiting' = [waiting EXCEPT ![g] = "none"]
        /\ UNCHANGED <<roles, up, loaded, unseen>>
  BY DEF OnDeclare
<1>2. /\ T \in [DOMAIN T -> Permission]
      /\ DOMAIN perms \subseteq DOMAIN T /\ DOMAIN T \subseteq Perms
      /\ \A n \in DOMAIN T :
           \/ n \in DOMAIN perms /\ T[n] = perms[n]
           \/ T[n].source = g /\ Space[n] = g /\ g \notin Reserved
  BY <1>1, ReconciledFacts DEF IInv
<1>3. /\ S \in [Roles -> SUBSET DOMAIN T] /\ S[Admin] = Offered(g, T)
      /\ \A r \in Roles : r \in roles \/ r = Admin \/ S[r] = {}
      /\ \A r \in Roles : \A n : n \in S[r] <=> <<r, n>> \in Pairs(S)
      /\ Pairs(S) \subseteq Roles \X DOMAIN T
  BY <1>1, SharesFacts
<1>4. \A n \in DOMAIN T : T[n].source = g /\ T[n].active => n \in S[Admin]
  BY <1>3 DEF Offered
<1>5. \A r \in Roles : \A n :
       <<r, n>> \in given' <=> <<r, n>> \in given \/ n \in S[r]
  BY <1>1, <1>3
<1>6. given' \subseteq given \cup (Roles \X Perms)
  BY <1>1, <1>2, <1>3
<1>. QED
  BY <1>1, <1>2, <1>3, <1>4, <1>5, <1>6 DEF Declares

\* The steps, as the proofs below tell them apart.
LEMMA Steps ==
  ASSUME IInv, [Next]_vars
  PROVE  \/ Start \/ Stop
         \/ \E g \in Plugins : \/ Load(g) \/ Unload(g)
                               \/ OnUnloaded(g) \/ Fail(g)
                               \/ \E S : Declares(g, S)
         \/ \E n \in Perms : CreatePermission(n)
         \/ \E r \in Roles, holds \in SUBSET Perms : NewRole(r, holds)
         \/ \E r \in Roles, n \in Perms :
              AssignPermission(r, n) \/ RemovePermission(r, n)
         \/ UNCHANGED vars
BY DeclareFacts DEF Next, Kernel, Handler, Editing

LEMMA TypeStep == IInv /\ [Next]_vars => TypeOK'
<1>. SUFFICES ASSUME IInv, [Next]_vars PROVE TypeOK'
  OBVIOUS
<1>0. TypeOK
  BY DEF IInv
<1>1. CASE Start
  <2>1. /\ perms' \in [DOMAIN perms' -> Permission]
        /\ DOMAIN perms' = DOMAIN perms \cup Seeded
    BY <1>0, <1>1, SeededFacts DEF Start
  <2>2. /\ DOMAIN perms' \subseteq Perms
        /\ held' \in [Roles -> SUBSET DOMAIN perms']
    BY <1>0, <1>1, <2>1, CatalogueAssumption DEF Start, Synced, TypeOK
  <2>3. /\ roles' = roles \cup SeededRoles /\ roles' \subseteq Roles
        /\ \A r \in Roles \ roles' : held'[r] = {}
    BY <1>0, <1>1, CatalogueAssumption DEF Start, TypeOK
  <2>4. given' \subseteq Roles \X Perms /\ taken' \subseteq Perms
    BY <1>0, <1>1 DEF Start, Lasting, TypeOK
  <2>. QED
    BY <1>0, <1>1, <2>1, <2>2, <2>3, <2>4 DEF Start, TypeOK, Events
<1>2. CASE Stop
  BY <1>0, <1>2 DEF Stop, Lasting, TypeOK, Events
<1>3. ASSUME NEW g \in Plugins, Load(g) \/ Unload(g) PROVE TypeOK'
  BY <1>0, <1>3 DEF Load, Unload, TypeOK, Events
<1>4. ASSUME NEW g \in Plugins, OnUnloaded(g) PROVE TypeOK'
  <2>1. /\ perms' \in [DOMAIN perms -> Permission]
        /\ UNCHANGED <<roles, held, up, loaded, declared, given, taken>>
        /\ unseen' = unseen \ {g}
        /\ waiting' = [waiting EXCEPT ![g] = "none"]
    BY <1>0, <1>4, DisabledFacts DEF OnUnloaded
  <2>. QED
    BY <1>0, <2>1 DEF TypeOK, Events
<1>5. ASSUME NEW g \in Plugins, Fail(g) PROVE TypeOK'
  BY <1>0, <1>5 DEF Fail, TypeOK, Events
<1>6. ASSUME NEW g \in Plugins, NEW S, Declares(g, S) PROVE TypeOK'
  <2>1. g \in loaded
    BY <1>6 DEF Declares, IInv, Announced
  <2>2. held' \in [Roles -> SUBSET DOMAIN perms']
    BY <1>0, <1>6 DEF Declares, TypeOK
  <2>3. up' = up /\ (~up => \A k \in Plugins : waiting'[k] = "none")
    BY <1>0, <1>6 DEF Declares, TypeOK
  <2>4. given' \subseteq Roles \X Perms /\ taken' \subseteq Perms
    BY <1>0, <1>6 DEF Declares, TypeOK
  <2>5. \A r \in Roles \ roles : held'[r] = {}
    <3>1. up /\ Admin \in roles
      BY <1>0, <1>6, CatalogueAssumption DEF Declares, TypeOK
    <3>. QED
      BY <1>0, <1>6, <3>1 DEF Declares, TypeOK
  <2>. QED
    BY <1>0, <1>6, <2>1, <2>2, <2>3, <2>4, <2>5 DEF Declares, TypeOK, Events
<1>7. ASSUME NEW n \in Perms, CreatePermission(n) PROVE TypeOK'
  <2>1. [source |-> Platform, active |-> TRUE] \in Permission
    BY DEF Permission
  <2>2. /\ perms' \in [DOMAIN perms' -> Permission]
        /\ DOMAIN perms' = DOMAIN perms \cup {n}
    BY <1>0, <1>7, <2>1 DEF CreatePermission, TypeOK
  <2>3. held \in [Roles -> SUBSET DOMAIN perms']
    BY <1>0, <2>2 DEF TypeOK
  <2>. QED
    BY <1>0, <1>7, <2>2, <2>3 DEF CreatePermission, TypeOK
<1>8. ASSUME NEW r \in Roles, NEW n \in Perms,
             AssignPermission(r, n) \/ RemovePermission(r, n)
      PROVE  TypeOK'
  <2>1. /\ held' \in [Roles -> SUBSET DOMAIN perms]
        /\ \A q \in Roles \ roles : held'[q] = {}
    BY <1>0, <1>8 DEF AssignPermission, RemovePermission, TypeOK
  <2>2. given' \subseteq Roles \X Perms /\ taken' \subseteq Perms
    BY <1>0, <1>8, CatalogueAssumption
    DEF AssignPermission, RemovePermission, TypeOK
  <2>. QED
    BY <1>0, <1>8, <2>1, <2>2 DEF AssignPermission, RemovePermission, TypeOK
<1>9. ASSUME NEW r \in Roles, NEW holds \in SUBSET Perms, NewRole(r, holds)
      PROVE  TypeOK'
  <2>1. /\ held' \in [Roles -> SUBSET DOMAIN perms]
        /\ \A q \in Roles \ roles' : held'[q] = {}
    BY <1>0, <1>9 DEF NewRole, TypeOK
  <2>2. given' \subseteq Roles \X Perms /\ roles' \subseteq Roles
    BY <1>0, <1>9 DEF NewRole, TypeOK
  <2>. QED
    BY <1>0, <1>9, <2>1, <2>2 DEF NewRole, TypeOK
<1>10. CASE UNCHANGED vars
  BY <1>0, <1>10 DEF vars, TypeOK
<1>. QED
  BY <1>1, <1>2, <1>3, <1>4, <1>5, <1>6, <1>7, <1>8, <1>9, <1>10, Steps

LEMMA AnnouncedStep == IInv /\ [Next]_vars => Announced'
<1>. SUFFICES ASSUME IInv, [Next]_vars PROVE Announced'
  OBVIOUS
<1>0. waiting \in [Plugins -> Events] /\ Announced
  BY DEF IInv, TypeOK
<1>1. ASSUME NEW g \in Plugins, NEW S, Declares(g, S) PROVE Announced'
  BY <1>0, <1>1 DEF Declares, Announced
<1>2. ASSUME NEW g \in Plugins,
             Load(g) \/ Unload(g) \/ OnUnloaded(g) \/ Fail(g)
      PROVE  Announced'
  BY <1>0, <1>2 DEF Load, Unload, OnUnloaded, Fail, Announced
<1>. QED
  BY <1>0, <1>1, <1>2, Steps
  DEF Announced, Start, Stop, CreatePermission, NewRole, AssignPermission,
      RemovePermission, vars

\* What a step does to the table.
LEMMA TableStep ==
  ASSUME IInv, [Next]_vars
  PROVE  /\ DOMAIN perms \subseteq DOMAIN perms'
         /\ \A n \in DOMAIN perms' :
              \/ n \in DOMAIN perms /\ perms'[n].source = perms[n].source
              \/ perms'[n].source = Platform
              \/ /\ perms'[n].source = Space[n] /\ Space[n] \notin Reserved
                 /\ Space[n] \in Plugins
<1>0. TypeOK
  BY DEF IInv
<1>1. CASE Start
  BY <1>0, <1>1, SeededFacts DEF Start
<1>2. ASSUME NEW g \in Plugins, NEW S, Declares(g, S)
      PROVE  /\ DOMAIN perms \subseteq DOMAIN perms'
             /\ \A n \in DOMAIN perms' :
                  \/ n \in DOMAIN perms /\ perms'[n].source = perms[n].source
                  \/ /\ perms'[n].source = Space[n] /\ Space[n] \notin Reserved
                     /\ Space[n] \in Plugins
  BY <1>2 DEF Declares
<1>3. ASSUME NEW g \in Plugins, OnUnloaded(g)
      PROVE  /\ DOMAIN perms' = DOMAIN perms
             /\ \A n \in DOMAIN perms : perms'[n].source = perms[n].source
  BY <1>0, <1>3, DisabledFacts DEF OnUnloaded
<1>4. ASSUME NEW n \in Perms, CreatePermission(n)
      PROVE  /\ DOMAIN perms \subseteq DOMAIN perms'
             /\ \A k \in DOMAIN perms' :
                  \/ k \in DOMAIN perms /\ perms'[k].source = perms[k].source
                  \/ perms'[k].source = Platform
  BY <1>4 DEF CreatePermission
<1>5. CASE perms' = perms
  BY <1>5
<1>. QED
  BY <1>1, <1>2, <1>3, <1>4, <1>5, Steps
  DEF Stop, Load, Unload, Fail, NewRole, AssignPermission, RemovePermission,
      vars

LEMMA OwnedStep == IInv /\ [Next]_vars => Owned' /\ SeedThere'
<1>. SUFFICES ASSUME IInv, [Next]_vars PROVE Owned' /\ SeedThere'
  OBVIOUS
<1>1. Owned'
  BY TableStep, CatalogueAssumption DEF IInv, Owned
<1>2. up' => up \/ Start
  BY Steps
  DEF Stop, Load, Unload, OnUnloaded, Fail, Declares, CreatePermission,
      NewRole, AssignPermission, RemovePermission, vars
<1>3. CASE Start
  <2>1. DOMAIN perms' = DOMAIN perms \cup Seeded
    BY <1>3, SeededFacts DEF Start, IInv
  <2>. QED
    BY <1>1, <2>1 DEF SeedThere
<1>. QED
  BY <1>1, <1>2, <1>3, TableStep DEF IInv, SeedThere

LEMMA AccountedStep == IInv /\ [Next]_vars => Accounted'
<1>. SUFFICES ASSUME IInv, [Next]_vars PROVE Accounted'
  OBVIOUS
<1>0. /\ TypeOK /\ Accounted /\ Announced
      /\ waiting \in [Plugins -> Events]
  BY DEF IInv, TypeOK
<1>1. CASE Start
  <2>1. \A g \in Plugins : waiting[g] = "none"
    BY <1>0, <1>1 DEF Start, TypeOK
  <2>2. \A n \in DOMAIN perms' \ Seeded :
          n \in DOMAIN perms /\ perms'[n] = perms[n]
    BY <1>0, <1>1, SeededFacts DEF Start
  <2>3. loaded' = loaded /\ unseen' = unseen
    BY <1>1 DEF Start
  <2>. QED
    BY <1>0, <2>1, <2>2, <2>3 DEF Accounted
<1>2. CASE Stop
  BY <1>0, <1>2 DEF Stop, Accounted
<1>3. ASSUME NEW g \in Plugins, Load(g) PROVE Accounted'
  BY <1>0, <1>3 DEF Load, Accounted
<1>4. ASSUME NEW g \in Plugins, Unload(g) PROVE Accounted'
  BY <1>0, <1>4 DEF Unload, Accounted
<1>5. ASSUME NEW g \in Plugins, OnUnloaded(g) PROVE Accounted'
  <2>1. \A n \in DOMAIN perms' :
          perms'[n].active =>
            /\ n \in DOMAIN perms /\ perms'[n] = perms[n]
            /\ perms[n].source # g
    BY <1>0, <1>5, DisabledFacts DEF OnUnloaded
  <2>2. /\ loaded' = loaded /\ unseen' = unseen \ {g}
        /\ waiting' = [waiting EXCEPT ![g] = "none"]
    BY <1>5 DEF OnUnloaded
  <2>. QED
    BY <1>0, <2>1, <2>2 DEF Accounted
<1>6. ASSUME NEW g \in Plugins, Fail(g) PROVE Accounted'
  BY <1>0, <1>6 DEF Fail, Accounted
<1>7. ASSUME NEW g \in Plugins, NEW S, Declares(g, S) PROVE Accounted'
  <2>1. /\ loaded' = loaded /\ unseen' = unseen /\ g \in loaded
        /\ waiting[g] = "declare"
        /\ waiting' = [waiting EXCEPT ![g] = "none"]
    BY <1>0, <1>7 DEF Declares, Announced
  <2>2. \A n \in DOMAIN perms' :
          \/ n \in DOMAIN perms /\ perms'[n] = perms[n]
          \/ perms'[n].source = g
    BY <1>7 DEF Declares
  <2>. QED
    BY <1>0, <2>1, <2>2 DEF Accounted
<1>8. ASSUME NEW n \in Perms, CreatePermission(n) PROVE Accounted'
  BY <1>0, <1>8 DEF CreatePermission, Accounted
<1>. QED
  BY <1>0, <1>1, <1>2, <1>3, <1>4, <1>5, <1>6, <1>7, <1>8, Steps
  DEF NewRole, AssignPermission, RemovePermission, vars, Accounted

LEMMA AdminStep == IInv /\ [Next]_vars => AdminComplete'
<1>. SUFFICES ASSUME IInv, [Next]_vars PROVE AdminComplete'
  OBVIOUS
<1>0. /\ TypeOK /\ AdminComplete /\ SeedThere /\ Admin \in Roles
      /\ held \in [Roles -> SUBSET DOMAIN perms]
      /\ declared \subseteq loaded /\ loaded \subseteq Plugins
      /\ Platform \notin Plugins
  BY CatalogueAssumption DEF IInv, TypeOK
<1>1. CASE Start
  BY <1>1, CatalogueAssumption DEF Start, Synced, AdminComplete
<1>2. CASE Stop
  BY <1>2 DEF Stop, AdminComplete
<1>3. ASSUME NEW g \in Plugins, Load(g) \/ Unload(g) \/ Fail(g)
      PROVE  AdminComplete'
  BY <1>0, <1>3 DEF Load, Unload, Fail, AdminComplete
<1>4. ASSUME NEW g \in Plugins, OnUnloaded(g) PROVE AdminComplete'
  <2>1. \A n \in DOMAIN perms' :
          perms'[n].active => n \in DOMAIN perms /\ perms'[n] = perms[n]
    BY <1>0, <1>4, DisabledFacts DEF OnUnloaded
  <2>. QED
    BY <1>0, <1>4, <2>1 DEF OnUnloaded, AdminComplete
<1>5. ASSUME NEW g \in Plugins, NEW S, Declares(g, S) PROVE AdminComplete'
  <2>1. ASSUME up, NEW n \in DOMAIN perms', perms'[n].active,
               perms'[n].source \in declared \cup {g} \/ n \in Seeded
        PROVE  n \in held[Admin] \cup S[Admin] \cup (taken \ S[Admin])
    <3>1. CASE perms'[n].source = g
      BY <1>5, <2>1, <3>1 DEF Declares
    <3>2. CASE perms'[n].source # g
      <4>1. n \in DOMAIN perms /\ perms'[n] = perms[n]
        BY <1>5, <3>2 DEF Declares
      <4>. QED
        BY <1>0, <2>1, <3>2, <4>1 DEF AdminComplete
    <3>. QED
      BY <3>1, <3>2
  <2>2. /\ up' = up /\ declared' = declared \cup {g}
        /\ held'[Admin] = held[Admin] \cup S[Admin]
        /\ taken' = taken \ S[Admin]
    BY <1>0, <1>5 DEF Declares
  <2>. QED
    BY <2>1, <2>2 DEF AdminComplete
<1>6. ASSUME NEW n \in Perms, CreatePermission(n) PROVE AdminComplete'
  <2>1. /\ up /\ up' = up /\ n \notin DOMAIN perms /\ n \notin Seeded
        /\ DOMAIN perms' = DOMAIN perms \cup {n}
        /\ perms'[n].source = Platform
        /\ \A k \in DOMAIN perms : perms'[k] = perms[k]
        /\ UNCHANGED <<held, declared, taken>>
    BY <1>0, <1>6 DEF CreatePermission, SeedThere
  <2>. QED
    BY <1>0, <2>1 DEF AdminComplete
<1>7. ASSUME NEW r \in Roles, NEW n \in Perms,
             AssignPermission(r, n) \/ RemovePermission(r, n)
      PROVE  AdminComplete'
  <2>1. held[Admin] \cup taken \subseteq held'[Admin] \cup taken'
    BY <1>0, <1>7 DEF AssignPermission, RemovePermission
  <2>2. UNCHANGED <<perms, up, declared>>
    BY <1>7 DEF AssignPermission, RemovePermission
  <2>. QED
    BY <1>0, <2>1, <2>2 DEF AdminComplete
<1>8. ASSUME NEW r \in Roles, NEW holds \in SUBSET Perms, NewRole(r, holds)
      PROVE  AdminComplete'
  <2>1. r # Admin
    BY <1>0, <1>8, CatalogueAssumption DEF NewRole, TypeOK
  <2>2. held'[Admin] = held[Admin] /\ UNCHANGED <<perms, up, declared, taken>>
    BY <1>0, <1>8, <2>1 DEF NewRole
  <2>. QED
    BY <1>0, <2>2 DEF AdminComplete
<1>. QED
  BY <1>0, <1>1, <1>2, <1>3, <1>4, <1>5, <1>6, <1>7, <1>8, Steps
  DEF vars, AdminComplete

\* What a role holds and what it was given change together; a start forgets
\* both for the roles of the seed only.
LEMMA HeldStep == IInv /\ [Next]_vars => HeldAccounted'
<1>. SUFFICES ASSUME IInv, [Next]_vars PROVE HeldAccounted'
  OBVIOUS
<1>0. /\ HeldAccounted /\ held \in [Roles -> SUBSET DOMAIN perms]
      /\ roles \subseteq Roles /\ DOMAIN perms \subseteq Perms
      /\ \A r \in Roles \ roles : held[r] = {}
      /\ given \subseteq Roles \X Perms
      /\ (up => SeededRoles \subseteq roles)
  BY DEF IInv, TypeOK
<1>1. CASE Start
  <2>1. ASSUME NEW r \in Roles
        PROVE  /\ r \in SeededRoles =>
                    held'[r] = Listed[r] /\ \A n : <<r, n>> \notin given'
               /\ r \notin SeededRoles =>
                    /\ held'[r] = held[r]
                    /\ \A n : <<r, n>> \in given' <=> <<r, n>> \in given
    BY <1>0, <1>1, <2>1, CatalogueAssumption DEF Start, Synced, Lasting
  <2>. QED
    BY <1>0, <2>1 DEF HeldAccounted
<1>2. CASE Stop
  <2>1. /\ UNCHANGED held /\ ~up'
        /\ \A r \in Roles : \A n :
             <<r, n>> \in given' <=> <<r, n>> \in given /\ r \notin SeededRoles
    BY <1>2 DEF Stop, Lasting
  <2>. QED
    BY <1>0, <2>1 DEF HeldAccounted
<1>3. ASSUME NEW g \in Plugins, NEW S, Declares(g, S) PROVE HeldAccounted'
  <2>1. /\ UNCHANGED up
        /\ \A r \in Roles :
             /\ held'[r] = held[r] \cup S[r] /\ S[r] \subseteq Perms
             /\ \A n : <<r, n>> \in given' <=> <<r, n>> \in given \/ n \in S[r]
    BY <1>0, <1>3 DEF Declares
  <2>. QED
    BY <1>0, <2>1 DEF HeldAccounted
<1>4. ASSUME NEW r \in Roles, NEW n \in Perms,
             AssignPermission(r, n) \/ RemovePermission(r, n)
      PROVE  HeldAccounted'
  <2>1. /\ UNCHANGED up
        /\ \/ /\ held' = [held EXCEPT ![r] = @ \cup {n}]
              /\ given' = given \cup {<<r, n>>}
           \/ /\ held' = [held EXCEPT ![r] = @ \ {n}]
              /\ given' = given \ {<<r, n>>}
    BY <1>4 DEF AssignPermission, RemovePermission
  <2>2. ASSUME NEW s \in Roles, s # r
        PROVE  /\ held'[s] = held[s]
               /\ \A k : <<s, k>> \in given' <=> <<s, k>> \in given
    BY <1>0, <2>1, <2>2
  <2>3. \/ /\ held'[r] = held[r] \cup {n}
           /\ \A k : <<r, k>> \in given' <=> <<r, k>> \in given \/ k = n
        \/ /\ held'[r] = held[r] \ {n}
           /\ \A k : <<r, k>> \in given' <=> <<r, k>> \in given /\ k # n
    BY <1>0, <2>1
  <2>. QED
    BY <1>0, <2>1, <2>2, <2>3 DEF HeldAccounted
<1>5. ASSUME NEW r \in Roles, NEW holds \in SUBSET Perms, NewRole(r, holds)
      PROVE  HeldAccounted'
  <2>1. /\ r \notin SeededRoles /\ up' = up /\ held[r] = {} /\ held'[r] = holds
        /\ \A s \in Roles : s # r => held'[s] = held[s]
    BY <1>0, <1>5 DEF NewRole
  <2>2. \A s, k : <<s, k>> \in given' <=>
                  <<s, k>> \in given \/ (s = r /\ k \in holds)
    BY <1>5 DEF NewRole
  <2>. QED
    BY <1>0, <2>1, <2>2 DEF HeldAccounted
<1>. QED
  BY <1>0, <1>1, <1>2, <1>3, <1>4, <1>5, Steps
  DEF Load, Unload, OnUnloaded, Fail, CreatePermission, vars, HeldAccounted

-------------------------------------------------------------------------------
(* The theorems.                                                           *)

LEMMA InvInit == Init => IInv
BY DEF Init, IInv, TypeOK, Announced, Owned, SeedThere, Accounted,
       AdminComplete, HeldAccounted, Events

\* The inductive invariant holds of every state: what plugins own is theirs by
\* prefix, and each active permission has somebody to answer for it.
THEOREM Invariance == Spec => []IInv
<1>1. IInv /\ [Next]_vars => IInv'
  BY TypeStep, AnnouncedStep, OwnedStep, AccountedStep, AdminStep,
     HeldStep DEF IInv
<1>. QED
  BY <1>1, InvInit, PTL DEF Spec

\* Every variable keeps its type, the roles hold permissions that exist, and
\* only a running service has events to handle.
THEOREM TypeCorrect == Spec => []TypeOK
<1>1. IInv => TypeOK
  BY DEF IInv
<1>. QED
  BY <1>1, Invariance, PTL

\* The administrator's role has every active permission of the seed and of the
\* plugins declared since the start, but what was taken from it by hand
\* (services/seed.py, ipc.py).
THEOREM AdminHasAll == Spec => []AdminComplete
<1>1. IInv => AdminComplete
  BY DEF IInv
<1>. QED
  BY <1>1, Invariance, PTL

\* A start takes from the roles it syncs all but the seed's list, and nothing from
\* the platform's other roles: what a role holds is what it was given, since the
\* start or ever, and the list (services/seed.py, _sync_role_permissions).
THEOREM RolesAccounted == Spec => []HeldAccounted
<1>1. IInv => HeldAccounted
  BY DEF IInv
<1>. QED
  BY <1>1, Invariance, PTL

\* Every going of a plugin that a handler hears of is made good: what is still
\* active once all events are handled is the seed's, the platform's, of a plugin
\* loaded, or of one nobody heard go (ipc.py, _on_plugin_unloaded).
THEOREM GoneMadeGood == Spec => []GoneWhenHeard
<1>1. IInv => GoneWhenHeard
  BY DEF IInv, TypeOK, Accounted, GoneWhenHeard, Permission
<1>. QED
  BY <1>1, Invariance, PTL

ApartStep ==
  up /\ up' =>
    \A n \in DOMAIN perms : perms'[n] # perms[n] =>
      Space[n] \notin Reserved /\ waiting[Space[n]] # "none"

\* A permission that changes while the service is up is of the plugin whose
\* event is handled, and of no reserved prefix, whatever that plugin declares
\* (services/iam.py, reconcile_plugin_grants and _is_valid_grant).
THEOREM PluginsKeptApart == Spec => PluginsApart
<1>1. ASSUME IInv, [Next]_vars PROVE [ApartStep]_vars
  <2>1. ASSUME NEW g \in Plugins, NEW S, Declares(g, S) PROVE ApartStep
    BY <2>1 DEF Declares, ApartStep
  <2>2. ASSUME NEW g \in Plugins, OnUnloaded(g) PROVE ApartStep
    <3>1. TypeOK /\ Owned
      BY <1>1 DEF IInv
    <3>2. perms' = Disabled(g) /\ waiting[g] = "unloaded"
      BY <2>2 DEF OnUnloaded
    <3>3. \A n \in DOMAIN perms :
            perms'[n] # perms[n] => perms[n].source = g
      BY <3>1, <3>2, DisabledFacts
    <3>. QED
      BY <3>1, <3>2, <3>3 DEF Owned, ApartStep
  <2>3. ASSUME NEW n \in Perms, CreatePermission(n) PROVE ApartStep
    BY <2>3 DEF CreatePermission, ApartStep
  <2>. QED
    BY <1>1, <2>1, <2>2, <2>3, Steps
    DEF Start, Stop, Load, Unload, Fail, NewRole, AssignPermission,
        RemovePermission, vars, ApartStep
<1>2. IInv /\ [Next]_vars => [ApartStep]_vars
  BY <1>1
<1>. QED
  BY <1>2, Invariance, PTL DEF Spec, PluginsApart, ApartStep
=============================================================================
