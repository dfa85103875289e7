-------------------------------- MODULE MCRbac --------------------------------
(* Constants for TLC: the staff of the platform, an owner and a member. *)
EXTENDS Rbac, TLC

CONSTANTS staff, owner, member, home, t1, admin, tadmin, r1, adm, x

MCRoleTenant == [r \in Roles |-> IF r = r1 THEN t1 ELSE NoTenant]
MCFirstPerms == [r \in Roles |-> IF r = admin THEN Perms ELSE {}]
MCRolesWithout == {admin, tadmin}
MCRolesWith == {admin, tadmin, r1}

\* one organisation, its owner and a member
MCOwnerAndMember == (<<owner, t1>> :> tadmin) @@ (<<member, t1>> :> NoRole)
MCOwner == {<<owner, t1>>}

\* the home of the staff beside it
MCWithStaff == (<<staff, home>> :> admin) @@ (<<owner, t1>> :> tadmin)
MCOwners == {<<staff, home>>, <<owner, t1>>}
=============================================================================
