------------------------------- MODULE Identity -------------------------------
(***************************************************************************)
(* Permissions (identity.py) and the tables they come from.  A user has    *)
(* what any of his roles grants.  Administrators change the grants at any  *)
(* time; deleting a role takes its grants with it (ON DELETE CASCADE).     *)
(***************************************************************************)
EXTENDS Integers

CONSTANTS Users, Roles, Permissions,
          MaxChanges \* bound on the changes of grants

VARIABLES user_roles,       \* the table, as pairs of a user and a role
          role_permissions, \* the table, as pairs of a role and a permission
          changes           \* number of changes so far
rightsVars == <<user_roles, role_permissions, changes>>

\* "Granted if any of the user's roles grants it": the set that a query over
\* both tables gives to has_permission.
Granted(user) == {p \in Permissions : \E r \in Roles : <<user, r>> \in user_roles /\ <<r, p>> \in role_permissions}

has_permission(granted, required) == required \in granted

Change == changes < MaxChanges /\ changes' = changes + 1
Grant(user, r) == /\ Change /\ user_roles' = user_roles \cup {<<user, r>>}
                  /\ UNCHANGED role_permissions
Revoke(user, r) == /\ Change /\ user_roles' = user_roles \ {<<user, r>>}
                   /\ UNCHANGED role_permissions
Allow(r, p) == /\ Change /\ role_permissions' = role_permissions \cup {<<r, p>>}
               /\ UNCHANGED user_roles
DeleteRole(r) == /\ Change
                 /\ user_roles' = {x \in user_roles : x[2] # r}
                 /\ role_permissions' = {x \in role_permissions : x[1] # r}
Administer == \E r \in Roles : \/ \E user \in Users : Grant(user, r) \/ Revoke(user, r)
                               \/ \E p \in Permissions : Allow(r, p)
                               \/ DeleteRole(r)
===============================================================================
