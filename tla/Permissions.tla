---------------------------- MODULE Permissions ----------------------------
(***************************************************************************)
(* From the permission rows of a role and of a membership to the answer of *)
(* the PermissionGuard: auth.mapper.ts and permission.guard.ts.  Rows are   *)
(* functions: a role maps entities to sets of actions, a membership maps    *)
(* them to the actions it adds and takes away.                              *)
(***************************************************************************)
CONSTANTS
  Entities,
  Actions,         \* ActionType without ALL
  ALL

ASSUME PermissionsAssumption == ALL \notin Actions

ActionTypes == Actions \cup {ALL}
Override == [allowed : SUBSET ActionTypes, denied : SUBSET ActionTypes]

\* The actions of a role on an entity, after a row of the membership: ALL does
\* not survive a row that changes anything.
Overridden(current, up) ==
  IF ALL \notin current THEN (current \cup up.allowed) \ up.denied
  ELSE IF up.allowed \cup up.denied = {} THEN {ALL}
  ELSE Actions \ up.denied

Row(rows, e) == IF e \in DOMAIN rows THEN rows[e] ELSE {}

mergePermissions(rolePermissions, userPermissions) ==
  [e \in DOMAIN rolePermissions \cup DOMAIN userPermissions |->
     IF e \in DOMAIN userPermissions
     THEN Overridden(Row(rolePermissions, e), userPermissions[e])
     ELSE rolePermissions[e]]

\* An action that any entity allows.
AnyEntity(permissions, entity, action) ==
  \E e \in DOMAIN permissions : {ALL, action} \cap permissions[e] # {}

OwnEntity(permissions, entity, action) ==
  entity \in DOMAIN permissions /\ {ALL, action} \cap permissions[entity] # {}

\* No customers; everybody else when there are no rows at all.
canActivate(roleName, permissions, entity, action) ==
  /\ roleName # "CUSTOMER"
  /\ DOMAIN permissions = {} \/ OwnEntity(permissions, entity, action)
=============================================================================
