----------------------------- MODULE MCAccounts -----------------------------
(* An instance of Accounts for TLC.                                         *)
EXTENDS Accounts, TLC

CONSTANTS m1, m2, g1, g2, r1, r2

TwoEmails == {m1, m2}
TwoSlugs == {g1, g2}
TwoRequests == {r1, r2}
Symmetry == Permutations(TwoRequests)
TwoEntities == {"ORDER", "USER"}
TwoActions == {"READ", "DELETE"}

\* The rows a body may carry: of a role on one of two entities, of a membership
\* on the first.
AnyRolePerms ==
  {NoRows} \cup [{"ORDER"} -> SUBSET ActionTypes] \cup [{"USER"} -> {{"READ"}, {ALL}}]
AnyUserPerms == {NoRows} \cup [{"ORDER"} -> Override]

Only(ops, names, addrs, n) ==
  [ops |-> ops, names |-> names, rolePerms |-> {NoRows}, userPerms |-> {NoRows},
   addresses |-> addrs, calls |-> n]

\* Creations that race; edits and deletions of users and roles; addresses;
\* permissions; tenants; branches.
SomeWorkloads ==
  {Only({"create", "superAdmin", "delete"}, {"CUSTOMER", "OPERATION"}, {0}, 3),
   Only({"superAdmin", "role", "tenantUser", "deleteRole", "delete"}, {"OPERATION"}, {0}, 3),
   Only({"create", "update", "delete"}, {"CUSTOMER"}, {0}, 3),
   Only({"create", "update"}, {"CUSTOMER"}, {1}, 2),
   Only({"create"}, {"CUSTOMER"}, {2}, 1),
   [Only({"role", "tenantUser"}, {"OPERATION"}, {0}, 2)
      EXCEPT !.rolePerms = AnyRolePerms, !.userPerms = AnyUserPerms],
   Only({"tenant", "editTenant", "deleteTenant"}, {"CUSTOMER"}, {0}, 2),
   Only({"toggle", "branch"}, {"CUSTOMER"}, {0}, 3)}
=============================================================================
