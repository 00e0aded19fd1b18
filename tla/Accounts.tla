------------------------------ MODULE Accounts ------------------------------
(***************************************************************************)
(* Users, roles, memberships, addresses, tenants and branches: the services *)
(* of src/modules/users, role, tenant and branch and src/shared/address.    *)
(* Their handlers are chains of statements without a transaction around     *)
(* them: a look for a duplicate, a row it depends on, the row, the rows     *)
(* that depend on it.  Only the constraints of the schema hold across two   *)
(* handlers.                                                                *)
(***************************************************************************)
EXTENDS Permissions, Integers, Sequences, FiniteSets

CONSTANTS
  Emails,
  Slugs,
  Requests,        \* slots for handlers in flight
  Workloads,       \* what may come together, and how many calls: [ops, names,
                   \* rolePerms, userPerms, addresses, calls]
  MaxFaults,       \* bound: statements and uploads that fail
  None

ASSUME AccountsAssumption ==
  /\ None \notin Emails
  /\ Emails # {} /\ Slugs # {}
  /\ MaxFaults \in Nat
  /\ \A w \in Workloads : w.calls \in Nat /\ w.addresses \subseteq Nat

VARIABLES
  users,           \* rows by id: email, role, memberships, addresses, deleted
  roles,           \* name, tenant (0 for null), perms, there
  tenants,         \* slug, email, address, logo, status, deleted
  branches,        \* tenant, address, deleted
  addresses,       \* number of address rows
  files,           \* logos in the store
  uploads,         \* number of uploads
  workload,        \* chosen once
  req,             \* the handlers in flight
  calls,           \* handlers begun, bounded by the workload
  spoiled,         \* tenants whose logo was dropped by an update that did not
                   \* reach the row, kept to state LogoExists
  named,           \* uploads a body named and a row was given, likewise
  faults

vars == <<users, roles, tenants, branches, addresses, files, uploads, workload, req,
          calls, spoiled, named, faults>>
people == <<users, roles>>
places == <<tenants, branches, files, uploads, spoiled, named>>

\* Instead of an addressId: no address in the body, or one to write.
Unset == -1
New == 0
\* Instead of the number of an upload: no logo is 0; a URL of no upload.  Two URLs
\* that end in the file name of one upload are the same to deleteFile.
Elsewhere == -2
NoRows == [e \in {} |-> {}]
Idle == [op |-> "none", pc |-> "idle", email |-> None, name |-> "CUSTOMER",
         tenant |-> 0, role |-> 0, perms |-> NoRows, user |-> 0, slug |-> None,
         address |-> Unset, branch |-> 0, logo |-> 0, url |-> Unset, file |-> FALSE, todo |-> <<>>, status |-> "ACTIVE"]

RoleRow(name, t, perms) == [name |-> name, tenant |-> t, perms |-> perms, there |-> TRUE]
UserRow(email, role, memberships) ==
  [email |-> email, role |-> role, memberships |-> memberships, addresses |-> 0,
   deleted |-> FALSE]
TenantRow(slug, email, a, logo) ==
  [slug |-> slug, email |-> email, address |-> a, logo |-> logo, status |-> "ACTIVE",
   deleted |-> FALSE]
BranchRow(t, a) == [tenant |-> t, address |-> a, deleted |-> FALSE]

Init ==
  /\ users = <<>>
  /\ roles = <<>>
  /\ tenants = <<TenantRow(CHOOSE s \in Slugs : TRUE, CHOOSE e \in Emails : TRUE, 1, 1)>>
  /\ branches = <<>>
  /\ addresses = 1
  /\ files = {1}
  /\ uploads = 1
  /\ workload \in Workloads
  /\ req = [r \in Requests |-> Idle]
  /\ calls = 0
  /\ spoiled = {}
  /\ named = {}
  /\ faults = 0

Tenants == DOMAIN tenants
Goto(r, pc) == req' = [req EXCEPT ![r].pc = pc]
End(r) == req' = [req EXCEPT ![r] = Idle]
Fault == faults < MaxFaults /\ faults' = faults + 1
Begin(r, dto) ==
  /\ req[r].pc = "idle"
  /\ dto.op \in workload.ops
  /\ calls < workload.calls /\ calls' = calls + 1
  /\ req' = [req EXCEPT ![r] = dto]
  /\ UNCHANGED <<people, places, addresses, workload, faults>>

-----------------------------------------------------------------------------
(* Users and roles.                                                        *)

\* create, createUserViaSuperAdminWithRole, createTenantUser; n addresses.
BeginCreate(r, op, email, name, t, role, perms, n) ==
  /\ op = "create" => t \in Tenants \cup {0}
  /\ op # "create" => t \in Tenants
  /\ op = "superAdmin" => n = 0
  /\ op = "tenantUser" => role \in DOMAIN roles
  /\ op # "tenantUser" => role = 0 /\ perms = NoRows
  /\ Begin(r, [Idle EXCEPT !.op = op, !.pc = "exists", !.email = email, !.name = name,
                 !.tenant = t, !.role = role, !.perms = perms,
                 !.todo = [i \in 1..n |-> "todo"]])

\* None stands for a body without an email; Prisma then leaves the email out of
\* the condition.
BeginUpdate(r, u, email, t, n) ==
  Begin(r, [Idle EXCEPT !.op = "update", !.pc = "exists", !.user = u, !.email = email,
              !.tenant = t, !.todo = [i \in 1..n |-> "todo"]])

BeginRole(r, name, t, perms) ==
  Begin(r, [Idle EXCEPT !.op = "role", !.pc = "findRole", !.name = name, !.tenant = t,
              !.perms = perms])

Exists(email) ==
  \E u \in DOMAIN users : ~users[u].deleted /\ email \in {users[u].email, None}

CheckEmail(r) ==
  /\ req[r].pc = "exists"
  /\ IF Exists(req[r].email) THEN End(r)
     ELSE Goto(r, CASE req[r].op = "create" -> "role"
                    [] req[r].op = "superAdmin" ->
                         IF req[r].name = "CUSTOMER" THEN "role" ELSE "findRole"
                    [] req[r].op = "tenantUser" -> "user"
                    [] req[r].op = "update" -> "update")
  /\ UNCHANGED <<people, places, addresses, calls, workload, faults>>

FindRole(r) ==
  /\ req[r].pc = "findRole"
  /\ IF \E i \in DOMAIN roles :
          roles[i].there /\ roles[i].name = req[r].name /\ roles[i].tenant = req[r].tenant
     THEN End(r) ELSE Goto(r, "role")
  /\ UNCHANGED <<people, places, addresses, calls, workload, faults>>

CreateRole(r) ==
  /\ req[r].pc = "role"
  /\ roles' = Append(roles, RoleRow(req[r].name, req[r].tenant, req[r].perms))
  /\ IF req[r].op = "role" THEN End(r)
     ELSE req' = [req EXCEPT ![r].pc = "user", ![r].role = Len(roles) + 1,
                             ![r].perms = NoRows]
  /\ UNCHANGED <<users, places, addresses, calls, workload, faults>>

\* @unique, deleted rows included.
EmailFree(email) == \A u \in DOMAIN users : users[u].email # email

\* The rows that depend on the user come next.
Dependent(r) == IF req[r].todo = <<>> THEN "done" ELSE "addresses"

InsertUser(r) ==
  /\ req[r].pc = "user"
  /\ IF EmailFree(req[r].email) /\ roles[req[r].role].there
     THEN /\ users' = Append(users, UserRow(req[r].email, req[r].role,
               IF req[r].op = "create" THEN NoRows
               ELSE [t \in {req[r].tenant} |-> req[r].perms]))
          /\ req' = [req EXCEPT ![r].pc = Dependent(r), ![r].user = Len(users) + 1]
     ELSE End(r) /\ UNCHANGED users
  /\ UNCHANGED <<roles, places, addresses, calls, workload, faults>>

\* The transaction: the row, deleted or not, and the membership.
UpdateUser(r) ==
  /\ req[r].pc = "update"
  /\ LET u == req[r].user IN
     IF req[r].email = None \/ EmailFree(req[r].email) \/ users[u].email = req[r].email
     THEN /\ users' = [users EXCEPT
               ![u].email = IF req[r].email = None THEN @ ELSE req[r].email,
               ![u].memberships =
                 [t \in DOMAIN @ \cup ({req[r].tenant} \ {0}) |->
                    IF t \in DOMAIN @ THEN @[t] ELSE NoRows]]
          /\ Goto(r, Dependent(r))
     ELSE End(r) /\ UNCHANGED users
  /\ UNCHANGED <<roles, places, addresses, calls, workload, faults>>

DeleteUser(u) ==
  /\ "delete" \in workload.ops
  /\ ~users[u].deleted
  /\ users' = [users EXCEPT ![u].deleted = TRUE]
  /\ UNCHANGED <<roles, places, addresses, calls, workload, req, faults>>

\* No living user has it.
UnusedByLiving(i) == \A u \in DOMAIN users : users[u].deleted \/ users[u].role # i
\* The relation of User and Role: no row refers to it.
RoleUnused(i) == \A u \in DOMAIN users : users[u].role # i

DeleteRole(i) ==
  /\ "deleteRole" \in workload.ops
  /\ roles[i].there /\ RoleUnused(i)
  /\ roles' = [roles EXCEPT ![i].there = FALSE]
  /\ UNCHANGED <<users, places, addresses, calls, workload, req, faults>>

-----------------------------------------------------------------------------
(* The addresses of a user: all at once, each a row and an attachment.      *)

AddressRow(r, i) ==
  /\ req[r].pc = "addresses" /\ req[r].todo[i] = "todo"
  /\ \/ /\ addresses' = addresses + 1
        /\ req' = [req EXCEPT ![r].todo[i] = "row"]
        /\ UNCHANGED faults
     \/ /\ Fault
        /\ req' = [req EXCEPT ![r].todo[i] = "failed"]
        /\ UNCHANGED addresses
  /\ UNCHANGED <<people, places, calls, workload>>

AttachToUser(r, i) ==
  /\ req[r].pc = "addresses" /\ req[r].todo[i] = "row"
  /\ \/ /\ users' = [users EXCEPT ![req[r].user].addresses = @ + 1]
        /\ req' = [req EXCEPT ![r].todo[i] = "attached"]
        /\ UNCHANGED faults
     \/ /\ Fault
        /\ req' = [req EXCEPT ![r].todo[i] = "failed"]
        /\ UNCHANGED users
  /\ UNCHANGED <<roles, addresses, places, calls, workload>>

\* allSettled.
NonePending(todo) == \A i \in DOMAIN todo : todo[i] \in {"attached", "failed"}
AllAttached(todo) == \A i \in DOMAIN todo : todo[i] = "attached"

Created(r) ==
  /\ req[r].pc = "addresses"
  /\ AllAttached(req[r].todo)
  /\ Goto(r, "done")
  /\ UNCHANGED <<people, places, addresses, calls, workload, faults>>

\* The first that fails answers the request; the others go on, and the slot is
\* free when they are through.
NotCreated(r) ==
  /\ req[r].pc = "addresses"
  /\ NonePending(req[r].todo) /\ \E i \in DOMAIN req[r].todo : req[r].todo[i] = "failed"
  /\ End(r)
  /\ UNCHANGED <<people, places, addresses, calls, workload, faults>>

\* The answer of success, about rows that may have been deleted since.
Success(r) ==
  /\ req[r].pc = "done"
  /\ End(r)
  /\ UNCHANGED <<people, places, addresses, calls, workload, faults>>

-----------------------------------------------------------------------------
(* Tenants and branches.                                                   *)

\* What logoUrl of a body may hold; a file takes its place.
Urls(file) == IF file THEN {Unset} ELSE {Unset, Elsewhere} \cup 0..uploads

BeginTenant(r, slug, email, a, file, url) ==
  Begin(r, [Idle EXCEPT !.op = "tenant", !.pc = "unique", !.slug = slug,
              !.email = email, !.address = a, !.file = file, !.url = url])

\* The logo goes first, whether or not another comes.
UpdateWithoutFile(r, t, a, file, url) ==
  Begin(r, [Idle EXCEPT !.op = "editTenant", !.pc = "logo", !.tenant = t, !.address = a,
              !.file = file, !.url = url])

UpdateWithFile(r, t, a, file, url) ==
  Begin(r, [Idle EXCEPT !.op = "editTenant", !.tenant = t, !.address = a, !.file = file,
              !.url = url,
              !.pc = IF file THEN "logo" ELSE IF a = New THEN "own" ELSE "write"])

BeginToggle(r, t) ==
  /\ ~tenants[t].deleted
  /\ Begin(r, [Idle EXCEPT !.op = "toggle", !.pc = "toggle", !.tenant = t,
                 !.status = IF tenants[t].status = "ACTIVE" THEN "INACTIVE"
                                                            ELSE "ACTIVE"])

\* create, with branch 0, and update; deleted branches are found too late.
BeginBranch(r, b, t, a) ==
  /\ b = 0 => a # Unset
  /\ Begin(r, [Idle EXCEPT !.op = "branch", !.branch = b, !.tenant = t, !.address = a,
                 !.pc = IF a = New THEN "address" ELSE "branch"])

\* checkUnique: both fields in one condition, deleted tenants included.
CheckUnique(r) ==
  /\ req[r].pc = "unique"
  /\ IF \E t \in Tenants : tenants[t].slug = req[r].slug /\ tenants[t].email = req[r].email
     THEN End(r)
     ELSE Goto(r, IF req[r].file THEN "upload"
                  ELSE IF req[r].address = New THEN "address" ELSE "insert")
  /\ UNCHANGED <<people, places, addresses, calls, workload, faults>>

\* findById and deleteFile: the logo the tenant has then.  An error of deleteFile
\* is only logged.
DropLogo(r) ==
  /\ req[r].pc = "logo"
  /\ LET t == req[r].tenant IN
     IF tenants[t].deleted THEN End(r) /\ UNCHANGED <<files, spoiled, faults>>
     ELSE /\ \/ files' = files \ {tenants[t].logo} /\ UNCHANGED faults
             \/ Fault /\ UNCHANGED files
          /\ Goto(r, IF req[r].file THEN "upload"
                  ELSE IF req[r].address = New THEN "own" ELSE "write")
          /\ UNCHANGED spoiled
  /\ UNCHANGED <<people, tenants, branches, uploads, named, addresses, calls, workload>>

Upload(r) ==
  /\ req[r].pc = "upload"
  /\ uploads' = uploads + 1
  /\ files' = files \cup {uploads + 1}
  /\ req' = [req EXCEPT ![r].logo = uploads + 1,
       ![r].pc = CASE req[r].address = New /\ req[r].op = "editTenant" -> "own"
                   [] req[r].address = New /\ req[r].op = "tenant" -> "address"
                   [] req[r].address # New /\ req[r].op = "editTenant" -> "write"
                   [] req[r].address # New /\ req[r].op = "tenant" -> "insert"]
  /\ UNCHANGED <<people, tenants, branches, addresses, calls, workload, spoiled, named,
                 faults>>

CreateAddress(r) ==
  /\ req[r].pc = "address"
  /\ addresses' = addresses + 1
  /\ req' = [req EXCEPT ![r].address = addresses + 1,
       ![r].pc = IF req[r].op = "tenant" THEN "insert" ELSE "branch"]
  /\ UNCHANGED <<people, places, calls, workload, faults>>

\* An update that has dropped a logo and ends before the row.
Spoils(r) ==
  IF req[r].op = "editTenant" /\ req[r].pc \in {"upload", "own", "write"} /\ req[r].file
  THEN spoiled \cup {req[r].tenant} ELSE spoiled

\* An address in the body is written over the row the tenant has, and the tenant
\* is then given that row.
OwnAddress(r) ==
  /\ req[r].pc = "own"
  /\ LET t == req[r].tenant IN
     IF tenants[t].deleted THEN End(r) /\ spoiled' = Spoils(r)
     ELSE /\ req' = [req EXCEPT ![r].address = tenants[t].address, ![r].pc = "write"]
          /\ UNCHANGED spoiled
  /\ UNCHANGED <<people, tenants, branches, files, uploads, named, addresses, calls,
                 workload, faults>>

\* @unique of slug.
SlugFree(slug, email) == \A t \in Tenants : tenants[t].slug # slug
\* @@unique([addressId]).
AddressFree(a, t) == \A x \in Tenants \ {t} : tenants[x].address # a

\* The logo a row is given: that of the file, or what the body says unchecked.
LogoOf(r) == IF req[r].file THEN req[r].logo ELSE req[r].url
NamedBy(r) == IF req[r].file THEN {} ELSE {req[r].url} \cap 1..uploads

InsertTenant(r) ==
  /\ req[r].pc = "insert"
  /\ IF SlugFree(req[r].slug, req[r].email) /\ AddressFree(req[r].address, 0)
     THEN /\ tenants' = Append(tenants,
               TenantRow(req[r].slug, req[r].email, req[r].address,
                         IF LogoOf(r) = Unset THEN 0 ELSE LogoOf(r)))
          /\ named' = named \cup NamedBy(r)
     ELSE UNCHANGED <<tenants, named>>
  /\ End(r)
  /\ UNCHANGED <<people, branches, files, uploads, spoiled, addresses, calls, workload, faults>>

WriteTenant(r) ==
  /\ req[r].pc = "write"
  /\ LET t == req[r].tenant IN
     IF ~tenants[t].deleted /\ AddressFree(req[r].address, t)
     THEN /\ tenants' = [tenants EXCEPT
               ![t].address = IF req[r].address = Unset THEN @ ELSE req[r].address,
               ![t].logo = IF LogoOf(r) = Unset THEN @ ELSE LogoOf(r)]
          /\ spoiled' = IF req[r].file THEN spoiled \ {t} ELSE spoiled
          /\ named' = named \cup NamedBy(r)
     ELSE UNCHANGED <<tenants, named>> /\ spoiled' = Spoils(r)
  /\ End(r)
  /\ UNCHANGED <<people, branches, files, uploads, addresses, calls, workload, faults>>

Toggle(r) ==
  /\ req[r].pc = "toggle"
  /\ tenants' = IF tenants[req[r].tenant].deleted THEN tenants
                ELSE [tenants EXCEPT ![req[r].tenant].status = req[r].status]
  /\ End(r)
  /\ UNCHANGED <<people, branches, files, uploads, spoiled, named, addresses, calls, workload,
                 faults>>

DeleteTenant(t) ==
  /\ "deleteTenant" \in workload.ops
  /\ ~tenants[t].deleted
  /\ tenants' = [tenants EXCEPT ![t].deleted = TRUE]
  /\ UNCHANGED <<people, branches, files, uploads, spoiled, named, addresses, calls, workload,
                 req, faults>>

\* An address may be shared by branches.
WriteBranch(r) ==
  /\ req[r].pc = "branch"
  /\ LET b == req[r].branch IN
     branches' =
       IF b = 0 THEN Append(branches, BranchRow(req[r].tenant, req[r].address))
       ELSE IF branches[b].deleted THEN branches
       ELSE [branches EXCEPT ![b].tenant = req[r].tenant,
                             ![b].address = IF req[r].address = Unset THEN @
                                            ELSE req[r].address]
  /\ End(r)
  /\ UNCHANGED <<people, tenants, files, uploads, spoiled, named, addresses, calls, workload,
                 faults>>

DeleteBranch(b) ==
  /\ "branch" \in workload.ops
  /\ ~branches[b].deleted
  /\ branches' = [branches EXCEPT ![b].deleted = TRUE]
  /\ UNCHANGED <<people, tenants, files, uploads, spoiled, named, addresses, calls, workload,
                 req, faults>>

\* A statement or an upload fails; what was written stays.
Fail(r) ==
  /\ req[r].pc \in {"exists", "findRole", "role", "user", "update", "logo", "upload",
                    "address", "own", "insert", "write", "toggle", "branch"}
  /\ Fault
  /\ spoiled' = Spoils(r)
  /\ End(r)
  /\ UNCHANGED <<people, tenants, branches, files, uploads, named, addresses, calls,
                 workload>>

-----------------------------------------------------------------------------
Step(r) ==
  \/ CheckEmail(r) \/ FindRole(r) \/ CreateRole(r) \/ InsertUser(r) \/ UpdateUser(r)
  \/ \E i \in DOMAIN req[r].todo : AddressRow(r, i) \/ AttachToUser(r, i)
  \/ Created(r) \/ NotCreated(r) \/ Success(r)
  \/ CheckUnique(r) \/ DropLogo(r) \/ Upload(r) \/ CreateAddress(r) \/ OwnAddress(r)
  \/ InsertTenant(r) \/ WriteTenant(r) \/ Toggle(r) \/ WriteBranch(r)

Arrive(r) ==
  \/ \E op \in {"create", "superAdmin", "tenantUser"} \cap workload.ops, email \in Emails,
        name \in workload.names, t \in Tenants \cup {0}, role \in DOMAIN roles \cup {0},
        perms \in workload.userPerms, n \in workload.addresses :
       BeginCreate(r, op, email, name, t, role, perms, n)
  \/ \E u \in DOMAIN users, email \in Emails \cup {None}, t \in Tenants \cup {0},
        n \in workload.addresses : BeginUpdate(r, u, email, t, n)
  \/ \E name \in workload.names, t \in Tenants \cup {0}, perms \in workload.rolePerms :
       BeginRole(r, name, t, perms)
  \/ \E slug \in Slugs, email \in Emails, a \in 0..addresses, file \in BOOLEAN :
       \E url \in Urls(file) : BeginTenant(r, slug, email, a, file, url)
  \/ \E t \in Tenants, a \in Unset..addresses, file \in BOOLEAN :
       \E url \in Urls(file) : UpdateWithFile(r, t, a, file, url)
  \/ \E b \in DOMAIN branches \cup {0}, t \in Tenants, a \in Unset..addresses :
       BeginBranch(r, b, t, a)
  \/ \E t \in Tenants : BeginToggle(r, t)

Next ==
  \/ \E r \in Requests : Arrive(r) \/ Step(r) \/ Fail(r)
  \/ \E u \in DOMAIN users : DeleteUser(u)
  \/ \E i \in DOMAIN roles : DeleteRole(i)
  \/ \E t \in Tenants : DeleteTenant(t)
  \/ \E b \in DOMAIN branches : DeleteBranch(b)

Spec == Init /\ [][Next]_vars

-----------------------------------------------------------------------------
(* Properties.                                                             *)

TypeOK ==
  /\ \A u \in DOMAIN users :
       /\ users[u].role \in DOMAIN roles
       /\ DOMAIN users[u].memberships \subseteq Tenants
       /\ users[u].addresses \in 0..addresses
  /\ \A i \in DOMAIN roles : roles[i].tenant \in Tenants \cup {0}
  /\ \A t \in Tenants : /\ tenants[t].address \in 1..addresses
                        /\ tenants[t].logo \in (Elsewhere..uploads) \ {Unset}
  /\ \A b \in DOMAIN branches : branches[b].address \in 1..addresses
  /\ files \subseteq 1..uploads
  /\ spoiled \subseteq Tenants
  /\ named \subseteq 1..uploads
  /\ faults \in 0..MaxFaults

\* Two creations of one email pass exists together, and a deleted user passes it
\* too; still no two rows have one email.
EmailsUnique ==
  \A u, v \in DOMAIN users : users[u].email = users[v].email => u = v

\* A role may be deleted while a creation is between its role and its user, and
\* users are only marked deleted; still every user has its role.
UsersKeepRole == \A u \in DOMAIN users : roles[users[u].role].there

\* No two tenants have one slug or one address, although the look for a
\* duplicate asks for slug and email together and an address may be given by id.
TenantsUnique ==
  \A t, x \in Tenants :
    tenants[t].slug = tenants[x].slug \/ tenants[t].address = tenants[x].address => t = x

\* The rows of every table, and those they name: what the looks before a row
\* miss, because two requests are between look and row or because they ask for
\* less than the column does, the constraints of the schema refuse.
RowsAreSound == TypeOK /\ EmailsUnique /\ UsersKeepRole /\ TenantsUnique

\* A request that is answered with success has saved all of its addresses, and
\* not only begun them; one that is answered with an error may have saved some.
SuccessMeansAddresses ==
  \A r \in Requests :
    req[r].pc = "done" => users[req[r].user].addresses >= Len(req[r].todo)

\* A logo that came to a living tenant by an upload is in the store, whatever
\* updates overlap, while no update is between its file and its row and none ended
\* there.  Nothing is checked of a logo that a body named: it may be of no upload,
\* or of another tenant, and then the update of one drops it from the other.
LogoExists ==
  \A t \in Tenants \ spoiled :
    tenants[t].deleted \/ tenants[t].logo \in files \cup named \cup {0, Elsewhere}
    \/ \E r \in Requests : req[r].op = "editTenant" /\ req[r].tenant = t /\ req[r].file
                           /\ req[r].pc \in {"upload", "own", "write"}

\* The tenant of a user in a request is that of any one of its memberships.
Granted(u, t, e, a) ==
  canActivate(roles[users[u].role].name,
    mergePermissions(roles[users[u].role].perms, users[u].memberships[t]), e, a)

\* What a membership denies is refused, also to a role with ALL, unless the same
\* row allows ALL to a role that has not got it.
DeniedIsRefused ==
  \A u \in DOMAIN users : \A t \in DOMAIN users[u].memberships :
    LET rows == users[u].memberships[t] IN
    \A e \in DOMAIN rows : \A a \in rows[e].denied \ {ALL} :
      ALL \in rows[e].allowed \/ ~Granted(u, t, e, a)

\* What is granted is in a row of the role or of the membership for that entity,
\* as itself or as ALL, but for a user without any row.
GrantedIsAllowed ==
  \A u \in DOMAIN users : \A t \in DOMAIN users[u].memberships :
    LET role == roles[users[u].role].perms
        rows == users[u].memberships[t]
    IN \A e \in Entities, a \in Actions :
         Granted(u, t, e, a) =>
           \/ DOMAIN role \cup DOMAIN rows = {}
           \/ {a, ALL} \cap Row(role, e) # {}
           \/ e \in DOMAIN rows /\ {a, ALL} \cap rows[e].allowed # {}

\* The guard of a route follows the rows of the role and of the membership, those
\* of the membership first.
RowsDecide == DeniedIsRefused /\ GrantedIsAllowed
=============================================================================
