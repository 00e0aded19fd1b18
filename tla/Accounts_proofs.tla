--------------------------- MODULE Accounts_proofs ---------------------------
(***************************************************************************)
(* Theorems about Accounts, for any emails, slugs, requests in flight and   *)
(* workloads, and any number of calls and faults: what the tables hold,    *)
(* what an answer of success has saved, which logos are in the store, and  *)
(* what the permission rows grant.                                         *)
(***************************************************************************)
EXTENDS Accounts, FiniteSetTheorems, SequenceTheorems, TLAPS

-----------------------------------------------------------------------------
(* Types.                                                                  *)

Names == {"CUSTOMER"} \cup UNION {w.names : w \in Workloads}
Perms == {NoRows} \cup UNION {w.rolePerms \cup w.userPerms : w \in Workloads}
Memberships == UNION {[D -> Perms] : D \in SUBSET Nat}

UserRows == [email : Emails, role : Nat, memberships : Memberships, addresses : Nat,
             deleted : BOOLEAN]
RoleRows == [name : Names, tenant : Nat, perms : Perms, there : BOOLEAN]
TenantRows == [slug : Slugs, email : Emails, address : Nat, logo : Int,
               status : {"ACTIVE", "INACTIVE"}, deleted : BOOLEAN]
BranchRows == [tenant : Nat, address : Nat, deleted : BOOLEAN]

UserPCs == {"exists", "findRole", "role", "user", "update", "addresses", "done"}
PlacePCs == {"unique", "upload", "address", "insert", "logo", "own", "write", "toggle",
             "branch"}
UserOps == {"create", "superAdmin", "tenantUser", "update", "role"}
PlaceOps == {"tenant", "editTenant", "toggle", "branch"}
Progress == {"todo", "row", "attached", "failed"}

Slot == [op : {"none"} \cup UserOps \cup PlaceOps, pc : {"idle"} \cup UserPCs \cup PlacePCs,
         email : Emails \cup {None}, name : Names, tenant : Nat, role : Nat, perms : Perms,
         user : Nat, slug : Slugs \cup {None}, address : Int, branch : Nat, logo : Nat,
         url : Int, file : BOOLEAN, todo : Seq(Progress), status : {"ACTIVE", "INACTIVE"}]

-----------------------------------------------------------------------------
(* The inductive invariant.                                                *)

\* What the handlers of users and roles know when they are about to write.
UserSlot(q) ==
  /\ q.pc = "exists" => q.op \in {"create", "superAdmin", "tenantUser", "update"}
  /\ q.pc = "findRole" => q.op \in {"superAdmin", "role"}
  /\ q.pc = "role" => q.op \in {"create", "superAdmin", "role"}
  /\ q.pc = "user" => q.op \in {"create", "superAdmin", "tenantUser"} /\ q.role \in DOMAIN roles
  /\ q.pc = "update" => q.op = "update"
  /\ q.op \in {"create", "superAdmin", "tenantUser"} => q.email \in Emails
  /\ q.op = "tenantUser" => q.role \in DOMAIN roles
  /\ q.op \in {"superAdmin", "tenantUser"} => q.tenant # 0
  /\ q.op = "update" \/ q.pc \in {"addresses", "done"} => q.user \in DOMAIN users

\* Those of tenants and branches.
PlaceSlot(q) ==
  /\ q.pc \in {"unique", "insert"} => q.op = "tenant"
  /\ q.pc = "upload" => q.op \in {"tenant", "editTenant"}
  /\ q.pc = "address" => q.op \in {"tenant", "branch"}
  /\ q.pc = "logo" => q.op = "editTenant" /\ q.file
  /\ q.pc \in {"own", "write"} => q.op = "editTenant" /\ (q.file => q.logo # 0)
  /\ q.pc = "toggle" => q.op = "toggle"
  /\ q.pc = "branch" => q.op = "branch"
  /\ q.op = "tenant" => q.slug \in Slugs /\ q.email \in Emails /\ q.address # Unset
  /\ q.op \in {"editTenant", "toggle", "branch"} => q.tenant # 0
  /\ q.op = "branch" => q.branch \in DOMAIN branches \cup {0}
                        /\ (q.branch = 0 => q.address # Unset)
  /\ q.pc \in {"insert", "write", "branch"} => q.address # New

Attached(todo) == {i \in DOMAIN todo : todo[i] = "attached"}

\* Each address a handler has attached is counted in the row of its user.
TodoSlot(q) ==
  /\ q.pc \notin {"addresses", "done"} => \A i \in DOMAIN q.todo : q.todo[i] = "todo"
  /\ q.pc = "done" => AllAttached(q.todo)
  /\ q.pc \in {"addresses", "done"} => Cardinality(Attached(q.todo)) <= users[q.user].addresses

SlotOK(q) ==
  /\ q.tenant \in Tenants \cup {0}
  /\ q.address \in Unset..addresses
  /\ q.logo \in 0..uploads /\ q.url \in Elsewhere..uploads
  /\ UserSlot(q) /\ PlaceSlot(q) /\ TodoSlot(q)

SlotsOK ==
  /\ req \in [Requests -> Slot]
  /\ \A r \in Requests : SlotOK(req[r])

Typed ==
  /\ users \in Seq(UserRows) /\ roles \in Seq(RoleRows)
  /\ tenants \in Seq(TenantRows) /\ branches \in Seq(BranchRows)
  /\ addresses \in Nat \ {0} /\ uploads \in Nat
  /\ workload \in Workloads
  /\ faults \in 0..MaxFaults

PeopleOK ==
  /\ \A u \in DOMAIN users :
       /\ users[u].role \in DOMAIN roles
       /\ DOMAIN users[u].memberships \subseteq Tenants
  /\ \A i \in DOMAIN roles : roles[i].tenant \in Tenants \cup {0}
  /\ EmailsUnique
  /\ UsersKeepRole

\* The rows a handler has written and not yet attached to the user.
Rows(u) ==
  {p \in Requests \X Nat :
     req[p[1]].user = u /\ p[2] \in DOMAIN req[p[1]].todo /\ req[p[1]].todo[p[2]] = "row"}

\* Each address of a user is a row of its own, those about to be attached too.
CountsOK ==
  \A u \in DOMAIN users :
    IsFiniteSet(Rows(u)) /\ users[u].addresses + Cardinality(Rows(u)) <= addresses

PlacesOK ==
  /\ \A t \in Tenants : tenants[t].address \in 1..addresses /\ tenants[t].logo \in (Elsewhere..uploads) \ {Unset}
  /\ \A b \in DOMAIN branches : branches[b].address \in 1..addresses
  /\ files \subseteq 1..uploads
  /\ spoiled \subseteq Tenants
  /\ named \subseteq 1..uploads
  /\ TenantsUnique

Editing(q, t) ==
  q.op = "editTenant" /\ q.tenant = t /\ q.file /\ q.pc \in {"upload", "own", "write"}

LogoThere(t) ==
  tenants[t].deleted \/ tenants[t].logo \in files \cup named \cup {0, Elsewhere}
  \/ \E r \in Requests : Editing(req[r], t)

\* No logo but one that a body named is of two tenants, or of a tenant and of a
\* handler that has yet to write its row: so dropping one tenant's logo takes no
\* other's.
LogosOK ==
  /\ \A t \in Tenants \ spoiled : LogoThere(t)
  /\ \A t, x \in Tenants : tenants[t].logo = tenants[x].logo =>
       t = x \/ tenants[t].logo \in named \cup {0, Elsewhere}
  /\ \A r \in Requests : req[r].logo \notin named \cup {0} =>
       req[r].logo \in files /\ \A t \in Tenants : tenants[t].logo # req[r].logo
  /\ \A r, s \in Requests : req[r].logo = req[s].logo => r = s \/ req[r].logo = 0

Inv == Typed /\ SlotsOK /\ PeopleOK /\ CountsOK /\ PlacesOK /\ LogosOK

LEMMA IdleIsSlot == Idle \in Slot
BY DEF Idle, Slot, UserPCs, PlacePCs, UserOps, PlaceOps, Names, Perms, Unset

LEMMA InitHolds == ASSUME Init PROVE Inv
<1> USE AccountsAssumption DEF Init
<1> DEFINE s == CHOOSE x \in Slugs : TRUE
           e == CHOOSE x \in Emails : TRUE
<1>1. s \in Slugs /\ e \in Emails
  OBVIOUS
<1>2. TenantRow(s, e, 1, 1) \in TenantRows
  BY <1>1 DEF TenantRow, TenantRows
<1>3. Typed
  BY <1>2 DEF Typed
<1>4. /\ tenants = <<TenantRow(s, e, 1, 1)>>
      /\ Tenants = {1} /\ tenants[1].address = 1 /\ tenants[1].logo = 1
      /\ DOMAIN users = {} /\ DOMAIN roles = {} /\ DOMAIN branches = {}
  BY DEF Tenants, TenantRow
<1>5. SlotsOK
  <2>1. SlotOK(Idle)
    BY <1>4 DEF SlotOK, Idle, UserSlot, PlaceSlot, TodoSlot, Unset, Elsewhere
  <2>2. QED
    BY <2>1, IdleIsSlot DEF SlotsOK
<1>6. PeopleOK /\ CountsOK
  BY <1>4 DEF PeopleOK, CountsOK, EmailsUnique, UsersKeepRole
<1>7. PlacesOK
  BY <1>4 DEF PlacesOK, TenantsUnique, Unset, Elsewhere
<1>8. LogosOK
  BY <1>4 DEF LogosOK, LogoThere, Idle
<1>9. QED
  BY <1>3, <1>5, <1>6, <1>7, <1>8 DEF Inv

-----------------------------------------------------------------------------
(* What a step of one handler does to the others.                          *)

\* Rows are added and never leave, counts grow.
Grows ==
  /\ DOMAIN users \subseteq DOMAIN users' /\ DOMAIN roles \subseteq DOMAIN roles'
  /\ DOMAIN tenants \subseteq DOMAIN tenants' /\ DOMAIN branches \subseteq DOMAIN branches'
  /\ \A u \in DOMAIN users : users[u].addresses <= users'[u].addresses
  /\ addresses <= addresses' /\ uploads <= uploads'

\* Every number is one.
LEMMA Numbers ==
  ASSUME Typed
  PROVE  /\ addresses \in Nat /\ uploads \in Nat
         /\ \A u \in DOMAIN users : users[u] \in UserRows /\ users[u].addresses \in Nat
         /\ \A t \in Tenants : tenants[t] \in TenantRows
         /\ \A i \in DOMAIN roles : roles[i] \in RoleRows
         /\ \A b \in DOMAIN branches : branches[b] \in BranchRows
<1>1. \A u \in DOMAIN users : users[u] \in UserRows
  BY ElementOfSeq DEF Typed
<1>2. QED
  BY <1>1 DEF Typed, UserRows, Tenants

LEMMA AttachedFinite ==
  ASSUME NEW todo \in Seq(Progress)
  PROVE  /\ IsFiniteSet(DOMAIN todo) /\ Cardinality(DOMAIN todo) = Len(todo)
         /\ IsFiniteSet(Attached(todo)) /\ Cardinality(Attached(todo)) \in Nat
<1>1. DOMAIN todo = 1..Len(todo) /\ Len(todo) \in Nat
  OBVIOUS
<1>2. 1 \in Int /\ Len(todo) \in Int
  BY <1>1
<1>3. IsFiniteSet(1..Len(todo)) /\ Cardinality(1..Len(todo)) = Len(todo)
  BY <1>1, <1>2, FS_Interval
<1>4. Attached(todo) \in SUBSET DOMAIN todo
  BY DEF Attached
<1>5. QED
  BY <1>1, <1>3, <1>4, FS_Subset, FS_CardinalityType

LEMMA SlotGrows ==
  ASSUME Typed, Typed', Grows, NEW q \in Slot, SlotOK(q)
  PROVE  SlotOK(q)'
<1>1. /\ q.tenant \in Tenants' \cup {0}
      /\ q.address \in Unset..addresses'
      /\ q.logo \in 0..uploads' /\ q.url \in Elsewhere..uploads'
  <2>1. /\ addresses \in Nat /\ addresses' \in Nat /\ addresses <= addresses'
        /\ uploads \in Nat /\ uploads' \in Nat /\ uploads <= uploads'
    BY DEF Typed, Grows
  <2>2. /\ q.address \in Unset..addresses /\ q.logo \in 0..uploads /\ Unset \in Int
        /\ q.url \in Elsewhere..uploads /\ Elsewhere \in Int
    BY DEF SlotOK, Unset, Elsewhere
  <2>3. /\ q.address \in Unset..addresses' /\ q.logo \in 0..uploads'
        /\ q.url \in Elsewhere..uploads'
    BY <2>1, <2>2
  <2>4. QED
    BY <2>3 DEF SlotOK, Grows, Tenants
<1>2. UserSlot(q)'
  BY DEF SlotOK, UserSlot, Grows
<1>3. PlaceSlot(q)'
  BY DEF SlotOK, PlaceSlot, Grows
<1>4. TodoSlot(q)'
  <2>1. ASSUME q.pc \in {"addresses", "done"}
        PROVE  Cardinality(Attached(q.todo)) <= users'[q.user].addresses
    <3>1. q.todo \in Seq(Progress)
      BY DEF Slot
    <3>2. /\ Cardinality(Attached(q.todo)) \in Nat
          /\ Cardinality(Attached(q.todo)) <= users[q.user].addresses
          /\ q.user \in DOMAIN users
      BY <2>1, <3>1, AttachedFinite DEF SlotOK, TodoSlot, UserSlot
    <3>3. users[q.user].addresses \in Nat /\ users'[q.user].addresses \in Nat
      <4>1. users[q.user].addresses \in Nat
        BY <3>2, Numbers
      <4>2. users'[q.user] \in UserRows
        BY <3>2, ElementOfSeq DEF Typed, Grows
      <4>3. QED
        BY <4>1, <4>2 DEF UserRows
    <3>4. QED
      BY <3>2, <3>3 DEF Grows
  <2>2. QED
    BY <2>1 DEF SlotOK, TodoSlot
<1>5. QED
  BY <1>1, <1>2, <1>3, <1>4 DEF SlotOK

LEMMA SlotMoves ==
  ASSUME Typed, Typed', SlotsOK, Grows, NEW r \in Requests, NEW q \in Slot,
         req' = [req EXCEPT ![r] = q], SlotOK(q)'
  PROVE  SlotsOK'
<1>1. req' \in [Requests -> Slot]
  BY DEF SlotsOK
<1>2. ASSUME NEW x \in Requests PROVE SlotOK(req[x])'
  <2>1. PICK z \in Slot : z = req'[x]
    BY <1>1
  <2>2. SlotOK(z)'
    <3>1. CASE x = r
      BY <2>1, <3>1 DEF SlotsOK
    <3>2. CASE x # r
      BY <2>1, <3>2, SlotGrows DEF SlotsOK
    <3>3. QED
      BY <3>1, <3>2
  <2>3. QED
    BY <2>1, <2>2 DEF SlotOK, UserSlot, PlaceSlot, TodoSlot
<1>3. QED
  BY <1>1, <1>2 DEF SlotsOK

-----------------------------------------------------------------------------
(* What a step leaves alone.                                               *)

\* Nothing in a handler but what its rows and logo do.
Pending(q) == \E i \in DOMAIN q.todo : q.todo[i] = "row"

\* No address row is begun or ended, users keep their counts, and those that are
\* new have none.
LEMMA SameCounts ==
  ASSUME CountsOK, SlotsOK, addresses \in Nat, addresses' \in Nat, addresses <= addresses',
         \A u \in DOMAIN users :
           users[u].addresses \in Nat /\ users'[u].addresses = users[u].addresses,
         \A u \in DOMAIN users' \ DOMAIN users : users'[u].addresses = 0,
         \A x \in Requests :
           \/ req'[x].todo = req[x].todo /\ req'[x].user = req[x].user
           \/ ~Pending(req'[x]) /\ ~Pending(req[x])
  PROVE  CountsOK'
<1>1. ASSUME NEW u PROVE Rows(u)' = Rows(u)
  BY DEF Rows, Pending
<1>2. ASSUME NEW u \in DOMAIN users
      PROVE  (IsFiniteSet(Rows(u)) /\ users[u].addresses + Cardinality(Rows(u)) <= addresses)'
  <2>1. /\ IsFiniteSet(Rows(u)) /\ Cardinality(Rows(u)) \in Nat
        /\ users[u].addresses + Cardinality(Rows(u)) <= addresses
    BY FS_CardinalityType DEF CountsOK
  <2>2. QED
    BY <1>1, <2>1
<1>3. ASSUME NEW u \in DOMAIN users' \ DOMAIN users
      PROVE  (IsFiniteSet(Rows(u)) /\ users[u].addresses + Cardinality(Rows(u)) <= addresses)'
  <2>1. \A x \in Requests : Pending(req[x]) => req[x].user \in DOMAIN users
    BY DEF SlotsOK, SlotOK, TodoSlot, UserSlot, Pending, AllAttached
  <2>2. Rows(u) = {}
    BY <2>1 DEF Rows, Pending
  <2>3. QED
    BY <1>1, <2>2, FS_EmptySet
<1>4. QED
  BY <1>2, <1>3 DEF CountsOK

LEMMA SamePeople == ASSUME PeopleOK, UNCHANGED people, Tenants \subseteq Tenants' PROVE PeopleOK'
BY DEF PeopleOK, people, EmailsUnique, UsersKeepRole

LEMMA SamePlaces ==
  ASSUME PlacesOK, UNCHANGED places, Typed, Typed', addresses <= addresses'
  PROVE  PlacesOK'
<1>1. ASSUME NEW n \in 1..addresses PROVE n \in 1..addresses'
  BY DEF Typed
<1>2. QED
  BY <1>1 DEF PlacesOK, places, TenantsUnique, Tenants

\* Tenants keep their logos and files stay; handlers keep their logos or give them
\* up, and leave no row unwritten behind a logo they have dropped, but in a tenant
\* that is spoiled.
LEMMA SameLogos ==
  ASSUME LogosOK, UNCHANGED <<files, named>>, spoiled \subseteq spoiled', Tenants' = Tenants,
         \A t \in Tenants : /\ tenants'[t].logo = tenants[t].logo
                            /\ tenants[t].deleted => tenants'[t].deleted,
         \A x \in Requests :
           /\ req'[x].logo \in {0, req[x].logo}
           /\ \A t \in Tenants : Editing(req[x], t) => Editing(req'[x], t) \/ t \in spoiled'
  PROVE  LogosOK'
<1>1. \A t \in Tenants \ spoiled' :
        (\E x \in Requests : Editing(req[x], t)) => (\E x \in Requests : Editing(req'[x], t))
  OBVIOUS
<1>2. (\A t \in Tenants \ spoiled : LogoThere(t))'
  BY <1>1 DEF LogosOK, LogoThere, Editing
<1>3. QED
  BY <1>2 DEF LogosOK, LogoThere

\* A step that only moves one handler on.
LEMMA OnlyMoves ==
  ASSUME Inv, NEW r \in Requests, NEW q \in Slot, req' = [req EXCEPT ![r] = q], SlotOK(q),
         UNCHANGED <<people, places, addresses, workload>>, faults' \in 0..MaxFaults,
         \/ q.todo = req[r].todo /\ q.user = req[r].user
         \/ ~Pending(q) /\ ~Pending(req[r]),
         q.logo \in {0, req[r].logo},
         \A t \in Tenants : Editing(req[r], t) => Editing(q, t)
  PROVE  Inv'
<1>1. Typed /\ SlotsOK /\ req \in [Requests -> Slot]
  BY DEF Inv, SlotsOK
<1>2. Typed'
  BY <1>1 DEF Typed, people, places
<1>3. Tenants' = Tenants /\ addresses' = addresses /\ addresses \in Nat
  BY <1>1, Numbers DEF places, Tenants
<1>4. Grows
  BY <1>1, Numbers DEF Grows, people, places
<1>5. SlotOK(q)'
  BY DEF SlotOK, UserSlot, PlaceSlot, TodoSlot, people, places, Tenants
<1>6. SlotsOK'
  BY <1>1, <1>2, <1>4, <1>5, SlotMoves
<1>7. CountsOK'
  <2>1. users' = users /\ \A u \in DOMAIN users : users[u].addresses \in Nat
    BY <1>1, Numbers DEF people
  <2>2. QED
    BY <1>1, <1>3, <2>1, SameCounts DEF Inv
<1>8. PeopleOK' /\ PlacesOK'
  BY <1>1, <1>2, <1>3, SamePeople, SamePlaces DEF Inv
<1>9. LogosOK'
  BY <1>1, <1>3, SameLogos DEF Inv, places
<1>10. QED
  BY <1>2, <1>6, <1>7, <1>8, <1>9 DEF Inv

\* The end of a handler of users.
LEMMA IdleOK ==
  ASSUME Typed
  PROVE  SlotOK(Idle) /\ ~Pending(Idle) /\ Idle.logo = 0 /\ Idle.todo = <<>>
         /\ \A t : ~Editing(Idle, t)
<1>1. /\ Idle.tenant = 0 /\ Idle.address \in Unset..addresses /\ Idle.logo \in 0..uploads
      /\ Idle.url \in Elsewhere..uploads
  BY DEF Typed, Idle, Unset, Elsewhere
<1>2. UserSlot(Idle) /\ PlaceSlot(Idle) /\ TodoSlot(Idle)
  BY DEF UserSlot, PlaceSlot, TodoSlot, Idle
<1>3. QED
  BY <1>1, <1>2 DEF SlotOK, Idle, Pending, Editing
-----------------------------------------------------------------------------
(* Requests arrive.                                                        *)

LEMMA BeginHolds ==
  ASSUME Inv, NEW r \in Requests, NEW q \in Slot, Begin(r, q), SlotOK(q), ~Pending(q),
         q.logo = 0
  PROVE  Inv'
<1> USE DEF Begin
<1>1. SlotOK(req[r]) /\ req[r].pc = "idle"
  BY DEF Inv, SlotsOK
<1>2. ~Pending(req[r]) /\ \A t : ~Editing(req[r], t)
  BY <1>1 DEF SlotOK, TodoSlot, Pending, Editing
<1>3. faults' \in 0..MaxFaults
  BY DEF Inv, Typed
<1>4. QED
  BY <1>2, <1>3, OnlyMoves

\* What a body may ask for.
LEMMA BodyTypes ==
  ASSUME Inv
  PROVE  /\ workload \in Workloads
         /\ workload.names \subseteq Names /\ workload.addresses \subseteq Nat
         /\ workload.rolePerms \cup workload.userPerms \subseteq Perms
         /\ NoRows \in Perms
         /\ Tenants \subseteq Nat \ {0} /\ DOMAIN users \subseteq Nat
         /\ DOMAIN roles \subseteq Nat /\ DOMAIN branches \subseteq Nat
<1>1. workload \in Workloads
  BY DEF Inv, Typed
<1>2. Tenants \subseteq Nat \ {0}
  BY DEF Inv, Typed, Tenants
<1>3. DOMAIN users \subseteq Nat /\ DOMAIN roles \subseteq Nat /\ DOMAIN branches \subseteq Nat
  BY DEF Inv, Typed
<1>4. QED
  BY <1>1, <1>2, <1>3, AccountsAssumption DEF AccountsAssumption, Names, Perms

LEMMA UrlTypes ==
  ASSUME Inv, NEW file \in BOOLEAN, NEW url \in Urls(file)
  PROVE  url \in Int /\ url \in Elsewhere..uploads
BY DEF Inv, Typed, Urls, Unset, Elsewhere

LEMMA TodoBegins ==
  ASSUME NEW n \in Nat
  PROVE  /\ [i \in 1..n |-> "todo"] \in Seq(Progress)
         /\ \A i \in 1..n : [x \in 1..n |-> "todo"][i] = "todo"
         /\ DOMAIN [i \in 1..n |-> "todo"] = 1..n
BY DEF Progress

LEMMA CreateArrives ==
  ASSUME Inv, NEW r \in Requests,
         NEW op \in {"create", "superAdmin", "tenantUser"}, NEW email \in Emails,
         NEW name \in workload.names, NEW t \in Tenants \cup {0},
         NEW role \in DOMAIN roles \cup {0}, NEW perms \in workload.userPerms,
         NEW n \in workload.addresses,
         BeginCreate(r, op, email, name, t, role, perms, n)
  PROVE  Inv'
<1> DEFINE todo == [i \in 1..n |-> "todo"]
           q == [Idle EXCEPT !.op = op, !.pc = "exists", !.email = email, !.name = name,
                   !.tenant = t, !.role = role, !.perms = perms, !.todo = todo]
<1>1. /\ todo \in Seq(Progress) /\ \A i \in DOMAIN todo : todo[i] = "todo"
      /\ name \in Names /\ perms \in Perms /\ t \in Nat /\ role \in Nat
  <2>1. n \in Nat /\ name \in Names /\ perms \in Perms /\ t \in Nat /\ role \in Nat
    BY BodyTypes
  <2>2. QED
    BY <2>1, TodoBegins
<1>2. /\ op # "create" => t # 0
      /\ op = "tenantUser" => role \in DOMAIN roles
      /\ Begin(r, q)
  BY BodyTypes DEF BeginCreate
<1> HIDE DEF todo
<1>3. q \in Slot
  <2>1. ASSUME NEW z \in Slot
        PROVE  [z EXCEPT !.op = op, !.pc = "exists", !.email = email, !.name = name,
                   !.tenant = t, !.role = role, !.perms = perms, !.todo = todo] \in Slot
    BY <1>1 DEF Slot, UserOps, UserPCs
  <2>2. QED
    BY <2>1, IdleIsSlot
<1>4. /\ q.op = op /\ q.pc = "exists" /\ q.email = email /\ q.tenant = t /\ q.role = role
      /\ q.todo = todo /\ q.address = Idle.address /\ q.logo = Idle.logo
      /\ q.url = Idle.url
  BY IdleIsSlot DEF Slot
<1>5. Idle.address \in Unset..addresses /\ Idle.logo = 0 /\ Idle.logo \in 0..uploads /\ Idle.url \in Elsewhere..uploads
  BY IdleOK DEF Inv, SlotOK
<1> HIDE DEF q
<1>6. SlotOK(q) /\ ~Pending(q)
  BY <1>1, <1>2, <1>4, <1>5 DEF SlotOK, UserSlot, PlaceSlot, TodoSlot, Pending
<1>7. QED
  BY <1>2, <1>3, <1>4, <1>5, <1>6, BeginHolds

LEMMA UpdateArrives ==
  ASSUME Inv, NEW r \in Requests, NEW u \in DOMAIN users, NEW email \in Emails \cup {None},
         NEW t \in Tenants \cup {0}, NEW n \in workload.addresses,
         BeginUpdate(r, u, email, t, n)
  PROVE  Inv'
<1> DEFINE todo == [i \in 1..n |-> "todo"]
           q == [Idle EXCEPT !.op = "update", !.pc = "exists", !.user = u, !.email = email,
                   !.tenant = t, !.todo = todo]
<1>1. /\ todo \in Seq(Progress) /\ \A i \in DOMAIN todo : todo[i] = "todo"
      /\ t \in Nat /\ u \in Nat
  <2>1. n \in Nat /\ t \in Nat /\ u \in Nat
    BY BodyTypes
  <2>2. QED
    BY <2>1, TodoBegins
<1>2. Begin(r, q)
  BY DEF BeginUpdate
<1> HIDE DEF todo
<1>3. q \in Slot
  <2>1. ASSUME NEW z \in Slot
        PROVE  [z EXCEPT !.op = "update", !.pc = "exists", !.user = u, !.email = email,
                   !.tenant = t, !.todo = todo] \in Slot
    BY <1>1 DEF Slot, UserOps, UserPCs
  <2>2. QED
    BY <2>1, IdleIsSlot
<1>4. /\ q.op = "update" /\ q.pc = "exists" /\ q.user = u /\ q.tenant = t
      /\ q.todo = todo /\ q.address = Idle.address /\ q.logo = Idle.logo
      /\ q.url = Idle.url
  BY IdleIsSlot DEF Slot
<1>5. Idle.address \in Unset..addresses /\ Idle.logo = 0 /\ Idle.logo \in 0..uploads /\ Idle.url \in Elsewhere..uploads
  BY IdleOK DEF Inv, SlotOK
<1> HIDE DEF q
<1>6. SlotOK(q) /\ ~Pending(q)
  BY <1>1, <1>4, <1>5 DEF SlotOK, UserSlot, PlaceSlot, TodoSlot, Pending
<1>7. QED
  BY <1>2, <1>3, <1>4, <1>5, <1>6, BeginHolds

LEMMA RoleArrives ==
  ASSUME Inv, NEW r \in Requests, NEW name \in workload.names, NEW t \in Tenants \cup {0},
         NEW perms \in workload.rolePerms, BeginRole(r, name, t, perms)
  PROVE  Inv'
<1> DEFINE q == [Idle EXCEPT !.op = "role", !.pc = "findRole", !.name = name, !.tenant = t,
                   !.perms = perms]
<1>1. name \in Names /\ perms \in Perms /\ t \in Nat
  BY BodyTypes
<1>2. Begin(r, q)
  BY DEF BeginRole
<1>3. q \in Slot
  <2>1. ASSUME NEW z \in Slot
        PROVE  [z EXCEPT !.op = "role", !.pc = "findRole", !.name = name, !.tenant = t,
                   !.perms = perms] \in Slot
    BY <1>1 DEF Slot, UserOps, UserPCs
  <2>2. QED
    BY <2>1, IdleIsSlot
<1>4. /\ q.op = "role" /\ q.pc = "findRole" /\ q.tenant = t
      /\ q.todo = Idle.todo /\ q.address = Idle.address /\ q.logo = Idle.logo
      /\ q.url = Idle.url
  BY IdleIsSlot DEF Slot
<1>5. /\ Idle.address \in Unset..addresses /\ Idle.logo = 0 /\ Idle.logo \in 0..uploads /\ Idle.url \in Elsewhere..uploads
      /\ Idle.todo = <<>>
  BY IdleOK DEF Inv, SlotOK
<1> HIDE DEF q
<1>6. SlotOK(q) /\ ~Pending(q)
  BY <1>1, <1>4, <1>5 DEF SlotOK, UserSlot, PlaceSlot, TodoSlot, Pending
<1>7. QED
  BY <1>2, <1>3, <1>4, <1>5, <1>6, BeginHolds

LEMMA TenantArrives ==
  ASSUME Inv, NEW r \in Requests, NEW slug \in Slugs, NEW email \in Emails,
         NEW a \in 0..addresses, NEW file \in BOOLEAN,
         NEW url \in Urls(file), BeginTenant(r, slug, email, a, file, url)
  PROVE  Inv'
<1> DEFINE q == [Idle EXCEPT !.op = "tenant", !.pc = "unique", !.slug = slug,
                   !.email = email, !.address = a, !.file = file, !.url = url]
<1>1. /\ a \in Int /\ a \in Unset..addresses /\ a # Unset
      /\ url \in Int /\ url \in Elsewhere..uploads
  BY UrlTypes DEF Inv, Typed, Unset
<1>2. Begin(r, q)
  BY DEF BeginTenant
<1>3. q \in Slot
  <2>1. ASSUME NEW z \in Slot
        PROVE  [z EXCEPT !.op = "tenant", !.pc = "unique", !.slug = slug,
                   !.email = email, !.address = a, !.file = file,
                   !.url = url] \in Slot
    BY <1>1 DEF Slot, PlaceOps, PlacePCs
  <2>2. QED
    BY <2>1, IdleIsSlot
<1>4. /\ q.op = "tenant" /\ q.pc = "unique" /\ q.slug = slug /\ q.email = email
      /\ q.address = a /\ q.tenant = Idle.tenant /\ q.todo = Idle.todo /\ q.logo = Idle.logo
      /\ q.url = url
  BY IdleIsSlot DEF Slot
<1>5. /\ Idle.tenant \in Tenants \cup {0} /\ Idle.logo = 0 /\ Idle.logo \in 0..uploads /\ Idle.url \in Elsewhere..uploads
      /\ Idle.todo = <<>>
  BY IdleOK DEF Inv, SlotOK
<1> HIDE DEF q
<1>6. SlotOK(q) /\ ~Pending(q)
  BY <1>1, <1>4, <1>5 DEF SlotOK, UserSlot, PlaceSlot, TodoSlot, Pending
<1>7. QED
  BY <1>2, <1>3, <1>4, <1>5, <1>6, BeginHolds

LEMMA EditArrives ==
  ASSUME Inv, NEW r \in Requests, NEW t \in Tenants, NEW a \in Unset..addresses,
         NEW file \in BOOLEAN, NEW url \in Urls(file), UpdateWithFile(r, t, a, file, url)
  PROVE  Inv'
<1> DEFINE pc == IF file THEN "logo" ELSE IF a = New THEN "own" ELSE "write"
           q == [Idle EXCEPT !.op = "editTenant", !.tenant = t, !.address = a, !.file = file,
                   !.url = url, !.pc = pc]
<1>1. /\ a \in Int /\ t \in Nat /\ t # 0
      /\ url \in Int /\ url \in Elsewhere..uploads
  BY BodyTypes, UrlTypes DEF Inv, Typed, Unset
<1>2. Begin(r, q)
  BY DEF UpdateWithFile
<1>3. /\ pc \in {"logo", "own", "write"}
      /\ pc = "logo" => file
      /\ pc # "logo" => ~file
      /\ pc = "write" => a # New
  OBVIOUS
<1> HIDE DEF pc
<1>4. q \in Slot
  <2>1. ASSUME NEW z \in Slot
        PROVE  [z EXCEPT !.op = "editTenant", !.tenant = t, !.address = a, !.file = file,
                   !.url = url, !.pc = pc] \in Slot
    BY <1>1, <1>3 DEF Slot, PlaceOps, PlacePCs
  <2>2. QED
    BY <2>1, IdleIsSlot
<1>5. /\ q.op = "editTenant" /\ q.pc = pc /\ q.tenant = t /\ q.address = a /\ q.file = file
      /\ q.todo = Idle.todo /\ q.logo = Idle.logo
      /\ q.url = url
  BY IdleIsSlot DEF Slot
<1>6. Idle.logo = 0 /\ Idle.logo \in 0..uploads /\ Idle.url \in Elsewhere..uploads /\ Idle.todo = <<>>
  BY IdleOK DEF Inv, SlotOK
<1> HIDE DEF q
<1>7. SlotOK(q) /\ ~Pending(q)
  BY <1>1, <1>3, <1>5, <1>6 DEF SlotOK, UserSlot, PlaceSlot, TodoSlot, Pending
<1>8. QED
  BY <1>2, <1>4, <1>5, <1>6, <1>7, BeginHolds

LEMMA BranchArrives ==
  ASSUME Inv, NEW r \in Requests, NEW b \in DOMAIN branches \cup {0}, NEW t \in Tenants,
         NEW a \in Unset..addresses, BeginBranch(r, b, t, a)
  PROVE  Inv'
<1> DEFINE pc == IF a = New THEN "address" ELSE "branch"
           q == [Idle EXCEPT !.op = "branch", !.branch = b, !.tenant = t, !.address = a,
                   !.pc = pc]
<1>1. a \in Int /\ t \in Nat /\ t # 0 /\ b \in Nat
  BY BodyTypes DEF Inv, Typed, Unset
<1>2. Begin(r, q) /\ (b = 0 => a # Unset)
  BY DEF BeginBranch
<1>3. pc \in {"address", "branch"} /\ (pc = "branch" => a # New)
  OBVIOUS
<1> HIDE DEF pc
<1>4. q \in Slot
  <2>1. ASSUME NEW z \in Slot
        PROVE  [z EXCEPT !.op = "branch", !.branch = b, !.tenant = t, !.address = a,
                   !.pc = pc] \in Slot
    BY <1>1, <1>3 DEF Slot, PlaceOps, PlacePCs
  <2>2. QED
    BY <2>1, IdleIsSlot
<1>5. /\ q.op = "branch" /\ q.pc = pc /\ q.tenant = t /\ q.address = a /\ q.branch = b
      /\ q.todo = Idle.todo /\ q.logo = Idle.logo
      /\ q.url = Idle.url
  BY IdleIsSlot DEF Slot
<1>6. Idle.logo = 0 /\ Idle.logo \in 0..uploads /\ Idle.url \in Elsewhere..uploads /\ Idle.todo = <<>>
  BY IdleOK DEF Inv, SlotOK
<1> HIDE DEF q
<1>7. SlotOK(q) /\ ~Pending(q)
  BY <1>1, <1>2, <1>3, <1>5, <1>6 DEF SlotOK, UserSlot, PlaceSlot, TodoSlot, Pending
<1>8. QED
  BY <1>2, <1>4, <1>5, <1>6, <1>7, BeginHolds

LEMMA ToggleArrives ==
  ASSUME Inv, NEW r \in Requests, NEW t \in Tenants, BeginToggle(r, t)
  PROVE  Inv'
<1> DEFINE st == IF tenants[t].status = "ACTIVE" THEN "INACTIVE" ELSE "ACTIVE"
           q == [Idle EXCEPT !.op = "toggle", !.pc = "toggle", !.tenant = t, !.status = st]
<1>1. t \in Nat /\ t # 0 /\ st \in {"ACTIVE", "INACTIVE"}
  BY BodyTypes
<1>2. Begin(r, q)
  BY DEF BeginToggle
<1> HIDE DEF st
<1>3. q \in Slot
  <2>1. ASSUME NEW z \in Slot
        PROVE  [z EXCEPT !.op = "toggle", !.pc = "toggle", !.tenant = t, !.status = st] \in Slot
    BY <1>1 DEF Slot, PlaceOps, PlacePCs
  <2>2. QED
    BY <2>1, IdleIsSlot
<1>4. /\ q.op = "toggle" /\ q.pc = "toggle" /\ q.tenant = t
      /\ q.address = Idle.address /\ q.todo = Idle.todo /\ q.logo = Idle.logo
      /\ q.url = Idle.url
  BY IdleIsSlot DEF Slot
<1>5. /\ Idle.address \in Unset..addresses /\ Idle.logo = 0 /\ Idle.logo \in 0..uploads /\ Idle.url \in Elsewhere..uploads
      /\ Idle.todo = <<>>
  BY IdleOK DEF Inv, SlotOK
<1> HIDE DEF q
<1>6. SlotOK(q) /\ ~Pending(q)
  BY <1>1, <1>4, <1>5 DEF SlotOK, UserSlot, PlaceSlot, TodoSlot, Pending
<1>7. QED
  BY <1>2, <1>3, <1>4, <1>5, <1>6, BeginHolds

LEMMA ArriveHolds == ASSUME Inv, NEW r \in Requests, Arrive(r) PROVE Inv'
BY CreateArrives, UpdateArrives, RoleArrives, TenantArrives, EditArrives, BranchArrives,
   ToggleArrives DEF Arrive

-----------------------------------------------------------------------------
(* Steps that only look.                                                   *)

\* The handler ends, and nothing it has dropped is left unwritten.
LEMMA EndHolds ==
  ASSUME Inv, NEW r \in Requests, End(r), ~Pending(req[r]),
         UNCHANGED <<people, places, addresses, workload>>, faults' \in 0..MaxFaults,
         \A t \in Tenants : ~Editing(req[r], t)
  PROVE  Inv'
<1>1. SlotOK(Idle) /\ ~Pending(Idle) /\ Idle.logo = 0 /\ \A t : ~Editing(Idle, t)
  BY IdleOK DEF Inv
<1>2. QED
  BY <1>1, IdleIsSlot, OnlyMoves DEF End

\* The handler goes on to another statement.
LEMMA GotoHolds ==
  ASSUME Inv, NEW r \in Requests, NEW pc \in UserPCs \cup PlacePCs, Goto(r, pc),
         UNCHANGED <<people, places, addresses, workload>>, faults' \in 0..MaxFaults,
         SlotOK([req[r] EXCEPT !.pc = pc]),
         \A t \in Tenants : ~Editing(req[r], t)
  PROVE  Inv'
<1> DEFINE q == [req[r] EXCEPT !.pc = pc]
<1>1. req \in [Requests -> Slot] /\ req[r] \in Slot
  BY DEF Inv, SlotsOK
<1>2. q \in Slot
  BY <1>1 DEF Slot
<1>3. q.todo = req[r].todo /\ q.user = req[r].user /\ q.logo = req[r].logo
  BY <1>1 DEF Slot
<1>4. req' = [req EXCEPT ![r] = q]
  BY <1>1 DEF Goto
<1>5. SlotOK(q)
  OBVIOUS
<1> HIDE DEF q
<1>6. QED
  BY <1>2, <1>3, <1>4, <1>5, OnlyMoves

\* Every handler not yet at its addresses has written none.
LEMMA QuietSlot ==
  ASSUME Inv, NEW r \in Requests, req[r].pc \notin {"addresses", "done"}
  PROVE  ~Pending(req[r]) /\ req[r] \in Slot /\ SlotOK(req[r]) /\ Typed
BY DEF Inv, SlotsOK, SlotOK, TodoSlot, Pending

LEMMA CheckEmailHolds == ASSUME Inv, NEW r \in Requests, CheckEmail(r) PROVE Inv'
<1> USE DEF CheckEmail
<1>1. ~Pending(req[r]) /\ req[r] \in Slot /\ SlotOK(req[r]) /\ Typed
  BY QuietSlot
<1>2. faults' \in 0..MaxFaults /\ \A t : ~Editing(req[r], t)
  BY <1>1 DEF Typed, Editing
<1>3. ASSUME NEW pc \in {"role", "findRole", "user", "update"}, Goto(r, pc),
             pc = "role" => req[r].op \in {"create", "superAdmin"},
             pc = "findRole" => req[r].op = "superAdmin",
             pc = "user" => req[r].op = "tenantUser",
             pc = "update" => req[r].op = "update"
      PROVE  Inv'
  <2> DEFINE q == [req[r] EXCEPT !.pc = pc]
  <2>1. /\ q.pc = pc /\ q.op = req[r].op /\ q.email = req[r].email /\ q.tenant = req[r].tenant
        /\ q.role = req[r].role /\ q.user = req[r].user /\ q.address = req[r].address
        /\ q.logo = req[r].logo /\ q.todo = req[r].todo /\ q.file = req[r].file
        /\ q.url = req[r].url
        /\ q.slug = req[r].slug /\ q.branch = req[r].branch
    BY <1>1 DEF Slot
  <2> HIDE DEF q
  <2>2. SlotOK(q)
    BY <1>1, <1>3, <2>1 DEF SlotOK, UserSlot, PlaceSlot, TodoSlot
  <2>3. QED
    BY <1>2, <1>3, <2>2, GotoHolds DEF q, UserPCs
<1>4. CASE End(r)
  BY <1>1, <1>2, <1>4, EndHolds
<1>5. CASE ~End(r)
  <2>1. req[r].op \in {"create", "superAdmin", "tenantUser", "update"}
    BY <1>1 DEF SlotOK, UserSlot
  <2>2. QED
    BY <1>3, <1>5, <2>1
<1>6. QED
  BY <1>4, <1>5

LEMMA FindRoleHolds == ASSUME Inv, NEW r \in Requests, FindRole(r) PROVE Inv'
<1> USE DEF FindRole
<1>1. ~Pending(req[r]) /\ req[r] \in Slot /\ SlotOK(req[r]) /\ Typed
  BY QuietSlot
<1>2. faults' \in 0..MaxFaults /\ \A t : ~Editing(req[r], t)
  BY <1>1 DEF Typed, Editing
<1>3. CASE Goto(r, "role")
  <2> DEFINE q == [req[r] EXCEPT !.pc = "role"]
  <2>1. /\ q.pc = "role" /\ q.op = req[r].op /\ q.email = req[r].email /\ q.tenant = req[r].tenant
        /\ q.role = req[r].role /\ q.user = req[r].user /\ q.address = req[r].address
        /\ q.logo = req[r].logo /\ q.todo = req[r].todo /\ q.file = req[r].file
        /\ q.url = req[r].url
        /\ q.slug = req[r].slug /\ q.branch = req[r].branch
    BY <1>1 DEF Slot
  <2> HIDE DEF q
  <2>2. SlotOK(q)
    BY <1>1, <2>1 DEF SlotOK, UserSlot, PlaceSlot, TodoSlot
  <2>3. QED
    BY <1>2, <1>3, <2>2, GotoHolds DEF q, UserPCs
<1>4. CASE End(r)
  BY <1>1, <1>2, <1>4, EndHolds
<1>5. QED
  BY <1>3, <1>4

LEMMA CheckUniqueHolds == ASSUME Inv, NEW r \in Requests, CheckUnique(r) PROVE Inv'
<1> USE DEF CheckUnique
<1>1. ~Pending(req[r]) /\ req[r] \in Slot /\ SlotOK(req[r]) /\ Typed
  BY QuietSlot
<1>2. faults' \in 0..MaxFaults /\ \A t : ~Editing(req[r], t)
  BY <1>1 DEF Typed, Editing
<1>3. ASSUME NEW pc \in {"upload", "address", "insert"}, Goto(r, pc),
             pc = "insert" => req[r].address # New
      PROVE  Inv'
  <2> DEFINE q == [req[r] EXCEPT !.pc = pc]
  <2>1. /\ q.pc = pc /\ q.op = req[r].op /\ q.email = req[r].email /\ q.tenant = req[r].tenant
        /\ q.role = req[r].role /\ q.user = req[r].user /\ q.address = req[r].address
        /\ q.logo = req[r].logo /\ q.todo = req[r].todo /\ q.file = req[r].file
        /\ q.url = req[r].url
        /\ q.slug = req[r].slug /\ q.branch = req[r].branch
    BY <1>1 DEF Slot
  <2> HIDE DEF q
  <2>2. SlotOK(q)
    BY <1>1, <1>3, <2>1 DEF SlotOK, UserSlot, PlaceSlot, TodoSlot
  <2>3. QED
    BY <1>2, <1>3, <2>2, GotoHolds DEF q, PlacePCs
<1>4. CASE End(r)
  BY <1>1, <1>2, <1>4, EndHolds
<1>5. QED
  BY <1>3, <1>4

LEMMA CreatedHolds == ASSUME Inv, NEW r \in Requests, Created(r) PROVE Inv'
<1> USE DEF Created
<1>1. req[r] \in Slot /\ SlotOK(req[r]) /\ Typed
  BY DEF Inv, SlotsOK
<1>2. faults' \in 0..MaxFaults /\ \A t : ~Editing(req[r], t)
  BY <1>1 DEF Typed, Editing
<1> DEFINE q == [req[r] EXCEPT !.pc = "done"]
<1>3. /\ q.pc = "done" /\ q.op = req[r].op /\ q.email = req[r].email /\ q.tenant = req[r].tenant
      /\ q.role = req[r].role /\ q.user = req[r].user /\ q.address = req[r].address
      /\ q.logo = req[r].logo /\ q.todo = req[r].todo /\ q.file = req[r].file
      /\ q.url = req[r].url
      /\ q.slug = req[r].slug /\ q.branch = req[r].branch
  BY <1>1 DEF Slot
<1> HIDE DEF q
<1>4. SlotOK(q)
  BY <1>1, <1>3 DEF SlotOK, UserSlot, PlaceSlot, TodoSlot
<1>5. QED
  BY <1>2, <1>4, GotoHolds DEF q, UserPCs

LEMMA NotCreatedHolds == ASSUME Inv, NEW r \in Requests, NotCreated(r) PROVE Inv'
<1> USE DEF NotCreated
<1>1. ~Pending(req[r])
  BY DEF Pending, NonePending
<1>2. faults' \in 0..MaxFaults /\ \A t : ~Editing(req[r], t)
  BY DEF Inv, Typed, Editing
<1>3. QED
  BY <1>1, <1>2, EndHolds

LEMMA SuccessHolds == ASSUME Inv, NEW r \in Requests, Success(r) PROVE Inv'
<1> USE DEF Success
<1>1. ~Pending(req[r])
  BY DEF Inv, SlotsOK, SlotOK, TodoSlot, AllAttached, Pending
<1>2. faults' \in 0..MaxFaults /\ \A t : ~Editing(req[r], t)
  BY DEF Inv, Typed, Editing
<1>3. QED
  BY <1>1, <1>2, EndHolds
-----------------------------------------------------------------------------
(* Users and roles are written.                                            *)

LEMMA IsMembership ==
  ASSUME NEW D \in SUBSET Nat, NEW f \in [D -> Perms]
  PROVE  f \in Memberships
BY DEF Memberships

\* A step of a handler of users: tenants, branches and logos are as they were.
LEMMA WritesPeople ==
  ASSUME Inv, Typed', PeopleOK', CountsOK', Grows, UNCHANGED places,
         NEW r \in Requests, NEW q \in Slot, req' = [req EXCEPT ![r] = q], SlotOK(q)',
         q.logo \in {0, req[r].logo}, \A t \in Tenants : ~Editing(req[r], t)
  PROVE  Inv'
<1>1. Typed /\ SlotsOK /\ req \in [Requests -> Slot]
  BY DEF Inv, SlotsOK
<1>2. SlotsOK'
  BY <1>1, SlotMoves
<1>3. PlacesOK'
  BY <1>1, SamePlaces DEF Inv, Grows
<1>4. LogosOK'
  BY <1>1, SameLogos DEF Inv, places, Tenants
<1>5. QED
  BY <1>2, <1>3, <1>4 DEF Inv

LEMMA CreateRoleHolds == ASSUME Inv, NEW r \in Requests, CreateRole(r) PROVE Inv'
<1> USE DEF CreateRole
<1>1. ~Pending(req[r]) /\ req[r] \in Slot /\ SlotOK(req[r]) /\ Typed
  BY QuietSlot
<1>2. req \in [Requests -> Slot] /\ PeopleOK
  BY DEF Inv, SlotsOK
<1>3. req[r].op \in {"create", "superAdmin", "role"} /\ \A t : ~Editing(req[r], t)
  BY <1>1 DEF SlotOK, UserSlot, Editing
<1> DEFINE row == RoleRow(req[r].name, req[r].tenant, req[r].perms)
<1>4. row \in RoleRows /\ row.tenant = req[r].tenant
  BY <1>1 DEF RoleRow, RoleRows, Slot
<1>5. roles' = Append(roles, row)
  OBVIOUS
<1> HIDE DEF row
<1>6. /\ roles \in Seq(RoleRows) /\ roles' \in Seq(RoleRows)
      /\ Len(roles') = Len(roles) + 1 /\ Len(roles) \in Nat
      /\ \A i \in DOMAIN roles : i \in DOMAIN roles' /\ roles'[i] = roles[i]
      /\ \A i \in DOMAIN roles' : i \in DOMAIN roles \/ i = Len(roles) + 1
      /\ Len(roles) + 1 \in DOMAIN roles' /\ roles'[Len(roles) + 1] = row
  BY <1>1, <1>4, <1>5 DEF Typed
<1>7. Typed'
  BY <1>1, <1>6 DEF Typed, places
<1>8. Grows
  <2>1. \A u \in DOMAIN users : users[u].addresses <= users[u].addresses
    BY <1>1, Numbers
  <2>2. addresses <= addresses /\ uploads <= uploads
    BY <1>1 DEF Typed
  <2>3. QED
    BY <1>6, <2>1, <2>2 DEF Grows, places
<1>9. PeopleOK'
  BY <1>1, <1>2, <1>4, <1>6 DEF PeopleOK, EmailsUnique, UsersKeepRole, SlotOK, Tenants, places
<1>10. ASSUME NEW q \in Slot, req' = [req EXCEPT ![r] = q], SlotOK(q)', ~Pending(q),
              q.logo \in {0, req[r].logo}
       PROVE  Inv'
  <2>1. CountsOK'
    <3>1. /\ addresses \in Nat /\ addresses <= addresses
          /\ \A u \in DOMAIN users : users[u].addresses \in Nat
      BY <1>1, Numbers DEF Typed
    <3>2. \A x \in Requests : x # r => req'[x] = req[x]
      BY <1>2, <1>10
    <3>3. req'[r] = q
      BY <1>2, <1>10
    <3>4. QED
      BY <1>1, <1>10, <3>1, <3>2, <3>3, SameCounts DEF Inv
  <2>2. QED
    BY <1>3, <1>7, <1>8, <1>9, <1>10, <2>1, WritesPeople
<1>11. CASE End(r)
  <2>1. SlotOK(Idle)' /\ ~Pending(Idle) /\ Idle.logo = 0
    BY <1>7, <1>1, <1>8, IdleOK, IdleIsSlot, SlotGrows
  <2>2. QED
    BY <1>10, <1>11, <2>1, IdleIsSlot DEF End
<1>12. CASE ~End(r)
  <2>1. req[r].op \in {"create", "superAdmin"}
    BY <1>3, <1>12
  <2>2. PICK q \in Slot :
          q = [req[r] EXCEPT !.pc = "user", !.role = Len(roles) + 1, !.perms = NoRows]
    <3>1. ASSUME NEW z \in Slot, NEW n \in Nat, NEW p \in Perms
          PROVE  [z EXCEPT !.pc = "user", !.role = n, !.perms = p] \in Slot
      BY DEF Slot, UserPCs
    <3>2. Len(roles) + 1 \in Nat /\ NoRows \in Perms
      BY <1>6, BodyTypes
    <3>3. QED
      BY <1>1, <3>1, <3>2
  <2>3. req' = [req EXCEPT ![r] = q]
    BY <1>2, <2>2, <1>12
  <2>4. /\ q.pc = "user" /\ q.role = Len(roles) + 1 /\ q.op = req[r].op
        /\ q.email = req[r].email /\ q.tenant = req[r].tenant /\ q.user = req[r].user
        /\ q.address = req[r].address /\ q.logo = req[r].logo /\ q.todo = req[r].todo
        /\ q.url = req[r].url
    BY <1>1, <2>2 DEF Slot
  <2>5. SlotOK(q)'
    <3>1. SlotOK(req[r]) /\ req[r].pc = "role"
      BY <1>1
    <3>2. UserSlot(q)'
      BY <1>6, <2>1, <2>4, <3>1 DEF SlotOK, UserSlot
    <3>3. PlaceSlot(q)'
      BY <2>1, <2>4, <3>1 DEF SlotOK, PlaceSlot
    <3>4. TodoSlot(q)'
      BY <2>4, <3>1 DEF SlotOK, TodoSlot
    <3>5. QED
      BY <2>4, <3>1, <3>2, <3>3, <3>4 DEF SlotOK, Tenants, places
  <2>6. ~Pending(q)
    BY <1>1, <2>4 DEF Pending
  <2>7. QED
    BY <1>10, <2>3, <2>4, <2>5, <2>6
<1>13. QED
  BY <1>11, <1>12
LEMMA InsertUserHolds == ASSUME Inv, NEW r \in Requests, InsertUser(r) PROVE Inv'
<1> USE DEF InsertUser
<1>1. ~Pending(req[r]) /\ req[r] \in Slot /\ SlotOK(req[r]) /\ Typed
  BY QuietSlot
<1>2. req \in [Requests -> Slot] /\ PeopleOK
  BY DEF Inv, SlotsOK
<1>3. /\ req[r].op \in {"create", "superAdmin", "tenantUser"} /\ req[r].email \in Emails
      /\ req[r].role \in DOMAIN roles
      /\ req[r].op # "create" => req[r].tenant \in Tenants
      /\ \A t : ~Editing(req[r], t)
  BY <1>1 DEF SlotOK, UserSlot, Editing
<1>4. CASE End(r) /\ UNCHANGED users
  <2>1. faults' \in 0..MaxFaults
    BY <1>1 DEF Typed
  <2>2. QED
    BY <1>1, <1>3, <1>4, <2>1, EndHolds DEF people
<1>5. CASE EmailFree(req[r].email) /\ roles[req[r].role].there /\ ~(End(r) /\ UNCHANGED users)
  <2> DEFINE m == IF req[r].op = "create" THEN NoRows ELSE [t \in {req[r].tenant} |-> req[r].perms]
             row == UserRow(req[r].email, req[r].role, m)
             pc == Dependent(r)
  <2>1. m \in Memberships /\ DOMAIN m \subseteq Tenants
    <3>1. NoRows \in [{} -> Perms] /\ {} \in SUBSET Nat /\ DOMAIN NoRows = {}
      BY DEF NoRows
    <3>2. NoRows \in Memberships
      BY <3>1, IsMembership
    <3>3. [t \in {req[r].tenant} |-> req[r].perms] \in Memberships
      <4>1. req[r].tenant \in Nat /\ req[r].perms \in Perms
        BY <1>1 DEF Slot
      <4>2. QED
        BY <4>1, IsMembership
    <3>4. QED
      BY <1>3, <3>1, <3>2, <3>3
  <2> HIDE DEF m
  <2>2. /\ row \in UserRows
        /\ row.email = req[r].email /\ row.role = req[r].role /\ row.memberships = m
        /\ row.addresses = 0
    BY <1>1, <1>3, <2>1 DEF UserRow, UserRows, Slot
  <2>3. users' = Append(users, row) /\ req' = [req EXCEPT ![r].pc = pc, ![r].user = Len(users) + 1]
    BY <1>5 DEF m
  <2>4. pc \in {"addresses", "done"} /\ (pc = "done" => req[r].todo = <<>>)
    BY DEF Dependent
  <2> HIDE DEF row, pc
  <2>5. /\ users \in Seq(UserRows) /\ users' \in Seq(UserRows)
        /\ Len(users') = Len(users) + 1 /\ Len(users) \in Nat
        /\ \A i \in DOMAIN users : i \in DOMAIN users' /\ users'[i] = users[i]
        /\ \A i \in DOMAIN users' : i \in DOMAIN users \/ i = Len(users) + 1
        /\ Len(users) + 1 \in DOMAIN users' /\ users'[Len(users) + 1] = row
        /\ Len(users) + 1 \notin DOMAIN users
    BY <1>1, <2>2, <2>3 DEF Typed
  <2>6. /\ roles' = roles /\ addresses' = addresses /\ Tenants' = Tenants
        /\ branches' = branches /\ uploads' = uploads /\ tenants' = tenants
    BY DEF places, Tenants
  <2>7. Typed'
    BY <1>1, <2>5 DEF Typed, places
  <2>8. addresses \in Nat /\ uploads \in Nat /\ \A u \in DOMAIN users : users[u].addresses \in Nat
    BY <1>1, Numbers
  <2>9. Grows
    BY <2>5, <2>6, <2>8 DEF Grows
  <2>10. PeopleOK'
    <3>1. EmailsUnique'
      BY <1>2, <1>5, <2>2, <2>5 DEF PeopleOK, EmailsUnique, EmailFree
    <3>2. UsersKeepRole'
      BY <1>2, <1>5, <2>2, <2>5, <2>6 DEF PeopleOK, UsersKeepRole
    <3>3. QED
      BY <1>2, <1>3, <2>1, <2>2, <2>5, <2>6, <3>1, <3>2 DEF PeopleOK
  <2>11. PICK q \in Slot : q = [req[r] EXCEPT !.pc = pc, !.user = Len(users) + 1]
    <3>1. ASSUME NEW z \in Slot, NEW n \in Nat, NEW p \in UserPCs
          PROVE  [z EXCEPT !.pc = p, !.user = n] \in Slot
      BY DEF Slot
    <3>2. Len(users) + 1 \in Nat /\ pc \in UserPCs
      BY <2>4, <2>5 DEF UserPCs
    <3>3. QED
      BY <1>1, <3>1, <3>2
  <2>12. req' = [req EXCEPT ![r] = q]
    BY <1>2, <2>3, <2>11
  <2>13. /\ q.pc = pc /\ q.user = Len(users) + 1 /\ q.op = req[r].op /\ q.role = req[r].role
         /\ q.email = req[r].email /\ q.tenant = req[r].tenant
         /\ q.address = req[r].address /\ q.logo = req[r].logo /\ q.todo = req[r].todo
         /\ q.url = req[r].url
    BY <1>1, <2>11 DEF Slot
  <2>14. SlotOK(q)'
    <3>1. SlotOK(req[r]) /\ req[r].pc = "user" /\ req[r].todo \in Seq(Progress)
      BY <1>1 DEF Slot
    <3>2. UserSlot(q)'
      BY <1>3, <2>4, <2>5, <2>6, <2>13, <3>1 DEF SlotOK, UserSlot
    <3>3. PlaceSlot(q)'
      BY <1>3, <2>4, <2>13, <3>1 DEF SlotOK, PlaceSlot
    <3>4. TodoSlot(q)'
      <4>1. \A i \in DOMAIN req[r].todo : req[r].todo[i] = "todo"
        BY <3>1 DEF SlotOK, TodoSlot
      <4>2. Attached(req[r].todo) = {}
        BY <4>1 DEF Attached
      <4>3. Cardinality(Attached(q.todo)) = 0 /\ users'[q.user].addresses = 0
        BY <2>2, <2>5, <2>13, <4>2, FS_EmptySet
      <4>4. pc = "done" => AllAttached(q.todo)
        BY <2>4, <2>13 DEF AllAttached
      <4>5. QED
        BY <2>4, <2>13, <4>3, <4>4 DEF TodoSlot
    <3>5. QED
      BY <2>6, <2>13, <3>1, <3>2, <3>3, <3>4 DEF SlotOK
  <2>15. CountsOK'
    <3>1. \A x \in Requests : x # r => req'[x] = req[x]
      BY <1>2, <2>12
    <3>2. ~Pending(req'[r]) /\ ~Pending(req[r])
      BY <1>1, <1>2, <2>12, <2>13 DEF Pending
    <3>3. \A u \in DOMAIN users : users[u].addresses \in Nat /\ users'[u].addresses = users[u].addresses
      BY <2>5, <2>8
    <3>4. \A u \in DOMAIN users' \ DOMAIN users : users'[u].addresses = 0
      BY <2>2, <2>5
    <3>5. addresses <= addresses'
      BY <2>6, <2>8
    <3>6. QED
      BY <2>6, <2>8, <3>1, <3>2, <3>3, <3>4, <3>5, SameCounts DEF Inv
  <2>16. QED
    BY <1>3, <2>7, <2>9, <2>10, <2>12, <2>13, <2>14, <2>15, WritesPeople
<1>6. QED
  BY <1>4, <1>5

LEMMA UpdateUserHolds == ASSUME Inv, NEW r \in Requests, UpdateUser(r) PROVE Inv'
<1> USE DEF UpdateUser
<1>1. ~Pending(req[r]) /\ req[r] \in Slot /\ SlotOK(req[r]) /\ Typed
  BY QuietSlot
<1>2. req \in [Requests -> Slot] /\ PeopleOK
  BY DEF Inv, SlotsOK
<1> DEFINE u == req[r].user
<1>3. /\ req[r].op = "update" /\ u \in DOMAIN users /\ \A t : ~Editing(req[r], t)
      /\ req[r].email \in Emails \cup {None} /\ req[r].tenant \in Tenants \cup {0}
      /\ req[r].tenant \in Nat
  BY <1>1 DEF SlotOK, UserSlot, Editing, Slot
<1>4. CASE End(r) /\ UNCHANGED users
  <2>1. faults' \in 0..MaxFaults
    BY <1>1 DEF Typed
  <2>2. QED
    BY <1>1, <1>3, <1>4, <2>1, EndHolds DEF people
<1>5. CASE /\ req[r].email = None \/ EmailFree(req[r].email) \/ users[u].email = req[r].email
           /\ ~(End(r) /\ UNCHANGED users)
  <2> DEFINE old == users[u].memberships
             m == [t \in DOMAIN old \cup ({req[r].tenant} \ {0}) |->
                     IF t \in DOMAIN old THEN old[t] ELSE NoRows]
             e == IF req[r].email = None THEN users[u].email ELSE req[r].email
             row == [users[u] EXCEPT !.email = e, !.memberships = m]
             pc == Dependent(r)
  <2>1. users[u] \in UserRows /\ DOMAIN old \subseteq Tenants
    BY <1>1, <1>2, <1>3, Numbers DEF PeopleOK
  <2>2. m \in Memberships /\ DOMAIN m \subseteq Tenants
    <3>1. old \in Memberships
      BY <2>1 DEF UserRows
    <3>2. PICK D \in SUBSET Nat : old \in [D -> Perms]
      BY <3>1 DEF Memberships
    <3>3. DOMAIN old = D /\ NoRows \in Perms
      BY <3>2, BodyTypes
    <3>4. DOMAIN old \cup ({req[r].tenant} \ {0}) \in SUBSET Nat
      BY <1>3, <3>3
    <3>5. m \in [DOMAIN old \cup ({req[r].tenant} \ {0}) -> Perms]
      BY <3>2, <3>3
    <3>6. m \in Memberships
      BY <3>4, <3>5, IsMembership
    <3>7. QED
      BY <1>3, <2>1, <3>6
  <2>3. e \in Emails
    BY <1>3, <2>1 DEF UserRows
  <2>4. users' = [users EXCEPT ![u] = row] /\ Goto(r, pc)
    BY <1>3, <1>5
  <2>5. pc \in {"addresses", "done"} /\ (pc = "done" => req[r].todo = <<>>)
    BY DEF Dependent
  <2>6. users[u].email = e \/ \A v \in DOMAIN users : users[v].email # e
    BY <1>5 DEF EmailFree
  <2> HIDE DEF m, e, pc
  <2>7. row \in UserRows
    <3>1. ASSUME NEW z \in UserRows
          PROVE  [z EXCEPT !.email = e, !.memberships = m] \in UserRows
      BY <2>2, <2>3 DEF UserRows
    <3>2. QED
      BY <2>1, <3>1
  <2>8. /\ row.email = e /\ row.memberships = m
        /\ row.role = users[u].role /\ row.addresses = users[u].addresses
    BY <2>1 DEF UserRows
  <2> HIDE DEF row, u
  <2>9. /\ users \in Seq(UserRows) /\ users' \in Seq(UserRows) /\ DOMAIN users' = DOMAIN users
        /\ \A i \in DOMAIN users : users'[i] = IF i = u THEN row ELSE users[i]
    BY <1>1, <1>3, <2>4, <2>7, ExceptSeq DEF Typed
  <2>10. /\ roles' = roles /\ addresses' = addresses /\ Tenants' = Tenants
         /\ branches' = branches /\ uploads' = uploads /\ tenants' = tenants
    BY DEF places, Tenants
  <2>11. Typed'
    BY <1>1, <2>9 DEF Typed, places
  <2>12. /\ addresses \in Nat /\ uploads \in Nat
         /\ \A x \in DOMAIN users :
              users[x].addresses \in Nat /\ users'[x].addresses = users[x].addresses
    BY <1>1, <2>8, <2>9, Numbers
  <2>13. Grows
    BY <2>9, <2>10, <2>12 DEF Grows
  <2>14. PeopleOK'
    <3>1. EmailsUnique'
      BY <1>2, <2>6, <2>8, <2>9 DEF PeopleOK, EmailsUnique
    <3>2. UsersKeepRole'
      BY <1>2, <1>3, <2>8, <2>9, <2>10 DEF PeopleOK, UsersKeepRole
    <3>3. QED
      BY <1>2, <1>3, <2>2, <2>8, <2>9, <2>10, <3>1, <3>2 DEF PeopleOK
  <2>15. PICK q \in Slot : q = [req[r] EXCEPT !.pc = pc]
    <3>1. ASSUME NEW z \in Slot, NEW p \in UserPCs PROVE [z EXCEPT !.pc = p] \in Slot
      BY DEF Slot
    <3>2. pc \in UserPCs
      BY <2>5 DEF UserPCs
    <3>3. QED
      BY <1>1, <3>1, <3>2
  <2>16. req' = [req EXCEPT ![r] = q]
    BY <1>2, <2>4, <2>15 DEF Goto
  <2>17. /\ q.pc = pc /\ q.user = req[r].user /\ q.op = req[r].op /\ q.role = req[r].role
         /\ q.email = req[r].email /\ q.tenant = req[r].tenant
         /\ q.address = req[r].address /\ q.logo = req[r].logo /\ q.todo = req[r].todo
         /\ q.url = req[r].url
    BY <1>1, <2>15 DEF Slot
  <2>18. SlotOK(q)'
    <3>1. SlotOK(req[r]) /\ req[r].pc = "update" /\ req[r].todo \in Seq(Progress)
      BY <1>1 DEF Slot
    <3>2. UserSlot(q)'
      BY <1>3, <2>5, <2>9, <2>17 DEF UserSlot, u
    <3>3. PlaceSlot(q)'
      BY <1>3, <2>5, <2>17 DEF PlaceSlot
    <3>4. TodoSlot(q)'
      <4>1. \A i \in DOMAIN req[r].todo : req[r].todo[i] = "todo"
        BY <3>1 DEF SlotOK, TodoSlot
      <4>2. Attached(req[r].todo) = {}
        BY <4>1 DEF Attached
      <4>3. Cardinality(Attached(q.todo)) = 0 /\ users'[q.user].addresses \in Nat
        BY <1>3, <2>12, <2>17, <4>2, FS_EmptySet DEF u
      <4>4. pc = "done" => AllAttached(q.todo)
        BY <2>5, <2>17 DEF AllAttached
      <4>5. QED
        BY <2>5, <2>17, <4>3, <4>4 DEF TodoSlot
    <3>5. QED
      BY <2>10, <2>17, <3>1, <3>2, <3>3, <3>4 DEF SlotOK
  <2>19. CountsOK'
    <3>1. \A x \in Requests : x # r => req'[x] = req[x]
      BY <1>2, <2>16
    <3>2. ~Pending(req'[r]) /\ ~Pending(req[r])
      BY <1>1, <1>2, <2>16, <2>17 DEF Pending
    <3>3. addresses <= addresses'
      BY <2>10, <2>12
    <3>4. QED
      BY <2>9, <2>10, <2>12, <3>1, <3>2, <3>3, SameCounts DEF Inv
  <2>20. QED
    BY <1>3, <2>11, <2>13, <2>14, <2>16, <2>17, <2>18, <2>19, WritesPeople
<1>6. QED
  BY <1>4, <1>5
-----------------------------------------------------------------------------
(* The addresses of a user.                                                *)

\* q is z, but for address i.
GetsOn(q, z, i, p) ==
  /\ q.pc = z.pc /\ q.user = z.user /\ q.op = z.op /\ q.role = z.role
  /\ q.email = z.email /\ q.tenant = z.tenant /\ q.address = z.address
  /\ q.logo = z.logo /\ q.url = z.url /\ q.slug = z.slug /\ q.branch = z.branch
  /\ q.todo \in Seq(Progress) /\ DOMAIN q.todo = DOMAIN z.todo
  /\ \A x \in DOMAIN q.todo : q.todo[x] = IF x = i THEN p ELSE z.todo[x]

\* One address of a handler gets on by a step.
LEMMA TodoMoves ==
  ASSUME Inv, NEW r \in Requests, NEW i \in DOMAIN req[r].todo, NEW p \in Progress,
         req[r].pc = "addresses", req' = [req EXCEPT ![r].todo[i] = p]
  PROVE  \E q \in Slot : req' = [req EXCEPT ![r] = q] /\ GetsOn(q, req[r], i, p)
<1>1. req \in [Requests -> Slot] /\ req[r] \in Slot /\ req[r].todo \in Seq(Progress)
  BY DEF Inv, SlotsOK, Slot
<1> DEFINE todo == [req[r].todo EXCEPT ![i] = p]
<1>2. /\ todo \in Seq(Progress) /\ DOMAIN todo = DOMAIN req[r].todo
      /\ \A x \in DOMAIN todo : todo[x] = IF x = i THEN p ELSE req[r].todo[x]
  BY <1>1, ExceptSeq
<1>3. [req[r] EXCEPT !.todo = todo] \in Slot
  <2> HIDE DEF todo
  <2>1. ASSUME NEW z \in Slot PROVE [z EXCEPT !.todo = todo] \in Slot
    BY <1>2 DEF Slot
  <2>2. QED
    BY <1>1, <2>1
<1>4. [req EXCEPT ![r].todo[i] = p] = [req EXCEPT ![r] = [req[r] EXCEPT !.todo = todo]]
  BY <1>1
<1> HIDE DEF todo
<1>5. PICK q \in Slot : q = [req[r] EXCEPT !.todo = todo]
  BY <1>3
<1>6. /\ q.pc = req[r].pc /\ q.user = req[r].user /\ q.op = req[r].op
      /\ q.role = req[r].role /\ q.email = req[r].email /\ q.tenant = req[r].tenant
      /\ q.address = req[r].address /\ q.logo = req[r].logo /\ q.todo = todo
      /\ q.url = req[r].url
      /\ q.slug = req[r].slug /\ q.branch = req[r].branch
  BY <1>1, <1>5 DEF Slot
<1>7. req' = [req EXCEPT ![r] = q]
  BY <1>4, <1>5
<1>8. /\ q.todo \in Seq(Progress) /\ DOMAIN q.todo = DOMAIN req[r].todo
      /\ \A x \in DOMAIN q.todo : q.todo[x] = IF x = i THEN p ELSE req[r].todo[x]
  BY <1>2, <1>6
<1> WITNESS q \in Slot
<1>9. QED
  BY <1>6, <1>7, <1>8 DEF GetsOn

\* What AddressRow and AttachToUser have in common.
LEMMA WritesAddress ==
  ASSUME Inv, Typed', PeopleOK', CountsOK', Grows, UNCHANGED places, roles' = roles,
         NEW r \in Requests, req[r].pc = "addresses", NEW q \in Slot,
         req' = [req EXCEPT ![r] = q],
         q.pc = req[r].pc, q.user = req[r].user, q.op = req[r].op,
         q.role = req[r].role, q.email = req[r].email, q.tenant = req[r].tenant,
         q.address = req[r].address, q.logo = req[r].logo, q.url = req[r].url, q.slug = req[r].slug,
         q.branch = req[r].branch,
         Cardinality(Attached(q.todo)) <= users'[q.user].addresses
  PROVE  Inv'
<1>1. Typed /\ SlotOK(req[r]) /\ req[r] \in Slot
  BY DEF Inv, SlotsOK
<1>2. ASSUME NEW z \in Slot, z = req[r] PROVE SlotOK(q)'
  <2>1. SlotOK(z)'
    BY <1>1, <1>2, SlotGrows
  <2>2. UserSlot(q)'
    BY <1>2, <2>1 DEF SlotOK, UserSlot
  <2>3. PlaceSlot(q)'
    BY <1>2, <2>1 DEF SlotOK, PlaceSlot
  <2>4. TodoSlot(q)'
    BY DEF TodoSlot
  <2>5. QED
    BY <1>2, <2>1, <2>2, <2>3, <2>4 DEF SlotOK
<1>3. SlotOK(q)'
  BY <1>1, <1>2
<1>4. QED
  BY <1>3, WritesPeople DEF Editing
LEMMA AddressRowHolds ==
  ASSUME Inv, NEW r \in Requests, NEW i \in DOMAIN req[r].todo, AddressRow(r, i)
  PROVE  Inv'
<1> USE DEF AddressRow
<1>1. /\ Typed /\ SlotOK(req[r]) /\ req[r] \in Slot /\ req \in [Requests -> Slot]
      /\ req[r].pc = "addresses" /\ CountsOK /\ PeopleOK
  BY DEF Inv, SlotsOK
<1>2. PICK p \in {"row", "failed"} :
        /\ req' = [req EXCEPT ![r].todo[i] = p]
        /\ addresses' = IF p = "row" THEN addresses + 1 ELSE addresses
        /\ faults' \in 0..MaxFaults
  BY <1>1, AccountsAssumption DEF AccountsAssumption, Typed, Fault
<1>3. PICK q \in Slot : req' = [req EXCEPT ![r] = q] /\ GetsOn(q, req[r], i, p)
  <2>1. p \in Progress
    BY DEF Progress
  <2>2. QED
    BY <1>1, <1>2, <2>1, TodoMoves
<1>4. /\ addresses \in Nat /\ addresses' \in Nat /\ addresses <= addresses'
      /\ addresses' \in Nat \ {0} /\ uploads \in Nat
      /\ users' = users /\ roles' = roles /\ tenants' = tenants /\ Tenants' = Tenants
      /\ branches' = branches /\ uploads' = uploads
      /\ \A u \in DOMAIN users : users[u].addresses \in Nat
  BY <1>1, <1>2, Numbers DEF Typed, places, people, Tenants
<1>5. Typed'
  BY <1>1, <1>2, <1>4 DEF Typed
<1>6. Grows
  BY <1>4 DEF Grows
<1>7. PeopleOK'
  BY <1>1, <1>4, SamePeople
<1>8. CountsOK'
  <2>1. ASSUME NEW u \in DOMAIN users
        PROVE  (IsFiniteSet(Rows(u)) /\ users[u].addresses + Cardinality(Rows(u)) <= addresses)'
    <3>1. /\ IsFiniteSet(Rows(u)) /\ Cardinality(Rows(u)) \in Nat
          /\ users[u].addresses + Cardinality(Rows(u)) <= addresses
      BY <1>1, <2>1, FS_CardinalityType DEF CountsOK
    <3>2. \A x \in Requests : req'[x] = IF x = r THEN q ELSE req[x]
      BY <1>1, <1>3
    <3>3. i \in Nat /\ req[r].todo[i] = "todo"
      BY <1>1 DEF Slot
    <3>4. CASE p = "row" /\ u = req[r].user
      <4>1. Rows(u)' = Rows(u) \cup {<<r, i>>}
        BY <1>3, <3>2, <3>3, <3>4 DEF Rows, GetsOn
      <4>2. <<r, i>> \notin Rows(u)
        BY <3>3 DEF Rows
      <4>3. IsFiniteSet(Rows(u)') /\ Cardinality(Rows(u)') = Cardinality(Rows(u)) + 1
        BY <3>1, <4>1, <4>2, FS_AddElement
      <4>4. QED
        BY <1>2, <1>4, <3>1, <3>4, <4>3
    <3>5. CASE ~(p = "row" /\ u = req[r].user)
      <4>1. Rows(u)' = Rows(u)
        BY <1>3, <3>2, <3>3, <3>5 DEF Rows, GetsOn
      <4>2. QED
        BY <1>4, <3>1, <4>1
    <3>6. QED
      BY <3>4, <3>5
  <2>2. QED
    BY <1>4, <2>1 DEF CountsOK
<1>9. Cardinality(Attached(q.todo)) <= users'[q.user].addresses
  <2>1. Attached(q.todo) = Attached(req[r].todo)
    BY <1>1, <1>3 DEF Attached, GetsOn
  <2>2. Cardinality(Attached(req[r].todo)) <= users[req[r].user].addresses
    BY <1>1 DEF SlotOK, TodoSlot
  <2>3. QED
    BY <1>3, <1>4, <2>1, <2>2 DEF GetsOn
<1>10. QED
  BY <1>1, <1>3, <1>4, <1>5, <1>6, <1>7, <1>8, <1>9, WritesAddress DEF GetsOn

LEMMA AttachToUserHolds ==
  ASSUME Inv, NEW r \in Requests, NEW i \in DOMAIN req[r].todo, AttachToUser(r, i)
  PROVE  Inv'
<1> USE DEF AttachToUser
<1>1. /\ Typed /\ SlotOK(req[r]) /\ req[r] \in Slot /\ req \in [Requests -> Slot]
      /\ req[r].pc = "addresses" /\ CountsOK /\ PeopleOK
  BY DEF Inv, SlotsOK
<1> DEFINE u == req[r].user
<1>2. u \in DOMAIN users /\ u \in Nat
  BY <1>1 DEF SlotOK, UserSlot, Slot
<1>3. /\ users[u] \in UserRows /\ addresses \in Nat /\ uploads \in Nat
      /\ \A x \in DOMAIN users : users[x].addresses \in Nat
  BY <1>1, <1>2, Numbers
<1>4. PICK p \in {"attached", "failed"} :
        /\ req' = [req EXCEPT ![r].todo[i] = p]
        /\ users' = IF p = "attached" THEN [users EXCEPT ![u].addresses = @ + 1] ELSE users
        /\ faults' \in 0..MaxFaults
  BY <1>1, AccountsAssumption DEF AccountsAssumption, Typed, Fault
<1>5. PICK q \in Slot : req' = [req EXCEPT ![r] = q] /\ GetsOn(q, req[r], i, p)
  <2>1. p \in Progress
    BY DEF Progress
  <2>2. QED
    BY <1>1, <1>4, <2>1, TodoMoves
<1> HIDE DEF u
<1> DEFINE row == [users[u] EXCEPT !.addresses = @ + 1]
<1>6. /\ row \in UserRows /\ row.addresses = users[u].addresses + 1
      /\ row.email = users[u].email /\ row.role = users[u].role
      /\ row.memberships = users[u].memberships
  <2>1. ASSUME NEW z \in UserRows, NEW n \in Nat PROVE [z EXCEPT !.addresses = n] \in UserRows
    BY DEF UserRows
  <2>2. users[u].addresses + 1 \in Nat
    BY <1>2, <1>3
  <2>3. row \in UserRows
    BY <1>3, <2>1, <2>2
  <2>4. QED
    BY <1>3, <2>3 DEF UserRows
<1>7. users' = IF p = "attached" THEN [users EXCEPT ![u] = row] ELSE users
  BY <1>2, <1>4
<1> HIDE DEF row
<1>8. users \in Seq(UserRows) /\ DOMAIN users = 1..Len(users) /\ u \in 1..Len(users)
  BY <1>1, <1>2 DEF Typed
<1>9. /\ users' \in Seq(UserRows) /\ DOMAIN users' = DOMAIN users
      /\ \A x \in DOMAIN users : users'[x] = IF p = "attached" /\ x = u THEN row ELSE users[x]
  <2>1. CASE p = "attached"
    BY <1>6, <1>7, <1>8, <2>1, ExceptSeq
  <2>2. CASE p # "attached"
    BY <1>7, <1>8, <2>2
  <2>3. QED
    BY <2>1, <2>2
<1>10. \A x \in DOMAIN users :
          /\ users'[x].addresses = users[x].addresses + (IF p = "attached" /\ x = u THEN 1 ELSE 0)
          /\ users'[x].email = users[x].email /\ users'[x].role = users[x].role
          /\ users'[x].memberships = users[x].memberships
  BY <1>3, <1>6, <1>9
<1>11. /\ roles' = roles /\ tenants' = tenants /\ Tenants' = Tenants /\ addresses' = addresses
       /\ branches' = branches /\ uploads' = uploads
  BY DEF places, Tenants
<1>12. Typed'
  BY <1>1, <1>4, <1>9, <1>11 DEF Typed
<1>13. Grows
  <2>1. \A x \in DOMAIN users : users[x].addresses <= users'[x].addresses
    BY <1>3, <1>10
  <2>2. QED
    BY <1>3, <1>9, <1>11, <2>1 DEF Grows
<1>14. PeopleOK'
  BY <1>1, <1>9, <1>10, <1>11 DEF PeopleOK, EmailsUnique, UsersKeepRole
<1>15. i \in Nat /\ req[r].todo[i] = "row"
  BY <1>1 DEF Slot
<1>16. CountsOK'
  <2>1. ASSUME NEW x \in DOMAIN users
        PROVE  (IsFiniteSet(Rows(x)) /\ users[x].addresses + Cardinality(Rows(x)) <= addresses)'
    <3>1. /\ IsFiniteSet(Rows(x)) /\ Cardinality(Rows(x)) \in Nat
          /\ users[x].addresses + Cardinality(Rows(x)) <= addresses
      BY <1>1, <2>1, FS_CardinalityType DEF CountsOK
    <3>2. \A y \in Requests : req'[y] = IF y = r THEN q ELSE req[y]
      BY <1>1, <1>5
    <3>3. CASE x = u
      <4>1. Rows(x)' = Rows(x) \ {<<r, i>>}
        BY <1>5, <3>2, <3>3 DEF Rows, u, GetsOn
      <4>2. <<r, i>> \in Rows(x)
        BY <1>15, <3>3 DEF Rows, u
      <4>3. IsFiniteSet(Rows(x)') /\ Cardinality(Rows(x)') = Cardinality(Rows(x)) - 1
        BY <3>1, <4>1, <4>2, FS_RemoveElement
      <4>4. users'[x].addresses <= users[x].addresses + 1 /\ users'[x].addresses \in Nat
        BY <1>3, <1>10
      <4>5. QED
        BY <1>3, <1>11, <3>1, <4>3, <4>4
    <3>4. CASE x # u
      <4>1. Rows(x)' = Rows(x)
        BY <1>5, <3>2, <3>4 DEF Rows, u, GetsOn
      <4>2. users'[x].addresses = users[x].addresses
        BY <1>3, <1>10, <3>4
      <4>3. QED
        BY <1>11, <3>1, <4>1, <4>2
    <3>5. QED
      BY <3>3, <3>4
  <2>2. QED
    BY <1>9, <2>1 DEF CountsOK
<1>17. Cardinality(Attached(q.todo)) <= users'[q.user].addresses
  <2>1. /\ IsFiniteSet(Attached(req[r].todo)) /\ Cardinality(Attached(req[r].todo)) \in Nat
        /\ Cardinality(Attached(req[r].todo)) <= users[u].addresses
    BY <1>1, AttachedFinite DEF SlotOK, TodoSlot, Slot, u
  <2>2. CASE p = "attached"
    <3>1. Attached(q.todo) = Attached(req[r].todo) \cup {i} /\ i \notin Attached(req[r].todo)
      BY <1>5, <1>15, <2>2 DEF Attached, GetsOn
    <3>2. Cardinality(Attached(q.todo)) = Cardinality(Attached(req[r].todo)) + 1
      BY <2>1, <3>1, FS_AddElement
    <3>3. QED
      BY <1>2, <1>3, <1>5, <1>10, <2>1, <2>2, <3>2 DEF u, GetsOn
  <2>3. CASE p = "failed"
    <3>1. Attached(q.todo) = Attached(req[r].todo)
      BY <1>5, <1>15, <2>3 DEF Attached, GetsOn
    <3>2. QED
      BY <1>2, <1>3, <1>5, <1>10, <2>1, <2>3, <3>1 DEF u, GetsOn
  <2>4. QED
    BY <2>2, <2>3
<1>18. QED
  BY <1>1, <1>5, <1>11, <1>12, <1>13, <1>14, <1>16, <1>17, WritesAddress DEF GetsOn

-----------------------------------------------------------------------------
(* Deletions of users and roles, in one statement and with no slot.         *)

\* Other tables and every handler are as they were.
LEMMA DeletesPerson ==
  ASSUME Inv, Typed', PeopleOK', UNCHANGED <<places, addresses, req>>,
         DOMAIN users' = DOMAIN users, DOMAIN roles' = DOMAIN roles,
         \A u \in DOMAIN users : users'[u].addresses = users[u].addresses
  PROVE  Inv'
<1>1. Typed /\ SlotsOK
  BY DEF Inv
<1>2. /\ addresses \in Nat /\ uploads \in Nat /\ Tenants' = Tenants
      /\ \A u \in DOMAIN users : users[u].addresses \in Nat
  BY <1>1, Numbers DEF places, Tenants
<1>3. Grows
  BY <1>2 DEF Grows, places
<1>4. SlotsOK'
  <2>1. ASSUME NEW x \in Requests PROVE SlotOK(req[x])'
    <3>1. PICK z \in Slot : z = req[x] /\ z = req'[x]
      BY <1>1 DEF SlotsOK
    <3>2. SlotOK(z)'
      BY <1>1, <1>3, <3>1, SlotGrows DEF SlotsOK
    <3>3. QED
      BY <3>1, <3>2
  <2>2. QED
    BY <1>1, <2>1 DEF SlotsOK
<1>5. CountsOK'
  BY <1>1, <1>2, SameCounts DEF Inv
<1>6. PlacesOK'
  BY <1>1, <1>2, SamePlaces DEF Inv
<1>7. LogosOK'
  BY <1>2, SameLogos DEF Inv, places
<1>8. QED
  BY <1>4, <1>5, <1>6, <1>7 DEF Inv

LEMMA DeleteUserHolds == ASSUME Inv, NEW u \in DOMAIN users, DeleteUser(u) PROVE Inv'
<1> USE DEF DeleteUser
<1>1. Typed /\ PeopleOK
  BY DEF Inv
<1> DEFINE row == [users[u] EXCEPT !.deleted = TRUE]
<1>2. users[u] \in UserRows
  BY <1>1, Numbers
<1>3. row \in UserRows
  BY <1>2 DEF UserRows
<1>4. /\ row.addresses = users[u].addresses /\ row.email = users[u].email
      /\ row.role = users[u].role /\ row.memberships = users[u].memberships
  BY <1>2 DEF UserRows
<1>5. users \in Seq(UserRows) /\ DOMAIN users = 1..Len(users) /\ u \in 1..Len(users)
  BY <1>1 DEF Typed
<1>6. users' = [users EXCEPT ![u] = row]
  OBVIOUS
<1> HIDE DEF row
<1>7. /\ users' \in Seq(UserRows) /\ DOMAIN users' = DOMAIN users
      /\ \A x \in DOMAIN users : users'[x] = IF x = u THEN row ELSE users[x]
  <2>1. /\ [users EXCEPT ![u] = row] \in Seq(UserRows)
        /\ Len([users EXCEPT ![u] = row]) = Len(users)
        /\ \A x \in 1..Len(users) :
             [users EXCEPT ![u] = row][x] = IF x = u THEN row ELSE users[x]
    BY <1>3, <1>5, ExceptSeq
  <2>2. QED
    BY <1>5, <1>6, <2>1
<1>8. \A x \in DOMAIN users :
        /\ users'[x].addresses = users[x].addresses /\ users'[x].email = users[x].email
        /\ users'[x].role = users[x].role /\ users'[x].memberships = users[x].memberships
  BY <1>4, <1>7
<1>9. Typed'
  BY <1>1, <1>7 DEF Typed, places
<1>10. PeopleOK'
  BY <1>1, <1>7, <1>8 DEF PeopleOK, EmailsUnique, UsersKeepRole, places, Tenants
<1>11. QED
  BY <1>7, <1>8, <1>9, <1>10, DeletesPerson

LEMMA DeleteRoleHolds == ASSUME Inv, NEW i \in DOMAIN roles, DeleteRole(i) PROVE Inv'
<1> USE DEF DeleteRole
<1>1. Typed /\ PeopleOK
  BY DEF Inv
<1> DEFINE row == [roles[i] EXCEPT !.there = FALSE]
<1>2. roles[i] \in RoleRows
  BY <1>1, Numbers
<1>3. row \in RoleRows
  BY <1>2 DEF RoleRows
<1>4. row.tenant = roles[i].tenant
  BY <1>2 DEF RoleRows
<1>5. roles \in Seq(RoleRows) /\ DOMAIN roles = 1..Len(roles) /\ i \in 1..Len(roles)
  BY <1>1 DEF Typed
<1>6. roles' = [roles EXCEPT ![i] = row]
  OBVIOUS
<1> HIDE DEF row
<1>7. /\ roles' \in Seq(RoleRows) /\ DOMAIN roles' = DOMAIN roles
      /\ \A x \in DOMAIN roles : roles'[x] = IF x = i THEN row ELSE roles[x]
  <2>1. /\ [roles EXCEPT ![i] = row] \in Seq(RoleRows)
        /\ Len([roles EXCEPT ![i] = row]) = Len(roles)
        /\ \A x \in 1..Len(roles) :
             [roles EXCEPT ![i] = row][x] = IF x = i THEN row ELSE roles[x]
    BY <1>3, <1>5, ExceptSeq
  <2>2. QED
    BY <1>5, <1>6, <2>1
<1>8. Typed'
  BY <1>1, <1>7 DEF Typed, places
<1>9. PeopleOK'
  BY <1>1, <1>4, <1>7 DEF PeopleOK, EmailsUnique, UsersKeepRole, RoleUnused, places, Tenants
<1>10. QED
  BY <1>7, <1>8, <1>9, DeletesPerson
-----------------------------------------------------------------------------
(* Tenants and branches are written.                                       *)

\* A step of a handler of tenants or branches: users and roles are as they were.
LEMMA WritesPlaces ==
  ASSUME Inv, Typed', PlacesOK', LogosOK', Grows, UNCHANGED people,
         NEW r \in Requests, NEW q \in Slot, req' = [req EXCEPT ![r] = q], SlotOK(q)',
         ~Pending(q), ~Pending(req[r])
  PROVE  Inv'
<1>1. Typed /\ SlotsOK /\ req \in [Requests -> Slot]
  BY DEF Inv, SlotsOK
<1>2. SlotsOK'
  BY <1>1, SlotMoves
<1>3. PeopleOK'
  BY SamePeople DEF Inv, Grows, Tenants
<1>4. CountsOK'
  <2>1. /\ users' = users /\ \A u \in DOMAIN users : users[u].addresses \in Nat
        /\ addresses \in Nat /\ addresses' \in Nat /\ addresses <= addresses'
    BY <1>1, Numbers DEF people, Typed, Grows
  <2>2. \A x \in Requests : x # r => req'[x] = req[x]
    BY <1>1
  <2>3. req'[r] = q
    BY <1>1
  <2>4. QED
    BY <1>1, <2>1, <2>2, <2>3, SameCounts DEF Inv
<1>5. QED
  BY <1>2, <1>3, <1>4 DEF Inv

\* The handler ends with what it has written.
LEMMA EndsPlaces ==
  ASSUME Inv, Typed', PlacesOK', LogosOK', Grows, UNCHANGED people,
         NEW r \in Requests, End(r), ~Pending(req[r])
  PROVE  Inv'
<1>1. SlotOK(Idle)' /\ ~Pending(Idle)
  BY IdleOK, IdleIsSlot, SlotGrows DEF Inv
<1>2. QED
  BY <1>1, IdleIsSlot, WritesPlaces DEF End

\* Nothing that CountsOK, PeopleOK or Grows are about changes.
LEMMA NothingGrows ==
  ASSUME Inv, UNCHANGED people, DOMAIN tenants' = DOMAIN tenants,
         DOMAIN branches' = DOMAIN branches, addresses' = addresses, uploads' = uploads
  PROVE  Grows
<1>1. addresses \in Nat /\ uploads \in Nat /\ \A u \in DOMAIN users : users[u].addresses \in Nat
  BY Numbers DEF Inv
<1>2. QED
  BY <1>1 DEF Grows, people

LEMMA TenantChanges ==
  ASSUME Typed, NEW t \in Tenants, NEW row \in TenantRows,
         tenants' = [tenants EXCEPT ![t] = row]
  PROVE  /\ tenants' \in Seq(TenantRows)
         /\ Tenants' = Tenants /\ DOMAIN tenants' = DOMAIN tenants
         /\ \A x \in Tenants : tenants'[x] = IF x = t THEN row ELSE tenants[x]
<1>1. tenants \in Seq(TenantRows) /\ Tenants = 1..Len(tenants) /\ t \in 1..Len(tenants)
  BY DEF Typed, Tenants
<1>2. QED
  BY <1>1, ExceptSeq DEF Tenants

LEMMA BranchChanges ==
  ASSUME Typed, NEW b \in DOMAIN branches, NEW row \in BranchRows,
         branches' = [branches EXCEPT ![b] = row]
  PROVE  /\ branches' \in Seq(BranchRows) /\ DOMAIN branches' = DOMAIN branches
         /\ \A x \in DOMAIN branches : branches'[x] = IF x = b THEN row ELSE branches[x]
<1>1. branches \in Seq(BranchRows) /\ DOMAIN branches = 1..Len(branches)
  BY DEF Typed
<1>2. QED
  BY <1>1, ExceptSeq

LEMMA DropLogoHolds == ASSUME Inv, NEW r \in Requests, DropLogo(r) PROVE Inv'
<1> USE DEF DropLogo
<1>1. ~Pending(req[r]) /\ req[r] \in Slot /\ SlotOK(req[r]) /\ Typed
  BY QuietSlot
<1>2. req \in [Requests -> Slot] /\ LogosOK /\ PlacesOK
  BY DEF Inv, SlotsOK
<1> DEFINE t == req[r].tenant
<1>3. /\ req[r].op = "editTenant" /\ req[r].file /\ t \in Tenants
      /\ \A x : ~Editing(req[r], x)
      /\ req[r].pc = "logo"
  BY <1>1 DEF SlotOK, PlaceSlot, Editing
<1>4. faults' \in 0..MaxFaults
  BY <1>1, AccountsAssumption DEF AccountsAssumption, Typed, Fault
<1>5. CASE End(r) /\ UNCHANGED <<files, spoiled>>
  BY <1>1, <1>3, <1>4, <1>5, EndHolds DEF people, places
<1>6. CASE /\ files' = files \ {tenants[t].logo} \/ files' = files
           /\ Goto(r, "upload") /\ spoiled' = spoiled
  <2>1. PICK q \in Slot : q = [req[r] EXCEPT !.pc = "upload"]
    <3>1. ASSUME NEW z \in Slot PROVE [z EXCEPT !.pc = "upload"] \in Slot
      BY DEF Slot, PlacePCs
    <3>2. QED
      BY <1>1, <3>1
  <2>2. req' = [req EXCEPT ![r] = q]
    BY <1>2, <1>6, <2>1 DEF Goto
  <2>3. /\ q.pc = "upload" /\ q.op = req[r].op /\ q.email = req[r].email
        /\ q.tenant = req[r].tenant /\ q.role = req[r].role /\ q.user = req[r].user
        /\ q.address = req[r].address /\ q.slug = req[r].slug /\ q.branch = req[r].branch
        /\ q.logo = req[r].logo /\ q.todo = req[r].todo /\ q.file = req[r].file
        /\ q.url = req[r].url
    BY <1>1, <2>1 DEF Slot
  <2>4. /\ users' = users /\ roles' = roles /\ tenants' = tenants /\ branches' = branches
        /\ Tenants' = Tenants /\ uploads' = uploads /\ addresses' = addresses
        /\ named' = named
    BY DEF people, Tenants
  <2>5. Typed'
    BY <1>1, <1>4, <2>4 DEF Typed
  <2>6. Grows
    BY <2>4, NothingGrows DEF people
  <2>7. SlotOK(q)'
    BY <1>1, <1>3, <2>3, <2>4 DEF SlotOK, UserSlot, PlaceSlot, TodoSlot
  <2>8. files' \subseteq files /\ spoiled' = spoiled
    BY <1>6
  <2>9. PlacesOK'
    <3>1. files' \subseteq 1..uploads' /\ spoiled' \subseteq Tenants' /\ named' \subseteq 1..uploads'
      BY <1>2, <2>4, <2>8 DEF PlacesOK
    <3>2. QED
      BY <1>2, <2>4, <3>1 DEF PlacesOK, TenantsUnique
  <2>10. LogosOK'
    <3>1. \A x \in Requests : req'[x].logo = req[x].logo
      BY <1>2, <2>2, <2>3
    <3>2. \A x \in Requests : \A y : Editing(req[x], y) => Editing(req'[x], y)
      BY <1>2, <1>3, <2>2
    <3>3. Editing(req'[r], t)
      BY <1>2, <1>3, <2>2, <2>3 DEF Editing
    <3>4. \A f \in files : f = tenants[t].logo \/ f \in files'
      BY <1>6
    <3>5. 0 \notin files
      BY <1>2 DEF PlacesOK
    <3>6. ASSUME NEW x \in Tenants \ spoiled
          PROVE  LogoThere(x)'
      <4>1. CASE x = t
        BY <3>3, <4>1 DEF Editing, LogoThere
      <4>2. CASE x # t
        <5>1. tenants[x].logo = tenants[t].logo => tenants[x].logo \in named \cup {0, Elsewhere}
          BY <1>2, <1>3, <3>6, <4>2 DEF LogosOK, LogoThere
        <5>2. CASE tenants[x].deleted
          BY <2>4, <5>2 DEF LogoThere
        <5>3. CASE tenants[x].logo \in files \cup named \cup {0, Elsewhere}
          BY <2>4, <3>4, <5>1, <5>3 DEF LogoThere
        <5>4. CASE \E y \in Requests : Editing(req[y], x)
          BY <3>2, <5>4 DEF Editing, LogoThere
        <5>5. QED
          BY <1>2, <3>6, <5>2, <5>3, <5>4 DEF LogosOK, LogoThere
      <4>3. QED
        BY <4>1, <4>2
    <3>7. ASSUME NEW x \in Requests, req'[x].logo \notin named \cup {0}
          PROVE  req'[x].logo \in files' /\ \A y \in Tenants : tenants[y].logo # req'[x].logo
      BY <1>2, <1>3, <3>1, <3>4, <3>7 DEF LogosOK, LogoThere
    <3>8. QED
      BY <1>2, <2>4, <2>8, <3>1, <3>6, <3>7 DEF LogosOK, LogoThere
  <2>11. ~Pending(q)
    BY <1>1, <2>3 DEF Pending
  <2>12. QED
    BY <1>1, <2>2, <2>5, <2>6, <2>7, <2>9, <2>10, <2>11, WritesPlaces DEF people
<1>7. QED
  BY <1>3, <1>5, <1>6

LEMMA UploadHolds == ASSUME Inv, NEW r \in Requests, Upload(r) PROVE Inv'
<1> USE DEF Upload
<1>1. ~Pending(req[r]) /\ req[r] \in Slot /\ SlotOK(req[r]) /\ Typed
  BY QuietSlot
<1>2. req \in [Requests -> Slot] /\ LogosOK /\ PlacesOK
  BY DEF Inv, SlotsOK
<1>3. req[r].op \in {"tenant", "editTenant"} /\ req[r].pc = "upload"
  BY <1>1 DEF SlotOK, PlaceSlot
<1> DEFINE pc == CASE req[r].address = New /\ req[r].op = "editTenant" -> "own"
                   [] req[r].address = New /\ req[r].op = "tenant" -> "address"
                   [] req[r].address # New /\ req[r].op = "editTenant" -> "write"
                   [] req[r].address # New /\ req[r].op = "tenant" -> "insert"
<1>4. /\ pc \in {"own", "address", "write", "insert"}
      /\ pc \in {"own", "write"} <=> req[r].op = "editTenant"
      /\ pc \in {"write", "insert"} => req[r].address # New
  <2>1. CASE req[r].op = "tenant"
    BY <1>3, <2>1
  <2>2. CASE req[r].op = "editTenant"
    BY <1>3, <2>2
  <2>3. QED
    BY <1>3, <2>1, <2>2
<1>5. req' = [req EXCEPT ![r].logo = uploads + 1, ![r].pc = pc]
  OBVIOUS
<1> HIDE DEF pc
<1>6. PICK q \in Slot : q = [req[r] EXCEPT !.logo = uploads + 1, !.pc = pc]
  <2>1. ASSUME NEW z \in Slot, NEW n \in Nat, NEW p \in PlacePCs
        PROVE  [z EXCEPT !.logo = n, !.pc = p] \in Slot
    BY DEF Slot
  <2>2. uploads + 1 \in Nat /\ pc \in PlacePCs
    BY <1>1, <1>4 DEF Typed, PlacePCs
  <2>3. QED
    BY <1>1, <2>1, <2>2
<1>7. req' = [req EXCEPT ![r] = q]
  BY <1>2, <1>5, <1>6
<1>8. /\ q.pc = pc /\ q.op = req[r].op /\ q.email = req[r].email
      /\ q.tenant = req[r].tenant /\ q.role = req[r].role /\ q.user = req[r].user
      /\ q.address = req[r].address /\ q.slug = req[r].slug /\ q.branch = req[r].branch
      /\ q.logo = uploads + 1 /\ q.todo = req[r].todo /\ q.file = req[r].file
      /\ q.url = req[r].url
  BY <1>1, <1>6 DEF Slot
<1>9. /\ users' = users /\ roles' = roles /\ tenants' = tenants /\ branches' = branches
      /\ Tenants' = Tenants /\ uploads' = uploads + 1 /\ addresses' = addresses
      /\ spoiled' = spoiled /\ named' = named /\ files' = files \cup {uploads + 1}
      /\ uploads \in Nat /\ uploads + 1 \in Nat /\ addresses \in Nat
  BY <1>1 DEF people, Tenants, Typed
<1>10. Typed'
  BY <1>1, <1>9 DEF Typed
<1>11. Grows
  <2>1. \A u \in DOMAIN users : users[u].addresses \in Nat
    BY <1>1, Numbers
  <2>2. QED
    BY <1>9, <2>1 DEF Grows
<1>12. SlotOK(q)'
  <2>1. /\ q.tenant \in Tenants' \cup {0} /\ q.address \in Unset..addresses'
        /\ q.logo \in 0..uploads' /\ q.logo # 0 /\ q.url \in Elsewhere..uploads'
    BY <1>1, <1>8, <1>9 DEF SlotOK, Elsewhere
  <2>2. UserSlot(q)'
    BY <1>1, <1>3, <1>4, <1>8, <1>9 DEF SlotOK, UserSlot
  <2>3. PlaceSlot(q)'
    BY <1>1, <1>3, <1>4, <1>8, <1>9, <2>1 DEF SlotOK, PlaceSlot
  <2>4. TodoSlot(q)'
    BY <1>1, <1>3, <1>4, <1>8, <1>9 DEF SlotOK, TodoSlot
  <2>5. QED
    BY <2>1, <2>2, <2>3, <2>4 DEF SlotOK
<1>13. PlacesOK'
  <2>1. \A n \in Elsewhere..uploads : n \in Elsewhere..uploads' /\ n # uploads + 1
    BY <1>9 DEF Elsewhere
  <2>2. \A n \in 1..uploads : n \in 1..uploads'
    BY <1>9
  <2>3. uploads + 1 \in 1..uploads'
    BY <1>9
  <2>4. QED
    BY <1>2, <1>9, <2>1, <2>2, <2>3 DEF PlacesOK, TenantsUnique
<1>14. LogosOK'
  <2>1. \A x \in Requests : req'[x].logo = IF x = r THEN uploads + 1 ELSE req[x].logo
    BY <1>2, <1>7, <1>8
  <2>2. \A x \in Requests : \A y : Editing(req[x], y) => Editing(req'[x], y)
    <3>1. \A y : Editing(req[r], y) => Editing(q, y)
      BY <1>4, <1>8 DEF Editing
    <3>2. QED
      BY <1>2, <1>7, <3>1
  <2>3. \A t \in Tenants : tenants[t].logo # uploads + 1
    BY <1>2, <1>9 DEF PlacesOK
  <2>4. \A x \in Requests : req[x].logo # uploads + 1
    <3>1. \A x \in Requests : req[x].logo \in 0..uploads
      BY DEF Inv, SlotsOK, SlotOK
    <3>2. QED
      BY <1>9, <3>1
  <2>5. ASSUME NEW t \in Tenants \ spoiled PROVE LogoThere(t)'
    <3>1. LogoThere(t)
      BY <1>2 DEF LogosOK
    <3>2. tenants'[t] = tenants[t] /\ files \subseteq files'
      BY <1>9
    <3>3. QED
      BY <2>2, <3>1, <3>2 DEF LogoThere, Editing
  <2>6. \A x \in Requests : req'[x].logo \notin named \cup {0} =>
          req'[x].logo \in files' /\ \A t \in Tenants : tenants[t].logo # req'[x].logo
    BY <1>2, <1>9, <2>1, <2>3 DEF LogosOK
  <2>7. \A x, y \in Requests : req'[x].logo = req'[y].logo => x = y \/ req'[x].logo = 0
    BY <1>2, <2>1, <2>4 DEF LogosOK
  <2>8. QED
    BY <1>2, <1>9, <2>5, <2>6, <2>7 DEF LogosOK
<1>15. ~Pending(q)
  BY <1>1, <1>8 DEF Pending
<1>16. QED
  BY <1>1, <1>7, <1>10, <1>11, <1>12, <1>13, <1>14, <1>15, WritesPlaces DEF people

LEMMA CreateAddressHolds == ASSUME Inv, NEW r \in Requests, CreateAddress(r) PROVE Inv'
<1> USE DEF CreateAddress
<1>1. ~Pending(req[r]) /\ req[r] \in Slot /\ SlotOK(req[r]) /\ Typed
  BY QuietSlot
<1>2. req \in [Requests -> Slot] /\ LogosOK /\ PlacesOK
  BY DEF Inv, SlotsOK
<1>3. req[r].op \in {"tenant", "branch"} /\ req[r].pc = "address"
  BY <1>1 DEF SlotOK, PlaceSlot
<1> DEFINE pc == IF req[r].op = "tenant" THEN "insert" ELSE "branch"
<1>4. pc \in {"insert", "branch"} /\ (pc = "insert" <=> req[r].op = "tenant")
  OBVIOUS
<1>5. req' = [req EXCEPT ![r].address = addresses + 1, ![r].pc = pc]
  OBVIOUS
<1> HIDE DEF pc
<1>6. PICK q \in Slot : q = [req[r] EXCEPT !.address = addresses + 1, !.pc = pc]
  <2>1. ASSUME NEW z \in Slot, NEW n \in Int, NEW p \in PlacePCs
        PROVE  [z EXCEPT !.address = n, !.pc = p] \in Slot
    BY DEF Slot
  <2>2. addresses + 1 \in Int /\ pc \in PlacePCs
    BY <1>1, <1>4 DEF Typed, PlacePCs
  <2>3. QED
    BY <1>1, <2>1, <2>2
<1>7. req' = [req EXCEPT ![r] = q]
  BY <1>2, <1>5, <1>6
<1>8. /\ q.pc = pc /\ q.op = req[r].op /\ q.email = req[r].email
      /\ q.tenant = req[r].tenant /\ q.role = req[r].role /\ q.user = req[r].user
      /\ q.address = addresses + 1 /\ q.slug = req[r].slug /\ q.branch = req[r].branch
      /\ q.logo = req[r].logo /\ q.todo = req[r].todo /\ q.file = req[r].file
      /\ q.url = req[r].url
  BY <1>1, <1>6 DEF Slot
<1>9. /\ users' = users /\ roles' = roles /\ tenants' = tenants /\ branches' = branches
      /\ Tenants' = Tenants /\ uploads' = uploads /\ addresses' = addresses + 1
      /\ uploads \in Nat /\ addresses \in Nat /\ addresses' \in Nat \ {0}
  BY <1>1 DEF people, places, Tenants, Typed
<1>10. Typed'
  BY <1>1, <1>9 DEF Typed
<1>11. Grows
  <2>1. \A u \in DOMAIN users : users[u].addresses \in Nat
    BY <1>1, Numbers
  <2>2. QED
    BY <1>9, <2>1 DEF Grows
<1>12. SlotOK(q)'
  <2>1. /\ q.tenant \in Tenants' \cup {0} /\ q.address \in Unset..addresses'
        /\ q.logo \in 0..uploads' /\ q.url \in Elsewhere..uploads'
        /\ q.address # Unset /\ q.address # New
    BY <1>1, <1>8, <1>9 DEF SlotOK, Unset, New
  <2>2. UserSlot(q)'
    BY <1>1, <1>3, <1>4, <1>8, <1>9 DEF SlotOK, UserSlot
  <2>3. PlaceSlot(q)'
    BY <1>1, <1>3, <1>4, <1>8, <1>9, <2>1 DEF SlotOK, PlaceSlot
  <2>4. TodoSlot(q)'
    BY <1>1, <1>3, <1>4, <1>8, <1>9 DEF SlotOK, TodoSlot
  <2>5. QED
    BY <2>1, <2>2, <2>3, <2>4 DEF SlotOK
<1>13. PlacesOK'
  BY <1>1, <1>2, <1>9, <1>10, SamePlaces
<1>14. LogosOK'
  <2>1. \A x \in Requests : req'[x].logo = req[x].logo
    BY <1>2, <1>7, <1>8
  <2>2. \A y : ~Editing(req[r], y)
    BY <1>3 DEF Editing
  <2>3. \A x \in Requests : \A y : Editing(req[x], y) => Editing(req'[x], y)
    BY <1>2, <1>7, <2>2
  <2>4. QED
    BY <1>2, <1>9, <2>1, <2>3, SameLogos DEF places
<1>15. ~Pending(q)
  BY <1>1, <1>8 DEF Pending
<1>16. QED
  BY <1>1, <1>7, <1>10, <1>11, <1>12, <1>13, <1>14, <1>15, WritesPlaces DEF people
\* What Spoils adds covers the handler that ends.
LEMMA SpoilsIsEnough ==
  ASSUME Inv, NEW r \in Requests, NEW t, Editing(req[r], t)
  PROVE  t \in Spoils(r)
BY DEF Editing, Spoils

LEMMA SpoilsIsTenants ==
  ASSUME Inv, NEW r \in Requests
  PROVE  spoiled \subseteq Spoils(r) /\ Spoils(r) \subseteq Tenants
BY DEF Inv, SlotsOK, SlotOK, PlaceSlot, PlacesOK, Spoils

\* A handler ends before its row, whatever the reason.
LEMMA GivesUp ==
  ASSUME Inv, NEW r \in Requests, End(r), spoiled' = Spoils(r), ~Pending(req[r]),
         UNCHANGED <<people, tenants, branches, files, uploads, named, addresses, workload>>,
         faults' \in 0..MaxFaults
  PROVE  Inv'
<1>1. Typed /\ PlacesOK /\ LogosOK /\ req \in [Requests -> Slot]
  BY DEF Inv, SlotsOK
<1>2. Typed'
  BY <1>1 DEF Typed, people
<1>3. Tenants' = Tenants /\ Grows
  BY NothingGrows DEF Tenants
<1>4. PlacesOK'
  BY <1>1, <1>3, SpoilsIsTenants DEF PlacesOK, TenantsUnique
<1>5. LogosOK'
  <2>1. \A x \in Requests : x # r => req'[x] = req[x]
    BY <1>1 DEF End
  <2>2. req'[r].logo = 0
    BY <1>1, IdleOK DEF End
  <2>3. ASSUME NEW x \in Requests, NEW t \in Tenants, Editing(req[x], t)
        PROVE  Editing(req'[x], t) \/ t \in spoiled'
    <3>1. CASE x = r
      BY <2>3, <3>1, SpoilsIsEnough
    <3>2. CASE x # r
      BY <2>1, <2>3, <3>2
    <3>3. QED
      BY <3>1, <3>2
  <2>4. \A x \in Requests : req'[x].logo \in {0, req[x].logo}
    BY <2>1, <2>2
  <2>5. QED
    BY <1>1, <1>3, <2>3, <2>4, SpoilsIsTenants, SameLogos
<1>6. QED
  BY <1>2, <1>3, <1>4, <1>5, EndsPlaces

LEMMA FailHolds == ASSUME Inv, NEW r \in Requests, Fail(r) PROVE Inv'
<1> USE DEF Fail
<1>1. ~Pending(req[r])
  BY QuietSlot
<1>2. faults' \in 0..MaxFaults
  BY AccountsAssumption DEF AccountsAssumption, Inv, Typed, Fault
<1>3. QED
  BY <1>1, <1>2, GivesUp

LEMMA OwnAddressHolds == ASSUME Inv, NEW r \in Requests, OwnAddress(r) PROVE Inv'
<1> USE DEF OwnAddress
<1>1. ~Pending(req[r]) /\ req[r] \in Slot /\ SlotOK(req[r]) /\ Typed
  BY QuietSlot
<1>2. req \in [Requests -> Slot] /\ PlacesOK
  BY DEF Inv, SlotsOK
<1> DEFINE t == req[r].tenant
<1>3. req[r].op = "editTenant" /\ t \in Tenants /\ (req[r].file => req[r].logo # 0)
  BY <1>1 DEF SlotOK, PlaceSlot
<1>4. faults' \in 0..MaxFaults /\ tenants[t].address \in 1..addresses /\ addresses \in Nat
  BY <1>1, <1>2, <1>3 DEF Typed, PlacesOK
<1>5. CASE End(r) /\ spoiled' = Spoils(r)
  BY <1>1, <1>4, <1>5, GivesUp
<1>6. CASE /\ req' = [req EXCEPT ![r].address = tenants[t].address, ![r].pc = "write"]
           /\ spoiled' = spoiled
  <2>1. PICK q \in Slot : q = [req[r] EXCEPT !.address = tenants[t].address, !.pc = "write"]
    <3>1. ASSUME NEW z \in Slot, NEW n \in Int
          PROVE  [z EXCEPT !.address = n, !.pc = "write"] \in Slot
      BY DEF Slot, PlacePCs
    <3>2. tenants[t].address \in Int
      BY <1>4
    <3>3. QED
      BY <1>1, <3>1, <3>2
  <2>2. req' = [req EXCEPT ![r] = q]
    BY <1>2, <1>6, <2>1
  <2>3. /\ q.pc = "write" /\ q.op = req[r].op /\ q.email = req[r].email
        /\ q.tenant = req[r].tenant /\ q.role = req[r].role /\ q.user = req[r].user
        /\ q.address = tenants[t].address /\ q.slug = req[r].slug
        /\ q.branch = req[r].branch
        /\ q.logo = req[r].logo /\ q.todo = req[r].todo /\ q.file = req[r].file
        /\ q.url = req[r].url
    BY <1>1, <2>1 DEF Slot
  <2>4. q.address \in Unset..addresses /\ q.address # Unset /\ q.address # New
    BY <1>4, <2>3 DEF Unset, New
  <2>5. SlotOK(q)
    BY <1>1, <1>3, <2>3, <2>4 DEF SlotOK, UserSlot, PlaceSlot, TodoSlot
  <2>6. \A x : Editing(req[r], x) => Editing(q, x)
    BY <2>3 DEF Editing
  <2>7. QED
    BY <1>4, <1>6, <2>2, <2>3, <2>5, <2>6, OnlyMoves DEF places
<1>7. QED
  BY <1>5, <1>6

\* A row is given the logo of the handler's file, or one its body named.
LEMMA LogoGiven ==
  ASSUME NEW r \in Requests, SlotOK(req[r]), req[r] \in Slot, Typed, PlacesOK
  PROVE  /\ LogoOf(r) \in Elsewhere..uploads
         /\ named \cup NamedBy(r) \subseteq 1..uploads
         /\ \/ LogoOf(r) = Unset
            \/ LogoOf(r) \in named \cup NamedBy(r) \cup {0, Elsewhere}
            \/ LogoOf(r) = req[r].logo
         /\ req[r].file => LogoOf(r) = req[r].logo /\ NamedBy(r) = {}
         /\ LogoOf(r) = Unset => NamedBy(r) = {}
         /\ 0 \in (Elsewhere..uploads) \ {Unset}
<1> USE DEF Unset, Elsewhere
<1>1. uploads \in Nat /\ req[r].logo \in 0..uploads /\ req[r].url \in Elsewhere..uploads
  BY DEF SlotOK, Typed
<1>2. CASE req[r].file
  BY <1>1, <1>2 DEF LogoOf, NamedBy, PlacesOK
<1>3. CASE ~req[r].file
  <2>1. LogoOf(r) = req[r].url /\ NamedBy(r) = {req[r].url} \cap 1..uploads
    BY <1>3 DEF LogoOf, NamedBy
  <2>2. req[r].url \in 1..uploads \/ req[r].url \in {Unset, 0, Elsewhere}
    BY <1>1
  <2>3. named \cup NamedBy(r) \subseteq 1..uploads
    BY <2>1 DEF PlacesOK
  <2>4. \/ LogoOf(r) = Unset
        \/ LogoOf(r) \in named \cup NamedBy(r) \cup {0, Elsewhere}
    BY <2>1, <2>2
  <2>5. LogoOf(r) = Unset => NamedBy(r) = {}
    BY <1>1, <2>1
  <2>6. 0 \in (Elsewhere..uploads) \ {Unset}
    BY <1>1
  <2>7. QED
    BY <1>1, <1>3, <2>1, <2>3, <2>4, <2>5, <2>6
<1>4. QED
  BY <1>2, <1>3

LEMMA InsertTenantHolds == ASSUME Inv, NEW r \in Requests, InsertTenant(r) PROVE Inv'
<1> USE DEF InsertTenant
<1>1. ~Pending(req[r]) /\ req[r] \in Slot /\ SlotOK(req[r]) /\ Typed
  BY QuietSlot
<1>2. req \in [Requests -> Slot] /\ PlacesOK /\ LogosOK
  BY DEF Inv, SlotsOK
<1>3. /\ req[r].op = "tenant" /\ req[r].slug \in Slugs /\ req[r].email \in Emails
      /\ req[r].address \in 1..addresses /\ req[r].address \in Nat
      /\ req[r].logo \in 0..uploads
      /\ \A t : ~Editing(req[r], t)
  <2>1. /\ req[r].address \in Unset..addresses /\ req[r].address # Unset
        /\ req[r].address # New /\ addresses \in Nat
    BY <1>1 DEF SlotOK, PlaceSlot, Typed
  <2>2. req[r].address \in 1..addresses /\ req[r].address \in Nat
    BY <2>1 DEF Unset, New
  <2>3. QED
    BY <1>1, <2>2 DEF SlotOK, PlaceSlot, Editing
<1>4. CASE UNCHANGED <<tenants, named>>
  <2>1. faults' \in 0..MaxFaults
    BY <1>1 DEF Typed
  <2>2. QED
    BY <1>1, <1>3, <1>4, <2>1, EndHolds DEF places
<1>5. CASE /\ SlugFree(req[r].slug, req[r].email) /\ AddressFree(req[r].address, 0)
           /\ ~UNCHANGED <<tenants, named>>
  <2> DEFINE l == IF LogoOf(r) = Unset THEN 0 ELSE LogoOf(r)
             row == TenantRow(req[r].slug, req[r].email, req[r].address, l)
             n == Len(tenants) + 1
  <2>0. /\ l \in (Elsewhere..uploads) \ {Unset}
        /\ named' = named \cup NamedBy(r) /\ named' \subseteq 1..uploads
        /\ l \in named' \cup {0, Elsewhere} \/ l = req[r].logo
    BY <1>1, <1>2, <1>5, LogoGiven
  <2> HIDE DEF l
  <2>1. row \in TenantRows
    <3>1. l \in Int
      BY <1>1, <2>0 DEF Typed, Elsewhere
    <3>2. QED
      BY <1>1, <1>3, <3>1 DEF TenantRow, TenantRows, Slot
  <2>2. /\ row.slug = req[r].slug /\ row.address = req[r].address /\ row.logo = l
    BY DEF TenantRow
  <2>3. tenants' = Append(tenants, row)
    BY <1>5 DEF l
  <2> HIDE DEF row
  <2>4. /\ tenants' \in Seq(TenantRows)
        /\ n \in Nat /\ n \notin Tenants /\ n \in Tenants' /\ tenants'[n] = row
        /\ \A t \in Tenants : t \in Tenants' /\ tenants'[t] = tenants[t]
        /\ \A t \in Tenants' : t \in Tenants \/ t = n
    BY <1>1, <2>1, <2>3 DEF Typed, Tenants
  <2>5. \A t \in Tenants : tenants[t].slug # row.slug /\ tenants[t].address # row.address
    <3>1. \A t \in Tenants : t \in Tenants \ {0}
      BY <1>1 DEF Typed, Tenants
    <3>2. QED
      BY <1>5, <2>2, <3>1 DEF SlugFree, AddressFree
  <2> HIDE DEF n
  <2>6. /\ users' = users /\ roles' = roles /\ branches' = branches
        /\ uploads' = uploads /\ addresses' = addresses /\ files' = files
        /\ spoiled' = spoiled
    BY DEF people
  <2>7. Typed'
    BY <1>1, <2>4, <2>6 DEF Typed
  <2>8. Grows
    <3>1. /\ addresses \in Nat /\ uploads \in Nat
          /\ \A u \in DOMAIN users : users[u].addresses \in Nat
      BY <1>1, Numbers
    <3>2. QED
      BY <2>4, <2>6, <3>1 DEF Grows, Tenants
  <2>9. TenantsUnique'
    BY <1>2, <2>4, <2>5 DEF PlacesOK, TenantsUnique
  <2>10. PlacesOK'
    BY <1>2, <1>3, <2>0, <2>2, <2>4, <2>6, <2>9 DEF PlacesOK
  <2>11. LogosOK'
    <3>0. \A x \in Requests : req[x].logo # Elsewhere
      BY DEF Inv, SlotsOK, SlotOK, Elsewhere
    <3>1. \A x \in Requests : req'[x].logo = IF x = r THEN 0 ELSE req[x].logo
      BY <1>1, <1>2, IdleOK DEF End
    <3>2. \A x \in Requests : \A y : Editing(req[x], y) => Editing(req'[x], y)
      BY <1>2, <1>3 DEF End
    <3>3. \A t \in Tenants' : tenants'[t].logo = IF t = n THEN l ELSE tenants[t].logo
      BY <2>2, <2>4
    <3>4. ASSUME NEW t \in Tenants' \ spoiled' PROVE LogoThere(t)'
      <4>1. CASE t = n
        <5>1. l \in files \cup named' \cup {0, Elsewhere}
          BY <1>2, <2>0 DEF LogosOK
        <5>2. QED
          BY <2>6, <3>3, <4>1, <5>1 DEF LogoThere
      <4>2. CASE t # n
        <5>1. t \in Tenants \ spoiled /\ tenants'[t] = tenants[t]
          BY <2>4, <2>6, <4>2
        <5>2. LogoThere(t)
          BY <1>2, <5>1 DEF LogosOK
        <5>3. QED
          BY <2>0, <2>6, <3>2, <5>1, <5>2 DEF LogoThere, Editing
      <4>3. QED
        BY <4>1, <4>2
    <3>5. \A t, x \in Tenants' : tenants'[t].logo = tenants'[x].logo =>
            t = x \/ tenants'[t].logo \in named' \cup {0, Elsewhere}
      BY <1>2, <2>0, <2>4, <3>3 DEF LogosOK
    <3>6. \A x \in Requests : req'[x].logo \notin named' \cup {0} =>
            req'[x].logo \in files' /\ \A t \in Tenants' : tenants'[t].logo # req'[x].logo
      BY <1>2, <2>0, <2>4, <2>6, <3>0, <3>1, <3>3 DEF LogosOK
    <3>7. \A x, y \in Requests : req'[x].logo = req'[y].logo => x = y \/ req'[x].logo = 0
      BY <1>2, <3>1 DEF LogosOK
    <3>8. QED
      BY <3>4, <3>5, <3>6, <3>7 DEF LogosOK
  <2>12. QED
    BY <1>1, <2>7, <2>8, <2>10, <2>11, EndsPlaces
<1>6. QED
  BY <1>4, <1>5

LEMMA WriteTenantHolds == ASSUME Inv, NEW r \in Requests, WriteTenant(r) PROVE Inv'
<1> USE DEF WriteTenant
<1>1. ~Pending(req[r]) /\ req[r] \in Slot /\ SlotOK(req[r]) /\ Typed
  BY QuietSlot
<1>2. req \in [Requests -> Slot] /\ PlacesOK /\ LogosOK
  BY DEF Inv, SlotsOK
<1> DEFINE t == req[r].tenant
<1>3. /\ req[r].op = "editTenant" /\ t \in Tenants /\ (req[r].file => req[r].logo # 0)
      /\ req[r].address = Unset \/ req[r].address \in 1..addresses
      /\ req[r].logo \in 0..uploads
  <2>1. req[r].address \in Unset..addresses /\ req[r].address # New /\ addresses \in Nat
    BY <1>1 DEF SlotOK, PlaceSlot, Typed
  <2>2. req[r].address = Unset \/ req[r].address \in 1..addresses
    BY <2>1 DEF Unset, New
  <2>3. QED
    BY <1>1, <2>2 DEF SlotOK, PlaceSlot
<1>4. CASE UNCHANGED <<tenants, named>> /\ spoiled' = Spoils(r)
  <2>1. faults' \in 0..MaxFaults
    BY <1>1 DEF Typed
  <2>2. QED
    BY <1>1, <1>4, <2>1, GivesUp
<1>5. CASE /\ ~tenants[t].deleted /\ AddressFree(req[r].address, t)
           /\ ~(UNCHANGED <<tenants, named>> /\ spoiled' = Spoils(r))
  <2> DEFINE a == IF req[r].address = Unset THEN tenants[t].address ELSE req[r].address
             l == IF LogoOf(r) = Unset THEN tenants[t].logo ELSE LogoOf(r)
             row == [tenants[t] EXCEPT !.address = a, !.logo = l]
  <2>1. tenants[t] \in TenantRows /\ tenants[t].address \in 1..addresses /\ tenants[t].logo \in (Elsewhere..uploads) \ {Unset}
    BY <1>1, <1>2, <1>3, Numbers DEF PlacesOK
  <2>2. /\ a \in 1..addresses /\ l \in (Elsewhere..uploads) \ {Unset}
        /\ named' = named \cup NamedBy(r) /\ named' \subseteq 1..uploads
    BY <1>1, <1>2, <1>3, <1>5, <2>1, LogoGiven
  <2>3. tenants' = [tenants EXCEPT ![t] = row]
    BY <1>3, <1>5
  <2>4. \A x \in Tenants : x # t => tenants[x].address # a
    BY <1>2, <1>3, <1>5, <2>1 DEF AddressFree, PlacesOK, TenantsUnique
  <2>5. \/ l = tenants[t].logo /\ ~req[r].file /\ spoiled' = spoiled /\ named' = named
        \/ l = req[r].logo /\ l # 0 /\ named' = named /\ spoiled' \in {spoiled, spoiled \ {t}}
        \/ l \in named' \cup {0, Elsewhere} /\ ~req[r].file /\ spoiled' = spoiled
    <3>1. spoiled' = IF req[r].file THEN spoiled \ {t} ELSE spoiled
      BY <1>5
    <3>2. CASE req[r].file
      <4>1. LogoOf(r) = req[r].logo /\ NamedBy(r) = {}
        BY <1>1, <1>2, <3>2, LogoGiven
      <4>2. LogoOf(r) # Unset
        BY <1>3, <4>1 DEF Unset
      <4>3. QED
        BY <1>3, <2>2, <3>1, <3>2, <4>1, <4>2
    <3>3. CASE ~req[r].file /\ LogoOf(r) = Unset
      <4>1. NamedBy(r) = {}
        BY <1>1, <1>2, <3>3, LogoGiven
      <4>2. QED
        BY <2>2, <3>1, <3>3, <4>1
    <3>4. CASE ~req[r].file /\ LogoOf(r) # Unset
      <4>1. LogoOf(r) = req[r].url
        BY <3>4 DEF LogoOf
      <4>2. req[r].url \in 1..uploads => req[r].url \in NamedBy(r)
        BY <3>4 DEF NamedBy
      <4>3. req[r].url \in 1..uploads \/ req[r].url \in {Unset, 0, Elsewhere}
        <5>1. req[r].url \in Elsewhere..uploads /\ uploads \in Nat
          BY <1>1 DEF SlotOK, Typed
        <5>2. QED
          BY <5>1 DEF Unset, Elsewhere
      <4>4. QED
        BY <2>2, <3>1, <3>4, <4>1, <4>2, <4>3
    <3>5. QED
      BY <3>2, <3>3, <3>4
  <2> HIDE DEF a, l
  <2>6. /\ row \in TenantRows /\ row.slug = tenants[t].slug /\ row.address = a /\ row.logo = l
        /\ row.deleted = tenants[t].deleted
    <3>1. a \in Nat /\ l \in Int
      BY <1>1, <2>2 DEF Typed, Elsewhere
    <3>2. row \in TenantRows
      <4>1. ASSUME NEW z \in TenantRows PROVE [z EXCEPT !.address = a, !.logo = l] \in TenantRows
        BY <3>1 DEF TenantRows
      <4>2. QED
        BY <2>1, <4>1
    <3>3. QED
      BY <2>1, <3>2 DEF TenantRows
  <2> HIDE DEF row, t
  <2>7. /\ tenants' \in Seq(TenantRows)
        /\ Tenants' = Tenants /\ DOMAIN tenants' = DOMAIN tenants
        /\ \A x \in Tenants : tenants'[x] = IF x = t THEN row ELSE tenants[x]
    BY <1>1, <1>3, <2>3, <2>6, TenantChanges
  <2>8. /\ users' = users /\ roles' = roles /\ branches' = branches
        /\ uploads' = uploads /\ addresses' = addresses /\ files' = files
        /\ spoiled' \subseteq spoiled
    BY <2>5 DEF people
  <2>9. Typed'
    BY <1>1, <2>7, <2>8 DEF Typed
  <2>10. Grows
    BY <2>7, <2>8, NothingGrows DEF people
  <2>11. TenantsUnique'
    <3>1. ASSUME NEW x \in Tenants, NEW y \in Tenants,
                 tenants'[x].slug = tenants'[y].slug \/ tenants'[x].address = tenants'[y].address
          PROVE  x = y
      BY <1>2, <1>3, <2>4, <2>6, <2>7, <3>1 DEF PlacesOK, TenantsUnique
    <3>2. QED
      BY <2>7, <3>1 DEF TenantsUnique
  <2>12. PlacesOK'
    BY <1>2, <2>2, <2>6, <2>7, <2>8, <2>11 DEF PlacesOK
  <2>13. LogosOK'
    <3>1. \A x \in Requests : req'[x].logo = IF x = r THEN 0 ELSE req[x].logo
      BY <1>1, <1>2, IdleOK DEF End
    <3>2. \A x \in Requests \ {r} : req'[x] = req[x]
      BY <1>2 DEF End
    <3>3. \A x \in Tenants : tenants'[x].logo = IF x = t THEN l ELSE tenants[x].logo
      BY <2>6, <2>7
    <3>0. \A x \in Requests : req[x].logo # Elsewhere
      BY DEF Inv, SlotsOK, SlotOK, Elsewhere
    <3>4. \/ l = tenants[t].logo /\ named' = named
          \/ l \in named' \cup {0, Elsewhere}
          \/ /\ l = req[r].logo /\ named' = named /\ l \in files
             /\ \A x \in Tenants : tenants[x].logo # l
      BY <1>2, <2>5 DEF LogosOK
    <3>10. named \subseteq named'
      BY <2>2
    <3>5. ASSUME NEW x \in Tenants \ spoiled' PROVE LogoThere(x)'
      <4>1. CASE x # t
        <5>1. x \in Tenants \ spoiled /\ tenants'[x] = tenants[x]
          BY <2>5, <2>7, <4>1
        <5>2. LogoThere(x) /\ ~Editing(req[r], x)
          BY <1>2, <4>1, <5>1 DEF LogosOK, Editing, t
        <5>3. QED
          BY <2>8, <3>2, <3>10, <5>1, <5>2 DEF LogoThere, Editing
      <4>2. CASE x = t /\ l \in files \cup named' \cup {0, Elsewhere}
        BY <2>8, <3>3, <4>2 DEF LogoThere
      <4>3. CASE x = t /\ l = tenants[t].logo /\ ~req[r].file /\ spoiled' = spoiled
        <5>1. LogoThere(x) /\ ~Editing(req[r], x)
          BY <1>2, <4>3 DEF LogosOK, Editing
        <5>2. tenants'[x].deleted = tenants[x].deleted /\ tenants'[x].logo = tenants[x].logo
          BY <2>6, <2>7, <4>3
        <5>3. QED
          BY <2>8, <3>2, <3>10, <5>1, <5>2 DEF LogoThere, Editing
      <4>4. l = req[r].logo /\ l # 0 /\ named' = named
              => l \in files \cup named' \cup {0, Elsewhere}
        BY <1>2 DEF LogosOK
      <4>5. QED
        BY <2>5, <4>1, <4>2, <4>3, <4>4
    <3>6. ASSUME NEW x \in Tenants, NEW y \in Tenants, tenants'[x].logo = tenants'[y].logo, x # y
          PROVE  tenants'[x].logo \in named' \cup {0, Elsewhere}
      <4>1. CASE x # t /\ y # t
        BY <1>2, <3>3, <3>6, <3>10, <4>1 DEF LogosOK
      <4>2. CASE x = t /\ y # t
        BY <1>2, <1>3, <3>3, <3>4, <3>6, <3>10, <4>2 DEF LogosOK, t
      <4>3. CASE x # t /\ y = t
        BY <1>2, <1>3, <3>3, <3>4, <3>6, <3>10, <4>3 DEF LogosOK, t
      <4>4. QED
        BY <3>6, <4>1, <4>2, <4>3
    <3>7. ASSUME NEW x \in Requests, req'[x].logo \notin named' \cup {0}
          PROVE  req'[x].logo \in files' /\ \A y \in Tenants : tenants'[y].logo # req'[x].logo
      <4>1. x # r /\ req'[x].logo = req[x].logo /\ req[x].logo \notin named \cup {0}
        BY <3>1, <3>7, <3>10
      <4>2. req[x].logo \in files /\ \A y \in Tenants : tenants[y].logo # req[x].logo
        BY <1>2, <4>1 DEF LogosOK
      <4>3. l # req[x].logo
        BY <1>2, <1>3, <3>0, <3>4, <3>7, <4>1, <4>2 DEF LogosOK, t
      <4>4. QED
        BY <2>8, <3>3, <4>1, <4>2, <4>3
    <3>8. \A x, y \in Requests : req'[x].logo = req'[y].logo => x = y \/ req'[x].logo = 0
      BY <1>2, <3>1 DEF LogosOK
    <3>9. QED
      BY <2>7, <3>5, <3>6, <3>7, <3>8 DEF LogosOK
  <2>14. QED
    BY <1>1, <2>9, <2>10, <2>12, <2>13, EndsPlaces
<1>6. QED
  BY <1>4, <1>5
\* A tenant keeps its slug, its address and its logo, and is not brought back.
LEMMA SameTenants ==
  ASSUME Inv, NEW t \in Tenants, NEW row \in TenantRows,
         tenants' = [tenants EXCEPT ![t] = row],
         row.slug = tenants[t].slug, row.address = tenants[t].address,
         row.logo = tenants[t].logo, tenants[t].deleted => row.deleted,
         UNCHANGED <<people, branches, files, uploads, spoiled, named, addresses, workload,
                     faults>>,
         \A x \in Requests :
           /\ req'[x].logo \in {0, req[x].logo}
           /\ \A y : Editing(req[x], y) => Editing(req'[x], y)
  PROVE  Typed' /\ Grows /\ PlacesOK' /\ LogosOK'
<1>1. Typed /\ PlacesOK /\ LogosOK
  BY DEF Inv
<1>2. /\ tenants' \in Seq(TenantRows)
      /\ Tenants' = Tenants /\ DOMAIN tenants' = DOMAIN tenants
      /\ \A x \in Tenants : tenants'[x] = IF x = t THEN row ELSE tenants[x]
  BY <1>1, TenantChanges
<1>3. Typed' /\ Grows
  BY <1>1, <1>2, NothingGrows DEF Typed, people
<1>4. \A x \in Tenants :
        /\ tenants'[x].slug = tenants[x].slug /\ tenants'[x].address = tenants[x].address
        /\ tenants'[x].logo = tenants[x].logo /\ (tenants[x].deleted => tenants'[x].deleted)
  BY <1>2
<1>5. PlacesOK'
  BY <1>1, <1>2, <1>4 DEF PlacesOK, TenantsUnique
<1>6. LogosOK'
  BY <1>1, <1>2, <1>4, SameLogos
<1>7. QED
  BY <1>3, <1>5, <1>6

\* A handler of tenants or branches that is at no logo ends.
LEMMA EndsQuietly ==
  ASSUME Inv, NEW r \in Requests, End(r), \A y : ~Editing(req[r], y)
  PROVE  \A x \in Requests :
           /\ req'[x].logo \in {0, req[x].logo}
           /\ \A y : Editing(req[x], y) => Editing(req'[x], y)
<1>1. req \in [Requests -> Slot]
  BY DEF Inv, SlotsOK
<1>2. \A x \in Requests : x # r => req'[x] = req[x]
  BY <1>1 DEF End
<1>3. req'[r].logo = 0
  BY <1>1, IdleOK DEF End, Inv
<1>4. QED
  BY <1>2, <1>3

LEMMA ToggleHolds == ASSUME Inv, NEW r \in Requests, Toggle(r) PROVE Inv'
<1> USE DEF Toggle
<1>1. ~Pending(req[r]) /\ req[r] \in Slot /\ SlotOK(req[r]) /\ Typed
  BY QuietSlot
<1> DEFINE t == req[r].tenant
           row == [tenants[t] EXCEPT !.status = req[r].status]
<1>2. t \in Tenants /\ \A y : ~Editing(req[r], y)
  BY <1>1 DEF SlotOK, PlaceSlot, Editing
<1>3. CASE UNCHANGED tenants
  <2>1. faults' \in 0..MaxFaults
    BY <1>1 DEF Typed
  <2>2. QED
    BY <1>1, <1>2, <1>3, <2>1, EndHolds DEF places
<1>4. CASE tenants' # tenants
  <2>1. tenants[t] \in TenantRows /\ req[r].status \in {"ACTIVE", "INACTIVE"}
    BY <1>1, <1>2, Numbers DEF Slot
  <2>2. tenants' = [tenants EXCEPT ![t] = row]
    BY <1>2, <1>4
  <2>3. row \in TenantRows
    <3>1. ASSUME NEW z \in TenantRows, NEW st \in {"ACTIVE", "INACTIVE"}
          PROVE  [z EXCEPT !.status = st] \in TenantRows
      BY DEF TenantRows
    <3>2. QED
      BY <2>1, <3>1
  <2>4. /\ row.slug = tenants[t].slug /\ row.address = tenants[t].address
        /\ row.logo = tenants[t].logo /\ row.deleted = tenants[t].deleted
    BY <2>1 DEF TenantRows
  <2> HIDE DEF row
  <2>5. Typed' /\ Grows /\ PlacesOK' /\ LogosOK'
    BY <1>2, <2>2, <2>3, <2>4, EndsQuietly, SameTenants
  <2>6. QED
    BY <1>1, <2>5, EndsPlaces
<1>5. QED
  BY <1>3, <1>4

\* A step with no slot that writes tenants or branches.
LEMMA DeletesPlace ==
  ASSUME Inv, Typed', Grows, PlacesOK', LogosOK', UNCHANGED <<people, addresses, req>>
  PROVE  Inv'
<1>1. Typed /\ SlotsOK
  BY DEF Inv
<1>2. SlotsOK'
  <2>1. ASSUME NEW x \in Requests PROVE SlotOK(req[x])'
    <3>1. PICK z \in Slot : z = req[x] /\ z = req'[x]
      BY <1>1 DEF SlotsOK
    <3>2. SlotOK(z)'
      BY <1>1, <3>1, SlotGrows DEF SlotsOK
    <3>3. QED
      BY <3>1, <3>2
  <2>2. QED
    BY <1>1, <2>1 DEF SlotsOK
<1>3. PeopleOK'
  BY SamePeople DEF Inv, Grows, Tenants
<1>4. CountsOK'
  BY DEF Inv, CountsOK, Rows, people
<1>5. QED
  BY <1>2, <1>3, <1>4 DEF Inv

LEMMA DeleteTenantHolds == ASSUME Inv, NEW t \in Tenants, DeleteTenant(t) PROVE Inv'
<1> USE DEF DeleteTenant
<1> DEFINE row == [tenants[t] EXCEPT !.deleted = TRUE]
<1>1. tenants[t] \in TenantRows
  BY Numbers DEF Inv
<1>2. row \in TenantRows
  BY <1>1 DEF TenantRows
<1>3. /\ row.slug = tenants[t].slug /\ row.address = tenants[t].address
      /\ row.logo = tenants[t].logo /\ row.deleted
  BY <1>1 DEF TenantRows
<1>4. tenants' = [tenants EXCEPT ![t] = row] /\ req' = req
  OBVIOUS
<1> HIDE DEF row
<1>5. Typed' /\ Grows /\ PlacesOK' /\ LogosOK'
  BY <1>2, <1>3, <1>4, SameTenants
<1>6. QED
  BY <1>5, DeletesPlace

\* Branches change and nothing else of the places.
LEMMA SameButBranches ==
  ASSUME Inv, branches' \in Seq(BranchRows), DOMAIN branches \subseteq DOMAIN branches',
         \A b \in DOMAIN branches' : branches'[b].address \in 1..addresses,
         UNCHANGED <<people, tenants, files, uploads, spoiled, named, addresses, workload,
                     faults>>,
         \A x \in Requests :
           /\ req'[x].logo \in {0, req[x].logo}
           /\ \A y : Editing(req[x], y) => Editing(req'[x], y)
  PROVE  Typed' /\ Grows /\ PlacesOK' /\ LogosOK'
<1>1. Typed /\ PlacesOK /\ LogosOK /\ Tenants' = Tenants
  BY DEF Inv, Tenants
<1>2. Typed'
  BY <1>1 DEF Typed, people
<1>3. Grows
  <2>1. /\ addresses \in Nat /\ uploads \in Nat
        /\ \A u \in DOMAIN users : users[u].addresses \in Nat
    BY <1>1, Numbers
  <2>2. QED
    BY <2>1 DEF Grows, people
<1>4. PlacesOK'
  BY <1>1 DEF PlacesOK, TenantsUnique
<1>5. LogosOK'
  BY <1>1, SameLogos
<1>6. QED
  BY <1>2, <1>3, <1>4, <1>5

LEMMA WriteBranchHolds == ASSUME Inv, NEW r \in Requests, WriteBranch(r) PROVE Inv'
<1> USE DEF WriteBranch
<1>1. ~Pending(req[r]) /\ req[r] \in Slot /\ SlotOK(req[r]) /\ Typed
  BY QuietSlot
<1> DEFINE b == req[r].branch
           a == req[r].address
<1>2. /\ b \in DOMAIN branches \cup {0} /\ (b = 0 => a # Unset) /\ a # New
      /\ a \in Unset..addresses /\ addresses \in Nat
      /\ \A y : ~Editing(req[r], y)
      /\ req[r].tenant \in Nat
  BY <1>1 DEF SlotOK, PlaceSlot, Editing, Typed, Slot
<1>3. a = Unset \/ a \in 1..addresses
  BY <1>2 DEF Unset, New
<1>4. /\ branches \in Seq(BranchRows)
      /\ \A x \in DOMAIN branches : /\ branches[x] \in BranchRows
                                    /\ branches[x].address \in 1..addresses
  BY <1>1, Numbers DEF Typed, Inv, PlacesOK
<1>5. /\ branches' \in Seq(BranchRows) /\ DOMAIN branches \subseteq DOMAIN branches'
      /\ \A x \in DOMAIN branches' : branches'[x].address \in 1..addresses
  <2>1. CASE b = 0
    <3> DEFINE row == BranchRow(req[r].tenant, a)
    <3>1. row \in BranchRows /\ row.address \in 1..addresses
      BY <1>2, <1>3, <2>1 DEF BranchRow, BranchRows
    <3>2. branches' = Append(branches, row)
      BY <2>1
    <3> HIDE DEF row
    <3>3. /\ Append(branches, row) \in Seq(BranchRows)
          /\ Len(Append(branches, row)) = Len(branches) + 1 /\ Len(branches) \in Nat
          /\ \A x \in 1..Len(branches) : Append(branches, row)[x] = branches[x]
          /\ Append(branches, row)[Len(branches) + 1] = row
      BY <1>4, <3>1, AppendProperties
    <3>4. \A x \in 1..(Len(branches) + 1) : x \in 1..Len(branches) \/ x = Len(branches) + 1
      BY <3>3
    <3>5. DOMAIN branches = 1..Len(branches) /\ DOMAIN branches' = 1..(Len(branches) + 1)
      BY <1>4, <3>2, <3>3
    <3>6. ASSUME NEW x \in DOMAIN branches' PROVE branches'[x].address \in 1..addresses
      <4>1. CASE x \in DOMAIN branches
        <5>1. branches'[x] = branches[x]
          BY <3>2, <3>3, <3>5, <4>1
        <5>2. QED
          BY <1>4, <4>1, <5>1
      <4>2. CASE x = Len(branches) + 1
        BY <3>1, <3>2, <3>3, <4>2
      <4>3. QED
        BY <3>4, <3>5, <4>1, <4>2
    <3>7. branches' \in Seq(BranchRows)
      BY <3>2, <3>3
    <3>8. DOMAIN branches \subseteq DOMAIN branches'
      BY <3>3, <3>5
    <3>9. QED
      BY <3>6, <3>7, <3>8
  <2>2. CASE b # 0 /\ branches[b].deleted
    BY <1>4, <2>2
  <2>3. CASE b # 0 /\ ~branches[b].deleted
    <3> DEFINE na == IF a = Unset THEN branches[b].address ELSE a
               row == [branches[b] EXCEPT !.tenant = req[r].tenant, !.address = na]
    <3>1. branches[b] \in BranchRows /\ na \in 1..addresses /\ b \in DOMAIN branches
      BY <1>2, <1>3, <1>4, <2>3
    <3>2. branches' = [branches EXCEPT ![b] = row]
      BY <2>3, <3>1
    <3> HIDE DEF na, a
    <3>3. na \in Nat
      BY <1>2, <3>1
    <3>4. row \in BranchRows /\ row.address = na
      <4>1. ASSUME NEW z \in BranchRows, NEW n \in Nat, NEW x \in Nat
            PROVE  [z EXCEPT !.tenant = x, !.address = n] \in BranchRows
        BY DEF BranchRows
      <4>2. row \in BranchRows
        BY <1>2, <3>1, <3>3, <4>1
      <4>3. QED
        BY <3>1, <4>2 DEF BranchRows
    <3> HIDE DEF row, b
    <3>5. /\ branches' \in Seq(BranchRows) /\ DOMAIN branches' = DOMAIN branches
          /\ \A x \in DOMAIN branches : branches'[x] = IF x = b THEN row ELSE branches[x]
      BY <1>1, <3>1, <3>2, <3>4, BranchChanges
    <3>6. QED
      BY <1>4, <3>1, <3>4, <3>5
  <2>4. QED
    BY <2>1, <2>2, <2>3
<1>6. Typed' /\ Grows /\ PlacesOK' /\ LogosOK'
  BY <1>2, <1>5, EndsQuietly, SameButBranches
<1>7. QED
  BY <1>1, <1>6, EndsPlaces

LEMMA DeleteBranchHolds == ASSUME Inv, NEW b \in DOMAIN branches, DeleteBranch(b) PROVE Inv'
<1> USE DEF DeleteBranch
<1> DEFINE row == [branches[b] EXCEPT !.deleted = TRUE]
<1>1. Typed /\ \A x \in DOMAIN branches : branches[x].address \in 1..addresses
  BY DEF Inv, PlacesOK
<1>2. branches[b] \in BranchRows
  BY <1>1, Numbers
<1>3. row \in BranchRows
  BY <1>2 DEF BranchRows
<1>4. row.address = branches[b].address
  BY <1>2 DEF BranchRows
<1>5. branches' = [branches EXCEPT ![b] = row] /\ req' = req
  OBVIOUS
<1> HIDE DEF row
<1>6. /\ branches' \in Seq(BranchRows) /\ DOMAIN branches' = DOMAIN branches
      /\ \A x \in DOMAIN branches : branches'[x] = IF x = b THEN row ELSE branches[x]
  BY <1>1, <1>3, <1>5, BranchChanges
<1>7. \A x \in DOMAIN branches' : branches'[x].address \in 1..addresses
  BY <1>1, <1>4, <1>6
<1>8. Typed' /\ Grows /\ PlacesOK' /\ LogosOK'
  BY <1>5, <1>6, <1>7, SameButBranches
<1>9. QED
  BY <1>8, DeletesPlace

-----------------------------------------------------------------------------
(* All steps.                                                              *)

LEMMA StepHolds == ASSUME Inv, NEW r \in Requests, Step(r) PROVE Inv'
BY CheckEmailHolds, FindRoleHolds, CreateRoleHolds, InsertUserHolds, UpdateUserHolds,
   AddressRowHolds, AttachToUserHolds, CreatedHolds, NotCreatedHolds, SuccessHolds,
   CheckUniqueHolds, DropLogoHolds, UploadHolds, CreateAddressHolds, OwnAddressHolds,
   InsertTenantHolds, WriteTenantHolds, ToggleHolds, WriteBranchHolds DEF Step

LEMMA NextHolds == ASSUME Inv, [Next]_vars PROVE Inv'
<1>1. CASE Next
  BY <1>1, ArriveHolds, StepHolds, FailHolds, DeleteUserHolds, DeleteRoleHolds,
     DeleteTenantHolds, DeleteBranchHolds DEF Next
<1>2. CASE UNCHANGED vars
  <2>1. Typed' /\ PeopleOK'
    BY <1>2 DEF vars, Inv, Typed, PeopleOK, EmailsUnique, UsersKeepRole, Tenants
  <2>2. QED
    BY <1>2, <2>1, DeletesPerson DEF vars, places
<1>3. QED
  BY <1>1, <1>2

\* The inductive invariant.
THEOREM InvAlways == Spec => []Inv
<1>1. Init => Inv
  BY InitHolds
<1>2. Inv /\ [Next]_vars => Inv'
  BY NextHolds
<1>3. QED
  BY <1>1, <1>2, PTL DEF Spec

-----------------------------------------------------------------------------
(* What the runs check.                                                    *)

LEMMA CountFits == ASSUME Inv, NEW u \in DOMAIN users PROVE users[u].addresses \in 0..addresses
<1>1. /\ users[u].addresses \in Nat /\ addresses \in Nat
      /\ Cardinality(Rows(u)) \in Nat
      /\ users[u].addresses + Cardinality(Rows(u)) <= addresses
  BY Numbers, FS_CardinalityType DEF Inv, CountsOK
<1>2. QED
  BY <1>1

\* The constraints of the schema keep the rows of every table and those they name,
\* whatever requests do between looking and writing, and whichever of their
\* statements fail.
THEOREM RowsAreSoundAlways == Spec => []RowsAreSound
<1>1. Inv => RowsAreSound
  <2> SUFFICES ASSUME Inv PROVE RowsAreSound
    OBVIOUS
  <2>1. TypeOK
    BY CountFits DEF TypeOK, Inv, Typed, PeopleOK, PlacesOK
  <2>2. QED
    BY <2>1 DEF RowsAreSound, Inv, PeopleOK, PlacesOK
<1>2. QED
  BY <1>1, InvAlways, PTL

\* An answer of success comes only when each address of the request is counted in
\* the row of its user.
THEOREM SuccessMeansAddressesAlways == Spec => []SuccessMeansAddresses
<1>1. Inv => SuccessMeansAddresses
  <2> SUFFICES ASSUME Inv, NEW r \in Requests, req[r].pc = "done"
               PROVE  users[req[r].user].addresses >= Len(req[r].todo)
    BY DEF SuccessMeansAddresses
  <2>1. /\ req[r].todo \in Seq(Progress) /\ AllAttached(req[r].todo)
        /\ Cardinality(Attached(req[r].todo)) <= users[req[r].user].addresses
        /\ req[r].user \in DOMAIN users
    BY DEF Inv, SlotsOK, Slot, SlotOK, TodoSlot, UserSlot
  <2>2. Attached(req[r].todo) = DOMAIN req[r].todo
    BY <2>1 DEF Attached, AllAttached
  <2>3. Cardinality(Attached(req[r].todo)) = Len(req[r].todo)
    BY <2>1, <2>2, AttachedFinite
  <2>4. users[req[r].user].addresses \in Nat /\ Len(req[r].todo) \in Nat
    BY <2>1, Numbers DEF Inv
  <2>5. QED
    BY <2>1, <2>3, <2>4
<1>2. QED
  BY <1>1, InvAlways, PTL

\* However many updates of however many tenants overlap, no logo of a living tenant
\* is lost but by an update that ended between its file and its row.
THEOREM LogoExistsAlways == Spec => []LogoExists
<1>1. Inv => LogoExists
  BY DEF Inv, LogosOK, LogoThere, LogoExists, Editing
<1>2. QED
  BY <1>1, InvAlways, PTL
-----------------------------------------------------------------------------
(* What the permission rows grant.  This takes nothing from the steps: it   *)
(* holds of any rows of a role and of a membership.                         *)

\* An action a row of the membership takes away is in none of the two lists that
\* canActivate looks into.
LEMMA OverriddenDenies ==
  ASSUME NEW current, NEW up, NEW a \in up.denied \ {ALL}, ALL \notin up.allowed
  PROVE  {ALL, a} \cap Overridden(current, up) = {}
BY PermissionsAssumption DEF PermissionsAssumption, Overridden

\* A row adds only what it allows.
LEMMA OverriddenAllows ==
  ASSUME NEW current, NEW up, NEW a \in Actions, {ALL, a} \cap Overridden(current, up) # {}
  PROVE  {a, ALL} \cap current # {} \/ {a, ALL} \cap up.allowed # {}
BY PermissionsAssumption DEF PermissionsAssumption, Overridden

\* The answer of the guard, for any rows.
LEMMA GuardDenies ==
  ASSUME NEW name, NEW role, NEW rows, NEW e \in DOMAIN rows, NEW a \in rows[e].denied \ {ALL},
         ALL \notin rows[e].allowed
  PROVE  ~canActivate(name, mergePermissions(role, rows), e, a)
<1> DEFINE merged == mergePermissions(role, rows)
<1>1. e \in DOMAIN merged /\ merged[e] = Overridden(Row(role, e), rows[e])
  BY DEF mergePermissions
<1>2. {ALL, a} \cap merged[e] = {}
  BY <1>1, OverriddenDenies
<1> HIDE DEF merged
<1>3. ~canActivate(name, merged, e, a)
  BY <1>1, <1>2 DEF canActivate, OwnEntity
<1>4. QED
  BY <1>3 DEF merged

LEMMA GuardAllows ==
  ASSUME NEW name, NEW role, NEW rows, NEW e \in Entities, NEW a \in Actions,
         canActivate(name, mergePermissions(role, rows), e, a)
  PROVE  \/ DOMAIN role \cup DOMAIN rows = {}
         \/ {a, ALL} \cap Row(role, e) # {}
         \/ e \in DOMAIN rows /\ {a, ALL} \cap rows[e].allowed # {}
<1> DEFINE merged == mergePermissions(role, rows)
<1>1. DOMAIN merged = DOMAIN role \cup DOMAIN rows
  BY DEF mergePermissions
<1>2. ASSUME e \in DOMAIN rows PROVE merged[e] = Overridden(Row(role, e), rows[e])
  BY <1>2 DEF mergePermissions
<1>3. ASSUME e \in DOMAIN role, e \notin DOMAIN rows PROVE merged[e] = Row(role, e)
  BY <1>3 DEF mergePermissions, Row
<1> HIDE DEF merged
<1>4. DOMAIN merged = {} \/ (e \in DOMAIN merged /\ {ALL, a} \cap merged[e] # {})
  BY DEF canActivate, OwnEntity, merged
<1>5. CASE e \in DOMAIN rows
  BY <1>1, <1>2, <1>4, <1>5, OverriddenAllows
<1>6. CASE e \notin DOMAIN rows
  BY <1>1, <1>3, <1>4, <1>6
<1>7. QED
  BY <1>5, <1>6

\* What a membership denies is refused, and what is granted is in a row: for any
\* entities, actions, roles and memberships.
THEOREM RowsDecideAlways == Spec => []RowsDecide
<1>1. DeniedIsRefused
  BY GuardDenies DEF DeniedIsRefused, Granted
<1>2. GrantedIsAllowed
  BY GuardAllows DEF GrantedIsAllowed, Granted
<1>3. RowsDecide
  BY <1>1, <1>2 DEF RowsDecide
<1>4. QED
  BY <1>3, PTL
=============================================================================
