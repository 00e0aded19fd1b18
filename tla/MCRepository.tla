---------------------------- MODULE MCRepository ----------------------------
(* An instance of Repository for TLC.                                       *)
EXTENDS Repository

CONSTANTS w1, w2

Columns ==
  [id |-> "string", createdAt |-> "date", deletedAt |-> "date", tenantId |-> "string",
   name |-> "string", role |-> "string"]
Names ==
  [id |-> "id", createdAt |-> "At", deletedAt |-> "At", tenantId |-> "id", name |-> "other",
   role |-> "other"]
NameAndRole == {"name", "role"}
Roles == [f \in {"role"} |-> {7, 8}]
TwoWriters == {w1, w2}
SixIds == 1..6
TwoTenants == {1, 2}

OneOf(id, deleted, t, name) ==
  [id |-> id, createdAt |-> id, deletedAt |-> deleted, tenantId |-> t, name |-> name,
   role |-> 7]
\* Two living rows of a tenant, a deleted one, and one of another tenant.
FourRows == <<OneOf(1, Null, 1, 1), OneOf(2, Null, 1, 2), OneOf(3, 9, 1, 3),
              OneOf(4, Null, 2, 4)>>

Call(name, ids, t, title) == 
  [name |-> name, ids |-> ids, tenant |-> t, title |-> title, role |-> 8]
OneRow ==
  {Call("create", {5}, 1, 5), Call("create", {5}, 1, 1), Call("create", {5}, 3, 5),
   Call("update", {1}, 1, 2), Call("update", {1}, 1, 6), Call("update", {3}, 1, 6),
   Call("delete", {1}, 1, Null), Call("restore", {3}, 1, Null)}
ManyRows ==
  {Call("createMany", {5, 6}, 1, Null), Call("updateMany", {3}, 1, 7),
   Call("updateMany", {1}, 1, 7), Call("deleteMany", {1, 3}, 1, Null)}
  \cup {Call("upsert", {id}, 1, 7) : id \in {3, 5}}

Text(looks, v) == [looks |-> looks, v |-> v]
Raw(form, texts) == [form |-> form, texts |-> texts]
Query(filters, words, limit) ==
  [filters |-> filters, words |-> words, sort |-> <<>>, limit |-> limit,
   tenant |-> 1]
NoFilters == [k \in {} |-> Null]
On(key, raw) == [k \in {key} |-> raw]
Plain == Query(NoFilters, {}, 1)
\* One filter of each form, a search, an order that ties.
Queries ==
  {Query(On(k, Raw(form, texts)), {}, 0) :
     k \in {"tenantId", "name"}, form \in {"plain", "equal", "not", "list", "match"},
     texts \in {{Text("text", 2)}, {Text("boolean", 1)}, {Text("text", 1)}}}
  \cup {Query(On("deletedAt", Raw(form, {text})), {}, 2) :
          form \in {"plain", "not", "above"}, text \in {Text("date", 1), Text("text", 1)}}
  \cup {Query(On("name", Raw("list", {})), {Text("text", 1), Text("text", 3)}, 1),
        Query(NoFilters, {Text("text", 7), Text("boolean", 9)}, 1),
        [Plain EXCEPT !.sort = <<[field |-> "tenantId", desc |-> FALSE]>>],
        [Plain EXCEPT !.sort = <<[field |-> "name", desc |-> TRUE]>>]}

Only(calls, queries, slots) == [calls |-> calls, queries |-> queries, slots |-> slots]
\* Writes for the pool; writes of many rows; a walk while rows come and go; all
\* queries.
SomeWorkloads ==
  {Only(OneRow, {}, 2), Only(ManyRows, {}, 2), Only({}, Queries, 0),
   Only({Call("create", {5}, 1, 5), Call("delete", {1}, 1, Null),
         Call("restore", {3}, 1, Null), Call("createMany", {5, 6}, 1, Null)}, {Plain}, 1)}
=============================================================================
