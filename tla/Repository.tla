----------------------------- MODULE Repository -----------------------------
(***************************************************************************)
(* BaseRepository over one table: src/shared/factory/base.repository.ts,    *)
(* the pool of connections its statements share, and the clients that walk  *)
(* through the pages of a list.                                             *)
(*                                                                         *)
(* executeWrite opens a transaction and calls a function that does not use  *)
(* it: the statement of the function needs a second connection, and what it *)
(* writes stays when the transaction ends otherwise.                        *)
(***************************************************************************)
EXTENDS ListQuery

CONSTANTS
  Ids,
  Tenants,
  InitialRows,       \* a function from some of the Ids to rows
  Writers,           \* requests that write
  PoolSize,
  Workloads,         \* what may come together: [calls, queries,
                     \* slots], the last the writes in flight at a time
  MaxWrites,         \* bound: writes begun
  MaxWalks           \* bound: walks begun

CallNames == {"create", "createMany", "update", "updateMany", "upsert", "delete",
              "deleteMany", "restore"}

\* Rows are keyed by their id and have a tenant; a body names finitely many.
ASSUME RepositoryAssumption ==
  /\ DOMAIN InitialRows \subseteq Ids /\ IsFiniteSet(DOMAIN InitialRows)
  /\ \A id \in DOMAIN InitialRows :
       /\ {"id", "createdAt", "deletedAt", "tenantId", "name"} \subseteq DOMAIN InitialRows[id]
       /\ InitialRows[id].id = id /\ InitialRows[id].tenantId \in Tenants
       /\ InitialRows[id].createdAt \in Nat
  /\ \A w \in Workloads :
       /\ \A c \in w.calls :
            c.name \in CallNames /\ c.ids \subseteq Ids /\ IsFiniteSet(c.ids)
       /\ \A q \in w.queries : q.limit \in Nat
  /\ {PoolSize, MaxWrites, MaxWalks} \subseteq Nat
  /\ PoolSize > 0

VARIABLES
  table,
  free,              \* connections in the pool
  op,                \* the writes in flight
  walk,              \* the client that reads the list
  workload,          \* chosen once
  writes, walks      \* how many have begun

vars == <<table, free, op, walk, workload, writes, walks>>

Idle == [pc |-> "idle", call |-> Null, tx |-> FALSE, expired |-> FALSE,
         error |-> "none", wrote |-> FALSE, status |-> 0]
\* first: the rows when the walk began; moved, grown: rows of the list have
\* left or come back, have been added since; late: something changed between
\* a total and its page.
Rest == [pc |-> "idle", query |-> Null, page |-> 1, at |-> Null, seen |-> <<>>,
         first |-> {}, moved |-> FALSE, grown |-> FALSE, late |-> FALSE]

Init ==
  /\ table = InitialRows
  /\ free = PoolSize
  /\ op = [w \in Writers |-> Idle]
  /\ walk = Rest
  /\ workload \in Workloads
  /\ writes = 0
  /\ walks = 0

Exact(values) == [op |-> "is", values |-> values]
applySoftDelete(where) ==
  deepMerge(where, [k \in {"deletedAt"} |-> Exact({[type |-> "date", v |-> Null]})])

Find(where) == {id \in DOMAIN table : Matches(table[id], where, {})}
Living(ids) == Find(applySoftDelete([k \in {"id"} |->
                 Exact({[type |-> "string", v |-> id] : id \in ids})]))

-----------------------------------------------------------------------------
(* The rows after a statement, for each of the calls.  A call is            *)
(* [name, ids, tenant, title, role].                                              *)

Stamp == Max({0} \cup {table[id].createdAt : id \in DOMAIN table}) + 1

Fresh(call, id) ==
  [id |-> id, createdAt |-> Stamp, deletedAt |-> Null, tenantId |-> call.tenant,
   name |-> call.title, role |-> call.role]

\* The unique column of the table, deleted rows included.
Taken(call) ==
  call.title # Null
  /\ (Cardinality(call.ids) > 1
      \/ \E id \in DOMAIN table \ call.ids : table[id].name = call.title)

create(call) ==
  [x \in DOMAIN table \cup call.ids |-> IF x \in DOMAIN table THEN table[x] ELSE Fresh(call, x)]
With(ids, field, value) ==
  [x \in DOMAIN table |-> IF x \in ids THEN [table[x] EXCEPT ![field] = value] ELSE table[x]]
update(call, ids) == IF call.title = Null THEN table ELSE With(ids, "name", call.title)
delete(ids) == With(ids, "deletedAt", Stamp)
restore(ids) == With(ids, "deletedAt", Null)

Deleted(ids) == {id \in ids \cap DOMAIN table : table[id].deletedAt # Null}

\* The rows a call is about; for one row they have to be there.
Target(call) ==
  CASE call.name \in {"update", "delete", "updateMany", "deleteMany"} -> Living(call.ids)
    [] call.name = "restore" -> Deleted(call.ids)
    [] call.name = "upsert" -> call.ids \cap DOMAIN table
    [] call.name \in {"create", "createMany"} -> {}

Missing(call) == call.name \in {"update", "delete", "restore"} /\ Target(call) = {}
Inserts(call) ==
  \/ call.name \in {"create", "createMany"}
  \/ call.name = "upsert" /\ Target(call) = {}
Duplicate(call) ==
  \/ call.name \in {"create", "createMany"} /\ call.ids \cap DOMAIN table # {}
  \/ call.name \notin {"delete", "deleteMany", "restore"} /\ Taken(call)
Error(call) ==
  IF Missing(call) THEN "P2025"
  ELSE IF Duplicate(call) THEN "P2002"
  ELSE IF Inserts(call) /\ call.tenant \notin Tenants THEN "P2003" ELSE "none"

Result(call) ==
  CASE Inserts(call) -> create(call)
    [] ~Inserts(call) /\ call.name \in {"update", "updateMany", "upsert"} -> update(call, Target(call))
    [] call.name \in {"delete", "deleteMany"} -> delete(Target(call))
    [] call.name = "restore" -> restore(Target(call))

-----------------------------------------------------------------------------
(* A write.                                                                *)

\* Every error of executeWrite is one of a transaction.
AllNotFound(error) == IF error = "P2002" THEN 409 ELSE 404
\* The answers of handleError, which HttpExceptionFilter passes on.
handleError(error) ==
  CASE error = "P2025" -> 404
    [] error = "P2002" -> 409
    [] error = "P2003" -> 400
    [] OTHER -> 500

Elsewhere == UNCHANGED <<workload, writes, walks>>

Begin(w, call) ==
  /\ op[w].pc \in {"idle", "done"} /\ writes < MaxWrites
  /\ Cardinality({v \in Writers : op[v].pc \notin {"idle", "done"}}) < workload.slots
  /\ writes' = writes + 1
  /\ op' = [op EXCEPT ![w] = [Idle EXCEPT !.pc = "begin", !.call = call]]
  /\ UNCHANGED <<table, free, walk, workload, walks>>

OpenTransaction(w) ==
  /\ op[w].pc = "begin"
  /\ free > 0 /\ free' = free - 1
  /\ op' = [op EXCEPT ![w].pc = "statement", ![w].tx = TRUE]
  /\ UNCHANGED <<table, walk>> /\ Elsewhere

\* What the walk has to know of a change of the list it reads.
Watched(w2) ==
  LET gone == {id \in DOMAIN table : table[id] # w2[id]} IN
  IF walk.pc \notin {"count", "page"} \/ w2 = table THEN walk
  ELSE [walk EXCEPT !.moved = @ \/ gone # {},
                    !.grown = @ \/ DOMAIN w2 # DOMAIN table,
                    !.late = @ \/ walk.pc = "page"]

\* On a connection of its own, for as long as it takes.
Statement(w) ==
  /\ op[w].pc = "statement"
  /\ free > 0
  /\ LET call == op[w].call IN
     IF Error(call) = "none"
     THEN /\ table' = Result(call)
          /\ walk' = Watched(Result(call))
          /\ op' = [op EXCEPT ![w].wrote = TRUE,
               ![w].pc = IF call.name \in {"updateMany", "createMany"} THEN "select"
                         ELSE "end"]
     ELSE /\ op' = [op EXCEPT ![w].error = Error(call), ![w].pc = "end"]
          /\ UNCHANGED <<table, walk>>
  /\ UNCHANGED free /\ Elsewhere

\* The rows the answer shows, on a connection of its own again.
Select(w) ==
  /\ op[w].pc = "select"
  /\ free > 0
  /\ op' = [op EXCEPT ![w].pc = "end"]
  /\ UNCHANGED <<table, free, walk>> /\ Elsewhere

\* maxWait of the transaction, and the timeout of the pool for a statement.
OnlyToOpen(w) ==
  /\ op[w].pc = "begin"
  /\ op' = [op EXCEPT ![w].error = "P2028", ![w].pc = "end"]
  /\ UNCHANGED <<table, free, walk>> /\ Elsewhere

GiveUp(w) ==
  /\ op[w].pc \in {"begin", "statement", "select"}
  /\ op' = [op EXCEPT ![w].error = IF op[w].pc = "begin" THEN "P2028" ELSE "P2024",
                      ![w].pc = "end"]
  /\ UNCHANGED <<table, free, walk>> /\ Elsewhere

Expire(w) ==
  /\ op[w].tx
  /\ op' = [op EXCEPT ![w].tx = FALSE, ![w].expired = TRUE]
  /\ free' = free + 1
  /\ UNCHANGED <<table, walk>> /\ Elsewhere

\* Commit or roll back, and the answer.
End(w) ==
  /\ op[w].pc = "end"
  /\ LET error == IF op[w].error = "none" /\ op[w].expired THEN "P2028" ELSE op[w].error
     IN op' = [op EXCEPT ![w].pc = "done", ![w].tx = FALSE,
                         ![w].status = IF error = "none" THEN 200 ELSE handleError(error)]
  /\ free' = IF op[w].tx THEN free + 1 ELSE free
  /\ UNCHANGED <<table, walk>> /\ Elsewhere

-----------------------------------------------------------------------------
(* A walk: findAll with a query, then with its nextPage until there is      *)
(* none.  query is [filters, words, sort, limit, tenant].  Which fields of *)
(* a row the answer shows is left out: seen are the rows.                  *)

mergeFilter(q) ==
  deepMerge(filter(q.filters),
    applySoftDelete([k \in {"tenantId"} |-> Exact({[type |-> "string", v |-> q.tenant]})]))

List(q) == {id \in DOMAIN table : Matches(table[id], mergeFilter(q), q.words)}

\* What nobody answers: 500, also where the parser says 400.
Refused(q) ==
  \/ FilterInvalid(q.filters)
  \/ ~WellTyped(mergeFilter(q))
  \/ \E p \in search(q.words) : ~WellTyped([k \in {p[1]} |-> Alternative(p[1], p[2])])

BeginWalk(q) ==
  /\ walk.pc = "idle" /\ walks < MaxWalks
  /\ walks' = walks + 1
  /\ walk' = IF Refused(q) THEN [Rest EXCEPT !.pc = "refused", !.query = q]
             ELSE [Rest EXCEPT !.pc = "count", !.query = q, !.first = List(q)]
  /\ UNCHANGED <<table, free, op, workload, writes>>

calculateTotal ==
  /\ walk.pc = "count" /\ free > 0
  /\ walk' = [walk EXCEPT !.pc = "page",
       !.at = paginate(Cardinality(List(walk.query)), walk.page, walk.query.limit)]
  /\ UNCHANGED <<table, free, op>> /\ Elsewhere

findMany ==
  /\ walk.pc = "page" /\ free > 0
  /\ \E s \in Pages(table, List(walk.query), sort(walk.query), walk.at.skip, walk.at.limit) :
       walk' = [walk EXCEPT !.seen = @ \o s,
         !.pc = IF walk.at.hasNext THEN "count" ELSE "done",
                     !.page = IF walk.at.hasNext THEN walk.at.nextPage ELSE @]
  /\ UNCHANGED <<table, free, op>> /\ Elsewhere

\* The pool has no connection in time, or the client goes away.
Abandon ==
  /\ walk.pc # "idle"
  /\ walk' = Rest
  /\ UNCHANGED <<table, free, op>> /\ Elsewhere

-----------------------------------------------------------------------------
Write(w) ==
  OpenTransaction(w) \/ Statement(w) \/ Select(w) \/ GiveUp(w) \/ Expire(w) \/ End(w)

Next ==
  \/ \E w \in Writers : Write(w)
  \/ \E w \in Writers, call \in workload.calls : Begin(w, call)
  \/ \E q \in workload.queries : BeginWalk(q)
  \/ calculateTotal \/ findMany \/ Abandon

Spec == Init /\ [][Next]_vars

\* Timers fire, and the code goes on when it can.
FairSpec ==
  Spec /\ \A w \in Writers :
    WF_vars(OpenTransaction(w) \/ Statement(w) \/ Select(w) \/ End(w)) /\ WF_vars(GiveUp(w))

-----------------------------------------------------------------------------
(* Properties.                                                             *)

TypeOK ==
  /\ \A id \in DOMAIN table : id \in Ids /\ table[id].id = id /\ table[id].tenantId \in Tenants
  /\ free \in 0..PoolSize
  /\ \A w \in Writers : op[w].status \in {0, 200, 400, 404, 409, 500}
  /\ walk.first \subseteq DOMAIN table
  /\ \A i \in DOMAIN walk.seen : walk.seen[i] \in DOMAIN table
  /\ writes \in 0..MaxWrites /\ walks \in 0..MaxWalks

\* Every connection is in the pool or held by one transaction, whichever of
\* commit, error and the two timeouts came first.
PoolAccounted == free + Cardinality({w \in Writers : op[w].tx}) = PoolSize

\* A success has been written, and an answer that names a reason has not; only
\* a 500 leaves it open, since a statement outlives its transaction.
AnswersAreTrue ==
  \A w \in Writers : op[w].pc = "done" =>
    /\ op[w].status = 200 => op[w].wrote
    /\ op[w].status \in {400, 404, 409} => ~op[w].wrote

\* Whatever ends a write, its connection returns and its answer is true.
WritesHold == TypeOK /\ PoolAccounted /\ AnswersAreTrue

\* What a list shows is living and of its tenant when it is read, whatever the
\* query string asks for.
ScopeHolds ==
  [][\A i \in (Len(walk.seen) + 1)..Len(walk'.seen) :
       LET row == table[walk'.seen[i]] IN
       row.deletedAt = Null /\ row.tenantId = walk.query.tenant]_vars

Distinct == \A a, b \in DOMAIN table : table[a].createdAt = table[b].createdAt => a = b

\* A walk shows each row once when nothing changes meanwhile.
WalkExact ==
  walk.pc = "done" /\ ~walk.moved /\ ~walk.grown /\ walk.query.sort = <<>> /\ Distinct =>
    IsInjective(walk.seen) /\ ToSet(walk.seen) = walk.first

\* A walk misses no row when rows are only added, none of them between a total
\* and its page; it may repeat some.
NothingSkipped ==
  walk.pc = "done" /\ ~walk.moved /\ ~walk.late /\ walk.query.sort = <<>> /\ Distinct =>
    walk.first \subseteq ToSet(walk.seen)

\* What a client may conclude from the pages it was given.
WalkHolds == WalkExact /\ NothingSkipped

\* Every write is answered, also when every connection is held by a transaction
\* whose statement waits for one.
EveryWriteEnds ==
  \A w \in Writers : op[w].pc = "begin" ~> op[w].pc = "done"
=============================================================================
