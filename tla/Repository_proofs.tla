-------------------------- MODULE Repository_proofs --------------------------
(***************************************************************************)
(* Theorems about Repository, for any columns, rows, pool, writers and      *)
(* workloads, and any number of writes and walks: where the connections     *)
(* are, what an answer says, what a list may show, and what a walk through  *)
(* its pages adds up to.                                                   *)
(***************************************************************************)
EXTENDS Repository, FiniteSetTheorems, SequenceTheorems, WellFoundedInduction, TLAPS

-----------------------------------------------------------------------------
(* Types.                                                                  *)

Calls == UNION {w.calls : w \in Workloads}
Queries == UNION {w.queries : w \in Workloads}
Codes == {"none", "P2025", "P2002", "P2003", "P2024", "P2028"}

Pcs == {"idle", "begin", "statement", "select", "end", "done"}
Statuses == {0, 200, 400, 404, 409, 500}

Ops == [pc : Pcs, call : Calls \cup {Null}, tx : BOOLEAN, expired : BOOLEAN, error : Codes,
        wrote : BOOLEAN, status : Statuses]

Ats == [totalRecords : Int, totalPages : Int, currentPage : Int, limit : Int, skip : Int,
        hasNext : BOOLEAN, nextPage : Int \cup {Null}]

Walks == [pc : {"idle", "refused", "count", "page", "done"}, query : Queries \cup {Null},
          page : Int, at : Ats \cup {Null}, seen : Seq(Ids), first : SUBSET Ids,
          moved : BOOLEAN, grown : BOOLEAN, late : BOOLEAN]

-----------------------------------------------------------------------------
(* The inductive invariant.                                                *)

RowOK(row, id) ==
  /\ {"id", "createdAt", "deletedAt", "tenantId", "name"} \subseteq DOMAIN row
  /\ row.id = id /\ row.tenantId \in Tenants /\ row.createdAt \in Nat

TableOK ==
  /\ IsFiniteSet(DOMAIN table)
  /\ \A id \in DOMAIN table : id \in Ids /\ RowOK(table[id], id)

\* Where a write stands: a transaction is open only between its opening and its
\* end, and a statement that failed has written nothing.
OpOK(o) ==
  /\ o.pc \in {"begin", "statement", "select"} => o.call \in Calls
  /\ o.pc \in {"begin", "statement"} => o.error = "none" /\ ~o.wrote
  /\ o.pc = "select" => o.error = "none" /\ o.wrote
  /\ o.pc = "end" => /\ o.error = "none" => o.wrote
                     /\ o.error \in {"P2025", "P2002", "P2003"} => ~o.wrote
  /\ o.pc = "done" => /\ o.status = 200 => o.wrote
                      /\ o.status \in {400, 404, 409} => ~o.wrote
  /\ o.tx => o.pc \in {"statement", "select", "end"}

OpsOK == op \in [Writers -> Ops] /\ \A w \in Writers : OpOK(op[w])

\* The writes that hold the connection of a transaction.
Holders == {w \in Writers : op[w].tx}

PoolOK ==
  /\ free \in Nat
  /\ IsFiniteSet(Holders)
  /\ free + Cardinality(Holders) = PoolSize

\* Rows stay in the table, so those a walk began with or has seen are there.
WalkOK ==
  /\ walk \in Walks
  /\ walk.first \subseteq DOMAIN table
  /\ \A i \in DOMAIN walk.seen : walk.seen[i] \in DOMAIN table
  /\ walk.pc \in {"count", "page"} => walk.query \in Queries
  /\ walk.pc = "page" => walk.at \in Ats /\ (walk.at.hasNext => walk.at.nextPage \in Int)

CountersOK ==
  workload \in Workloads /\ writes \in 0..MaxWrites /\ walks \in 0..MaxWalks

Inv == TableOK /\ OpsOK /\ PoolOK /\ WalkOK /\ CountersOK

LEMMA InitHolds == ASSUME Init PROVE Inv
<1> USE RepositoryAssumption DEF RepositoryAssumption, Init
<1>1. TableOK
  <2>1. ASSUME NEW id \in DOMAIN table PROVE id \in Ids /\ RowOK(table[id], id)
    BY DEF RowOK
  <2>2. QED
    BY <2>1 DEF TableOK
<1>2. OpsOK
  <2>1. Idle \in Ops
    BY DEF Idle, Ops, Codes, Pcs, Statuses
  <2>2. OpOK(Idle)
    BY DEF Idle, OpOK
  <2>3. QED
    BY <2>1, <2>2 DEF OpsOK
<1>3. PoolOK
  <2>1. Holders = {}
    BY DEF Holders, Idle
  <2>2. QED
    BY <2>1, FS_EmptySet DEF PoolOK
<1>4. WalkOK
  <2>1. Rest \in Walks
    BY DEF Rest, Walks
  <2>2. QED
    BY <2>1 DEF WalkOK, Rest
<1>5. CountersOK
  BY DEF CountersOK
<1>6. QED
  BY <1>1, <1>2, <1>3, <1>4, <1>5 DEF Inv

-----------------------------------------------------------------------------
(* The place of a row among others, newest first.                          *)

RowsOK(t) == IsFiniteSet(DOMAIN t) /\ \A id \in DOMAIN t : t[id].createdAt \in Nat

Newer(t, S, x) == {y \in S : t[y].createdAt > t[x].createdAt}
Rank(t, S, x) == Cardinality(Newer(t, S, x))

LEMMA TableIsOK == ASSUME TableOK PROVE RowsOK(table)
BY DEF TableOK, RowOK, RowsOK

LEMMA RankBounds ==
  ASSUME NEW t, RowsOK(t), NEW S, S \subseteq DOMAIN t, NEW x \in S
  PROVE  /\ IsFiniteSet(S) /\ Cardinality(S) \in Nat
         /\ IsFiniteSet(Newer(t, S, x))
         /\ Rank(t, S, x) \in Nat /\ Rank(t, S, x) < Cardinality(S)
<1>1. IsFiniteSet(S) /\ Cardinality(S) \in Nat
  BY FS_Subset, FS_CardinalityType DEF RowsOK
<1>2. t[x].createdAt \in Nat
  BY DEF RowsOK
<1>3. Newer(t, S, x) \subseteq S /\ x \notin Newer(t, S, x)
  BY <1>2 DEF Newer
<1>4. /\ IsFiniteSet(Newer(t, S, x)) /\ Rank(t, S, x) \in Nat
      /\ Rank(t, S, x) <= Cardinality(S)
      /\ Cardinality(S) = Rank(t, S, x) => S = Newer(t, S, x)
  BY <1>1, <1>3, FS_Subset, FS_CardinalityType DEF Rank
<1>5. QED
  BY <1>1, <1>3, <1>4

\* Whoever is newer has fewer rows before it.
LEMMA RankFollowsAge ==
  ASSUME NEW t, RowsOK(t), NEW S, S \subseteq DOMAIN t, NEW x \in S, NEW y \in S,
         t[y].createdAt > t[x].createdAt
  PROVE  Rank(t, S, y) < Rank(t, S, x)
<1>1. t[x].createdAt \in Nat /\ t[y].createdAt \in Nat /\ \A z \in S : t[z].createdAt \in Nat
  BY DEF RowsOK
<1>2. ASSUME NEW z \in Newer(t, S, y) PROVE z \in Newer(t, S, x)
  <2>1. z \in S /\ t[z].createdAt \in Nat /\ t[z].createdAt > t[y].createdAt
    BY <1>1 DEF Newer
  <2>2. t[z].createdAt > t[x].createdAt
    BY <1>1, <2>1
  <2>3. QED
    BY <2>1, <2>2 DEF Newer
<1>3. y \in Newer(t, S, x) /\ y \notin Newer(t, S, y)
  BY <1>1 DEF Newer
<1>4. IsFiniteSet(Newer(t, S, x)) /\ Rank(t, S, x) \in Nat /\ Rank(t, S, y) \in Nat
  BY RankBounds
<1>5. /\ Rank(t, S, y) <= Rank(t, S, x)
      /\ Rank(t, S, x) = Rank(t, S, y) => Newer(t, S, x) = Newer(t, S, y)
  BY <1>2, <1>4, FS_Subset DEF Rank
<1>6. QED
  BY <1>3, <1>4, <1>5

Below == {p \in Nat \X Nat : p[1] < p[2]}

\* A set of numbers that is not empty has a least one.
LEMMA LeastNumber ==
  ASSUME NEW T, T \subseteq Nat, T # {}
  PROVE  \E m \in T : \A n \in T : m <= n
<1>1. OpToRel(<, Nat) = Below
  BY DEF OpToRel, Below
<1>2. IsWellFoundedOn(Below, Nat)
  BY <1>1, NatLessThanWellFounded
<1>3. PICK x \in T : \A y \in T : ~ (<<y, x>> \in Below)
  BY <1>2, WFMin
<1>4. ASSUME NEW y \in T PROVE x <= y
  <2>1. <<y, x>> \in Nat \X Nat /\ <<y, x>>[1] = y /\ <<y, x>>[2] = x
    OBVIOUS
  <2>2. ~(y < x)
    BY <1>3, <2>1 DEF Below
  <2>3. QED
    BY <2>2
<1>5. QED
  BY <1>4

\* Some row is the newest: the one of the least rank.
LEMMA NewestExists ==
  ASSUME NEW t, RowsOK(t), DOMAIN t # {}
  PROVE  \E x \in DOMAIN t : \A y \in DOMAIN t : t[x].createdAt >= t[y].createdAt
<1> DEFINE T == {Rank(t, DOMAIN t, x) : x \in DOMAIN t}
<1>1. T \subseteq Nat /\ T # {}
  BY RankBounds
<1>2. PICK x \in DOMAIN t : \A y \in DOMAIN t : Rank(t, DOMAIN t, x) <= Rank(t, DOMAIN t, y)
  <2>1. PICK m \in T : \A n \in T : m <= n
    BY <1>1, LeastNumber
  <2>2. QED
    BY <2>1
<1>3. ASSUME NEW y \in DOMAIN t, ~(t[x].createdAt >= t[y].createdAt) PROVE FALSE
  <2>1. t[x].createdAt \in Nat /\ t[y].createdAt \in Nat
    BY DEF RowsOK
  <2>2. t[y].createdAt > t[x].createdAt
    BY <1>3, <2>1
  <2>3. Rank(t, DOMAIN t, y) < Rank(t, DOMAIN t, x)
    BY <2>2, RankFollowsAge
  <2>4. Rank(t, DOMAIN t, x) \in Nat /\ Rank(t, DOMAIN t, y) \in Nat
    BY RankBounds
  <2>5. QED
    BY <1>2, <2>3, <2>4
<1>4. QED
  BY <1>3

LEMMA StampIsNumber == ASSUME TableOK PROVE Stamp \in Nat
<1> DEFINE S == {0} \cup {table[id].createdAt : id \in DOMAIN table}
<1>1. \A id \in DOMAIN table : table[id].createdAt \in Nat
  BY DEF TableOK, RowOK
<1>2. \E x \in S : \A y \in S : x >= y
  <2>1. CASE DOMAIN table = {}
    BY <2>1
  <2>2. CASE DOMAIN table # {}
    <3>1. PICK id \in DOMAIN table :
            \A y \in DOMAIN table : table[id].createdAt >= table[y].createdAt
      BY <2>2, NewestExists, TableIsOK
    <3>2. table[id].createdAt \in S /\ table[id].createdAt >= 0
      BY <1>1
    <3>3. QED
      BY <3>1, <3>2
  <2>3. QED
    BY <2>1, <2>2
<1>3. Max(S) \in S
  BY <1>2 DEF Max
<1>4. QED
  BY <1>1, <1>3 DEF Stamp

-----------------------------------------------------------------------------
(* The operators of a statement.                                           *)

\* A row that is changed in a field that is neither its id nor its tenant.
LEMMA RowChanges ==
  ASSUME NEW row, NEW id, RowOK(row, id), NEW field \in {"name", "deletedAt"}, NEW value
  PROVE  /\ RowOK([row EXCEPT ![field] = value], id)
         /\ [row EXCEPT ![field] = value].createdAt = row.createdAt
BY DEF RowOK

LEMMA WithKeepsRows ==
  ASSUME TableOK, NEW ids, NEW field \in {"name", "deletedAt"}, NEW value
  PROVE  /\ DOMAIN With(ids, field, value) = DOMAIN table
         /\ \A id \in DOMAIN table :
              /\ RowOK(With(ids, field, value)[id], id)
              /\ With(ids, field, value)[id].createdAt = table[id].createdAt
<1>1. DOMAIN With(ids, field, value) = DOMAIN table
  BY DEF With
<1>2. ASSUME NEW id \in DOMAIN table
      PROVE  /\ RowOK(With(ids, field, value)[id], id)
             /\ With(ids, field, value)[id].createdAt = table[id].createdAt
  <2>1. RowOK(table[id], id)
    BY DEF TableOK
  <2>2. /\ RowOK([table[id] EXCEPT ![field] = value], id)
        /\ [table[id] EXCEPT ![field] = value].createdAt = table[id].createdAt
    BY <2>1, RowChanges
  <2>3. QED
    BY <2>1, <2>2 DEF With
<1>3. QED
  BY <1>1, <1>2

LEMMA FreshIsRow ==
  ASSUME TableOK, NEW c, NEW id, c.tenant \in Tenants
  PROVE  RowOK(Fresh(c, id), id)
BY StampIsNumber DEF RowOK, Fresh

\* What the statement of a call leaves behind: rows stay, and those that are new
\* are the call's.
LEMMA ResultHolds ==
  ASSUME TableOK, NEW c \in Calls, Error(c) = "none"
  PROVE  /\ DOMAIN table \subseteq DOMAIN Result(c)
         /\ IsFiniteSet(DOMAIN Result(c))
         /\ \A id \in DOMAIN Result(c) : id \in Ids /\ RowOK(Result(c)[id], id)
         /\ \A id \in DOMAIN table : Result(c)[id].createdAt = table[id].createdAt
<1>1. c.name \in CallNames /\ c.ids \subseteq Ids /\ IsFiniteSet(c.ids)
  BY RepositoryAssumption DEF RepositoryAssumption, Calls
<1>2. CASE Inserts(c)
  <2>1. c.tenant \in Tenants
    BY <1>2 DEF Error
  <2>2. Result(c) = create(c)
    BY <1>2 DEF Result, Inserts
  <2>3. DOMAIN create(c) = DOMAIN table \cup c.ids
    BY DEF create
  <2>4. ASSUME NEW id \in DOMAIN table \cup c.ids PROVE RowOK(create(c)[id], id)
    <3>1. RowOK(Fresh(c, id), id)
      BY <2>1, FreshIsRow
    <3>2. QED
      BY <3>1 DEF create, TableOK
  <2>5. IsFiniteSet(DOMAIN table \cup c.ids)
    BY <1>1, FS_Union DEF TableOK
  <2>6. \A id \in DOMAIN table : create(c)[id].createdAt = table[id].createdAt
    BY DEF create
  <2>7. QED
    BY <1>1, <2>2, <2>3, <2>4, <2>5, <2>6 DEF TableOK
<1>3. CASE ~Inserts(c)
  <2>1. \/ Result(c) = table
        \/ \E ids, value : \/ Result(c) = With(ids, "name", value)
                           \/ Result(c) = With(ids, "deletedAt", value)
    <3>1. c.name \in {"update", "updateMany", "upsert", "delete", "deleteMany", "restore"}
      BY <1>1, <1>3 DEF CallNames, Inserts
    <3>2. CASE c.name \in {"update", "updateMany", "upsert"}
      <4>1. Result(c) = update(c, Target(c))
        BY <1>3, <3>2 DEF Result
      <4>2. QED
        BY <4>1 DEF update
    <3>3. CASE c.name \in {"delete", "deleteMany"}
      <4>1. Result(c) = delete(Target(c))
        BY <1>3, <3>3 DEF Result
      <4>2. QED
        BY <4>1 DEF delete
    <3>4. CASE c.name = "restore"
      <4>1. Result(c) = restore(Target(c))
        BY <1>3, <3>4 DEF Result
      <4>2. QED
        BY <4>1 DEF restore
    <3>5. QED
      BY <3>1, <3>2, <3>3, <3>4
  <2>2. /\ DOMAIN Result(c) = DOMAIN table
        /\ \A id \in DOMAIN table : /\ RowOK(Result(c)[id], id)
                                    /\ Result(c)[id].createdAt = table[id].createdAt
    BY <2>1, WithKeepsRows DEF TableOK
  <2>3. QED
    BY <2>2 DEF TableOK
<1>4. QED
  BY <1>2, <1>3

-----------------------------------------------------------------------------
(* The steps of a write.                                                   *)

LEMMA OpFields ==
  ASSUME NEW z \in Ops, NEW t \in BOOLEAN
  PROVE  /\ \A p \in Pcs : [z EXCEPT !.pc = p] \in Ops
         /\ \A e \in Codes : [z EXCEPT !.error = e] \in Ops
         /\ \A s \in Statuses : [z EXCEPT !.status = s] \in Ops
         /\ [z EXCEPT !.tx = t] \in Ops
         /\ [z EXCEPT !.wrote = t] \in Ops
         /\ [z EXCEPT !.expired = t] \in Ops
<1>1. \A p \in Pcs : [z EXCEPT !.pc = p] \in Ops
  BY DEF Ops
<1>2. \A e \in Codes : [z EXCEPT !.error = e] \in Ops
  BY DEF Ops
<1>3. \A s \in Statuses : [z EXCEPT !.status = s] \in Ops
  BY DEF Ops
<1>4. [z EXCEPT !.tx = t] \in Ops
  BY DEF Ops
<1>5. [z EXCEPT !.wrote = t] \in Ops
  BY DEF Ops
<1>6. [z EXCEPT !.expired = t] \in Ops
  BY DEF Ops
<1>7. QED
  BY <1>1, <1>2, <1>3, <1>4, <1>5, <1>6

\* One write moves on, and all the others stay where they are.
LEMMA OneMoves ==
  ASSUME OpsOK, NEW w \in Writers, NEW o \in Ops, OpOK(o), op' = [op EXCEPT ![w] = o]
  PROVE  OpsOK'
BY DEF OpsOK

\* A step that takes no connection of a transaction and gives none back.
LEMMA SameHolders ==
  ASSUME PoolOK, free' = free, \A w \in Writers : op'[w].tx = op[w].tx
  PROVE  PoolOK'
<1>1. Holders' = Holders
  BY DEF Holders
<1>2. QED
  BY <1>1 DEF PoolOK

LEMMA OneMoreHolder ==
  ASSUME PoolOK, OpsOK, NEW w \in Writers, free > 0, free' = free - 1, ~op[w].tx,
         NEW o \in Ops, o.tx, op' = [op EXCEPT ![w] = o]
  PROVE  PoolOK'
<1>1. Holders' = Holders \cup {w} /\ w \notin Holders
  BY DEF Holders, OpsOK
<1>2. IsFiniteSet(Holders \cup {w}) /\ Cardinality(Holders \cup {w}) = Cardinality(Holders) + 1
  BY <1>1, FS_AddElement DEF PoolOK
<1>3. Cardinality(Holders) \in Nat
  BY FS_CardinalityType DEF PoolOK
<1>4. QED
  BY <1>1, <1>2, <1>3 DEF PoolOK

LEMMA OneHolderLess ==
  ASSUME PoolOK, OpsOK, NEW w \in Writers, free' = free + 1, op[w].tx,
         NEW o \in Ops, ~o.tx, op' = [op EXCEPT ![w] = o]
  PROVE  PoolOK'
<1>1. Holders' = Holders \ {w} /\ w \in Holders
  BY DEF Holders, OpsOK
<1>2. IsFiniteSet(Holders \ {w}) /\ Cardinality(Holders \ {w}) = Cardinality(Holders) - 1
  BY <1>1, FS_RemoveElement DEF PoolOK
<1>3. Cardinality(Holders) \in Nat
  BY FS_CardinalityType DEF PoolOK
<1>4. QED
  BY <1>1, <1>2, <1>3 DEF PoolOK

\* What a statement changes of the walk.
LEMMA WatchedHolds ==
  ASSUME WalkOK, DOMAIN table \subseteq DOMAIN table', walk' = walk \/ walk' = Watched(table')
  PROVE  WalkOK'
<1>1. ASSUME NEW z \in Walks, NEW a \in BOOLEAN, NEW b \in BOOLEAN, NEW c \in BOOLEAN
      PROVE  [z EXCEPT !.moved = a, !.grown = b, !.late = c] \in Walks
  BY DEF Walks
<1>2. walk' \in Walks /\ \A f \in {"pc", "query", "at", "seen", "first"} : walk'[f] = walk[f]
  <2>1. CASE walk' = walk
    BY <2>1 DEF WalkOK
  <2>2. CASE walk' # walk
    <3>1. walk' = Watched(table')
      BY <2>2
    <3>2. PICK a \in BOOLEAN, b \in BOOLEAN, c \in BOOLEAN :
            walk' = [walk EXCEPT !.moved = a, !.grown = b, !.late = c]
      <4>1. walk.moved \in BOOLEAN /\ walk.grown \in BOOLEAN /\ walk.late \in BOOLEAN
        BY DEF WalkOK, Walks
      <4>2. QED
        BY <2>2, <3>1, <4>1 DEF Watched
    <3>3. walk' \in Walks
      BY <1>1, <3>2 DEF WalkOK
    <3>4. QED
      BY <3>2, <3>3 DEF WalkOK, Walks
  <2>3. QED
    BY <2>1, <2>2
<1>3. /\ walk'.pc = walk.pc /\ walk'.query = walk.query /\ walk'.at = walk.at
      /\ walk'.seen = walk.seen /\ walk'.first = walk.first
  BY <1>2
<1>4. QED
  BY <1>2, <1>3 DEF WalkOK

LEMMA BeginHolds ==
  ASSUME Inv, NEW w \in Writers, NEW call \in workload.calls, Begin(w, call)
  PROVE  Inv'
<1>1. call \in Calls
  BY DEF Inv, CountersOK, Calls
<1>2. PICK o \in Ops : op' = [op EXCEPT ![w] = o] /\ OpOK(o) /\ ~o.tx
  <2>1. [Idle EXCEPT !.pc = "begin", !.call = call] \in Ops
    BY <1>1 DEF Idle, Ops, Codes, Pcs, Statuses
  <2>2. OpOK([Idle EXCEPT !.pc = "begin", !.call = call])
    BY <1>1 DEF Idle, OpOK
  <2>3. QED
    BY <2>1, <2>2 DEF Begin, Idle
<1>3. OpsOK'
  BY <1>2, OneMoves DEF Inv
<1>4. PoolOK'
  <2>1. ~op[w].tx
    BY DEF Begin, Inv, OpsOK, OpOK
  <2>2. \A v \in Writers : op'[v].tx = op[v].tx
    <3>1. op'[w].tx \in BOOLEAN /\ op[w].tx \in BOOLEAN
      BY <1>2 DEF Inv, OpsOK, Ops
    <3>2. op'[w] = o /\ \A v \in Writers \ {w} : op'[v] = op[v]
      BY <1>2 DEF Inv, OpsOK
    <3>3. QED
      BY <1>2, <2>1, <3>1, <3>2
  <2>3. QED
    BY <2>2, SameHolders DEF Begin, Inv
<1>5. TableOK' /\ WalkOK'
  BY DEF Begin, Inv, TableOK, WalkOK
<1>6. CountersOK'
  BY RepositoryAssumption DEF RepositoryAssumption, Begin, Inv, CountersOK
<1>7. QED
  BY <1>3, <1>4, <1>5, <1>6 DEF Inv

LEMMA OpenHolds ==
  ASSUME Inv, NEW w \in Writers, OpenTransaction(w)
  PROVE  Inv'
<1>1. op[w] \in Ops /\ OpOK(op[w])
  BY DEF Inv, OpsOK
<1>2. PICK y \in Ops : y = [op[w] EXCEPT !.pc = "statement"]
  BY <1>1, OpFields DEF Pcs
<1>3. PICK o \in Ops : o = [y EXCEPT !.tx = TRUE]
  BY OpFields
<1>4. o.tx /\ OpOK(o)
  BY <1>1, <1>2, <1>3 DEF OpenTransaction, OpOK, Ops
<1>5. op' = [op EXCEPT ![w] = o]
  BY <1>2, <1>3 DEF OpenTransaction
<1>6. OpsOK'
  BY <1>4, <1>5, OneMoves DEF Inv
<1>7. PoolOK'
  <2>1. ~op[w].tx
    BY <1>1 DEF OpenTransaction, OpOK
  <2>2. QED
    BY <1>4, <1>5, <2>1, OneMoreHolder DEF OpenTransaction, Inv
<1>8. TableOK' /\ WalkOK' /\ CountersOK'
  BY DEF OpenTransaction, Elsewhere, Inv, TableOK, WalkOK, CountersOK
<1>9. QED
  BY <1>6, <1>7, <1>8 DEF Inv

LEMMA StatementHolds ==
  ASSUME Inv, NEW w \in Writers, Statement(w)
  PROVE  Inv'
<1>1. op[w] \in Ops /\ OpOK(op[w]) /\ op[w].pc = "statement" /\ op[w].call \in Calls
  BY DEF Statement, Inv, OpsOK, OpOK
<1>2. PICK o \in Ops : op' = [op EXCEPT ![w] = o] /\ OpOK(o) /\ o.tx = op[w].tx
  <2>1. CASE Error(op[w].call) = "none"
    <3>1. PICK p \in {"select", "end"} :
            p = IF op[w].call.name \in {"updateMany", "createMany"} THEN "select" ELSE "end"
      OBVIOUS
    <3>2. PICK y \in Ops : y = [op[w] EXCEPT !.wrote = TRUE]
      BY <1>1, OpFields
    <3>3. PICK o \in Ops : o = [y EXCEPT !.pc = p]
      BY OpFields DEF Pcs
    <3>4. OpOK(o) /\ o.tx = op[w].tx
      BY <1>1, <3>2, <3>3 DEF OpOK, Ops
    <3>5. op' = [op EXCEPT ![w] = o]
      BY <2>1, <3>1, <3>2, <3>3 DEF Statement
    <3>6. QED
      BY <3>4, <3>5
  <2>2. CASE Error(op[w].call) # "none"
    <3>1. Error(op[w].call) \in {"P2025", "P2002", "P2003"}
      BY <2>2 DEF Error
    <3>2. PICK y \in Ops : y = [op[w] EXCEPT !.error = Error(op[w].call)]
      BY <1>1, <3>1, OpFields DEF Codes
    <3>3. PICK o \in Ops : o = [y EXCEPT !.pc = "end"]
      BY OpFields DEF Pcs
    <3>4. OpOK(o) /\ o.tx = op[w].tx
      BY <1>1, <3>1, <3>2, <3>3 DEF OpOK, Ops
    <3>5. op' = [op EXCEPT ![w] = o]
      BY <2>2, <3>2, <3>3 DEF Statement
    <3>6. QED
      BY <3>4, <3>5
  <2>3. QED
    BY <2>1, <2>2
<1>3. OpsOK'
  BY <1>2, OneMoves DEF Inv
<1>4. PoolOK'
  <2>1. \A v \in Writers : op'[v].tx = op[v].tx
    BY <1>2 DEF Inv, OpsOK
  <2>2. QED
    BY <2>1, SameHolders DEF Statement, Inv
<1>5. TableOK' /\ DOMAIN table \subseteq DOMAIN table'
  <2>1. CASE Error(op[w].call) = "none"
    <3>1. table' = Result(op[w].call)
      BY <2>1 DEF Statement
    <3>2. QED
      BY <1>1, <2>1, <3>1, ResultHolds DEF Inv, TableOK
  <2>2. CASE Error(op[w].call) # "none"
    BY <2>2 DEF Statement, Inv, TableOK
  <2>3. QED
    BY <2>1, <2>2
<1>6. WalkOK'
  <2>1. walk' = walk \/ walk' = Watched(table')
    BY DEF Statement
  <2>2. QED
    BY <1>5, <2>1, WatchedHolds DEF Inv
<1>7. CountersOK'
  BY DEF Statement, Elsewhere, Inv, CountersOK
<1>8. QED
  BY <1>3, <1>4, <1>5, <1>6, <1>7 DEF Inv

LEMMA SelectHolds ==
  ASSUME Inv, NEW w \in Writers, Select(w)
  PROVE  Inv'
<1>1. op[w] \in Ops /\ OpOK(op[w]) /\ op[w].pc = "select"
  BY DEF Select, Inv, OpsOK
<1>2. PICK o \in Ops : o = [op[w] EXCEPT !.pc = "end"]
  BY <1>1, OpFields DEF Pcs
<1>3. op' = [op EXCEPT ![w] = o] /\ OpOK(o) /\ o.tx = op[w].tx
  BY <1>1, <1>2 DEF Select, OpOK, Ops
<1>4. OpsOK'
  BY <1>3, OneMoves DEF Inv
<1>5. PoolOK'
  <2>1. \A v \in Writers : op'[v].tx = op[v].tx
    BY <1>3 DEF Inv, OpsOK
  <2>2. QED
    BY <2>1, SameHolders DEF Select, Inv
<1>6. TableOK' /\ WalkOK' /\ CountersOK'
  BY DEF Select, Elsewhere, Inv, TableOK, WalkOK, CountersOK
<1>7. QED
  BY <1>4, <1>5, <1>6 DEF Inv

LEMMA GiveUpHolds ==
  ASSUME Inv, NEW w \in Writers, GiveUp(w)
  PROVE  Inv'
<1>1. op[w] \in Ops /\ OpOK(op[w]) /\ op[w].pc \in {"begin", "statement", "select"}
  BY DEF GiveUp, Inv, OpsOK
<1>2. PICK e \in {"P2024", "P2028"} : e = IF op[w].pc = "begin" THEN "P2028" ELSE "P2024"
  OBVIOUS
<1>3. PICK y \in Ops : y = [op[w] EXCEPT !.error = e]
  BY <1>1, OpFields DEF Codes
<1>4. PICK o \in Ops : o = [y EXCEPT !.pc = "end"]
  BY OpFields DEF Pcs
<1>5. OpOK(o) /\ o.tx = op[w].tx
  BY <1>1, <1>3, <1>4 DEF OpOK, Ops
<1>6. op' = [op EXCEPT ![w] = o]
  BY <1>2, <1>3, <1>4 DEF GiveUp
<1>7. OpsOK'
  BY <1>5, <1>6, OneMoves DEF Inv
<1>8. PoolOK'
  <2>1. \A v \in Writers : op'[v].tx = op[v].tx
    BY <1>5, <1>6 DEF Inv, OpsOK
  <2>2. QED
    BY <2>1, SameHolders DEF GiveUp, Inv
<1>9. TableOK' /\ WalkOK' /\ CountersOK'
  BY DEF GiveUp, Elsewhere, Inv, TableOK, WalkOK, CountersOK
<1>10. QED
  BY <1>7, <1>8, <1>9 DEF Inv

LEMMA ExpireHolds ==
  ASSUME Inv, NEW w \in Writers, Expire(w)
  PROVE  Inv'
<1>1. op[w] \in Ops /\ OpOK(op[w]) /\ op[w].tx
  BY DEF Expire, Inv, OpsOK
<1>2. PICK y \in Ops : y = [op[w] EXCEPT !.tx = FALSE]
  BY <1>1, OpFields
<1>3. PICK o \in Ops : o = [y EXCEPT !.expired = TRUE]
  BY OpFields
<1>4. OpOK(o) /\ ~o.tx
  BY <1>1, <1>2, <1>3 DEF OpOK, Ops
<1>5. op' = [op EXCEPT ![w] = o]
  BY <1>2, <1>3 DEF Expire
<1>6. OpsOK'
  BY <1>4, <1>5, OneMoves DEF Inv
<1>7. PoolOK'
  BY <1>1, <1>4, <1>5, OneHolderLess DEF Expire, Inv
<1>8. TableOK' /\ WalkOK' /\ CountersOK'
  BY DEF Expire, Elsewhere, Inv, TableOK, WalkOK, CountersOK
<1>9. QED
  BY <1>6, <1>7, <1>8 DEF Inv

\* Only an error of the statement itself has an answer that names a reason.
LEMMA AnswersOfErrors ==
  ASSUME NEW e \in Codes
  PROVE  /\ handleError(e) \in {400, 404, 409, 500}
         /\ handleError(e) # 500 => e \in {"P2025", "P2002", "P2003"}
BY DEF handleError, Codes

LEMMA EndHolds ==
  ASSUME Inv, NEW w \in Writers, End(w)
  PROVE  Inv'
<1>1. op[w] \in Ops /\ OpOK(op[w]) /\ op[w].pc = "end"
  BY DEF End, Inv, OpsOK
<1>2. PICK e \in Codes : e = IF op[w].error = "none" /\ op[w].expired THEN "P2028" ELSE op[w].error
  BY <1>1 DEF Ops, Codes
<1>3. PICK s \in Statuses : s = IF e = "none" THEN 200 ELSE handleError(e)
  BY AnswersOfErrors DEF Statuses
<1>4. PICK x \in Ops : x = [op[w] EXCEPT !.pc = "done"]
  BY <1>1, OpFields DEF Pcs
<1>5. PICK y \in Ops : y = [x EXCEPT !.tx = FALSE]
  BY OpFields
<1>6. PICK o \in Ops : o = [y EXCEPT !.status = s]
  BY OpFields
<1>7. OpOK(o)
  <2>1. s = 200 => op[w].wrote
    BY <1>1, <1>2, <1>3, AnswersOfErrors DEF OpOK
  <2>2. s \in {400, 404, 409} => ~op[w].wrote
    BY <1>1, <1>2, <1>3, AnswersOfErrors DEF OpOK
  <2>3. o.pc = "done" /\ ~o.tx /\ o.status = s /\ o.wrote = op[w].wrote
    BY <1>4, <1>5, <1>6 DEF Ops
  <2>4. QED
    BY <2>1, <2>2, <2>3 DEF OpOK
<1>8. op' = [op EXCEPT ![w] = o] /\ ~o.tx
  <2>1. op' = [op EXCEPT ![w].pc = "done", ![w].tx = FALSE, ![w].status = s]
    BY <1>2, <1>3 DEF End
  <2>2. o = [op[w] EXCEPT !.pc = "done", !.tx = FALSE, !.status = s]
    BY <1>4, <1>5, <1>6
  <2>3. ~o.tx
    BY <1>5, <1>6 DEF Ops
  <2>4. QED
    BY <2>1, <2>2, <2>3
<1>9. OpsOK'
  BY <1>7, <1>8, OneMoves DEF Inv
<1>10. PoolOK'
  <2>1. CASE op[w].tx
    BY <1>8, <2>1, OneHolderLess DEF End, Inv
  <2>2. CASE ~op[w].tx
    <3>1. op'[w] = o /\ \A v \in Writers \ {w} : op'[v] = op[v]
      BY <1>8 DEF Inv, OpsOK
    <3>2. op[w].tx = FALSE /\ o.tx = FALSE
      BY <1>1, <1>8, <2>2 DEF Ops
    <3>3. \A v \in Writers : op'[v].tx = op[v].tx
      BY <3>1, <3>2
    <3>4. QED
      BY <2>2, <3>3, SameHolders DEF End, Inv
  <2>3. QED
    BY <2>1, <2>2
<1>11. TableOK' /\ WalkOK' /\ CountersOK'
  BY DEF End, Elsewhere, Inv, TableOK, WalkOK, CountersOK
<1>12. QED
  BY <1>9, <1>10, <1>11 DEF Inv

-----------------------------------------------------------------------------
(* The steps of a walk.                                                    *)

LEMMA MaxOfTwo ==
  ASSUME NEW a \in Int, NEW b \in Int
  PROVE  Max({a, b}) \in {a, b} /\ Max({a, b}) >= a /\ Max({a, b}) >= b
<1>1. \E x \in {a, b} : \A y \in {a, b} : x >= y
  OBVIOUS
<1>2. QED
  BY <1>1 DEF Max

LEMMA MinOfTwo ==
  ASSUME NEW a \in Int, NEW b \in Int
  PROVE  Min({a, b}) \in {a, b} /\ Min({a, b}) <= a /\ Min({a, b}) <= b
<1>1. \E x \in {a, b} : \A y \in {a, b} : x <= y
  OBVIOUS
<1>2. QED
  BY <1>1 DEF Min

\* Whatever page is asked for, a page of a list is described by integers, and
\* there is a next one only when it has a number.
LEMMA PaginateHolds ==
  ASSUME NEW total \in Nat, NEW page \in Int, NEW limit \in Nat
  PROVE  /\ paginate(total, page, limit) \in Ats
         /\ paginate(total, page, limit).hasNext => paginate(total, page, limit).nextPage \in Int
<1> DEFINE l == Min({MAX_LIMIT, Max({MIN_LIMIT, IF limit = 0 THEN DEFAULT_LIMIT ELSE limit})})
           pages == (total + l - 1) \div l
           safePage == IF pages = 0 THEN 1 ELSE Min({pages, Max({page, 1})})
<1>1. MIN_LIMIT \in Nat \ {0} /\ DEFAULT_LIMIT \in Nat \ {0} /\ MAX_LIMIT \in Nat \ {0}
  BY ListQueryAssumption DEF ListQueryAssumption
<1>2. l \in Nat \ {0}
  <2>1. PICK n \in Nat : n = IF limit = 0 THEN DEFAULT_LIMIT ELSE limit
    BY <1>1
  <2>2. PICK m \in Nat \ {0} : m = Max({MIN_LIMIT, n})
    BY <1>1, MaxOfTwo
  <2>3. Min({MAX_LIMIT, m}) \in Nat \ {0}
    BY <1>1, MinOfTwo
  <2>4. l = Min({MAX_LIMIT, m})
    BY <2>1, <2>2
  <2>5. QED
    BY <2>3, <2>4
<1>3. pages \in Int
  <2>1. total + l - 1 \in Int
    BY <1>2
  <2>2. QED
    BY <1>2, <2>1
<1>4. safePage \in Int
  <2>1. PICK n \in Int : n = pages
    BY <1>3
  <2>2. PICK m \in Int : m = Max({page, 1})
    <3> HIDE DEF l, pages, safePage
    <3>1. Max({page, 1}) \in {page, 1}
      BY MaxOfTwo
    <3>2. QED
      BY <3>1
  <2>3. Min({n, m}) \in Int
    BY MinOfTwo
  <2>4. safePage = IF n = 0 THEN 1 ELSE Min({n, m})
    BY <2>1, <2>2
  <2>5. QED
    BY <2>3, <2>4
<1> DEFINE at(b) == [totalRecords |-> total, totalPages |-> pages, currentPage |-> safePage,
                     limit |-> l, skip |-> (safePage - 1) * l, hasNext |-> b,
                     nextPage |-> IF b THEN safePage + 1 ELSE Null]
<1>5. paginate(total, page, limit) = at(safePage < pages)
  BY DEF paginate
<1> HIDE DEF l, pages, safePage
<1>6. safePage + 1 \in Int /\ (safePage - 1) * l \in Int
  BY <1>2, <1>4
<1>7. CASE safePage < pages
  <2>1. at(TRUE) \in Ats /\ at(TRUE).nextPage \in Int
    BY <1>2, <1>3, <1>4, <1>6 DEF Ats
  <2>2. paginate(total, page, limit) = at(TRUE)
    BY <1>5, <1>7
  <2>3. QED
    BY <2>1, <2>2
<1>8. CASE ~(safePage < pages)
  <2>1. at(FALSE) \in Ats /\ ~at(FALSE).hasNext
    BY <1>2, <1>3, <1>4, <1>6 DEF Ats
  <2>2. (safePage < pages) = FALSE
    BY <1>8
  <2>3. paginate(total, page, limit) = at(FALSE)
    BY <1>5, <2>2, Zenon
  <2>4. QED
    BY <2>1, <2>3
<1>9. QED
  BY <1>7, <1>8

LEMMA RestHolds == Rest \in Walks /\ Rest.pc = "idle" /\ Rest.seen = <<>> /\ Rest.first = {}
BY DEF Rest, Walks

LEMMA BeginWalkHolds ==
  ASSUME Inv, NEW q \in workload.queries, BeginWalk(q)
  PROVE  Inv'
<1>1. q \in Queries
  BY DEF Inv, CountersOK, Queries
<1>2. List(q) \subseteq DOMAIN table /\ List(q) \subseteq Ids
  BY DEF List, Inv, TableOK
<1>3. WalkOK'
  <2>1. CASE Refused(q)
    <3>1. walk' = [Rest EXCEPT !.pc = "refused", !.query = q]
      BY <2>1 DEF BeginWalk
    <3>2. [Rest EXCEPT !.pc = "refused", !.query = q] \in Walks
      BY <1>1, RestHolds DEF Walks
    <3>3. QED
      BY <3>1, <3>2, RestHolds DEF WalkOK, Walks
  <2>2. CASE ~Refused(q)
    <3>1. walk' = [Rest EXCEPT !.pc = "count", !.query = q, !.first = List(q)]
      BY <2>2 DEF BeginWalk
    <3>2. [Rest EXCEPT !.pc = "count", !.query = q, !.first = List(q)] \in Walks
      BY <1>1, <1>2, RestHolds DEF Walks
    <3>3. table' = table
      BY DEF BeginWalk
    <3>4. QED
      BY <1>1, <1>2, <3>1, <3>2, <3>3, RestHolds DEF WalkOK, Walks
  <2>3. QED
    BY <2>1, <2>2
<1>4. CountersOK'
  BY RepositoryAssumption DEF RepositoryAssumption, BeginWalk, Inv, CountersOK
<1>5. TableOK' /\ OpsOK' /\ PoolOK'
  BY DEF BeginWalk, Inv, TableOK, OpsOK, PoolOK, Holders
<1>6. QED
  BY <1>3, <1>4, <1>5 DEF Inv

LEMMA calculateTotalHolds ==
  ASSUME Inv, calculateTotal
  PROVE  Inv'
<1>1. walk \in Walks /\ walk.query \in Queries /\ walk.page \in Int
  BY DEF calculateTotal, Inv, WalkOK, Walks
<1>2. walk.query.limit \in Nat
  BY <1>1, RepositoryAssumption DEF RepositoryAssumption, Queries
<1>3. Cardinality(List(walk.query)) \in Nat
  <2>1. List(walk.query) \subseteq DOMAIN table
    BY DEF List
  <2>2. QED
    BY <2>1, FS_Subset, FS_CardinalityType DEF Inv, TableOK
<1>4. PICK at \in Ats :
        /\ at = paginate(Cardinality(List(walk.query)), walk.page, walk.query.limit)
        /\ at.hasNext => at.nextPage \in Int
  BY <1>1, <1>2, <1>3, PaginateHolds
<1>5. walk' = [walk EXCEPT !.pc = "page", !.at = at]
  BY <1>4 DEF calculateTotal
<1>6. [walk EXCEPT !.pc = "page", !.at = at] \in Walks
  BY <1>1 DEF Walks
<1>7. WalkOK'
  BY <1>1, <1>4, <1>5, <1>6 DEF calculateTotal, Inv, WalkOK, Walks
<1>8. TableOK' /\ OpsOK' /\ PoolOK' /\ CountersOK'
  BY DEF calculateTotal, Elsewhere, Inv, TableOK, OpsOK, PoolOK, Holders, CountersOK
<1>9. QED
  BY <1>7, <1>8 DEF Inv

LEMMA PageIsSequence ==
  ASSUME NEW t, NEW S, Cardinality(S) \in Nat, NEW order, NEW skip \in Int, NEW take \in Int,
         NEW s \in Pages(t, S, order, skip, take)
  PROVE  s \in Seq(S)
<1>1. PICK k \in Int : k = Min({take, Cardinality(S) - skip})
  <2>1. Cardinality(S) - skip \in Int
    OBVIOUS
  <2>2. QED
    BY <2>1, MinOfTwo
<1>2. PICK n \in Nat : n = Max({0, k})
  BY MaxOfTwo
<1>3. s \in [1..n -> S]
  BY <1>1, <1>2 DEF Pages
<1>4. QED
  BY <1>3

\* A page shows rows of the list.
LEMMA PageIsOfList ==
  ASSUME Inv, findMany
  PROVE  \E s \in Seq(Ids) :
           /\ walk' = [walk EXCEPT !.seen = @ \o s,
                         !.pc = IF walk.at.hasNext THEN "count" ELSE "done",
                         !.page = IF walk.at.hasNext THEN walk.at.nextPage ELSE @]
           /\ \A i \in DOMAIN s : s[i] \in List(walk.query)
<1>1. walk.at \in Ats /\ walk.query \in Queries
  BY DEF findMany, Inv, WalkOK
<1>2. List(walk.query) \subseteq DOMAIN table /\ List(walk.query) \subseteq Ids
  BY DEF List, Inv, TableOK
<1>3. Cardinality(List(walk.query)) \in Nat
  BY <1>2, FS_Subset, FS_CardinalityType DEF Inv, TableOK
<1>4. PICK s \in Pages(table, List(walk.query), sort(walk.query), walk.at.skip, walk.at.limit) :
        walk' = [walk EXCEPT !.seen = @ \o s,
                   !.pc = IF walk.at.hasNext THEN "count" ELSE "done",
                   !.page = IF walk.at.hasNext THEN walk.at.nextPage ELSE @]
  BY DEF findMany
<1>5. s \in Seq(List(walk.query))
  BY <1>1, <1>3, PageIsSequence DEF Ats
<1>6. s \in Seq(Ids) /\ \A i \in DOMAIN s : s[i] \in List(walk.query)
  BY <1>2, <1>5, ElementOfSeq, LenProperties
<1>7. QED
  BY <1>4, <1>6

LEMMA findManyHolds ==
  ASSUME Inv, findMany
  PROVE  Inv'
<1>1. PICK s \in Seq(Ids) :
        /\ walk' = [walk EXCEPT !.seen = @ \o s,
                      !.pc = IF walk.at.hasNext THEN "count" ELSE "done",
                      !.page = IF walk.at.hasNext THEN walk.at.nextPage ELSE @]
        /\ \A i \in DOMAIN s : s[i] \in List(walk.query)
  BY PageIsOfList
<1>2. walk \in Walks /\ walk.seen \in Seq(Ids) /\ walk.query \in Queries
  BY DEF findMany, Inv, WalkOK, Walks
<1>3. PICK p \in {"count", "done"} : p = IF walk.at.hasNext THEN "count" ELSE "done"
  OBVIOUS
<1>4. PICK n \in Int : n = IF walk.at.hasNext THEN walk.at.nextPage ELSE walk.page
  BY <1>2 DEF findMany, Inv, WalkOK, Walks
<1>5. PICK seen \in Seq(Ids) : seen = walk.seen \o s
  BY <1>2, ConcatProperties
<1>6. walk' = [walk EXCEPT !.seen = seen, !.pc = p, !.page = n]
  BY <1>1, <1>3, <1>4, <1>5
<1>7. [walk EXCEPT !.seen = seen, !.pc = p, !.page = n] \in Walks
  BY <1>2 DEF Walks
<1>8. \A i \in DOMAIN seen : seen[i] \in DOMAIN table
  <2>1. \A i \in DOMAIN walk.seen : walk.seen[i] \in DOMAIN table
    BY DEF Inv, WalkOK
  <2>2. \A i \in DOMAIN s : s[i] \in DOMAIN table
    BY <1>1 DEF List
  <2>3. QED
    BY <1>2, <1>5, <2>1, <2>2, ConcatProperties, LenProperties
<1>9. table' = table
  BY DEF findMany
<1>10. WalkOK'
  BY <1>2, <1>6, <1>7, <1>8, <1>9 DEF Inv, WalkOK, Walks
<1>11. TableOK' /\ OpsOK' /\ PoolOK' /\ CountersOK'
  BY DEF findMany, Elsewhere, Inv, TableOK, OpsOK, PoolOK, Holders, CountersOK
<1>12. QED
  BY <1>10, <1>11 DEF Inv

LEMMA AbandonHolds ==
  ASSUME Inv, Abandon
  PROVE  Inv'
<1>1. WalkOK'
  <2>1. walk' = Rest
    BY DEF Abandon
  <2>2. QED
    BY <2>1, RestHolds DEF WalkOK
<1>2. TableOK' /\ OpsOK' /\ PoolOK' /\ CountersOK'
  BY DEF Abandon, Elsewhere, Inv, TableOK, OpsOK, PoolOK, Holders, CountersOK
<1>3. QED
  BY <1>1, <1>2 DEF Inv

-----------------------------------------------------------------------------
(* The theorems.                                                           *)

LEMMA NextHolds == Inv /\ [Next]_vars => Inv'
<1> SUFFICES ASSUME Inv, [Next]_vars PROVE Inv'
  OBVIOUS
<1>1. ASSUME NEW w \in Writers, Write(w) PROVE Inv'
  BY <1>1, OpenHolds, StatementHolds, SelectHolds, GiveUpHolds, ExpireHolds, EndHolds
  DEF Write
<1>2. ASSUME NEW w \in Writers, NEW call \in workload.calls, Begin(w, call) PROVE Inv'
  BY <1>2, BeginHolds
<1>3. ASSUME NEW q \in workload.queries, BeginWalk(q) PROVE Inv'
  BY <1>3, BeginWalkHolds
<1>4. CASE calculateTotal
  BY <1>4, calculateTotalHolds
<1>5. CASE findMany
  BY <1>5, findManyHolds
<1>6. CASE Abandon
  BY <1>6, AbandonHolds
<1>7. CASE UNCHANGED vars
  BY <1>7 DEF vars, Inv, TableOK, OpsOK, PoolOK, Holders, WalkOK, CountersOK
<1>8. QED
  BY <1>1, <1>2, <1>3, <1>4, <1>5, <1>6, <1>7 DEF Next

\* The inductive invariant of the repository: what a row, a write, the pool and
\* a walk look like between any two of its steps.
THEOREM InvAlways == Spec => []Inv
BY InitHolds, NextHolds, PTL DEF Spec

LEMMA InvGivesWritesHold == ASSUME Inv PROVE WritesHold
<1>1. TypeOK
  <2>1. free \in 0..PoolSize
    <3>1. Cardinality(Holders) \in Nat /\ PoolSize \in Nat
      BY FS_CardinalityType, RepositoryAssumption DEF RepositoryAssumption, Inv, PoolOK
    <3>2. QED
      BY <3>1 DEF Inv, PoolOK
  <2>2. \A id \in DOMAIN table : id \in Ids /\ table[id].id = id /\ table[id].tenantId \in Tenants
    BY DEF Inv, TableOK, RowOK
  <2>3. \A w \in Writers : op[w].status \in {0, 200, 400, 404, 409, 500}
    BY DEF Inv, OpsOK, Ops, Statuses
  <2>4. QED
    BY <2>1, <2>2, <2>3 DEF TypeOK, Inv, WalkOK, CountersOK
<1>2. PoolAccounted
  BY DEF PoolAccounted, Inv, PoolOK, Holders
<1>3. AnswersAreTrue
  BY DEF AnswersAreTrue, Inv, OpsOK, OpOK
<1>4. QED
  BY <1>1, <1>2, <1>3 DEF WritesHold

\* Every connection is in the pool or held by one open transaction, whichever of
\* commit, error, timeout and expiry comes first; a 200 means the rows were
\* written, a 400, 404 or 409 that they were not.
THEOREM WritesHoldAlways == Spec => []WritesHold
BY InvAlways, InvGivesWritesHold, PTL

LEMMA ExactIs ==
  ASSUME NEW row, NEW k, NEW t, NEW v, Satisfies(row, k, Exact({[type |-> t, v |-> v]}))
  PROVE  row[k] = v
BY DEF Satisfies, Exact

\* mergeFilter puts the tenant of the request and the absence of a deletion
\* date over whatever the query string says of either.
LEMMA ListIsScoped ==
  ASSUME NEW q, NEW id \in List(q)
  PROVE  table[id].deletedAt = Null /\ table[id].tenantId = q.tenant
<1>1. /\ "deletedAt" \in DOMAIN mergeFilter(q)
      /\ mergeFilter(q)["deletedAt"] = Exact({[type |-> "date", v |-> Null]})
  BY DEF mergeFilter, applySoftDelete, deepMerge
<1>2. /\ "tenantId" \in DOMAIN mergeFilter(q)
      /\ mergeFilter(q)["tenantId"] = Exact({[type |-> "string", v |-> q.tenant]})
  BY DEF mergeFilter, applySoftDelete, deepMerge
<1>3. \A k \in DOMAIN mergeFilter(q) : Satisfies(table[id], k, mergeFilter(q)[k])
  BY DEF List, Matches
<1>4. Satisfies(table[id], "deletedAt", Exact({[type |-> "date", v |-> Null]}))
  BY <1>1, <1>3
<1>5. Satisfies(table[id], "tenantId", Exact({[type |-> "string", v |-> q.tenant]}))
  BY <1>2, <1>3
<1>6. QED
  BY <1>4, <1>5, ExactIs

\* A step that shows no new row.
LEMMA NothingShown ==
  ASSUME Inv, walk'.seen = walk.seen \/ walk'.seen = <<>>
  PROVE  (Len(walk.seen) + 1)..Len(walk'.seen) = {}
<1>1. Len(walk.seen) \in Nat
  BY LenProperties DEF Inv, WalkOK, Walks
<1>2. CASE walk'.seen = walk.seen
  BY <1>1, <1>2
<1>3. CASE walk'.seen = <<>>
  BY <1>1, <1>3
<1>4. QED
  BY <1>2, <1>3

Shows ==
  \A i \in (Len(walk.seen) + 1)..Len(walk'.seen) :
    LET row == table[walk'.seen[i]] IN
    row.deletedAt = Null /\ row.tenantId = walk.query.tenant

LEMMA findManyShows ==
  ASSUME Inv, findMany
  PROVE  Shows
<1>1. PICK s \in Seq(Ids) :
        /\ walk' = [walk EXCEPT !.seen = @ \o s,
                      !.pc = IF walk.at.hasNext THEN "count" ELSE "done",
                      !.page = IF walk.at.hasNext THEN walk.at.nextPage ELSE @]
        /\ \A i \in DOMAIN s : s[i] \in List(walk.query)
  BY PageIsOfList
<1>2. walk \in Walks /\ walk.seen \in Seq(Ids)
  BY DEF Inv, WalkOK, Walks
<1>3. walk'.seen = walk.seen \o s
  BY <1>1, <1>2 DEF Walks
<1>4. ASSUME NEW i \in (Len(walk.seen) + 1)..Len(walk'.seen)
      PROVE  walk'.seen[i] \in List(walk.query)
  <2>1. Len(walk.seen) \in Nat /\ Len(s) \in Nat /\ DOMAIN s = 1..Len(s)
    BY <1>2, LenProperties
  <2>2. Len(walk'.seen) = Len(walk.seen) + Len(s)
    BY <1>2, <1>3, ConcatProperties
  <2>3. i - Len(walk.seen) \in DOMAIN s
    BY <2>1, <2>2
  <2>4. walk'.seen[i] = s[i - Len(walk.seen)]
    BY <1>2, <1>3, <2>1, <2>2, ConcatProperties
  <2>5. QED
    BY <1>1, <2>3, <2>4
<1>5. QED
  BY <1>4, ListIsScoped DEF Shows

\* What a page adds to a list is living and of the tenant of the request, for
\* every filter, search and order the query string may hold.
THEOREM ScopeHoldsAlways == Spec => ScopeHolds
<1>1. Inv /\ [Next]_vars => [Shows]_vars
  <2> SUFFICES ASSUME Inv, Next PROVE Shows
    BY DEF Shows
  <2>1. CASE findMany
    BY <2>1, findManyShows
  <2>2. CASE ~findMany
    <3>1. walk'.seen = walk.seen \/ walk'.seen = <<>>
      <4>1. walk \in Walks
        BY DEF Inv, WalkOK
      <4>2. ASSUME NEW w \in Writers, Write(w) PROVE walk'.seen = walk.seen
        <5>1. CASE Statement(w)
          BY <4>1, <5>1 DEF Statement, Watched, Walks
        <5>2. CASE ~Statement(w)
          BY <4>2, <5>2 DEF Write, OpenTransaction, Select, GiveUp, Expire, End
        <5>3. QED
          BY <5>1, <5>2
      <4>3. ASSUME NEW w \in Writers, NEW call \in workload.calls, Begin(w, call)
            PROVE  walk'.seen = walk.seen
        BY <4>3 DEF Begin
      <4>4. ASSUME NEW q \in workload.queries, BeginWalk(q) PROVE walk'.seen = <<>>
        BY <4>4 DEF BeginWalk, Rest
      <4>5. CASE calculateTotal
        BY <4>1, <4>5 DEF calculateTotal, Walks
      <4>6. CASE Abandon
        BY <4>6, RestHolds DEF Abandon
      <4>7. QED
        BY <2>2, <4>2, <4>3, <4>4, <4>5, <4>6 DEF Next
    <3>2. QED
      BY <3>1, NothingShown DEF Shows
  <2>3. QED
    BY <2>1, <2>2
<1>2. QED
  BY <1>1, InvAlways, PTL DEF Spec, ScopeHolds, Shows

-----------------------------------------------------------------------------
(* A walk: what it has seen when the list is in its default order.          *)

PageSize(q) ==
  Min({MAX_LIMIT, Max({MIN_LIMIT, IF q.limit = 0 THEN DEFAULT_LIMIT ELSE q.limit})})

ListOf(t, q) == {id \in DOMAIN t : Matches(t[id], mergeFilter(q), q.words)}
DistinctIn(t) == \A a, b \in DOMAIN t : t[a].createdAt = t[b].createdAt => a = b

\* Nothing has moved, and no row has been added since the last total.
Steady(w) == ~w.moved /\ (~w.late \/ ~w.grown)

Passed(w) == (w.page - 1) * PageSize(w.query)

\* The page that comes next is one of the list.
PagesFit(t, w) ==
  LET total == Cardinality(ListOf(t, w.query)) IN
  /\ w.page >= 1
  /\ w.page = 1 \/ Passed(w) < total
  /\ w.pc = "page" => w.at = paginate(total, w.page, w.query.limit)

RowsStay(t, w) ==
  /\ w.first \subseteq ListOf(t, w.query)
  /\ ~w.grown => ListOf(t, w.query) \subseteq w.first

\* The rows of R with fewer than n rows of S before them, and a sequence of rows
\* of S one rank after the other.
FirstOf(t, S, R, n) == {x \in R : Rank(t, S, x) < n}
InOrder(t, S, seq, from) ==
  \A i \in DOMAIN seq : seq[i] \in S /\ Rank(t, S, seq[i]) = from + i - 1

\* The rows passed have been seen; while none is added, in their order.
SeenInOrder(t, w) ==
  LET L == ListOf(t, w.query) IN
  w.query.sort = <<>> /\ DistinctIn(t) =>
    /\ FirstOf(t, L, w.first, Passed(w)) \subseteq ToSet(w.seen)
    /\ ~w.grown => Len(w.seen) = Passed(w) /\ InOrder(t, L, w.seen, 0)

OnCourse(t, w) ==
  w.pc \in {"count", "page"} /\ Steady(w) => PagesFit(t, w) /\ RowsStay(t, w) /\ SeenInOrder(t, w)

\* WalkExact and NothingSkipped, of any table and walk.
Exactly(t, w) ==
  w.pc = "done" /\ ~w.moved /\ ~w.grown /\ w.query.sort = <<>> /\ DistinctIn(t) =>
    IsInjective(w.seen) /\ ToSet(w.seen) = w.first
Nothing(t, w) ==
  w.pc = "done" /\ ~w.moved /\ ~w.late /\ w.query.sort = <<>> /\ DistinctIn(t) =>
    w.first \subseteq ToSet(w.seen)

WalkInv == OnCourse(table, walk) /\ Exactly(table, walk) /\ Nothing(table, walk)

LEMMA WalkInvGivesWalkHolds == WalkInv => WalkHolds
BY DEF WalkInv, WalkHolds, WalkExact, NothingSkipped, Exactly, Nothing, Distinct, DistinctIn

-----------------------------------------------------------------------------
(* Ranks in a list that grows, and in one that stays.                      *)

\* Among rows of distinct age a rank is of one row.
LEMMA RankIsOfOne ==
  ASSUME NEW t, RowsOK(t), DistinctIn(t), NEW S, S \subseteq DOMAIN t, NEW x \in S, NEW y \in S,
         Rank(t, S, x) = Rank(t, S, y)
  PROVE  x = y
<1>1. t[x].createdAt \in Nat /\ t[y].createdAt \in Nat
  BY DEF RowsOK
<1>2. Rank(t, S, x) \in Nat /\ Rank(t, S, y) \in Nat
  BY RankBounds
<1>3. ~(t[x].createdAt > t[y].createdAt) /\ ~(t[y].createdAt > t[x].createdAt)
  BY <1>2, RankFollowsAge
<1>4. t[x].createdAt = t[y].createdAt
  BY <1>1, <1>3
<1>5. QED
  BY <1>4 DEF DistinctIn

LEMMA RankGrows ==
  ASSUME NEW t, NEW u, RowsOK(u), NEW S, S \subseteq DOMAIN u, NEW R, R \subseteq S,
         \A y \in R : u[y] = t[y], NEW x \in R
  PROVE  /\ Newer(t, R, x) \subseteq Newer(u, S, x)
         /\ Rank(t, R, x) \in Nat /\ Rank(u, S, x) \in Nat
         /\ Rank(t, R, x) <= Rank(u, S, x)
<1>1. Newer(t, R, x) \subseteq Newer(u, S, x)
  BY DEF Newer
<1>2. IsFiniteSet(Newer(u, S, x)) /\ Rank(u, S, x) \in Nat
  BY RankBounds
<1>3. QED
  BY <1>1, <1>2, FS_Subset, FS_CardinalityType DEF Rank

LEMMA RankStays ==
  ASSUME NEW t, NEW u, NEW S, \A y \in S : u[y] = t[y], NEW x \in S
  PROVE  Rank(u, S, x) = Rank(t, S, x)
<1>1. Newer(u, S, x) = Newer(t, S, x)
  BY DEF Newer
<1>2. QED
  BY <1>1 DEF Rank

-----------------------------------------------------------------------------
(* One page.                                                               *)

LEMMA PageSizeIs == ASSUME NEW q, q.limit \in Nat PROVE PageSize(q) \in Nat \ {0}
<1>1. MIN_LIMIT \in Nat \ {0} /\ DEFAULT_LIMIT \in Nat \ {0} /\ MAX_LIMIT \in Nat \ {0}
  BY ListQueryAssumption DEF ListQueryAssumption
<1>2. PICK n \in Nat : n = IF q.limit = 0 THEN DEFAULT_LIMIT ELSE q.limit
  BY <1>1
<1>3. PICK m \in Nat \ {0} : m = Max({MIN_LIMIT, n})
  <2>1. Max({MIN_LIMIT, n}) \in {MIN_LIMIT, n} /\ Max({MIN_LIMIT, n}) >= MIN_LIMIT
    BY <1>1, MaxOfTwo
  <2>2. QED
    BY <1>1, <2>1
<1>4. Min({MAX_LIMIT, m}) \in Nat \ {0}
  <2>1. Min({MAX_LIMIT, m}) \in {MAX_LIMIT, m}
    <3>1. MAX_LIMIT \in Int /\ m \in Int
      BY <1>1
    <3>2. QED
      BY <3>1, MinOfTwo
  <2>2. QED
    BY <1>1, <2>1
<1>5. QED
  BY <1>2, <1>3, <1>4 DEF PageSize

LEMMA PagesCover ==
  ASSUME NEW total \in Nat, NEW l \in Nat \ {0}, NEW p \in Nat
  PROVE  p < (total + l - 1) \div l <=> p * l < total
<1> DEFINE n == (total + l - 1) \div l
<1>1. total + l - 1 \in Nat
  OBVIOUS
<1>2. n \in Nat /\ n * l <= total + l - 1 /\ total + l - 1 < (n + 1) * l
  BY <1>1
<1> HIDE DEF n
<1>3. (n + 1) * l = n * l + l /\ (p + 1) * l = p * l + l
  BY <1>2
<1>4. ASSUME p < n PROVE p * l < total
  <2>1. (p + 1) * l <= n * l
    BY <1>2, <1>4
  <2>2. QED
    BY <1>2, <1>3, <2>1
<1>5. ASSUME ~(p < n) PROVE ~(p * l < total)
  <2>1. n * l <= p * l
    BY <1>2, <1>5
  <2>2. QED
    BY <1>2, <1>3, <2>1
<1>6. QED
  BY <1>4, <1>5 DEF n

\* What paginate says of a page that the list has.
LEMMA PaginateIs ==
  ASSUME NEW total \in Nat, NEW w, w.page \in Nat \ {0}, w.query.limit \in Nat,
         w.page = 1 \/ Passed(w) < total,
         NEW at, at = paginate(total, w.page, w.query.limit)
  PROVE  /\ at.limit = PageSize(w.query) /\ at.skip = Passed(w)
         /\ at.hasNext <=> Passed(w) + PageSize(w.query) < total
         /\ at.hasNext => at.nextPage = w.page + 1
<1> DEFINE page == w.page
           l == PageSize(w.query)
           n == (total + l - 1) \div l
<1>1. l \in Nat \ {0}
  BY PageSizeIs
<1> DEFINE safe == IF n = 0 THEN 1 ELSE Min({n, Max({page, 1})})
<1>2. at = [totalRecords |-> total, totalPages |-> n, currentPage |-> safe,
            limit |-> l, skip |-> (safe - 1) * l, hasNext |-> safe < n,
            nextPage |-> IF safe < n THEN safe + 1 ELSE Null]
  BY DEF paginate, PageSize
<1> HIDE DEF l
<1>3. n \in Nat /\ n \in Int /\ page \in Int
  BY <1>1
<1>4. page - 1 < n <=> (page - 1) * l < total
  BY <1>1, PagesCover
<1>5. page < n <=> (page - 1) * l + l < total
  <2>1. page < n <=> page * l < total
    BY <1>1, PagesCover
  <2>2. page * l = (page - 1) * l + l
    BY <1>1
  <2>3. QED
    BY <2>1, <2>2
<1> HIDE DEF n, safe
<1>6. safe = page
  <2>1. Max({page, 1}) = page
    <3>1. \A b \in Int : Max({page, b}) \in {page, b} /\ Max({page, b}) >= page
      BY <1>3, MaxOfTwo
    <3>2. QED
      BY <1>3, <3>1
  <2>2. CASE n = 0
    BY <1>4, <2>2 DEF l, safe, Passed
  <2>3. CASE n # 0
    <3>1. page <= n
      BY <1>3, <1>4, <2>3 DEF l, Passed
    <3>2. Min({n, page}) = page
      <4>1. Min({n, page}) \in {n, page} /\ Min({n, page}) <= page /\ Min({n, page}) <= n
        BY <1>3, MinOfTwo
      <4>2. QED
        BY <1>3, <3>1, <4>1
    <3>3. QED
      BY <2>1, <2>3, <3>2 DEF safe
  <2>4. QED
    BY <2>2, <2>3
<1>7. /\ at.limit = l /\ at.skip = (page - 1) * l
      /\ at.hasNext = (page < n) /\ at.nextPage = IF page < n THEN page + 1 ELSE Null
  BY <1>2, <1>6
<1>8. QED
  BY <1>5, <1>7 DEF l, Passed

Newest == <<[field |-> "createdAt", desc |-> TRUE]>>

LEMMA NewestFirst ==
  ASSUME NEW t, NEW a, NEW b
  PROVE  Before(t, Newest, a, b) <=> t[a].createdAt > t[b].createdAt
BY DEF Before, Newest

\* A page in the default order is the rows of one rank after the other.
LEMMA PageInOrder ==
  ASSUME NEW t, RowsOK(t), DistinctIn(t), NEW S, S \subseteq DOMAIN t,
         NEW skip \in Nat, NEW take \in Nat, skip <= Cardinality(S),
         NEW s \in Pages(t, S, Newest, skip, take),
         NEW n, n = IF Cardinality(S) - skip < take THEN Cardinality(S) - skip ELSE take
  PROVE  n \in Nat /\ s \in [1..n -> S] /\ InOrder(t, S, s, skip)
<1>1. IsFiniteSet(S) /\ Cardinality(S) \in Nat
  BY FS_Subset, FS_CardinalityType DEF RowsOK
<1> DEFINE left == Cardinality(S) - skip
<1>2. n \in Nat /\ left \in Nat
  BY <1>1
<1>3. Max({0, Min({take, left})}) = n
  <2>1. Min({take, left}) = n
    <3>1. take \in Int /\ left \in Int
      BY <1>2
    <3> HIDE DEF left
    <3>2. /\ Min({take, left}) \in {take, left}
          /\ Min({take, left}) <= take /\ Min({take, left}) <= left
      BY <3>1, MinOfTwo
    <3>3. QED
      BY <3>1, <3>2 DEF left
  <2>2. \A b \in Int : Max({0, b}) \in {0, b} /\ Max({0, b}) >= 0 /\ Max({0, b}) >= b
    BY MaxOfTwo
  <2>3. QED
    BY <1>2, <2>1, <2>2
<1>4. s \in [1..n -> S]
  BY <1>3 DEF Pages
<1>5. ASSUME NEW i \in 1..n PROVE Rank(t, S, s[i]) = skip + i - 1
  <2>1. s[i] \in S /\ i \in DOMAIN s /\ i \in Nat
    BY <1>2, <1>4, <1>5
  <2> DEFINE before == {x \in S : Before(t, Newest, x, s[i])}
             upTo == {x \in S : ~Before(t, Newest, s[i], x)}
  <2>2. Cardinality(before) < skip + i /\ Cardinality(upTo) >= skip + i
    BY <2>1 DEF Pages
  <2>3. before = Newer(t, S, s[i])
    BY NewestFirst DEF Newer
  <2>4. upTo = Newer(t, S, s[i]) \cup {s[i]}
    <3>1. ASSUME NEW x \in S
          PROVE  ~(t[s[i]].createdAt > t[x].createdAt)
                   <=> t[x].createdAt > t[s[i]].createdAt \/ x = s[i]
      <4>1. t[x].createdAt \in Nat /\ t[s[i]].createdAt \in Nat
        BY <2>1 DEF RowsOK
      <4>2. t[x].createdAt = t[s[i]].createdAt => x = s[i]
        BY <2>1 DEF DistinctIn
      <4>3. QED
        BY <4>1, <4>2
    <3>2. QED
      BY <2>1, <3>1, NewestFirst DEF Newer
  <2>5. IsFiniteSet(Newer(t, S, s[i])) /\ Rank(t, S, s[i]) \in Nat
    BY <2>1, RankBounds
  <2>6. s[i] \notin Newer(t, S, s[i])
    <3>1. t[s[i]].createdAt \in Nat
      BY <2>1 DEF RowsOK
    <3>2. QED
      BY <3>1 DEF Newer
  <2>7. Cardinality(upTo) = Rank(t, S, s[i]) + 1
    BY <2>4, <2>5, <2>6, FS_AddElement DEF Rank
  <2>8. Cardinality(before) = Rank(t, S, s[i])
    BY <2>3 DEF Rank
  <2>9. QED
    BY <2>1, <2>2, <2>5, <2>7, <2>8
<1>6. QED
  BY <1>2, <1>4, <1>5 DEF InOrder

\* What is added to the rows seen so far.
LEMMA AfterPage ==
  ASSUME NEW t, RowsOK(t), DistinctIn(t), NEW S, S \subseteq DOMAIN t,
         NEW skip \in Nat, NEW n \in Nat,
         NEW s \in Seq(Ids), s \in [1..n -> S], InOrder(t, S, s, skip),
         NEW seen \in Seq(Ids), NEW R, R \subseteq S
  PROVE  /\ FirstOf(t, S, R, skip) \subseteq ToSet(seen) =>
              FirstOf(t, S, R, skip + n) \subseteq ToSet(seen \o s)
         /\ Len(seen) = skip /\ InOrder(t, S, seen, 0) =>
              Len(seen \o s) = skip + n /\ InOrder(t, S, seen \o s, 0)
<1>1. Len(seen) \in Nat /\ DOMAIN seen = 1..Len(seen)
  BY LenProperties
<1>2. Len(s) = n /\ DOMAIN s = 1..n
  BY LenProperties
<1>3. /\ seen \o s \in Seq(Ids) /\ Len(seen \o s) = Len(seen) + n
      /\ DOMAIN (seen \o s) = 1..(Len(seen) + n)
      /\ \A i \in 1..(Len(seen) + n) :
           (seen \o s)[i] = IF i <= Len(seen) THEN seen[i] ELSE s[i - Len(seen)]
  <2>1. /\ seen \o s \in Seq(Ids) /\ Len(seen \o s) = Len(seen) + Len(s)
        /\ \A i \in 1..(Len(seen) + Len(s)) :
             (seen \o s)[i] = IF i <= Len(seen) THEN seen[i] ELSE s[i - Len(seen)]
    BY ConcatProperties
  <2>2. DOMAIN (seen \o s) = 1..Len(seen \o s)
    BY <2>1, LenProperties
  <2>3. QED
    BY <1>2, <2>1, <2>2
<1>4. ASSUME FirstOf(t, S, R, skip) \subseteq ToSet(seen), NEW x \in FirstOf(t, S, R, skip + n)
      PROVE  x \in ToSet(seen \o s)
  <2>1. x \in R /\ Rank(t, S, x) < skip + n /\ Rank(t, S, x) \in Nat
    BY RankBounds DEF FirstOf
  <2>2. CASE Rank(t, S, x) < skip
    <3>1. x \in ToSet(seen)
      BY <1>4, <2>1, <2>2 DEF FirstOf
    <3>2. PICK i \in 1..Len(seen) : x = seen[i]
      BY <1>1, <3>1 DEF ToSet
    <3>3. i \in 1..(Len(seen) + n) /\ (seen \o s)[i] = x
      BY <1>1, <1>3, <3>2
    <3>4. QED
      BY <1>3, <3>3 DEF ToSet
  <2>3. CASE ~(Rank(t, S, x) < skip)
    <3>1. PICK i \in 1..n : i = Rank(t, S, x) - skip + 1
      BY <2>1, <2>3
    <3>2. Rank(t, S, s[i]) = Rank(t, S, x) /\ s[i] \in S
      BY <1>2, <2>1, <3>1 DEF InOrder
    <3>3. s[i] = x
      BY <2>1, <3>2, RankIsOfOne
    <3>4. Len(seen) + i \in 1..(Len(seen) + n) /\ (seen \o s)[Len(seen) + i] = s[i]
      BY <1>1, <1>3
    <3>5. QED
      BY <1>3, <3>3, <3>4 DEF ToSet
  <2>4. QED
    BY <2>2, <2>3
<1>5. ASSUME Len(seen) = skip, InOrder(t, S, seen, 0), NEW i \in 1..(skip + n)
      PROVE  (seen \o s)[i] \in S /\ Rank(t, S, (seen \o s)[i]) = i - 1
  <2>1. CASE i <= skip
    <3>1. i \in DOMAIN seen
      BY <1>1, <1>5, <2>1
    <3>2. (seen \o s)[i] = seen[i]
      BY <1>3, <1>5, <2>1
    <3>3. QED
      BY <1>5, <3>1, <3>2 DEF InOrder
  <2>2. CASE ~(i <= skip)
    <3>1. i - skip \in 1..n
      BY <2>2
    <3>2. (seen \o s)[i] = s[i - skip]
      BY <1>3, <1>5, <2>2
    <3>3. Rank(t, S, s[i - skip]) = skip + (i - skip) - 1 /\ s[i - skip] \in S
      BY <1>2, <3>1 DEF InOrder
    <3>4. QED
      BY <3>2, <3>3
  <2>3. QED
    BY <2>1, <2>2
<1>6. ASSUME Len(seen) = skip, InOrder(t, S, seen, 0)
      PROVE  Len(seen \o s) = skip + n /\ InOrder(t, S, seen \o s, 0)
  <2>1. DOMAIN (seen \o s) = 1..(skip + n) /\ \A i \in 1..(skip + n) : i - 1 = 0 + i - 1
    BY <1>3, <1>6
  <2>2. \A i \in 1..(skip + n) :
          (seen \o s)[i] \in S /\ Rank(t, S, (seen \o s)[i]) = 0 + i - 1
    BY <1>5, <1>6
  <2>3. QED
    BY <1>3, <1>6, <2>1, <2>2 DEF InOrder
<1>7. QED
  BY <1>4, <1>6

LEMMA ListIsFinite ==
  ASSUME NEW t, RowsOK(t), NEW q
  PROVE  ListOf(t, q) \subseteq DOMAIN t /\ Cardinality(ListOf(t, q)) \in Nat
<1>1. ListOf(t, q) \subseteq DOMAIN t
  BY DEF ListOf
<1>2. QED
  BY <1>1, FS_Subset, FS_CardinalityType DEF RowsOK

LEMMA PageKeepsCourse ==
  ASSUME NEW t, RowsOK(t), NEW w \in Walks, w.pc = "page", w.query \in Queries, OnCourse(t, w),
         NEW s \in Seq(Ids),
         s \in Pages(t, ListOf(t, w.query), sort(w.query), w.at.skip, w.at.limit),
         NEW x \in Walks,
         x = [w EXCEPT !.seen = w.seen \o s,
                       !.pc = IF w.at.hasNext THEN "count" ELSE "done",
                       !.page = IF w.at.hasNext THEN w.at.nextPage ELSE w.page]
  PROVE  OnCourse(t, x) /\ Exactly(t, x) /\ Nothing(t, x)
<1>1. /\ x.query = w.query /\ x.first = w.first /\ x.moved = w.moved /\ x.grown = w.grown
      /\ x.late = w.late /\ x.seen = w.seen \o s
      /\ x.pc = (IF w.at.hasNext THEN "count" ELSE "done")
      /\ x.page = (IF w.at.hasNext THEN w.at.nextPage ELSE w.page)
  BY DEF Walks
<1>2. Steady(x) <=> Steady(w)
  BY <1>1 DEF Steady
<1>3. CASE ~Steady(w)
  BY <1>1, <1>2, <1>3 DEF OnCourse, Exactly, Nothing, Steady
<1>4. CASE Steady(w)
  <2>1. PagesFit(t, w) /\ RowsStay(t, w) /\ SeenInOrder(t, w)
    BY <1>4 DEF OnCourse
  <2> DEFINE L == ListOf(t, w.query)
             total == Cardinality(L)
             l == PageSize(w.query)
             p == w.page
             skip == Passed(w)
  <2>2. L \subseteq DOMAIN t /\ total \in Nat
    BY ListIsFinite
  <2>3. w.query.limit \in Nat
    BY RepositoryAssumption DEF RepositoryAssumption, Queries
  <2>4. p \in Nat \ {0} /\ l \in Nat \ {0}
    BY <2>1, <2>3, PageSizeIs DEF PagesFit, Walks
  <2>5. p = 1 \/ skip < total
    BY <2>1 DEF PagesFit
  <2>6. /\ w.at.limit = l /\ w.at.skip = skip
        /\ w.at.hasNext <=> skip + l < total
        /\ w.at.hasNext => w.at.nextPage = p + 1
    <3>1. w.at = paginate(total, p, w.query.limit)
      BY <2>1 DEF PagesFit
    <3>2. QED
      BY <2>2, <2>3, <2>4, <2>5, <3>1, PaginateIs
  <2>7. skip \in Nat /\ p * l = skip + l /\ (p = 1 => skip = 0)
    <3>1. skip = (p - 1) * l
      BY DEF Passed
    <3> HIDE DEF l, p, skip
    <3>2. QED
      BY <2>4, <3>1
  <2> HIDE DEF total, l, p
  <2>8. skip <= total
    BY <2>2, <2>5, <2>7
  <2> HIDE DEF skip, L
  <2> DEFINE n == IF total - skip < l THEN total - skip ELSE l
  <2>9. ASSUME w.query.sort = <<>>, DistinctIn(t)
        PROVE  /\ n \in Nat
               /\ FirstOf(t, L, w.first, skip + n) \subseteq ToSet(x.seen)
               /\ ~w.grown => Len(x.seen) = skip + n /\ InOrder(t, L, x.seen, 0)
    <3>1. s \in Pages(t, L, Newest, skip, l)
      BY <2>6, <2>9 DEF L, sort, Newest
    <3>2. PICK k : k = n
      OBVIOUS
    <3>3. k \in Nat /\ s \in [1..k -> L] /\ InOrder(t, L, s, skip)
      BY <2>2, <2>4, <2>7, <2>8, <2>9, <3>1, <3>2, PageInOrder DEF total
    <3>4. w.seen \in Seq(Ids) /\ x.seen = w.seen \o s
      BY <1>1 DEF Walks
    <3>5. /\ w.first \subseteq L
          /\ FirstOf(t, L, w.first, skip) \subseteq ToSet(w.seen)
          /\ ~w.grown => Len(w.seen) = skip /\ InOrder(t, L, w.seen, 0)
      BY <2>1, <2>9 DEF RowsStay, SeenInOrder, L, skip
    <3>6. /\ FirstOf(t, L, w.first, skip) \subseteq ToSet(w.seen) =>
               FirstOf(t, L, w.first, skip + k) \subseteq ToSet(w.seen \o s)
          /\ Len(w.seen) = skip /\ InOrder(t, L, w.seen, 0) =>
               Len(w.seen \o s) = skip + k /\ InOrder(t, L, w.seen \o s, 0)
      BY <2>2, <2>7, <2>9, <3>3, <3>4, <3>5, AfterPage
    <3>7. QED
      BY <3>2, <3>3, <3>4, <3>5, <3>6
  <2>10. CASE w.at.hasNext
    <3>1. x.page = p + 1 /\ x.pc = "count"
      BY <1>1, <2>6, <2>10
    <3>2. Passed(x) = p * l
      <4>1. (p + 1) - 1 = p
        BY <2>4
      <4>2. QED
        BY <1>1, <3>1, <4>1 DEF Passed, l
    <3>3. PagesFit(t, x)
      <4>1. Passed(x) < total
        BY <2>6, <2>7, <2>10, <3>2
      <4>2. x.page >= 1 /\ x.pc # "page"
        BY <2>4, <3>1
      <4>3. QED
        BY <1>1, <4>1, <4>2 DEF PagesFit, total, L
    <3>4. RowsStay(t, x)
      BY <1>1, <2>1 DEF RowsStay
    <3>5. n = l
      BY <2>2, <2>4, <2>6, <2>7, <2>10
    <3>6. SeenInOrder(t, x)
      BY <1>1, <2>7, <2>9, <3>2, <3>5 DEF SeenInOrder, L
    <3>7. QED
      BY <3>1, <3>3, <3>4, <3>6 DEF OnCourse, Exactly, Nothing
  <2>11. CASE ~w.at.hasNext
    <3>1. x.pc = "done"
      BY <1>1, <2>11
    <3>2. skip + n = total
      BY <2>2, <2>4, <2>6, <2>7, <2>11
    <3> HIDE DEF n
    <3>3. \A y \in L : Rank(t, L, y) < total
      BY <2>2, RankBounds DEF total
    <3>4. w.first \subseteq L /\ (~w.grown => L \subseteq w.first)
      BY <2>1 DEF RowsStay, L
    <3>5. ASSUME w.query.sort = <<>>, DistinctIn(t) PROVE w.first \subseteq ToSet(x.seen)
      BY <2>9, <3>2, <3>3, <3>4, <3>5 DEF FirstOf
    <3>6. ASSUME w.query.sort = <<>>, DistinctIn(t), ~w.grown
          PROVE  IsInjective(x.seen) /\ ToSet(x.seen) = w.first
      <4>1. \A i \in DOMAIN x.seen : x.seen[i] \in L /\ Rank(t, L, x.seen[i]) = i - 1
        BY <2>9, <3>6 DEF InOrder
      <4>2. ToSet(x.seen) \subseteq w.first
        BY <3>4, <3>6, <4>1 DEF ToSet
      <4>3. DOMAIN x.seen \subseteq Int
        BY LenProperties DEF Walks
      <4>4. IsInjective(x.seen)
        BY <4>1, <4>3 DEF IsInjective
      <4>5. QED
        BY <3>5, <3>6, <4>2, <4>4
    <3>7. QED
      BY <1>1, <3>1, <3>5, <3>6 DEF OnCourse, Exactly, Nothing
  <2>12. QED
    BY <2>10, <2>11
<1>5. QED
  BY <1>3, <1>4

-----------------------------------------------------------------------------
(* What a write does to a walk.                                            *)

\* x is the walk w after a write that turns the table t into u.
Disturbed(t, u, w, x) ==
  /\ x.pc = w.pc /\ x.query = w.query /\ x.page = w.page /\ x.at = w.at
  /\ x.seen = w.seen /\ x.first = w.first
  /\ ~x.moved => ~w.moved /\ \A id \in DOMAIN t : u[id] = t[id]
  /\ ~x.grown => ~w.grown /\ DOMAIN u = DOMAIN t
  /\ ~x.late => ~w.late /\ w.pc # "page"

LEMMA ListGrows ==
  ASSUME NEW t, NEW u, DOMAIN t \subseteq DOMAIN u, \A id \in DOMAIN t : u[id] = t[id], NEW q
  PROVE  /\ ListOf(t, q) \subseteq ListOf(u, q)
         /\ DOMAIN u = DOMAIN t => ListOf(u, q) = ListOf(t, q)
BY DEF ListOf

LEMMA PassedIsNumber ==
  ASSUME NEW w \in Walks, w.query \in Queries
  PROVE  Passed(w) \in Int
<1>1. w.query.limit \in Nat
  BY RepositoryAssumption DEF RepositoryAssumption, Queries
<1>2. PageSize(w.query) \in Nat
  BY <1>1, PageSizeIs
<1>3. w.page - 1 \in Int
  BY DEF Walks
<1>4. \A i \in Int, j \in Nat : i * j \in Int
  OBVIOUS
<1>5. QED
  BY <1>2, <1>3, <1>4 DEF Passed

LEMMA WriteKeepsCourse ==
  ASSUME NEW t, RowsOK(t), NEW u, RowsOK(u), DOMAIN t \subseteq DOMAIN u,
         NEW w \in Walks, w.query \in Queries, NEW x, w.pc \in {"count", "page"},
         Disturbed(t, u, w, x), DistinctIn(u) => DistinctIn(t), OnCourse(t, w)
  PROVE  OnCourse(u, x)
<1> SUFFICES ASSUME Steady(x) PROVE PagesFit(u, x) /\ RowsStay(u, x) /\ SeenInOrder(u, x)
  BY DEF OnCourse
<1>1. ~w.moved /\ \A id \in DOMAIN t : u[id] = t[id]
  BY DEF Steady, Disturbed
<1>2. w.pc = "page" => ~x.grown
  BY DEF Steady, Disturbed
<1>3. Steady(w)
  BY <1>1 DEF Steady, Disturbed
<1>4. PagesFit(t, w) /\ RowsStay(t, w) /\ SeenInOrder(t, w)
  BY <1>3 DEF OnCourse
<1> DEFINE q == w.query
           L == ListOf(t, q)
           M == ListOf(u, q)
<1>5. /\ x.query = q /\ x.page = w.page /\ x.pc = w.pc /\ x.at = w.at /\ x.seen = w.seen
      /\ x.first = w.first /\ Passed(x) = Passed(w)
  BY DEF Disturbed, Passed
<1>6. L \subseteq M /\ (~x.grown => M = L /\ ~w.grown)
  BY <1>1, ListGrows DEF Disturbed
<1>7. /\ L \subseteq DOMAIN t /\ Cardinality(L) \in Nat
      /\ M \subseteq DOMAIN u /\ Cardinality(M) \in Nat /\ IsFiniteSet(M)
  BY ListIsFinite, FS_Subset DEF RowsOK
<1>8. Cardinality(L) <= Cardinality(M)
  BY <1>6, <1>7, FS_Subset
<1>9. PagesFit(u, x)
  <2>1. w.page = 1 \/ Passed(w) < Cardinality(M)
    <3>1. CASE w.page = 1
      BY <3>1
    <3>2. CASE w.page # 1
      <4>1. Passed(w) < Cardinality(L)
        BY <1>4, <3>2 DEF PagesFit
      <4>2. QED
        BY <1>7, <1>8, <4>1, PassedIsNumber
    <3>3. QED
      BY <3>1, <3>2
  <2>2. QED
    BY <1>2, <1>4, <1>5, <1>6, <2>1 DEF PagesFit
<1>10. RowsStay(u, x)
  BY <1>4, <1>5, <1>6 DEF RowsStay
<1>11. SeenInOrder(u, x)
  <2> SUFFICES ASSUME q.sort = <<>>, DistinctIn(u)
               PROVE  /\ FirstOf(u, M, w.first, Passed(w)) \subseteq ToSet(w.seen)
                      /\ ~x.grown => Len(w.seen) = Passed(w) /\ InOrder(u, M, w.seen, 0)
    BY <1>5 DEF SeenInOrder
  <2>1. /\ FirstOf(t, L, w.first, Passed(w)) \subseteq ToSet(w.seen)
        /\ ~w.grown => Len(w.seen) = Passed(w) /\ InOrder(t, L, w.seen, 0)
    BY <1>4 DEF SeenInOrder
  <2>2. w.first \subseteq L
    BY <1>4 DEF RowsStay
  <2>3. ASSUME NEW y \in FirstOf(u, M, w.first, Passed(w))
        PROVE  y \in FirstOf(t, L, w.first, Passed(w))
    <3>1. y \in w.first /\ y \in L /\ Rank(u, M, y) < Passed(w)
      BY <2>2 DEF FirstOf
    <3>2. /\ Rank(t, L, y) \in Nat /\ Rank(u, M, y) \in Nat /\ Rank(t, L, y) <= Rank(u, M, y)
      <4>1. \A z \in L : u[z] = t[z]
        BY <1>1, <1>7
      <4>2. QED
        BY <1>6, <1>7, <3>1, <4>1, RankGrows
    <3>3. QED
      BY <3>1, <3>2, PassedIsNumber DEF FirstOf
  <2>4. ASSUME ~x.grown PROVE Len(w.seen) = Passed(w) /\ InOrder(u, M, w.seen, 0)
    <3>1. M = L /\ ~w.grown
      BY <1>6, <2>4
    <3>2. \A z \in L : Rank(u, L, z) = Rank(t, L, z)
      BY <1>1, <1>7, RankStays
    <3>3. QED
      BY <2>1, <3>1, <3>2 DEF InOrder
  <2>5. QED
    BY <2>1, <2>3, <2>4
<1>12. QED
  BY <1>9, <1>10, <1>11

-----------------------------------------------------------------------------
(* The steps.                                                              *)

LEMMA SameWalk ==
  ASSUME WalkInv, table' = table, walk' = walk
  PROVE  WalkInv'
BY DEF WalkInv

LEMMA StatementKeepsCourse ==
  ASSUME Inv, WalkInv, NEW w \in Writers, Statement(w)
  PROVE  WalkInv'
<1>1. op[w].call \in Calls
  BY DEF Statement, Inv, OpsOK, OpOK
<1>2. CASE Error(op[w].call) # "none"
  BY <1>2, SameWalk DEF Statement
<1>3. CASE Error(op[w].call) = "none"
  <2>1. PICK t, u : t = table /\ u = Result(op[w].call)
    OBVIOUS
  <2>2. PICK v, x : v = walk /\ x = Watched(u)
    OBVIOUS
  <2>3. table' = u /\ walk' = x
    BY <1>3, <2>1, <2>2 DEF Statement
  <2>4. v \in Walks /\ (v.pc \in {"count", "page"} => v.query \in Queries)
    BY <2>2 DEF Inv, WalkOK
  <2>5. RowsOK(t) /\ RowsOK(u)
    <3>1. TableOK'
      BY StatementHolds DEF Inv
    <3>2. RowsOK(table')
      BY <3>1, <2>3 DEF TableOK, RowOK, RowsOK
    <3>3. QED
      BY <2>1, <2>3, <3>2, TableIsOK DEF Inv
  <2>6. /\ DOMAIN t \subseteq DOMAIN u
        /\ \A id \in DOMAIN t : u[id].createdAt = t[id].createdAt
    BY <1>1, <1>3, <2>1, ResultHolds DEF Inv
  <2>7. DistinctIn(u) => DistinctIn(t)
    BY <2>6 DEF DistinctIn
  <2>8. OnCourse(t, v) /\ Exactly(t, v) /\ Nothing(t, v)
    BY <2>1, <2>2 DEF WalkInv
  <2>9. OnCourse(u, x) /\ Exactly(u, x) /\ Nothing(u, x)
    <3>1. CASE v.pc \notin {"count", "page"}
      <4>1. x = v
        BY <2>2, <3>1 DEF Watched
      <4>2. QED
        BY <2>7, <2>8, <3>1, <4>1 DEF OnCourse, Exactly, Nothing
    <3>2. CASE u = t
      <4>1. x = v
        BY <2>1, <2>2, <3>2 DEF Watched
      <4>2. QED
        BY <2>8, <3>2, <4>1
    <3>3. CASE v.pc \in {"count", "page"} /\ u # t
      <4>1. PICK gone : gone = {id \in DOMAIN t : t[id] # u[id]}
        OBVIOUS
      <4>2. x = [v EXCEPT !.moved = v.moved \/ gone # {},
                          !.grown = v.grown \/ DOMAIN u # DOMAIN t,
                          !.late = v.late \/ v.pc = "page"]
        BY <2>1, <2>2, <3>3, <4>1 DEF Watched
      <4>3. Disturbed(t, u, v, x)
        BY <2>4, <4>1, <4>2 DEF Disturbed, Walks
      <4>4. OnCourse(u, x)
        BY <2>4, <2>5, <2>6, <2>7, <2>8, <3>3, <4>3, WriteKeepsCourse
      <4>5. x.pc # "done"
        BY <3>3, <4>3 DEF Disturbed
      <4>6. QED
        BY <4>4, <4>5 DEF Exactly, Nothing
    <3>4. QED
      BY <3>1, <3>2, <3>3
  <2>10. QED
    BY <2>3, <2>9 DEF WalkInv
<1>4. QED
  BY <1>2, <1>3

LEMMA ListIsListOf == ASSUME NEW q PROVE List(q) = ListOf(table, q)
BY DEF List, ListOf

LEMMA BeginWalkKeepsCourse ==
  ASSUME Inv, NEW q \in workload.queries, BeginWalk(q)
  PROVE  WalkInv'
<1>1. PICK t : t = table
  OBVIOUS
<1>2. PICK x : x = walk'
  OBVIOUS
<1>3. x.pc \in {"refused", "count"} /\ table' = t
  BY <1>1, <1>2 DEF BeginWalk, Rest
<1>4. OnCourse(t, x)
  <2>1. CASE x.pc # "count"
    BY <1>3, <2>1 DEF OnCourse
  <2>2. CASE x.pc = "count"
    <3>1. /\ x.query = q /\ x.first = ListOf(t, q) /\ x.page = 1 /\ x.seen = <<>>
      BY <1>1, <1>2, <2>2, ListIsListOf DEF BeginWalk, Rest
    <3>2. q.limit \in Nat
      BY RepositoryAssumption DEF RepositoryAssumption, Inv, CountersOK
    <3>3. Passed(x) = 0
      <4>1. PageSize(q) \in Nat
        BY <3>2, PageSizeIs
      <4>2. QED
        BY <3>1, <4>1 DEF Passed
    <3>4. FirstOf(t, ListOf(t, q), x.first, 0) = {}
      <4>1. \A y \in ListOf(t, q) : Rank(t, ListOf(t, q), y) \in Nat
        BY <1>1, TableIsOK, ListIsFinite, RankBounds DEF Inv
      <4>2. QED
        BY <3>1, <4>1 DEF FirstOf
    <3>5. InOrder(t, ListOf(t, q), <<>>, 0) /\ Len(<<>>) = 0
      BY DEF InOrder
    <3>6. PagesFit(t, x)
      BY <2>2, <3>1 DEF PagesFit
    <3>7. RowsStay(t, x)
      BY <3>1 DEF RowsStay
    <3>8. SeenInOrder(t, x)
      BY <3>1, <3>3, <3>4, <3>5 DEF SeenInOrder
    <3>9. QED
      BY <3>6, <3>7, <3>8 DEF OnCourse
  <2>3. QED
    BY <2>1, <2>2
<1>5. Exactly(t, x) /\ Nothing(t, x)
  BY <1>3 DEF Exactly, Nothing
<1>6. QED
  BY <1>2, <1>3, <1>4, <1>5 DEF WalkInv

LEMMA calculateTotalKeepsCourse ==
  ASSUME Inv, WalkInv, calculateTotal
  PROVE  WalkInv'
<1>1. PICK t, w : t = table /\ w = walk
  OBVIOUS
<1>2. PICK at : at = paginate(Cardinality(ListOf(t, w.query)), w.page, w.query.limit)
  OBVIOUS
<1>3. PICK x : x = [w EXCEPT !.pc = "page", !.at = at]
  OBVIOUS
<1>4. table' = t /\ walk' = x /\ w.pc = "count" /\ w \in Walks
  BY <1>1, <1>2, <1>3, ListIsListOf DEF calculateTotal, Inv, WalkOK
<1>5. /\ x.pc = "page" /\ x.at = at /\ x.query = w.query /\ x.page = w.page /\ x.seen = w.seen
      /\ x.first = w.first /\ x.moved = w.moved /\ x.grown = w.grown /\ x.late = w.late
  BY <1>3, <1>4 DEF Walks
<1>6. Passed(x) = Passed(w) /\ (Steady(x) <=> Steady(w))
  BY <1>5 DEF Passed, Steady
<1>7. ASSUME Steady(x) PROVE PagesFit(t, x) /\ RowsStay(t, x) /\ SeenInOrder(t, x)
  <2>1. PagesFit(t, w) /\ RowsStay(t, w) /\ SeenInOrder(t, w)
    BY <1>1, <1>4, <1>6, <1>7 DEF WalkInv, OnCourse
  <2>2. PagesFit(t, x)
    BY <1>2, <1>5, <1>6, <2>1 DEF PagesFit
  <2>3. RowsStay(t, x)
    BY <1>5, <2>1 DEF RowsStay
  <2>4. SeenInOrder(t, x)
    BY <1>5, <1>6, <2>1 DEF SeenInOrder
  <2>5. QED
    BY <2>2, <2>3, <2>4
<1>8. OnCourse(t, x) /\ Exactly(t, x) /\ Nothing(t, x)
  BY <1>5, <1>7 DEF OnCourse, Exactly, Nothing
<1>9. QED
  BY <1>4, <1>8 DEF WalkInv

LEMMA findManyKeepsCourse ==
  ASSUME Inv, WalkInv, findMany
  PROVE  WalkInv'
<1>1. PICK t, w, x : t = table /\ w = walk /\ x = walk'
  OBVIOUS
<1>2. /\ w \in Walks /\ w.pc = "page" /\ w.query \in Queries /\ RowsOK(t) /\ OnCourse(t, w)
      /\ table' = t
  BY <1>1, TableIsOK DEF findMany, Inv, WalkOK, WalkInv
<1>3. x \in Walks
  BY <1>1, findManyHolds DEF Inv, WalkOK
<1>4. PICK s \in Pages(t, ListOf(t, w.query), sort(w.query), w.at.skip, w.at.limit) :
        x = [w EXCEPT !.seen = w.seen \o s,
                      !.pc = IF w.at.hasNext THEN "count" ELSE "done",
                      !.page = IF w.at.hasNext THEN w.at.nextPage ELSE w.page]
  BY <1>1, ListIsListOf DEF findMany
<1>5. s \in Seq(Ids)
  <2>1. ListOf(t, w.query) \subseteq Ids
    BY <1>1 DEF ListOf, Inv, TableOK
  <2>2. w.at.skip \in Int /\ w.at.limit \in Int /\ Cardinality(ListOf(t, w.query)) \in Nat
    BY <1>1, <1>2, ListIsFinite DEF Inv, WalkOK, Ats
  <2>3. s \in Seq(ListOf(t, w.query))
    BY <1>4, <2>2, PageIsSequence
  <2>4. QED
    BY <2>1, <2>3
<1>6. OnCourse(t, x) /\ Exactly(t, x) /\ Nothing(t, x)
  BY <1>2, <1>3, <1>4, <1>5, PageKeepsCourse
<1>7. QED
  BY <1>1, <1>2, <1>6 DEF WalkInv

LEMMA IdleIsOnCourse == ASSUME walk'.pc = "idle" PROVE WalkInv'
BY DEF WalkInv, OnCourse, Exactly, Nothing

LEMMA NextKeepsCourse == Inv /\ WalkInv /\ [Next]_vars => WalkInv'
<1> SUFFICES ASSUME Inv, WalkInv, [Next]_vars PROVE WalkInv'
  OBVIOUS
<1>1. ASSUME NEW w \in Writers, Write(w) PROVE WalkInv'
  <2>1. CASE Statement(w)
    BY <2>1, StatementKeepsCourse
  <2>2. CASE ~Statement(w)
    BY <1>1, <2>2, SameWalk DEF Write, OpenTransaction, Select, GiveUp, Expire, End
  <2>3. QED
    BY <2>1, <2>2
<1>2. ASSUME NEW w \in Writers, NEW call \in workload.calls, Begin(w, call) PROVE WalkInv'
  BY <1>2, SameWalk DEF Begin
<1>3. ASSUME NEW q \in workload.queries, BeginWalk(q) PROVE WalkInv'
  BY <1>3, BeginWalkKeepsCourse
<1>4. CASE calculateTotal
  BY <1>4, calculateTotalKeepsCourse
<1>5. CASE findMany
  BY <1>5, findManyKeepsCourse
<1>6. CASE Abandon
  BY <1>6, RestHolds, IdleIsOnCourse DEF Abandon
<1>7. CASE UNCHANGED vars
  BY <1>7, SameWalk DEF vars
<1>8. QED
  BY <1>1, <1>2, <1>3, <1>4, <1>5, <1>6, <1>7 DEF Next

\* Whatever the pages and whoever writes meanwhile, a walk in the default order
\* shows each row once when nothing changes, and misses none when rows are only
\* added and none of them between a total and its page.
THEOREM WalkHoldsAlways == Spec => []WalkHolds
<1>1. Init => WalkInv
  BY DEF Init, Rest, WalkInv, OnCourse, Exactly, Nothing
<1>2. QED
  BY <1>1, InvAlways, NextKeepsCourse, WalkInvGivesWalkHolds, PTL DEF Spec
=============================================================================
