----------------------------- MODULE ListQuery -----------------------------
(***************************************************************************)
(* From the query string of a list to what the database is asked, as in    *)
(* common/utils/api-features.util.ts.  A condition is [op, values], the     *)
(* where of a query a function from fields to conditions and, for a search, *)
(* alternatives of which one has to hold.  A text of the query string is    *)
(* [looks, v]: what its characters look like, and the value they stand for. *)
(***************************************************************************)
EXTENDS Integers, Sequences, FiniteSets, SequencesExt

CONSTANTS
  Column,            \* the type of each field in the table
  Like,              \* what the name of each field ends or begins like
  Searchable,        \* fields a search looks at
  EnumOf,            \* the values of the enum fields among them
  MIN_LIMIT, DEFAULT_LIMIT, MAX_LIMIT,
  Null

Fields == DOMAIN Column
EnumFields == DOMAIN EnumOf
ASSUME ListQueryAssumption ==
  /\ Searchable \subseteq Fields /\ EnumFields \subseteq Searchable
  /\ DOMAIN Like = Fields
  /\ {MIN_LIMIT, DEFAULT_LIMIT, MAX_LIMIT} \subseteq Nat \ {0}
  /\ MIN_LIMIT <= DEFAULT_LIMIT /\ DEFAULT_LIMIT <= MAX_LIMIT

inferFieldType(key) ==
  CASE Like[key] = "id" -> "string"
    [] Like[key] \in {"At", "Date"} -> "date"
    [] Like[key] \in {"is", "has"} -> "boolean"
    [] Like[key] \in {"count", "number", "price"} -> "number"
    [] OTHER -> "string"

\* true and false are no strings, whatever the field.
detectAndConvertSingle(text, type) ==
  [type |-> IF text.looks = "boolean" THEN "boolean"
            ELSE IF text.looks \in {"number", "date"} /\ text.looks = type THEN type
            ELSE "string",
   v |-> text.v]

Undefined == [op |-> "undefined", values |-> {}]
Invalid == [op |-> "invalid", values |-> {}]

\* raw is [form, texts], of one text unless it is a list.
parseFilterValue(key, raw) ==
  LET type == inferFieldType(key)
      values == {detectAndConvertSingle(t, type) : t \in raw.texts}
  IN CASE raw.form \in {"plain", "equal"} -> [op |-> "is", values |-> values]
       [] raw.form = "list" ->
            IF values = {} THEN Undefined ELSE [op |-> "is", values |-> values]
       [] raw.form = "not" -> [op |-> "not", values |-> values]
       [] raw.form = "match" ->
            [op |-> "contains", values |-> {[type |-> "string", v |-> t.v] : t \in raw.texts}]
       [] raw.form = "above" ->
            IF type \in {"number", "date"} /\ \E x \in values : x.type = "string"
            THEN Invalid ELSE [op |-> "above", values |-> values]

\* The later condition of a field takes the place of the earlier.
EarlierWins(target, source) ==
  [k \in DOMAIN target \cup DOMAIN source |->
     IF k \in DOMAIN target THEN target[k] ELSE source[k]]

deepMerge(target, source) ==
  [k \in DOMAIN target \cup DOMAIN source |->
     IF k \in DOMAIN source THEN source[k] ELSE target[k]]

\* filters is a function from fields to raw values.
Parsed(filters) == [k \in DOMAIN filters |-> parseFilterValue(k, filters[k])]
FilterInvalid(filters) == \E k \in DOMAIN filters : Parsed(filters)[k].op = "invalid"
filter(filters) ==
  [k \in {f \in DOMAIN filters : Parsed(filters)[f].op # "undefined"} |-> Parsed(filters)[k]]

\* Every word on every searchable field; an enum field only with the values
\* that contain the word.
search(words) ==
  {p \in Searchable \X words : p[1] \in EnumFields => p[2].v \in EnumOf[p[1]]}

Alternative(f, w) ==
  IF f \in EnumFields THEN [op |-> "is", values |-> {[type |-> Column[f], v |-> w.v]}]
  ELSE IF inferFieldType(f) = "string"
  THEN [op |-> "contains", values |-> {[type |-> "string", v |-> w.v]}]
  ELSE [op |-> "is", values |-> {detectAndConvertSingle(w, inferFieldType(f))}]

\* newest first unless the query says otherwise; sort is a sequence of
\* [field, desc].
sort(q) == IF q.sort = <<>> THEN <<[field |-> "createdAt", desc |-> TRUE]>> ELSE q.sort

-----------------------------------------------------------------------------
(* What the database does with it.                                         *)

\* Prisma refuses a value that is not of the type of the column.
WellTyped(where) ==
  \A k \in DOMAIN where :
    /\ \A x \in where[k].values : x.v = Null \/ x.type = Column[k]
    /\ where[k].op = "contains" => Column[k] = "string"

\* NULL is neither in nor out of anything but IS NULL.
Satisfies(row, k, condition) ==
  LET vs == {x.v : x \in condition.values} IN
  CASE condition.op \in {"is", "contains"} -> row[k] \in vs
    [] condition.op = "not" -> row[k] # Null /\ row[k] \notin vs
    [] condition.op = "above" -> row[k] # Null /\ \A v \in vs : row[k] > v

Matches(row, where, words) ==
  /\ \A k \in DOMAIN where : Satisfies(row, k, where[k])
  /\ words # {} => \E p \in search(words) : Satisfies(row, p[1], Alternative(p[1], p[2]))

Before(table, order, a, b) ==
  \E i \in DOMAIN order :
    /\ \A j \in 1..(i - 1) : table[a][order[j].field] = table[b][order[j].field]
    /\ LET x == table[a][order[i].field]
           y == table[b][order[i].field]
       IN IF order[i].desc THEN x > y ELSE x < y

\* What skip and take may return: a row stands after those before it, and among
\* its equals anywhere.
Pages(table, ids, order, skip, take) ==
  {s \in [1..Max({0, Min({take, Cardinality(ids) - skip})}) -> ids] :
     IsInjective(s) /\ \A i \in DOMAIN s :
       /\ Cardinality({x \in ids : Before(table, order, x, s[i])}) < skip + i
       /\ Cardinality({x \in ids : ~Before(table, order, s[i], x)}) >= skip + i}

-----------------------------------------------------------------------------
(* Pages.  0 stands for a page or a limit that is absent or no number.      *)

\* Pages counted from 0.
fromZero(total, page, limit) ==
  LET l == Min({MAX_LIMIT, Max({MIN_LIMIT, IF limit = 0 THEN DEFAULT_LIMIT ELSE limit})})
      pages == (total + l - 1) \div l
      safePage == IF pages = 0 THEN 1 ELSE Min({pages, Max({page, 1})})
  IN [totalRecords |-> total, totalPages |-> pages, currentPage |-> safePage,
      limit |-> l, skip |-> safePage * l, hasNext |-> safePage < pages,
      nextPage |-> IF safePage < pages THEN safePage + 1 ELSE Null]

paginate(total, page, limit) ==
  LET l == Min({MAX_LIMIT, Max({MIN_LIMIT, IF limit = 0 THEN DEFAULT_LIMIT ELSE limit})})
      pages == (total + l - 1) \div l
      safePage == IF pages = 0 THEN 1 ELSE Min({pages, Max({page, 1})})
  IN [totalRecords |-> total, totalPages |-> pages, currentPage |-> safePage,
      limit |-> l, skip |-> (safePage - 1) * l, hasNext |-> safePage < pages,
      nextPage |-> IF safePage < pages THEN safePage + 1 ELSE Null]
=============================================================================
