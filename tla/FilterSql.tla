------------------------------ MODULE FilterSql ------------------------------
(***************************************************************************)
(* Filters and the WHERE clauses made of them, on the read side            *)
(* (SqlQueryBuilder.filters and where) and on the write side (buildWhere). *)
(* A filter has a field, the operator of its key's suffix or "bare", and a *)
(* value: a scalar is the set of itself, a list the set of its elements.   *)
(* A clause has the place of its parameter among the statement's values, 0 *)
(* when it binds none. Cells and scalars are numbers, some with a name.    *)
(***************************************************************************)
EXTENDS Naturals, FiniteSets, Sequences, SequencesExt

NULL == 0        \* the cell's, and a bare null
EmptyText == 8   \* '', contained in every text
No == 9          \* the boolean false

(* FilterQuery: nothing says of which type a value is. A scalar that is    *)
(* absent has no element.                                                  *)
Value == {v \in [many : BOOLEAN, items : SUBSET (NULL..No)] :
           v.many \/ \A a, b \in v.items : a = b}

Filter == [field : STRING, suffix : STRING, value : Value]

(* The types of FilterQuery: what the operators of membership take is a    *)
(* list, what the others take is not, and a bare field takes either.       *)
Fits(f) == f.suffix = "bare" \/ f.value.many = (f.suffix \in {"in", "notIn", "notInStrict"})

Scalar(v) == [many |-> FALSE, items |-> {v}]
List(s) == [many |-> TRUE, items |-> s]

Operators == {"eq", "ne", "contains", "in", "notIn", "notInStrict", "gt", "gte", "lt", "lte",
              "isNull", "isNotNull"}

(* parseFilterKey: a key without a suffix means eq, other suffixes throw.  *)
UnknownOperator(f) == f.suffix \notin Operators \cup {"bare"}
ParsedOperator(f) == IF f.suffix = "bare" THEN "eq" ELSE f.suffix

FilterOperator(f, arrayAsIn) ==
  CASE f.suffix = "bare" /\ f.value = Scalar(NULL) -> "isNull"
    [] f.suffix = "bare" /\ arrayAsIn /\ f.value.many -> "in"
    [] OTHER -> ParsedOperator(f)

(* isNull: false is IS NOT NULL, and the other way round.                  *)
SqlOperator(f, arrayAsIn) ==
  LET op == FilterOperator(f, arrayAsIn)
  IN CASE op = "isNull" /\ f.value = Scalar(No) -> "isNotNull"
       [] op = "isNotNull" /\ f.value = Scalar(No) -> "isNull"
       [] OTHER -> op

Binds(f, arrayAsIn) == SqlOperator(f, arrayAsIn) \notin {"isNull", "isNotNull"}

(* The elements of a sequence at some of its places, in their order.       *)
Kept(s, places) ==
  [k \in 1..Cardinality(places) |->
    s[CHOOSE i \in places : Cardinality({j \in places : j <= i}) = k]]

(* Mutant: the clauses of an UPDATE count their parameters from 1.         *)
ClausesFromOne(filters, start, arrayAsIn) ==
  [i \in DOMAIN filters |->
    [field |-> filters[i].field,
     op |-> SqlOperator(filters[i], arrayAsIn),
     at |-> IF Binds(filters[i], arrayAsIn)
            THEN Cardinality({j \in 1..i : Binds(filters[j], arrayAsIn)})
            ELSE 0]]

(* The clauses of filters whose parameters follow `start` others.          *)
Clauses(filters, start, arrayAsIn) ==
  [i \in DOMAIN filters |->
    [field |-> filters[i].field,
     op |-> SqlOperator(filters[i], arrayAsIn),
     at |-> IF Binds(filters[i], arrayAsIn)
            THEN start + Cardinality({j \in 1..i : Binds(filters[j], arrayAsIn)})
            ELSE 0]]

Bound(filters, arrayAsIn) ==
  LET bound == Kept(filters, {i \in DOMAIN filters : Binds(filters[i], arrayAsIn)})
  IN [i \in DOMAIN bound |-> bound[i].value]

(* A fragment is a comparison with one parameter; its question mark is     *)
(* numbered from the parameters before it.                                 *)
FragmentMismatch(fragment) == fragment.marks # Len(fragment.params)

Rebased(fragments, start) ==
  [i \in DOMAIN fragments |->
    [field |-> fragments[i].field, op |-> fragments[i].op, at |-> start + i]]

-----------------------------------------------------------------------------
(* The database: whether a clause is true of a cell. No comparison with    *)
(* NULL is, but everything differs from all elements of an empty array.    *)
DiffersFromAll(cell, items) ==
  items = {} \/ (cell # NULL /\ NULL \notin items /\ cell \notin items)

IsTrue(op, cell, value) ==
  LET v == CHOOSE x \in value.items : TRUE
      known == cell # NULL /\ v # NULL
  IN CASE op = "isNull" -> cell = NULL
       [] op = "isNotNull" -> cell # NULL
       [] op = "in" -> cell # NULL /\ cell \in value.items
       [] op = "notInStrict" -> DiffersFromAll(cell, value.items)
       [] op = "notIn" -> DiffersFromAll(cell, value.items) \/ cell = NULL
       [] op = "eq" -> known /\ cell = v
       [] op = "ne" -> known /\ cell # v
       [] op = "contains" -> known /\ v \in {cell, EmptyText}
       [] op = "gt" -> known /\ cell > v
       [] op = "gte" -> known /\ cell >= v
       [] op = "lt" -> known /\ cell < v
       [] op = "lte" -> known /\ cell <= v

Selects(clauses, values, row) ==
  \A c \in Range(clauses) :
    IsTrue(c.op, row[c.field], IF c.at = 0 THEN Scalar(NULL) ELSE values[c.at])

-----------------------------------------------------------------------------
(* What the filters are documented to mean, for the properties.            *)
Means(f, cell, arrayAsIn) ==
  LET x == f.value.items
  IN CASE f.suffix = "bare" /\ f.value = Scalar(NULL) -> cell = NULL
       [] f.suffix = "bare" /\ f.value # Scalar(NULL) /\ (arrayAsIn \/ ~f.value.many) ->
            cell # NULL /\ cell \in x
       [] f.suffix \in {"in", "eq"} -> cell # NULL /\ cell \in x
       [] f.suffix = "ne" -> cell # NULL /\ x \cap {NULL, cell} = {}
       [] f.suffix = "notIn" -> cell = NULL \/ x \cap {NULL, cell} = {}
       [] f.suffix = "notInStrict" -> x = {} \/ (cell # NULL /\ x \cap {NULL, cell} = {})
       [] f.suffix = "contains" -> cell # NULL /\ x \cap {cell, EmptyText} # {}
       [] f.suffix \in {"gt", "gte"} ->
            /\ cell # NULL /\ NULL \notin x
            /\ \A v \in x : cell > v \/ (f.suffix = "gte" /\ cell = v)
       [] f.suffix \in {"lt", "lte"} ->
            /\ cell # NULL /\ NULL \notin x
            /\ \A v \in x : cell < v \/ (f.suffix = "lte" /\ cell = v)
       [] f.suffix = "isNull" -> (cell = NULL) = (f.value # Scalar(No))
       [] f.suffix = "isNotNull" -> (cell # NULL) = (f.value # Scalar(No))

Meant(filters, row, arrayAsIn) ==
  \A f \in Range(filters) : Means(f, row[f.field], arrayAsIn)
=============================================================================
