------------------------------ MODULE ListQuery ------------------------------
(***************************************************************************)
(* A list query: createQueryParametersSchema parses what a client sent     *)
(* into filters, sort and pagination, SqlQueryBuilder makes the statements *)
(* for one page and its count of them, and PostgreSQL (external) answers   *)
(* with the rows in an order that leaves ties as they come.                *)
(*                                                                         *)
(* A query has the client's part (filters, sort, page, pageSize) and the   *)
(* server's: whether its schema is strict, the enforced and the default    *)
(* order and the where(...) conditions of its DAO.                         *)
(***************************************************************************)
EXTENDS FilterSql, FiniteSetsExt

CONSTANTS
  Kind,             \* of each field of the filter shape
  DefaultPageSize, MaxPageSize

ASSUME ListQueryAssumption ==
  /\ Kind \in [DOMAIN Kind -> {"string", "number", "boolean", "enum"}]
  /\ DefaultPageSize \in Nat \ {0} /\ MaxPageSize \in Nat \ {0}

OperatorsByKind ==
  [string |-> {"contains", "in", "notIn", "isNull", "isNotNull"},
   number |-> {"gt", "gte", "lt", "lte", "in", "notIn", "isNull", "isNotNull"},
   boolean |-> {"isNull", "isNotNull"},
   enum |-> {"in", "notIn", "isNull", "isNotNull"}]

-----------------------------------------------------------------------------
(* The schema. An invalid number is 0, an ill-typed value has no element.  *)

KnownKey(f) ==
  /\ f.field \in DOMAIN Kind
  /\ f.suffix \in {"bare"} \cup OperatorsByKind[Kind[f.field]]

IllTyped(f) == IF f.value.many THEN f.suffix \notin {"in", "notIn"} ELSE f.value.items = {}

SortValid(entry) == entry.field \in DOMAIN Kind /\ entry.dir \in {"asc", "desc"}

(* The issues of a query: a client's mistakes pass unless the schema is    *)
(* strict, a value that is not of its field's type never does.             *)
Rejected(query) ==
  \/ \E f \in Range(query.filters) : KnownKey(f) /\ IllTyped(f)
  \/ /\ query.strict
     /\ \/ \E f \in Range(query.filters) : ~KnownKey(f)
        \/ \E entry \in Range(query.sort) : ~SortValid(entry)
        \/ 0 \in query.page \cup query.pageSize

ParsedFilters(query) ==
  Kept(query.filters, {i \in DOMAIN query.filters : KnownKey(query.filters[i])})

ParseSort(query) ==
  Kept(query.sort, {i \in DOMAIN query.sort :
                     /\ SortValid(query.sort[i])
                     /\ \A j \in 1..(i - 1) : query.sort[j] # query.sort[i]})

(* A number that was sent, if it was and is positive.                      *)
Positive(sent, default) == IF sent \in {{}, {0}} THEN default ELSE CHOOSE n \in sent : TRUE

ParsePagination(query) ==
  IF query.page = {} /\ query.pageSize = {} THEN {}
  ELSE {[page |-> Positive(query.page, 1),
         pageSize |-> IF query.pageSize \in {{}, {0}} THEN DefaultPageSize
                      ELSE Min({Positive(query.pageSize, DefaultPageSize), MaxPageSize})]}

-----------------------------------------------------------------------------
(* The builder. The handler's own filters replace the client's of their    *)
(* keys.                                                                   *)

BuildFails(query) == \E c \in Range(query.conditions) : FragmentMismatch(c)

SameFilterKey(f, g) == f.field = g.field /\ f.suffix = g.suffix

(* Mutant: a key that is set stays as it was set first.                    *)
FirstFilterWins(query, own) ==
  ParsedFilters(query)
  \o Kept(own, {i \in DOMAIN own :
                 \A f \in Range(ParsedFilters(query)) : ~SameFilterKey(f, own[i])})

EffectiveFilters(query, own) ==
  LET parsed == ParsedFilters(query)
  IN Kept(parsed, {i \in DOMAIN parsed : \A g \in Range(own) : ~SameFilterKey(parsed[i], g)}) \o own

Order(query) ==
  query.enforced \o (IF ParseSort(query) # <<>> THEN ParseSort(query) ELSE query.defaults)

(* Mutant: pages are counted from 0.                                       *)
OffsetFromZero(page) == page.page * page.pageSize

Offset(page) == (page.page - 1) * page.pageSize

(* SELECT ... LIMIT OFFSET, and SELECT COUNT with the same parameters.     *)
Build(query, own, page) ==
  LET filters == EffectiveFilters(query, own)
      bound == Bound(filters, FALSE)
  IN [clauses |-> Clauses(filters, 0, FALSE) \o Rebased(query.conditions, Len(bound)),
      values |-> bound \o [i \in DOMAIN query.conditions |-> Head(query.conditions[i].params)],
      order |-> Order(query),
      limit |-> page.pageSize,
      offset |-> Offset(page)]

-----------------------------------------------------------------------------
(* The database                                                            *)

Selected(table, product) ==
  {row \in table : Selects(product.clauses, product.values, row)}

(* NULLS LAST ascending, NULLS FIRST descending.                           *)
Below(a, b) == a # NULL /\ (b = NULL \/ a < b)

Precedes(order, a, b) ==
  \E k \in DOMAIN order :
    /\ \A j \in 1..(k - 1) : a[order[j].field] = b[order[j].field]
    /\ IF order[k].dir = "desc"
       THEN Below(b[order[k].field], a[order[k].field])
       ELSE Below(a[order[k].field], b[order[k].field])

(* Every order the rows may come in.                                       *)
Arranged(rows, order) ==
  {s \in SetToSeqs(rows) : \A i, j \in DOMAIN s : Precedes(order, s[i], s[j]) => i < j}

(* Mutant: the row at the offset that the page before ends with.           *)
PageFromLast(s, product) ==
  SubSeq(s, Max({1, product.offset}), Min({Len(s), product.offset + product.limit}))

Page(s, product) ==
  SubSeq(s, product.offset + 1, Min({Len(s), product.offset + product.limit}))
=============================================================================
