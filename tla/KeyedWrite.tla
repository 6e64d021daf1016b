----------------------------- MODULE KeyedWrite -----------------------------
(***************************************************************************)
(* KeyedWriteDao over PgWriteDbAdapter: one bulk, predicate or key-set     *)
(* write, from its checks to its statements, on the caller's transaction,  *)
(* on one the adapter opens for a batch of several statements, or on none. *)
(* The types of the columns are cached, and all rows of a batch have the   *)
(* columns of the first, as the interface asks. PostgreSQL is external.    *)
(*                                                                         *)
(* A statement has its text and its values; the text refers to a value by  *)
(* its place. Rows are functions from columns to cells.                    *)
(***************************************************************************)
EXTENDS FilterSql, FiniteSetsExt

CONSTANTS
  InitTable,        \* the rows of the table
  Column,           \* its columns
  ActorColumn,      \* updated_by, which the DAO stamps with its actor
  Actor,
  MaxParameters     \* that a statement can bind

ASSUME KeyedWriteAssumption ==
  /\ IsFiniteSet(Column) /\ IsFiniteSet(InitTable) /\ InitTable \subseteq [Column -> Nat]
  /\ ActorColumn \in Column /\ Actor \in Nat
  /\ MaxParameters \in Nat \ {0}

(* A row, or what a caller gives of one.                                   *)
IsPartialRow(row) == DOMAIN row \subseteq Column /\ row \in [DOMAIN row -> Nat]

(* A call, as the types and the comments of the interface have it: its     *)
(* where is about columns of the table, keys are without NULL, the actor   *)
(* is no part of a key, and the rows of a batch have the same columns and, *)
(* to be updated, different keys.                                          *)
IsKeyedCall(c) ==
  /\ c.rows \in Seq(Range(c.rows)) /\ \A row \in Range(c.rows) \cup {c.set} : IsPartialRow(row)
  /\ c.where \in Seq(Filter) /\ \A f \in Range(c.where) : f.field \in Column /\ Fits(f)
  /\ c.key \in Seq(Column \ {ActorColumn})
  /\ \A row \in Range(c.rows) : \A column \in Range(c.key) \cap DOMAIN row : row[column] # NULL
  /\ c.method \in {"createMany", "updateMany"} =>
       \A row \in Range(c.rows) : DOMAIN row = DOMAIN c.rows[1]
  /\ c.method = "updateMany" /\ c.key # <<>> =>
       \A i, j \in DOMAIN c.rows :
         /\ Range(c.key) \subseteq DOMAIN c.rows[i] \cap DOMAIN c.rows[j]
         /\ \A column \in Range(c.key) : c.rows[i][column] = c.rows[j][column]
         => i = j

VARIABLES
  op,               \* the call: its method, arguments, the key columns of its DAO, the
                    \* capabilities of its adapter, and whether it is given a trx
  table,            \* the committed rows
  pending,          \* the rows as the open transaction sees them
  statements,       \* those not yet run
  write             \* where the write stands

writeVars == <<op, table, pending, statements, write>>

WriteMethods == {"createMany", "updateMany", "deleteMany", "updateBy", "deleteBy"}

KeyedWriteInit(ops) ==
  /\ op \in ops
  /\ table = InitTable /\ pending = InitTable
  /\ statements = <<>>
  /\ write = IF op.method \in WriteMethods THEN "idle" ELSE "none"

KeyColumns == op.key

-----------------------------------------------------------------------------
(* What the DAO refuses                                                    *)

(* Mutant: only an empty where is looked for.                              *)
NeverMatchesAll(f) == FALSE

MatchesEveryRow(f) ==
  \/ ParsedOperator(f) \in {"notIn", "notInStrict"} /\ f.value = List({})
  \/ ParsedOperator(f) = "contains" /\ f.value = Scalar(EmptyText)

NoValue(f) == ~f.value.many /\ f.value.items = {}

(* strictWhere: all rows are meant only when the caller says so.           *)
WhereRefused ==
  /\ ~op.allRows
  /\ \/ op.where = <<>>
     \/ \E f \in Range(op.where) : UnknownOperator(f) \/ NoValue(f) \/ MatchesEveryRow(f)

(* assertSettable                                                          *)
SetRefused == DOMAIN op.set = {} \/ ActorColumn \in DOMAIN op.set

KeyMissing(row) == ~(Range(KeyColumns) \subseteq DOMAIN row)

(* A composite key, and an adapter that has no methods for several: the    *)
(* keys are looked at one by one, too.                                     *)
PerKey ==
  /\ op.method \in {"deleteMany", "findManyForUpdateByKeys"}
  /\ Len(KeyColumns) > 1 /\ ~op.byKeys

DaoThrows ==
  CASE op.method \in {"updateMany", "deleteMany"} ->
         KeyColumns = <<>> \/ (~PerKey /\ \E row \in Range(op.rows) : KeyMissing(row))
    [] op.method = "updateBy" -> WhereRefused \/ SetRefused
    [] op.method = "deleteBy" -> WhereRefused
    [] OTHER -> FALSE

-----------------------------------------------------------------------------
(* Statements                                                              *)

(* A row with the cells that a part of one has.                            *)
Over(part, row) ==
  [c \in DOMAIN part \cup DOMAIN row |-> IF c \in DOMAIN part THEN part[c] ELSE row[c]]

(* What the DAO hands over: no actor of the caller's, but its own.         *)
Prepared(row) == Over([c \in {ActorColumn} |-> Actor], row)

ColumnsOf(row, but) == SetToSeq(DOMAIN row \ but)

ChunkStart(k, size) == (k - 1) * size + 1

ChunkRows(rows, paramsPerRow) ==
  LET size == IF paramsPerRow = 0 THEN Len(rows)
              ELSE Max({1, MaxParameters \div paramsPerRow})
  IN [k \in 1..((Len(rows) + size - 1) \div size) |->
       SubSeq(rows, ChunkStart(k, size), Min({k * size, Len(rows)}))]

(* The places of one row after another's, and the values in that order.    *)
Places(rows, columns) ==
  [r \in DOMAIN rows |-> [c \in DOMAIN columns |-> (r - 1) * Len(columns) + c]]

RowValues(rows, columns) ==
  [p \in 1..(Len(rows) * Len(columns)) |->
    Scalar(rows[1 + ((p - 1) \div Len(columns))][columns[1 + ((p - 1) % Len(columns))]])]

Statement(verb, columns, tuples, clauses, values) ==
  [verb |-> verb, columns |-> columns, tuples |-> tuples, clauses |-> clauses, values |-> values]

BatchStatements(verb, rows, columns) ==
  LET chunks == ChunkRows(rows, Len(columns))
  IN [k \in DOMAIN chunks |->
       Statement(verb, columns, Places(chunks[k], columns), <<>>, RowValues(chunks[k], columns))]

(* insert: the first row's columns. updateMany: those it sets, then the    *)
(* key, and nothing if it sets none.                                       *)
InsertStatements ==
  LET rows == [r \in DOMAIN op.rows |-> Prepared(op.rows[r])]
  IN BatchStatements("insert", rows, ColumnsOf(rows[1], {}))

UpdateManyStatements ==
  LET rows == [r \in DOMAIN op.rows |-> Prepared(op.rows[r])]
  IN BatchStatements("updateMany", rows,
                     ColumnsOf(rows[1], Range(KeyColumns)) \o KeyColumns)

WriteWhere(start) ==
  IF op.allRows THEN <<>> ELSE Clauses(op.where, start, TRUE)

UpdateStatement ==
  LET columns == ColumnsOf(Prepared(op.set), {})
  IN Statement("update", columns, Places(<<Prepared(op.set)>>, columns),
               WriteWhere(Len(columns)),
               RowValues(<<Prepared(op.set)>>, columns)
                 \o (IF op.allRows THEN <<>> ELSE Bound(op.where, TRUE)))

DeleteStatement(filters) ==
  Statement("delete", <<>>, <<>>, Clauses(filters, 0, TRUE), Bound(filters, TRUE))

KeyFilter(key, column) ==
  [field |-> column, suffix |-> "bare", value |-> Scalar(key[column])]

(* The statement that is never made, for the key is incomplete.            *)
NoStatement == Statement("none", <<>>, <<>>, <<>>, <<>>)

(* One array parameter for a single key column; one per column, unnested,  *)
(* for a composite key; without deleteByKeys, a delete for each key.       *)
DeleteManyStatements ==
  CASE Len(KeyColumns) = 1 ->
         <<DeleteStatement(<<[field |-> KeyColumns[1], suffix |-> "bare",
             value |-> List({key[KeyColumns[1]] : key \in Range(op.rows)})]>>)>>
    [] Len(KeyColumns) > 1 /\ op.byKeys ->
         <<Statement("deleteByKeys", KeyColumns, Places(op.rows, KeyColumns), <<>>,
                     RowValues(op.rows, KeyColumns))>>
    [] OTHER ->
         [k \in DOMAIN op.rows |->
           IF KeyMissing(op.rows[k]) THEN NoStatement
           ELSE DeleteStatement([c \in DOMAIN KeyColumns |-> KeyFilter(op.rows[k], KeyColumns[c])])]

StatementsOf ==
  IF op.method \in {"createMany", "updateMany", "deleteMany"} /\ op.rows = <<>> THEN <<>>
  ELSE CASE op.method = "createMany" -> InsertStatements
         [] op.method = "updateMany" -> UpdateManyStatements
         [] op.method = "deleteMany" -> DeleteManyStatements
         [] op.method = "updateBy" -> <<UpdateStatement>>
         [] op.method = "deleteBy" -> <<DeleteStatement(IF op.allRows THEN <<>> ELSE op.where)>>

-----------------------------------------------------------------------------
(* The database                                                            *)

Cell(st, place) == CHOOSE v \in st.values[place].items : TRUE

Tuples(st) ==
  {[c \in Range(st.columns) |->
      Cell(st, tuple[CHOOSE i \in DOMAIN st.columns : st.columns[i] = c])] :
    tuple \in Range(st.tuples)}

SameKey(a, b) == \A c \in Range(KeyColumns) : a[c] = b[c]

Inserted(tuple) == [c \in Column |-> IF c \in DOMAIN tuple THEN tuple[c] ELSE NULL]

Effect(st, rows) ==
  CASE st.verb = "insert" -> rows \cup {Inserted(t) : t \in Tuples(st)}
    [] st.verb = "updateMany" ->
         {LET data == {t \in Tuples(st) : SameKey(t, row)}
          IN IF data = {} THEN row ELSE Over(CHOOSE t \in data : TRUE, row) : row \in rows}
    [] st.verb = "update" ->
         {IF Selects(st.clauses, st.values, row) THEN Over(CHOOSE t \in Tuples(st) : TRUE, row)
          ELSE row : row \in rows}
    [] st.verb = "delete" -> {row \in rows : ~Selects(st.clauses, st.values, row)}
    [] st.verb = "deleteByKeys" -> {row \in rows : \A t \in Tuples(st) : ~SameKey(t, row)}

-----------------------------------------------------------------------------
(* The write                                                               *)

(* Mutant: a batch of several statements runs on the pool.                 *)
OnlyTheCallers(sts) == op.trx

(* One statement needs no transaction; several of a batch get one. The     *)
(* deletes of single keys are calls of their own.                          *)
InTransaction(sts) ==
  op.trx \/ (Len(sts) > 1 /\ op.method # "deleteMany")

Refuse ==
  /\ write = "idle"
  /\ DaoThrows
  /\ write' = "refused"
  /\ UNCHANGED <<op, table, pending, statements>>

(* All statements are built before any runs.                               *)
Issue ==
  /\ write = "idle"
  /\ ~DaoThrows
  /\ statements' = StatementsOf
  /\ write' = IF StatementsOf = <<>> THEN "resolved"
              ELSE IF InTransaction(StatementsOf) THEN "transaction" ELSE "pool"
  /\ UNCHANGED <<op, table, pending>>

RunOnPool ==
  /\ write = "pool" /\ Head(statements) # NoStatement
  /\ table' = Effect(Head(statements), table)
  /\ statements' = Tail(statements)
  /\ write' = IF statements' = <<>> THEN "resolved" ELSE "pool"
  /\ UNCHANGED <<op, pending>>

RunInTransaction ==
  /\ write = "transaction" /\ Head(statements) # NoStatement
  /\ pending' = Effect(Head(statements), pending)
  /\ statements' = Tail(statements)
  /\ write' = IF statements' = <<>> THEN "committing" ELSE "transaction"
  /\ UNCHANGED <<op, table>>

(* The database answers with an error or never got the statement, or an    *)
(* incomplete key's turn comes.                                            *)
StatementFails ==
  /\ write \in {"pool", "transaction"}
  /\ write' = "rejected"
  /\ pending' = table
  /\ UNCHANGED <<op, table, statements>>

(* A statement on the pool commits by itself, and may have done so when    *)
(* its answer is lost.                                                     *)
AnswerLost ==
  /\ write = "pool" /\ Head(statements) # NoStatement
  /\ table' \in {table, Effect(Head(statements), table)}
  /\ write' = "unknown"
  /\ UNCHANGED <<op, pending, statements>>

CommitWrite ==
  /\ write = "committing"
  /\ table' = pending
  /\ write' = "resolved"
  /\ UNCHANGED <<op, pending, statements>>

(* The commit may have been made when its answer is lost.                  *)
CommitWriteFails ==
  /\ write = "committing"
  /\ table' \in {table, pending}
  /\ write' = "unknown"
  /\ UNCHANGED <<op, pending, statements>>

KeyedWriteNext ==
  \/ Refuse \/ Issue
  \/ RunOnPool \/ RunInTransaction \/ StatementFails \/ AnswerLost
  \/ CommitWrite \/ CommitWriteFails
=============================================================================
