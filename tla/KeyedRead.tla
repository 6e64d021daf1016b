------------------------------ MODULE KeyedRead ------------------------------
(***************************************************************************)
(* The reads of KeyedWriteDao: by key, by predicate, of a single row, and  *)
(* of a set of keys, plain or FOR UPDATE, while another transaction has    *)
(* rows of the table locked that it may delete. The row locks a read takes *)
(* are its transaction's until long after its answer; what follows the     *)
(* answer is not modelled.                                                 *)
(***************************************************************************)
EXTENDS ListQuery, KeyedWrite

(* A read, as the types of the interface have it: one that locks has a    *)
(* policy, which is not to skip where a single row is read, a where that   *)
(* is not strict has values, and the key columns of a DAO are a key.       *)
IsReadCall(c) ==
  /\ c.order \in Seq([field : Column, dir : {"asc", "desc"}])
  /\ \A m, n \in c.limit : m = n
  /\ c.limit # {} => c.method \in {"findManyForUpdate", "findManyForUpdateByKeys"}
  /\ c.method \in {"findManyForUpdate", "findManyForUpdateByKeys"} =>
       c.onLocked \in {"wait", "skip", "nowait"}
  /\ c.method \in {"findSingle", "findSingleForUpdate"} => c.onLocked # "skip"
  /\ c.method \notin WriteMethods \cup {"findSingle", "findSingleForUpdate"} =>
       \A f \in Range(c.where) : ~NoValue(f)
  /\ c.method = "findOneByKey" => Len(c.rows) = 1
  /\ c.locked \subseteq InitTable
  /\ c.method \in WriteMethods \cup {"none"} => c.locked = {}
  /\ c.key # <<>> =>
       \A a, b \in InitTable : (\A column \in Range(c.key) : a[column] = b[column]) => a = b

VARIABLES
  read,             \* where the read stands
  reads,            \* its statements that have not run
  answer,           \* the rows read
  locked            \* the rows another transaction has locked

readVars == <<read, reads, answer, locked>>

(* A read has the locking policy of its caller, or none; the limit and the *)
(* order it asks for, if any.                                              *)
KeyedReadInit ==
  /\ read = IF op.method \in WriteMethods \cup {"none"} THEN "none" ELSE "idle"
  /\ reads = <<>> /\ answer = <<>>
  /\ locked = op.locked

Single == op.method \in {"findSingle", "findSingleForUpdate"}
ByKeys == op.method = "findManyForUpdateByKeys"

BadLimit == \E n \in op.limit : n \notin Nat

(* keyWhere, strictWhere and lockedRead; an empty where is allowed where   *)
(* all rows are meant by it, but not for existsBy. The keys are looked at  *)
(* together, or one by one where they are read one by one.                 *)
ReadThrows ==
  CASE ByKeys -> \/ KeyColumns = <<>> \/ BadLimit
                 \/ PerKey /\ op.order # <<>>
                 \/ ~PerKey /\ \E key \in Range(op.rows) : KeyMissing(key)
    [] op.method = "findOneByKey" ->
         KeyColumns = <<>> \/ \E key \in Range(op.rows) : KeyMissing(key)
    [] Single -> WhereRefused
    [] op.method = "findManyForUpdate" /\ BadLimit -> TRUE
    [] op.method = "existsBy" /\ op.where = <<>> -> TRUE
    [] OTHER -> \E f \in Range(op.where) : UnknownOperator(f)

(* Mutant: a read of a single row asks for one.                            *)
ReadLimitOne ==
  IF Single \/ op.method \in {"findOneByKey", "findOne", "findOneForUpdate", "existsBy"} THEN {1}
  ELSE op.limit

(* Of two rows the second tells that the first is not the only one.        *)
ReadLimit ==
  IF Single THEN {2}
  ELSE IF op.method \in {"findOneByKey", "findOne", "findOneForUpdate", "existsBy"} THEN {1}
  ELSE op.limit

Select(filters) ==
  Statement("select", <<>>, <<>>, Clauses(filters, 0, TRUE), Bound(filters, TRUE))

SelectByKeys ==
  Statement("selectByKeys", KeyColumns, Places(op.rows, KeyColumns), <<>>,
            RowValues(op.rows, KeyColumns))

SelectKey(key) == Select([c \in DOMAIN KeyColumns |-> KeyFilter(key, KeyColumns[c])])

(* As deleteMany: one array, arrays unnested, or a read for each key, of   *)
(* which one with an incomplete key is never made.                         *)
ReadStatements ==
  IF ByKeys /\ op.rows = <<>> THEN <<>>
  ELSE IF ByKeys /\ Len(KeyColumns) = 1
  THEN <<Select(<<[field |-> KeyColumns[1], suffix |-> "bare",
                   value |-> List({key[KeyColumns[1]] : key \in Range(op.rows)})]>>)>>
  ELSE IF ByKeys /\ op.byKeys THEN <<SelectByKeys>>
  ELSE IF PerKey \/ op.method = "findOneByKey"
  THEN [k \in DOMAIN op.rows |->
         IF KeyMissing(op.rows[k]) THEN NoStatement ELSE SelectKey(op.rows[k])]
  ELSE <<Select(IF op.allRows THEN <<>> ELSE op.where)>>

-----------------------------------------------------------------------------
(* The database: a locking read goes through the rows in its order until   *)
(* it has as many as its limit. It skips a row that is locked, fails at    *)
(* it, or waits for its transaction to end.                                *)

Found(st) ==
  IF st.verb = "selectByKeys"
  THEN {row \in table : \E t \in Tuples(st) : SameKey(row, t)}
  ELSE {row \in table : Selects(st.clauses, st.values, row)}

UpTo(s, limits) == IF limits = {} THEN s ELSE SubSeq(s, 1, Min(limits \cup {Len(s)}))

Visible(s) ==
  IF op.onLocked = "skip" THEN Kept(s, {i \in DOMAIN s : s[i] \notin locked}) ELSE s

Got(st) ==
  {UpTo(Visible(s), IF PerKey THEN {} ELSE ReadLimit) : s \in Arranged(Found(st), op.order)}

Blocked(rows) == op.onLocked \in {"wait", "nowait"} /\ Range(rows) \cap locked # {}

-----------------------------------------------------------------------------
RefuseRead ==
  /\ read = "idle"
  /\ ReadThrows
  /\ read' = "refused"
  /\ UNCHANGED <<writeVars, reads, answer, locked>>

IssueRead ==
  /\ read = "idle"
  /\ ~ReadThrows
  /\ read' = "reading"
  /\ reads' = ReadStatements
  /\ UNCHANGED <<writeVars, answer, locked>>

(* Reading key by key ends when the limit is reached.                      *)
Enough == reads = <<>> \/ (PerKey /\ \E n \in ReadLimit : Len(answer) >= n)

ReadNext ==
  /\ read = "reading" /\ ~Enough
  /\ Head(reads) # NoStatement
  /\ \E rows \in Got(Head(reads)) :
       /\ ~Blocked(rows)
       /\ answer' = answer \o rows
  /\ reads' = Tail(reads)
  /\ UNCHANGED <<writeVars, read, locked>>

(* NOWAIT meets a lock, an incomplete key's turn comes, or the database    *)
(* fails.                                                                  *)
ReadFails ==
  /\ read = "reading" /\ ~Enough
  /\ read' = "rejected"
  /\ UNCHANGED <<writeVars, reads, answer, locked>>

(* singleRow, and the caller has its answer.                               *)
AnswerRead ==
  /\ read = "reading" /\ Enough
  /\ read' = IF Single /\ Len(answer) > 1 THEN "tooMany" ELSE "answered"
  /\ reads' = <<>>
  /\ UNCHANGED <<writeVars, answer, locked>>

(* The other transaction ends, with its rows as they were or deleted.      *)
OtherEnds ==
  /\ read = "idle" \/ (read = "reading" /\ reads # <<>>)
  /\ locked # {}
  /\ table' \in {table, table \ locked}
  /\ locked' = {}
  /\ UNCHANGED <<op, pending, statements, write, read, reads, answer>>

KeyedReadNext ==
  \/ RefuseRead \/ IssueRead
  \/ ReadNext \/ ReadFails \/ AnswerRead
  \/ OtherEnds
=============================================================================
