----------------------------- MODULE UnitOfWork -----------------------------
(***************************************************************************)
(* UnitOfWork.transaction over PgDatabase and PgTransaction: callers that  *)
(* load one aggregate, change it and write it through an aggregate         *)
(* repository (KeyedWriteDao, PgWriteDbAdapter and its PgColumnTypeCache), *)
(* with its domain events put in the outbox by the same transaction.       *)
(*                                                                         *)
(* PostgreSQL, the pg client and its pool are external: READ COMMITTED, a  *)
(* row lock held until the writer's transaction ends, COMMIT of an aborted *)
(* transaction answered without an error, a dead client dropped from the   *)
(* pool on release. A statement fails with a server error or with its      *)
(* connection; query_timeout is not set, so it never fails on a connection *)
(* that is still in a transaction. Time is in milliseconds.                *)
(***************************************************************************)
EXTENDS Naturals, FiniteSets

CONSTANTS
  Worker,       \* callers of transaction()
  Careful,      \* those that let a failed statement's error out, register what
                \* they load and reload it when they try again
  NoWorker,
  PoolSize,
  CallsOf,      \* bound on the calls of each worker
  MaxFaults,    \* bound on failed statements and lost connections
  MaxTime       \* bound on the clock

ASSUME UnitOfWorkAssumption ==
  /\ IsFiniteSet(Worker) /\ Careful \subseteq Worker
  /\ NoWorker \notin Worker
  /\ PoolSize \in Nat /\ MaxFaults \in Nat /\ MaxTime \in Nat \ {0}
  /\ CallsOf \in [Worker -> Nat]

Call == UNION {{w} \X (1..CallsOf[w]) : w \in Worker}

VARIABLES           \* the database
  row,              \* the aggregate's row: how often written, updated_at, in the table or not
  locker,           \* holder of its row lock
  stored,           \* calls whose write is committed
  sunk              \* calls whose events are committed to the outbox

VARIABLES           \* the process
  free,             \* connections of the pool nobody holds
  types,            \* the column types of the table are cached
  pc,               \* where each worker's call stands
  calls,            \* calls of each worker so far
  agg,              \* its aggregate instance
  trx,              \* its PgTransaction and the session behind it
  error,            \* why its call is failing, "none" so far
  answer            \* of each call

VARIABLES           \* the environment, and what an observer notes
  now, faults,
  wroteAt,          \* stamp of each committed write
  overwrote,        \* calls that wrote over a version they had not read
  leaked            \* connections of a failed BEGIN

db == <<row, locker, stored, sunk>>
env == <<now, faults, wroteAt, overwrote, leaked>>
vars == <<db, free, types, pc, calls, agg, trx, error, answer, env>>

NoAgg == [loaded |-> "no", ver |-> 0, stamp |-> 0, events |-> {}]
NoTrx == [session |-> "none", began |-> 0, write |-> "none", changes |-> 0,
          sunk |-> {}]

Pc == {"idle", "connecting", "working", "fetching", "sinking", "committing",
       "rollback", "releasing"}

TypeOK ==
  /\ row \in [ver : Nat, stamp : 0..MaxTime, live : BOOLEAN]
  /\ locker \in Worker \cup {NoWorker}
  /\ stored \subseteq Call /\ sunk \subseteq Call /\ overwrote \subseteq Call
  /\ free \in 0..PoolSize /\ leaked \in 0..MaxFaults
  /\ types \in BOOLEAN
  /\ pc \in [Worker -> Pc]
  /\ calls \in [Worker -> Nat] /\ \A w \in Worker : calls[w] <= CallsOf[w]
  /\ agg \in [Worker -> [loaded : {"no", "locked", "optimistic"}, ver : Nat, stamp : 0..MaxTime,
                         events : SUBSET Call]]
  /\ trx \in [Worker -> [session : {"none", "open", "aborted", "lost"}, began : 0..MaxTime, write : {"none", "update", "delete"},
                         changes : 0..2, sunk : SUBSET Call]]
  /\ error \in [Worker -> {"none", "operation", "conflict", "commit", "rollback"}]
  /\ answer \in [Call -> {"none", "resolved", "rejected", "unknown"}]
  /\ now \in 0..MaxTime /\ faults \in 0..MaxFaults
  /\ wroteAt \in [Call -> 0..MaxTime]

(* The row exists; it was written at time 0, before any call.              *)
Init ==
  /\ row = [ver |-> 0, stamp |-> 0, live |-> TRUE]
  /\ locker = NoWorker
  /\ stored = {} /\ sunk = {} /\ overwrote = {}
  /\ free = PoolSize /\ leaked = 0
  /\ types = FALSE
  /\ pc = [w \in Worker |-> "idle"]
  /\ calls = [w \in Worker |-> 0]
  /\ agg = [w \in Worker |-> NoAgg]
  /\ trx = [w \in Worker |-> NoTrx]
  /\ error = [w \in Worker |-> "none"]
  /\ answer = [c \in Call |-> "none"]
  /\ now = 1 /\ faults = 0
  /\ wroteAt = [c \in Call |-> 0]

Current(w) == <<w, calls[w]>>

(* Rollback, or the server's own abort: no write, no row lock.             *)
Unlock(w) == locker' = IF locker = w THEN NoWorker ELSE locker

Fault ==
  /\ faults < MaxFaults
  /\ faults' = faults + 1

-----------------------------------------------------------------------------
(* The caller                                                              *)

StartCall(w, instance) ==
  /\ pc[w] = "idle"
  /\ calls[w] < CallsOf[w]
  /\ pc' = [pc EXCEPT ![w] = "connecting"]
  /\ calls' = [calls EXCEPT ![w] = @ + 1]
  /\ agg' = [agg EXCEPT ![w] = instance]
  /\ UNCHANGED <<db, free, trx, error, answer, env>>

(* The operation will load the aggregate itself.                           *)
CallTransaction(w) ==
  /\ StartCall(w, NoAgg)
  /\ UNCHANGED types

(* loadById before the call, on the pool; it registers nothing, so the     *)
(* operation does. The change records an event on the aggregate.           *)
CallWithLoaded(w) ==
  /\ free > 0
  /\ row.live
  /\ StartCall(w, [loaded |-> "optimistic", ver |-> row.ver, stamp |-> row.stamp,
                   events |-> {<<w, calls[w] + 1>>}])
  /\ types' = TRUE

(* A caller that is not careful may try again with the instance it has.    *)
CallWithKept(w) ==
  /\ w \notin Careful
  /\ agg[w].loaded # "no"
  /\ StartCall(w, [agg[w] EXCEPT !.loaded = "optimistic"])
  /\ UNCHANGED types

-----------------------------------------------------------------------------
(* UnitOfWork.transaction, up to the operation                             *)

(* Takes a connection and begins. Time passes before that: nothing else    *)
(* reads the clock.                                                        *)
Begin(w) ==
  /\ pc[w] = "connecting"
  /\ free > 0
  /\ free' = free - 1
  /\ pc' = [pc EXCEPT ![w] = "working"]
  /\ now' \in now..MaxTime
  /\ trx' = [trx EXCEPT ![w] = [NoTrx EXCEPT !.session = "open", !.began = now']]
  /\ UNCHANGED <<db, types, calls, agg, error, answer, faults, wroteAt, overwrote, leaked>>

(* start() runs before the try: nothing releases the connection.           *)
BeginFails(w) ==
  /\ pc[w] = "connecting"
  /\ free > 0
  /\ Fault
  /\ free' = free - 1
  /\ leaked' = leaked + 1
  /\ pc' = [pc EXCEPT ![w] = "idle"]
  /\ answer' = [answer EXCEPT ![Current(w)] = "rejected"]
  /\ UNCHANGED <<db, types, calls, agg, trx, error, now, wroteAt, overwrote>>

-----------------------------------------------------------------------------
(* The operation. Statements of the adapter need the table's column types, *)
(* which the first of them fetches on a connection of its own.             *)

Working(w) == pc[w] = "working" /\ trx[w].session = "open"

Fetch(w) ==
  /\ Working(w)
  /\ ~types
  /\ free > 0
  /\ free' = free - 1
  /\ pc' = [pc EXCEPT ![w] = "fetching"]
  /\ UNCHANGED <<db, types, calls, agg, trx, error, answer, env>>

Fetched(w) ==
  /\ pc[w] = "fetching"
  /\ free' = free + 1
  /\ types' = TRUE
  /\ pc' = [pc EXCEPT ![w] = "working"]
  /\ UNCHANGED <<db, calls, agg, trx, error, answer, env>>

FetchFails(w) ==
  /\ pc[w] = "fetching"
  /\ Fault
  /\ free' = free + 1
  /\ pc' = [pc EXCEPT ![w] = "rollback"]
  /\ error' = [error EXCEPT ![w] = "operation"]
  /\ UNCHANGED <<db, types, calls, agg, trx, answer, now, wroteAt, overwrote, leaked>>

Statement(w) == Working(w) /\ types /\ locker \in {w, NoWorker}

(* Mutant: the row is read without FOR UPDATE.                             *)
LoadUnlocked(w) ==
  /\ Statement(w)
  /\ agg[w].loaded = "no"
  /\ row.live
  /\ agg' = [agg EXCEPT ![w] = [loaded |-> "locked", ver |-> row.ver, stamp |-> row.stamp,
                               events |-> {Current(w)}]]
  /\ UNCHANGED <<db, free, types, pc, calls, trx, error, answer, env>>

(* loadForUpdate: locks the row, waiting for another's lock, reads what is *)
(* then committed and registers the aggregate, which the operation changes. *)
LoadForUpdate(w) ==
  /\ Statement(w)
  /\ agg[w].loaded = "no"
  /\ row.live
  /\ locker' = w
  /\ agg' = [agg EXCEPT ![w] = [loaded |-> "locked", ver |-> row.ver, stamp |-> row.stamp,
                               events |-> {Current(w)}]]
  /\ UNCHANGED <<row, stored, sunk, free, types, pc, calls, trx, error, answer, env>>

(* The row's updated_at as the transaction sees it: an update stamps the   *)
(* start of its transaction, and the instance keeps the stamp it read.     *)
SeenStamp(w) == IF trx[w].write = "update" THEN trx[w].began ELSE row.stamp

(* Mutant: no lock clause.                                                 *)
LockIgnored(w) == row.live /\ trx[w].write # "delete"

LockMatches(w) ==
  /\ row.live
  /\ trx[w].write # "delete"
  /\ SeenStamp(w) = agg[w].stamp

(* repository.update or delete: the lock column must still have the value  *)
(* that was read.                                                          *)
Write(w, kind) ==
  /\ Statement(w)
  /\ agg[w].loaded # "no"
  /\ trx[w].changes < 2
  /\ LockMatches(w)
  /\ locker' = w
  /\ trx' = [trx EXCEPT ![w].write = kind, ![w].changes = @ + 1]
  /\ overwrote' = IF row.ver # agg[w].ver THEN overwrote \cup {Current(w)} ELSE overwrote
  /\ UNCHANGED <<row, stored, sunk, free, types, pc, calls, agg, error, answer, now, faults,
                 wroteAt, leaked>>

Fail(w, why) ==
  /\ pc' = [pc EXCEPT ![w] = "rollback"]
  /\ error' = [error EXCEPT ![w] = why]

(* No row matched: OptimisticLockError.                                    *)
Conflict(w) ==
  /\ Statement(w)
  /\ agg[w].loaded # "no"
  /\ trx[w].changes < 2
  /\ ~LockMatches(w)
  /\ Fail(w, "conflict")
  /\ UNCHANGED <<db, free, types, calls, agg, trx, answer, env>>

(* loadForUpdate ... OrFail finds no row: CrossScopeAccessError.            *)
LoadMissing(w) ==
  /\ Statement(w)
  /\ agg[w].loaded = "no"
  /\ ~row.live
  /\ Fail(w, "operation")
  /\ UNCHANGED <<db, free, types, calls, agg, trx, answer, env>>

OperationThrows(w) ==
  /\ pc[w] = "working"
  /\ Fail(w, "operation")
  /\ UNCHANGED <<db, free, types, calls, agg, trx, answer, env>>

SessionEnds(w, how) ==
  /\ Working(w)
  /\ Fault
  /\ trx' = [trx EXCEPT ![w].session = how]
  /\ Unlock(w)
  /\ UNCHANGED <<row, stored, sunk, free, types, calls, agg, answer, now, wroteAt, overwrote, leaked>>

(* A statement fails; its error reaches the unit of work, or the operation *)
(* ignores it and issues no other statement.                               *)
StatementFails(w, how) ==
  /\ SessionEnds(w, how)
  /\ Fail(w, "operation")

StatementFailsIgnored(w, how) ==
  /\ w \notin Careful
  /\ SessionEnds(w, how)
  /\ UNCHANGED <<pc, error>>

-----------------------------------------------------------------------------
(* UnitOfWork.transaction, after the operation                             *)

(* The operation resolves once it has written, or ignored an error. Events *)
(* leave the aggregate before they are written to the outbox, and stay     *)
(* gone if the transaction does not commit.                                *)
OperationResolves(w) ==
  /\ pc[w] = "working"
  /\ trx[w].write # "none" \/ trx[w].session # "open"
  /\ agg' = [agg EXCEPT ![w].events = {}]
  /\ trx' = [trx EXCEPT ![w].sunk = agg[w].events]
  /\ pc' = [pc EXCEPT ![w] = IF agg[w].events = {} THEN "committing" ELSE "sinking"]
  /\ UNCHANGED <<db, free, types, calls, error, answer, env>>

(* Mutant: the sink's insert is not given the transaction.                 *)
SinkOnPool(w) ==
  /\ pc[w] = "sinking"
  /\ sunk' = sunk \cup trx[w].sunk
  /\ pc' = [pc EXCEPT ![w] = "committing"]
  /\ UNCHANGED <<row, locker, stored, free, types, calls, agg, trx, error, answer, env>>

Sink(w) ==
  /\ pc[w] = "sinking"
  /\ trx[w].session = "open"
  /\ pc' = [pc EXCEPT ![w] = "committing"]
  /\ UNCHANGED <<db, free, types, calls, agg, trx, error, answer, env>>

SinkFails(w) ==
  /\ pc[w] = "sinking"
  /\ \/ /\ trx[w].session # "open"
        /\ UNCHANGED <<trx, locker, faults>>
     \/ /\ trx[w].session = "open"
        /\ Fault
        /\ \E how \in {"aborted", "lost"} : trx' = [trx EXCEPT ![w].session = how]
        /\ Unlock(w)
  /\ Fail(w, "operation")
  /\ UNCHANGED <<row, stored, sunk, free, types, calls, agg, answer, now, wroteAt, overwrote, leaked>>

(* What the server does when it commits.                                   *)
Apply(w) ==
  /\ row' = CASE trx[w].write = "update" -> [row EXCEPT !.ver = @ + 1,
                                                        !.stamp = trx[w].began]
              [] trx[w].write = "delete" -> [row EXCEPT !.ver = @ + 1, !.live = FALSE]
              [] OTHER -> row
  /\ stored' = IF trx[w].write = "none" THEN stored ELSE stored \cup {Current(w)}
  /\ wroteAt' = IF trx[w].write = "none" THEN wroteAt
                ELSE [wroteAt EXCEPT ![Current(w)] = trx[w].began]
  /\ sunk' = sunk \cup trx[w].sunk
  /\ Unlock(w)

(* COMMIT of an aborted transaction rolls it back and raises no error.     *)
Commit(w) ==
  /\ pc[w] = "committing"
  /\ \/ trx[w].session = "open" /\ Apply(w)
     \/ trx[w].session = "aborted" /\ UNCHANGED <<db, wroteAt>>
  /\ trx' = [trx EXCEPT ![w].session = "none"]
  /\ pc' = [pc EXCEPT ![w] = "releasing"]
  /\ UNCHANGED <<free, types, calls, agg, error, answer, now, faults, overwrote, leaked>>

(* commit() throws: the connection was lost before, the server refuses the *)
(* commit, or the connection is lost with the commit made or not.          *)
CommitFails(w) ==
  /\ pc[w] = "committing"
  /\ \/ /\ trx[w].session = "lost"
        /\ UNCHANGED <<db, trx, faults, wroteAt>>
     \/ /\ trx[w].session = "open"
        /\ Fault
        /\ \E how \in {"aborted", "lost"} : trx' = [trx EXCEPT ![w].session = how]
        /\ Unlock(w)
        /\ UNCHANGED <<row, stored, sunk, wroteAt>>
     \/ /\ trx[w].session = "open"
        /\ Fault
        /\ trx' = [trx EXCEPT ![w].session = "lost"]
        /\ Apply(w)
  /\ Fail(w, "commit")
  /\ UNCHANGED <<free, types, calls, agg, answer, now, overwrote, leaked>>

(* Mutant: the transaction is marked rolled back, but never told to.       *)
RollbackUnsent(w) ==
  /\ pc[w] = "rollback"
  /\ trx[w].session \in {"open", "aborted"}
  /\ trx' = [trx EXCEPT ![w].session = "none"]
  /\ pc' = [pc EXCEPT ![w] = "releasing"]
  /\ UNCHANGED <<db, free, types, calls, agg, error, answer, env>>

Rollback(w) ==
  /\ pc[w] = "rollback"
  /\ trx[w].session \in {"open", "aborted"}
  /\ trx' = [trx EXCEPT ![w].session = "none"]
  /\ Unlock(w)
  /\ pc' = [pc EXCEPT ![w] = "releasing"]
  /\ UNCHANGED <<row, stored, sunk, free, types, calls, agg, error, answer, env>>

(* The failed rollback's error replaces the one that led to it.            *)
RollbackFails(w) ==
  /\ pc[w] = "rollback"
  /\ \/ trx[w].session = "lost" /\ UNCHANGED <<trx, faults, locker>>
     \/ /\ trx[w].session \in {"open", "aborted"}
        /\ Fault
        /\ trx' = [trx EXCEPT ![w].session = "lost"]
        /\ Unlock(w)
  /\ error' = [error EXCEPT ![w] = "rollback"]
  /\ pc' = [pc EXCEPT ![w] = "releasing"]
  /\ UNCHANGED <<row, stored, sunk, free, types, calls, agg, answer, now, wroteAt, overwrote, leaked>>

Verdict(w) ==
  CASE error[w] = "none" -> "resolved"
    [] error[w] = "rollback" -> "unknown"
    [] OTHER -> "rejected"

Answered(w) ==
  /\ pc[w] = "releasing"
  /\ trx' = [trx EXCEPT ![w] = NoTrx]
  /\ answer' = [answer EXCEPT ![Current(w)] = Verdict(w)]
  /\ pc' = [pc EXCEPT ![w] = "idle"]
  /\ error' = [error EXCEPT ![w] = "none"]
  /\ agg' = [agg EXCEPT ![w] = IF w \in Careful THEN NoAgg ELSE @]
  /\ UNCHANGED <<db, types, calls, env>>

(* Mutants: the connection is not released when the rollback failed, or    *)
(* released both after the rollback and at the end.                        *)
ReleaseUnlessRollbackFailed(w) ==
  /\ Answered(w)
  /\ free' = IF error[w] = "rollback" THEN free ELSE free + 1

ReleaseTwice(w) ==
  /\ Answered(w)
  /\ free' = IF error[w] = "none" THEN free + 1 ELSE free + 2

(* The pool takes the connection back, or drops it and may open another.   *)
(* A careful caller keeps nothing of the call.                             *)
Release(w) ==
  /\ Answered(w)
  /\ free' = free + 1

-----------------------------------------------------------------------------
CallStep(w) == CallTransaction(w) \/ CallWithLoaded(w) \/ CallWithKept(w)

OperationStep(w) ==
  \/ Fetch(w) \/ Fetched(w) \/ FetchFails(w)
  \/ LoadForUpdate(w) \/ LoadMissing(w) \/ Conflict(w) \/ OperationResolves(w)
  \/ \E kind \in {"update", "delete"} : Write(w, kind)
  \/ \E how \in {"aborted", "lost"} : StatementFails(w, how) \/ StatementFailsIgnored(w, how)

TransactionStep(w) ==
  \/ Begin(w) \/ BeginFails(w)
  \/ Sink(w) \/ SinkFails(w) \/ Commit(w) \/ CommitFails(w)
  \/ Rollback(w) \/ RollbackFails(w) \/ Release(w)

Next ==
  \E w \in Worker :
    CallStep(w) \/ OperationStep(w) \/ OperationThrows(w) \/ TransactionStep(w)

Spec == Init /\ [][Next]_vars

(* Statements are answered, an operation ends, and who waits for a         *)
(* connection or for the row lock is served while there is one to have.    *)
FairSpec == Spec /\ \A w \in Worker : WF_vars(OperationStep(w) \/ TransactionStep(w))

-----------------------------------------------------------------------------
(* Refinement: the calls of careful workers are atomic, whatever the       *)
(* others do and whichever statement or connection fails                   *)
(* (unit-of-work.ts:63-88, pg.transaction.ts:47-82).                       *)
CarefulCalls == {c \in Call : c[1] \in Careful}

Atomic == INSTANCE AtomicWork WITH
  Call <- CarefulCalls,
  stored <- stored \cap CarefulCalls,
  sunk <- sunk \cap CarefulCalls,
  answer <- [c \in CarefulCalls |-> answer[c]]

IsAtomic == Atomic!Spec

(* Somebody who locked the row when loading it is told of a conflict only  *)
(* by its own earlier write, whose stamp its instance has not            *)
(* (base-scoped-aggregate.repository.ts:32-48, keyed-write.dao.ts:161).    *)
LockedReadConflictsWithItself ==
  \A w \in Worker :
    error[w] = "conflict" /\ agg[w].loaded = "locked" => trx[w].changes > 0

(* Connections return to the pool: when no call is under way it holds all  *)
(* of them but those of a failed BEGIN (unit-of-work.ts:47-48, 86-88).     *)
PoolRefills == (\A w \in Worker : pc[w] \in {"idle", "connecting"}) => free = PoolSize - leaked

(* A write over a version the caller had not read takes two transactions   *)
(* that began in one millisecond: the lock column is stamped with the      *)
(* start of the transaction (pg-write-db-adapter.ts:144-147, 239-248).     *)
LostUpdateNeedsOneMs ==
  overwrote \cap stored # {} =>
    \E c, d \in stored : c # d /\ wroteAt[c] = wroteAt[d]

(* A call ends in a commit or a rollback, as long as the pool has a        *)
(* connection to spare for the column types (README.md, Transactions).     *)
CallsEnd == \A w \in Worker : pc[w] = "connecting" ~> pc[w] = "idle"
=============================================================================
