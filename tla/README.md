# A TLA+ verification of quilla-be-kit

quilla-be-kit is a set of TypeScript packages for backend services on
PostgreSQL. Two kinds of its code are hard to test. One is concurrent: tables
that several replicas of a service drain at once, leases that are renewed while
work goes on, a lease that makes a periodic job run on one instance at a time, an
orderly shutdown, and transactions whose statements fail half-way. The other is
code whose parts are simple and whose combinations are not: the options of a
router, the sources of a validated input, the filters and pages of a list, the
key sets and predicates of a write. These modules model both, check them with
TLC and prove the main claims with TLAPS. Definitions keep the names of the
source, and `PROJECT.json` ("map") gives the lines each of them stands for.

## 1. The system

| Package | State | Operations | Hard behaviour | What makes it correct |
|---|---|---|---|---|
| messaging, tables (`ClaimDao`, `PgLocalOutbox`, `PgEventBus`) | rows: status, claimed_by, lease_expires_at, retry_count, seq | insert, claim, markDone / markSent / markFailed, renew, release, resetStale, cleanup | a claim reads one snapshot and then try-locks; settles of replicas that lost their claim; crashes | one owner per aggregate; no event is claimed before an earlier one of its aggregate |
| messaging, `EventConsumer` + `ClaimLeaseManager` | batch, taken, held entry, openAggregates, confirmedAt, reported, timer | tick, acquire, hold, settle, renewal tick, handBack, finish, dispose | the renewal timer runs between any two awaits; handlers outlast leases or block the loop; batches stopped half-way | order per aggregate; no overlap; duplicates are reported; every event is settled |
| messaging, `OutboxForwarder` + `publish` | the same, and the bus row of each outbox row | tick, publish with dedup, markSent, markFailed, dispose | crash or lost answer between publish and markSent; a consumer deletes the bus row | order on the bus; at least once; no two bus rows at a time |
| jobs | lease row: token, lease_expires_at, cooldown_until; per run: confirmedAt, timer, signal | tick, tryAcquire, renew, release, stop, register | store calls that are late, fail or hang; a lease that expires in a run | one holder; one run per interval |
| runtime | first cause, phase list, phase loop, result | run, trigger, shutdown, addPhase, exit | triggers during startup; participants that fail or hang; the timeout races the phases | phases in order; exit code; bounded shutdown |
| persistence, `UnitOfWork`, `PgTransaction`, aggregate repositories | ambient context, event sources, transaction state, the aggregate's lock column, column types cached | transaction, loadForUpdate, update, delete, commit, rollback, release | failures of BEGIN, a statement, COMMIT, ROLLBACK; retry after the events were drained; stamps of a millisecond; a second connection for the column types | rows and events are written together or not at all; connections come back; no lost update |
| persistence, keyed writes and reads | the table; statements of one call | createMany, updateMany, deleteMany, updateBy, deleteBy, findOne..., findSingle..., findMany... and ForUpdate forms, existsBy, countBy | statements split by parameter count; keys read one by one; a where that is empty or true of everything; SKIP LOCKED, NOWAIT | all of a write or nothing; a read is what was asked for; no write reaches all rows unasked |
| persistence, queries | none | query schema, filter keys, where, order, pagination | client's filters against the scope's; NULLs and ties; rows and count in two statements | a list stays in its scope; its pages are a partition |
| http, security | routes, chains, the context and input of a request | build, dispatch, verify, load session, withScope, authorize, validate | stacks declared in five places; four sources of an input | the most specific route serves; the nearest stack guards; the session wins |
| execution-context, ddd events | context; event metadata | createSystem, createWithSession, withScope, EventMetadata.create, createFromEventMetadata | a context handed over in an event | one scope, that of the session |
| errors, observability | values | constructors, serialisers, logging | none | formatting |

How they interact: `UnitOfWork.transaction` writes domain events to the outbox
table inside the business transaction; `OutboxForwarder` claims outbox rows and
publishes them to the bus; `EventConsumer` claims bus rows and calls handlers;
both use `ClaimDao` for their table and a `ClaimLeaseManager` for their batch.
A request passes the chain of its route, whose middlewares build the execution
context; its validated input names the scope a list is read in; an event emitted
in the handler carries the context to the consumer's handler.
`InProcessJobRunner` runs periodic work. `Runtime` starts the process, and
`ShutdownManager` disposes of consumers, forwarders, job runners and the
database, phase by phase. Processes share nothing but PostgreSQL tables.

`PROJECT.json` lists every component with its state of modelling, and the
hazards, each at the line where it bites and with the properties that watch it.

## 2. The modules

```
ClaimQueue              a claimable table, one atomic step per effect (the abstraction)
  ClaimQueueProofs      proofs: its invariant, one owner
  ClaimDao              ... refined: the claim transaction, statement by statement
    ClaimDaoProofs      proofs: one owner, inductive invariant, refinement
  EventConsumer         consumers and their lease managers over the table, with a clock
    EventConsumerProofs proofs: order, ownership, no overlap, reports, use of the table
  Pipeline              forwarders over the outbox table, publish, and the bus
    PipelineProofs      proofs: order on the bus, at least once, dedup
JobLease                one any-job on several instances
  JobLeaseProofs        proofs: one holder, spacing of runs
Runtime                 startup, triggers, drain and exit of one process
  RuntimeProofs         proofs: order of the drain, exit code 0

AtomicWork              rows and events stored in one step or not at all (the abstraction)
  UnitOfWork            ... refined: transaction() over a pool, statement by statement
    UnitOfWorkProofs    proofs: connections, lost updates, refinement

Router                  options, chains and order of the routes
  Endpoint              one request through its chain
FilterSql               filters, their clauses and parameters, PostgreSQL's comparisons
  ListQuery             query schema, scope, order and pages
  KeyedWrite            key sets and predicates, written in statements
    KeyedRead           ... read and locked (with the orders of ListQuery)
EventContext            the execution context an event carries
Requests                Endpoint, EventContext, ListQuery, KeyedWrite and KeyedRead composed
  RequestsProofs        proofs: routing, stacks, session, scope, lists, keyed writes and reads
MC<module>              the instance TLC checks
```

**ClaimQueue.** A row has a status, an owner (`claimed_by`) and a retry count.
`Claim(p, S)` takes a batch none of whose rows is blocked by a row outside it.
`Insert` makes rows of one aggregate visible in seq order: the messaging README
("Preconditions") demands that writers of an aggregate are serialized.
`TableSpec` is the specification the other modules rely on.

**ClaimDao.** `claim` is five kinds of steps: `Begin` (the snapshot, and the
rows its filter selects), `TryLock` (the advisory lock, row by row, as the scan
goes), `Take` (FOR UPDATE SKIP LOCKED, with the recheck of a row that changed
since the snapshot), `Verify` (the second UPDATE, on a fresh snapshot) and
`Commit` or `Rollback`. Between any two of them other replicas claim, settle,
release and sweep. The lock of the aggregate and of the row live until the
transaction ends. `KeepsSent` tells the two tables apart: the bus deletes a
completed row, the outbox keeps it as SENT.

**EventConsumer.** One action per stretch of code between two awaits: `Poll`
(timer and sweep), `ClaimBatch` / `ClaimNothing` / `ClaimThrows`, `Advance` (the
loop goes on: `acquire` up to its await), `Confirm` (its answer),
`HandlersSucceed` / `HandlersFail`, `SettleDone` / `SettleFailed` /
`SettleThrows`, `Finish`, and for the renewal timer `TimerTick`, `HandedBack`
and `RenewAnswered`. `unstarted` is the batch without `taken`; `open` is
`openAggregates`. `Tick` lets one renewal interval pass. A query that fails or
takes longer than an interval is a fault, and so is a hand-back of an earlier
batch still in flight at the next claim: `release` checks the owner and not the
claim, so it would take the new claim away. The branch for a type without a
handler is left out (the claim asks for registered types only), and so are
leases without `release`, restarts of a disposed consumer, and operators who put
FAILED rows back.

**Pipeline.** The forwarder's tick in the same style, without a clock: a lease
that is looked after expires only as a counted fault, one nobody looks after
may expire at any time. `Publish` and `LookUp` are the two statements of
`PgEventBus.publish`. A query that fails may have taken effect: `SentThrows`,
`FailedThrows` and the second form of `Publish`. `Consume` is all the pipeline
sees of consumers, who take the rows of an aggregate in order (EventConsumer).
A forwarder's claim has no filter on the type, so `PipelineAssumption` has every
forwarder handle every topic; the order on the bus needs it.
The claim is ClaimQueue's; for the outbox table the refinement of the claim
transaction does not hold in the one case that a SENT row is put back between
verify and commit (finding 1), which Pipeline has only between claims.

**JobLease.** A store call is sent, takes effect and is answered in three steps
with any delay between them, and may fail with or without its effect. `Begin`
is the answer of tryAcquire and the start of the `HeldLease`; `RenewTick` the
timer with its deadline check; `Renew`, `RenewAnswered`, `RenewThrows` a
renewal; `Return` and `Release` the end of the run. `Stop` and `Register` are
the runner's. One clock serves all: durations are all the code uses of its own
clock, expiry is the store's.

**Runtime.** `Run`, `StartupSettles`, `Triggered`, `Drain`, `Exit` are
`Runtime.run`; `BeginPhase`, `Disposed`, `EndPhase`, `EndPhases`, `Timeout` are
`ShutdownManager.run`, whose phases go on after the timeout until the process
exits. `AddPhase` may come at any time, `DrainDirectly` is another caller of
`shutdown()`.

**AtomicWork and UnitOfWork.** A call of `transaction()` goes through `Begin` /
`BeginFails`, the operation (`Fetch`, `Fetched`, `FetchFails` for the column
types; `LoadForUpdate`, `LoadMissing`; `Write`, `Conflict`; `StatementFails`;
`OperationThrows`, `OperationResolves`), `Sink` / `SinkFails` for its events,
`Commit` / `CommitFails`, `Rollback` / `RollbackFails` and `Release`. A failed
statement aborts the session or loses the connection, before or after a COMMIT
took effect. `CallWithLoaded` uses an aggregate that was loaded outside of the
transaction, `CallWithKept` tries again with the instance of a failed call, and
`StatementFailsIgnored` is an operation that catches the error and goes on. The
last two are what a caller should not do: `Careful` callers do not, and the
refinement maps the calls of careful callers to AtomicWork, while the others run
beside them. One aggregate, and an update or a delete of it, stand for the rows.

**Router and Endpoint.** Router is a function of the options: the checks of the
constructor in `Refused`, metadata inherited along a class hierarchy
(`ReadInherited`), the chain of a route (`MiddlewareChain`), and `BuildRoutes`,
which sorts as `router.ts` does. `DeclaredRoutes` keeps with each route the place
where it was declared, and `BuildRoutes` puts it where the routes that compare
before it leave room. `IsRouterOptions` says what options are, for the proofs; of
what an application's middleware may do, it has only `withScope`. A path is a sequence of segments
and a parameter's constraint is the set of texts it accepts. Endpoint takes one
request through `Receive`, the chain (`EnterContext`, `Stamp`,
`VerifyCredential`, `LoadSession`, `WithScope`), and the decorators
(`AuthorizeScope`, `ValidateRequest`) to `Handle`. A handler runs in whatever
context its chain left, one with both a session and a scope included: the
server does not look, and only who asks for the scope (`resolveScopeId`) is
refused. An input is a function from
keys to the source that supplied each of them. hono's matcher is external: the
first registered route that matches.

**FilterSql and ListQuery.** A filter becomes a clause with a place for its
parameter (`Clauses`, `Bound`), and what a clause selects is PostgreSQL's
(`IsTrue`, with NULL); `Means` says independently of places and operators what a
filter is for, and the properties compare the two. `Build` is the query the
list's DAO makes: the filters of the scope first, the client's after them, the
enforced order before the user's or the defaults. `Arranged` is the set of all
orders of the rows that respect ORDER BY, so ties are open. `Filter` is what the
types of `filter-query.type.ts` and the query string let through: a scalar or a
list; `Fits` is the part that the types of a DAO's caller add (a list for
`in`, a scalar for `gt`).

**KeyedWrite and KeyedRead.** `StatementsOf` and `ReadStatements` turn a call
into its statements, with chunks, arrays or one statement per key; the
statements then run one by one, on the pool or in a transaction, and any of them
may fail (`StatementFails`). A statement on the pool commits by itself, so the
call may also reject with its effect stored when the answer is lost
(`AnswerLost`), as with an explicit COMMIT (`CommitWriteFails`); `write` is
then "unknown", a difference the caller does not see. While a read runs, another transaction holds rows locked and ends as
it likes (`OtherEnds`), possibly with those rows deleted. `IsKeyedCall` and
`IsReadCall` are what the types and comments of
`write-db-adapter.interface.ts` ask of a call: columns of the table, no NULL in
a key, the same columns in every row of a batch, and different
keys to update (for equal ones the winner is unspecified).

**Requests.** A case is a service, a request, and what its handler does: a list
read page by page, a keyed write, a keyed read or the emission of an event.
`BothCases` has somebody's write run while a list is read. The cases are a
constant, of which the proofs know only that they are well-formed
(`IsRouterOptions`, `IsQuery`, `IsKeyedCall`, `IsReadCall`). `ListStaysInScope`
and `PagesPartition` compare rows with `InQuery`: the client's filters, except a bare
`scope` that the handler's own replaces, the handler's, and the conditions of the
DAO. A client may well send `scope__in` with other scopes: it is ANDed with
the handler's, and may leave nothing.

## 3. What TLC checks

| Run | Instance | Shows |
|---|---|---|
| `claim_bus` | 2 replicas with overlapping topic filters, 3 rows (two of one aggregate, one without), batch 2, 2 attempts | `OneOwnerPerAggregate`, the inductive invariant `IInv`, and `TableSpec`: the transaction implements the atomic claim |
| `consumer_starved` | 2 replicas, 3 rows of one aggregate (the second skipped as the service's own), 1 attempt, lease of 3 intervals, clock skew 1, handlers that block the event loop, 1 fault | `StartsInOrder`, `StartsOwned`, `DuplicateIsReported` |
| `consumer_on_time` | 2 replicas, 2 rows of one aggregate, 2 attempts, one replica crashes or is disposed of anywhere, 1 fault | `NoOverlap`, `StartsInOrder`, `EveryEventIsSettled` |
| `pipeline` | 2 forwarders (one mortal), 2 rows of one aggregate, 2 attempts, 2 faults | `BusInOrder`, `SentWasPublished`, `OneRowAtATime`, `EveryEventIsForwarded` |
| `job_lease` | 2 instances, lease 3, cooldown 3, 6 units of time, 3 acquires | `IInv`, `OneHolder`, `OneRunPerInterval`, `NoStartOnceAborted` |
| `runtime` | 2 participants in a phase, 1 in the next | `PhasesInOrder`, `CleanExit`, `DisposedOnce`, `TriggerEndsProcess` |
| `unit_of_work` | 2 callers: a careful one with 1 call and one that is not with 2, pool of 4, 1 fault, 2 ms | `IsAtomic` (the refinement of AtomicWork), `PoolRefills`, `LostUpdateNeedsOneMs`, `LockedReadConflictsWithItself`, `CallsEnd` |
| `requests` | about 2,100 cases of service, request, query, write and read; 5 rows in 2 scopes, 3 pages, 10 parameters a statement | `ServedByMostSpecific`, `GuardedByNearestStack`, `SessionWins`, `OneScope`, `ListStaysInScope`, `PagesPartition`, `CallDoesWhatWasAsked`, `NoAccidentalAllRows` |
| `claim_outbox_sent` | the outbox table | finding 1 |
| `job_lease_margin` | lease 6 | finding 2 |
| `runtime_failed_startup` | as `runtime` | finding 3 |
| `pipeline_replay` | as `pipeline`, no faults | finding 4 |

**Why the bounds are enough to be of use.** Every protocol here is about two
parties that both believe they hold something; two replicas and one aggregate
make that happen, and a third row in `consumer_starved` puts an event between
two others of a batch. Two attempts give a retry and a dead letter. A lease of
three intervals is the default ratio of the code. `MaxFaults`, `MaxTime` and
`MaxAcquires` bound what would go on for ever; with `MaxFaults = 2` a pipeline
sees a lost answer followed by a failing repair. `copies` and `succ` count to
two, `retries` to `MaxRetries`: beyond that nothing tells the values apart.
In `unit_of_work` one caller locks what the other wrote without a lock, two
milliseconds make the stamps of two transactions differ or agree, and one fault
is placed at every statement in turn. In `requests` the paths combine static,
parametric, constrained and wildcard segments, and every path of up to two
segments below the prefix is requested; the list cases take up to two filters of twelve, with
NULLs, ties and an empty text in the table, and page sizes below, at and above
the limit; three rows of five columns exceed ten parameters, so writes are split.
What these cases do not have is a third class in a hierarchy, a third filter and
more than three keys.
Every property has a mutant, a plausible bug written next to the definition it
replaces, under which its run fails.

**Deadlock checking is off** where a run may come to rest: all rows settled and
replicas down, the bounded clock at its end, the process exited, the request
answered.

**Fairness.** `EventConsumer.Fairness`: a replica that is up keeps ticking
(`setInterval`), its queries are answered, its handlers return, its timers run
(WF of `Step(p)` and `TimerStep(p)`); time passes (SF of `Tick`, because polls
have a positive interval and do not occur infinitely often within one). A `Tick`
that finds a query under way is a fault, of which there are `MaxFaults`, so again
and again there is a moment at which none is (`[]<>` of no replica `Overdue`);
without it two replicas whose queries alternate for ever would stop the clock.
Nothing is assumed of a replica that crashed. The one fault may be a claim or a
settle that throws, with or without its effect, or a hand-back that fails and
leaves claims behind: `EveryEventIsSettled` holds through each. `Pipeline.FairSpec`: forwarders keep
ticking, and a lease nobody renews expires and is swept by one that lives.
`Runtime.FairSpec`: resolved promises are continued and the timeout fires;
nothing is assumed of startup, of `dispose()` or of triggers, so
`TriggerEndsProcess` holds with participants that hang. It says nothing of a
startup that hangs, which blocks the drain for ever. `UnitOfWork.FairSpec`:
statements are answered, an operation ends, and who waits for a connection or a
row lock gets it while there is one to get (WF of a worker's steps but those
that start a call or throw); nothing is assumed of the order in which the pool
serves. The safety runs assume no
fairness.

## 4. Disagreements between code and documentation

1. **A sent outbox row may be put back** (`claim_outbox_sent`,
   `claim.dao.ts:126`). A completion may match a row that has no owner. On the
   bus such a row was reset; in the outbox it may also be SENT, by another
   replica. A late `markFailed` makes it PENDING again, and it is published
   again. The README says that completions act only on rows the replica owns,
   or that were reset and not claimed again.
2. **The margin of the job lease** (`job_lease_margin`,
   `job-lease.manager.ts:126`). The README promises the abort one renewal
   interval before the expiry. The deadline is looked at on renewal ticks only,
   and their phase starts when the acquire is answered, so the abort may come
   later than that. `OneHolder` still holds: the last tick is always before the
   expiry, which is the inductive argument of JobLeaseProofs.
3. **Exit code of a failed startup** (`runtime_failed_startup`,
   `runtime.ts:124`). The first cause counts: a signal during a startup that
   then fails gives exit code 0 when the drain is clean.
4. **A replay after consumption** (`pipeline_replay`, `pg-event-bus.ts:125`).
   The dedup on `origin_event_id` lives in the bus row, and the consumer deletes
   it. A forwarder that crashes after publish, and whose event is consumed
   before its lease expires, has it published a second time; the README says
   that no second row is created and consumers never see the duplicate.
   `OneRowAtATime` is what does hold.

Known, and without a run of its own:

- **A cold pool may lock up.** The first statement of a transaction fetches the
  table's column types on a second connection (`pg-sql.ts:340`). With as many
  transactions as connections, each waits for one that none gives back, until
  a connection timeout, if one is set. `UnitOfWorkColdPool.cfg` (pool of 2, two
  callers, no fault) shows it:
  `tlc -config UnitOfWorkColdPool.cfg MCUnitOfWork` finds `CallsEnd` violated.
  `unit_of_work` has the connections to spare. By the same path the types
  are fetched more than once when several first statements race, which
  `pg-sql.ts:325` says they are not.
- A context with both a session and a scope is what
  packages/execution-context/README.md:198 says there must never be. A
  `withScope` among the global middlewares, which run ahead of the stack that
  loads the session, makes one: `authenticated-session.middleware.ts:38` keeps
  the scope of the context it extends. The handler runs in it, and the conflict
  shows where something asks for the scope: in `resolveScopeId`, and in the
  metadata of an event (`EmitFails`). `OneScope` says that there is no other way
  to such a context, and that no event carries one.
- A connection whose BEGIN fails is not returned (`unit-of-work.ts:48`);
  `PoolRefills` accounts for it in `leaked`. The error of a failed rollback
  replaces the one that led to it.
- An operation that ignores the error of a statement goes on in an aborted
  transaction, whose COMMIT PostgreSQL answers without an error: `transaction()`
  resolves with nothing stored. This is one of the two reasons for `Careful`.
- `/:organizationSlug` and `/:id{[0-9]+}` coexist (packages/http/README.md,
  Router), and yet the longer text is registered first on a tie and, with no
  constraint, answers every request of the other. `ServedByMostSpecific` ranks
  by kind of segment only, as the README does.
- With a sort from the client the default order is dropped, so nothing is left
  to break ties of equal keys; `PagesPartition` asks for an order that has a
  unique column. A default page size is not held to the maximum.
- A query value of the wrong type is refused by the schema, although
  `zod.ts:78` says that invalid input is tolerated; unknown fields and
  operators are.
- `strictWhere` accepts `contains: ''`, which is true of every row that is not
  NULL; `NoAccidentalAllRows` counts that as leaving some row out.
- Deleting keys one by one, without bulk support and without a transaction,
  is not atomic, as documented (`KeyByKey`): it may stop after some of the rows
  it means, and takes no other. Locking them one by one follows the
  order of the caller, so two callers may deadlock in PostgreSQL.

## 5. What is proved

For every set of replicas, rows, aggregates, topics, instances, participants
and phases, every finite set of callers, every topic filter, batch size, number
of attempts, calls and faults, pool, lease and cooldown, from the named ASSUMEs
of the modules:

**ClaimDaoProofs.** `TypeCorrect`; `Invariance` (`Spec => []IInv`); `OneOwner`
(`Spec => []OneOwnerPerAggregate`); `Refinement` (`Spec => TableSpec`, for the
table that deletes completed rows). `OneOwnerPerAggregate` is not inductive: that
a commit does not give an aggregate a second owner depends on what verify saw
some steps earlier. `LockInv` says what every transaction holds locked, and that
what it has taken is still PENDING for everyone else; `VerifiedInv` says that what verify
established is still true at the commit, because every step that could break it needs the
aggregate's lock or leads away from CLAIMED; `RetryInv` bounds the retries, which the
refinement needs to map a failed attempt. There is one lemma per part
(`OneOwnerStep`, `LockStep`, `VerifiedStep`, `RetryStep`), with one step per
action, and `RefinementStep` maps each action to a step of `TableNext` or to
stuttering: only `Commit`, the settles, release, sweep, insert and cleanup are
visible.

**ClaimQueueProofs.** `TableOneOwner` (`TableSpec => []OneOwnerPerAggregate`), and
what EventConsumer and Pipeline rely on: `TableInv` is kept by every step of the
table (`TableInvStep`), and a row that is settled stays so (`SettledStays`).

**PipelineProofs.** `Invariance` (`Spec => []IInv`), `TypeCorrect`,
`SentIsPublished` (`Spec => []SentWasPublished`), `NoTwoRows`
(`Spec => []OneRowAtATime`) and `BusOrder` (`Spec => BusInOrder`). No forwarder
owns what it has in hand for sure: its lease may have run out, and the others go
on. So nothing of the invariant is said about owners. `SentInv` says instead
that whoever is about to mark an event as sent found it on the bus, which stays
true whatever others do, since `copies` never falls. `OrderInv` says that
everything earlier than the entry in hand has left the outbox, or was never
committed; that is stable, too (`Cleared`), as the earlier rows are not put back
once they were sent or failed for good. It has to be carried back to the claim:
behind an entry that still waits there may be others of the same batch, the one
in hand, or one that was left open, and in the last case the entry will be
refused. `SpentInv` bounds the retries of a dead letter, which is what keeps it
one. `OneRowAtATime` needs only the insert's conflict clause and a few facts on
sequences (`RemoveAtProperties`).

**EventConsumerProofs.** `Invariance` (`Spec => []IInv`), `TypeCorrect`,
`UsesTable` (`Spec => TableSpec`: consumers, timers and clock do nothing to the
table that ClaimQueue does not have), `StartsOrdered`, `StartsAreOwned`,
`DuplicatesAreReported` and `OneAtATime` (`Spec => []NoOverlap`). `OrderInv` is
the argument of the pipeline, with the types a replica subscribes to, and holds
without any assumption on time. `AccountInv` follows every completed run of a
handler until its row is gone: each is reported, unrecorded, or about to be
settled by a replica of its own, so a second one that settles finds the row gone
and reports it. `OnTimeInv` and `HeldInv` relate the leases to the timers, first
while no query is late and then while no handler blocks the event loop either.
What waits in a batch that is not an interval old is still claimed with
`ttl + age >= Lease`; in an older one the timer is due before any entry waits
longer, so an older entry is confirmed before its handler starts. What runs has
its full lease, or an interval less with its renewal due or under way.
With `Skew + 1 < Lease` no other replica may sweep such a row, and with
`OneOwnerPerAggregate` of the table none has another row of its aggregate.

**JobLeaseProofs.** `Invariance`, `HolderIsUnique` (`Spec => []OneHolder`),
`RunsAreSpaced` (`Spec => OneRunPerInterval`), `NoStartAfterStop`
(`Spec => NoStartOnceAborted`). A run is live while its signal has
not aborted. The invariant says that a live run's token is the row's token, that
its timer fires before `confirmedAt + LeaseMs`, and that this is no later than
`leaseExpiresAt`: so a live run's lease has not expired, nobody else can be
granted one, and two live runs would have one token, which `TokenInv` excludes.
`confirmedAt` counts from when a call was sent and the expiry from when it took
effect, hence the inequality (`GrantOK`, `LiveOK`). For the spacing, `SkipOK`
says that an acquire that leads to no run, and gives its interval back, does so only when
the interval of the last run is over. `StopInv`, that a stopped runner's run in
flight is aborted, is all that the last theorem adds. The proof covers every delay,
loss and failure of store calls, under the model's premise that a renewal timer
fires on time; an event loop blocked past the lease is outside it.

**UnitOfWorkProofs.** `TypeCorrect`, `ConnectionsReturn` (`Spec => []PoolRefills`),
`OnlyItself` (`Spec => []LockedReadConflictsWithItself`), `NoUpdateLost`
(`Spec => []LostUpdateNeedsOneMs`) and `Refinement` (`Spec => IsAtomic`). One
invariant carries all of them. `PoolInv` counts: the free connections, the
calls that hold one, those that hold a second one to fetch column types and the
leaked ones add up to the pool. `LockInv` says that a row a transaction has
locked is still as it was found. `VersionInv` is the argument about lost updates:
it gives every stored call the version it made of the row, and says that the row,
and every instance in memory, has the stamp of the call that made its version. A write
over another version than the one read has, by the lock clause, the stamp of two
versions, and hence of two calls (`OverwriteInOneMs`); only such a write gets through.
`AtomInv` follows a call from its start to its answer: nothing of it is stored before
its commit, all of it after, and what `error` holds when the connection is
released tells which. For a careful caller it also says that the transaction
carries exactly its write and its events. So a commit maps to `Store`, the
release and a failed BEGIN to `Answer`, and every other step, and every
step of a caller that is not careful, to stuttering.

**RuntimeProofs.** `TypeCorrect`, `InOrder` (`Spec => []PhasesInOrder`),
`ZeroIsClean` (`Spec => []CleanExit`) and `NotDisposedTwice` (`Spec =>
DisposedOnce`), for any disjoint phases, callers of shutdown() and triggers.
`DrainInv` says what the disposals are by the place of the phase loop:
settled and counted before it, not begun after it. `ResultInv` says that a result without
a timeout came after the last phase and has every error, which a
result that lost the race against the timeout need not have.

**RequestsProofs.** `Invariance` (`Spec => []IInv`), `ServesMostSpecific`
(`Spec => []ServedByMostSpecific`), `NearestStackGuards`
(`Spec => []GuardedByNearestStack`), `SessionIsNotTheClients`
(`Spec => []SessionWins`), `RunsInOneScope` (`Spec => []OneScope`),
`NoWriteOfAllByAccident` (`Spec => []NoAccidentalAllRows`), `CallsInvariance`
(`Spec => [](IInv /\ CallsInv)`), `RequestsTypes` (`Spec => []TypeOK`),
`ListsStayInScope` (`Spec => []ListStaysInScope`), `PagesArePartition`
(`Spec => []PagesPartition`) and `CallsDoWhatWasAsked`
(`Spec => []CallDoesWhatWasAsked`), for all options a router can be given, every
request, every list and every keyed call. The first part is about Router's
operators. `PlacesInOrder` says that ranking a finite set by a
strict total order gives each element a place of its own, in that order;
`CompareBySpecificity` is such an order (`Sorted`). A path that is more specific
segment by segment has the higher score (`MoreSpecificScores`), so it is sorted
first. `RoutesAreChained` says of each route of an accepted
table that the context comes first in its chain and the guards last, that the steps
of a stack are those of one declared stack, with its verification, and with its
session load if and only if it has one; that the
stack of a route that is not public is the nearest declared one is
`NearestStack`. The second part follows a request. `Underway` says that each
step of the chain is still to be made or has left what it leaves (a verified
stack, a session, a scope), and that nothing is there that no step left; with an
empty `todo` that gives the two properties of the stack and the scope. The scope
that a `withScope` named stays in the context, because one other than that in
force throws, and because a session is loaded beside the scope and not over it. Two
scopes can only come of a session loaded after the `withScope`, which would have
refused them the other way round: `Ordered` keeps that for the part of the chain
that has run (`ScopesFirst`). `Carried` follows an emitted event, which has passed
the check for a conflict, to the context it is handled in. `Validated` keeps an input related to what it was made
of, since only guards follow a validation. For `NoAccidentalAllRows`, a filter that is
neither omitted nor vacuous leaves some value out (`SomeValueIsLeftOut`, by cases
on its operator), and one filter is enough to leave out a row. The hypothesis on middlewares
(`Middleware`, `Guard`) is the model's: one of the application that overwrites
the stack's attributes, or the session, is outside of it.

The third part is about what a handler does, and starts from the two ways a
parameter can go astray. `ClausesMean`: wherever the filters' parameters stand
among others, the WHERE selects a row if and only if each filter means it
(`Kept` numbers the filters that bind one, so the k-th place holds the k-th
value). `TuplesOfRows`: what PostgreSQL reads from the parameters of a chunk is
the rows that were written to them, by quotient and remainder.
`KeysAreMeant` says the same of a key set.

`WriteInv` gives a write its progress: `RunUpTo(n, made, rows)` says that after n
statements the rows are what `made` says they should be, where `made` begins at the
table and ends at `Intended`. It allows for a lost answer: a statement that
commits by itself is then made or not, and no more is known. Deletes key by key
only shrink the table, and never below `Intended`. There is one such `made` per kind of write
(`CreateManyProgress`, `UpdateManyProgress`, `DeleteManyProgress`, `DeleteByProgress`,
`UpdateByProgress`); that chunks leave out no row and overlap in none is `Chunks`.
`CallDoesWhatWasAsked` alone says nothing of a transaction that is under way, so
it is not inductive.

`ListInv` keeps the rows of a page, read or answered, among those that `InQuery`
means, whatever is written in between. `PageInv` adds, for a list over a table that
stays, that a list that has begun reading has an arrangement of the rows it wants
to read from, and that for every such arrangement s
the rows seen are the first (page - 1) * pageSize of s, and at the end all of
them, or as many as `MaxPages` pages hold. With
the unique id in the order there is only one (`WantedOnce`), so two
pages cannot take different turns at a tie; without it the invariant
fails, which is the reason for the hypothesis of `PagesPartition`. That two
arrangements of the same rows are equal (`OneArrangement`) needs that of two
different cells one sorts below the other, NULL among them (`OneIsBelow`).

`ReadInv` says what a read that is under way has: `OneRead` for one statement,
`ReadUpTo` key by key (the rows of the first k keys that were not skipped, at their
places in the answer). No row that was read is still locked by the other
transaction, and hence none can be deleted before the read is answered.

A duplicate key in one `updateMany`, a key with NULL, and rows of a batch with
different columns are outside of the theorems, as the interface says of each. A
key that lacks a column is not: it is refused, or ends a write key by key.

**What proving found.** `ListStaysInScope` and `PagesPartition` used to leave
every filter on `scope` out of what a client may ask. For `scope__in` that was wrong:
the handler's own filter replaces the bare key only, both are ANDed, and the
pages are those of the conjunction. The list is right, and so is now the
property; one filter of the pool leaves out the session's own scope. The limits `IsKeyedCall`
names were found the same way.

**Only model-checked.** Every liveness property (`EveryEventIsSettled`,
`EveryEventIsForwarded`, `CallsEnd`, `TriggerEndsProcess`): liveness under
fairness and ENABLED are out of the prover's reach. Every safety property of every
passing run is stated by a theorem. Induction over data and RECURSIVE
operators are out of reach too: the proof modules, and the modules they are about, have
none. What a fold or a flattened sequence would compute is therefore
written by places (`Kept`, `RowValues`), and what grows from step to step is
followed by an invariant.

## 6. What is not modelled

Payloads, wording, logging, schema text; event descriptors (typing and payload
validation); `ComponentRegistry`; the errors and observability packages; the
timer grid, jitter and schedule validation of the job runner (`armNext` only
decides when a tick comes, and JobLease lets ticks come at any time); RETURNING,
casts and quoting; select lists, joins, groupBy and cursors of the query
builder; row mappers and child rows of aggregates; bodies, files, cookies, CORS
and responses of the HTTP adapter; token services and session stores. A
`query_timeout`, which would leave a live connection inside a transaction, is
not set. That AsyncLocalStorage keeps concurrent requests apart is the
platform's, so Requests follows one request at a time. PostgreSQL is taken to
keep its documented promises (snapshots per statement, SKIP LOCKED, rechecks of
changed rows, row and advisory locks until the end of the transaction, unique
indexes). Some things are known and covered by no property: the connection of a
failed BEGIN (`unit-of-work.ts:48`), the events of a call that is tried again with
the same aggregates (`unit-of-work.ts:69`; `IsAtomic` is about careful callers) and
the cold pool (`pg-sql.ts:340`), which the model has and the properties allow for;
`event.consumer.ts:302` counts a shutdown between confirm and the first attempt
as a failed attempt; `pg-local-outbox.ts:71` relies on writers of one aggregate
being serialized, a documented precondition; and two replicas whose claims keep
giving each other's rows back may in theory do so for ever, which is why
liveness is stated over the atomic claim.

## 7. The plan

1. **Done:** ClaimQueue, ClaimDao, EventConsumer, JobLease, Runtime, Pipeline, each with
   its proofs.
2. **Done:** AtomicWork and UnitOfWork with its proofs; Router, Endpoint, FilterSql, ListQuery,
   KeyedWrite, KeyedRead, EventContext and their composition Requests.
3. **Left to model:** the timer grid and ComponentRegistry, as operators checked
   against a reference definition; the reconciliation of child rows; concurrent
   keyed writes of one table.
4. **Done:** a theorem for every safety property of every passing run.
   What is left to TLC is liveness (see section 5).
