--------------------------- MODULE EventConsumer ---------------------------
(***************************************************************************)
(* The replicas of one EventConsumer and their ClaimLeaseManagers          *)
(* (packages/messaging/src/event-bus) over the bus table.  The table is    *)
(* ClaimQueue's: a claim is one atomic step, which ClaimDaoProofs shows of *)
(* the claim transaction.  Every await of the code is a point where other  *)
(* replicas, the renewal timer and the clock get in between.               *)
(*                                                                         *)
(* The clock is discrete and its unit is the renewal interval: ttl is what *)
(* is left of a claim's lease, age is how long ago the batch was claimed.  *)
(***************************************************************************)
EXTENDS ClaimQueue, FiniteSetsExt

CONSTANTS
  Lease,        \* the lease, in renewal intervals (3 by default)
  Skew,         \* the clocks of two replicas differ by at most this much
  Own,          \* rows of the replica's own service, of a kind it skips
  Mortal,       \* the replicas that may crash or be disposed of
  Blocking,     \* TRUE: a handler may keep the event loop, and its timers, waiting
  MaxFaults,    \* bound: queries that fail or take longer than an interval
  NoRow

ASSUME ConsumerAssumption ==
  /\ Lease \in Nat /\ Skew \in Nat /\ Skew + 1 < Lease
  /\ Own \subseteq Row
  /\ Mortal \subseteq Replica
  /\ Blocking \in BOOLEAN
  /\ MaxFaults \in Nat
  /\ NoRow \notin Row

VARIABLES
  loop,         \* where the tick of each replica stands
  queue,        \* entries of the batch the tick has not reached
  unstarted,    \* entries of the batch neither started nor handed back (batch \ taken)
  cur,          \* the entry being handled
  open,         \* openAggregates
  reported,     \* the current entry has been reported lost
  age,          \* intervals since the batch was claimed; beyond 2 all are alike
  due,          \* the renewal timer has run down and its callback has not run
  releasing,    \* rows of the timer's hand-back query in flight
  renewing,     \* entry of the renewal query in flight
  stopping,
  ttl           \* what is left of the lease of each claimed row

leaseVars == <<open, reported, age, due, releasing, renewing, unstarted>>
loopVars == <<loop, queue, cur>>

VARIABLES       \* what the environment and an observer keep count of
  faults,       \* failed or late queries so far
  succ,         \* completed handler runs of each row; beyond 2 all are alike
  lost,         \* rows whose claim was reported lost (onLeaseLost)
  unrecorded    \* rows handled by a replica that could not record it

obsVars == <<succ, lost, unrecorded>>
vars == <<tableVars, leaseVars, loopVars, stopping, ttl, faults, obsVars>>

LoopState == {"idle", "polling", "choosing", "confirming", "running",
              "succeeded", "failed", "finishing", "down"}

TypeOK ==
  /\ TableTypeOK
  /\ loop \in [Replica -> LoopState]
  /\ queue \in [Replica -> SUBSET Row]
  /\ unstarted \in [Replica -> SUBSET Row]
  /\ cur \in [Replica -> Row \cup {NoRow}]
  /\ open \in [Replica -> SUBSET Agg]
  /\ reported \in [Replica -> BOOLEAN]
  /\ age \in [Replica -> 0..2]
  /\ due \in [Replica -> BOOLEAN]
  /\ releasing \in [Replica -> SUBSET Row]
  /\ renewing \in [Replica -> Row \cup {NoRow}]
  /\ stopping \in [Replica -> BOOLEAN]
  /\ ttl \in [Row -> 0..Lease]
  /\ faults \in 0..MaxFaults
  /\ succ \in [Row -> 0..2]
  /\ lost \subseteq Row
  /\ unrecorded \subseteq Row

Init ==
  /\ TableInit
  /\ loop = [p \in Replica |-> "idle"]
  /\ queue = [p \in Replica |-> {}]
  /\ unstarted = [p \in Replica |-> {}]
  /\ cur = [p \in Replica |-> NoRow]
  /\ open = [p \in Replica |-> {}]
  /\ reported = [p \in Replica |-> FALSE]
  /\ age = [p \in Replica |-> 0]
  /\ due = [p \in Replica |-> FALSE]
  /\ releasing = [p \in Replica |-> {}]
  /\ renewing = [p \in Replica |-> NoRow]
  /\ stopping = [p \in Replica |-> FALSE]
  /\ ttl = [r \in Row |-> 0]
  /\ faults = 0
  /\ succ = [r \in Row |-> 0]
  /\ lost = {}
  /\ unrecorded = {}

Goto(p, l) == loop' = [loop EXCEPT ![p] = l]

Fault == faults < MaxFaults /\ faults' = faults + 1

Claimed(S) == {r \in S : status[r] = "CLAIMED"}

(* The lease manager's record of a batch is cleared.                       *)
Reset(p, batch) ==
  /\ unstarted' = [unstarted EXCEPT ![p] = batch]
  /\ open' = [open EXCEPT ![p] = {}]
  /\ reported' = [reported EXCEPT ![p] = FALSE]
  /\ age' = [age EXCEPT ![p] = 0]
  /\ due' = [due EXCEPT ![p] = FALSE]
  /\ UNCHANGED <<releasing, renewing>>

-----------------------------------------------------------------------------
(* The table, with the leases of its claims.                               *)

InsertRow(r) ==
  /\ Insert(r)
  /\ UNCHANGED <<leaseVars, loopVars, stopping, ttl, faults, obsVars>>

(* Mutant: only claims without an owner are swept.                         *)
ResetUnowned(S) ==
  /\ S = {r \in Claimed(Row) : owner[r] = NoOwner}
  /\ Unclaim(S)
  /\ UNCHANGED ttl

(* resetStale: lease_expires_at < now, by the sweeper's clock.             *)
ResetExpired(S) ==
  /\ \A r \in Claimed(Row) : ttl[r] = 0 => r \in S
  /\ \A r \in S : status[r] = "CLAIMED" /\ ttl[r] <= Skew
  /\ Unclaim(S)
  /\ ttl' = [r \in Row |-> IF r \in S THEN 0 ELSE ttl[r]]

(* release: owner-checked.                                                 *)
HandBack(p, S) ==
  LET mine == {r \in Claimed(S) : owner[r] = p} IN
  /\ Unclaim(mine)
  /\ ttl' = [r \in Row |-> IF r \in mine THEN 0 ELSE ttl[r]]

(* renew of one row: owner-checked.                                        *)
Renewed(p, r) == owner[r] = p /\ status[r] = "CLAIMED"

(* Mutant: the lease is extended from its deadline instead of from now.    *)
RenewFromDeadline(p, r) ==
  ttl' = IF Renewed(p, r) THEN [ttl EXCEPT ![r] = @ + Lease] ELSE ttl

Renew(p, r) ==
  ttl' = IF Renewed(p, r) THEN [ttl EXCEPT ![r] = Lease] ELSE ttl

-----------------------------------------------------------------------------
(* A tick. It starts with the stale sweep, which may fail and is then left *)
(* out: the errors are logged.                                             *)
Poll(p) ==
  /\ loop[p] = "idle" /\ ~stopping[p]
  /\ Goto(p, "polling")
  /\ \/ (\E S \in SUBSET Row : ResetExpired(S)) /\ UNCHANGED faults
     \/ Fault /\ UNCHANGED <<tableVars, ttl>>
  /\ UNCHANGED <<leaseVars, queue, cur, stopping, obsVars>>

(* bus.claim, then leases.begin. A claim finds what there is to claim. A   *)
(* hand-back of the previous batch still in flight by then counts as late: *)
(* it is checked against the owner, not the claim, and would give up a     *)
(* claim made since.                                                       *)
Claimable(p) ==
  \E r \in Row : /\ status[r] = "PENDING"
                /\ TopicOf[r] \in Subscribed[p]
                /\ \A o \in Row : ~Blocks(p, o, r)

ClaimBatch(p, S) ==
  /\ loop[p] = "polling"
  /\ Claim(p, S)
  /\ ttl' = [r \in Row |-> IF r \in S THEN Lease ELSE ttl[r]]
  /\ Goto(p, "choosing")
  /\ queue' = [queue EXCEPT ![p] = S]
  /\ Reset(p, S)
  /\ IF releasing[p] = {} THEN UNCHANGED faults ELSE Fault
  /\ UNCHANGED <<cur, stopping, obsVars>>

ClaimNothing(p) ==
  /\ loop[p] = "polling"
  /\ ~Claimable(p)
  /\ Goto(p, "finishing")
  /\ Reset(p, {})
  /\ UNCHANGED <<tableVars, queue, cur, stopping, ttl, faults, obsVars>>

(* The claim throws. The rows may be CLAIMED all the same (COMMIT was not  *)
(* answered); finish then finds no batch.                                  *)
ClaimThrows(p) ==
  /\ loop[p] = "polling"
  /\ Fault
  /\ \/ UNCHANGED <<tableVars, ttl>>
     \/ \E S \in SUBSET Row :
          /\ Claim(p, S)
          /\ ttl' = [r \in Row |-> IF r \in S THEN Lease ELSE ttl[r]]
  /\ Goto(p, "finishing")
  /\ UNCHANGED <<leaseVars, queue, cur, stopping, obsVars>>

(* leases.acquire answers yes: the handlers run, unless the kind is skipped *)
(* or shutdown came while the claim was being confirmed.                   *)
Dispatch(p, r) ==
  Goto(p, CASE r \in Own -> "succeeded"
            [] r \notin Own /\ stopping[p] -> "failed"
            [] OTHER -> "running")

(* The entries of the batch the loop would not refuse.                     *)
Acquirable(p) == {r \in queue[p] \cap unstarted[p] : AggOf[r] \notin open[p]}

Take(p, r) ==
  /\ cur' = [cur EXCEPT ![p] = r]
  /\ queue' = [queue EXCEPT ![p] = {x \in @ : x > r}]
  /\ unstarted' = [unstarted EXCEPT ![p] = @ \ {r}]
  /\ open' = [open EXCEPT ![p] = (@ \cup {AggOf[r]}) \cap Agg]
  /\ reported' = [reported EXCEPT ![p] = FALSE]
  /\ UNCHANGED <<age, due, releasing, renewing>>

(* The batch ends; the timer is stopped.                                   *)
LeaveLoop(p) ==
  /\ Goto(p, "finishing")
  /\ queue' = [queue EXCEPT ![p] = {}]
  /\ cur' = [cur EXCEPT ![p] = NoRow]
  /\ due' = [due EXCEPT ![p] = FALSE]

(* Mutant: a claim that has been waiting is not confirmed before dispatch. *)
AdvanceUnconfirmed(p) ==
  /\ loop[p] = "choosing"
  /\ UNCHANGED <<tableVars, stopping, ttl, faults, obsVars>>
  /\ IF stopping[p] \/ Acquirable(p) = {}
     THEN LeaveLoop(p) /\ UNCHANGED <<open, reported, age, releasing, renewing, unstarted>>
     ELSE LET r == Min(Acquirable(p)) IN Take(p, r) /\ Dispatch(p, r)

(* The for loop goes on, up to its next await. A claim older than one      *)
(* interval is confirmed first; an age of 1 may be more or less than one.  *)
Advance(p) ==
  /\ loop[p] = "choosing"
  /\ UNCHANGED <<tableVars, stopping, ttl, faults, obsVars>>
  /\ IF stopping[p] \/ Acquirable(p) = {}
     THEN LeaveLoop(p) /\ UNCHANGED <<open, reported, age, releasing, renewing, unstarted>>
     ELSE LET r == Min(Acquirable(p)) IN
          /\ Take(p, r)
          /\ \/ age[p] <= 1 /\ Dispatch(p, r)
             \/ age[p] >= 1 /\ Goto(p, "confirming")

(* The confirming renew. A claim that is gone is skipped, its aggregate    *)
(* stays open; a query that fails lets the entry through.                  *)
Confirm(p) ==
  LET r == cur[p] IN
  /\ loop[p] = "confirming"
  /\ \/ /\ Renew(p, r)
        /\ IF Renewed(p, r) THEN Dispatch(p, r) ELSE Goto(p, "choosing")
        /\ UNCHANGED faults
     \/ Fault /\ Dispatch(p, r) /\ UNCHANGED ttl
  /\ UNCHANGED <<tableVars, leaseVars, queue, cur, stopping, obsVars>>

(* executeWithRetry over the handlers of the type, in-process attempts     *)
(* included: they all succeeded, or one gave up (or was stopped).          *)
HandlersSucceed(p) ==
  /\ loop[p] = "running"
  /\ Goto(p, "succeeded")
  /\ succ' = [succ EXCEPT ![cur[p]] = IF @ < 2 THEN @ + 1 ELSE 2]
  /\ UNCHANGED <<tableVars, leaseVars, queue, cur, stopping, ttl, faults, lost, unrecorded>>

HandlersFail(p) ==
  /\ loop[p] = "running"
  /\ Goto(p, "failed")
  /\ UNCHANGED <<tableVars, leaseVars, queue, cur, stopping, ttl, faults, obsVars>>

-----------------------------------------------------------------------------
(* leases.settle.                                                          *)

(* ownedBy: WHERE claimed_by = me OR claimed_by IS NULL.                   *)
OwnedBy(p, r) == status[r] \in {"PENDING", "CLAIMED", "FAILED"} /\ owner[r] \in {p, NoOwner}

ReportLost(p) ==
  /\ reported' = [reported EXCEPT ![p] = TRUE]
  /\ lost' = lost \cup {cur[p]}

SettleLost(p) ==
  /\ ~OwnedBy(p, cur[p])
  /\ ReportLost(p)
  /\ UNCHANGED <<tableVars, ttl, open>>

RecordDone(r) == Complete(r) /\ ttl' = [ttl EXCEPT ![r] = 0]

(* A dead letter that fails late stays one.                                *)
RecordFailed(r) ==
  /\ IF status[r] = "FAILED" THEN UNCHANGED tableVars ELSE Fail(r)
  /\ ttl' = [ttl EXCEPT ![r] = 0]

(* Mutant: markDone does not tell whether it matched the row.              *)
SettleDoneSilently(p) ==
  /\ loop[p] = "succeeded"
  /\ IF OwnedBy(p, cur[p]) THEN RecordDone(cur[p]) ELSE UNCHANGED <<tableVars, ttl>>
  /\ open' = [open EXCEPT ![p] = @ \ {AggOf[cur[p]]}]
  /\ Goto(p, "choosing")
  /\ UNCHANGED <<reported, lost, age, due, releasing, renewing, unstarted, queue, cur,
                 stopping, faults, succ, unrecorded>>

(* markDone: the aggregate is closed, unless the entry was reported lost.  *)
SettleDone(p) ==
  /\ loop[p] = "succeeded"
  /\ \/ SettleLost(p)
     \/ /\ OwnedBy(p, cur[p])
        /\ RecordDone(cur[p])
        /\ open' = [open EXCEPT ![p] = IF reported[p] THEN @ ELSE @ \ {AggOf[cur[p]]}]
        /\ UNCHANGED <<reported, lost>>
  /\ Goto(p, "choosing")
  /\ UNCHANGED <<age, due, releasing, renewing, unstarted, queue, cur,
                 stopping, faults, succ, unrecorded>>

(* Mutant: the aggregate is closed whatever became of the entry.           *)
SettleFailedCloses(p) ==
  /\ loop[p] = "failed"
  /\ \/ SettleLost(p)
     \/ /\ OwnedBy(p, cur[p])
        /\ RecordFailed(cur[p])
        /\ open' = [open EXCEPT ![p] = @ \ {AggOf[cur[p]]}]
        /\ UNCHANGED <<reported, lost>>
  /\ Goto(p, "choosing")
  /\ UNCHANGED <<age, due, releasing, renewing, unstarted, queue, cur,
                 stopping, faults, succ, unrecorded>>

(* markFailed: the aggregate stays open, the rest of it is handed back.    *)
SettleFailed(p) ==
  /\ loop[p] = "failed"
  /\ \/ SettleLost(p)
     \/ /\ OwnedBy(p, cur[p])
        /\ RecordFailed(cur[p])
        /\ UNCHANGED <<open, reported, lost>>
  /\ Goto(p, "choosing")
  /\ UNCHANGED <<age, due, releasing, renewing, unstarted, queue, cur,
                 stopping, faults, succ, unrecorded>>

(* The write throws, before or after its effect: the tick is given up.     *)
SettleThrows(p) ==
  LET r == cur[p] IN
  /\ Fault
  /\ \/ loop[p] = "succeeded" /\ OwnedBy(p, r) /\ RecordDone(r)
     \/ loop[p] = "failed" /\ OwnedBy(p, r) /\ RecordFailed(r)
     \/ loop[p] \in {"succeeded", "failed"} /\ UNCHANGED <<tableVars, ttl>>
  /\ unrecorded' = IF loop[p] = "succeeded" THEN unrecorded \cup {r} ELSE unrecorded
  /\ LeaveLoop(p)
  /\ UNCHANGED <<open, reported, age, releasing, renewing, unstarted, stopping, succ, lost>>

-----------------------------------------------------------------------------
(* The renewal timer: tick is handBack, then renewHeld.                    *)

(* Rows to renew now: the held entry, unless it was reported lost or a     *)
(* renewal is already in flight.                                           *)
RenewHeld(p) ==
  renewing' = IF loop[p] = "running" /\ ~reported[p] /\ renewing[p] = NoRow
              THEN [renewing EXCEPT ![p] = cur[p]]
              ELSE renewing

(* Its callback runs while the tick awaits something.                      *)
TimerTick(p) ==
  /\ due[p]
  /\ loop[p] # "choosing"
  /\ due' = [due EXCEPT ![p] = FALSE]
  /\ releasing' = [releasing EXCEPT ![p] = @ \cup unstarted[p]]
  /\ unstarted' = [unstarted EXCEPT ![p] = {}]
  /\ IF unstarted[p] = {} THEN RenewHeld(p) ELSE UNCHANGED renewing
  /\ UNCHANGED <<tableVars, open, reported, age, loopVars, stopping, ttl, faults, obsVars>>

(* Mutant: the first timer tick hands back and forgets to renew.           *)
HandedBackOnly(p) ==
  /\ releasing[p] # {}
  /\ releasing' = [releasing EXCEPT ![p] = {}]
  /\ \/ HandBack(p, releasing[p]) /\ UNCHANGED faults
     \/ Fault /\ UNCHANGED <<tableVars, ttl>>
  /\ UNCHANGED <<open, reported, age, due, renewing, unstarted, loopVars, stopping, obsVars>>

(* The hand-back is answered, or failed; then the held entry is renewed.   *)
HandedBack(p) ==
  /\ releasing[p] # {}
  /\ releasing' = [releasing EXCEPT ![p] = {}]
  /\ \/ HandBack(p, releasing[p]) /\ UNCHANGED faults
     \/ Fault /\ UNCHANGED <<tableVars, ttl>>
  /\ RenewHeld(p)
  /\ UNCHANGED <<open, reported, age, due, unstarted, loopVars, stopping, obsVars>>

(* The renewal is answered: the entry still being handled may be lost.     *)
RenewAnswered(p) ==
  LET r == renewing[p] IN
  /\ r # NoRow
  /\ renewing' = [renewing EXCEPT ![p] = NoRow]
  /\ \/ /\ Renew(p, r)
        /\ IF ~Renewed(p, r) /\ loop[p] = "running" /\ cur[p] = r /\ ~reported[p]
           THEN ReportLost(p)
           ELSE UNCHANGED <<reported, lost>>
        /\ UNCHANGED faults
     \/ Fault /\ UNCHANGED <<ttl, reported, lost>>
  /\ UNCHANGED <<tableVars, open, age, due, releasing, unstarted, loopVars, stopping,
                 succ, unrecorded>>

-----------------------------------------------------------------------------
(* leases.finish: unstarted entries are handed back. Then the poll timer   *)
(* may tick again, or dispose returns.                                     *)
Finish(p) ==
  /\ loop[p] = "finishing"
  /\ \/ HandBack(p, unstarted[p]) /\ UNCHANGED faults
     \/ Fault /\ UNCHANGED <<tableVars, ttl>>
  /\ Reset(p, {})
  /\ Goto(p, IF stopping[p] THEN "down" ELSE "idle")
  /\ UNCHANGED <<queue, cur, stopping, obsVars>>

(* dispose                                                                 *)
Dispose(p) ==
  /\ p \in Mortal
  /\ loop[p] # "down" /\ ~stopping[p]
  /\ stopping' = [stopping EXCEPT ![p] = TRUE]
  /\ loop' = [loop EXCEPT ![p] = IF @ = "idle" THEN "down" ELSE @]
  /\ UNCHANGED <<tableVars, leaseVars, queue, cur, ttl, faults, obsVars>>

(* The process dies. Its claims stay until their leases expire.            *)
Crash(p) ==
  /\ p \in Mortal
  /\ loop[p] # "down"
  /\ Goto(p, "down")
  /\ queue' = [queue EXCEPT ![p] = {}]
  /\ cur' = [cur EXCEPT ![p] = NoRow]
  /\ unstarted' = [unstarted EXCEPT ![p] = {}]
  /\ open' = [open EXCEPT ![p] = {}]
  /\ reported' = [reported EXCEPT ![p] = FALSE]
  /\ age' = [age EXCEPT ![p] = 0]
  /\ due' = [due EXCEPT ![p] = FALSE]
  /\ releasing' = [releasing EXCEPT ![p] = {}]
  /\ renewing' = [renewing EXCEPT ![p] = NoRow]
  /\ unrecorded' = IF loop[p] = "succeeded" THEN unrecorded \cup {cur[p]} ELSE unrecorded
  /\ UNCHANGED <<tableVars, stopping, ttl, faults, succ, lost>>

-----------------------------------------------------------------------------
(* The clock. A query is answered, and a timer that is due gets to run,    *)
(* within the interval, unless the handler keeps the event loop; anything  *)
(* slower is a fault.                                                      *)
Overdue(p) ==
  \/ loop[p] \notin {"idle", "running", "down"}
  \/ releasing[p] # {}
  \/ renewing[p] # NoRow
  \/ due[p] /\ ~(Blocking /\ loop[p] = "running")

Tick ==
  /\ IF \E p \in Replica : Overdue(p) THEN Fault ELSE UNCHANGED faults
  /\ ttl' = [r \in Row |-> IF ttl[r] > 0 THEN ttl[r] - 1 ELSE 0]
  /\ age' = [p \in Replica |->
               IF loop[p] \in {"idle", "polling", "down"} THEN 0
               ELSE IF age[p] < 2 THEN age[p] + 1 ELSE 2]
  /\ due' = [p \in Replica |-> due[p] \/ loop[p] \notin {"idle", "polling", "finishing", "down"}]
  /\ UNCHANGED <<tableVars, open, reported, releasing, renewing, unstarted, loopVars,
                 stopping, obsVars>>

-----------------------------------------------------------------------------
(* What a replica does by itself; what happens to it.                      *)
Step(p) ==
  \/ Poll(p) \/ ClaimNothing(p) \/ ClaimThrows(p)
  \/ \E S \in SUBSET Row : ClaimBatch(p, S)
  \/ Advance(p) \/ Confirm(p)
  \/ HandlersSucceed(p) \/ HandlersFail(p)
  \/ SettleDone(p) \/ SettleFailed(p) \/ SettleThrows(p)
  \/ Finish(p)

TimerStep(p) == TimerTick(p) \/ HandedBack(p) \/ RenewAnswered(p)

Next ==
  \/ \E r \in Row : InsertRow(r)
  \/ \E p \in Replica : Step(p) \/ TimerStep(p) \/ Dispose(p) \/ Crash(p)
  \/ Tick

Spec == Init /\ [][Next]_vars

(* A replica that lives keeps polling, its queries are answered, its       *)
(* handlers return and its timers run. Time passes: replicas do not poll   *)
(* infinitely often within one interval. Queries that fail or are late are *)
(* finitely many; after the last of them Tick finds none under way.        *)
Fairness ==
  /\ \A p \in Replica : WF_vars(Step(p)) /\ WF_vars(TimerStep(p))
  /\ SF_vars(Tick)
  /\ []<>(\A p \in Replica : ~Overdue(p))

FairSpec == Spec /\ Fairness

-----------------------------------------------------------------------------
Starts(p) == loop[p] # "running" /\ loop'[p] = "running"

(* Per-aggregate order: a handler starts on an event only when every       *)
(* earlier event of its aggregate the service subscribes to is finished:   *)
(* handled and deleted, or dead-lettered. Whatever crashes, leases lost,   *)
(* late queries and failures there were.                                   *)
StartsInOrder ==
  [][\A p \in Replica : Starts(p) =>
       \A o \in Row :
         SameAgg(cur'[p], o) /\ o < cur'[p] /\ TopicOf[o] \in Subscribed[p]
           => status[o] \notin {"PENDING", "CLAIMED"}]_vars

(* A handler never starts on an entry another replica has claimed since,   *)
(* or that was reset: an entry that has waited, even behind a handler that *)
(* blocks the event loop, is confirmed first. Unless a query failed.       *)
StartsOwned ==
  [][\A p \in Replica : Starts(p) /\ faults' = 0 => Renewed(p, cur'[p])]_vars

(* onLeaseLost is the signal that an event may have been handled twice: no *)
(* event is handled twice without it, once both replicas have settled it,  *)
(* unless one of them could not record that it had handled it.             *)
DuplicateIsReported ==
  \A r \in Row :
    succ[r] = 2 => \/ r \in lost \cup unrecorded
                   \/ \E p \in Replica : loop[p] = "succeeded" /\ cur[p] = r

(* As long as timers and queries are on time, no two replicas handle       *)
(* events of one aggregate, or the same event, at the same time, however   *)
(* long their handlers take.                                               *)
NoOverlap ==
  ~Blocking /\ faults = 0 =>
    \A p, q \in Replica :
      p # q /\ loop[p] = "running" /\ loop[q] = "running" =>
        cur[p] # cur[q] /\ ~SameAgg(cur[p], cur[q])

(* Every published event is handled or dead-lettered in the end, though    *)
(* replicas crash or shut down in the middle of their batches, a claim or  *)
(* a settle throws, or a hand-back fails and leaves its claims behind.     *)
EveryEventIsSettled ==
  \A r \in Row : status[r] = "PENDING" ~> status[r] \in {"gone", "FAILED"}
=============================================================================
