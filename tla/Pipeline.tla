------------------------------ MODULE Pipeline ------------------------------
(***************************************************************************)
(* From the outbox table to the bus: the replicas of OutboxForwarder, the  *)
(* claimable outbox they drain (ClaimQueue's table, whose completed rows   *)
(* are kept as SENT), PgEventBus.publish with its dedup on the outbox row  *)
(* id, and consumers, reduced to what they do to the bus table.            *)
(*                                                                         *)
(* Time is left out: a query takes as long as it takes, and the lease of a *)
(* claim that is looked after runs out only as one of the faults counted.  *)
(***************************************************************************)
EXTENDS ClaimQueue, SequencesExt

CONSTANTS
  Mortal,       \* the replicas that may crash or be disposed of
  MaxFaults,    \* bound: queries that fail, and leases that run out in use
  NoRow

ASSUME PipelineAssumption ==
  /\ \A p \in Replica : Subscribed[p] = Topic    \* a forwarder claims every type
  /\ Mortal \subseteq Replica
  /\ MaxFaults \in Nat
  /\ NoRow \notin Row

VARIABLES
  loop,         \* where the tick of each forwarder stands
  queue,        \* entries of the batch the tick has not reached
  unstarted,    \* entries of the batch neither started nor handed back
  cur,          \* the entry being forwarded
  open,         \* openAggregates of the lease manager
  reported,     \* the current entry has been reported lost
  stopping

forwarderVars == <<loop, queue, unstarted, cur, open, reported, stopping>>

VARIABLES
  bus,          \* the rows of the bus table in seq order, as their origin_event_id
  copies,       \* bus rows ever inserted for each event; beyond 2 all are alike
  faults

busVars == <<bus, copies>>
vars == <<tableVars, forwarderVars, busVars, faults>>

LoopState == {"idle", "polling", "choosing", "publishing", "looking", "published",
              "failed", "finishing", "down"}

TypeOK ==
  /\ TableTypeOK
  /\ loop \in [Replica -> LoopState]
  /\ queue \in [Replica -> SUBSET Row] /\ unstarted \in [Replica -> SUBSET Row]
  /\ cur \in [Replica -> Row \cup {NoRow}]
  /\ open \in [Replica -> SUBSET Agg]
  /\ reported \in [Replica -> BOOLEAN] /\ stopping \in [Replica -> BOOLEAN]
  /\ bus \in Seq(Row)
  /\ copies \in [Row -> 0..2]
  /\ faults \in 0..MaxFaults

Init ==
  /\ TableInit
  /\ loop = [p \in Replica |-> "idle"]
  /\ queue = [p \in Replica |-> {}] /\ unstarted = [p \in Replica |-> {}]
  /\ cur = [p \in Replica |-> NoRow]
  /\ open = [p \in Replica |-> {}]
  /\ reported = [p \in Replica |-> FALSE] /\ stopping = [p \in Replica |-> FALSE]
  /\ bus = <<>>
  /\ copies = [r \in Row |-> 0]
  /\ faults = 0

Goto(p, l) == loop' = [loop EXCEPT ![p] = l]

Fault == faults < MaxFaults /\ faults' = faults + 1

(* The entries a forwarder that is up still has in hand.                   *)
Tended(r) == \E p \in Replica : owner[r] = p /\ r \in unstarted[p] \cup {cur[p]}

-----------------------------------------------------------------------------
(* The outbox table.                                                       *)

(* The transaction that wrote the event commits.                           *)
Commit(r) == Insert(r) /\ UNCHANGED <<forwarderVars, busVars, faults>>

(* The sweep of whichever replica ticks next: the lease has run out.       *)
Sweep(r) ==
  /\ status[r] = "CLAIMED"
  /\ \E p \in Replica : loop[p] # "down"
  /\ IF Tended(r) THEN Fault ELSE UNCHANGED faults
  /\ Unclaim({r})
  /\ UNCHANGED <<forwarderVars, busVars>>

(* cleanup and cleanupFailed.                                              *)
Cleanup(r) ==
  /\ status[r] \in {"SENT", "FAILED"}
  /\ status' = [status EXCEPT ![r] = "gone"]
  /\ UNCHANGED <<owner, retries, forwarderVars, busVars, faults>>

(* release: owner-checked.                                                 *)
HandBack(p) == Unclaim({r \in unstarted[p] : status[r] = "CLAIMED" /\ owner[r] = p})

-----------------------------------------------------------------------------
(* A tick of the forwarder, up to the batch.                               *)
Poll(p) ==
  /\ loop[p] = "idle"
  /\ Goto(p, "polling")
  /\ UNCHANGED <<tableVars, queue, unstarted, cur, open, reported, stopping, busVars, faults>>

Claimable(p) ==
  \E r \in Row : status[r] = "PENDING" /\ \A o \in Row : ~Blocks(p, o, r)

ClaimBatch(p, S) ==
  /\ loop[p] = "polling"
  /\ Claim(p, S)
  /\ Goto(p, "choosing")
  /\ queue' = [queue EXCEPT ![p] = S]
  /\ unstarted' = [unstarted EXCEPT ![p] = S]
  /\ UNCHANGED <<cur, open, reported, stopping, busVars, faults>>

(* Nothing to claim, or claim throws, its effect made or not.              *)
ClaimNothing(p) ==
  /\ loop[p] = "polling"
  /\ Goto(p, "finishing")
  /\ \/ ~Claimable(p) /\ UNCHANGED <<tableVars, faults>>
     \/ Fault /\ UNCHANGED tableVars
     \/ Fault /\ \E S \in SUBSET Row : Claim(p, S)
  /\ UNCHANGED <<queue, unstarted, cur, open, reported, stopping, busVars>>

Acquirable(p) == {r \in queue[p] \cap unstarted[p] : AggOf[r] \notin open[p]}

(* The for loop goes on. A claim that has been waiting is confirmed: when  *)
(* it is gone the entry is skipped and its aggregate stays open.           *)
Advance(p) ==
  /\ loop[p] = "choosing"
  /\ IF stopping[p] \/ Acquirable(p) = {}
     THEN /\ Goto(p, "finishing")
          /\ UNCHANGED <<queue, unstarted, cur, open, reported>>
     ELSE LET r == Min(Acquirable(p)) IN
          /\ \/ Goto(p, "publishing") /\ cur' = [cur EXCEPT ![p] = r]
             \/ owner[r] # p /\ UNCHANGED <<loop, cur>>
          /\ queue' = [queue EXCEPT ![p] = {x \in @ : x > r}]
          /\ unstarted' = [unstarted EXCEPT ![p] = @ \ {r}]
          /\ open' = [open EXCEPT ![p] = (@ \cup {AggOf[r]}) \cap Agg]
          /\ reported' = [reported EXCEPT ![p] = FALSE]
  /\ UNCHANGED <<tableVars, stopping, busVars, faults>>

(* The renewal timer: waiting entries are handed back, the held entry may  *)
(* turn out to be lost.                                                    *)
Renewal(p) ==
  /\ loop[p] \in {"publishing", "looking", "published", "failed"}
  /\ \/ HandBack(p) /\ UNCHANGED faults
     \/ Fault /\ unstarted[p] # {} /\ UNCHANGED tableVars
  /\ unstarted' = [unstarted EXCEPT ![p] = {}]
  /\ reported' = [reported EXCEPT
       ![p] = @ \/ (loop[p] \in {"publishing", "looking"} /\ owner[cur[p]] # p)]
  /\ UNCHANGED <<loop, queue, cur, open, stopping, busVars>>

-----------------------------------------------------------------------------
(* PgEventBus.publish.                                                     *)
OnBus(r) == r \in ToSet(bus)

(* Mutant: INSERT without ON CONFLICT, and without the unique index.       *)
InsertOnBusTwice(r) ==
  /\ bus' = Append(bus, r)
  /\ copies' = [copies EXCEPT ![r] = IF @ < 2 THEN @ + 1 ELSE 2]

(* INSERT ... ON CONFLICT (origin_event_id) DO NOTHING.                    *)
InsertOnBus(r) ==
  IF OnBus(r) THEN UNCHANGED busVars
  ELSE /\ bus' = Append(bus, r)
       /\ copies' = [copies EXCEPT ![r] = IF @ < 2 THEN @ + 1 ELSE 2]

(* Its answer is one row, none, or an error.                               *)
Publish(p) ==
  /\ loop[p] = "publishing"
  /\ InsertOnBus(cur[p])
  /\ \/ Goto(p, IF OnBus(cur[p]) THEN "looking" ELSE "published") /\ UNCHANGED faults
     \/ Fault /\ Goto(p, "failed")
  /\ UNCHANGED <<tableVars, queue, unstarted, cur, open, reported, stopping>>

(* Mutant: an error of the publisher is taken for a dedup hit.             *)
PublishFailsUnnoticed(p) ==
  /\ loop[p] \in {"publishing", "looking"}
  /\ Fault
  /\ Goto(p, "published")
  /\ UNCHANGED <<tableVars, queue, unstarted, cur, open, reported, stopping, busVars>>

PublishFails(p) ==
  /\ loop[p] \in {"publishing", "looking"}
  /\ Fault
  /\ Goto(p, "failed")
  /\ UNCHANGED <<tableVars, queue, unstarted, cur, open, reported, stopping, busVars>>

(* After a conflict: SELECT the row that was in the way; when it has been  *)
(* consumed since, publish throws.                                         *)
LookUp(p) ==
  /\ loop[p] = "looking"
  /\ Goto(p, IF OnBus(cur[p]) THEN "published" ELSE "failed")
  /\ UNCHANGED <<tableVars, queue, unstarted, cur, open, reported, stopping, busVars, faults>>

-----------------------------------------------------------------------------
(* leases.settle.                                                          *)
OwnedBy(p, r) == status[r] \notin {"absent", "gone"} /\ owner[r] \in {p, NoOwner}

MarkSent(r) ==
  /\ status' = [status EXCEPT ![r] = "SENT"]
  /\ owner' = [owner EXCEPT ![r] = NoOwner]
  /\ UNCHANGED retries

(* Mutant: an attempt too many is not the last one.                        *)
MarkFailedForever(r) ==
  /\ status' = [status EXCEPT ![r] = "PENDING"]
  /\ owner' = [owner EXCEPT ![r] = NoOwner]
  /\ retries' = [retries EXCEPT ![r] = retries[r] + 1]

MarkFailed(r) ==
  /\ status' = [status EXCEPT ![r] =
                  IF retries[r] + 1 >= MaxRetries THEN "FAILED" ELSE "PENDING"]
  /\ owner' = [owner EXCEPT ![r] = NoOwner]
  /\ retries' = [retries EXCEPT ![r] =
                   IF retries[r] < MaxRetries THEN retries[r] + 1 ELSE MaxRetries]

SettleLost(p) ==
  /\ ~OwnedBy(p, cur[p])
  /\ reported' = [reported EXCEPT ![p] = TRUE]
  /\ UNCHANGED <<tableVars, open>>

Settled(p) == Goto(p, "choosing") /\ cur' = [cur EXCEPT ![p] = NoRow]

SettleSent(p) ==
  /\ loop[p] = "published"
  /\ \/ SettleLost(p)
     \/ /\ OwnedBy(p, cur[p])
        /\ MarkSent(cur[p])
        /\ open' = [open EXCEPT ![p] = IF reported[p] THEN @ ELSE @ \ {AggOf[cur[p]]}]
        /\ UNCHANGED reported
  /\ Settled(p)
  /\ UNCHANGED <<queue, unstarted, stopping, busVars, faults>>

(* markSent throws, its effect made or not: the catch that is there for    *)
(* publish marks the entry failed.                                         *)
SentThrows(p) ==
  /\ loop[p] = "published"
  /\ Fault
  /\ Goto(p, "failed")
  /\ (OwnedBy(p, cur[p]) /\ MarkSent(cur[p])) \/ UNCHANGED tableVars
  /\ UNCHANGED <<queue, unstarted, cur, open, reported, stopping, busVars>>

(* Mutant: the aggregate is closed although the entry failed.              *)
SettleFailedCloses(p) ==
  /\ loop[p] = "failed"
  /\ \/ SettleLost(p)
     \/ /\ OwnedBy(p, cur[p])
        /\ MarkFailed(cur[p])
        /\ open' = [open EXCEPT ![p] = @ \ {AggOf[cur[p]]}]
        /\ UNCHANGED reported
  /\ Settled(p)
  /\ UNCHANGED <<queue, unstarted, stopping, busVars, faults>>

SettleFailed(p) ==
  /\ loop[p] = "failed"
  /\ \/ SettleLost(p)
     \/ OwnedBy(p, cur[p]) /\ MarkFailed(cur[p]) /\ UNCHANGED <<open, reported>>
  /\ Settled(p)
  /\ UNCHANGED <<queue, unstarted, stopping, busVars, faults>>

(* markFailed throws, its effect made or not: the tick is given up.        *)
FailedThrows(p) ==
  /\ loop[p] = "failed"
  /\ Fault
  /\ (OwnedBy(p, cur[p]) /\ MarkFailed(cur[p])) \/ UNCHANGED tableVars
  /\ Goto(p, "finishing")
  /\ cur' = [cur EXCEPT ![p] = NoRow]
  /\ UNCHANGED <<queue, unstarted, open, reported, stopping, busVars>>

(* Mutant: reset forgets the batch but not its open aggregates.            *)
ForgetKeepsOpen(p) ==
  /\ queue' = [queue EXCEPT ![p] = {}]
  /\ unstarted' = [unstarted EXCEPT ![p] = {}]
  /\ reported' = [reported EXCEPT ![p] = FALSE]
  /\ UNCHANGED open

(* reset: the manager forgets the batch.                                   *)
Forget(p) ==
  /\ queue' = [queue EXCEPT ![p] = {}]
  /\ unstarted' = [unstarted EXCEPT ![p] = {}]
  /\ open' = [open EXCEPT ![p] = {}]
  /\ reported' = [reported EXCEPT ![p] = FALSE]

(* leases.finish                                                           *)
Finish(p) ==
  /\ loop[p] = "finishing"
  /\ \/ HandBack(p) /\ UNCHANGED faults
     \/ Fault /\ UNCHANGED tableVars
  /\ Forget(p)
  /\ Goto(p, IF stopping[p] THEN "down" ELSE "idle")
  /\ UNCHANGED <<cur, stopping, busVars>>

Dispose(p) ==
  /\ p \in Mortal
  /\ loop[p] # "down" /\ ~stopping[p]
  /\ stopping' = [stopping EXCEPT ![p] = TRUE]
  /\ loop' = [loop EXCEPT ![p] = IF @ = "idle" THEN "down" ELSE @]
  /\ UNCHANGED <<tableVars, queue, unstarted, cur, open, reported, busVars, faults>>

Crash(p) ==
  /\ p \in Mortal
  /\ loop[p] # "down"
  /\ Goto(p, "down")
  /\ Forget(p)
  /\ cur' = [cur EXCEPT ![p] = NoRow]
  /\ UNCHANGED <<tableVars, stopping, busVars, faults>>

-----------------------------------------------------------------------------
(* A consumer handles the first bus row of an aggregate and deletes it, or *)
(* its dead letter is cleaned up in the end.                               *)
Consume(i) ==
  /\ \A j \in 1..(i - 1) : ~SameAgg(bus[i], bus[j])
  /\ bus' = RemoveAt(bus, i)
  /\ UNCHANGED <<tableVars, forwarderVars, copies, faults>>

Step(p) ==
  \/ Poll(p) \/ ClaimNothing(p) \/ \E S \in SUBSET Row : ClaimBatch(p, S)
  \/ Advance(p) \/ Publish(p) \/ PublishFails(p) \/ LookUp(p)
  \/ SettleSent(p) \/ SentThrows(p) \/ SettleFailed(p) \/ FailedThrows(p)
  \/ Finish(p)

Next ==
  \/ \E r \in Row : Commit(r) \/ Sweep(r) \/ Cleanup(r)
  \/ \E p \in Replica : Step(p) \/ Renewal(p) \/ Dispose(p) \/ Crash(p)
  \/ \E i \in 1..Len(bus) : Consume(i)

Spec == Init /\ [][Next]_vars

(* A forwarder that lives keeps ticking, and sweeps.                       *)
FairSpec ==
  /\ Spec
  /\ \A p \in Replica : WF_vars(Step(p))
  /\ \A r \in Row : WF_vars(Sweep(r) /\ ~Tended(r))

-----------------------------------------------------------------------------
(* Per-aggregate order on the bus: an event gets there only after every    *)
(* earlier committed event of its aggregate did or was dead-lettered,      *)
(* whichever replicas forwarded them and whatever failed.                  *)
BusInOrder ==
  [][\A r, o \in Row :
       copies[r] = 0 /\ copies'[r] > 0 /\ SameAgg(r, o) /\ o < r
         => copies[o] > 0 \/ status[o] \in {"absent", "FAILED", "gone"}]_vars

(* At least once: an event that is marked as sent has been on the bus,     *)
(* although the replica that marks it may not be the one that sent it.     *)
SentWasPublished == \A r \in Row : status[r] = "SENT" => copies[r] > 0

(* Dedup: the bus never holds two rows of one event.                       *)
OneRowAtATime == IsInjective(bus)

(* Every committed event reaches the bus or is dead-lettered.              *)
EveryEventIsForwarded ==
  \A r \in Row : status[r] = "PENDING" ~> copies[r] > 0 \/ status[r] \in {"FAILED", "gone"}

(* "The bus sees the same originEventId, and no second row is created":    *)
(* one bus row for every outbox row.                                       *)
NoSecondRow == \A r \in Row : copies[r] <= 1
=============================================================================
