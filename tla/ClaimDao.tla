------------------------------ MODULE ClaimDao ------------------------------
(***************************************************************************)
(* packages/messaging/src/postgres/claim.dao.ts: the claim transaction and *)
(* the owner-checked statements shared by the outbox and the bus tables,   *)
(* at the granularity of PostgreSQL statements and row locks under READ    *)
(* COMMITTED.  A claim is BEGIN; one statement that reads one snapshot,    *)
(* try-locks aggregates while it scans and locks rows in order with SKIP   *)
(* LOCKED; a verify statement on a fresh snapshot; COMMIT.  Several claims *)
(* run at once, and every other statement commits between their steps.     *)
(*                                                                         *)
(* status, owner and retries (of ClaimQueue) are the committed table.      *)
(***************************************************************************)
EXTENDS ClaimQueue

CONSTANT KeepsSent    \* TRUE for the outbox (markSent), FALSE for the bus (DELETE)

ASSUME KeepsSentAssumption == KeepsSent \in BOOLEAN

VARIABLES
  pc,       \* the claim transaction of each replica: where it stands
  todo,     \* rows the claim statement's snapshot selects and the scan has not reached
  passed,   \* scanned rows whose advisory lock was obtained, not yet row-locked
  taken,    \* rows this transaction has locked and set to CLAIMED, uncommitted
  kept,     \* what verify left of them
  lock,     \* holder of the transaction-level advisory lock of each aggregate
  held      \* rows of the batch the process has been given and not yet settled

claimVars == <<pc, todo, passed, taken, kept, lock>>
vars == <<status, owner, retries, pc, todo, passed, taken, kept, lock, held>>

TypeOK ==
  /\ TableTypeOK
  /\ pc \in [Replica -> {"idle", "claim", "verify", "commit"}]
  /\ todo \in [Replica -> SUBSET Row]
  /\ passed \in [Replica -> SUBSET Row]
  /\ taken \in [Replica -> SUBSET Row]
  /\ kept \in [Replica -> SUBSET Row]
  /\ lock \in [Agg -> Replica \cup {NoOwner}]
  /\ held \in [Replica -> SUBSET Row]

Init ==
  /\ TableInit
  /\ pc = [p \in Replica |-> "idle"]
  /\ todo = [p \in Replica |-> {}]
  /\ passed = [p \in Replica |-> {}]
  /\ taken = [p \in Replica |-> {}]
  /\ kept = [p \in Replica |-> {}]
  /\ lock = [a \in Agg |-> NoOwner]
  /\ held = [p \in Replica |-> {}]

RowLocked(r) == \E p \in Replica : r \in taken[p]

Unlocked(p) == [a \in Agg |-> IF lock[a] = p THEN NoOwner ELSE lock[a]]

-----------------------------------------------------------------------------
(* The claim transaction.                                                  *)

(* The snapshot of the claim statement: what its WHERE clause selects.     *)
Selected(p) ==
  {r \in Row : /\ status[r] = "PENDING"
               /\ TopicOf[r] \in Subscribed[p]
               /\ \A o \in Row : SameAgg(r, o) => status[o] # "CLAIMED"}

(* A replica claims again once the previous batch is settled.              *)
Begin(p) ==
  /\ pc[p] = "idle"
  /\ held[p] = {}
  /\ pc' = [pc EXCEPT ![p] = "claim"]
  /\ todo' = [todo EXCEPT ![p] = Selected(p)]
  /\ UNCHANGED <<tableVars, passed, taken, kept, lock, held>>

(* The advisory lock of the row's aggregate is free, or already this       *)
(* transaction's; rows without an aggregate need none.                     *)
Lockable(p, r) == AggOf[r] # NoAgg => lock[AggOf[r]] \in {p, NoOwner}

(* The scan reaches a row: pg_try_advisory_xact_lock on its aggregate. The *)
(* order of the scan is the planner's (heap order, or an index's).         *)
TryLock(p, r) ==
  /\ pc[p] = "claim"
  /\ r \in todo[p]
  /\ todo' = [todo EXCEPT ![p] = @ \ {r}]
  /\ \/ /\ Lockable(p, r)
        /\ passed' = [passed EXCEPT ![p] = @ \cup {r}]
        /\ lock' = [a \in Agg |-> IF a = AggOf[r] THEN p ELSE lock[a]]
     \/ /\ ~Lockable(p, r)
        /\ UNCHANGED <<passed, lock>>
  /\ UNCHANGED <<tableVars, pc, taken, kept, held>>

(* Mutant: the rows are read without FOR UPDATE SKIP LOCKED.               *)
TakeUnlocked(p, r) ==
  /\ pc[p] = "claim"
  /\ r \in passed[p]
  /\ \A o \in todo[p] \cup passed[p] : r <= o
  /\ Cardinality(taken[p]) < BatchSize
  /\ passed' = [passed EXCEPT ![p] = @ \ {r}]
  /\ taken' = [taken EXCEPT ![p] = @ \cup {r}]
  /\ UNCHANGED <<tableVars, pc, todo, kept, lock, held>>

(* FOR UPDATE SKIP LOCKED in claim order: a row another transaction has    *)
(* locked is skipped, a row that changed since the snapshot is re-checked. *)
Take(p, r) ==
  /\ pc[p] = "claim"
  /\ r \in passed[p]
  /\ \A o \in todo[p] \cup passed[p] : r <= o
  /\ Cardinality(taken[p]) < BatchSize
  /\ passed' = [passed EXCEPT ![p] = @ \ {r}]
  /\ taken' = IF status[r] = "PENDING" /\ ~RowLocked(r)
              THEN [taken EXCEPT ![p] = @ \cup {r}]
              ELSE taken
  /\ UNCHANGED <<tableVars, pc, todo, kept, lock, held>>

(* The statement ends: LIMIT reached, or nothing left to look at.          *)
EndClaim(p) ==
  /\ pc[p] = "claim"
  /\ Cardinality(taken[p]) = BatchSize \/ todo[p] \cup passed[p] = {}
  /\ pc' = [pc EXCEPT ![p] = "verify"]
  /\ todo' = [todo EXCEPT ![p] = {}]
  /\ passed' = [passed EXCEPT ![p] = {}]
  /\ UNCHANGED <<tableVars, taken, kept, lock, held>>

(* Mutant: verify looks for earlier PENDING rows only.                     *)
GivenBackPendingOnly(p) ==
  {r \in taken[p] : \E o \in Row \ taken[p] :
     SameAgg(r, o) /\ status[o] = "PENDING" /\ TopicOf[o] \in Subscribed[p] /\ o < r}

(* Mutant: verify looks for CLAIMED rows only.                             *)
GivenBackClaimedOnly(p) ==
  {r \in taken[p] : \E o \in Row \ taken[p] : SameAgg(r, o) /\ status[o] = "CLAIMED"}

(* Rows of the batch the verify statement gives back, on a fresh snapshot  *)
(* that shows this transaction's own updates.                              *)
GivenBack(p) ==
  LET seen(o) == IF o \in taken[p] THEN "CLAIMED" ELSE status[o] IN
  {r \in taken[p] : \E o \in Row :
     /\ SameAgg(r, o)
     /\ \/ seen(o) = "CLAIMED" /\ o \notin taken[p]
        \/ seen(o) = "PENDING" /\ TopicOf[o] \in Subscribed[p] /\ o < r}

Verify(p) ==
  /\ pc[p] = "verify"
  /\ pc' = [pc EXCEPT ![p] = "commit"]
  /\ kept' = [kept EXCEPT ![p] = taken[p] \ GivenBack(p)]
  /\ UNCHANGED <<tableVars, todo, passed, taken, lock, held>>

(* The end of the transaction frees its row locks and advisory locks.      *)
EndTransaction(p) ==
  /\ pc' = [pc EXCEPT ![p] = "idle"]
  /\ todo' = [todo EXCEPT ![p] = {}]
  /\ passed' = [passed EXCEPT ![p] = {}]
  /\ taken' = [taken EXCEPT ![p] = {}]
  /\ kept' = [kept EXCEPT ![p] = {}]
  /\ lock' = Unlocked(p)

(* COMMIT. Its answer may be lost: then claim throws, and the rows stay    *)
(* CLAIMED by a replica that does not know of them.                        *)
Commit(p) ==
  /\ pc[p] = "commit"
  /\ status' = [r \in Row |-> IF r \in kept[p] THEN "CLAIMED" ELSE status[r]]
  /\ owner' = [r \in Row |-> IF r \in kept[p] THEN p ELSE owner[r]]
  /\ \E answered \in BOOLEAN :
       held' = [held EXCEPT ![p] = IF answered THEN kept[p] ELSE {}]
  /\ EndTransaction(p)
  /\ UNCHANGED retries

(* An error in any statement: ROLLBACK, and claim throws.                  *)
Rollback(p) ==
  /\ pc[p] # "idle"
  /\ EndTransaction(p)
  /\ UNCHANGED <<tableVars, held>>

(* The process dies; PostgreSQL rolls its open transaction back.           *)
Crash(p) ==
  /\ pc[p] # "idle" \/ held[p] # {}
  /\ held' = [held EXCEPT ![p] = {}]
  /\ EndTransaction(p)
  /\ UNCHANGED tableVars

-----------------------------------------------------------------------------
(* The statements that end a claim. A replica may issue them long after    *)
(* its lease expired. An UPDATE or DELETE waits for the row's lock.        *)

(* ownedBy: WHERE id = ... AND (claimed_by = me OR claimed_by IS NULL).    *)
OwnedBy(p, r) == status[r] \notin {"absent", "gone"} /\ owner[r] \in {p, NoOwner}

Settle(p, r) ==
  /\ r \in held[p]
  /\ ~RowLocked(r)
  /\ held' = [held EXCEPT ![p] = @ \ {r}]
  /\ UNCHANGED claimVars

(* No row matched: ClaimLostError, the table is as it was.                 *)
ClaimLost(p, r) == Settle(p, r) /\ ~OwnedBy(p, r) /\ UNCHANGED tableVars

(* Mutant: the row is kept under a status no query selects.                *)
MarkDoneOddStatus(p, r) ==
  /\ Settle(p, r)
  /\ OwnedBy(p, r)
  /\ status' = [status EXCEPT ![r] = "DONE"]
  /\ owner' = [owner EXCEPT ![r] = NoOwner]
  /\ UNCHANGED retries

(* PgEventBus.markDone deletes the row, PgLocalOutbox.markSent keeps it.   *)
MarkDone(p, r) ==
  /\ Settle(p, r)
  /\ OwnedBy(p, r)
  /\ status' = [status EXCEPT ![r] = IF KeepsSent THEN "SENT" ELSE "gone"]
  /\ owner' = [owner EXCEPT ![r] = NoOwner]
  /\ UNCHANGED retries

MarkFailed(p, r) ==
  /\ Settle(p, r)
  /\ OwnedBy(p, r)
  /\ status' = [status EXCEPT ![r] =
                  IF retries[r] + 1 >= MaxRetries THEN "FAILED" ELSE "PENDING"]
  /\ owner' = [owner EXCEPT ![r] = NoOwner]
  /\ retries' = [retries EXCEPT ![r] =
                   IF retries[r] < MaxRetries THEN retries[r] + 1 ELSE MaxRetries]

(* release: hand unstarted rows back, those still claimed by this replica. *)
Release(p, S) ==
  /\ S # {} /\ S \subseteq held[p]
  /\ LET mine == {r \in S : owner[r] = p /\ status[r] = "CLAIMED"} IN
     /\ status' = [r \in Row |-> IF r \in mine THEN "PENDING" ELSE status[r]]
     /\ owner' = [r \in Row |-> IF r \in mine THEN NoOwner ELSE owner[r]]
  /\ held' = [held EXCEPT ![p] = @ \ S]
  /\ UNCHANGED <<retries, claimVars>>

(* resetStale: the claims whose lease has run out, whichever those are.    *)
ResetStale(S) ==
  /\ S # {}
  /\ \A r \in S : status[r] = "CLAIMED"
  /\ status' = [r \in Row |-> IF r \in S THEN "PENDING" ELSE status[r]]
  /\ owner' = [r \in Row |-> IF r \in S THEN NoOwner ELSE owner[r]]
  /\ UNCHANGED <<retries, claimVars, held>>

(* deleteOlderThan, for cleanupFailed and the outbox's cleanup.            *)
DeleteOlderThan(S) ==
  /\ S # {}
  /\ \E final \in {"FAILED", "SENT"} : \A r \in S : status[r] = final
  /\ status' = [r \in Row |-> IF r \in S THEN "gone" ELSE status[r]]
  /\ UNCHANGED <<owner, retries, claimVars, held>>

InsertRow(r) == Insert(r) /\ UNCHANGED <<claimVars, held>>

-----------------------------------------------------------------------------
ClaimStep(p) ==
  \/ Begin(p) \/ EndClaim(p) \/ Verify(p) \/ Commit(p) \/ Rollback(p) \/ Crash(p)
  \/ \E r \in Row : TryLock(p, r) \/ Take(p, r)

SettleStep(p) ==
  \/ \E r \in Row : MarkDone(p, r) \/ MarkFailed(p, r) \/ ClaimLost(p, r)
  \/ \E S \in SUBSET Row : Release(p, S)

Next ==
  \/ \E p \in Replica : ClaimStep(p) \/ SettleStep(p)
  \/ \E r \in Row : InsertRow(r)
  \/ \E S \in SUBSET Row : ResetStale(S) \/ DeleteOlderThan(S)

Spec == Init /\ [][Next]_vars

-----------------------------------------------------------------------------
(* Owner-checked completion: a replica only acts on a row it still owns or *)
(* that was reset and not re-claimed, so a row one replica has sent is     *)
(* never put back by another one's late failure.                           *)
SentIsFinal == [][\A r \in Row : status[r] = "SENT" => status'[r] \in {"SENT", "gone"}]_vars

-----------------------------------------------------------------------------
(* The inductive invariant behind OneOwnerPerAggregate and TableSpec.      *)

(* Rows under a claim are locked: the row by the transaction that took it, *)
(* the aggregate by the transaction that scanned it. A taken row is        *)
(* PENDING and unowned until its transaction ends.                         *)
LockInv ==
  /\ \A p \in Replica : \A r \in passed[p] \cup taken[p] :
       AggOf[r] # NoAgg => lock[AggOf[r]] = p
  /\ \A p \in Replica : \A r \in taken[p] : status[r] = "PENDING"
  /\ \A p \in Replica : \A r \in todo[p] \cup passed[p] \cup taken[p] :
       TopicOf[r] \in Subscribed[p]
  /\ \A p, q \in Replica : p # q => taken[p] \cap taken[q] = {}
  /\ \A p \in Replica : IsFiniteSet(taken[p]) /\ Cardinality(taken[p]) <= BatchSize
  /\ \A p \in Replica : kept[p] \subseteq taken[p]
  /\ \A p \in Replica : pc[p] # "claim" => todo[p] = {} /\ passed[p] = {}
  /\ \A p \in Replica : pc[p] # "commit" => kept[p] = {}
  /\ \A p \in Replica : pc[p] = "idle" => taken[p] = {}

(* What verify established still holds when the transaction commits: no    *)
(* other row of the aggregate is CLAIMED, and, in a table whose completed  *)
(* rows are deleted, no earlier row of the replica's types is PENDING.     *)
VerifiedInv ==
  \A p \in Replica : \A r \in kept[p] : \A o \in Row \ kept[p] :
    SameAgg(r, o) =>
      /\ status[o] # "CLAIMED"
      /\ ~KeepsSent /\ o < r /\ TopicOf[o] \in Subscribed[p] => status[o] # "PENDING"

(* A row that may still be tried has attempts left; a dead letter has none. *)
RetryInv ==
  \A r \in Row :
    /\ status[r] \in {"absent", "PENDING", "CLAIMED"} => retries[r] < MaxRetries
    /\ status[r] = "FAILED" => retries[r] = MaxRetries
    /\ status[r] = "SENT" => KeepsSent

IInv == TypeOK /\ OneOwnerPerAggregate /\ LockInv /\ VerifiedInv /\ RetryInv
=============================================================================
