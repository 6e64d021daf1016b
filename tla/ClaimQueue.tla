----------------------------- MODULE ClaimQueue -----------------------------
(***************************************************************************)
(* What a claimable table (the outbox table or the bus's events table)     *)
(* promises to the replicas that drain it, one atomic step per effect.     *)
(* ClaimDao implements it with a two-statement transaction.                *)
(*                                                                         *)
(* A row is a natural number and rows are ordered as the claim query       *)
(* orders them (seq NULLS FIRST, created_at).                              *)
(***************************************************************************)
EXTENDS Naturals, FiniteSets

CONSTANTS
  Replica,      \* the processes that claim rows (one instanceId each)
  Row,          \* the rows that will ever be inserted
  Agg,          \* aggregate ids
  NoAgg,        \* aggregate_id IS NULL
  Topic,        \* event types
  NoOwner,      \* claimed_by IS NULL
  AggOf,        \* the aggregate of a row
  TopicOf,      \* the event type of a row
  Subscribed,   \* the event types a replica claims
  BatchSize,    \* LIMIT of the claim statement
  MaxRetries    \* failed attempts after which a row is dead-lettered

ASSUME ConstantsAssumption ==
  /\ Row \subseteq Nat
  /\ NoAgg \notin Agg
  /\ NoOwner \notin Replica
  /\ AggOf \in [Row -> Agg \cup {NoAgg}]
  /\ TopicOf \in [Row -> Topic]
  /\ Subscribed \in [Replica -> SUBSET Topic]
  /\ BatchSize \in Nat \ {0}
  /\ MaxRetries \in Nat \ {0}

VARIABLES
  status,       \* status of each row; "absent" before its insert, "gone" once deleted
  owner,        \* claimed_by
  retries       \* retry_count; counts beyond MaxRetries behave alike and are not told apart

tableVars == <<status, owner, retries>>

Status == {"absent", "PENDING", "CLAIMED", "FAILED", "SENT", "gone"}

TableTypeOK ==
  /\ status \in [Row -> Status]
  /\ owner \in [Row -> Replica \cup {NoOwner}]
  /\ retries \in [Row -> 0..MaxRetries]

TableInit ==
  /\ status = [r \in Row |-> "absent"]
  /\ owner = [r \in Row |-> NoOwner]
  /\ retries = [r \in Row |-> 0]

-----------------------------------------------------------------------------
(* Rows of one aggregate; rows without an aggregate are unrelated.         *)
SameAgg(r, o) == AggOf[r] = AggOf[o] /\ AggOf[r] # NoAgg

(* A row enters the table. The writers of one aggregate are serialized, so *)
(* its rows become visible in seq order.                                   *)
Insert(r) ==
  /\ status[r] = "absent"
  /\ \A o \in Row : SameAgg(r, o) /\ r < o => status[o] = "absent"
  /\ status' = [status EXCEPT ![r] = "PENDING"]
  /\ UNCHANGED <<owner, retries>>

(* o stands in the way of replica p handling r: it is being handled, or it *)
(* is an earlier event, of a type p handles, that still has to be handled. *)
Blocks(p, o, r) ==
  /\ SameAgg(r, o)
  /\ \/ status[o] = "CLAIMED"
     \/ status[o] = "PENDING" /\ o < r /\ TopicOf[o] \in Subscribed[p]

(* p takes the batch S: rows it subscribes to, none of which is blocked by *)
(* a row outside the batch.                                                *)
Claim(p, S) ==
  /\ S # {}
  /\ Cardinality(S) <= BatchSize
  /\ \A r \in S : status[r] = "PENDING" /\ TopicOf[r] \in Subscribed[p]
  /\ \A r \in S : \A o \in Row \ S : ~Blocks(p, o, r)
  /\ status' = [r \in Row |-> IF r \in S THEN "CLAIMED" ELSE status[r]]
  /\ owner' = [r \in Row |-> IF r \in S THEN p ELSE owner[r]]
  /\ UNCHANGED retries

(* The event was handled: the row leaves the queue. A row that was reset   *)
(* or dead-lettered meanwhile has no owner and may still be completed.     *)
Complete(r) ==
  /\ status[r] \in {"PENDING", "CLAIMED", "FAILED"}
  /\ status' = [status EXCEPT ![r] = "gone"]
  /\ owner' = [owner EXCEPT ![r] = NoOwner]
  /\ UNCHANGED retries

(* An attempt failed: retry, or dead-letter.                               *)
Fail(r) ==
  /\ status[r] \in {"PENDING", "CLAIMED"}
  /\ status' = [status EXCEPT ![r] =
                  IF retries[r] + 1 >= MaxRetries THEN "FAILED" ELSE "PENDING"]
  /\ owner' = [owner EXCEPT ![r] = NoOwner]
  /\ retries' = [retries EXCEPT ![r] = retries[r] + 1]

(* Claims end without an outcome: handed back, or their lease expired.     *)
Unclaim(S) ==
  /\ \A r \in S : status[r] = "CLAIMED"
  /\ status' = [r \in Row |-> IF r \in S THEN "PENDING" ELSE status[r]]
  /\ owner' = [r \in Row |-> IF r \in S THEN NoOwner ELSE owner[r]]
  /\ UNCHANGED retries

(* The operator removes dead letters.                                      *)
Purge(S) ==
  /\ \A r \in S : status[r] = "FAILED"
  /\ status' = [r \in Row |-> IF r \in S THEN "gone" ELSE status[r]]
  /\ UNCHANGED <<owner, retries>>

TableNext ==
  \/ \E r \in Row : Insert(r) \/ Complete(r) \/ Fail(r)
  \/ \E p \in Replica : \E S \in SUBSET Row : Claim(p, S)
  \/ \E S \in SUBSET Row : Unclaim(S) \/ Purge(S)

TableSpec == TableInit /\ [][TableNext]_tableVars

-----------------------------------------------------------------------------
(* Only a claimed row has an owner, and two claimed rows of one aggregate  *)
(* have the same one: at any time one replica handles an aggregate.        *)
OneOwnerPerAggregate ==
  /\ \A r \in Row : owner[r] # NoOwner <=> status[r] = "CLAIMED"
  /\ \A r, o \in Row :
       SameAgg(r, o) /\ status[r] = "CLAIMED" /\ status[o] = "CLAIMED"
         => owner[r] = owner[o]
=============================================================================
