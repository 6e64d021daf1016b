--------------------------- MODULE ClaimDaoProofs ---------------------------
(***************************************************************************)
(* Proofs about ClaimDao, for every set of replicas, rows and aggregates,  *)
(* every subscription, batch size and retry limit.                         *)
(***************************************************************************)
EXTENDS ClaimDao, FiniteSetTheorems, TLAPS

USE DEF tableVars, claimVars, vars

-----------------------------------------------------------------------------
(* Every variable keeps its type: in particular a retry count never runs   *)
(* past the limit and a row never gets a status the queries do not know.   *)
THEOREM TypeCorrect == Spec => []TypeOK
<1> USE ConstantsAssumption, KeepsSentAssumption
    DEF TypeOK, TableTypeOK, Status
<1>1. Init => TypeOK
  BY DEF Init, TableInit
<1>2. TypeOK /\ [Next]_vars => TypeOK'
  <2> SUFFICES ASSUME TypeOK, [Next]_vars PROVE TypeOK'
    OBVIOUS
  <2>1. ASSUME NEW p \in Replica, Begin(p) PROVE TypeOK'
    BY <2>1 DEF Begin, Selected
  <2>2. ASSUME NEW p \in Replica, NEW r \in Row, TryLock(p, r) PROVE TypeOK'
    BY <2>2 DEF TryLock, Lockable
  <2>3. ASSUME NEW p \in Replica, NEW r \in Row, Take(p, r) PROVE TypeOK'
    BY <2>3 DEF Take
  <2>4. ASSUME NEW p \in Replica, EndClaim(p) PROVE TypeOK'
    BY <2>4 DEF EndClaim
  <2>5. ASSUME NEW p \in Replica, Verify(p) PROVE TypeOK'
    BY <2>5 DEF Verify, GivenBack
  <2>6. ASSUME NEW p \in Replica, Commit(p) PROVE TypeOK'
    BY <2>6 DEF Commit, EndTransaction, Unlocked
  <2>7. ASSUME NEW p \in Replica, Rollback(p) PROVE TypeOK'
    BY <2>7 DEF Rollback, EndTransaction, Unlocked
  <2>8. ASSUME NEW p \in Replica, Crash(p) PROVE TypeOK'
    BY <2>8 DEF Crash, EndTransaction, Unlocked
  <2>9. ASSUME NEW p \in Replica, NEW r \in Row, MarkDone(p, r) PROVE TypeOK'
    BY <2>9 DEF MarkDone, Settle
  <2>10. ASSUME NEW p \in Replica, NEW r \in Row, MarkFailed(p, r) PROVE TypeOK'
    BY <2>10 DEF MarkFailed, Settle
  <2>11. ASSUME NEW p \in Replica, NEW r \in Row, ClaimLost(p, r) PROVE TypeOK'
    BY <2>11 DEF ClaimLost, Settle
  <2>12. ASSUME NEW p \in Replica, NEW S \in SUBSET Row, Release(p, S) PROVE TypeOK'
    BY <2>12 DEF Release
  <2>13. ASSUME NEW S \in SUBSET Row, ResetStale(S) PROVE TypeOK'
    BY <2>13 DEF ResetStale
  <2>14. ASSUME NEW S \in SUBSET Row, DeleteOlderThan(S) PROVE TypeOK'
    BY <2>14 DEF DeleteOlderThan
  <2>15. ASSUME NEW r \in Row, InsertRow(r) PROVE TypeOK'
    BY <2>15 DEF InsertRow, Insert
  <2>16. CASE UNCHANGED vars
    BY <2>16
  <2>17. QED
    BY <2>1, <2>2, <2>3, <2>4, <2>5, <2>6, <2>7, <2>8, <2>9, <2>10, <2>11, <2>12,
       <2>13, <2>14, <2>15, <2>16
    DEF Next, ClaimStep, SettleStep
<1>3. QED
  BY <1>1, <1>2, PTL DEF Spec

(* One owner per aggregate: only COMMIT creates claims, and what it        *)
(* commits was verified against every other claim of the aggregate.        *)
LEMMA OneOwnerStep == IInv /\ TypeOK' /\ Next => OneOwnerPerAggregate'
<1> USE ConstantsAssumption, KeepsSentAssumption
    DEF IInv, TypeOK, TableTypeOK, Status, OneOwnerPerAggregate, SameAgg
<1> SUFFICES ASSUME IInv, TypeOK', Next PROVE OneOwnerPerAggregate'
  OBVIOUS
<1>1. ASSUME NEW p \in Replica, Begin(p) PROVE OneOwnerPerAggregate'
  BY <1>1 DEF Begin
<1>2. ASSUME NEW p \in Replica, NEW r \in Row, TryLock(p, r) PROVE OneOwnerPerAggregate'
  BY <1>2 DEF TryLock
<1>3. ASSUME NEW p \in Replica, NEW r \in Row, Take(p, r) PROVE OneOwnerPerAggregate'
  BY <1>3 DEF Take
<1>4. ASSUME NEW p \in Replica, EndClaim(p) PROVE OneOwnerPerAggregate'
  BY <1>4 DEF EndClaim
<1>5. ASSUME NEW p \in Replica, Verify(p) PROVE OneOwnerPerAggregate'
  BY <1>5 DEF Verify
<1>6. ASSUME NEW p \in Replica, Commit(p) PROVE OneOwnerPerAggregate'
  BY <1>6 DEF Commit, EndTransaction, LockInv, VerifiedInv
<1>7. ASSUME NEW p \in Replica, Rollback(p) PROVE OneOwnerPerAggregate'
  BY <1>7 DEF Rollback, EndTransaction
<1>8. ASSUME NEW p \in Replica, Crash(p) PROVE OneOwnerPerAggregate'
  BY <1>8 DEF Crash, EndTransaction
<1>9. ASSUME NEW p \in Replica, NEW r \in Row, MarkDone(p, r) PROVE OneOwnerPerAggregate'
  BY <1>9 DEF MarkDone, Settle
<1>10. ASSUME NEW p \in Replica, NEW r \in Row, MarkFailed(p, r) PROVE OneOwnerPerAggregate'
  BY <1>10 DEF MarkFailed, Settle
<1>11. ASSUME NEW p \in Replica, NEW r \in Row, ClaimLost(p, r) PROVE OneOwnerPerAggregate'
  BY <1>11 DEF ClaimLost, Settle
<1>12. ASSUME NEW p \in Replica, NEW S \in SUBSET Row, Release(p, S) PROVE OneOwnerPerAggregate'
  BY <1>12 DEF Release
<1>13. ASSUME NEW S \in SUBSET Row, ResetStale(S) PROVE OneOwnerPerAggregate'
  BY <1>13 DEF ResetStale
<1>14. ASSUME NEW S \in SUBSET Row, DeleteOlderThan(S) PROVE OneOwnerPerAggregate'
  BY <1>14 DEF DeleteOlderThan
<1>15. ASSUME NEW r \in Row, InsertRow(r) PROVE OneOwnerPerAggregate'
  BY <1>15 DEF InsertRow, Insert
<1>16. QED
  BY <1>1, <1>2, <1>3, <1>4, <1>5, <1>6, <1>7, <1>8, <1>9, <1>10, <1>11, <1>12, <1>13, <1>14, <1>15
  DEF Next, ClaimStep, SettleStep

(* Locks: a row or aggregate under a claim stays locked by the transaction *)
(* that claims it, and no other statement changes the row meanwhile.       *)
LEMMA LockStep == IInv /\ TypeOK' /\ Next => LockInv'
<1> USE ConstantsAssumption, KeepsSentAssumption
    DEF IInv, TypeOK, TableTypeOK, Status, LockInv
<1> SUFFICES ASSUME IInv, TypeOK', Next PROVE LockInv'
  OBVIOUS
<1>1. ASSUME NEW p \in Replica, Begin(p) PROVE LockInv'
  BY <1>1 DEF Begin, Selected
<1>2. ASSUME NEW p \in Replica, NEW r \in Row, TryLock(p, r) PROVE LockInv'
  BY <1>2 DEF TryLock, Lockable
<1>3. ASSUME NEW p \in Replica, NEW r \in Row, Take(p, r) PROVE LockInv'
  <2>1. IsFiniteSet(taken'[p]) /\ Cardinality(taken'[p]) <= BatchSize
    <3>1. CASE taken' = taken
      BY <3>1
    <3>2. CASE taken' = [taken EXCEPT ![p] = taken[p] \cup {r}]
      <4>1. Cardinality(taken[p]) \in Nat /\ Cardinality(taken[p]) < BatchSize
        BY <1>3, FS_CardinalityType DEF Take
      <4>2. /\ IsFiniteSet(taken[p] \cup {r})
            /\ \/ Cardinality(taken[p] \cup {r}) = Cardinality(taken[p])
               \/ Cardinality(taken[p] \cup {r}) = Cardinality(taken[p]) + 1
        BY FS_AddElement
      <4>3. taken'[p] = taken[p] \cup {r}
        BY <3>2
      <4>4. QED
        BY <4>1, <4>2, <4>3
    <3>3. QED
      BY <1>3, <3>1, <3>2 DEF Take
  <2>2. QED
    BY <1>3, <2>1 DEF Take, RowLocked
<1>4. ASSUME NEW p \in Replica, EndClaim(p) PROVE LockInv'
  BY <1>4 DEF EndClaim
<1>5. ASSUME NEW p \in Replica, Verify(p) PROVE LockInv'
  BY <1>5 DEF Verify, GivenBack
<1>6. ASSUME NEW p \in Replica, Commit(p) PROVE LockInv'
  BY <1>6, FS_EmptySet DEF Commit, EndTransaction, Unlocked
<1>7. ASSUME NEW p \in Replica, Rollback(p) PROVE LockInv'
  BY <1>7, FS_EmptySet DEF Rollback, EndTransaction, Unlocked
<1>8. ASSUME NEW p \in Replica, Crash(p) PROVE LockInv'
  BY <1>8, FS_EmptySet DEF Crash, EndTransaction, Unlocked
<1>9. ASSUME NEW p \in Replica, NEW r \in Row, MarkDone(p, r) PROVE LockInv'
  BY <1>9 DEF MarkDone, Settle, RowLocked
<1>10. ASSUME NEW p \in Replica, NEW r \in Row, MarkFailed(p, r) PROVE LockInv'
  BY <1>10 DEF MarkFailed, Settle, RowLocked
<1>11. ASSUME NEW p \in Replica, NEW r \in Row, ClaimLost(p, r) PROVE LockInv'
  BY <1>11 DEF ClaimLost, Settle
<1>12. ASSUME NEW p \in Replica, NEW S \in SUBSET Row, Release(p, S) PROVE LockInv'
  BY <1>12 DEF Release
<1>13. ASSUME NEW S \in SUBSET Row, ResetStale(S) PROVE LockInv'
  BY <1>13 DEF ResetStale
<1>14. ASSUME NEW S \in SUBSET Row, DeleteOlderThan(S) PROVE LockInv'
  BY <1>14 DEF DeleteOlderThan
<1>15. ASSUME NEW r \in Row, InsertRow(r) PROVE LockInv'
  BY <1>15 DEF InsertRow, Insert
<1>16. QED
  BY <1>1, <1>2, <1>3, <1>4, <1>5, <1>6, <1>7, <1>8, <1>9, <1>10, <1>11, <1>12, <1>13, <1>14, <1>15
  DEF Next, ClaimStep, SettleStep

(* Between verify and COMMIT nothing can get in the way of a kept row: the *)
(* advisory lock keeps other claims of the aggregate out, rows arrive in   *)
(* order, and a row that left the queue does not come back.                *)
LEMMA VerifiedStep == IInv /\ TypeOK' /\ Next => VerifiedInv'
<1> USE ConstantsAssumption, KeepsSentAssumption
    DEF IInv, TypeOK, TableTypeOK, Status, VerifiedInv, SameAgg
<1> SUFFICES ASSUME IInv, TypeOK', Next PROVE VerifiedInv'
  OBVIOUS
<1>1. ASSUME NEW p \in Replica, Begin(p) PROVE VerifiedInv'
  BY <1>1 DEF Begin
<1>2. ASSUME NEW p \in Replica, NEW r \in Row, TryLock(p, r) PROVE VerifiedInv'
  BY <1>2 DEF TryLock
<1>3. ASSUME NEW p \in Replica, NEW r \in Row, Take(p, r) PROVE VerifiedInv'
  BY <1>3 DEF Take
<1>4. ASSUME NEW p \in Replica, EndClaim(p) PROVE VerifiedInv'
  BY <1>4 DEF EndClaim
<1>5. ASSUME NEW p \in Replica, Verify(p) PROVE VerifiedInv'
  BY <1>5 DEF Verify, GivenBack, LockInv, RetryInv
<1>6. ASSUME NEW p \in Replica, Commit(p) PROVE VerifiedInv'
  BY <1>6 DEF Commit, EndTransaction, LockInv
<1>7. ASSUME NEW p \in Replica, Rollback(p) PROVE VerifiedInv'
  BY <1>7 DEF Rollback, EndTransaction
<1>8. ASSUME NEW p \in Replica, Crash(p) PROVE VerifiedInv'
  BY <1>8 DEF Crash, EndTransaction
<1>9. ASSUME NEW p \in Replica, NEW r \in Row, MarkDone(p, r) PROVE VerifiedInv'
  BY <1>9 DEF MarkDone, Settle, OwnedBy
<1>10. ASSUME NEW p \in Replica, NEW r \in Row, MarkFailed(p, r) PROVE VerifiedInv'
  BY <1>10 DEF MarkFailed, Settle, OwnedBy, RetryInv
<1>11. ASSUME NEW p \in Replica, NEW r \in Row, ClaimLost(p, r) PROVE VerifiedInv'
  BY <1>11 DEF ClaimLost, Settle
<1>12. ASSUME NEW p \in Replica, NEW S \in SUBSET Row, Release(p, S) PROVE VerifiedInv'
  BY <1>12 DEF Release
<1>13. ASSUME NEW S \in SUBSET Row, ResetStale(S) PROVE VerifiedInv'
  BY <1>13 DEF ResetStale
<1>14. ASSUME NEW S \in SUBSET Row, DeleteOlderThan(S) PROVE VerifiedInv'
  BY <1>14 DEF DeleteOlderThan
<1>15. ASSUME NEW r \in Row, InsertRow(r) PROVE VerifiedInv'
  BY <1>15 DEF InsertRow, Insert, LockInv
<1>16. QED
  BY <1>1, <1>2, <1>3, <1>4, <1>5, <1>6, <1>7, <1>8, <1>9, <1>10, <1>11, <1>12, <1>13, <1>14, <1>15
  DEF Next, ClaimStep, SettleStep

(* Attempts: a row that may still be claimed has attempts left.            *)
LEMMA RetryStep == IInv /\ TypeOK' /\ Next => RetryInv'
<1> USE ConstantsAssumption, KeepsSentAssumption
    DEF IInv, TypeOK, TableTypeOK, Status, RetryInv
<1> SUFFICES ASSUME IInv, TypeOK', Next PROVE RetryInv'
  OBVIOUS
<1>1. ASSUME NEW p \in Replica, Begin(p) PROVE RetryInv'
  BY <1>1 DEF Begin
<1>2. ASSUME NEW p \in Replica, NEW r \in Row, TryLock(p, r) PROVE RetryInv'
  BY <1>2 DEF TryLock
<1>3. ASSUME NEW p \in Replica, NEW r \in Row, Take(p, r) PROVE RetryInv'
  BY <1>3 DEF Take
<1>4. ASSUME NEW p \in Replica, EndClaim(p) PROVE RetryInv'
  BY <1>4 DEF EndClaim
<1>5. ASSUME NEW p \in Replica, Verify(p) PROVE RetryInv'
  BY <1>5 DEF Verify
<1>6. ASSUME NEW p \in Replica, Commit(p) PROVE RetryInv'
  BY <1>6 DEF Commit, EndTransaction, LockInv
<1>7. ASSUME NEW p \in Replica, Rollback(p) PROVE RetryInv'
  BY <1>7 DEF Rollback, EndTransaction
<1>8. ASSUME NEW p \in Replica, Crash(p) PROVE RetryInv'
  BY <1>8 DEF Crash, EndTransaction
<1>9. ASSUME NEW p \in Replica, NEW r \in Row, MarkDone(p, r) PROVE RetryInv'
  BY <1>9 DEF MarkDone, Settle
<1>10. ASSUME NEW p \in Replica, NEW r \in Row, MarkFailed(p, r) PROVE RetryInv'
  BY <1>10 DEF MarkFailed, Settle, OwnedBy
<1>11. ASSUME NEW p \in Replica, NEW r \in Row, ClaimLost(p, r) PROVE RetryInv'
  BY <1>11 DEF ClaimLost, Settle
<1>12. ASSUME NEW p \in Replica, NEW S \in SUBSET Row, Release(p, S) PROVE RetryInv'
  BY <1>12 DEF Release
<1>13. ASSUME NEW S \in SUBSET Row, ResetStale(S) PROVE RetryInv'
  BY <1>13 DEF ResetStale
<1>14. ASSUME NEW S \in SUBSET Row, DeleteOlderThan(S) PROVE RetryInv'
  BY <1>14 DEF DeleteOlderThan
<1>15. ASSUME NEW r \in Row, InsertRow(r) PROVE RetryInv'
  BY <1>15 DEF InsertRow, Insert
<1>16. QED
  BY <1>1, <1>2, <1>3, <1>4, <1>5, <1>6, <1>7, <1>8, <1>9, <1>10, <1>11, <1>12, <1>13, <1>14, <1>15
  DEF Next, ClaimStep, SettleStep

(* The inductive invariant. TypeOK alone says too little of the locks, and *)
(* OneOwnerPerAggregate is kept by COMMIT only because of what the open    *)
(* transaction holds since it verified its batch.                          *)
THEOREM Invariance == Spec => []IInv
<1> USE ConstantsAssumption, KeepsSentAssumption
<1>1. Init => IInv
  <2> SUFFICES ASSUME Init PROVE IInv
    OBVIOUS
  <2> USE DEF Init, TableInit
  <2>1. TypeOK
    BY DEF TypeOK, TableTypeOK, Status
  <2>2. LockInv
    BY FS_EmptySet DEF LockInv
  <2>3. OneOwnerPerAggregate /\ VerifiedInv /\ RetryInv
    BY DEF OneOwnerPerAggregate, VerifiedInv, RetryInv
  <2>4. QED
    BY <2>1, <2>2, <2>3 DEF IInv
<1>2. IInv /\ TypeOK' /\ [Next]_vars => IInv'
  <2>1. CASE Next
    BY <2>1, OneOwnerStep, LockStep, VerifiedStep, RetryStep DEF IInv
  <2>2. CASE UNCHANGED vars
    BY <2>2 DEF IInv, TypeOK, TableTypeOK, OneOwnerPerAggregate, LockInv, VerifiedInv,
      RetryInv, SameAgg, Blocks
  <2>3. QED
    BY <2>1, <2>2
<1>3. QED
  BY <1>1, <1>2, TypeCorrect, PTL DEF Spec

(* A claimed row has exactly one owner, and all claimed rows of one        *)
(* aggregate have the same one, whatever claims, resets, late completions  *)
(* and crashes interleave; for the outbox and for the bus.                 *)
THEOREM OneOwner == Spec => []OneOwnerPerAggregate
BY Invariance, PTL DEF IInv

-----------------------------------------------------------------------------
(* The bus table: each step of the detailed specification is a step of     *)
(* ClaimQueue or leaves the table alone. COMMIT is the claim, all at once. *)
LEMMA RefinementStep == ~KeepsSent /\ IInv /\ [Next]_vars => [TableNext]_tableVars
<1> USE ConstantsAssumption DEF IInv
<1> SUFFICES ASSUME ~KeepsSent, IInv, [Next]_vars PROVE [TableNext]_tableVars
  OBVIOUS
<1>1. ASSUME NEW p \in Replica, Commit(p) PROVE [TableNext]_tableVars
  <2>1. CASE kept[p] = {}
    BY <1>1, <2>1 DEF Commit, TypeOK, TableTypeOK
  <2>2. CASE kept[p] # {}
    <3>1. Cardinality(kept[p]) <= BatchSize
      <4>1. IsFiniteSet(taken[p]) /\ Cardinality(taken[p]) <= BatchSize /\ kept[p] \subseteq taken[p]
        BY DEF LockInv
      <4>2. Cardinality(kept[p]) <= Cardinality(taken[p]) /\ IsFiniteSet(kept[p])
        BY <4>1, FS_Subset
      <4>3. QED
        BY <4>1, <4>2, FS_CardinalityType
    <3>2. \A r \in kept[p] : status[r] = "PENDING" /\ TopicOf[r] \in Subscribed[p]
      BY DEF LockInv
    <3>3. \A r \in kept[p] : \A o \in Row \ kept[p] : ~Blocks(p, o, r)
      BY DEF VerifiedInv, Blocks
    <3>4. Claim(p, kept[p])
      BY <1>1, <2>2, <3>1, <3>2, <3>3 DEF Commit, Claim
    <3>5. QED
      BY <3>4 DEF TableNext, TypeOK
  <2>3. QED
    BY <2>1, <2>2
<1>2. ASSUME NEW p \in Replica, NEW r \in Row, MarkDone(p, r) PROVE [TableNext]_tableVars
  <2>1. Complete(r)
    BY <1>2 DEF MarkDone, OwnedBy, Complete, RetryInv, TypeOK, TableTypeOK, Status
  <2>2. QED
    BY <2>1 DEF TableNext
<1>3. ASSUME NEW p \in Replica, NEW r \in Row, MarkFailed(p, r) PROVE [TableNext]_tableVars
  <2>1. CASE status[r] = "FAILED"
    BY <1>3, <2>1 DEF MarkFailed, RetryInv, OneOwnerPerAggregate, TypeOK, TableTypeOK
  <2>2. CASE status[r] # "FAILED"
    <3>1. Fail(r)
      BY <1>3, <2>2 DEF MarkFailed, OwnedBy, Fail, RetryInv, TypeOK, TableTypeOK, Status
    <3>2. QED
      BY <3>1 DEF TableNext
  <2>3. QED
    BY <2>1, <2>2
<1>4. ASSUME NEW p \in Replica, NEW S \in SUBSET Row, Release(p, S) PROVE [TableNext]_tableVars
  <2> DEFINE mine == {r \in S : owner[r] = p /\ status[r] = "CLAIMED"}
  <2>1. Unclaim(mine)
    BY <1>4 DEF Release, Unclaim
  <2>2. QED
    BY <2>1 DEF TableNext
<1>5. ASSUME NEW S \in SUBSET Row, ResetStale(S) PROVE [TableNext]_tableVars
  BY <1>5 DEF ResetStale, Unclaim, TableNext
<1>6. ASSUME NEW S \in SUBSET Row, DeleteOlderThan(S) PROVE [TableNext]_tableVars
  BY <1>6 DEF DeleteOlderThan, Purge, TableNext, RetryInv
<1>7. ASSUME NEW r \in Row, InsertRow(r) PROVE [TableNext]_tableVars
  BY <1>7 DEF InsertRow, TableNext
<1>8. CASE UNCHANGED tableVars
  BY <1>8
<1>9. QED
  BY <1>1, <1>2, <1>3, <1>4, <1>5, <1>6, <1>7, <1>8
  DEF Next, ClaimStep, SettleStep, Begin, TryLock, Take, EndClaim, Verify, Rollback,
      Crash, ClaimLost

(* The claim transaction of the bus, with its snapshots and try-locks,     *)
(* implements the atomic claim: a batch is disjoint from every other, and  *)
(* no row of it has an unfinished earlier row of its aggregate outside it. *)
THEOREM Refinement == ASSUME ~KeepsSent PROVE Spec => TableSpec
<1>1. Init => TableInit
  BY DEF Init
<1>2. IInv /\ [Next]_vars => [TableNext]_tableVars
  BY RefinementStep
<1>3. QED
  BY <1>1, <1>2, Invariance, PTL DEF Spec, TableSpec

=============================================================================
