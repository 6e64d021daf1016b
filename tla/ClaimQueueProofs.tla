-------------------------- MODULE ClaimQueueProofs --------------------------
(***************************************************************************)
(* What every user of the claimable table relies on: lemmas about the      *)
(* table's operations and about choosing the first of some rows, and the   *)
(* promise the abstract table makes.                                       *)
(***************************************************************************)
EXTENDS ClaimQueue, FiniteSetsExt, WellFoundedInduction, TLAPS

(* A set of rows that is not empty has a first one, and Min is it.         *)
LEMMA MinIsFirst ==
  ASSUME NEW S \in SUBSET Nat, S # {}
  PROVE  Min(S) \in S /\ \A y \in S : Min(S) <= y
<1>1. PICK x \in S : \A y \in S : ~(<<y, x>> \in OpToRel(<, Nat))
  BY NatLessThanWellFounded, WFMin
<1>2. \A y \in S : x <= y
  <2> SUFFICES ASSUME NEW y \in S, y < x PROVE FALSE
    OBVIOUS
  <2>1. <<y, x>> \in OpToRel(<, Nat)
    BY DEF OpToRel
  <2>2. QED
    BY <1>1, <2>1
<1>3. QED
  BY <1>1, <1>2 DEF Min

(* The operations of the table keep its type.                              *)
LEMMA ClaimType ==
  ASSUME TableTypeOK, NEW p \in Replica, NEW S \in SUBSET Row, Claim(p, S)
  PROVE  TableTypeOK'
BY ConstantsAssumption DEF TableTypeOK, Claim, Status

LEMMA UnclaimType ==
  ASSUME TableTypeOK, NEW S, Unclaim(S)
  PROVE  TableTypeOK'
BY ConstantsAssumption DEF TableTypeOK, Unclaim, Status

LEMMA InsertType ==
  ASSUME TableTypeOK, NEW r \in Row, Insert(r)
  PROVE  TableTypeOK'
BY ConstantsAssumption DEF TableTypeOK, Insert, Status

LEMMA CompleteType ==
  ASSUME TableTypeOK, NEW r \in Row, Complete(r)
  PROVE  TableTypeOK'
BY ConstantsAssumption DEF TableTypeOK, Complete, Status

(* A row that may still fail has attempts left: the count stays in range.  *)
LEMMA FailType ==
  ASSUME TableTypeOK, NEW r \in Row, retries[r] < MaxRetries, Fail(r)
  PROVE  TableTypeOK' /\ (status'[r] = "PENDING" => retries'[r] < MaxRetries)
BY ConstantsAssumption DEF TableTypeOK, Fail, Status

LEMMA PurgeType ==
  ASSUME TableTypeOK, NEW S \in SUBSET Row, Purge(S)
  PROVE  TableTypeOK'
BY ConstantsAssumption DEF TableTypeOK, Purge, Status

-----------------------------------------------------------------------------
(* Rows that wait or are worked on have attempts left.                     *)
AttemptsLeft ==
  \A r \in Row : status[r] \in {"absent", "PENDING", "CLAIMED"} => retries[r] < MaxRetries

TableInv == TableTypeOK /\ AttemptsLeft /\ OneOwnerPerAggregate

LEMMA TableInvInit == TableInit => TableInv
BY ConstantsAssumption
   DEF TableInit, TableInv, TableTypeOK, Status, AttemptsLeft, OneOwnerPerAggregate

LEMMA TableInvStep == TableInv /\ [TableNext]_tableVars => TableInv'
<1> USE ConstantsAssumption DEF TableInv
<1> SUFFICES ASSUME TableInv, [TableNext]_tableVars PROVE TableInv'
  OBVIOUS
<1> USE DEF AttemptsLeft, OneOwnerPerAggregate
<1>1. ASSUME NEW r \in Row, Insert(r) PROVE TableInv'
  <2>1. TableTypeOK'
    BY <1>1, InsertType
  <2>2. AttemptsLeft' /\ OneOwnerPerAggregate'
    BY <1>1 DEF Insert, TableTypeOK
  <2>3. QED
    BY <2>1, <2>2
<1>2. ASSUME NEW r \in Row, Complete(r) PROVE TableInv'
  <2>1. TableTypeOK'
    BY <1>2, CompleteType
  <2>2. AttemptsLeft' /\ OneOwnerPerAggregate'
    BY <1>2 DEF Complete, TableTypeOK
  <2>3. QED
    BY <2>1, <2>2
<1>3. ASSUME NEW r \in Row, Fail(r) PROVE TableInv'
  <2>1. retries[r] < MaxRetries
    BY <1>3 DEF Fail
  <2>2. TableTypeOK' /\ (status'[r] = "PENDING" => retries'[r] < MaxRetries)
    BY <1>3, <2>1, FailType
  <2>3. AttemptsLeft' /\ OneOwnerPerAggregate'
    BY <1>3, <2>2 DEF Fail, TableTypeOK
  <2>4. QED
    BY <2>2, <2>3
<1>4. ASSUME NEW p \in Replica, NEW S \in SUBSET Row, Claim(p, S) PROVE TableInv'
  <2>1. TableTypeOK'
    BY <1>4, ClaimType
  <2>2. AttemptsLeft'
    BY <1>4 DEF Claim, TableTypeOK
  <2>3. \A r \in Row : owner'[r] # NoOwner <=> status'[r] = "CLAIMED"
    BY <1>4 DEF Claim, TableTypeOK
  <2>4. ASSUME NEW r \in Row, NEW o \in Row, SameAgg(r, o),
               status'[r] = "CLAIMED", status'[o] = "CLAIMED"
        PROVE  owner'[r] = owner'[o]
    <3>1. r \in S <=> o \in S
      BY <1>4, <2>4 DEF Claim, Blocks, SameAgg, TableTypeOK
    <3>2. QED
      BY <1>4, <2>4, <3>1 DEF Claim, TableTypeOK
  <2>5. QED
    BY <2>1, <2>2, <2>3, <2>4 DEF SameAgg
<1>5. ASSUME NEW S \in SUBSET Row, Unclaim(S) PROVE TableInv'
  <2>1. TableTypeOK'
    BY <1>5, UnclaimType
  <2>2. AttemptsLeft' /\ OneOwnerPerAggregate'
    BY <1>5 DEF Unclaim, TableTypeOK
  <2>3. QED
    BY <2>1, <2>2
<1>6. ASSUME NEW S \in SUBSET Row, Purge(S) PROVE TableInv'
  <2>1. TableTypeOK'
    BY <1>6, PurgeType
  <2>2. AttemptsLeft' /\ OneOwnerPerAggregate'
    BY <1>6 DEF Purge, TableTypeOK
  <2>3. QED
    BY <2>1, <2>2
<1>7. CASE UNCHANGED tableVars
  BY <1>7 DEF tableVars, TableTypeOK, SameAgg
<1>8. QED
  BY <1>1, <1>2, <1>3, <1>4, <1>5, <1>6, <1>7 DEF TableNext

(* A row that is not in the queue does not hold up later ones. Once a      *)
(* later row of its aggregate is committed, it never comes (back) in.      *)
OutOfQueue(o) == status[o] \notin {"PENDING", "CLAIMED"}

LEMMA SettledStays ==
  ASSUME TableTypeOK, [TableNext]_tableVars
  PROVE  /\ \A r \in Row : status[r] # "absent" => status'[r] # "absent"
         /\ \A r \in Row : status[r] = "gone" => status'[r] = "gone"
         /\ \A r, o \in Row :
              SameAgg(r, o) /\ o < r /\ status[r] # "absent" /\ OutOfQueue(o) => OutOfQueue(o)'
<1> USE DEF TableTypeOK, Status, OutOfQueue
<1> DEFINE Goal == /\ \A r \in Row : status[r] # "absent" => status'[r] # "absent"
                   /\ \A r \in Row : status[r] = "gone" => status'[r] = "gone"
                   /\ \A r, o \in Row : SameAgg(r, o) /\ o < r /\ status[r] # "absent"
                        => (OutOfQueue(o) => OutOfQueue(o)')
<1>1. ASSUME NEW r \in Row, Insert(r) PROVE Goal
  BY <1>1 DEF Insert, SameAgg
<1>2. ASSUME NEW r \in Row, Complete(r) PROVE Goal
  BY <1>2 DEF Complete
<1>3. ASSUME NEW r \in Row, Fail(r) PROVE Goal
  BY <1>3 DEF Fail
<1>4. ASSUME NEW p \in Replica, NEW S \in SUBSET Row, Claim(p, S) PROVE Goal
  BY <1>4 DEF Claim
<1>5. ASSUME NEW S \in SUBSET Row, Unclaim(S) PROVE Goal
  BY <1>5 DEF Unclaim
<1>6. ASSUME NEW S \in SUBSET Row, Purge(S) PROVE Goal
  BY <1>6 DEF Purge
<1>7. CASE UNCHANGED tableVars
  BY <1>7 DEF tableVars
<1>8. Goal
  BY <1>1, <1>2, <1>3, <1>4, <1>5, <1>6, <1>7 DEF TableNext
<1>9. QED
  BY <1>8

(* The promise of the abstract table: at any time one replica handles an   *)
(* aggregate. What implements TableSpec has it, too.                       *)
THEOREM TableOneOwner == TableSpec => []OneOwnerPerAggregate
BY TableInvInit, TableInvStep, PTL DEF TableSpec, TableInv
=============================================================================
