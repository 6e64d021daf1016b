------------------------ MODULE EventConsumerProofs ------------------------
(***************************************************************************)
(* Proofs about EventConsumer, for every set of replicas, rows and         *)
(* aggregates, every subscription, batch size and retry limit, any lease,  *)
(* clock skew and number of faults.                                        *)
(***************************************************************************)
EXTENDS EventConsumer, ClaimQueueProofs

(* An entry is in hand.                                                    *)
InHand == {"confirming", "running", "succeeded", "failed"}

Handling(p) == loop[p] \in InHand

(* The loop over a batch is under way.                                     *)
Draining(p) == loop[p] = "choosing" \/ Handling(p)

(* The entries of its batch a replica may still start on.                  *)
Waiting(p) == queue[p] \cap unstarted[p]

-----------------------------------------------------------------------------
(* The inductive invariant. What a replica has in hand is in the table.    *)
HandInv ==
  \A p \in Replica :
    /\ Handling(p) => /\ cur[p] \in Row \ unstarted[p]
                      /\ status[cur[p]] # "absent"
    /\ \A r \in Waiting(p) : status[r] # "absent"

(* Nothing earlier of a type the replica handles is left behind the entry  *)
(* in hand, whose aggregate is open; nor behind an entry that waits, but   *)
(* for what waits, too, or is in hand, or when the entry will be refused.  *)
HandInOrder(p) ==
  Handling(p) =>
    /\ AggOf[cur[p]] \in Agg => AggOf[cur[p]] \in open[p]
    /\ \A o \in Row :
         SameAgg(cur[p], o) /\ o < cur[p] /\ TopicOf[o] \in Subscribed[p] => OutOfQueue(o)

QueueInOrder(p) ==
  \A r \in Waiting(p) : \A o \in Row :
    SameAgg(r, o) /\ o < r /\ TopicOf[o] \in Subscribed[p] =>
      \/ OutOfQueue(o)
      \/ o \in Waiting(p)
      \/ Handling(p) /\ o = cur[p]
      \/ AggOf[r] \in open[p] /\ ~(Handling(p) /\ SameAgg(r, cur[p]))

InOrder(p) == HandInOrder(p) /\ QueueInOrder(p)

OrderInv == \A p \in Replica : InOrder(p)

(* Each completed run of a handler but those reported or unrecorded is     *)
(* accounted for: the row is gone, or a replica is about to settle it.     *)
Settling(p, r) == loop[p] = "succeeded" /\ cur[p] = r

Accounted(r) ==
  /\ succ[r] = 1 => status[r] = "gone" \/ \E p \in Replica : Settling(p, r)
  /\ succ[r] = 2 =>
       \/ status[r] = "gone" /\ \E p \in Replica : Settling(p, r)
       \/ \E p, q \in Replica : p # q /\ Settling(p, r) /\ Settling(q, r)

AccountInv == \A r \in Row \ (lost \cup unrecorded) : Accounted(r)

(* The renewal timer while queries are on time: it does not run down while *)
(* a query of its last callback is in flight, and its callback is due when *)
(* a batch with entries that wait is an interval old.                      *)
TimerOnTime(p) ==
  /\ due[p] => renewing[p] = NoRow /\ releasing[p] = {}
  /\ releasing[p] # {} => renewing[p] = NoRow /\ unstarted[p] = {}
  /\ Draining(p) /\ age[p] >= 1 /\ Waiting(p) # {} => due[p]

(* Entries that wait unconfirmed are claimed.                              *)
WaitingFresh(p) ==
  Draining(p) /\ age[p] <= 1 =>
    \A r \in Waiting(p) : Renewed(p, r) /\ ttl[r] + age[p] >= Lease

OnTimeInv == faults = 0 => \A p \in Replica : TimerOnTime(p) /\ WaitingFresh(p)

(* While timers run too, the entry whose handler runs stays claimed: when  *)
(* its lease is an interval old its renewal is under way.                  *)
EntryKept(p) ==
  /\ loop[p] \in {"confirming", "running"} => ~reported[p] /\ cur[p] \notin releasing[p]
  /\ loop[p] = "running" =>
       /\ Renewed(p, cur[p])
       /\ \/ ttl[cur[p]] = Lease
          \/ ttl[cur[p]] = Lease - 1
             /\ (due[p] \/ releasing[p] # {} \/ renewing[p] = cur[p])

HeldInv == ~Blocking /\ faults = 0 => \A p \in Replica : EntryKept(p)

IInv ==
  /\ TypeOK /\ TableInv /\ HandInv /\ OrderInv /\ AccountInv /\ OnTimeInv /\ HeldInv

-----------------------------------------------------------------------------
(* The table: whatever a replica, its timer or the clock does is a step of *)
(* ClaimQueue or leaves the table alone.                                   *)
LEMMA HandBackMoves ==
  ASSUME NEW p \in Replica, NEW S \in SUBSET Row, HandBack(p, S)
  PROVE  TableNext
BY DEF HandBack, Claimed, TableNext

LEMMA RecordMoves ==
  ASSUME NEW r \in Row, RecordDone(r) \/ RecordFailed(r)
  PROVE  [TableNext]_tableVars
BY DEF RecordDone, RecordFailed, TableNext

LEMMA TableMoves == TypeOK /\ HandInv /\ [Next]_vars => [TableNext]_tableVars
<1> SUFFICES ASSUME TypeOK, HandInv, [Next]_vars PROVE [TableNext]_tableVars
  OBVIOUS
<1>a. \A p \in Replica : Handling(p) => cur[p] \in Row
  BY DEF HandInv
<1>1. ASSUME NEW r \in Row, InsertRow(r) PROVE [TableNext]_tableVars
  BY <1>1 DEF InsertRow, TableNext
<1>2. ASSUME NEW p \in Replica, Poll(p) PROVE [TableNext]_tableVars
  BY <1>2 DEF Poll, ResetExpired, TableNext
<1>3. ASSUME NEW p \in Replica, ClaimNothing(p) PROVE [TableNext]_tableVars
  BY <1>3 DEF ClaimNothing, Reset
<1>4. ASSUME NEW p \in Replica, ClaimThrows(p) PROVE [TableNext]_tableVars
  BY <1>4 DEF ClaimThrows, TableNext
<1>5. ASSUME NEW p \in Replica, NEW S \in SUBSET Row, ClaimBatch(p, S) PROVE [TableNext]_tableVars
  BY <1>5 DEF ClaimBatch, TableNext
<1>6. ASSUME NEW p \in Replica, Advance(p) PROVE [TableNext]_tableVars
  BY <1>6 DEF Advance
<1>7. ASSUME NEW p \in Replica, Confirm(p) PROVE [TableNext]_tableVars
  BY <1>7 DEF Confirm
<1>8. ASSUME NEW p \in Replica, HandlersSucceed(p) PROVE [TableNext]_tableVars
  BY <1>8 DEF HandlersSucceed
<1>9. ASSUME NEW p \in Replica, HandlersFail(p) PROVE [TableNext]_tableVars
  BY <1>9 DEF HandlersFail
<1>10. ASSUME NEW p \in Replica, SettleDone(p) PROVE [TableNext]_tableVars
  <2>1. cur[p] \in Row
    BY <1>10, <1>a DEF SettleDone, Handling, InHand
  <2>2. QED
    BY <1>10, <2>1, RecordMoves DEF SettleDone, SettleLost
<1>11. ASSUME NEW p \in Replica, SettleFailed(p) PROVE [TableNext]_tableVars
  <2>1. cur[p] \in Row
    BY <1>11, <1>a DEF SettleFailed, Handling, InHand
  <2>2. QED
    BY <1>11, <2>1, RecordMoves DEF SettleFailed, SettleLost
<1>12. ASSUME NEW p \in Replica, SettleThrows(p) PROVE [TableNext]_tableVars
  <2>1. cur[p] \in Row
    BY <1>12, <1>a DEF SettleThrows, Handling, InHand
  <2>2. QED
    BY <1>12, <2>1, RecordMoves DEF SettleThrows
<1>13. ASSUME NEW p \in Replica, Finish(p) PROVE [TableNext]_tableVars
  <2>1. unstarted[p] \in SUBSET Row
    BY DEF TypeOK
  <2>2. QED
    BY <1>13, <2>1, HandBackMoves DEF Finish
<1>14. ASSUME NEW p \in Replica, TimerTick(p) PROVE [TableNext]_tableVars
  BY <1>14 DEF TimerTick
<1>15. ASSUME NEW p \in Replica, HandedBack(p) PROVE [TableNext]_tableVars
  <2>1. releasing[p] \in SUBSET Row
    BY DEF TypeOK
  <2>2. QED
    BY <1>15, <2>1, HandBackMoves DEF HandedBack
<1>16. ASSUME NEW p \in Replica, RenewAnswered(p) PROVE [TableNext]_tableVars
  BY <1>16 DEF RenewAnswered
<1>17. ASSUME NEW p \in Replica, Dispose(p) PROVE [TableNext]_tableVars
  BY <1>17 DEF Dispose
<1>18. ASSUME NEW p \in Replica, Crash(p) PROVE [TableNext]_tableVars
  BY <1>18 DEF Crash
<1>19. ASSUME Tick PROVE [TableNext]_tableVars
  BY <1>19 DEF Tick
<1>20. CASE UNCHANGED vars
  BY <1>20 DEF vars
<1>21. QED
  BY <1>1, <1>2, <1>3, <1>4, <1>5, <1>6, <1>7, <1>8, <1>9, <1>10, <1>11,
     <1>12, <1>13, <1>14, <1>15, <1>16, <1>17, <1>18, <1>19, <1>20
  DEF Next, Step, TimerStep

-----------------------------------------------------------------------------
(* An advance, with the entry it takes named.                              *)
Entered(p, r) ==
  /\ Take(p, r)
  /\ \/ age[p] <= 1 /\ Dispatch(p, r)
     \/ age[p] >= 1 /\ Goto(p, "confirming")
  /\ UNCHANGED <<tableVars, stopping, ttl, faults, obsVars>>

Left(p) ==
  /\ LeaveLoop(p)
  /\ UNCHANGED <<open, reported, age, releasing, renewing, unstarted>>
  /\ UNCHANGED <<tableVars, stopping, ttl, faults, obsVars>>

LEMMA AdvanceEnters ==
  ASSUME TypeOK, NEW p \in Replica, Advance(p)
  PROVE  \/ Left(p)
         \/ \E r \in Row : /\ r \in Waiting(p)
                           /\ AggOf[r] \notin open[p]
                           /\ \A x \in Acquirable(p) : r <= x
                           /\ Entered(p, r)
<1>1. CASE stopping[p] \/ Acquirable(p) = {}
  BY <1>1 DEF Advance, Left
<1>2. CASE ~(stopping[p] \/ Acquirable(p) = {})
  <2>1. Entered(p, Min(Acquirable(p)))
    BY <1>2, Zenon DEF Advance, Entered
  <2>2. Acquirable(p) \subseteq Row /\ Acquirable(p) \in SUBSET Nat
    BY ConstantsAssumption DEF TypeOK, Acquirable
  <2>3. /\ Min(Acquirable(p)) \in Acquirable(p)
        /\ \A x \in Acquirable(p) : Min(Acquirable(p)) <= x
    BY <1>2, <2>2, MinIsFirst
  <2>4. QED
    BY <2>1, <2>2, <2>3 DEF Acquirable, Waiting
<1>3. QED
  BY <1>1, <1>2

(* Dispatched, an entry is run, skipped or failed by a shutdown.           *)
LEMMA DispatchGoes ==
  ASSUME NEW p \in Replica, NEW r \in Row, Dispatch(p, r)
  PROVE  \E l \in {"running", "succeeded", "failed"} : loop' = [loop EXCEPT ![p] = l]
BY Zenon DEF Dispatch, Goto

(* Every variable keeps its type: no count runs past its limit, no lease   *)
(* past its length.                                                        *)
LEMMA TypeStep == IInv /\ [Next]_vars => TypeOK'
<1> SUFFICES ASSUME IInv, [Next]_vars PROVE TypeOK'
  OBVIOUS
<1>a. TypeOK /\ HandInv
  BY DEF IInv
<1>b. TableTypeOK'
  BY TableMoves, TableInvStep DEF IInv, TableInv
<1>c. \A p \in Replica : Handling(p) => cur[p] \in Row
  BY <1>a DEF HandInv
<1> USE ConsumerAssumption, <1>a, <1>b
    DEF TypeOK, Goto, Fault, LoopState, leaseVars, loopVars, obsVars
<1>1. ASSUME NEW r \in Row, InsertRow(r) PROVE TypeOK'
  BY <1>1 DEF InsertRow
<1>2. ASSUME NEW p \in Replica, Poll(p) PROVE TypeOK'
  <2>1. ttl' \in [Row -> 0..Lease]
    BY <1>2 DEF Poll, ResetExpired
  <2>2. QED
    BY <1>2, <2>1 DEF Poll
<1>3. ASSUME NEW p \in Replica, ClaimNothing(p) PROVE TypeOK'
  BY <1>3 DEF ClaimNothing, Reset
<1>4. ASSUME NEW p \in Replica, ClaimThrows(p) PROVE TypeOK'
  <2>1. ttl' \in [Row -> 0..Lease]
    BY <1>4 DEF ClaimThrows
  <2>2. QED
    BY <1>4, <2>1 DEF ClaimThrows
<1>5. ASSUME NEW p \in Replica, NEW S \in SUBSET Row, ClaimBatch(p, S) PROVE TypeOK'
  <2>1. ttl' \in [Row -> 0..Lease]
    BY <1>5 DEF ClaimBatch
  <2>2. QED
    BY <1>5, <2>1 DEF ClaimBatch, Reset
<1>6. ASSUME NEW p \in Replica, Advance(p) PROVE TypeOK'
  <2>1. CASE Left(p)
    BY <2>1 DEF Left, LeaveLoop
  <2>2. ASSUME NEW r \in Row, Entered(p, r) PROVE TypeOK'
    <3>1. loop' \in [Replica -> LoopState]
      BY <2>2, DispatchGoes DEF Entered
    <3>2. cur' \in [Replica -> Row \cup {NoRow}]
      BY <2>2, Zenon DEF Entered, Take
    <3>3. /\ {x \in queue[p] : x > r} \in SUBSET Row
          /\ unstarted[p] \ {r} \in SUBSET Row
          /\ (open[p] \cup {AggOf[r]}) \cap Agg \in SUBSET Agg
      OBVIOUS
    <3>4. /\ queue' \in [Replica -> SUBSET Row]
          /\ unstarted' \in [Replica -> SUBSET Row]
          /\ open' \in [Replica -> SUBSET Agg]
          /\ reported' \in [Replica -> BOOLEAN]
      BY <2>2, <3>3, Zenon DEF Entered, Take
    <3>5. UNCHANGED <<age, due, releasing, renewing, stopping, ttl, faults, succ, lost, unrecorded>>
      BY <2>2 DEF Entered, Take
    <3>6. QED
      BY <3>1, <3>2, <3>4, <3>5
  <2>3. QED
    BY <1>6, <2>1, <2>2, AdvanceEnters
<1>7. ASSUME NEW p \in Replica, Confirm(p) PROVE TypeOK'
  <2>1. loop' \in [Replica -> LoopState]
    <3>1. cur[p] \in Row
      BY <1>7, <1>c DEF Confirm, Handling, InHand
    <3>2. QED
      BY <1>7, <3>1, DispatchGoes DEF Confirm
  <2>2. ttl' \in [Row -> 0..Lease]
    BY <1>7 DEF Confirm, Renew
  <2>3. QED
    BY <1>7, <2>1, <2>2 DEF Confirm
<1>8. ASSUME NEW p \in Replica, HandlersSucceed(p) PROVE TypeOK'
  <2>1. succ' \in [Row -> 0..2]
    <3>1. cur[p] \in Row
      BY <1>8, <1>c DEF HandlersSucceed, Handling, InHand
    <3>2. (IF succ[cur[p]] < 2 THEN succ[cur[p]] + 1 ELSE 2) \in 0..2
      BY <3>1
    <3>3. QED
      BY <1>8, <3>2 DEF HandlersSucceed
  <2>2. QED
    BY <1>8, <2>1 DEF HandlersSucceed
<1>9. ASSUME NEW p \in Replica, HandlersFail(p) PROVE TypeOK'
  BY <1>9 DEF HandlersFail
<1>10. ASSUME NEW p \in Replica, SettleDone(p) PROVE TypeOK'
  <2>1. cur[p] \in Row
    BY <1>10, <1>c DEF SettleDone, Handling, InHand
  <2>2. ttl' \in [Row -> 0..Lease] /\ lost' \subseteq Row
    BY <1>10, <2>1 DEF SettleDone, SettleLost, ReportLost, RecordDone
  <2>3. reported' = reported \/ reported' = [reported EXCEPT ![p] = TRUE]
    BY <1>10 DEF SettleDone, SettleLost, ReportLost
  <2>4. reported' \in [Replica -> BOOLEAN]
    BY <2>3
  <2>5. open' \in [Replica -> SUBSET Agg]
    BY <1>10 DEF SettleDone, SettleLost
  <2>6. QED
    BY <1>10, <2>2, <2>4, <2>5 DEF SettleDone
<1>11. ASSUME NEW p \in Replica, SettleFailed(p) PROVE TypeOK'
  <2>1. cur[p] \in Row
    BY <1>11, <1>c DEF SettleFailed, Handling, InHand
  <2>2. ttl' \in [Row -> 0..Lease] /\ lost' \subseteq Row
    BY <1>11, <2>1 DEF SettleFailed, SettleLost, ReportLost, RecordFailed
  <2>3. reported' = reported \/ reported' = [reported EXCEPT ![p] = TRUE]
    BY <1>11 DEF SettleFailed, SettleLost, ReportLost
  <2>4. reported' \in [Replica -> BOOLEAN]
    BY <2>3
  <2>5. open' \in [Replica -> SUBSET Agg]
    BY <1>11 DEF SettleFailed, SettleLost
  <2>6. QED
    BY <1>11, <2>2, <2>4, <2>5 DEF SettleFailed
<1>12. ASSUME NEW p \in Replica, SettleThrows(p) PROVE TypeOK'
  <2>1. loop[p] \in {"succeeded", "failed"}
    BY <1>12 DEF SettleThrows
  <2>2. cur[p] \in Row
    BY <2>1, <1>c DEF Handling, InHand
  <2>3. ttl' \in [Row -> 0..Lease]
    BY <1>12, <2>2 DEF SettleThrows, RecordDone, RecordFailed
  <2>4. unrecorded' \subseteq Row
    BY <1>12, <2>2 DEF SettleThrows
  <2>5. QED
    BY <1>12, <2>3, <2>4 DEF SettleThrows, LeaveLoop
<1>13. ASSUME NEW p \in Replica, Finish(p) PROVE TypeOK'
  <2>1. ttl' \in [Row -> 0..Lease]
    BY <1>13 DEF Finish, HandBack
  <2>2. QED
    BY <1>13, <2>1 DEF Finish, Reset
<1>14. ASSUME NEW p \in Replica, TimerTick(p) PROVE TypeOK'
  <2>1. renewing' \in [Replica -> Row \cup {NoRow}]
    BY <1>14 DEF TimerTick, RenewHeld
  <2>2. QED
    BY <1>14, <2>1 DEF TimerTick
<1>15. ASSUME NEW p \in Replica, HandedBack(p) PROVE TypeOK'
  <2>1. renewing' \in [Replica -> Row \cup {NoRow}]
    BY <1>15 DEF HandedBack, RenewHeld
  <2>2. ttl' \in [Row -> 0..Lease]
    BY <1>15 DEF HandedBack, HandBack
  <2>3. releasing' \in [Replica -> SUBSET Row] /\ faults' \in 0..MaxFaults
    BY <1>15 DEF HandedBack
  <2>4. QED
    BY <1>15, <2>1, <2>2, <2>3 DEF HandedBack
<1>16. ASSUME NEW p \in Replica, RenewAnswered(p) PROVE TypeOK'
  <2>1. ttl' \in [Row -> 0..Lease]
    BY <1>16 DEF RenewAnswered, Renew
  <2>2. \/ reported' = reported /\ lost' = lost
        \/ /\ reported' = [reported EXCEPT ![p] = TRUE]
           /\ lost' = lost \cup {cur[p]} /\ cur[p] = renewing[p]
    BY <1>16 DEF RenewAnswered, ReportLost
  <2>3. renewing[p] \in Row
    BY <1>16 DEF RenewAnswered
  <2>4. reported' \in [Replica -> BOOLEAN] /\ lost' \subseteq Row
    BY <2>2, <2>3
  <2>5. renewing' \in [Replica -> Row \cup {NoRow}] /\ faults' \in 0..MaxFaults
    BY <1>16 DEF RenewAnswered
  <2>6. QED
    BY <1>16, <2>1, <2>4, <2>5 DEF RenewAnswered
<1>17. ASSUME NEW p \in Replica, Dispose(p) PROVE TypeOK'
  BY <1>17 DEF Dispose
<1>18. ASSUME NEW p \in Replica, Crash(p) PROVE TypeOK'
  <2>1. unrecorded' \subseteq Row
    BY <1>18, <1>c DEF Crash, Handling, InHand
  <2>2. QED
    BY <1>18, <2>1 DEF Crash
<1>19. ASSUME Tick PROVE TypeOK'
  <2>1. ttl' \in [Row -> 0..Lease]
    BY <1>19 DEF Tick
  <2>2. age' \in [Replica -> 0..2]
    BY <1>19 DEF Tick
  <2>3. due' \in [Replica -> BOOLEAN]
    BY <1>19 DEF Tick
  <2>4. faults' \in 0..MaxFaults
    BY <1>19 DEF Tick
  <2>5. QED
    BY <1>19, <2>1, <2>2, <2>3, <2>4 DEF Tick
<1>20. CASE UNCHANGED vars
  BY <1>20 DEF vars
<1>21. QED
  BY <1>1, <1>2, <1>3, <1>4, <1>5, <1>6, <1>7, <1>8, <1>9, <1>10, <1>11,
     <1>12, <1>13, <1>14, <1>15, <1>16, <1>17, <1>18, <1>19, <1>20
  DEF Next, Step, TimerStep

-----------------------------------------------------------------------------
(* What no step takes back.                                                *)
NothingTakenBack ==
  /\ \A r \in Row : status[r] # "absent" => status'[r] # "absent"
  /\ \A r \in Row : status[r] = "gone" => status'[r] = "gone"
  /\ \A r, o \in Row :
       SameAgg(r, o) /\ o < r /\ status[r] # "absent" /\ OutOfQueue(o) => OutOfQueue(o)'

LEMMA TableStep == IInv /\ [Next]_vars => NothingTakenBack /\ TableInv'
<1> SUFFICES ASSUME IInv, [Next]_vars PROVE NothingTakenBack /\ TableInv'
  OBVIOUS
<1>1. TypeOK /\ HandInv /\ TableInv
  BY DEF IInv
<1>2. [TableNext]_tableVars
  BY <1>1, TableMoves
<1>3. TableTypeOK
  BY <1>1 DEF TableInv
<1>4. QED
  BY <1>1, <1>2, <1>3, TableInvStep, SettledStays DEF NothingTakenBack

(* What is in hand stays in the table and is not among what waits.         *)
LEMMA HandStep == IInv /\ [Next]_vars => HandInv'
<1> SUFFICES ASSUME IInv, [Next]_vars PROVE HandInv'
  OBVIOUS
<1>a. HandInv /\ \A r \in Row : status[r] # "absent" => status'[r] # "absent"
  BY TableStep DEF IInv, NothingTakenBack
<1>b. /\ loop \in [Replica -> LoopState] /\ queue \in [Replica -> SUBSET Row]
      /\ unstarted \in [Replica -> SUBSET Row] /\ cur \in [Replica -> Row \cup {NoRow}]
  BY DEF IInv, TypeOK
<1> USE <1>a, <1>b
    DEF Goto, leaseVars, loopVars, obsVars, HandInv, Handling, InHand, Waiting
<1>1. ASSUME NEW r \in Row, InsertRow(r) PROVE HandInv'
  BY <1>1 DEF InsertRow
<1>2. ASSUME NEW p \in Replica, Poll(p) PROVE HandInv'
  BY <1>2 DEF Poll
<1>3. ASSUME NEW p \in Replica, ClaimNothing(p) PROVE HandInv'
  BY <1>3 DEF ClaimNothing, Reset
<1>4. ASSUME NEW p \in Replica, ClaimThrows(p) PROVE HandInv'
  BY <1>4 DEF ClaimThrows
<1>5. ASSUME NEW p \in Replica, NEW S \in SUBSET Row, ClaimBatch(p, S) PROVE HandInv'
  <2>1. \A r \in S : status'[r] # "absent"
    BY <1>5 DEF ClaimBatch, Claim
  <2>2. QED
    BY <1>5, <2>1 DEF ClaimBatch, Reset
<1>6. ASSUME NEW p \in Replica, Advance(p) PROVE HandInv'
  <2>1. CASE Left(p)
    BY <2>1 DEF Left, LeaveLoop
  <2>2. ASSUME NEW r \in Row, r \in Waiting(p), Entered(p, r) PROVE HandInv'
    <3>1. /\ cur' = [cur EXCEPT ![p] = r]
          /\ unstarted' = [unstarted EXCEPT ![p] = unstarted[p] \ {r}]
          /\ queue'[p] \subseteq queue[p]
          /\ \A q \in Replica : q # p => queue'[q] = queue[q]
      BY <2>2 DEF Entered, Take
    <3>2. \A q \in Replica : q # p => loop'[q] = loop[q]
      BY <2>2, DispatchGoes DEF Entered
    <3>3. status'[r] # "absent"
      BY <2>2
    <3>4. QED
      BY <3>1, <3>2, <3>3
  <2>3. TypeOK
    BY DEF IInv
  <2>4. QED
    BY <1>6, <2>1, <2>2, <2>3, AdvanceEnters
<1>7. ASSUME NEW p \in Replica, Confirm(p) PROVE HandInv'
  <2>1. cur[p] \in Row
    BY <1>7 DEF Confirm
  <2>2. \A q \in Replica : q # p => loop'[q] = loop[q]
    BY <1>7, <2>1, DispatchGoes DEF Confirm
  <2>3. QED
    BY <1>7, <2>2 DEF Confirm
<1>8. ASSUME NEW p \in Replica, HandlersSucceed(p) PROVE HandInv'
  BY <1>8 DEF HandlersSucceed
<1>9. ASSUME NEW p \in Replica, HandlersFail(p) PROVE HandInv'
  BY <1>9 DEF HandlersFail
<1>10. ASSUME NEW p \in Replica, SettleDone(p) PROVE HandInv'
  BY <1>10 DEF SettleDone
<1>11. ASSUME NEW p \in Replica, SettleFailed(p) PROVE HandInv'
  BY <1>11 DEF SettleFailed
<1>12. ASSUME NEW p \in Replica, SettleThrows(p) PROVE HandInv'
  BY <1>12 DEF SettleThrows, LeaveLoop
<1>13. ASSUME NEW p \in Replica, Finish(p) PROVE HandInv'
  BY <1>13 DEF Finish, Reset
<1>14. ASSUME NEW p \in Replica, TimerTick(p) PROVE HandInv'
  BY <1>14 DEF TimerTick
<1>15. ASSUME NEW p \in Replica, HandedBack(p) PROVE HandInv'
  BY <1>15 DEF HandedBack
<1>16. ASSUME NEW p \in Replica, RenewAnswered(p) PROVE HandInv'
  BY <1>16 DEF RenewAnswered
<1>17. ASSUME NEW p \in Replica, Dispose(p) PROVE HandInv'
  BY <1>17 DEF Dispose
<1>18. ASSUME NEW p \in Replica, Crash(p) PROVE HandInv'
  BY <1>18 DEF Crash
<1>19. ASSUME Tick PROVE HandInv'
  BY <1>19 DEF Tick
<1>20. CASE UNCHANGED vars
  BY <1>20 DEF vars
<1>21. QED
  BY <1>1, <1>2, <1>3, <1>4, <1>5, <1>6, <1>7, <1>8, <1>9, <1>10, <1>11,
     <1>12, <1>13, <1>14, <1>15, <1>16, <1>17, <1>18, <1>19, <1>20
  DEF Next, Step, TimerStep

-----------------------------------------------------------------------------
(* The order. A step that leaves what a replica has in hand alone, or      *)
(* takes what waits out of its hands, keeps it in order.                   *)
SameHand(p) == (Handling(p)' <=> Handling(p)) /\ cur'[p] = cur[p] /\ open'[p] = open[p]

LEMMA HandKept ==
  ASSUME IInv, NothingTakenBack, NEW p \in Replica, SameHand(p)
  PROVE  HandInOrder(p)'
<1> SUFFICES ASSUME Handling(p)' PROVE
      /\ AggOf[cur'[p]] \in Agg => AggOf[cur'[p]] \in open'[p]
      /\ \A o \in Row : SameAgg(cur'[p], o) /\ o < cur'[p] /\ TopicOf[o] \in Subscribed[p]
           => OutOfQueue(o)'
  BY DEF HandInOrder, SameAgg
<1>1. Handling(p) /\ cur[p] \in Row /\ status[cur[p]] # "absent" /\ HandInOrder(p)
  BY DEF SameHand, IInv, HandInv, OrderInv, InOrder
<1>2. AggOf[cur'[p]] \in Agg => AggOf[cur'[p]] \in open'[p]
  BY <1>1 DEF SameHand, HandInOrder
<1>3. ASSUME NEW o \in Row, SameAgg(cur'[p], o), o < cur'[p], TopicOf[o] \in Subscribed[p]
      PROVE  OutOfQueue(o)'
  <2>1. SameAgg(cur[p], o) /\ o < cur[p]
    BY <1>3 DEF SameHand
  <2>2. OutOfQueue(o)
    BY <1>1, <1>3, <2>1 DEF HandInOrder
  <2>3. QED
    BY <1>1, <2>1, <2>2 DEF NothingTakenBack
<1>4. QED
  BY <1>2, <1>3

LEMMA QueueKept ==
  ASSUME IInv, NothingTakenBack, NEW p \in Replica, SameHand(p), Waiting(p)' = Waiting(p)
  PROVE  QueueInOrder(p)'
<1> SUFFICES ASSUME NEW r \in Waiting(p)', NEW o \in Row, SameAgg(r, o), o < r,
                    TopicOf[o] \in Subscribed[p]
             PROVE  \/ OutOfQueue(o)'
                    \/ o \in Waiting(p)'
                    \/ Handling(p)' /\ o = cur'[p]
                    \/ AggOf[r] \in open'[p] /\ ~(Handling(p)' /\ SameAgg(r, cur'[p]))
  BY DEF QueueInOrder, SameAgg
<1>1. r \in Waiting(p) /\ r \in Row /\ status[r] # "absent" /\ QueueInOrder(p)
  BY DEF IInv, HandInv, OrderInv, InOrder, TypeOK, Waiting
<1>2. \/ OutOfQueue(o)
      \/ o \in Waiting(p)
      \/ Handling(p) /\ o = cur[p]
      \/ AggOf[r] \in open[p] /\ ~(Handling(p) /\ SameAgg(r, cur[p]))
  BY <1>1 DEF QueueInOrder
<1>3. OutOfQueue(o) => OutOfQueue(o)'
  BY <1>1 DEF NothingTakenBack
<1>4. QED
  BY <1>2, <1>3 DEF SameHand

LEMMA NothingWaits ==
  ASSUME NEW p \in Replica, unstarted'[p] = {} \/ queue'[p] = {}
  PROVE  QueueInOrder(p)'
BY DEF QueueInOrder, Waiting

(* The others keep theirs: a step of p concerns p alone.                   *)
Untouched(q) ==
  /\ loop'[q] = loop[q] /\ cur'[q] = cur[q] /\ open'[q] = open[q]
  /\ queue'[q] = queue[q] /\ unstarted'[q] = unstarted[q]

LEMMA OthersInOrder ==
  ASSUME IInv, NothingTakenBack, NEW q \in Replica, Untouched(q)
  PROVE  InOrder(q)'
<1>1. SameHand(q) /\ Waiting(q)' = Waiting(q)
  BY DEF Untouched, SameHand, Waiting, Handling
<1>2. QED
  BY <1>1, HandKept, QueueKept DEF InOrder

(* A batch is claimed: nothing earlier the replica handles is left behind. *)
LEMMA ClaimInOrder ==
  ASSUME IInv, NothingTakenBack, NEW p \in Replica, NEW S \in SUBSET Row, ClaimBatch(p, S)
  PROVE  InOrder(p)'
<1> USE ConstantsAssumption
<1>1. ~Handling(p)' /\ Waiting(p)' = S
  BY DEF ClaimBatch, Reset, IInv, TypeOK, Handling, InHand, Waiting, Goto
<1>2. HandInOrder(p)'
  BY <1>1 DEF HandInOrder
<1>3. ASSUME NEW r \in S, NEW o \in Row, SameAgg(r, o), o < r, TopicOf[o] \in Subscribed[p]
      PROVE  OutOfQueue(o)' \/ o \in S
  <2>1. SUFFICES ASSUME o \notin S PROVE OutOfQueue(o)
    <3>1. status[r] # "absent"
      BY DEF ClaimBatch, Claim
    <3>2. QED
      BY <1>3, <2>1, <3>1 DEF NothingTakenBack
  <2>2. ~Blocks(p, o, r)
    BY <2>1 DEF ClaimBatch, Claim
  <2>3. QED
    BY <1>3, <2>2 DEF Blocks, OutOfQueue
<1>4. QED
  BY <1>1, <1>2, <1>3 DEF InOrder, QueueInOrder, SameAgg

(* The loop goes on: the entry it takes is the first of its aggregate that *)
(* waits, and that aggregate was closed.                                   *)
LEMMA AdvanceInOrder ==
  ASSUME IInv, NothingTakenBack, NEW p \in Replica, NEW r \in Row, loop[p] = "choosing",
         r \in Waiting(p), AggOf[r] \notin open[p],
         \A x \in Acquirable(p) : r <= x, Entered(p, r)
  PROVE  InOrder(p)'
<1> USE ConstantsAssumption
<1>1. /\ open'[p] = (open[p] \cup {AggOf[r]}) \cap Agg
      /\ Waiting(p)' = {x \in Waiting(p) : x > r}
      /\ cur'[p] = r
      /\ ~Handling(p)
  <2>1. open'[p] = (open[p] \cup {AggOf[r]}) \cap Agg
    BY DEF Entered, Take, IInv, TypeOK
  <2>2. /\ queue'[p] = {x \in queue[p] : x > r}
        /\ unstarted'[p] = unstarted[p] \ {r}
    BY DEF Entered, Take, IInv, TypeOK
  <2>3. Waiting(p)' = {x \in Waiting(p) : x > r}
    <3>1. \A x \in queue[p] : x > r => x # r
      BY DEF IInv, TypeOK
    <3>2. QED
      BY <2>2, <3>1 DEF Waiting
  <2>4. ~Handling(p)
    BY DEF Handling, InHand
  <2>5. cur'[p] = r
    BY Zenon DEF Entered, Take, IInv, TypeOK
  <2>6. QED
    BY <2>1, <2>3, <2>4, <2>5
<1>2. QueueInOrder(p) /\ Waiting(p) \subseteq Row /\ open[p] \subseteq Agg
  BY DEF IInv, OrderInv, InOrder, TypeOK, Waiting
<1>3. ASSUME NEW x \in Waiting(p), NEW o \in Row, SameAgg(x, o), o < x,
             TopicOf[o] \in Subscribed[p]
      PROVE  OutOfQueue(o)' \/ o \in Waiting(p) \/ AggOf[x] \in open[p]
  <2>1. status[x] # "absent" /\ x \in Row
    BY <1>2 DEF IInv, HandInv
  <2>2. OutOfQueue(o) => OutOfQueue(o)'
    BY <1>3, <2>1 DEF NothingTakenBack
  <2>3. QED
    BY <1>1, <1>2, <1>3, <2>2 DEF QueueInOrder
<1>4. ASSUME NEW o \in Waiting(p), o < r PROVE AggOf[o] \in open[p]
  <2>1. AggOf[o] \notin open[p] => o \in Acquirable(p)
    BY DEF Acquirable, Waiting
  <2>2. o \in Nat /\ r \in Nat
    BY <1>2
  <2>3. o \in Acquirable(p) => r <= o
    OBVIOUS
  <2>4. QED
    BY <1>4, <2>1, <2>2, <2>3
<1>5. HandInOrder(p)'
  <2>1. SUFFICES ASSUME NEW o \in Row, SameAgg(r, o), o < r, TopicOf[o] \in Subscribed[p]
                 PROVE  OutOfQueue(o)'
    <3>1. AggOf[r] \in Agg => AggOf[r] \in open'[p]
      BY <1>1
    <3>2. QED
      BY <1>1, <2>1, <3>1 DEF HandInOrder, SameAgg
  <2>2. QED
    BY <1>3, <1>4, <2>1 DEF SameAgg
<1>6. ASSUME NEW x \in Waiting(p), x > r, NEW o \in Row, SameAgg(x, o), o < x,
             TopicOf[o] \in Subscribed[p]
      PROVE  \/ OutOfQueue(o)'
             \/ o \in Waiting(p) /\ o > r
             \/ Handling(p)' /\ o = cur'[p]
             \/ AggOf[x] \in open'[p] /\ ~(Handling(p)' /\ SameAgg(x, cur'[p]))
  <2>1. CASE OutOfQueue(o)'
    BY <2>1
  <2>2. CASE AggOf[x] \in open[p]
    BY <1>1, <1>2, <2>2 DEF SameAgg
  <2>3. CASE o \in Waiting(p) /\ o = r
    <3>1. AggOf[x] \in Agg /\ AggOf[x] = AggOf[r]
      BY <1>6, <2>3 DEF SameAgg
    <3>2. QED
      BY <1>1, <2>3, <3>1, <1>6
  <2>4. CASE o \in Waiting(p) /\ o < r
    BY <1>2, <1>4, <1>6, <2>2, <2>4 DEF SameAgg
  <2>5. CASE o \in Waiting(p) /\ o > r
    BY <2>5
  <2>6. QED
    BY <1>2, <1>3, <1>6, <2>1, <2>2, <2>3, <2>4, <2>5
<1>7. QueueInOrder(p)'
  BY <1>1, <1>6 DEF QueueInOrder, SameAgg
<1>8. QED
  BY <1>5, <1>7 DEF InOrder

(* The entry leaves the replica's hand: its aggregate is closed only when  *)
(* it no longer holds up the later ones.                                   *)
LEMMA LetGoInOrder ==
  ASSUME IInv, NothingTakenBack, NEW p \in Replica, Handling(p), ~Handling(p)',
         Waiting(p)' = Waiting(p), NEW c \in Row, c = cur[p],
         \/ open'[p] = open[p]
         \/ open'[p] = open[p] \ {AggOf[c]} /\ OutOfQueue(c)'
  PROVE  InOrder(p)'
<1> USE ConstantsAssumption
<1>1. HandInOrder(p)'
  BY DEF HandInOrder
<1>2. HandInOrder(p) /\ QueueInOrder(p) /\ Waiting(p) \subseteq Row
  BY DEF IInv, OrderInv, InOrder, TypeOK, Waiting
<1>3. ASSUME NEW r \in Waiting(p), NEW o \in Row, SameAgg(r, o), o < r,
             TopicOf[o] \in Subscribed[p]
      PROVE  OutOfQueue(o)' \/ o \in Waiting(p) \/ AggOf[r] \in open'[p]
  <2>1. status[r] # "absent" /\ r \in Row /\ AggOf[r] \in Agg
    BY <1>2, <1>3 DEF IInv, HandInv, SameAgg
  <2>2. OutOfQueue(o) => OutOfQueue(o)'
    BY <1>3, <2>1 DEF NothingTakenBack
  <2>3. CASE o = c
    <3>1. AggOf[c] = AggOf[r] /\ AggOf[c] \in open[p]
      BY <1>2, <1>3, <2>1, <2>3 DEF SameAgg, HandInOrder
    <3>2. QED
      BY <2>3, <3>1
  <2>4. CASE o \in Waiting(p)
    BY <2>4
  <2>5. CASE AggOf[r] \in open[p] /\ ~SameAgg(r, c)
    BY <1>2, <2>1, <2>5 DEF SameAgg
  <2>6. QED
    BY <1>2, <1>3, <2>2, <2>3, <2>4, <2>5 DEF QueueInOrder
<1>4. QED
  BY <1>1, <1>3 DEF InOrder, QueueInOrder, SameAgg

(* The events of an aggregate are handled in order: no step of any         *)
(* replica, its timer, a writer or the clock breaks it.                    *)
LEMMA OrderStep == IInv /\ [Next]_vars => OrderInv'
<1> SUFFICES ASSUME IInv, [Next]_vars PROVE \A q \in Replica : InOrder(q)'
  BY DEF OrderInv
<1>a. NothingTakenBack
  BY TableStep
<1>b. /\ loop \in [Replica -> LoopState] /\ queue \in [Replica -> SUBSET Row]
      /\ unstarted \in [Replica -> SUBSET Row] /\ open \in [Replica -> SUBSET Agg]
      /\ cur \in [Replica -> Row \cup {NoRow}]
  BY DEF IInv, TypeOK
<1>c. \A p \in Replica : Handling(p) => cur[p] \in Row
  BY DEF IInv, HandInv
<1> USE DEF Goto, leaseVars, loopVars
<1>1. ASSUME NEW r \in Row, InsertRow(r) PROVE \A q \in Replica : InOrder(q)'
  <2>1. \A q \in Replica : SameHand(q) /\ Waiting(q)' = Waiting(q)
    BY <1>1, <1>b DEF InsertRow, SameHand, Handling, InHand, Waiting
  <2>2. QED
    BY <1>a, <2>1, HandKept, QueueKept DEF InOrder
<1>2. ASSUME NEW p \in Replica, Poll(p) PROVE \A q \in Replica : InOrder(q)'
  <2>1. \A q \in Replica : SameHand(q) /\ Waiting(q)' = Waiting(q)
    BY <1>2, <1>b DEF Poll, SameHand, Handling, InHand, Waiting
  <2>2. QED
    BY <1>a, <2>1, HandKept, QueueKept DEF InOrder
<1>3. ASSUME NEW p \in Replica, ClaimNothing(p) PROVE \A q \in Replica : InOrder(q)'
  <2>1. ASSUME NEW q \in Replica, q # p PROVE InOrder(q)'
    <3>1. Untouched(q)
      BY <1>3, <1>b, <2>1 DEF ClaimNothing, Reset, Untouched
    <3>2. QED
      BY <1>a, <2>1, <3>1, OthersInOrder
  <2>2. InOrder(p)'
    <3>1. unstarted'[p] = {} /\ ~Handling(p)'
      BY <1>3, <1>b DEF ClaimNothing, Reset, Handling, InHand
    <3>2. QED
      BY <3>1, NothingWaits DEF InOrder, HandInOrder
  <2>3. QED
    BY <2>1, <2>2
<1>4. ASSUME NEW p \in Replica, ClaimThrows(p) PROVE \A q \in Replica : InOrder(q)'
  <2>1. \A q \in Replica : SameHand(q) /\ Waiting(q)' = Waiting(q)
    BY <1>4, <1>b DEF ClaimThrows, SameHand, Handling, InHand, Waiting
  <2>2. QED
    BY <1>a, <2>1, HandKept, QueueKept DEF InOrder
<1>5. ASSUME NEW p \in Replica, NEW S \in SUBSET Row, ClaimBatch(p, S) PROVE \A q \in Replica : InOrder(q)'
  <2>1. ASSUME NEW q \in Replica, q # p PROVE InOrder(q)'
    <3>1. Untouched(q)
      BY <1>5, <1>b, <2>1 DEF ClaimBatch, Reset, Untouched
    <3>2. QED
      BY <1>a, <2>1, <3>1, OthersInOrder
  <2>2. InOrder(p)'
    BY <1>5, <1>a, ClaimInOrder
  <2>3. QED
    BY <2>1, <2>2
<1>6. ASSUME NEW p \in Replica, Advance(p) PROVE \A q \in Replica : InOrder(q)'
  <2>1. ASSUME NEW r \in Row, r \in Waiting(p), AggOf[r] \notin open[p],
               \A x \in Acquirable(p) : r <= x, Entered(p, r)
        PROVE  \A q \in Replica : InOrder(q)'
    <3>1. ASSUME NEW q \in Replica, q # p PROVE InOrder(q)'
      <4>1. loop'[q] = loop[q]
        BY <1>b, <2>1, <3>1, DispatchGoes DEF Entered
      <4>2. Untouched(q)
        BY <2>1, <1>b, <3>1, <4>1 DEF Entered, Take, Untouched
      <4>3. QED
        BY <1>a, <3>1, <4>2, OthersInOrder
    <3>2. loop[p] = "choosing"
      BY <1>6 DEF Advance
    <3>3. InOrder(p)'
      BY <1>a, <2>1, <3>2, AdvanceInOrder
    <3>4. QED
      BY <3>1, <3>3
  <2>2. CASE Left(p)
    <3>1. ASSUME NEW q \in Replica, q # p PROVE InOrder(q)'
      <4>1. Untouched(q)
        BY <2>2, <1>b, <3>1 DEF Left, LeaveLoop, Untouched
      <4>2. QED
        BY <1>a, <3>1, <4>1, OthersInOrder
    <3>2. InOrder(p)'
      <4>1. queue'[p] = {} /\ ~Handling(p)'
        BY <2>2, <1>b DEF Left, LeaveLoop, Handling, InHand
      <4>2. QED
        BY <4>1, NothingWaits DEF InOrder, HandInOrder
    <3>3. QED
      BY <3>1, <3>2
  <2>3. QED
    <3>1. TypeOK
      BY DEF IInv
    <3>2. QED
      BY <1>6, <2>1, <2>2, <3>1, AdvanceEnters
<1>7. ASSUME NEW p \in Replica, Confirm(p) PROVE \A q \in Replica : InOrder(q)'
  <2>1. PICK c \in Row : c = cur[p]
    BY <1>7, <1>c DEF Confirm, Handling, InHand
  <2>2. ASSUME NEW q \in Replica, q # p PROVE InOrder(q)'
    <3>1. loop'[q] = loop[q]
      BY <1>7, <1>b, <2>1, <2>2, DispatchGoes DEF Confirm
    <3>2. Untouched(q)
      BY <1>7, <3>1 DEF Confirm, Untouched
    <3>3. QED
      BY <1>a, <3>2, OthersInOrder
  <2>3. InOrder(p)'
    <3>1. UNCHANGED <<open, cur, queue, unstarted>> /\ Handling(p)
      BY <1>7 DEF Confirm, Handling, InHand
    <3>2. CASE Handling(p)'
      BY <1>a, <3>1, <3>2, HandKept, QueueKept DEF InOrder, SameHand, Waiting
    <3>3. CASE ~Handling(p)'
      BY <1>a, <2>1, <3>1, <3>3, LetGoInOrder DEF Waiting
    <3>4. QED
      BY <3>2, <3>3
  <2>4. QED
    BY <2>2, <2>3
<1>8. ASSUME NEW p \in Replica, HandlersSucceed(p) PROVE \A q \in Replica : InOrder(q)'
  <2>1. \A q \in Replica : SameHand(q) /\ Waiting(q)' = Waiting(q)
    BY <1>8, <1>b DEF HandlersSucceed, SameHand, Handling, InHand, Waiting
  <2>2. QED
    BY <1>a, <2>1, HandKept, QueueKept DEF InOrder
<1>9. ASSUME NEW p \in Replica, HandlersFail(p) PROVE \A q \in Replica : InOrder(q)'
  <2>1. \A q \in Replica : SameHand(q) /\ Waiting(q)' = Waiting(q)
    BY <1>9, <1>b DEF HandlersFail, SameHand, Handling, InHand, Waiting
  <2>2. QED
    BY <1>a, <2>1, HandKept, QueueKept DEF InOrder
<1>10. ASSUME NEW p \in Replica, SettleDone(p) PROVE \A q \in Replica : InOrder(q)'
  <2>1. ASSUME NEW q \in Replica, q # p PROVE InOrder(q)'
    <3>1. Untouched(q)
      BY <1>10, <1>b, <2>1 DEF SettleDone, SettleLost, ReportLost, Untouched
    <3>2. QED
      BY <1>a, <2>1, <3>1, OthersInOrder
  <2>2. InOrder(p)'
    <3>1. Handling(p) /\ ~Handling(p)' /\ Waiting(p)' = Waiting(p)
      BY <1>10, <1>b DEF SettleDone, Handling, InHand, Waiting
    <3>2. PICK c \in Row : c = cur[p]
      BY <3>1, <1>c
    <3>3. \/ open'[p] = open[p]
          \/ open'[p] = open[p] \ {AggOf[c]} /\ RecordDone(c)
      BY <1>10, <1>b, <3>2 DEF SettleDone, SettleLost
    <3>4. RecordDone(c) => OutOfQueue(c)'
      BY DEF RecordDone, Complete, OutOfQueue, IInv, TypeOK, TableTypeOK
    <3>5. QED
      BY <1>a, <3>1, <3>2, <3>3, <3>4, LetGoInOrder
  <2>3. QED
    BY <2>1, <2>2
<1>11. ASSUME NEW p \in Replica, SettleFailed(p) PROVE \A q \in Replica : InOrder(q)'
  <2>1. ASSUME NEW q \in Replica, q # p PROVE InOrder(q)'
    <3>1. Untouched(q)
      BY <1>11, <1>b, <2>1 DEF SettleFailed, SettleLost, ReportLost, Untouched
    <3>2. QED
      BY <1>a, <2>1, <3>1, OthersInOrder
  <2>2. InOrder(p)'
    <3>1. /\ Handling(p) /\ ~Handling(p)' /\ Waiting(p)' = Waiting(p)
          /\ open'[p] = open[p]
      BY <1>11, <1>b DEF SettleFailed, SettleLost, Handling, InHand, Waiting
    <3>2. PICK c \in Row : c = cur[p]
      BY <3>1, <1>c
    <3>3. QED
      BY <1>a, <3>1, <3>2, LetGoInOrder
  <2>3. QED
    BY <2>1, <2>2
<1>12. ASSUME NEW p \in Replica, SettleThrows(p) PROVE \A q \in Replica : InOrder(q)'
  <2>1. ASSUME NEW q \in Replica, q # p PROVE InOrder(q)'
    <3>1. Untouched(q)
      BY <1>12, <1>b, <2>1 DEF SettleThrows, LeaveLoop, Untouched
    <3>2. QED
      BY <1>a, <2>1, <3>1, OthersInOrder
  <2>2. InOrder(p)'
    <3>1. queue'[p] = {} /\ ~Handling(p)'
      BY <1>12, <1>b DEF SettleThrows, LeaveLoop, Handling, InHand
    <3>2. QED
      BY <3>1, NothingWaits DEF InOrder, HandInOrder
  <2>3. QED
    BY <2>1, <2>2
<1>13. ASSUME NEW p \in Replica, Finish(p) PROVE \A q \in Replica : InOrder(q)'
  <2>1. ASSUME NEW q \in Replica, q # p PROVE InOrder(q)'
    <3>1. Untouched(q)
      BY <1>13, <1>b, <2>1 DEF Finish, Reset, Untouched
    <3>2. QED
      BY <1>a, <2>1, <3>1, OthersInOrder
  <2>2. InOrder(p)'
    <3>1. unstarted'[p] = {} /\ ~Handling(p)'
      BY <1>13, <1>b DEF Finish, Reset, Handling, InHand
    <3>2. QED
      BY <3>1, NothingWaits DEF InOrder, HandInOrder
  <2>3. QED
    BY <2>1, <2>2
<1>14. ASSUME NEW p \in Replica, TimerTick(p) PROVE \A q \in Replica : InOrder(q)'
  <2>1. ASSUME NEW q \in Replica, q # p PROVE InOrder(q)'
    <3>1. Untouched(q)
      BY <1>14, <1>b, <2>1 DEF TimerTick, Untouched
    <3>2. QED
      BY <1>a, <2>1, <3>1, OthersInOrder
  <2>2. InOrder(p)'
    <3>1. unstarted'[p] = {} /\ SameHand(p)
      BY <1>14, <1>b DEF TimerTick, SameHand, Handling
    <3>2. QED
      BY <1>a, <3>1, NothingWaits, HandKept DEF InOrder
  <2>3. QED
    BY <2>1, <2>2
<1>15. ASSUME NEW p \in Replica, HandedBack(p) PROVE \A q \in Replica : InOrder(q)'
  <2>1. \A q \in Replica : SameHand(q) /\ Waiting(q)' = Waiting(q)
    BY <1>15, <1>b DEF HandedBack, SameHand, Handling, InHand, Waiting
  <2>2. QED
    BY <1>a, <2>1, HandKept, QueueKept DEF InOrder
<1>16. ASSUME NEW p \in Replica, RenewAnswered(p) PROVE \A q \in Replica : InOrder(q)'
  <2>1. \A q \in Replica : SameHand(q) /\ Waiting(q)' = Waiting(q)
    BY <1>16, <1>b DEF RenewAnswered, SameHand, Handling, InHand, Waiting
  <2>2. QED
    BY <1>a, <2>1, HandKept, QueueKept DEF InOrder
<1>17. ASSUME NEW p \in Replica, Dispose(p) PROVE \A q \in Replica : InOrder(q)'
  <2>1. \A q \in Replica : SameHand(q) /\ Waiting(q)' = Waiting(q)
    BY <1>17, <1>b DEF Dispose, SameHand, Handling, InHand, Waiting
  <2>2. QED
    BY <1>a, <2>1, HandKept, QueueKept DEF InOrder
<1>18. ASSUME NEW p \in Replica, Crash(p) PROVE \A q \in Replica : InOrder(q)'
  <2>1. ASSUME NEW q \in Replica, q # p PROVE InOrder(q)'
    <3>1. Untouched(q)
      BY <1>18, <1>b, <2>1 DEF Crash, Untouched
    <3>2. QED
      BY <1>a, <2>1, <3>1, OthersInOrder
  <2>2. InOrder(p)'
    <3>1. unstarted'[p] = {} /\ ~Handling(p)'
      BY <1>18, <1>b DEF Crash, Handling, InHand
    <3>2. QED
      BY <3>1, NothingWaits DEF InOrder, HandInOrder
  <2>3. QED
    BY <2>1, <2>2
<1>19. ASSUME Tick PROVE \A q \in Replica : InOrder(q)'
  <2>1. \A q \in Replica : SameHand(q) /\ Waiting(q)' = Waiting(q)
    BY <1>19, <1>b DEF Tick, SameHand, Handling, InHand, Waiting
  <2>2. QED
    BY <1>a, <2>1, HandKept, QueueKept DEF InOrder
<1>20. CASE UNCHANGED vars
  <2>1. \A q \in Replica : SameHand(q) /\ Waiting(q)' = Waiting(q)
    BY <1>20, <1>b DEF vars, SameHand, Handling, InHand, Waiting
  <2>2. QED
    BY <1>a, <2>1, HandKept, QueueKept DEF InOrder
<1>21. QED
  BY <1>1, <1>2, <1>3, <1>4, <1>5, <1>6, <1>7, <1>8, <1>9, <1>10, <1>11,
     <1>12, <1>13, <1>14, <1>15, <1>16, <1>17, <1>18, <1>19, <1>20
  DEF Next, Step, TimerStep

-----------------------------------------------------------------------------
(* Duplicates. A step that completes no handler run of a row and takes no  *)
(* replica away that is about to settle it keeps its account.              *)
KeepsAccount(r) ==
  /\ succ'[r] = succ[r]
  /\ r \notin lost' \cup unrecorded' => r \notin lost \cup unrecorded
  /\ \A p \in Replica : Settling(p, r) => Settling(p, r)'

LEMMA AccountKept ==
  ASSUME IInv, NothingTakenBack, NEW r \in Row, KeepsAccount(r),
         r \notin lost' \cup unrecorded'
  PROVE  Accounted(r)'
<1>1. Accounted(r)
  BY DEF IInv, AccountInv, KeepsAccount
<1>2. status[r] = "gone" => status'[r] = "gone"
  BY DEF NothingTakenBack
<1>3. QED
  BY <1>1, <1>2 DEF Accounted, KeepsAccount

LEMMA AccountStep == IInv /\ [Next]_vars => AccountInv'
<1> SUFFICES ASSUME IInv, [Next]_vars, NEW r \in Row, r \notin lost' \cup unrecorded'
             PROVE  Accounted(r)'
  BY DEF AccountInv
<1>a. NothingTakenBack
  BY TableStep
<1>b. /\ loop \in [Replica -> LoopState]
      /\ cur \in [Replica -> Row \cup {NoRow}]
      /\ succ \in [Row -> 0..2]
      /\ status \in [Row -> Status]
  BY DEF IInv, TypeOK, TableTypeOK
<1>c. \A p \in Replica : Handling(p) => cur[p] \in Row
  BY DEF IInv, HandInv
<1>d. r \notin lost \cup unrecorded => Accounted(r)
  BY DEF IInv, AccountInv
<1> USE DEF Goto, leaseVars, loopVars, obsVars
<1>1. ASSUME NEW x \in Row, InsertRow(x) PROVE Accounted(r)'
  <2>1. KeepsAccount(r)
    BY <1>1, <1>b DEF InsertRow, KeepsAccount, Settling
  <2>2. QED
    BY <1>a, <2>1, AccountKept
<1>2. ASSUME NEW p \in Replica, Poll(p) PROVE Accounted(r)'
  <2>1. KeepsAccount(r)
    BY <1>2, <1>b DEF Poll, KeepsAccount, Settling
  <2>2. QED
    BY <1>a, <2>1, AccountKept
<1>3. ASSUME NEW p \in Replica, ClaimNothing(p) PROVE Accounted(r)'
  <2>1. KeepsAccount(r)
    BY <1>3, <1>b DEF ClaimNothing, Reset, KeepsAccount, Settling
  <2>2. QED
    BY <1>a, <2>1, AccountKept
<1>4. ASSUME NEW p \in Replica, ClaimThrows(p) PROVE Accounted(r)'
  <2>1. KeepsAccount(r)
    BY <1>4, <1>b DEF ClaimThrows, KeepsAccount, Settling
  <2>2. QED
    BY <1>a, <2>1, AccountKept
<1>5. ASSUME NEW p \in Replica, NEW S \in SUBSET Row, ClaimBatch(p, S) PROVE Accounted(r)'
  <2>1. KeepsAccount(r)
    BY <1>5, <1>b DEF ClaimBatch, Reset, KeepsAccount, Settling
  <2>2. QED
    BY <1>a, <2>1, AccountKept
<1>6. ASSUME NEW p \in Replica, Advance(p) PROVE Accounted(r)'
  <2>1. UNCHANGED <<succ, lost, unrecorded>>
    BY <1>6 DEF Advance
  <2>2. ASSUME NEW q \in Replica, Settling(q, r) PROVE Settling(q, r)'
    <3>1. q # p
      BY <1>6, <2>2 DEF Advance, Settling
    <3>2. CASE Left(p)
      BY <1>b, <2>2, <3>1, <3>2 DEF Left, LeaveLoop, Settling
    <3>3. ASSUME NEW x \in Row, Entered(p, x) PROVE Settling(q, r)'
      <4>1. loop'[q] = loop[q]
        BY <1>b, <3>1, <3>3, DispatchGoes DEF Entered
      <4>2. cur'[q] = cur[q]
        BY <1>b, <3>1, <3>3 DEF Entered, Take
      <4>3. QED
        BY <2>2, <4>1, <4>2 DEF Settling
    <3>4. TypeOK
      BY DEF IInv
    <3>5. QED
      BY <1>6, <3>2, <3>3, <3>4, AdvanceEnters
  <2>3. QED
    BY <1>a, <2>1, <2>2, AccountKept DEF KeepsAccount
<1>7. ASSUME NEW p \in Replica, Confirm(p) PROVE Accounted(r)'
  <2>1. cur[p] \in Row /\ loop[p] = "confirming"
    BY <1>7, <1>c DEF Confirm, Handling, InHand
  <2>2. \A q \in Replica : q # p => loop'[q] = loop[q]
    BY <1>7, <1>b, <2>1, DispatchGoes DEF Confirm
  <2>3. KeepsAccount(r)
    BY <1>7, <2>1, <2>2 DEF Confirm, KeepsAccount, Settling
  <2>4. QED
    BY <1>a, <2>3, AccountKept
<1>8. ASSUME NEW p \in Replica, HandlersSucceed(p) PROVE Accounted(r)'
  <2>1. \A q \in Replica : Settling(q, r) => q # p /\ Settling(q, r)'
    BY <1>8, <1>b DEF HandlersSucceed, Settling
  <2>2. UNCHANGED <<lost, unrecorded, status>>
    BY <1>8 DEF HandlersSucceed, tableVars
  <2>3. CASE cur[p] # r
    <3>1. succ'[r] = succ[r]
      BY <1>8, <1>b, <2>3 DEF HandlersSucceed
    <3>2. QED
      BY <1>a, <2>1, <2>2, <3>1, AccountKept DEF KeepsAccount
  <2>4. CASE cur[p] = r
    <3>1. Settling(p, r)'
      BY <1>8, <1>b, <2>4 DEF HandlersSucceed, Settling
    <3>2. succ[r] \in 0..2 /\ succ'[r] = IF succ[r] < 2 THEN succ[r] + 1 ELSE 2
      BY <1>8, <1>b, <2>4 DEF HandlersSucceed
    <3>3. Accounted(r)
      BY <1>d, <2>2
    <3>4. succ'[r] = 1 => status'[r] = "gone" \/ \E q \in Replica : Settling(q, r)'
      BY <3>1
    <3>5. ASSUME succ'[r] = 2
          PROVE  \/ status'[r] = "gone" /\ \E q \in Replica : Settling(q, r)'
                 \/ \E q, x \in Replica : q # x /\ Settling(q, r)' /\ Settling(x, r)'
      <4>1. status[r] = "gone" \/ \E q \in Replica : Settling(q, r)
        <5>1. succ[r] = 1 \/ succ[r] = 2
          BY <3>2, <3>5
        <5>2. QED
          BY <3>3, <5>1 DEF Accounted
      <4>2. CASE status[r] = "gone"
        BY <2>2, <3>1, <4>2
      <4>3. CASE \E q \in Replica : Settling(q, r)
        BY <2>1, <3>1, <4>3
      <4>4. QED
        BY <4>1, <4>2, <4>3
    <3>6. QED
      BY <3>4, <3>5 DEF Accounted
  <2>5. QED
    BY <2>3, <2>4
<1>9. ASSUME NEW p \in Replica, HandlersFail(p) PROVE Accounted(r)'
  <2>1. KeepsAccount(r)
    BY <1>9, <1>b DEF HandlersFail, KeepsAccount, Settling
  <2>2. QED
    BY <1>a, <2>1, AccountKept
<1>10. ASSUME NEW p \in Replica, SettleDone(p) PROVE Accounted(r)'
  <2>1. \A q \in Replica : q # p /\ Settling(q, r) => Settling(q, r)'
    BY <1>10, <1>b DEF SettleDone, Settling
  <2>2. UNCHANGED <<succ, unrecorded>> /\ lost \subseteq lost' /\ loop[p] = "succeeded"
    BY <1>10 DEF SettleDone, SettleLost, ReportLost
  <2>3. CASE cur[p] # r
    BY <1>a, <2>1, <2>2, <2>3, AccountKept DEF KeepsAccount, Settling
  <2>4. CASE cur[p] = r
    <3>1. RecordDone(r)
      BY <1>10, <2>4 DEF SettleDone, SettleLost, ReportLost
    <3>2. status[r] # "gone" /\ status'[r] = "gone"
      BY <1>b, <3>1 DEF RecordDone, Complete
    <3>3. Accounted(r)
      BY <1>d, <2>2
    <3>4. succ'[r] = 2 => \E q \in Replica : Settling(q, r)'
      <4>1. SUFFICES ASSUME succ[r] = 2 PROVE \E q \in Replica : q # p /\ Settling(q, r)
        BY <2>1, <2>2
      <4>2. QED
        BY <3>2, <3>3, <4>1 DEF Accounted
    <3>5. QED
      BY <3>2, <3>4 DEF Accounted
  <2>5. QED
    BY <2>3, <2>4
<1>11. ASSUME NEW p \in Replica, SettleFailed(p) PROVE Accounted(r)'
  <2>1. KeepsAccount(r)
    BY <1>11, <1>b DEF SettleFailed, SettleLost, ReportLost, KeepsAccount, Settling
  <2>2. QED
    BY <1>a, <2>1, AccountKept
<1>12. ASSUME NEW p \in Replica, SettleThrows(p) PROVE Accounted(r)'
  <2>1. \A q \in Replica : q # p /\ Settling(q, r) => Settling(q, r)'
    BY <1>12, <1>b DEF SettleThrows, LeaveLoop, Settling
  <2>2. UNCHANGED <<succ, lost>> /\ unrecorded \subseteq unrecorded'
    BY <1>12 DEF SettleThrows, LeaveLoop
  <2>3. ~Settling(p, r)
    BY <1>12 DEF SettleThrows, Settling
  <2>4. QED
    BY <1>a, <2>1, <2>2, <2>3, AccountKept DEF KeepsAccount
<1>13. ASSUME NEW p \in Replica, Finish(p) PROVE Accounted(r)'
  <2>1. KeepsAccount(r)
    BY <1>13, <1>b DEF Finish, Reset, KeepsAccount, Settling
  <2>2. QED
    BY <1>a, <2>1, AccountKept
<1>14. ASSUME NEW p \in Replica, TimerTick(p) PROVE Accounted(r)'
  <2>1. KeepsAccount(r)
    BY <1>14, <1>b DEF TimerTick, KeepsAccount, Settling
  <2>2. QED
    BY <1>a, <2>1, AccountKept
<1>15. ASSUME NEW p \in Replica, HandedBack(p) PROVE Accounted(r)'
  <2>1. KeepsAccount(r)
    BY <1>15, <1>b DEF HandedBack, KeepsAccount, Settling
  <2>2. QED
    BY <1>a, <2>1, AccountKept
<1>16. ASSUME NEW p \in Replica, RenewAnswered(p) PROVE Accounted(r)'
  <2>1. KeepsAccount(r)
    BY <1>16, <1>b DEF RenewAnswered, ReportLost, KeepsAccount, Settling
  <2>2. QED
    BY <1>a, <2>1, AccountKept
<1>17. ASSUME NEW p \in Replica, Dispose(p) PROVE Accounted(r)'
  <2>1. KeepsAccount(r)
    BY <1>17, <1>b DEF Dispose, KeepsAccount, Settling
  <2>2. QED
    BY <1>a, <2>1, AccountKept
<1>18. ASSUME NEW p \in Replica, Crash(p) PROVE Accounted(r)'
  <2>1. \A q \in Replica : q # p /\ Settling(q, r) => Settling(q, r)'
    BY <1>18, <1>b DEF Crash, Settling
  <2>2. UNCHANGED <<succ, lost>> /\ unrecorded \subseteq unrecorded'
    BY <1>18 DEF Crash
  <2>3. ~Settling(p, r)
    BY <1>18 DEF Crash, Settling
  <2>4. QED
    BY <1>a, <2>1, <2>2, <2>3, AccountKept DEF KeepsAccount
<1>19. ASSUME Tick PROVE Accounted(r)'
  <2>1. KeepsAccount(r)
    BY <1>19, <1>b DEF Tick, KeepsAccount, Settling
  <2>2. QED
    BY <1>a, <2>1, AccountKept
<1>20. CASE UNCHANGED vars
  <2>1. KeepsAccount(r)
    BY <1>20, <1>b DEF vars, KeepsAccount, Settling
  <2>2. QED
    BY <1>a, <2>1, AccountKept
<1>21. QED
  BY <1>1, <1>2, <1>3, <1>4, <1>5, <1>6, <1>7, <1>8, <1>9, <1>10, <1>11,
     <1>12, <1>13, <1>14, <1>15, <1>16, <1>17, <1>18, <1>19, <1>20
  DEF Next, Step, TimerStep

-----------------------------------------------------------------------------
(* Claims that are kept. While no query has failed none fails in a step    *)
(* after which none has.                                                   *)
LEMMA NoFaultYet == IInv /\ [Next]_vars /\ faults' = 0 => faults = 0 /\ ~Fault
<1> SUFFICES ASSUME IInv, [Next]_vars, faults' = 0 PROVE faults = 0 /\ ~Fault
  OBVIOUS
<1>1. faults \in Nat
  BY ConsumerAssumption DEF IInv, TypeOK
<1>2. ~Fault
  BY <1>1 DEF Fault
<1>3. UNCHANGED faults
  BY <1>2
  DEF Next, Step, TimerStep, InsertRow, Poll, ClaimNothing, ClaimThrows, ClaimBatch,
      Advance, Confirm, HandlersSucceed, HandlersFail, SettleDone, SettleFailed,
      SettleThrows, Finish, TimerTick, HandedBack, RenewAnswered, Dispose, Crash, Tick, vars
<1>4. QED
  BY <1>2, <1>3

(* The claim of p on r is in place; a step keeps it, and its lease is left *)
(* alone or renewed.                                                       *)
Claims(p, r) == Renewed(p, r) /\ ttl[r] + 1 >= Lease

KeepsClaim(p, r) ==
  /\ status'[r] = "CLAIMED" /\ owner'[r] = p
  /\ ttl'[r] = ttl[r] \/ ttl'[r] = Lease

LEMMA HandBackKeeps ==
  ASSUME IInv, NEW p \in Replica, NEW r \in Row, Claims(p, r),
         NEW q \in Replica, NEW S \in SUBSET Row, HandBack(q, S), q # p \/ r \notin S
  PROVE  KeepsClaim(p, r)
<1> DEFINE mine == {x \in Claimed(S) : owner[x] = q}
<1>1. r \notin mine
  BY DEF Claims, Renewed, Claimed
<1>2. Unclaim(mine) /\ ttl' = [x \in Row |-> IF x \in mine THEN 0 ELSE ttl[x]]
  BY DEF HandBack
<1> HIDE DEF mine
<1>3. QED
  BY <1>1, <1>2 DEF Unclaim, Claims, Renewed, KeepsClaim

LEMMA RecordKeeps ==
  ASSUME IInv, NEW p \in Replica, NEW r \in Row, Claims(p, r),
         NEW c \in Row, c # r, RecordDone(c) \/ RecordFailed(c)
  PROVE  KeepsClaim(p, r)
<1> USE DEF IInv, TypeOK, TableTypeOK, Claims, Renewed, KeepsClaim
<1>1. CASE RecordDone(c)
  BY <1>1 DEF RecordDone, Complete
<1>2. CASE RecordFailed(c)
  BY <1>2 DEF RecordFailed, Fail, tableVars
<1>3. QED
  BY <1>1, <1>2

LEMMA RenewKeeps ==
  ASSUME IInv, NEW p \in Replica, NEW r \in Row, Claims(p, r),
         NEW q \in Replica, NEW x, Renew(q, x), UNCHANGED tableVars
  PROVE  KeepsClaim(p, r)
BY DEF Renew, Claims, Renewed, KeepsClaim, IInv, TypeOK, TableTypeOK, tableVars

LEMMA ClaimKeeps ==
  ASSUME IInv, NEW p \in Replica, NEW r \in Row, Claims(p, r),
         NEW q \in Replica, NEW S \in SUBSET Row, Claim(q, S),
         ttl' = [x \in Row |-> IF x \in S THEN Lease ELSE ttl[x]]
  PROVE  KeepsClaim(p, r)
BY DEF Claim, Claims, Renewed, KeepsClaim, IInv, TypeOK, TableTypeOK

(* Nobody but its owner gives a claim away, and the sweep leaves it alone. *)
LEMMA ClaimKept ==
  ASSUME IInv, [Next]_vars, ~Tick, NEW p \in Replica, NEW r \in Row, Claims(p, r),
         ~(loop[p] \in {"succeeded", "failed"} /\ cur[p] = r),
         ~(loop[p] = "finishing" /\ r \in unstarted[p]),
         r \notin releasing[p]
  PROVE  KeepsClaim(p, r)
<1>a. /\ status \in [Row -> Status] /\ owner \in [Row -> Replica \cup {NoOwner}]
      /\ ttl \in [Row -> 0..Lease]
      /\ releasing \in [Replica -> SUBSET Row] /\ unstarted \in [Replica -> SUBSET Row]
  BY DEF IInv, TypeOK, TableTypeOK
<1>b. \A q \in Replica : Handling(q) => cur[q] \in Row
  BY DEF IInv, HandInv
<1>c. status[r] = "CLAIMED" /\ owner[r] = p /\ p # NoOwner
  BY ConstantsAssumption DEF Claims, Renewed
<1>d. UNCHANGED <<tableVars, ttl>> => KeepsClaim(p, r)
  BY <1>c DEF KeepsClaim, tableVars
<1>e. ASSUME NEW q \in Replica, OwnedBy(q, cur[q]), loop[q] \in {"succeeded", "failed"}
      PROVE  cur[q] # r
  BY <1>c, <1>e DEF OwnedBy
<1>1. ASSUME NEW x \in Row, InsertRow(x) PROVE KeepsClaim(p, r)
  BY <1>1, <1>a, <1>c DEF InsertRow, Insert, KeepsClaim
<1>2. ASSUME NEW q \in Replica, Poll(q) PROVE KeepsClaim(p, r)
  <2>1. CASE UNCHANGED <<tableVars, ttl>>
    BY <2>1, <1>d
  <2>2. ASSUME NEW S \in SUBSET Row, ResetExpired(S) PROVE KeepsClaim(p, r)
    <3>1. ttl[r] > Skew
      BY <1>a, ConsumerAssumption DEF Claims
    <3>2. r \notin S
      BY <1>a, <2>2, <3>1, ConsumerAssumption DEF ResetExpired
    <3>3. QED
      BY <1>a, <1>c, <2>2, <3>2 DEF ResetExpired, Unclaim, KeepsClaim
  <2>3. QED
    BY <1>2, <2>1, <2>2 DEF Poll
<1>3. ASSUME NEW q \in Replica, ClaimNothing(q) PROVE KeepsClaim(p, r)
  BY <1>3, <1>d DEF ClaimNothing
<1>4. ASSUME NEW q \in Replica, ClaimThrows(q) PROVE KeepsClaim(p, r)
  BY <1>4, <1>d, ClaimKeeps DEF ClaimThrows
<1>5. ASSUME NEW q \in Replica, NEW S \in SUBSET Row, ClaimBatch(q, S) PROVE KeepsClaim(p, r)
  BY <1>5, ClaimKeeps DEF ClaimBatch
<1>6. ASSUME NEW q \in Replica, Advance(q) PROVE KeepsClaim(p, r)
  BY <1>6, <1>d DEF Advance
<1>7. ASSUME NEW q \in Replica, Confirm(q) PROVE KeepsClaim(p, r)
  <2>1. UNCHANGED tableVars /\ (UNCHANGED ttl \/ Renew(q, cur[q]))
    BY <1>7 DEF Confirm
  <2>2. QED
    BY <1>d, <2>1, RenewKeeps
<1>8. ASSUME NEW q \in Replica, HandlersSucceed(q) PROVE KeepsClaim(p, r)
  BY <1>8, <1>d DEF HandlersSucceed
<1>9. ASSUME NEW q \in Replica, HandlersFail(q) PROVE KeepsClaim(p, r)
  BY <1>9, <1>d DEF HandlersFail
<1>10. ASSUME NEW q \in Replica, SettleDone(q) PROVE KeepsClaim(p, r)
  <2>1. cur[q] \in Row /\ loop[q] = "succeeded"
    BY <1>10, <1>b DEF SettleDone, Handling, InHand
  <2>2. CASE SettleLost(q)
    BY <1>d, <2>2 DEF SettleLost
  <2>3. CASE OwnedBy(q, cur[q]) /\ RecordDone(cur[q])
    BY <1>e, <2>1, <2>3, RecordKeeps
  <2>4. QED
    BY <1>10, <2>2, <2>3 DEF SettleDone
<1>11. ASSUME NEW q \in Replica, SettleFailed(q) PROVE KeepsClaim(p, r)
  <2>1. cur[q] \in Row /\ loop[q] = "failed"
    BY <1>11, <1>b DEF SettleFailed, Handling, InHand
  <2>2. CASE SettleLost(q)
    BY <1>d, <2>2 DEF SettleLost
  <2>3. CASE OwnedBy(q, cur[q]) /\ RecordFailed(cur[q])
    BY <1>e, <2>1, <2>3, RecordKeeps
  <2>4. QED
    BY <1>11, <2>2, <2>3 DEF SettleFailed
<1>12. ASSUME NEW q \in Replica, SettleThrows(q) PROVE KeepsClaim(p, r)
  <2>1. loop[q] \in {"succeeded", "failed"}
    BY <1>12 DEF SettleThrows
  <2>2. cur[q] \in Row
    BY <1>b, <2>1 DEF Handling, InHand
  <2>3. CASE OwnedBy(q, cur[q]) /\ (RecordDone(cur[q]) \/ RecordFailed(cur[q]))
    BY <1>e, <2>1, <2>2, <2>3, RecordKeeps
  <2>4. QED
    BY <1>12, <1>d, <2>3 DEF SettleThrows
<1>13. ASSUME NEW q \in Replica, Finish(q) PROVE KeepsClaim(p, r)
  <2>1. CASE UNCHANGED <<tableVars, ttl>>
    BY <2>1, <1>d
  <2>2. CASE HandBack(q, unstarted[q])
    <3>1. q # p \/ r \notin unstarted[q]
      BY <1>13 DEF Finish
    <3>2. QED
      BY <1>a, <2>2, <3>1, HandBackKeeps
  <2>3. QED
    BY <1>13, <2>1, <2>2 DEF Finish
<1>14. ASSUME NEW q \in Replica, TimerTick(q) PROVE KeepsClaim(p, r)
  BY <1>14, <1>d DEF TimerTick
<1>15. ASSUME NEW q \in Replica, HandedBack(q) PROVE KeepsClaim(p, r)
  <2>1. CASE UNCHANGED <<tableVars, ttl>>
    BY <2>1, <1>d
  <2>2. CASE HandBack(q, releasing[q])
    BY <1>a, <2>2, HandBackKeeps
  <2>3. QED
    BY <1>15, <2>1, <2>2 DEF HandedBack
<1>16. ASSUME NEW q \in Replica, RenewAnswered(q) PROVE KeepsClaim(p, r)
  <2>1. UNCHANGED tableVars /\ (UNCHANGED ttl \/ Renew(q, renewing[q]))
    BY <1>16 DEF RenewAnswered
  <2>2. QED
    BY <1>d, <2>1, RenewKeeps
<1>17. ASSUME NEW q \in Replica, Dispose(q) PROVE KeepsClaim(p, r)
  BY <1>17, <1>d DEF Dispose
<1>18. ASSUME NEW q \in Replica, Crash(q) PROVE KeepsClaim(p, r)
  BY <1>18, <1>d DEF Crash
<1>19. ASSUME Tick PROVE KeepsClaim(p, r)
  BY <1>19
<1>20. CASE UNCHANGED vars
  BY <1>20, <1>d DEF vars
<1>21. QED
  BY <1>1, <1>2, <1>3, <1>4, <1>5, <1>6, <1>7, <1>8, <1>9, <1>10, <1>11,
     <1>12, <1>13, <1>14, <1>15, <1>16, <1>17, <1>18, <1>19, <1>20
  DEF Next, Step, TimerStep

-----------------------------------------------------------------------------
(* A step of p leaves what the others have in hand, and their timers, as   *)
(* they are.                                                               *)
Apart(q) ==
  /\ loop'[q] = loop[q] /\ queue'[q] = queue[q] /\ cur'[q] = cur[q]
  /\ unstarted'[q] = unstarted[q] /\ reported'[q] = reported[q] /\ age'[q] = age[q]
  /\ due'[q] = due[q] /\ releasing'[q] = releasing[q] /\ renewing'[q] = renewing[q]

LEMMA OthersApart ==
  ASSUME IInv, NEW p \in Replica, Step(p) \/ TimerStep(p) \/ Dispose(p) \/ Crash(p),
         NEW q \in Replica, q # p
  PROVE  Apart(q)
<1>a. /\ loop \in [Replica -> LoopState] /\ queue \in [Replica -> SUBSET Row]
      /\ cur \in [Replica -> Row \cup {NoRow}] /\ unstarted \in [Replica -> SUBSET Row]
      /\ reported \in [Replica -> BOOLEAN] /\ age \in [Replica -> 0..2]
      /\ due \in [Replica -> BOOLEAN] /\ releasing \in [Replica -> SUBSET Row]
      /\ renewing \in [Replica -> Row \cup {NoRow}]
  BY DEF IInv, TypeOK
<1>b. \A x \in Replica : Handling(x) => cur[x] \in Row
  BY DEF IInv, HandInv
<1> USE DEF Apart, Goto, leaseVars, loopVars
<1>1. CASE Poll(p)
  BY <1>1, <1>a DEF Poll
<1>2. CASE ClaimNothing(p)
  BY <1>2, <1>a DEF ClaimNothing, Reset
<1>3. CASE ClaimThrows(p)
  BY <1>3, <1>a DEF ClaimThrows
<1>4. ASSUME NEW S \in SUBSET Row, ClaimBatch(p, S) PROVE Apart(q)
  BY <1>4, <1>a DEF ClaimBatch, Reset
<1>5. CASE Advance(p)
  <2>1. CASE Left(p)
    BY <1>a, <2>1 DEF Left, LeaveLoop
  <2>2. ASSUME NEW r \in Row, Entered(p, r) PROVE Apart(q)
    <3>1. loop'[q] = loop[q]
      BY <1>a, <2>2, DispatchGoes DEF Entered
    <3>2. QED
      BY <1>a, <2>2, <3>1 DEF Entered, Take
  <2>3. QED
    BY <1>5, <2>1, <2>2, AdvanceEnters DEF IInv
<1>6. CASE Confirm(p)
  <2>1. cur[p] \in Row
    BY <1>b, <1>6 DEF Confirm, Handling, InHand
  <2>2. loop'[q] = loop[q]
    BY <1>a, <1>6, <2>1, DispatchGoes DEF Confirm
  <2>3. QED
    BY <1>6, <2>2 DEF Confirm
<1>7. CASE HandlersSucceed(p)
  BY <1>7, <1>a DEF HandlersSucceed
<1>8. CASE HandlersFail(p)
  BY <1>8, <1>a DEF HandlersFail
<1>9. CASE SettleDone(p)
  BY <1>9, <1>a DEF SettleDone, SettleLost, ReportLost
<1>10. CASE SettleFailed(p)
  BY <1>10, <1>a DEF SettleFailed, SettleLost, ReportLost
<1>11. CASE SettleThrows(p)
  BY <1>11, <1>a DEF SettleThrows, LeaveLoop
<1>12. CASE Finish(p)
  BY <1>12, <1>a DEF Finish, Reset
<1>13. CASE TimerTick(p)
  BY <1>13, <1>a DEF TimerTick, RenewHeld
<1>14. CASE HandedBack(p)
  BY <1>14, <1>a DEF HandedBack, RenewHeld
<1>15. CASE RenewAnswered(p)
  BY <1>15, <1>a DEF RenewAnswered, ReportLost
<1>16. CASE Dispose(p)
  BY <1>16, <1>a DEF Dispose
<1>17. CASE Crash(p)
  BY <1>17, <1>a DEF Crash
<1>18. QED
  BY <1>1, <1>2, <1>3, <1>4, <1>5, <1>6, <1>7, <1>8, <1>9, <1>10, <1>11,
     <1>12, <1>13, <1>14, <1>15, <1>16, <1>17 DEF Step, TimerStep

(* While queries are on time the renewal timer is: its callback is never   *)
(* due while a query of the last one is in flight.                         *)
LEMMA TimersStep ==
  ASSUME IInv, [Next]_vars, faults' = 0
  PROVE  \A q \in Replica : TimerOnTime(q)'
<1>a. faults = 0 /\ ~Fault
  BY NoFaultYet
<1>b. \A q \in Replica : TimerOnTime(q)
  BY <1>a DEF IInv, OnTimeInv
<1>c. /\ loop \in [Replica -> LoopState] /\ queue \in [Replica -> SUBSET Row]
      /\ unstarted \in [Replica -> SUBSET Row] /\ age \in [Replica -> 0..2]
      /\ due \in [Replica -> BOOLEAN] /\ releasing \in [Replica -> SUBSET Row]
      /\ renewing \in [Replica -> Row \cup {NoRow}]
  BY DEF IInv, TypeOK
<1>d. ASSUME NEW q \in Replica, Apart(q) PROVE TimerOnTime(q)'
  BY <1>b, <1>d DEF Apart, TimerOnTime, Draining, Handling, Waiting
<1>e. ASSUME NEW p \in Replica, UNCHANGED <<due, renewing, releasing, age>>,
             Waiting(p)' \subseteq Waiting(p), Draining(p)' => Draining(p),
             unstarted'[p] \subseteq unstarted[p]
      PROVE  TimerOnTime(p)'
  BY <1>b, <1>c, <1>e DEF TimerOnTime
<1>f. ASSUME NEW p \in Replica, \/ Step(p) \/ TimerStep(p)
                                \/ Dispose(p) \/ Crash(p)
      PROVE  TimerOnTime(p)'
  <2>x. TimerOnTime(p)
    BY <1>b
  <2> USE DEF Goto, leaseVars, loopVars, Draining, Handling, InHand, Waiting
  <2>1. CASE Poll(p)
    BY <1>c, <1>e, <2>1 DEF Poll
  <2>2. CASE ClaimNothing(p)
    BY <1>c, <2>x, <2>2 DEF ClaimNothing, Reset, TimerOnTime
  <2>3. CASE ClaimThrows(p)
    BY <1>a, <2>3 DEF ClaimThrows
  <2>4. ASSUME NEW S \in SUBSET Row, ClaimBatch(p, S) PROVE TimerOnTime(p)'
    BY <1>a, <1>c, <2>4 DEF ClaimBatch, Reset, TimerOnTime
  <2>5. CASE Advance(p)
    <3>1. CASE Left(p)
      BY <1>c, <2>x, <3>1 DEF Left, LeaveLoop, TimerOnTime
    <3>2. ASSUME NEW r \in Row, Entered(p, r) PROVE TimerOnTime(p)'
      <4>1. /\ queue'[p] \subseteq queue[p]
            /\ unstarted'[p] \subseteq unstarted[p]
        BY <1>c, <3>2 DEF Entered, Take
      <4>2. UNCHANGED <<due, renewing, releasing, age>> /\ Draining(p)
        BY <2>5, <3>2 DEF Entered, Take, Advance
      <4>3. QED
        BY <1>e, <4>1, <4>2
    <3>3. QED
      BY <2>5, <3>1, <3>2, AdvanceEnters DEF IInv
  <2>6. CASE Confirm(p)
    BY <1>c, <1>e, <2>6 DEF Confirm
  <2>7. CASE HandlersSucceed(p)
    BY <1>c, <1>e, <2>7 DEF HandlersSucceed
  <2>8. CASE HandlersFail(p)
    BY <1>c, <1>e, <2>8 DEF HandlersFail
  <2>9. CASE SettleDone(p)
    BY <1>c, <1>e, <2>9 DEF SettleDone
  <2>10. CASE SettleFailed(p)
    BY <1>c, <1>e, <2>10 DEF SettleFailed
  <2>11. CASE SettleThrows(p)
    BY <1>a, <2>11 DEF SettleThrows
  <2>12. CASE Finish(p)
    BY <1>c, <2>x, <2>12 DEF Finish, Reset, TimerOnTime
  <2>13. CASE TimerTick(p)
    <3>1. renewing[p] = NoRow /\ releasing[p] = {}
      BY <2>x, <2>13 DEF TimerTick, TimerOnTime
    <3>2. /\ due'[p] = FALSE /\ unstarted'[p] = {}
          /\ releasing'[p] = unstarted[p]
          /\ unstarted[p] # {} => renewing'[p] = NoRow
      BY <1>c, <2>13, <3>1 DEF TimerTick
    <3>3. QED
      BY <3>1, <3>2 DEF TimerOnTime
  <2>14. CASE HandedBack(p)
    <3>1. due[p] = FALSE /\ unstarted[p] = {}
      BY <1>c, <2>x, <2>14 DEF HandedBack, TimerOnTime
    <3>2. releasing'[p] = {} /\ UNCHANGED <<due, unstarted>>
      BY <1>c, <2>14 DEF HandedBack
    <3>3. QED
      BY <3>1, <3>2 DEF TimerOnTime
  <2>15. CASE RenewAnswered(p)
    <3>1. renewing'[p] = NoRow
      BY <1>c, <2>15 DEF RenewAnswered
    <3>2. UNCHANGED <<age, due, releasing, unstarted, loop, queue>>
      BY <2>15 DEF RenewAnswered
    <3>3. QED
      BY <2>x, <3>1, <3>2 DEF TimerOnTime
  <2>16. CASE Dispose(p)
    BY <1>c, <1>e, <2>16 DEF Dispose
  <2>17. CASE Crash(p)
    BY <1>c, <2>17 DEF Crash, TimerOnTime
  <2>18. QED
    BY <2>1, <2>2, <2>3, <2>4, <2>5, <2>6, <2>7, <2>8, <2>9, <2>10, <2>11,
       <2>12, <2>13, <2>14, <2>15, <2>16, <2>17, <1>f DEF Step, TimerStep
<1>1. CASE UNCHANGED vars \/ \E r \in Row : InsertRow(r)
  BY <1>1, <1>d DEF vars, InsertRow, Apart, leaseVars, loopVars
<1>2. CASE Tick
  <2>1. \A q \in Replica : ~Overdue(q)
    BY <1>a, <1>2 DEF Tick
  <2>2. ASSUME NEW q \in Replica PROVE TimerOnTime(q)'
    <3>1. releasing'[q] = {} /\ renewing'[q] = NoRow
      BY <1>2, <2>1 DEF Tick, Overdue
    <3>2. Draining(q)' => due'[q]
      BY <1>2 DEF Tick, loopVars, Draining, Handling, InHand
    <3>3. QED
      BY <3>1, <3>2 DEF TimerOnTime
  <2>3. QED
    BY <2>2
<1>3. QED
  BY <1>1, <1>2, <1>d, <1>f, OthersApart DEF Next

(* An entry that goes on waiting, within the first interval, stays         *)
(* claimed.                                                                *)
StillDrains(p) ==
  Draining(p)' => /\ Draining(p)
                  /\ Waiting(p)' \subseteq Waiting(p)
                  /\ age'[p] = age[p]

LEMMA FreshKept ==
  ASSUME IInv, [Next]_vars, ~Tick, faults = 0, NEW p \in Replica, StillDrains(p)
  PROVE  WaitingFresh(p)'
<1> SUFFICES ASSUME Draining(p)', age'[p] <= 1, NEW r \in Waiting(p)'
             PROVE  Renewed(p, r)' /\ ttl'[r] + age'[p] >= Lease
  BY DEF WaitingFresh, Renewed
<1>1. Draining(p) /\ r \in Waiting(p) /\ age'[p] = age[p]
  BY DEF StillDrains
<1>2. /\ r \in Row /\ age[p] \in {0, 1} /\ ttl[r] \in Nat /\ Lease \in Nat
      /\ r \in unstarted[p]
  BY <1>1, ConsumerAssumption DEF IInv, TypeOK, Waiting
<1>3. Renewed(p, r) /\ ttl[r] + age[p] >= Lease
  BY <1>1, <1>2 DEF IInv, OnTimeInv, WaitingFresh
<1>4. releasing[p] = {}
  BY <1>2 DEF IInv, OnTimeInv, TimerOnTime
<1>5. Claims(p, r)
  BY <1>2, <1>3 DEF Claims
<1>6. ~(loop[p] \in {"succeeded", "failed"} /\ cur[p] = r)
  BY <1>2 DEF IInv, HandInv, Handling, InHand
<1>7. loop[p] # "finishing"
  BY <1>1 DEF Draining, Handling, InHand
<1>8. KeepsClaim(p, r)
  BY <1>2, <1>4, <1>5, <1>6, <1>7, ClaimKept
<1>9. QED
  BY <1>1, <1>2, <1>3, <1>8 DEF KeepsClaim, Renewed

LEMMA FreshStep ==
  ASSUME IInv, [Next]_vars, faults' = 0
  PROVE  \A q \in Replica : WaitingFresh(q)'
<1>a. faults = 0 /\ ~Fault
  BY NoFaultYet
<1>b. \A q \in Replica : WaitingFresh(q)
  BY <1>a DEF IInv, OnTimeInv
<1>c. /\ loop \in [Replica -> LoopState] /\ queue \in [Replica -> SUBSET Row]
      /\ unstarted \in [Replica -> SUBSET Row] /\ age \in [Replica -> 0..2]
      /\ status \in [Row -> Status] /\ owner \in [Row -> Replica \cup {NoOwner}]
      /\ ttl \in [Row -> 0..Lease]
  BY DEF IInv, TypeOK, TableTypeOK
<1>d. ASSUME NEW q \in Replica, Apart(q) PROVE StillDrains(q)
  BY <1>d DEF Apart, StillDrains, Draining, Handling, Waiting
<1>f. ASSUME NEW p \in Replica, \/ Step(p) \/ TimerStep(p)
                                \/ Dispose(p) \/ Crash(p)
      PROVE  StillDrains(p) \/ WaitingFresh(p)'
  <2> USE DEF Goto, leaseVars, loopVars, Draining, Handling, InHand, Waiting
  <2>1. CASE Poll(p)
    BY <1>c, <2>1 DEF Poll, StillDrains
  <2>2. CASE ClaimNothing(p)
    BY <1>c, <2>2 DEF ClaimNothing, Reset, StillDrains
  <2>3. CASE ClaimThrows(p)
    BY <1>a, <2>3 DEF ClaimThrows
  <2>4. ASSUME NEW S \in SUBSET Row, ClaimBatch(p, S) PROVE StillDrains(p) \/ WaitingFresh(p)'
    <3>1. queue'[p] = S /\ unstarted'[p] = S /\ age'[p] = 0
      BY <1>c, <2>4 DEF ClaimBatch, Reset
    <3>2. \A r \in S : /\ status'[r] = "CLAIMED" /\ owner'[r] = p
                       /\ ttl'[r] = Lease
      BY <1>c, <2>4 DEF ClaimBatch, Claim
    <3>3. QED
      BY <3>1, <3>2, ConsumerAssumption DEF WaitingFresh, Renewed
  <2>5. CASE Advance(p)
    <3>1. CASE Left(p)
      BY <1>c, <3>1 DEF Left, LeaveLoop, StillDrains
    <3>2. ASSUME NEW r \in Row, Entered(p, r) PROVE StillDrains(p)
      <4>1. /\ queue'[p] \subseteq queue[p]
            /\ unstarted'[p] \subseteq unstarted[p]
        BY <1>c, <3>2 DEF Entered, Take
      <4>2. UNCHANGED age /\ Draining(p)
        BY <2>5, <3>2 DEF Entered, Take, Advance
      <4>3. QED
        BY <4>1, <4>2 DEF StillDrains
    <3>3. QED
      BY <2>5, <3>1, <3>2, AdvanceEnters DEF IInv
  <2>6. CASE Confirm(p)
    BY <1>c, <2>6 DEF Confirm, StillDrains
  <2>7. CASE HandlersSucceed(p)
    BY <1>c, <2>7 DEF HandlersSucceed, StillDrains
  <2>8. CASE HandlersFail(p)
    BY <1>c, <2>8 DEF HandlersFail, StillDrains
  <2>9. CASE SettleDone(p)
    BY <1>c, <2>9 DEF SettleDone, StillDrains
  <2>10. CASE SettleFailed(p)
    BY <1>c, <2>10 DEF SettleFailed, StillDrains
  <2>11. CASE SettleThrows(p)
    BY <1>a, <2>11 DEF SettleThrows
  <2>12. CASE Finish(p)
    BY <1>c, <2>12 DEF Finish, Reset, StillDrains
  <2>13. CASE TimerTick(p)
    BY <1>c, <2>13 DEF TimerTick, StillDrains
  <2>14. CASE HandedBack(p)
    BY <1>c, <2>14 DEF HandedBack, StillDrains
  <2>15. CASE RenewAnswered(p)
    BY <1>c, <2>15 DEF RenewAnswered, StillDrains
  <2>16. CASE Dispose(p)
    BY <1>c, <2>16 DEF Dispose, StillDrains
  <2>17. CASE Crash(p)
    BY <1>c, <2>17 DEF Crash, StillDrains
  <2>18. QED
    BY <2>1, <2>2, <2>3, <2>4, <2>5, <2>6, <2>7, <2>8, <2>9, <2>10, <2>11,
       <2>12, <2>13, <2>14, <2>15, <2>16, <2>17, <1>f DEF Step, TimerStep
<1>1. CASE Tick
  <2>1. ASSUME NEW q \in Replica, Draining(q)', age'[q] <= 1, NEW r \in Waiting(q)'
        PROVE  Renewed(q, r)' /\ ttl'[r] + age'[q] >= Lease
    <3>1. Draining(q) /\ r \in Waiting(q) /\ r \in Row /\ UNCHANGED tableVars
      BY <1>1, <1>c, <2>1 DEF Tick, Draining, Handling, InHand, Waiting, loopVars
    <3>2. age'[q] = 1 /\ age[q] = 0
      BY <1>1, <1>c, <2>1, <3>1 DEF Tick, Draining, Handling, InHand
    <3>3. Renewed(q, r) /\ ttl[r] + age[q] >= Lease
      BY <1>b, <3>1, <3>2 DEF WaitingFresh
    <3>4. ttl'[r] + 1 >= ttl[r] /\ ttl[r] \in Nat /\ ttl'[r] \in Nat
      BY <1>1, <1>c, <3>1, ConsumerAssumption DEF Tick
    <3>5. QED
      BY <3>1, <3>2, <3>3, <3>4, ConsumerAssumption DEF Renewed, tableVars
  <2>2. QED
    BY <2>1 DEF WaitingFresh, Renewed
<1>2. CASE ~Tick
  <2>1. ASSUME NEW q \in Replica, StillDrains(q) PROVE WaitingFresh(q)'
    BY <1>2, <1>a, <2>1, FreshKept
  <2>2. CASE UNCHANGED vars \/ \E r \in Row : InsertRow(r)
    <3>1. \A q \in Replica : Apart(q)
      BY <2>2 DEF vars, InsertRow, Apart, leaseVars, loopVars
    <3>2. QED
      BY <1>d, <2>1, <3>1
  <2>3. ASSUME NEW p \in Replica, Step(p) \/ TimerStep(p) \/ Dispose(p) \/ Crash(p)
        PROVE  \A q \in Replica : WaitingFresh(q)'
    BY <2>3, <1>d, <1>f, <2>1, OthersApart
  <2>4. QED
    BY <1>2, <2>2, <2>3 DEF Next
<1>3. QED
  BY <1>1, <1>2

LEMMA OnTimeStep == IInv /\ [Next]_vars => OnTimeInv'
BY TimersStep, FreshStep DEF OnTimeInv

(* The entry whose handler runs stays claimed while its timers run.        *)
LEMMA RunningKept ==
  ASSUME IInv, [Next]_vars, ~Tick, faults = 0, ~Blocking, NEW p \in Replica,
         loop[p] = "running"
  PROVE  cur[p] \in Row /\ KeepsClaim(p, cur[p])
<1>1. cur[p] \in Row
  BY DEF IInv, HandInv, Handling, InHand
<1>2. EntryKept(p)
  BY DEF IInv, HeldInv
<1>3. ttl[cur[p]] \in Nat /\ Lease \in Nat /\ Lease > 0
  BY <1>1, ConsumerAssumption DEF IInv, TypeOK
<1>4. Claims(p, cur[p])
  BY <1>2, <1>3 DEF EntryKept, Claims
<1>5. cur[p] \notin releasing[p]
  BY <1>2 DEF EntryKept
<1>6. ASSUME NEW r \in Row, r = cur[p] PROVE KeepsClaim(p, r)
  BY <1>4, <1>5, <1>6, ClaimKept
<1>7. QED
  BY <1>1, <1>6

StillHeld(p) ==
  loop'[p] \in {"confirming", "running"} =>
    /\ loop'[p] = loop[p] /\ cur'[p] = cur[p] /\ reported'[p] = reported[p]
    /\ cur[p] \notin releasing'[p]
    /\ loop[p] = "running" /\ (due[p] \/ releasing[p] # {} \/ renewing[p] = cur[p])
         => \/ due'[p] \/ releasing'[p] # {} \/ renewing'[p] = cur[p]
            \/ ttl'[cur[p]] = Lease

LEMMA HeldKept ==
  ASSUME IInv, [Next]_vars, ~Tick, faults = 0, ~Blocking, NEW p \in Replica, StillHeld(p)
  PROVE  EntryKept(p)'
<1>1. EntryKept(p)
  BY DEF IInv, HeldInv
<1>2. loop'[p] \in {"confirming", "running"} => ~reported'[p] /\ cur'[p] \notin releasing'[p]
  BY <1>1 DEF EntryKept, StillHeld
<1>3. ASSUME loop'[p] = "running"
      PROVE  /\ Renewed(p, cur[p])'
             /\ \/ ttl'[cur'[p]] = Lease
                \/ ttl'[cur'[p]] = Lease - 1
                   /\ (due'[p] \/ releasing'[p] # {} \/ renewing'[p] = cur'[p])
  <2>1. loop[p] = "running" /\ cur'[p] = cur[p]
    BY <1>3 DEF StillHeld
  <2>2. cur[p] \in Row /\ KeepsClaim(p, cur[p])
    BY <2>1, RunningKept
  <2>3. /\ status'[cur'[p]] = "CLAIMED" /\ owner'[cur'[p]] = p
        /\ ttl'[cur'[p]] = Lease \/ ttl'[cur'[p]] = ttl[cur[p]]
    BY <2>1, <2>2 DEF KeepsClaim
  <2>4. QED
    BY <1>1, <1>3, <2>1, <2>3 DEF EntryKept, StillHeld, Renewed
<1>4. QED
  BY <1>2, <1>3 DEF EntryKept, Renewed

LEMMA HeldStep == IInv /\ [Next]_vars => HeldInv'
<1> SUFFICES ASSUME IInv, [Next]_vars, ~Blocking, faults' = 0
             PROVE  \A q \in Replica : EntryKept(q)'
  BY DEF HeldInv
<1>a. faults = 0 /\ ~Fault
  BY NoFaultYet
<1>b. \A q \in Replica : EntryKept(q) /\ TimerOnTime(q) /\ WaitingFresh(q)
  BY <1>a DEF IInv, HeldInv, OnTimeInv
<1>c. /\ loop \in [Replica -> LoopState] /\ queue \in [Replica -> SUBSET Row]
      /\ cur \in [Replica -> Row \cup {NoRow}] /\ unstarted \in [Replica -> SUBSET Row]
      /\ reported \in [Replica -> BOOLEAN] /\ age \in [Replica -> 0..2]
      /\ due \in [Replica -> BOOLEAN] /\ releasing \in [Replica -> SUBSET Row]
      /\ renewing \in [Replica -> Row \cup {NoRow}] /\ ttl \in [Row -> 0..Lease]
  BY DEF IInv, TypeOK
<1>d. ASSUME NEW q \in Replica, Apart(q) PROVE StillHeld(q)
  BY <1>b, <1>d DEF Apart, StillHeld, EntryKept
<1>e. \A p \in Replica : Handling(p) => cur[p] \in Row \ unstarted[p]
  BY DEF IInv, HandInv
<1>f. ASSUME NEW p \in Replica, \/ Step(p) \/ TimerStep(p)
                                \/ Dispose(p) \/ Crash(p)
      PROVE  StillHeld(p) \/ EntryKept(p)'
  <2>x. EntryKept(p) /\ TimerOnTime(p) /\ WaitingFresh(p)
    BY <1>b
  <2> USE DEF Goto, leaseVars, loopVars
  <2>1. CASE Poll(p)
    BY <1>c, <2>1 DEF Poll, StillHeld
  <2>2. CASE ClaimNothing(p)
    BY <1>c, <2>2 DEF ClaimNothing, Reset, StillHeld
  <2>3. CASE ClaimThrows(p)
    BY <1>a, <2>3 DEF ClaimThrows
  <2>4. ASSUME NEW S \in SUBSET Row, ClaimBatch(p, S) PROVE StillHeld(p) \/ EntryKept(p)'
    BY <1>c, <2>4 DEF ClaimBatch, Reset, StillHeld
  <2>5. CASE Advance(p)
    <3>1. CASE Left(p)
      BY <1>c, <3>1 DEF Left, LeaveLoop, StillHeld
    <3>2. ASSUME NEW r \in Row, r \in Waiting(p), Entered(p, r) PROVE EntryKept(p)'
      <4>1. cur'[p] = r
        BY <1>c, <3>2, Zenon DEF Entered, Take
      <4>2. ~reported'[p] /\ UNCHANGED <<due, releasing, tableVars, ttl>>
        BY <1>c, <3>2 DEF Entered, Take
      <4>3. releasing[p] = {}
        BY <2>x, <3>2 DEF Waiting, TimerOnTime
      <4>4. ASSUME loop'[p] = "running"
            PROVE  /\ Renewed(p, r)
                   /\ ttl[r] = Lease \/ (ttl[r] = Lease - 1 /\ due[p])
        <5>1. age[p] <= 1
          BY <1>c, <3>2, <4>4 DEF Entered
        <5>2. Draining(p) /\ age[p] \in {0, 1} /\ ttl[r] \in 0..Lease
          BY <1>c, <2>5, <5>1 DEF Advance, Draining
        <5>3. Renewed(p, r) /\ ttl[r] + age[p] >= Lease
          BY <2>x, <3>2, <5>1, <5>2 DEF WaitingFresh
        <5>4. age[p] = 1 => due[p]
          BY <2>x, <3>2, <5>2 DEF TimerOnTime
        <5>5. ttl[r] = Lease \/ (ttl[r] = Lease - 1 /\ age[p] = 1)
          BY <5>2, <5>3, ConsumerAssumption
        <5>6. QED
          BY <5>3, <5>4, <5>5, Zenon
      <4>5. QED
        BY <4>1, <4>2, <4>3, <4>4 DEF EntryKept, Renewed, tableVars
    <3>3. QED
      BY <2>5, <3>1, <3>2, AdvanceEnters DEF IInv
  <2>6. CASE Confirm(p)
    <3>1. loop[p] = "confirming" /\ UNCHANGED <<tableVars, reported, releasing, cur>>
      BY <2>6 DEF Confirm
    <3>2. ~reported'[p] /\ cur'[p] \notin releasing'[p]
      BY <2>x, <3>1 DEF EntryKept
    <3>3. cur[p] \in Row
      BY <1>e, <3>1 DEF Handling, InHand
    <3>4. CASE Renewed(p, cur[p])
      <4>1. Renew(p, cur[p])
        BY <1>a, <2>6 DEF Confirm
      <4>2. ttl'[cur[p]] = Lease
        BY <1>c, <3>3, <3>4, <4>1 DEF Renew
      <4>3. QED
        BY <3>1, <3>2, <3>4, <4>2 DEF EntryKept, Renewed, tableVars
    <3>5. CASE ~Renewed(p, cur[p])
      BY <1>a, <1>c, <2>6, <3>5 DEF Confirm, EntryKept
    <3>6. QED
      BY <3>4, <3>5
  <2>7. CASE HandlersSucceed(p)
    BY <1>c, <2>7 DEF HandlersSucceed, StillHeld
  <2>8. CASE HandlersFail(p)
    BY <1>c, <2>8 DEF HandlersFail, StillHeld
  <2>9. CASE SettleDone(p)
    BY <1>c, <2>9 DEF SettleDone, StillHeld
  <2>10. CASE SettleFailed(p)
    BY <1>c, <2>10 DEF SettleFailed, StillHeld
  <2>11. CASE SettleThrows(p)
    BY <1>a, <2>11 DEF SettleThrows
  <2>12. CASE Finish(p)
    BY <1>c, <2>12 DEF Finish, Reset, StillHeld
  <2>13. CASE TimerTick(p)
    <3>1. UNCHANGED <<loop, cur, reported>> /\ releasing'[p] = releasing[p] \cup unstarted[p]
      BY <1>c, <2>13 DEF TimerTick
    <3>2. loop[p] \in {"confirming", "running"} =>
            ~reported[p] /\ cur[p] \in Row /\ cur[p] \notin releasing'[p]
      BY <1>e, <2>x, <3>1 DEF EntryKept, Handling, InHand
    <3>3. ASSUME loop[p] = "running", unstarted[p] = {} PROVE renewing'[p] = cur[p]
      <4>1. renewing[p] = NoRow
        BY <2>x, <2>13 DEF TimerTick, TimerOnTime
      <4>2. QED
        BY <1>c, <2>13, <3>2, <3>3, <4>1, Zenon DEF TimerTick, RenewHeld
    <3>4. QED
      BY <3>1, <3>2, <3>3 DEF StillHeld
  <2>14. CASE HandedBack(p)
    <3>1. UNCHANGED <<loop, cur, reported>> /\ releasing'[p] = {}
      BY <1>c, <2>14 DEF HandedBack
    <3>2. renewing[p] = NoRow
      BY <2>x, <2>14 DEF HandedBack, TimerOnTime
    <3>3. loop[p] \in {"confirming", "running"} => ~reported[p]
      BY <2>x DEF EntryKept
    <3>4. loop[p] = "running" => renewing'[p] = cur[p]
      BY <1>c, <2>14, <3>2, <3>3, Zenon DEF HandedBack, RenewHeld
    <3>5. QED
      BY <3>1, <3>4 DEF StillHeld
  <2>15. CASE RenewAnswered(p)
    <3>1. UNCHANGED <<loop, cur, releasing>> /\ renewing[p] # NoRow
      BY <2>15 DEF RenewAnswered
    <3>2. ~due[p] /\ releasing[p] = {}
      BY <2>x, <3>1 DEF TimerOnTime
    <3>3. CASE loop[p] = "running"
      <4>1. Renewed(p, cur[p]) /\ cur[p] \in Row
        BY <1>e, <2>x, <3>3 DEF EntryKept, Handling, InHand
      <4>2. UNCHANGED reported /\ Renew(p, renewing[p])
        BY <1>a, <2>15, <4>1 DEF RenewAnswered
      <4>3. renewing[p] = cur[p] => ttl'[cur[p]] = Lease
        BY <1>c, <4>1, <4>2 DEF Renew
      <4>4. QED
        BY <3>1, <3>2, <4>2, <4>3 DEF StillHeld
    <3>4. CASE loop[p] # "running"
      <4>1. UNCHANGED reported
        BY <1>a, <2>15, <3>4 DEF RenewAnswered
      <4>2. QED
        BY <3>1, <3>2, <3>4, <4>1 DEF StillHeld
    <3>5. QED
      BY <3>3, <3>4
  <2>16. CASE Dispose(p)
    BY <1>c, <2>16, <2>x DEF Dispose, StillHeld, EntryKept
  <2>17. CASE Crash(p)
    BY <1>c, <2>17 DEF Crash, StillHeld
  <2>18. QED
    BY <2>1, <2>2, <2>3, <2>4, <2>5, <2>6, <2>7, <2>8, <2>9, <2>10, <2>11,
       <2>12, <2>13, <2>14, <2>15, <2>16, <2>17, <1>f DEF Step, TimerStep
<1>1. CASE Tick
  <2>1. ASSUME NEW q \in Replica PROVE EntryKept(q)'
    <3>1. ~Overdue(q) /\ UNCHANGED <<tableVars, reported, releasing, loop, cur>>
      BY <1>1, <1>a DEF Tick, loopVars
    <3>2. loop[q] # "confirming" /\ releasing[q] = {}
      BY <3>1 DEF Overdue
    <3>3. CASE loop[q] = "running"
      <4>1. ~due[q] /\ renewing[q] = NoRow /\ cur[q] \in Row /\ NoRow \notin Row
        BY <1>e, <3>1, <3>3, ConsumerAssumption DEF Overdue, Handling, InHand
      <4>2. Renewed(q, cur[q]) /\ ttl[cur[q]] = Lease /\ ~reported[q]
        BY <1>b, <3>2, <3>3, <4>1 DEF EntryKept
      <4>3. ttl'[cur[q]] = Lease - 1
        BY <1>1, <4>1, <4>2, ConsumerAssumption DEF Tick
      <4>4. due'[q]
        BY <1>1, <3>3 DEF Tick
      <4>5. QED
        BY <3>1, <3>2, <4>2, <4>3, <4>4 DEF EntryKept, Renewed, tableVars
    <3>4. CASE loop[q] # "running"
      BY <3>1, <3>2, <3>4 DEF EntryKept
    <3>5. QED
      BY <3>3, <3>4
  <2>2. QED
    BY <2>1
<1>2. CASE ~Tick
  <2>1. ASSUME NEW q \in Replica, StillHeld(q) PROVE EntryKept(q)'
    BY <1>2, <1>a, <2>1, HeldKept
  <2>2. CASE UNCHANGED vars \/ \E r \in Row : InsertRow(r)
    <3>1. \A q \in Replica : Apart(q)
      BY <2>2 DEF vars, InsertRow, Apart, leaseVars, loopVars
    <3>2. QED
      BY <1>d, <2>1, <3>1
  <2>3. ASSUME NEW p \in Replica, Step(p) \/ TimerStep(p) \/ Dispose(p) \/ Crash(p)
        PROVE  \A q \in Replica : EntryKept(q)'
    BY <2>3, <1>d, <1>f, <2>1, OthersApart
  <2>4. QED
    BY <1>2, <2>2, <2>3 DEF Next
<1>3. QED
  BY <1>1, <1>2

-----------------------------------------------------------------------------
LEMMA IInvInit == Init => IInv
<1> SUFFICES ASSUME Init PROVE IInv
  OBVIOUS
<1>1. TypeOK
  BY ConsumerAssumption, ConstantsAssumption
  DEF Init, TableInit, TypeOK, TableTypeOK, Status, LoopState
<1>2. TableInv
  BY TableInvInit DEF Init
<1>3. \A p \in Replica : loop[p] = "idle" /\ queue[p] = {} /\ releasing[p] = {} /\ ~due[p]
  BY DEF Init
<1>4. HandInv /\ OrderInv
  BY <1>3 DEF HandInv, OrderInv, InOrder, HandInOrder, QueueInOrder, Handling, InHand, Waiting
<1>5. AccountInv
  BY DEF Init, AccountInv, Accounted
<1>6. OnTimeInv /\ HeldInv
  BY <1>3 DEF OnTimeInv, HeldInv, TimerOnTime, WaitingFresh, EntryKept, Draining,
             Handling, InHand
<1>7. QED
  BY <1>1, <1>2, <1>4, <1>5, <1>6 DEF IInv

LEMMA IInvStep == IInv /\ [Next]_vars => IInv'
BY TypeStep, TableStep, HandStep, OrderStep, AccountStep, OnTimeStep, HeldStep DEF IInv

(* The inductive invariant: what a replica has in hand is in the table, in *)
(* order and accounted for, and claimed while queries and timers are on    *)
(* time.                                                                   *)
THEOREM Invariance == Spec => []IInv
BY IInvInit, IInvStep, PTL DEF Spec

(* Every variable keeps its type: no retry count runs past the limit, no   *)
(* lease past its length.                                                  *)
THEOREM TypeCorrect == Spec => []TypeOK
BY Invariance, PTL DEF IInv

(* A consumer uses its table as ClaimQueue allows: every step of a replica *)
(* or of its timer is one of the table's or leaves it alone.               *)
THEOREM UsesTable == Spec => TableSpec
<1>1. Init => TableInit
  BY DEF Init
<1>2. IInv /\ [Next]_vars => [TableNext]_tableVars
  BY TableMoves DEF IInv
<1>3. QED
  BY <1>1, <1>2, Invariance, PTL DEF Spec, TableSpec

-----------------------------------------------------------------------------
(* A handler starts when the loop reaches an entry claimed less than an    *)
(* interval ago, or when an entry's claim was confirmed.                   *)
StartsFresh(p, r) ==
  /\ loop[p] = "choosing" /\ r \in Waiting(p) /\ AggOf[r] \notin open[p]
  /\ \A x \in Acquirable(p) : r <= x
  /\ Entered(p, r)
  /\ age[p] <= 1

LEMMA HowHandlersStart ==
  ASSUME IInv, [Next]_vars, NEW p \in Replica, Starts(p)
  PROVE  Confirm(p) \/ \E r \in Row : StartsFresh(p, r)
<1>a. loop \in [Replica -> LoopState] /\ loop[p] # "running" /\ loop'[p] = "running"
  BY DEF IInv, TypeOK, Starts
<1>1. Step(p) \/ TimerStep(p) \/ Dispose(p) \/ Crash(p)
  <2>1. ASSUME NEW q \in Replica, q # p, Step(q) \/ TimerStep(q) \/ Dispose(q) \/ Crash(q)
        PROVE  FALSE
    BY <1>a, <2>1, OthersApart DEF Apart
  <2>2. loop' # loop
    BY <1>a
  <2>3. QED
    BY <2>1, <2>2 DEF Next, InsertRow, Tick, vars, loopVars
<1>2. Confirm(p) \/ Advance(p)
  BY <1>a, <1>1
  DEF Step, TimerStep, Goto, LeaveLoop, loopVars, Poll, ClaimNothing, ClaimThrows,
      ClaimBatch, HandlersSucceed, HandlersFail, SettleDone, SettleFailed, SettleThrows,
      Finish, TimerTick, HandedBack, RenewAnswered, Dispose, Crash
<1>3. CASE Advance(p)
  <2>1. ~Left(p)
    BY <1>a DEF Left, LeaveLoop, Goto
  <2>2. PICK r \in Row : /\ r \in Waiting(p) /\ AggOf[r] \notin open[p]
                         /\ \A x \in Acquirable(p) : r <= x
                         /\ Entered(p, r)
    BY <1>3, <2>1, AdvanceEnters DEF IInv
  <2>3. age[p] <= 1
    BY <1>a, <2>2 DEF Entered, Goto
  <2>4. QED
    BY <1>3, <2>2, <2>3 DEF StartsFresh, Advance
<1>4. QED
  BY <1>2, <1>3

(* Per-aggregate order: a handler starts on an event only when every       *)
(* earlier event of its aggregate the service subscribes to is handled or  *)
(* dead-lettered, whatever crashes, lost leases, late or failing queries   *)
(* there were.                                                             *)
OrderedStart ==
  \A p \in Replica : Starts(p) =>
    \A o \in Row :
      SameAgg(cur'[p], o) /\ o < cur'[p] /\ TopicOf[o] \in Subscribed[p]
        => status[o] \notin {"PENDING", "CLAIMED"}

LEMMA StartInOrder == IInv /\ [Next]_vars => OrderedStart
<1> SUFFICES ASSUME IInv, [Next]_vars, NEW p \in Replica, Starts(p),
                    NEW o \in Row, SameAgg(cur'[p], o), o < cur'[p],
                    TopicOf[o] \in Subscribed[p]
             PROVE  OutOfQueue(o)
  BY DEF OrderedStart, OutOfQueue
<1>1. CASE Confirm(p)
  <2>1. Handling(p) /\ cur'[p] = cur[p]
    BY <1>1 DEF Confirm, Handling, InHand
  <2>2. HandInOrder(p)
    BY DEF IInv, OrderInv, InOrder
  <2>3. SameAgg(cur[p], o) /\ o < cur[p]
    BY <2>1
  <2>4. QED
    BY <2>1, <2>2, <2>3 DEF HandInOrder
<1>2. ASSUME NEW r \in Row, StartsFresh(p, r) PROVE OutOfQueue(o)
  <2>1. InOrder(p)'
    BY <1>2, TableStep, AdvanceInOrder DEF StartsFresh
  <2>2. Handling(p)' /\ UNCHANGED status
    BY <1>2 DEF Starts, Handling, InHand, StartsFresh, Entered, tableVars
  <2>3. OutOfQueue(o)'
    BY <2>1, <2>2 DEF InOrder, HandInOrder, SameAgg
  <2>4. QED
    BY <2>2, <2>3 DEF OutOfQueue
<1>3. QED
  BY <1>1, <1>2, HowHandlersStart

THEOREM StartsOrdered == Spec => StartsInOrder
<1>1. IInv /\ [Next]_vars => [OrderedStart]_vars
  BY StartInOrder
<1>2. QED
  BY <1>1, Invariance, PTL DEF Spec, StartsInOrder, OrderedStart

(* A handler never starts on an entry another replica has claimed since,   *)
(* or that was reset, unless a query failed: an entry that waited behind a *)
(* handler that blocks the event loop is confirmed first.                  *)
OwnedStart ==
  \A p \in Replica : Starts(p) /\ faults' = 0 => Renewed(p, cur'[p])

LEMMA StartOwned == IInv /\ [Next]_vars => OwnedStart
<1> SUFFICES ASSUME IInv, [Next]_vars, faults' = 0, NEW p \in Replica, Starts(p)
             PROVE  Renewed(p, cur'[p])
  BY DEF OwnedStart
<1>1. faults = 0 /\ ~Fault
  BY NoFaultYet
<1>2. CASE Confirm(p)
  <2>1. cur'[p] = cur[p]
    BY <1>2 DEF Confirm
  <2>2. Renewed(p, cur[p])
    BY <1>1, <1>2 DEF Confirm, Goto, Starts, IInv, TypeOK
  <2>3. QED
    BY <2>1, <2>2
<1>3. ASSUME NEW r \in Row, StartsFresh(p, r) PROVE Renewed(p, cur'[p])
  <2>1. cur'[p] = r
    BY <1>3, Zenon DEF StartsFresh, Entered, Take, IInv, TypeOK
  <2>2. Renewed(p, r)
    BY <1>1, <1>3 DEF StartsFresh, IInv, OnTimeInv, WaitingFresh, Draining
  <2>3. QED
    BY <2>1, <2>2
<1>4. QED
  BY <1>2, <1>3, HowHandlersStart

THEOREM StartsAreOwned == Spec => StartsOwned
<1>1. IInv /\ [Next]_vars => [OwnedStart]_vars
  BY StartOwned
<1>2. QED
  BY <1>1, Invariance, PTL DEF Spec, StartsOwned, OwnedStart

(* No event is handled twice without a report, once both replicas have     *)
(* settled it, unless one of them could not record that it had handled it. *)
THEOREM DuplicatesAreReported == Spec => []DuplicateIsReported
<1>1. IInv => DuplicateIsReported
  BY DEF IInv, AccountInv, Accounted, Settling, DuplicateIsReported
<1>2. QED
  BY <1>1, Invariance, PTL

(* As long as timers and queries are on time, no two replicas handle       *)
(* events of one aggregate at the same time.                               *)
THEOREM OneAtATime == Spec => []NoOverlap
<1>1. IInv => NoOverlap
  <2>1. SUFFICES ASSUME IInv, ~Blocking, faults = 0, NEW p \in Replica, NEW q \in Replica,
                        p # q, loop[p] = "running", loop[q] = "running"
                 PROVE  cur[p] # cur[q] /\ ~SameAgg(cur[p], cur[q])
    BY DEF NoOverlap
  <2>2. Renewed(p, cur[p]) /\ Renewed(q, cur[q])
    BY <2>1 DEF IInv, HeldInv, EntryKept
  <2>3. cur[p] \in Row /\ cur[q] \in Row
    BY <2>1 DEF IInv, HandInv, Handling, InHand
  <2>4. OneOwnerPerAggregate
    BY <2>1 DEF IInv, TableInv
  <2>5. QED
    BY <2>1, <2>2, <2>3, <2>4 DEF Renewed, OneOwnerPerAggregate
<1>2. QED
  BY <1>1, Invariance, PTL
=============================================================================
