--------------------------- MODULE PipelineProofs ---------------------------
(***************************************************************************)
(* Proofs about Pipeline, for every set of forwarders, rows and            *)
(* aggregates, every batch size and retry limit, and any number of faults. *)
(***************************************************************************)
EXTENDS Pipeline, ClaimQueueProofs, SequenceTheorems

(* An entry is being forwarded.                                            *)
Forwarding == {"publishing", "looking", "published", "failed"}

Handling(p) == loop[p] \in Forwarding

(* The entries of its batch a forwarder may still start on.                *)
Waiting(p) == queue[p] \cap unstarted[p]

(* An event that does not hold up later ones of its aggregate.             *)
Cleared(o) == copies[o] > 0 \/ status[o] \in {"absent", "FAILED", "gone"}

-----------------------------------------------------------------------------
(* The inductive invariant. A dead letter has used up its attempts.        *)
SpentInv == \A r \in Row : status[r] = "FAILED" => retries[r] = MaxRetries

(* What a forwarder has in hand is in the table.                           *)
HandInv ==
  \A p \in Replica :
    /\ Handling(p) => cur[p] \in Row /\ status[cur[p]] # "absent"
    /\ \A r \in Waiting(p) : status[r] # "absent"

(* Whoever finds an event sent, found it on the bus.                       *)
SentInv ==
  /\ \A r \in Row : status[r] = "SENT" \/ OnBus(r) => copies[r] > 0
  /\ \A p \in Replica : loop[p] \in {"looking", "published"} => copies[cur[p]] > 0

(* Nothing earlier is behind the entry in hand, whose aggregate is open,   *)
(* nor behind an entry that waits: unless that is in hand or waits, too,   *)
(* or the aggregate was left open and the entry will be refused.           *)
HandInOrder(p) ==
  Handling(p) =>
    /\ AggOf[cur[p]] \in Agg => AggOf[cur[p]] \in open[p]
    /\ \A o \in Row : SameAgg(cur[p], o) /\ o < cur[p] => Cleared(o)

QueueInOrder(p) ==
  \A r \in Waiting(p) : \A o \in Row :
    SameAgg(r, o) /\ o < r =>
      \/ Cleared(o)
      \/ o \in Waiting(p)
      \/ Handling(p) /\ o = cur[p]
      \/ AggOf[r] \in open[p] /\ ~(Handling(p) /\ SameAgg(r, cur[p]))

OrderInv == \A p \in Replica : HandInOrder(p) /\ QueueInOrder(p)

IInv == TypeOK /\ SpentInv /\ HandInv /\ SentInv /\ OneRowAtATime /\ OrderInv

-----------------------------------------------------------------------------
(* Sequences: what the bus table's inserts and deletes do to its rows.     *)
LEMMA RemoveAtProperties ==
  ASSUME NEW S, NEW s \in Seq(S), NEW i \in 1..Len(s)
  PROVE  /\ RemoveAt(s, i) \in Seq(S)
         /\ Len(RemoveAt(s, i)) = Len(s) - 1
         /\ \A j \in 1..(Len(s) - 1) :
              RemoveAt(s, i)[j] = IF j < i THEN s[j] ELSE s[j + 1]
<1> DEFINE before == SubSeq(s, 1, i - 1)
           after == SubSeq(s, i + 1, Len(s))
<1>1. /\ before \in Seq(S)
      /\ Len(before) = i - 1
      /\ \A j \in 1..(i - 1) : before[j] = s[j]
  <2>1. \A j \in 1..(i - 1) : s[j] \in S
    BY ElementOfSeq
  <2>2. QED
    BY <2>1, SubSeqProperties
<1>2. /\ after \in Seq(S)
      /\ Len(after) = Len(s) - i
      /\ \A j \in 1..(Len(s) - i) : after[j] = s[i + j]
  <2>1. \A j \in (i + 1)..Len(s) : s[j] \in S
    BY ElementOfSeq
  <2> DEFINE m == i + 1
  <2>2. m \in Int /\ Len(s) \in Nat /\ i \in Nat /\ i <= Len(s)
    BY LenProperties
  <2>3. \A j \in m..Len(s) : s[j] \in S
    BY <2>1
  <2>4. /\ SubSeq(s, m, Len(s)) \in Seq(S)
        /\ Len(SubSeq(s, m, Len(s))) = IF m <= Len(s) THEN Len(s) - m + 1 ELSE 0
        /\ \A j \in 1..(Len(s) - m + 1) : SubSeq(s, m, Len(s))[j] = s[m + j - 1]
    <3> HIDE DEF m
    <3>1. QED
      BY <2>2, <2>3, SubSeqProperties
  <2>5. \A j \in 1..(Len(s) - i) : after[j] = s[i + j]
    BY <2>2, <2>4
  <2>6. Len(after) = Len(s) - i
    BY <2>2, <2>4
  <2>7. QED
    BY <2>4, <2>5, <2>6
<1>3. RemoveAt(s, i) = before \o after
  BY DEF RemoveAt
<1> HIDE DEF before, after
<1>4. QED
  <2>1. /\ before \o after \in Seq(S)
        /\ Len(before \o after) = Len(before) + Len(after)
        /\ \A j \in 1..(Len(before) + Len(after)) :
             (before \o after)[j] = IF j <= Len(before) THEN before[j]
                                    ELSE after[j - Len(before)]
    BY <1>1, <1>2, ConcatProperties
  <2>2. Len(before \o after) = Len(s) - 1
    BY <1>1, <1>2, <2>1, LenProperties
  <2>3. ASSUME NEW j \in 1..(Len(s) - 1)
        PROVE  (before \o after)[j] = IF j < i THEN s[j] ELSE s[j + 1]
    BY <1>1, <1>2, <2>1, LenProperties
  <2>4. QED
    BY <1>3, <2>1, <2>2, <2>3

(* A row is appended to the bus only when it is not there.                 *)
LEMMA AppendKeepsRowsDistinct ==
  ASSUME NEW s \in Seq(Row), IsInjective(s), NEW r \in Row, r \notin ToSet(s)
  PROVE  IsInjective(Append(s, r))
BY AppendProperties DEF IsInjective, ToSet

LEMMA RemoveKeepsRowsDistinct ==
  ASSUME NEW s \in Seq(Row), IsInjective(s), NEW i \in 1..Len(s)
  PROVE  /\ IsInjective(RemoveAt(s, i))
         /\ ToSet(RemoveAt(s, i)) \subseteq ToSet(s)
<1> DEFINE rest == RemoveAt(s, i)
           back(j) == IF j < i THEN j ELSE j + 1
<1>1. /\ rest \in Seq(Row)
      /\ Len(rest) = Len(s) - 1
      /\ \A j \in 1..(Len(s) - 1) : rest[j] = IF j < i THEN s[j] ELSE s[j + 1]
  BY RemoveAtProperties
<1> HIDE DEF rest
<1>2. DOMAIN s = 1..Len(s) /\ Len(s) \in Nat /\ DOMAIN rest = 1..(Len(s) - 1)
  BY <1>1, LenProperties
<1>3. \A j \in DOMAIN rest : back(j) \in DOMAIN s /\ rest[j] = s[back(j)]
  BY <1>1, <1>2
<1>4. \A j, k \in DOMAIN rest : back(j) = back(k) => j = k
  BY <1>2
<1>5. IsInjective(rest)
  BY <1>3, <1>4 DEF IsInjective
<1>6. ToSet(rest) \subseteq ToSet(s)
  BY <1>3 DEF ToSet
<1>7. QED
  BY <1>5, <1>6 DEF rest

-----------------------------------------------------------------------------
(* The operations of the table that ClaimQueue does not have.              *)
LEMMA MarkSentType ==
  ASSUME TableTypeOK, NEW r \in Row, MarkSent(r)
  PROVE  TableTypeOK'
BY ConstantsAssumption DEF TableTypeOK, Status, MarkSent

LEMMA MarkFailedType ==
  ASSUME TableTypeOK, NEW r \in Row, MarkFailed(r)
  PROVE  TableTypeOK' /\ (status'[r] = "FAILED" => retries'[r] = MaxRetries)
BY ConstantsAssumption DEF TableTypeOK, Status, MarkFailed

LEMMA BusType ==
  ASSUME TypeOK, NEW r \in Row, InsertOnBus(r)
  PROVE  bus' \in Seq(Row) /\ copies' \in [Row -> 0..2]
<1> USE DEF TypeOK
<1>1. bus' \in Seq(Row)
  <2>1. Append(bus, r) \in Seq(Row)
    BY AppendProperties
  <2>2. QED
    BY <2>1 DEF InsertOnBus, busVars
<1>2. copies' \in [Row -> 0..2]
  BY DEF InsertOnBus, busVars
<1>3. QED
  BY <1>1, <1>2

(* The next entry is the first of those the loop would not refuse.         *)
LEMMA NextEntry ==
  ASSUME TypeOK, NEW p \in Replica, Acquirable(p) # {}
  PROVE  /\ Min(Acquirable(p)) \in Row
         /\ Min(Acquirable(p)) \in Waiting(p)
         /\ AggOf[Min(Acquirable(p))] \notin open[p]
         /\ \A r \in Acquirable(p) : Min(Acquirable(p)) <= r
<1>1. Acquirable(p) \subseteq Row /\ Acquirable(p) \in SUBSET Nat
  BY ConstantsAssumption DEF TypeOK, Acquirable
<1>2. QED
  BY <1>1, MinIsFirst DEF Acquirable, Waiting

-----------------------------------------------------------------------------
(* An advance that does not end the batch, with its entry named.           *)
Entered(p, r) ==
  /\ \/ Goto(p, "publishing") /\ cur' = [cur EXCEPT ![p] = r]
     \/ owner[r] # p /\ UNCHANGED <<loop, cur>>
  /\ queue' = [queue EXCEPT ![p] = {x \in @ : x > r}]
  /\ unstarted' = [unstarted EXCEPT ![p] = @ \ {r}]
  /\ open' = [open EXCEPT ![p] = (@ \cup {AggOf[r]}) \cap Agg]
  /\ reported' = [reported EXCEPT ![p] = FALSE]
  /\ UNCHANGED <<tableVars, stopping, busVars, faults>>

LEMMA AdvanceEnters ==
  ASSUME TypeOK, NEW p \in Replica, Advance(p)
  PROVE  \/ Goto(p, "finishing")
            /\ UNCHANGED <<queue, unstarted, cur, open, reported, tableVars, stopping, busVars, faults>>
         \/ \E r \in Row : /\ r \in Waiting(p)
                           /\ AggOf[r] \notin open[p]
                           /\ \A x \in Acquirable(p) : r <= x
                           /\ Entered(p, r)
<1>1. CASE stopping[p] \/ Acquirable(p) = {}
  BY <1>1 DEF Advance
<1>2. CASE ~(stopping[p] \/ Acquirable(p) = {})
  <2>1. Entered(p, Min(Acquirable(p)))
    BY <1>2, Zenon DEF Advance, Entered
  <2>2. QED
    BY <1>2, <2>1, NextEntry
<1>3. QED
  BY <1>1, <1>2

(* Every variable keeps its type: in particular a retry count stays within *)
(* the limit and only rows get onto the bus.                               *)
LEMMA TypeStep == TypeOK /\ HandInv /\ [Next]_vars => TypeOK'
<1> USE ConstantsAssumption, PipelineAssumption
    DEF TypeOK, TableTypeOK, Status, LoopState, Goto, tableVars, forwarderVars, busVars
<1> SUFFICES ASSUME TypeOK, HandInv, [Next]_vars PROVE TypeOK'
  OBVIOUS
<1>1. ASSUME NEW r \in Row, Commit(r) PROVE TypeOK'
  BY <1>1 DEF Commit, Insert
<1>2. ASSUME NEW r \in Row, Sweep(r) PROVE TypeOK'
  BY <1>2 DEF Sweep, Unclaim, Fault
<1>3. ASSUME NEW r \in Row, Cleanup(r) PROVE TypeOK'
  BY <1>3 DEF Cleanup
<1>4. ASSUME NEW p \in Replica, Poll(p) PROVE TypeOK'
  BY <1>4 DEF Poll
<1>5. ASSUME NEW p \in Replica, ClaimNothing(p) PROVE TypeOK'
  <2>1. TableTypeOK'
    BY <1>5, ClaimType DEF ClaimNothing
  <2>2. QED
    BY <1>5, <2>1 DEF ClaimNothing, Fault
<1>6. ASSUME NEW p \in Replica, NEW S \in SUBSET Row, ClaimBatch(p, S) PROVE TypeOK'
  BY <1>6 DEF ClaimBatch, Claim
<1>7. ASSUME NEW p \in Replica, Advance(p) PROVE TypeOK'
  <2>1. ASSUME NEW r \in Row, Entered(p, r) PROVE TypeOK'
    <3>1. /\ loop' \in [Replica -> LoopState]
          /\ cur' \in [Replica -> Row \cup {NoRow}]
      <4>1. \/ loop' = [loop EXCEPT ![p] = "publishing"] /\ cur' = [cur EXCEPT ![p] = r]
            \/ loop' = loop /\ cur' = cur
        BY <2>1, Zenon DEF Entered
      <4>2. cur' \in [Replica -> Row \cup {NoRow}]
        BY <4>1, Zenon
      <4>3. loop' \in [Replica -> LoopState]
        BY <4>1
      <4>4. QED
        BY <4>2, <4>3
    <3>2. /\ {x \in queue[p] : x > r} \in SUBSET Row
          /\ unstarted[p] \ {r} \in SUBSET Row
          /\ (open[p] \cup {AggOf[r]}) \cap Agg \in SUBSET Agg
      OBVIOUS
    <3>3. /\ queue' \in [Replica -> SUBSET Row]
          /\ unstarted' \in [Replica -> SUBSET Row]
          /\ open' \in [Replica -> SUBSET Agg]
          /\ reported' \in [Replica -> BOOLEAN]
      BY <2>1, <3>2, Zenon DEF Entered
    <3>4. QED
      BY <2>1, <3>1, <3>2, <3>3 DEF Entered
  <2>2. CASE /\ Goto(p, "finishing")
             /\ UNCHANGED <<queue, unstarted, cur, open, reported, tableVars, stopping,
                            busVars, faults>>
    BY <2>2
  <2>3. QED
    BY <1>7, <2>1, <2>2, AdvanceEnters
<1>8. ASSUME NEW p \in Replica, Publish(p) PROVE TypeOK'
  <2>1. cur[p] \in Row
    BY <1>8 DEF Publish, HandInv, Handling, Forwarding
  <2>2. bus' \in Seq(Row) /\ copies' \in [Row -> 0..2]
    BY <1>8, <2>1, BusType DEF Publish
  <2>3. QED
    BY <1>8, <2>2 DEF Publish, Fault
<1>9. ASSUME NEW p \in Replica, PublishFails(p) PROVE TypeOK'
  BY <1>9 DEF PublishFails, Fault
<1>10. ASSUME NEW p \in Replica, LookUp(p) PROVE TypeOK'
  BY <1>10 DEF LookUp
<1>11. ASSUME NEW p \in Replica, SettleSent(p) PROVE TypeOK'
  <2>1. cur[p] \in Row
    BY <1>11 DEF SettleSent, HandInv, Handling, Forwarding
  <2>2. TableTypeOK'
    BY <1>11, <2>1, MarkSentType DEF SettleSent, SettleLost
  <2>3. open' \in [Replica -> SUBSET Agg]
    BY <1>11 DEF SettleSent, SettleLost
  <2>4. reported' \in [Replica -> BOOLEAN]
    BY <1>11 DEF SettleSent, SettleLost
  <2>5. QED
    BY <1>11, <2>2, <2>3, <2>4 DEF SettleSent, Settled
<1>12. ASSUME NEW p \in Replica, SentThrows(p) PROVE TypeOK'
  <2>1. cur[p] \in Row
    BY <1>12 DEF SentThrows, HandInv, Handling, Forwarding
  <2>2. TableTypeOK'
    BY <1>12, <2>1, MarkSentType DEF SentThrows
  <2>3. QED
    BY <1>12, <2>2 DEF SentThrows, Fault
<1>13. ASSUME NEW p \in Replica, SettleFailed(p) PROVE TypeOK'
  <2>1. cur[p] \in Row
    BY <1>13 DEF SettleFailed, HandInv, Handling, Forwarding
  <2>2. TableTypeOK'
    BY <1>13, <2>1, MarkFailedType DEF SettleFailed, SettleLost
  <2>3. QED
    BY <1>13, <2>2 DEF SettleFailed, SettleLost, Settled
<1>14. ASSUME NEW p \in Replica, FailedThrows(p) PROVE TypeOK'
  <2>1. cur[p] \in Row
    BY <1>14 DEF FailedThrows, HandInv, Handling, Forwarding
  <2>2. TableTypeOK'
    BY <1>14, <2>1, MarkFailedType DEF FailedThrows
  <2>3. QED
    BY <1>14, <2>2 DEF FailedThrows, Fault
<1>15. ASSUME NEW p \in Replica, Finish(p) PROVE TypeOK'
  BY <1>15 DEF Finish, HandBack, Unclaim, Forget, Fault
<1>16. ASSUME NEW p \in Replica, Renewal(p) PROVE TypeOK'
  BY <1>16 DEF Renewal, HandBack, Unclaim, Fault
<1>17. ASSUME NEW p \in Replica, Dispose(p) PROVE TypeOK'
  BY <1>17 DEF Dispose
<1>18. ASSUME NEW p \in Replica, Crash(p) PROVE TypeOK'
  BY <1>18 DEF Crash, Forget
<1>19. ASSUME NEW i \in 1..Len(bus), Consume(i) PROVE TypeOK'
  BY <1>19, RemoveAtProperties DEF Consume
<1>20. CASE UNCHANGED vars
  BY <1>20 DEF vars, tableVars, forwarderVars, busVars
<1>21. QED
  BY <1>1, <1>2, <1>3, <1>4, <1>5, <1>6, <1>7, <1>8, <1>9, <1>10, <1>11,
     <1>12, <1>13, <1>14, <1>15, <1>16, <1>17, <1>18, <1>19, <1>20
  DEF Next, Step

-----------------------------------------------------------------------------
(* What no step takes back: a committed row, an event's first appearance   *)
(* on the bus and, once a later row of its aggregate is committed, that an *)
(* event does not hold it up. A dead letter has used up its attempts.      *)
NothingTakenBack ==
  /\ \A r \in Row : status[r] # "absent" => status'[r] # "absent"
  /\ \A r \in Row : copies[r] > 0 => copies'[r] > 0
  /\ \A r, o \in Row :
       SameAgg(r, o) /\ o < r /\ status[r] # "absent" /\ Cleared(o) => Cleared(o)'

LEMMA InsertedOnBus ==
  ASSUME TypeOK, SentInv, NEW r \in Row, InsertOnBus(r)
  PROVE  /\ \A x \in Row : x # r => copies'[x] = copies[x]
         /\ copies'[r] > 0
         /\ \A x \in Row : OnBus(x)' => x = r \/ OnBus(x)
<1>1. CASE OnBus(r)
  BY <1>1 DEF InsertOnBus, busVars, SentInv, OnBus
<1>2. CASE ~OnBus(r)
  <2>1. /\ bus' = Append(bus, r)
        /\ copies' = [copies EXCEPT ![r] = IF @ < 2 THEN @ + 1 ELSE 2]
    BY <1>2 DEF InsertOnBus
  <2>2. \A x \in Row : x # r => copies'[x] = copies[x]
    BY <2>1 DEF TypeOK
  <2>3. copies'[r] > 0
    <3>1. copies[r] \in 0..2 /\ copies'[r] = IF copies[r] < 2 THEN copies[r] + 1 ELSE 2
      BY <2>1 DEF TypeOK
    <3>2. QED
      BY <3>1
  <2>4. \A x \in Row : OnBus(x)' => x = r \/ OnBus(x)
    BY <2>1, AppendProperties, LenProperties DEF TypeOK, OnBus, ToSet
  <2>5. QED
    BY <2>2, <2>3, <2>4
<1>3. QED
  BY <1>1, <1>2

LEMMA MarkFailedTable ==
  ASSUME TypeOK, SpentInv, NEW r \in Row, MarkFailed(r)
  PROVE  /\ \A x \in Row : x # r => status'[x] = status[x]
         /\ status'[r] \in {"FAILED", "PENDING"}
         /\ status[r] = "FAILED" => status'[r] = "FAILED"
         /\ SpentInv'
<1> USE ConstantsAssumption DEF TypeOK, TableTypeOK, Status, SpentInv
<1>1. \A x \in Row : x # r => status'[x] = status[x] /\ retries'[x] = retries[x]
  BY DEF MarkFailed
<1>2. /\ status'[r] = IF retries[r] + 1 >= MaxRetries THEN "FAILED" ELSE "PENDING"
      /\ retries'[r] = IF retries[r] < MaxRetries THEN retries[r] + 1 ELSE MaxRetries
  BY DEF MarkFailed
<1>3. status[r] = "FAILED" => status'[r] = "FAILED"
  BY <1>2
<1>4. status'[r] = "FAILED" => retries'[r] = MaxRetries
  BY <1>2
<1>5. QED
  BY <1>1, <1>2, <1>3, <1>4

LEMMA TableStep == IInv /\ [Next]_vars => NothingTakenBack /\ SpentInv'
<1> USE ConstantsAssumption
    DEF IInv, TypeOK, TableTypeOK, Status, SpentInv, NothingTakenBack, Cleared,
        tableVars, forwarderVars, busVars
<1> SUFFICES ASSUME IInv, [Next]_vars PROVE NothingTakenBack /\ SpentInv'
  OBVIOUS
<1>1. ASSUME NEW r \in Row, Commit(r) PROVE NothingTakenBack /\ SpentInv'
  BY <1>1 DEF Commit, Insert, SameAgg
<1>2. ASSUME NEW r \in Row, Sweep(r) PROVE NothingTakenBack /\ SpentInv'
  BY <1>2 DEF Sweep, Unclaim
<1>3. ASSUME NEW r \in Row, Cleanup(r) PROVE NothingTakenBack /\ SpentInv'
  BY <1>3 DEF Cleanup
<1>4. ASSUME NEW p \in Replica, Poll(p) PROVE NothingTakenBack /\ SpentInv'
  BY <1>4 DEF Poll
<1>5. ASSUME NEW p \in Replica, ClaimNothing(p) PROVE NothingTakenBack /\ SpentInv'
  BY <1>5 DEF ClaimNothing, Claim
<1>6. ASSUME NEW p \in Replica, NEW S \in SUBSET Row, ClaimBatch(p, S) PROVE NothingTakenBack /\ SpentInv'
  BY <1>6 DEF ClaimBatch, Claim
<1>7. ASSUME NEW p \in Replica, Advance(p) PROVE NothingTakenBack /\ SpentInv'
  BY <1>7, AdvanceEnters DEF Entered
<1>8. ASSUME NEW p \in Replica, Publish(p) PROVE NothingTakenBack /\ SpentInv'
  <2>1. \A r \in Row : copies[r] > 0 => copies'[r] > 0
    <3>1. cur[p] \in Row
      BY <1>8 DEF Publish, HandInv, Handling, Forwarding
    <3>2. QED
      BY <1>8, <3>1, InsertedOnBus DEF Publish
  <2>2. UNCHANGED tableVars
    BY <1>8 DEF Publish
  <2>3. QED
    BY <2>1, <2>2
<1>9. ASSUME NEW p \in Replica, PublishFails(p) PROVE NothingTakenBack /\ SpentInv'
  BY <1>9 DEF PublishFails
<1>10. ASSUME NEW p \in Replica, LookUp(p) PROVE NothingTakenBack /\ SpentInv'
  BY <1>10 DEF LookUp
<1>11. ASSUME NEW p \in Replica, SettleSent(p) PROVE NothingTakenBack /\ SpentInv'
  <2>1. cur[p] \in Row /\ copies[cur[p]] > 0
    BY <1>11 DEF SettleSent, HandInv, Handling, Forwarding, SentInv
  <2>2. QED
    BY <1>11, <2>1 DEF SettleSent, SettleLost, MarkSent
<1>12. ASSUME NEW p \in Replica, SentThrows(p) PROVE NothingTakenBack /\ SpentInv'
  <2>1. cur[p] \in Row /\ copies[cur[p]] > 0
    BY <1>12 DEF SentThrows, HandInv, Handling, Forwarding, SentInv
  <2>2. QED
    BY <1>12, <2>1 DEF SentThrows, MarkSent
<1>13. ASSUME NEW p \in Replica, SettleFailed(p) PROVE NothingTakenBack /\ SpentInv'
  <2>1. cur[p] \in Row
    BY <1>13 DEF SettleFailed, HandInv, Handling, Forwarding
  <2>2. UNCHANGED copies
    BY <1>13 DEF SettleFailed
  <2>3. CASE SettleLost(p)
    BY <2>2, <2>3 DEF SettleLost
  <2>4. CASE OwnedBy(p, cur[p]) /\ MarkFailed(cur[p])
    BY <2>1, <2>2, <2>4, MarkFailedTable DEF OwnedBy
  <2>5. QED
    BY <1>13, <2>3, <2>4 DEF SettleFailed
<1>14. ASSUME NEW p \in Replica, FailedThrows(p) PROVE NothingTakenBack /\ SpentInv'
  <2>1. cur[p] \in Row
    BY <1>14 DEF FailedThrows, HandInv, Handling, Forwarding
  <2>2. UNCHANGED copies
    BY <1>14 DEF FailedThrows
  <2>3. CASE UNCHANGED tableVars
    BY <2>2, <2>3
  <2>4. CASE OwnedBy(p, cur[p]) /\ MarkFailed(cur[p])
    BY <2>1, <2>2, <2>4, MarkFailedTable DEF OwnedBy
  <2>5. QED
    BY <1>14, <2>3, <2>4 DEF FailedThrows
<1>15. ASSUME NEW p \in Replica, Finish(p) PROVE NothingTakenBack /\ SpentInv'
  BY <1>15 DEF Finish, HandBack, Unclaim, Forget
<1>16. ASSUME NEW p \in Replica, Renewal(p) PROVE NothingTakenBack /\ SpentInv'
  BY <1>16 DEF Renewal, HandBack, Unclaim
<1>17. ASSUME NEW p \in Replica, Dispose(p) PROVE NothingTakenBack /\ SpentInv'
  BY <1>17 DEF Dispose
<1>18. ASSUME NEW p \in Replica, Crash(p) PROVE NothingTakenBack /\ SpentInv'
  BY <1>18 DEF Crash, Forget
<1>19. ASSUME NEW i \in 1..Len(bus), Consume(i) PROVE NothingTakenBack /\ SpentInv'
  BY <1>19 DEF Consume
<1>20. CASE UNCHANGED vars
  BY <1>20 DEF vars
<1>21. QED
  BY <1>1, <1>2, <1>3, <1>4, <1>5, <1>6, <1>7, <1>8, <1>9, <1>10, <1>11,
     <1>12, <1>13, <1>14, <1>15, <1>16, <1>17, <1>18, <1>19, <1>20
  DEF Next, Step

-----------------------------------------------------------------------------
(* What is in hand stays in the table: nothing deletes a row into absence, *)
(* and only a claim or an advance puts something in hand.                  *)
LEMMA HandStep == IInv /\ [Next]_vars => HandInv'
<1> USE DEF Goto, tableVars, forwarderVars, busVars
<1> SUFFICES ASSUME IInv, [Next]_vars PROVE HandInv'
  OBVIOUS
<1>a. TypeOK /\ HandInv /\ \A r \in Row : status[r] # "absent" => status'[r] # "absent"
  BY TableStep DEF IInv, NothingTakenBack
<1> USE <1>a DEF TypeOK, LoopState, HandInv, Handling, Forwarding, Waiting
<1>1. ASSUME NEW r \in Row, Commit(r) PROVE HandInv'
  BY <1>1 DEF Commit
<1>2. ASSUME NEW r \in Row, Sweep(r) PROVE HandInv'
  BY <1>2 DEF Sweep
<1>3. ASSUME NEW r \in Row, Cleanup(r) PROVE HandInv'
  BY <1>3 DEF Cleanup
<1>4. ASSUME NEW p \in Replica, Poll(p) PROVE HandInv'
  BY <1>4 DEF Poll
<1>5. ASSUME NEW p \in Replica, ClaimNothing(p) PROVE HandInv'
  BY <1>5 DEF ClaimNothing
<1>6. ASSUME NEW p \in Replica, NEW S \in SUBSET Row, ClaimBatch(p, S) PROVE HandInv'
  <2>1. \A r \in S : status'[r] # "absent"
    BY <1>6 DEF ClaimBatch, Claim, TableTypeOK
  <2>2. QED
    BY <1>6, <2>1 DEF ClaimBatch
<1>7. ASSUME NEW p \in Replica, Advance(p) PROVE HandInv'
  <2>1. ASSUME NEW r \in Row, r \in Waiting(p), Entered(p, r) PROVE HandInv'
    BY <2>1 DEF Entered
  <2>2. CASE /\ Goto(p, "finishing")
             /\ UNCHANGED <<queue, unstarted, cur, open, reported, tableVars, stopping,
                            busVars, faults>>
    BY <2>2
  <2>3. QED
    BY <1>7, <2>1, <2>2, AdvanceEnters
<1>8. ASSUME NEW p \in Replica, Publish(p) PROVE HandInv'
  BY <1>8 DEF Publish
<1>9. ASSUME NEW p \in Replica, PublishFails(p) PROVE HandInv'
  BY <1>9 DEF PublishFails
<1>10. ASSUME NEW p \in Replica, LookUp(p) PROVE HandInv'
  BY <1>10 DEF LookUp
<1>11. ASSUME NEW p \in Replica, SettleSent(p) PROVE HandInv'
  BY <1>11 DEF SettleSent, Settled
<1>12. ASSUME NEW p \in Replica, SentThrows(p) PROVE HandInv'
  BY <1>12 DEF SentThrows
<1>13. ASSUME NEW p \in Replica, SettleFailed(p) PROVE HandInv'
  BY <1>13 DEF SettleFailed, Settled
<1>14. ASSUME NEW p \in Replica, FailedThrows(p) PROVE HandInv'
  BY <1>14 DEF FailedThrows
<1>15. ASSUME NEW p \in Replica, Finish(p) PROVE HandInv'
  BY <1>15 DEF Finish, Forget
<1>16. ASSUME NEW p \in Replica, Renewal(p) PROVE HandInv'
  BY <1>16 DEF Renewal
<1>17. ASSUME NEW p \in Replica, Dispose(p) PROVE HandInv'
  BY <1>17 DEF Dispose
<1>18. ASSUME NEW p \in Replica, Crash(p) PROVE HandInv'
  BY <1>18 DEF Crash, Forget
<1>19. ASSUME NEW i \in 1..Len(bus), Consume(i) PROVE HandInv'
  BY <1>19 DEF Consume
<1>20. CASE UNCHANGED vars
  BY <1>20 DEF vars
<1>21. QED
  BY <1>1, <1>2, <1>3, <1>4, <1>5, <1>6, <1>7, <1>8, <1>9, <1>10, <1>11,
     <1>12, <1>13, <1>14, <1>15, <1>16, <1>17, <1>18, <1>19, <1>20
  DEF Next, Step

(* An event counts as sent only after its row was put on the bus.          *)
LEMMA SentStep == IInv /\ [Next]_vars => SentInv'
<1> USE DEF Goto, tableVars, forwarderVars, busVars
<1> SUFFICES ASSUME IInv, [Next]_vars PROVE SentInv'
  OBVIOUS
<1>a. /\ TypeOK /\ HandInv /\ SentInv
      /\ \A r \in Row : copies[r] > 0 => copies'[r] > 0
  BY TableStep DEF IInv, NothingTakenBack
<1> USE <1>a DEF TypeOK, LoopState, HandInv, Handling, Forwarding, SentInv, TableTypeOK, OnBus
<1>1. ASSUME NEW r \in Row, Commit(r) PROVE SentInv'
  BY <1>1 DEF Commit, Insert
<1>2. ASSUME NEW r \in Row, Sweep(r) PROVE SentInv'
  BY <1>2 DEF Sweep, Unclaim
<1>3. ASSUME NEW r \in Row, Cleanup(r) PROVE SentInv'
  BY <1>3 DEF Cleanup
<1>4. ASSUME NEW p \in Replica, Poll(p) PROVE SentInv'
  BY <1>4 DEF Poll
<1>5. ASSUME NEW p \in Replica, ClaimNothing(p) PROVE SentInv'
  BY <1>5 DEF ClaimNothing, Claim
<1>6. ASSUME NEW p \in Replica, NEW S \in SUBSET Row, ClaimBatch(p, S) PROVE SentInv'
  BY <1>6 DEF ClaimBatch, Claim
<1>7. ASSUME NEW p \in Replica, Advance(p) PROVE SentInv'
  <2>1. ASSUME NEW r \in Row, Entered(p, r) PROVE SentInv'
    BY <2>1 DEF Entered
  <2>2. CASE /\ Goto(p, "finishing")
             /\ UNCHANGED <<queue, unstarted, cur, open, reported, tableVars, stopping,
                            busVars, faults>>
    BY <2>2
  <2>3. QED
    BY <1>7, <2>1, <2>2, AdvanceEnters
<1>8. ASSUME NEW p \in Replica, Publish(p) PROVE SentInv'
  <2>1. cur[p] \in Row /\ InsertOnBus(cur[p])
    BY <1>8 DEF Publish
  <2>2. /\ copies'[cur[p]] > 0
        /\ \A x \in Row : x \in ToSet(bus') => x = cur[p] \/ x \in ToSet(bus)
    BY <2>1, InsertedOnBus DEF OnBus
  <2>3. QED
    BY <1>8, <2>2 DEF Publish
<1>9. ASSUME NEW p \in Replica, PublishFails(p) PROVE SentInv'
  BY <1>9 DEF PublishFails
<1>10. ASSUME NEW p \in Replica, LookUp(p) PROVE SentInv'
  BY <1>10 DEF LookUp
<1>11. ASSUME NEW p \in Replica, SettleSent(p) PROVE SentInv'
  BY <1>11 DEF SettleSent, SettleLost, Settled, MarkSent
<1>12. ASSUME NEW p \in Replica, SentThrows(p) PROVE SentInv'
  BY <1>12 DEF SentThrows, MarkSent
<1>13. ASSUME NEW p \in Replica, SettleFailed(p) PROVE SentInv'
  <2>1. cur[p] \in Row
    BY <1>13 DEF SettleFailed
  <2>2. \A x \in Row : status'[x] = "SENT" => status[x] = "SENT"
    BY <1>13, <2>1, MarkFailedTable DEF SettleFailed, SettleLost, IInv
  <2>3. QED
    BY <1>13, <2>2 DEF SettleFailed, Settled
<1>14. ASSUME NEW p \in Replica, FailedThrows(p) PROVE SentInv'
  <2>1. cur[p] \in Row
    BY <1>14 DEF FailedThrows
  <2>2. \A x \in Row : status'[x] = "SENT" => status[x] = "SENT"
    BY <1>14, <2>1, MarkFailedTable DEF FailedThrows, IInv
  <2>3. QED
    BY <1>14, <2>2 DEF FailedThrows
<1>15. ASSUME NEW p \in Replica, Finish(p) PROVE SentInv'
  BY <1>15 DEF Finish, HandBack, Unclaim, Forget
<1>16. ASSUME NEW p \in Replica, Renewal(p) PROVE SentInv'
  BY <1>16 DEF Renewal, HandBack, Unclaim
<1>17. ASSUME NEW p \in Replica, Dispose(p) PROVE SentInv'
  BY <1>17 DEF Dispose
<1>18. ASSUME NEW p \in Replica, Crash(p) PROVE SentInv'
  BY <1>18 DEF Crash, Forget
<1>19. ASSUME NEW i \in 1..Len(bus), Consume(i) PROVE SentInv'
  <2>1. ToSet(bus') \subseteq ToSet(bus)
    BY <1>19, RemoveKeepsRowsDistinct DEF Consume, IInv, OneRowAtATime
  <2>2. QED
    BY <1>19, <2>1 DEF Consume
<1>20. CASE UNCHANGED vars
  BY <1>20 DEF vars
<1>21. QED
  BY <1>1, <1>2, <1>3, <1>4, <1>5, <1>6, <1>7, <1>8, <1>9, <1>10, <1>11,
     <1>12, <1>13, <1>14, <1>15, <1>16, <1>17, <1>18, <1>19, <1>20
  DEF Next, Step

(* The dedup: a row is put on the bus only when it is not there.           *)
LEMMA DistinctStep == IInv /\ [Next]_vars => OneRowAtATime'
<1> USE DEF busVars, OneRowAtATime
<1> SUFFICES ASSUME IInv, [Next]_vars PROVE OneRowAtATime'
  OBVIOUS
<1>a. TypeOK /\ HandInv /\ OneRowAtATime
  BY DEF IInv
<1>1. ASSUME NEW p \in Replica, Publish(p) PROVE OneRowAtATime'
  <2>1. cur[p] \in Row /\ InsertOnBus(cur[p])
    BY <1>1, <1>a DEF Publish, HandInv, Handling, Forwarding
  <2>2. CASE OnBus(cur[p])
    BY <1>a, <2>1, <2>2 DEF InsertOnBus
  <2>3. CASE ~OnBus(cur[p])
    <3>1. bus' = Append(bus, cur[p]) /\ cur[p] \notin ToSet(bus)
      BY <2>1, <2>3 DEF InsertOnBus, OnBus
    <3>2. IsInjective(Append(bus, cur[p]))
      BY <1>a, <2>1, <3>1, AppendKeepsRowsDistinct DEF TypeOK
    <3>3. QED
      BY <3>1, <3>2
  <2>4. QED
    BY <2>2, <2>3
<1>2. ASSUME NEW i \in 1..Len(bus), Consume(i) PROVE OneRowAtATime'
  BY <1>2, <1>a, RemoveKeepsRowsDistinct DEF Consume, TypeOK
<1>3. CASE UNCHANGED bus
  BY <1>3, <1>a
<1>4. QED
  BY <1>1, <1>2, <1>3
  DEF Next, Step, Commit, Sweep, Cleanup, Poll, ClaimNothing, ClaimBatch, Advance,
      PublishFails, LookUp, SettleSent, SentThrows, SettleFailed, FailedThrows, Finish,
      Renewal, Dispose, Crash, vars

-----------------------------------------------------------------------------
(* The order. A step that leaves what a forwarder has in hand alone, or    *)
(* takes what waits out of its hands, keeps it in order.                   *)
InOrder(p) == HandInOrder(p) /\ QueueInOrder(p)

SameHand(p) == (Handling(p)' <=> Handling(p)) /\ cur'[p] = cur[p] /\ open'[p] = open[p]

LEMMA HandKept ==
  ASSUME IInv, NothingTakenBack, NEW p \in Replica, SameHand(p)
  PROVE  HandInOrder(p)'
<1> SUFFICES ASSUME Handling(p)' PROVE
      /\ AggOf[cur'[p]] \in Agg => AggOf[cur'[p]] \in open'[p]
      /\ \A o \in Row : SameAgg(cur'[p], o) /\ o < cur'[p] => Cleared(o)'
  BY DEF HandInOrder, SameAgg
<1>1. Handling(p) /\ cur[p] \in Row /\ status[cur[p]] # "absent" /\ HandInOrder(p)
  BY DEF SameHand, IInv, HandInv, OrderInv
<1>2. AggOf[cur'[p]] \in Agg => AggOf[cur'[p]] \in open'[p]
  BY <1>1 DEF SameHand, HandInOrder
<1>3. ASSUME NEW o \in Row, SameAgg(cur'[p], o), o < cur'[p] PROVE Cleared(o)'
  <2>1. SameAgg(cur[p], o) /\ o < cur[p]
    BY <1>3 DEF SameHand
  <2>2. Cleared(o)
    BY <1>1, <2>1 DEF HandInOrder
  <2>3. QED
    BY <1>1, <2>1, <2>2 DEF NothingTakenBack
<1>4. QED
  BY <1>2, <1>3

LEMMA QueueKept ==
  ASSUME IInv, NothingTakenBack, NEW p \in Replica, SameHand(p), Waiting(p)' = Waiting(p)
  PROVE  QueueInOrder(p)'
<1> SUFFICES ASSUME NEW r \in Waiting(p)', NEW o \in Row, SameAgg(r, o), o < r
             PROVE  \/ Cleared(o)'
                    \/ o \in Waiting(p)'
                    \/ Handling(p)' /\ o = cur'[p]
                    \/ AggOf[r] \in open'[p] /\ ~(Handling(p)' /\ SameAgg(r, cur'[p]))
  BY DEF QueueInOrder, SameAgg
<1>1. r \in Waiting(p) /\ r \in Row /\ status[r] # "absent" /\ QueueInOrder(p)
  BY DEF IInv, HandInv, OrderInv, TypeOK, Waiting
<1>2. \/ Cleared(o)
      \/ o \in Waiting(p)
      \/ Handling(p) /\ o = cur[p]
      \/ AggOf[r] \in open[p] /\ ~(Handling(p) /\ SameAgg(r, cur[p]))
  BY <1>1 DEF QueueInOrder
<1>3. Cleared(o) => Cleared(o)'
  BY <1>1 DEF NothingTakenBack
<1>4. QED
  BY <1>2, <1>3 DEF SameHand

LEMMA NothingWaits ==
  ASSUME NEW p \in Replica, unstarted'[p] = {}
  PROVE  QueueInOrder(p)'
BY DEF QueueInOrder, Waiting

(* The others keep theirs: a step of p concerns p alone.                   *)
Untouched(q) ==
  /\ loop'[q] = loop[q] /\ cur'[q] = cur[q] /\ open'[q] = open[q]
  /\ queue'[q] = queue[q] /\ unstarted'[q] = unstarted[q]

LEMMA OthersInOrder ==
  ASSUME IInv, NothingTakenBack, NEW q \in Replica, Untouched(q)
  PROVE  InOrder(q)'
<1>1. SameHand(q) /\ Waiting(q)' = Waiting(q)
  BY DEF Untouched, SameHand, Waiting, Handling
<1>2. QED
  BY <1>1, HandKept, QueueKept DEF InOrder

(* A batch is claimed: nothing earlier is left behind, in the table or by  *)
(* another forwarder.                                                      *)
LEMMA ClaimInOrder ==
  ASSUME IInv, NothingTakenBack, NEW p \in Replica, NEW S \in SUBSET Row, ClaimBatch(p, S)
  PROVE  InOrder(p)'
<1> USE ConstantsAssumption, PipelineAssumption
<1>1. ~Handling(p)' /\ Waiting(p)' = S
  BY DEF ClaimBatch, IInv, TypeOK, Handling, Forwarding, Waiting, Goto
<1>2. HandInOrder(p)'
  BY <1>1 DEF HandInOrder
<1>3. ASSUME NEW r \in S, NEW o \in Row, SameAgg(r, o), o < r
      PROVE  Cleared(o)' \/ o \in S
  <2>1. SUFFICES ASSUME o \notin S PROVE Cleared(o)
    <3>1. status[r] # "absent"
      BY DEF ClaimBatch, Claim
    <3>2. QED
      BY <1>3, <2>1, <3>1 DEF NothingTakenBack
  <2>2. ~Blocks(p, o, r)
    BY <2>1 DEF ClaimBatch, Claim
  <2>3. status[o] # "CLAIMED" /\ status[o] # "PENDING"
    BY <1>3, <2>2 DEF Blocks
  <2>4. status[o] \in Status
    BY DEF IInv, TypeOK, TableTypeOK
  <2>5. QED
    BY <2>3, <2>4 DEF IInv, SentInv, Cleared, Status
<1>4. QED
  BY <1>1, <1>2, <1>3 DEF InOrder, QueueInOrder, SameAgg

(* The loop goes on: the entry it takes is the first of its aggregate that *)
(* waits, and that aggregate was closed.                                   *)
LEMMA AdvanceInOrder ==
  ASSUME IInv, NothingTakenBack, NEW p \in Replica, NEW r \in Row, loop[p] = "choosing",
         r \in Waiting(p), AggOf[r] \notin open[p],
         \A x \in Acquirable(p) : r <= x, Entered(p, r)
  PROVE  InOrder(p)'
<1> USE ConstantsAssumption
<1>1. /\ open'[p] = (open[p] \cup {AggOf[r]}) \cap Agg
      /\ Waiting(p)' = {x \in Waiting(p) : x > r}
      /\ Handling(p)' => cur'[p] = r
      /\ ~Handling(p)
  <2>1. open'[p] = (open[p] \cup {AggOf[r]}) \cap Agg
    BY DEF Entered, IInv, TypeOK
  <2>2. /\ queue'[p] = {x \in queue[p] : x > r}
        /\ unstarted'[p] = unstarted[p] \ {r}
    BY DEF Entered, IInv, TypeOK
  <2>3. Waiting(p)' = {x \in Waiting(p) : x > r}
    <3>1. \A x \in queue[p] : x > r => x # r
      BY DEF IInv, TypeOK
    <3>2. QED
      BY <2>2, <3>1 DEF Waiting
  <2>4. ~Handling(p)
    BY DEF Handling, Forwarding
  <2>5. Handling(p)' => cur'[p] = r
    BY <2>4 DEF Entered, Handling, IInv, TypeOK
  <2>6. QED
    BY <2>1, <2>3, <2>4, <2>5
<1>2. QueueInOrder(p) /\ Waiting(p) \subseteq Row /\ open[p] \subseteq Agg
  BY DEF IInv, OrderInv, TypeOK, Waiting
<1>3. ASSUME NEW x \in Waiting(p), NEW o \in Row, SameAgg(x, o), o < x
      PROVE  Cleared(o)' \/ o \in Waiting(p) \/ AggOf[x] \in open[p]
  <2>1. status[x] # "absent" /\ x \in Row
    BY <1>2 DEF IInv, HandInv
  <2>2. Cleared(o) => Cleared(o)'
    BY <1>3, <2>1 DEF NothingTakenBack
  <2>3. QED
    BY <1>1, <1>2, <1>3, <2>2 DEF QueueInOrder
<1>4. ASSUME NEW o \in Waiting(p), o < r PROVE AggOf[o] \in open[p]
  BY <1>2, <1>4 DEF Acquirable, Waiting
<1>5. HandInOrder(p)'
  <2>1. SUFFICES ASSUME NEW o \in Row, SameAgg(r, o), o < r PROVE Cleared(o)'
    <3>1. AggOf[r] \in Agg => AggOf[r] \in open'[p]
      BY <1>1
    <3>2. QED
      BY <1>1, <2>1, <3>1 DEF HandInOrder, SameAgg
  <2>2. QED
    BY <1>3, <1>4, <2>1 DEF SameAgg
<1>6. ASSUME NEW x \in Waiting(p), x > r, NEW o \in Row, SameAgg(x, o), o < x
      PROVE  \/ Cleared(o)'
             \/ o \in Waiting(p) /\ o > r
             \/ Handling(p)' /\ o = cur'[p]
             \/ AggOf[x] \in open'[p] /\ ~(Handling(p)' /\ SameAgg(x, cur'[p]))
  <2>1. CASE Cleared(o)'
    BY <2>1
  <2>2. CASE AggOf[x] \in open[p]
    BY <1>1, <1>2, <2>2 DEF SameAgg
  <2>3. CASE o \in Waiting(p) /\ o = r
    <3>1. AggOf[x] \in Agg /\ AggOf[x] = AggOf[r]
      BY <1>6, <2>3 DEF SameAgg
    <3>2. QED
      BY <1>1, <2>3, <3>1, <1>6
  <2>4. CASE o \in Waiting(p) /\ o < r
    BY <1>2, <1>4, <1>6, <2>2, <2>4 DEF SameAgg
  <2>5. CASE o \in Waiting(p) /\ o > r
    BY <2>5
  <2>6. QED
    BY <1>2, <1>3, <1>6, <2>1, <2>2, <2>3, <2>4, <2>5
<1>7. QueueInOrder(p)'
  BY <1>1, <1>6 DEF QueueInOrder, SameAgg
<1>8. QED
  BY <1>5, <1>7 DEF InOrder

(* The entry leaves the forwarder's hand: its aggregate is closed only when *)
(* it no longer holds up the later ones.                                   *)
LEMMA LetGoInOrder ==
  ASSUME IInv, NothingTakenBack, NEW p \in Replica, Handling(p), ~Handling(p)',
         Waiting(p)' = Waiting(p), NEW c \in Row, c = cur[p],
         \/ open'[p] = open[p]
         \/ open'[p] = open[p] \ {AggOf[c]} /\ Cleared(c)'
  PROVE  InOrder(p)'
<1> USE ConstantsAssumption
<1>1. HandInOrder(p)'
  BY DEF HandInOrder
<1>2. /\ HandInOrder(p) /\ QueueInOrder(p)
      /\ Waiting(p) \subseteq Row /\ cur[p] \in Row
  BY DEF IInv, OrderInv, TypeOK, Waiting, HandInv
<1>3. ASSUME NEW r \in Waiting(p), NEW o \in Row, SameAgg(r, o), o < r
      PROVE  Cleared(o)' \/ o \in Waiting(p) \/ AggOf[r] \in open'[p]
  <2>1. status[r] # "absent" /\ r \in Row /\ AggOf[r] \in Agg
    BY <1>2, <1>3 DEF IInv, HandInv, SameAgg
  <2>2. Cleared(o) => Cleared(o)'
    BY <1>3, <2>1 DEF NothingTakenBack
  <2>3. CASE o = c
    <3>1. AggOf[c] = AggOf[r] /\ AggOf[c] \in open[p]
      BY <1>2, <1>3, <2>1, <2>3 DEF SameAgg, HandInOrder
    <3>2. QED
      BY <2>3, <3>1
  <2>4. CASE o \in Waiting(p)
    BY <2>4
  <2>5. CASE AggOf[r] \in open[p] /\ ~SameAgg(r, c)
    BY <1>2, <2>1, <2>5 DEF SameAgg
  <2>6. QED
    BY <1>2, <1>3, <2>2, <2>3, <2>4, <2>5 DEF QueueInOrder
<1>4. QED
  BY <1>1, <1>3 DEF InOrder, QueueInOrder, SameAgg

(* The events of an aggregate are forwarded in order: no step of any       *)
(* forwarder, of a writer or of a consumer breaks it.                      *)
LEMMA OrderStep == IInv /\ [Next]_vars => OrderInv'
<1> SUFFICES ASSUME IInv, [Next]_vars PROVE \A q \in Replica : InOrder(q)'
  BY DEF OrderInv, InOrder
<1>a. NothingTakenBack
  BY TableStep
<1>b. /\ loop \in [Replica -> LoopState] /\ queue \in [Replica -> SUBSET Row]
      /\ unstarted \in [Replica -> SUBSET Row] /\ open \in [Replica -> SUBSET Agg]
      /\ cur \in [Replica -> Row \cup {NoRow}]
  BY DEF IInv, TypeOK
<1> USE DEF Goto, forwarderVars
<1>1. ASSUME NEW r \in Row, Commit(r) PROVE \A q \in Replica : InOrder(q)'
  <2>1. \A q \in Replica : SameHand(q) /\ Waiting(q)' = Waiting(q)
    BY <1>1, <1>b DEF Commit, SameHand, Handling, Forwarding, Waiting
  <2>2. QED
    BY <1>a, <2>1, HandKept, QueueKept DEF InOrder
<1>2. ASSUME NEW r \in Row, Sweep(r) PROVE \A q \in Replica : InOrder(q)'
  <2>1. \A q \in Replica : SameHand(q) /\ Waiting(q)' = Waiting(q)
    BY <1>2, <1>b DEF Sweep, SameHand, Handling, Forwarding, Waiting
  <2>2. QED
    BY <1>a, <2>1, HandKept, QueueKept DEF InOrder
<1>3. ASSUME NEW r \in Row, Cleanup(r) PROVE \A q \in Replica : InOrder(q)'
  <2>1. \A q \in Replica : SameHand(q) /\ Waiting(q)' = Waiting(q)
    BY <1>3, <1>b DEF Cleanup, SameHand, Handling, Forwarding, Waiting
  <2>2. QED
    BY <1>a, <2>1, HandKept, QueueKept DEF InOrder
<1>4. ASSUME NEW p \in Replica, Poll(p) PROVE \A q \in Replica : InOrder(q)'
  <2>1. \A q \in Replica : SameHand(q) /\ Waiting(q)' = Waiting(q)
    BY <1>4, <1>b DEF Poll, SameHand, Handling, Forwarding, Waiting
  <2>2. QED
    BY <1>a, <2>1, HandKept, QueueKept DEF InOrder
<1>5. ASSUME NEW p \in Replica, ClaimNothing(p) PROVE \A q \in Replica : InOrder(q)'
  <2>1. \A q \in Replica : SameHand(q) /\ Waiting(q)' = Waiting(q)
    BY <1>5, <1>b DEF ClaimNothing, SameHand, Handling, Forwarding, Waiting
  <2>2. QED
    BY <1>a, <2>1, HandKept, QueueKept DEF InOrder
<1>6. ASSUME NEW p \in Replica, NEW S \in SUBSET Row, ClaimBatch(p, S) PROVE \A q \in Replica : InOrder(q)'
  <2>1. ASSUME NEW q \in Replica, q # p PROVE InOrder(q)'
    <3>1. Untouched(q)
      BY <1>6, <1>b, <2>1 DEF ClaimBatch, Untouched
    <3>2. QED
      BY <1>a, <2>1, <3>1, OthersInOrder
  <2>2. InOrder(p)'
    BY <1>6, <1>a, ClaimInOrder
  <2>3. QED
    BY <2>1, <2>2
<1>7. ASSUME NEW p \in Replica, Advance(p) PROVE \A q \in Replica : InOrder(q)'
  <2>1. ASSUME NEW r \in Row, r \in Waiting(p), AggOf[r] \notin open[p],
               \A x \in Acquirable(p) : r <= x, Entered(p, r)
        PROVE  \A q \in Replica : InOrder(q)'
    <3>1. ASSUME NEW q \in Replica, q # p PROVE InOrder(q)'
      <4>1. loop'[q] = loop[q] /\ cur'[q] = cur[q]
        <5>1. \/ loop' = [loop EXCEPT ![p] = "publishing"] /\ cur' = [cur EXCEPT ![p] = r]
              \/ loop' = loop /\ cur' = cur
          BY <2>1, Zenon DEF Entered
        <5>2. QED
          BY <1>b, <3>1, <5>1
      <4>2. Untouched(q)
        BY <2>1, <1>b, <3>1, <4>1 DEF Entered, Untouched
      <4>3. QED
        BY <1>a, <3>1, <4>2, OthersInOrder
    <3>2. loop[p] = "choosing"
      BY <1>7 DEF Advance
    <3>3. InOrder(p)'
      BY <1>a, <2>1, <3>2, AdvanceInOrder
    <3>4. QED
      BY <3>1, <3>3
  <2>2. CASE /\ Goto(p, "finishing")
             /\ UNCHANGED <<queue, unstarted, cur, open, reported, tableVars, stopping,
                            busVars, faults>>
    <3>1. \A q \in Replica : SameHand(q) /\ Waiting(q)' = Waiting(q)
      BY <1>7, <1>b, <2>2 DEF Advance, SameHand, Handling, Forwarding, Waiting
    <3>2. QED
      BY <1>a, <3>1, HandKept, QueueKept DEF InOrder
  <2>3. QED
    <3>1. TypeOK
      BY DEF IInv
    <3>2. QED
      BY <1>7, <2>1, <2>2, <3>1, AdvanceEnters
<1>8. ASSUME NEW p \in Replica, Publish(p) PROVE \A q \in Replica : InOrder(q)'
  <2>1. \A q \in Replica : SameHand(q) /\ Waiting(q)' = Waiting(q)
    BY <1>8, <1>b DEF Publish, SameHand, Handling, Forwarding, Waiting
  <2>2. QED
    BY <1>a, <2>1, HandKept, QueueKept DEF InOrder
<1>9. ASSUME NEW p \in Replica, PublishFails(p) PROVE \A q \in Replica : InOrder(q)'
  <2>1. \A q \in Replica : SameHand(q) /\ Waiting(q)' = Waiting(q)
    BY <1>9, <1>b DEF PublishFails, SameHand, Handling, Forwarding, Waiting
  <2>2. QED
    BY <1>a, <2>1, HandKept, QueueKept DEF InOrder
<1>10. ASSUME NEW p \in Replica, LookUp(p) PROVE \A q \in Replica : InOrder(q)'
  <2>1. \A q \in Replica : SameHand(q) /\ Waiting(q)' = Waiting(q)
    BY <1>10, <1>b DEF LookUp, SameHand, Handling, Forwarding, Waiting
  <2>2. QED
    BY <1>a, <2>1, HandKept, QueueKept DEF InOrder
<1>11. ASSUME NEW p \in Replica, SettleSent(p) PROVE \A q \in Replica : InOrder(q)'
  <2>1. ASSUME NEW q \in Replica, q # p PROVE InOrder(q)'
    <3>1. Untouched(q)
      BY <1>11, <1>b, <2>1 DEF SettleSent, SettleLost, Settled, Untouched
    <3>2. QED
      BY <1>a, <2>1, <3>1, OthersInOrder
  <2>2. InOrder(p)'
    <3>1. Handling(p) /\ ~Handling(p)' /\ Waiting(p)' = Waiting(p)
      BY <1>11, <1>b DEF SettleSent, Settled, Handling, Forwarding, Waiting
    <3>2. PICK c \in Row : c = cur[p] /\ copies[c] > 0
      BY <1>11, <3>1 DEF IInv, HandInv, SentInv, SettleSent
    <3>3. /\ Cleared(c)'
          /\ open'[p] = open[p] \/ open'[p] = open[p] \ {AggOf[c]}
      BY <1>11, <1>a, <1>b, <3>2 DEF SettleSent, SettleLost, NothingTakenBack, Cleared
    <3>4. QED
      BY <1>a, <3>1, <3>2, <3>3, LetGoInOrder
  <2>3. QED
    BY <2>1, <2>2
<1>12. ASSUME NEW p \in Replica, SentThrows(p) PROVE \A q \in Replica : InOrder(q)'
  <2>1. \A q \in Replica : SameHand(q) /\ Waiting(q)' = Waiting(q)
    BY <1>12, <1>b DEF SentThrows, SameHand, Handling, Forwarding, Waiting
  <2>2. QED
    BY <1>a, <2>1, HandKept, QueueKept DEF InOrder
<1>13. ASSUME NEW p \in Replica, SettleFailed(p) PROVE \A q \in Replica : InOrder(q)'
  <2>1. ASSUME NEW q \in Replica, q # p PROVE InOrder(q)'
    <3>1. Untouched(q)
      BY <1>13, <1>b, <2>1 DEF SettleFailed, SettleLost, Settled, Untouched
    <3>2. QED
      BY <1>a, <2>1, <3>1, OthersInOrder
  <2>2. InOrder(p)'
    <3>1. /\ Handling(p) /\ ~Handling(p)' /\ Waiting(p)' = Waiting(p)
          /\ open'[p] = open[p]
      BY <1>13, <1>b DEF SettleFailed, SettleLost, Settled, Handling, Forwarding, Waiting
    <3>2. PICK c \in Row : c = cur[p]
      BY <3>1 DEF IInv, HandInv
    <3>3. QED
      BY <1>a, <3>1, <3>2, LetGoInOrder
  <2>3. QED
    BY <2>1, <2>2
<1>14. ASSUME NEW p \in Replica, FailedThrows(p) PROVE \A q \in Replica : InOrder(q)'
  <2>1. ASSUME NEW q \in Replica, q # p PROVE InOrder(q)'
    <3>1. Untouched(q)
      BY <1>14, <1>b, <2>1 DEF FailedThrows, Untouched
    <3>2. QED
      BY <1>a, <2>1, <3>1, OthersInOrder
  <2>2. InOrder(p)'
    <3>1. /\ Handling(p) /\ ~Handling(p)' /\ Waiting(p)' = Waiting(p)
          /\ open'[p] = open[p]
      BY <1>14, <1>b DEF FailedThrows, Handling, Forwarding, Waiting
    <3>2. PICK c \in Row : c = cur[p]
      BY <3>1 DEF IInv, HandInv
    <3>3. QED
      BY <1>a, <3>1, <3>2, LetGoInOrder
  <2>3. QED
    BY <2>1, <2>2
<1>15. ASSUME NEW p \in Replica, Finish(p) PROVE \A q \in Replica : InOrder(q)'
  <2>1. ASSUME NEW q \in Replica, q # p PROVE InOrder(q)'
    <3>1. Untouched(q)
      BY <1>15, <1>b, <2>1 DEF Finish, Forget, Untouched
    <3>2. QED
      BY <1>a, <2>1, <3>1, OthersInOrder
  <2>2. InOrder(p)'
    <3>1. unstarted'[p] = {} /\ ~Handling(p)'
      BY <1>15, <1>b DEF Finish, Forget, Handling, Forwarding
    <3>2. QED
      BY <3>1, NothingWaits DEF InOrder, HandInOrder
  <2>3. QED
    BY <2>1, <2>2
<1>16. ASSUME NEW p \in Replica, Renewal(p) PROVE \A q \in Replica : InOrder(q)'
  <2>1. ASSUME NEW q \in Replica, q # p PROVE InOrder(q)'
    <3>1. Untouched(q)
      BY <1>16, <1>b, <2>1 DEF Renewal, Untouched
    <3>2. QED
      BY <1>a, <2>1, <3>1, OthersInOrder
  <2>2. InOrder(p)'
    <3>1. unstarted'[p] = {} /\ SameHand(p)
      BY <1>16, <1>b DEF Renewal, SameHand, Handling
    <3>2. QED
      BY <1>a, <3>1, NothingWaits, HandKept DEF InOrder
  <2>3. QED
    BY <2>1, <2>2
<1>17. ASSUME NEW p \in Replica, Dispose(p) PROVE \A q \in Replica : InOrder(q)'
  <2>1. \A q \in Replica : SameHand(q) /\ Waiting(q)' = Waiting(q)
    BY <1>17, <1>b DEF Dispose, SameHand, Handling, Forwarding, Waiting
  <2>2. QED
    BY <1>a, <2>1, HandKept, QueueKept DEF InOrder
<1>18. ASSUME NEW p \in Replica, Crash(p) PROVE \A q \in Replica : InOrder(q)'
  <2>1. ASSUME NEW q \in Replica, q # p PROVE InOrder(q)'
    <3>1. Untouched(q)
      BY <1>18, <1>b, <2>1 DEF Crash, Forget, Untouched
    <3>2. QED
      BY <1>a, <2>1, <3>1, OthersInOrder
  <2>2. InOrder(p)'
    <3>1. unstarted'[p] = {} /\ ~Handling(p)'
      BY <1>18, <1>b DEF Crash, Forget, Handling, Forwarding
    <3>2. QED
      BY <3>1, NothingWaits DEF InOrder, HandInOrder
  <2>3. QED
    BY <2>1, <2>2
<1>19. ASSUME NEW i \in 1..Len(bus), Consume(i) PROVE \A q \in Replica : InOrder(q)'
  <2>1. \A q \in Replica : SameHand(q) /\ Waiting(q)' = Waiting(q)
    BY <1>19, <1>b DEF Consume, SameHand, Handling, Forwarding, Waiting
  <2>2. QED
    BY <1>a, <2>1, HandKept, QueueKept DEF InOrder
<1>20. CASE UNCHANGED vars
  <2>1. \A q \in Replica : SameHand(q) /\ Waiting(q)' = Waiting(q)
    BY <1>20, <1>b DEF vars, SameHand, Handling, Forwarding, Waiting
  <2>2. QED
    BY <1>a, <2>1, HandKept, QueueKept DEF InOrder
<1>21. QED
  BY <1>1, <1>2, <1>3, <1>4, <1>5, <1>6, <1>7, <1>8, <1>9, <1>10, <1>11,
     <1>12, <1>13, <1>14, <1>15, <1>16, <1>17, <1>18, <1>19, <1>20
  DEF Next, Step

-----------------------------------------------------------------------------
LEMMA IInvInit == Init => IInv
<1> SUFFICES ASSUME Init PROVE IInv
  OBVIOUS
<1> USE ConstantsAssumption, PipelineAssumption DEF Init, TableInit
<1>1. TypeOK
  BY DEF TypeOK, TableTypeOK, Status, LoopState
<1>2. SpentInv /\ HandInv
  BY DEF SpentInv, HandInv, Handling, Forwarding, Waiting
<1>3. SentInv /\ OneRowAtATime
  BY DEF SentInv, OnBus, ToSet, OneRowAtATime, IsInjective
<1>4. OrderInv
  BY DEF OrderInv, HandInOrder, QueueInOrder, Handling, Forwarding, Waiting
<1>5. QED
  BY <1>1, <1>2, <1>3, <1>4 DEF IInv

LEMMA IInvStep == IInv /\ [Next]_vars => IInv'
BY TypeStep, TableStep, HandStep, SentStep, DistinctStep, OrderStep DEF IInv

(* The inductive invariant: what a forwarder has in hand is in the table   *)
(* and in order, and what is found sent has been on the bus.               *)
THEOREM Invariance == Spec => []IInv
BY IInvInit, IInvStep, PTL DEF Spec

(* Every variable keeps its type: a retry count stays within the limit and *)
(* only rows of the outbox get onto the bus.                               *)
THEOREM TypeCorrect == Spec => []TypeOK
BY Invariance, PTL DEF IInv

(* At least once: what is marked as sent has been on the bus, whichever    *)
(* replica marked it, and although an INSERT may fail, be answered by an   *)
(* error or lose a race against a consumer.                                *)
THEOREM SentIsPublished == Spec => []SentWasPublished
<1>1. IInv => SentWasPublished
  BY DEF IInv, SentInv, SentWasPublished
<1>2. QED
  BY <1>1, Invariance, PTL

(* Dedup: at any time the bus holds at most one row of an event, however   *)
(* often it is forwarded.                                                  *)
THEOREM NoTwoRows == Spec => []OneRowAtATime
BY Invariance, PTL DEF IInv

(* Per-aggregate order: an event gets onto the bus only when every earlier *)
(* committed event of its aggregate has been there or is a dead letter.    *)
InOrderStep ==
  \A r, o \in Row :
    copies[r] = 0 /\ copies'[r] > 0 /\ SameAgg(r, o) /\ o < r
      => copies[o] > 0 \/ status[o] \in {"absent", "FAILED", "gone"}

LEMMA PublishInOrder == IInv /\ [Next]_vars => InOrderStep
<1> SUFFICES ASSUME IInv, [Next]_vars, NEW r \in Row, NEW o \in Row, copies[r] = 0,
                    copies'[r] > 0, SameAgg(r, o), o < r
             PROVE  Cleared(o)
  BY DEF InOrderStep, Cleared
<1>1. PICK p \in Replica : Publish(p)
  <2>1. copies' # copies
    OBVIOUS
  <2>2. (Next /\ copies' = copies) \/ \E p \in Replica : Publish(p)
    BY <2>1
    DEF Next, Step, Commit, Sweep, Cleanup, Poll, ClaimNothing, ClaimBatch, Advance,
        PublishFails, LookUp, SettleSent, SentThrows, SettleFailed, FailedThrows, Finish,
        Renewal, Dispose, Crash, Consume, vars, busVars
  <2>3. QED
    BY <2>1, <2>2
<1>2. Handling(p) /\ cur[p] \in Row /\ InsertOnBus(cur[p])
  BY <1>1 DEF Publish, IInv, HandInv, Handling, Forwarding
<1>3. r = cur[p]
  BY <1>2, InsertedOnBus DEF IInv
<1>4. QED
  BY <1>2, <1>3 DEF IInv, OrderInv, HandInOrder

THEOREM BusOrder == Spec => BusInOrder
<1>1. IInv /\ [Next]_vars => [InOrderStep]_vars
  BY PublishInOrder
<1>2. QED
  BY <1>1, Invariance, PTL DEF Spec, BusInOrder, InOrderStep
=============================================================================
