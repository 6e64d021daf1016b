--------------------------- MODULE JobLeaseProofs ---------------------------
(***************************************************************************)
(* Proofs about JobLease: OneHolder and OneRunPerInterval for any number   *)
(* of instances and any lease and cooldown.                                *)
(*                                                                         *)
(* The argument: a live run's renewal timer is always set, and fires       *)
(* strictly before confirmedAt + LeaseMs; that moment is at or before the  *)
(* expiry of the row's lease, because the store stamps an expiry no        *)
(* earlier than the call was sent; so no other acquire can succeed while   *)
(* the run is live.                                                        *)
(***************************************************************************)
EXTENDS JobLease, TLAPS

(* Only that the interval is a number matters here.                        *)
LEMMA IntervalType == RenewIntervalMs \in Nat
  BY JobLeaseAssumption DEF RenewIntervalMs

LEMMA InitInv == Init => IInv
<1> SUFFICES ASSUME Init PROVE IInv
  OBVIOUS
<1>1. TypeOK
  BY DEF Init, TypeOK, StoreTypeOK, RunTypeOK, LeaseTypeOK, Pc
<1>2. RowInv /\ TokenInv
  BY JobLeaseAssumption DEF Init, RowInv, TokenInv
<1>3. AcquiredInv
  BY DEF Init, AcquiredInv, GrantOK, SkipOK
<1>4. LiveInv
  BY DEF Init, LiveInv, TimerOK, LiveOK, Live
<1>5. QED
  BY <1>1, <1>2, <1>3, <1>4 DEF IInv

-----------------------------------------------------------------------------
(* Types.                                                                  *)

LEMMA StoreTypeStep == TypeOK /\ [Next]_vars => StoreTypeOK'
<1> SUFFICES ASSUME TypeOK, [Next]_vars PROVE StoreTypeOK'
  OBVIOUS
<1> USE JobLeaseAssumption DEF StoreTypeOK, storeVars
<1>0. StoreTypeOK /\ stamp \in [Instance -> Nat]
  BY DEF TypeOK, RunTypeOK
<1>1. ASSUME NEW p \in Instance, TickJob(p) \/ Stop(p) \/ Register(p) PROVE StoreTypeOK'
  BY <1>0, <1>1 DEF TickJob, Stop, Register
<1>2. ASSUME NEW p \in Instance, Crash(p) \/ Refused(p) PROVE StoreTypeOK'
  BY <1>0, <1>2 DEF Crash, Refused
<1>3. ASSUME NEW p \in Instance, Acquire(p) \/ AcquireThrows(p) PROVE StoreTypeOK'
  BY <1>0, <1>3 DEF Acquire, AcquireThrows, Granted
<1>4. ASSUME NEW p \in Instance, Begin(p) PROVE StoreTypeOK'
  BY <1>0, <1>4 DEF Begin
<1>5. ASSUME NEW p \in Instance, RenewTick(p) \/ Renew(p) \/ RenewThrows(p) PROVE StoreTypeOK'
  BY <1>0, <1>5 DEF RenewTick, Renew, RenewThrows
<1>6. ASSUME NEW p \in Instance, RenewAnswered(p) \/ Return(p) PROVE StoreTypeOK'
  BY <1>0, <1>6 DEF RenewAnswered, Return
<1>7. ASSUME NEW p \in Instance, Release(p) PROVE StoreTypeOK'
  BY <1>0, <1>7 DEF Release
<1>8. CASE Tick
  BY <1>0, <1>8 DEF Tick
<1>9. CASE UNCHANGED vars
  BY <1>0, <1>9 DEF vars
<1>10. QED
  BY <1>1, <1>2, <1>3, <1>4, <1>5, <1>6, <1>7, <1>8, <1>9 DEF Next

LEMMA RunTypeStep == TypeOK /\ [Next]_vars => RunTypeOK'
<1> SUFFICES ASSUME TypeOK, [Next]_vars PROVE RunTypeOK'
  OBVIOUS
<1> USE DEF RunTypeOK, Pc, leaseVars, runnerVars, Goto
<1>0. RunTypeOK /\ StoreTypeOK
  BY DEF TypeOK
<1>1. ASSUME NEW p \in Instance, TickJob(p) \/ Stop(p) \/ Register(p) PROVE RunTypeOK'
  BY <1>0, <1>1 DEF TickJob, Stop, Register, StoreTypeOK
<1>2. ASSUME NEW p \in Instance, NEW l \in {"idle", "dead"}, Forget(p, l), UNCHANGED stopped
      PROVE  RunTypeOK'
  BY <1>0, <1>2 DEF Forget
<1>3. ASSUME NEW p \in Instance, Crash(p) \/ Refused(p) PROVE RunTypeOK'
  BY <1>2, <1>3 DEF Crash, Refused
<1>4. ASSUME NEW p \in Instance, Acquire(p) PROVE RunTypeOK'
  BY <1>0, <1>4 DEF Acquire, Granted, StoreTypeOK
<1>5. ASSUME NEW p \in Instance, AcquireThrows(p) \/ Release(p) PROVE RunTypeOK'
  BY <1>2, <1>5 DEF AcquireThrows, Release
<1>6. ASSUME NEW p \in Instance, Begin(p) PROVE RunTypeOK'
  BY <1>0, <1>6 DEF Begin
<1>7. ASSUME NEW p \in Instance, RenewTick(p) \/ Renew(p) \/ RenewThrows(p) PROVE RunTypeOK'
  BY <1>0, <1>7 DEF RenewTick, Renew, RenewThrows
<1>8. ASSUME NEW p \in Instance, RenewAnswered(p) \/ Return(p) PROVE RunTypeOK'
  BY <1>0, <1>8 DEF RenewAnswered, Return
<1>9. CASE Tick \/ UNCHANGED vars
  BY <1>0, <1>9 DEF Tick, vars
<1>10. QED
  BY <1>1, <1>3, <1>4, <1>5, <1>6, <1>7, <1>8, <1>9 DEF Next

(* The timer, set or stopped.                                              *)
LEMMA TimerType ==
  ASSUME LeaseTypeOK, now \in Nat, NEW p \in Instance, StartTimer(p) \/ StopTimer(p)
  PROVE  timerOn' \in [Instance -> BOOLEAN] /\ timer' \in [Instance -> Nat]
<1>1. timerOn \in [Instance -> BOOLEAN] /\ timer \in [Instance -> Nat] /\ RenewIntervalMs \in Nat
  BY IntervalType DEF LeaseTypeOK
<1>2. CASE StartTimer(p)
  BY <1>1, <1>2 DEF StartTimer
<1>3. CASE StopTimer(p)
  BY <1>1, <1>3 DEF StopTimer
<1>4. QED
  BY <1>2, <1>3

LEMMA LeaseTypeStep == TypeOK /\ [Next]_vars => LeaseTypeOK'
<1> SUFFICES ASSUME TypeOK, [Next]_vars PROVE LeaseTypeOK'
  OBVIOUS
<1> USE DEF LeaseTypeOK, leaseVars
<1>0. LeaseTypeOK /\ now \in Nat /\ sentAt \in [Instance -> Nat] /\ RenewIntervalMs \in Nat
  BY IntervalType DEF TypeOK, StoreTypeOK, RunTypeOK
<1>1. ASSUME NEW p \in Instance, TickJob(p) \/ Stop(p) \/ Register(p) PROVE LeaseTypeOK'
  BY <1>0, <1>1 DEF TickJob, Stop, Register
<1>2. ASSUME NEW p \in Instance, NEW l \in {"idle", "dead"}, Forget(p, l) PROVE LeaseTypeOK'
  BY <1>0, <1>2 DEF Forget, StopTimer
<1>3. ASSUME NEW p \in Instance,
             Crash(p) \/ Refused(p) \/ AcquireThrows(p) \/ Release(p)
      PROVE  LeaseTypeOK'
  BY <1>2, <1>3 DEF Crash, Refused, AcquireThrows, Release
<1>4. ASSUME NEW p \in Instance, Acquire(p) PROVE LeaseTypeOK'
  BY <1>0, <1>4 DEF Acquire
<1>5. ASSUME NEW p \in Instance, Begin(p) PROVE LeaseTypeOK'
  <2>1. StartTimer(p) \/ StopTimer(p)
    BY <1>5 DEF Begin
  <2>2. timerOn' \in [Instance -> BOOLEAN] /\ timer' \in [Instance -> Nat]
    BY <1>0, <2>1, TimerType
  <2>3. lost' \in [Instance -> BOOLEAN]
    BY <1>0, <1>5 DEF Begin, Expiring
  <2>4. confirmedAt' \in [Instance -> Nat]
    BY <1>0, <1>5 DEF Begin
  <2>5. renewal' \in [Instance -> {"none", "sent", "yes", "no"}]
        /\ renewSentAt' \in [Instance -> Nat]
    BY <1>0, <1>5 DEF Begin
  <2>6. QED
    BY <2>2, <2>3, <2>4, <2>5
<1>6. ASSUME NEW p \in Instance, RenewTick(p) PROVE LeaseTypeOK'
  <2>1. StartTimer(p) \/ StopTimer(p)
    BY <1>6 DEF RenewTick
  <2>2. timerOn' \in [Instance -> BOOLEAN] /\ timer' \in [Instance -> Nat]
    BY <1>0, <2>1, TimerType
  <2>3. lost' \in [Instance -> BOOLEAN] /\ confirmedAt' \in [Instance -> Nat]
    BY <1>0, <1>6 DEF RenewTick
  <2>4. renewal' \in [Instance -> {"none", "sent", "yes", "no"}]
    BY <1>0, <1>6 DEF RenewTick
  <2>5. renewSentAt' \in [Instance -> Nat]
    BY <1>0, <1>6 DEF RenewTick
  <2>6. QED
    BY <2>2, <2>3, <2>4, <2>5
<1>7. ASSUME NEW p \in Instance, Renew(p) \/ RenewThrows(p) PROVE LeaseTypeOK'
  BY <1>0, <1>7 DEF Renew, RenewThrows
<1>8. ASSUME NEW p \in Instance, RenewAnswered(p) PROVE LeaseTypeOK'
  <2>1. timerOn' \in [Instance -> BOOLEAN] /\ timer' \in [Instance -> Nat]
    <3>1. StopTimer(p) \/ UNCHANGED <<timerOn, timer>>
      BY <1>8 DEF RenewAnswered
    <3>2. QED
      BY <1>0, <3>1, TimerType
  <2>2. confirmedAt' \in [Instance -> Nat]
    BY <1>0, <1>8 DEF RenewAnswered
  <2>3. lost' \in [Instance -> BOOLEAN]
    BY <1>0, <1>8 DEF RenewAnswered
  <2>4. renewal' \in [Instance -> {"none", "sent", "yes", "no"}]
        /\ renewSentAt' \in [Instance -> Nat]
    BY <1>0, <1>8 DEF RenewAnswered
  <2>5. QED
    BY <2>1, <2>2, <2>3, <2>4
<1>9. ASSUME NEW p \in Instance, Return(p) PROVE LeaseTypeOK'
  BY <1>0, <1>9 DEF Return, StopTimer
<1>10. CASE Tick \/ UNCHANGED vars
  BY <1>0, <1>10 DEF Tick, vars
<1>11. QED
  BY <1>1, <1>3, <1>4, <1>5, <1>6, <1>7, <1>8, <1>9, <1>10 DEF Next

LEMMA TypeStep == TypeOK /\ [Next]_vars => TypeOK'
  BY StoreTypeStep, RunTypeStep, LeaseTypeStep DEF TypeOK

-----------------------------------------------------------------------------
(* The lease row.                                                          *)

LEMMA RowStep == IInv /\ [Next]_vars => RowInv'
<1> SUFFICES ASSUME IInv, [Next]_vars PROVE RowInv'
  OBVIOUS
<1> USE JobLeaseAssumption DEF RowInv, storeVars, leaseVars
<1>0. /\ RowInv /\ StoreTypeOK
      /\ mine \in [Instance -> Nat] /\ sentAt \in [Instance -> Nat] /\ stamp \in [Instance -> Nat]
      /\ RenewIntervalMs \in Nat
  BY IntervalType DEF IInv, TypeOK, RunTypeOK
<1> USE DEF StoreTypeOK
<1>1. ASSUME NEW p \in Instance, TickJob(p) \/ Stop(p) \/ Register(p) PROVE RowInv'
  BY <1>0, <1>1 DEF TickJob, Stop, Register
<1>2. ASSUME NEW p \in Instance, Crash(p) \/ Refused(p) PROVE RowInv'
  BY <1>0, <1>2 DEF Crash, Refused, Forget
<1>3. ASSUME NEW p \in Instance, Acquire(p) PROVE RowInv'
  BY <1>0, <1>3 DEF Acquire, Granted, Available
<1>4. ASSUME NEW p \in Instance, AcquireThrows(p) PROVE RowInv'
  BY <1>0, <1>4 DEF AcquireThrows, Granted, Available, Forget
<1>5. ASSUME NEW p \in Instance, Begin(p) PROVE RowInv'
  <2>1. ~Expiring(sentAt[p]) => stamp[p] + CooldownMs <= cooldownUntil
    BY <1>0, <1>5 DEF Begin, Expiring, IInv, AcquiredInv, GrantOK
  <2>2. notBefore' <= cooldownUntil
    BY <1>0, <1>5, <2>1 DEF Begin
  <2>3. QED
    BY <1>0, <1>5, <2>2 DEF Begin
<1>6. ASSUME NEW p \in Instance, RenewTick(p) \/ Renew(p) \/ RenewThrows(p) PROVE RowInv'
  BY <1>0, <1>6 DEF RenewTick, Renew, RenewThrows
<1>7. ASSUME NEW p \in Instance, RenewAnswered(p) \/ Return(p) PROVE RowInv'
  BY <1>0, <1>7 DEF RenewAnswered, Return
<1>8. ASSUME NEW p \in Instance, Release(p) PROVE RowInv'
  <2>1. \A q \in Instance : mine'[q] <= issued'
    BY <1>0, <1>8 DEF Release, Forget
  <2>2. notBefore <= cooldownUntil'
    <3>1. CASE pc[p] = "skipping" /\ token = mine[p]
      BY <1>0, <1>8, <3>1 DEF Release, IInv, AcquiredInv, SkipOK
    <3>2. CASE ~(pc[p] = "skipping" /\ token = mine[p])
      BY <1>0, <1>8, <3>2 DEF Release
    <3>3. QED
      BY <3>1, <3>2
  <2>3. token' <= issued' /\ leaseExpiresAt' <= now' + LeaseMs
    BY <1>0, <1>8 DEF Release
  <2>4. QED
    BY <1>8, <2>1, <2>2, <2>3 DEF Release
<1>9. CASE Tick
  BY <1>0, <1>9 DEF Tick
<1>10. CASE UNCHANGED vars
  BY <1>0, <1>10 DEF vars
<1>11. QED
  BY <1>1, <1>2, <1>3, <1>4, <1>5, <1>6, <1>7, <1>8, <1>9, <1>10 DEF Next

LEMMA TokenStep == IInv /\ [Next]_vars => TokenInv'
<1> SUFFICES ASSUME IInv, [Next]_vars PROVE TokenInv'
  OBVIOUS
<1> USE DEF TokenInv, leaseVars
<1>0. TokenInv /\ RowInv /\ mine \in [Instance -> Nat] /\ issued \in Nat
  BY DEF IInv, TypeOK, RunTypeOK, StoreTypeOK
<1>1. ASSUME UNCHANGED mine PROVE TokenInv'
  BY <1>0, <1>1
<1>2. ASSUME NEW p \in Instance, mine' = [mine EXCEPT ![p] = 0] PROVE TokenInv'
  BY <1>0, <1>2
<1>3. ASSUME NEW p \in Instance, mine' = [mine EXCEPT ![p] = issued + 1] PROVE TokenInv'
  BY <1>0, <1>3 DEF RowInv
<1>4. ASSUME NEW p \in Instance,
             Crash(p) \/ Refused(p) \/ AcquireThrows(p) \/ Release(p)
      PROVE  TokenInv'
  BY <1>2, <1>4 DEF Crash, Refused, AcquireThrows, Release, Forget
<1>5. ASSUME NEW p \in Instance, Acquire(p) PROVE TokenInv'
  BY <1>1, <1>3, <1>5 DEF Acquire
<1>6. ASSUME NEW p \in Instance, TickJob(p) \/ Stop(p) \/ Register(p) \/ Begin(p) PROVE TokenInv'
  BY <1>1, <1>6 DEF TickJob, Stop, Register, Begin
<1>7. ASSUME NEW p \in Instance,
             RenewTick(p) \/ Renew(p) \/ RenewThrows(p) \/ RenewAnswered(p) \/ Return(p)
      PROVE  TokenInv'
  BY <1>1, <1>7 DEF RenewTick, Renew, RenewThrows, RenewAnswered, Return
<1>8. CASE Tick \/ UNCHANGED vars
  BY <1>1, <1>8 DEF Tick, vars
<1>9. QED
  BY <1>4, <1>5, <1>6, <1>7, <1>8 DEF Next

-----------------------------------------------------------------------------
(* Granted leases.                                                         *)

(* What the acquired instances need to know of each other's steps.         *)
LEMMA OthersToken ==
  ASSUME IInv, NEW p \in Instance, NEW q \in Instance, p # q, token = mine[p], mine[p] # 0
  PROVE  token # mine[q]
  BY DEF IInv, TokenInv

(* A row that may be taken belongs to no acquire that can still begin.     *)
LEMMA TakenOver ==
  ASSUME IInv, Available, NEW q \in Instance, pc[q] = "acquired"
  PROVE  ~(now < sentAt[q] + LeaseMs)
<1>1. GrantOK(q) /\ StoreTypeOK /\ sentAt[q] \in Nat
  BY DEF IInv, AcquiredInv, TypeOK, RunTypeOK
<1>2. QED
  BY <1>1, JobLeaseAssumption DEF GrantOK, Available, StoreTypeOK

LEMMA AcquiredStep == IInv /\ [Next]_vars => AcquiredInv'
<1> SUFFICES ASSUME IInv, [Next]_vars PROVE AcquiredInv'
  OBVIOUS
<1> SUFFICES ASSUME NEW q \in Instance
             PROVE  /\ pc'[q] \in {"acquiring", "acquired"} => sentAt'[q] <= now'
                    /\ GrantOK(q)' /\ SkipOK(q)'
  BY DEF AcquiredInv
<1> DEFINE Goal == /\ pc'[q] \in {"acquiring", "acquired"} => sentAt'[q] <= now'
                   /\ GrantOK(q)' /\ SkipOK(q)'
<1>0. /\ StoreTypeOK /\ RowInv
      /\ pc[q] \in {"acquiring", "acquired"} => sentAt[q] <= now
      /\ GrantOK(q) /\ SkipOK(q)
      /\ mine \in [Instance -> Nat] /\ sentAt \in [Instance -> Nat] /\ stamp \in [Instance -> Nat]
      /\ pc \in [Instance -> Pc]
  BY DEF IInv, AcquiredInv, TypeOK, RunTypeOK
<1> USE DEF storeVars, leaseVars, StoreTypeOK, Goto
<1>1. ASSUME NEW p \in Instance, TickJob(p) \/ Stop(p) \/ Register(p) PROVE Goal
  BY <1>0, <1>1 DEF TickJob, Stop, Register, GrantOK, SkipOK
<1>2. ASSUME NEW p \in Instance, Crash(p) \/ Refused(p) PROVE Goal
  BY <1>0, <1>2 DEF Crash, Refused, Forget, GrantOK, SkipOK
<1>3. ASSUME NEW p \in Instance, Granted,
             p # q => UNCHANGED <<pc[q], sentAt[q], mine[q], stamp[q]>>, p # q,
             UNCHANGED <<now, notBefore>>
      PROVE  Goal
  <2>1. token' # mine[q]
    BY <1>0, <1>3 DEF Granted, RowInv
  <2>2. pc[q] = "acquired" => ~(now < sentAt[q] + LeaseMs)
    BY <1>3, TakenOver DEF Granted
  <2>3. QED
    BY <1>0, <1>3, <2>1, <2>2 DEF GrantOK, SkipOK
<1>4. ASSUME NEW p \in Instance, Acquire(p) PROVE Goal
  <2>1. CASE p # q /\ Granted
    BY <1>0, <1>3, <1>4, <2>1 DEF Acquire
  <2>2. CASE p # q /\ ~Granted
    BY <1>0, <1>4, <2>2 DEF Acquire, GrantOK, SkipOK
  <2>3. CASE p = q /\ Granted
    BY <1>0, <1>4, <2>3, JobLeaseAssumption DEF Acquire, Granted, Available, GrantOK, SkipOK, RowInv, Pc
  <2>4. CASE p = q /\ ~Granted
    BY <1>0, <1>4, <2>4 DEF Acquire, GrantOK, SkipOK
  <2>5. QED
    BY <2>1, <2>2, <2>3, <2>4
<1>5. ASSUME NEW p \in Instance, AcquireThrows(p) PROVE Goal
  <2>1. CASE p # q /\ Granted
    BY <1>0, <1>3, <1>5, <2>1 DEF AcquireThrows, Forget
  <2>2. CASE p # q /\ ~Granted
    BY <1>0, <1>5, <2>2 DEF AcquireThrows, Forget, GrantOK, SkipOK
  <2>3. CASE p = q
    BY <1>0, <1>5, <2>3 DEF AcquireThrows, Forget, GrantOK, SkipOK
  <2>4. QED
    BY <2>1, <2>2, <2>3
<1>6. ASSUME NEW p \in Instance, Begin(p) PROVE Goal
  <2>1. CASE p = q
    BY <1>0, <1>6, <2>1, JobLeaseAssumption DEF Begin, GrantOK, SkipOK
  <2>2. CASE p # q
    <3>1. UNCHANGED <<pc[q], sentAt[q], mine[q], stamp[q], now, token, leaseExpiresAt, cooldownUntil>>
      BY <1>0, <1>6, <2>2 DEF Begin
    <3>2. notBefore' # notBefore => token # mine[q]
      <4>1. ASSUME notBefore' # notBefore PROVE token = mine[p] /\ mine[p] # 0
        <5>1. ~Expiring(sentAt[p]) /\ pc[p] = "acquired"
          BY <1>6, <4>1 DEF Begin
        <5>2. GrantOK(p) /\ sentAt[p] \in Nat /\ RenewIntervalMs \in Nat
          BY <1>0, IntervalType DEF IInv, AcquiredInv
        <5>3. QED
          BY <1>0, <5>1, <5>2, JobLeaseAssumption DEF GrantOK, Expiring
      <4>2. QED
        BY <4>1, <2>2, OthersToken
    <3>3. CASE notBefore' = notBefore
      BY <1>0, <3>1, <3>3 DEF GrantOK, SkipOK
    <3>4. CASE token # mine[q]
      BY <1>0, <3>1, <3>4 DEF GrantOK, SkipOK
    <3>5. QED
      BY <3>2, <3>3, <3>4
  <2>3. QED
    BY <2>1, <2>2
<1>7. ASSUME NEW p \in Instance, RenewTick(p) \/ RenewAnswered(p) \/ RenewThrows(p) PROVE Goal
  <2>1. UNCHANGED <<pc, sentAt, mine, stamp, now, token, leaseExpiresAt, cooldownUntil, notBefore>>
    BY <1>7 DEF RenewTick, RenewAnswered, RenewThrows
  <2>2. QED
    BY <1>0, <2>1 DEF GrantOK, SkipOK
<1>8. ASSUME NEW p \in Instance, Renew(p) PROVE Goal
  <2>1. UNCHANGED <<pc, sentAt, mine, stamp, now, token, cooldownUntil, notBefore>>
        /\ leaseExpiresAt <= leaseExpiresAt' /\ leaseExpiresAt' \in Nat
    BY <1>0, <1>8, JobLeaseAssumption DEF Renew, RowInv
  <2>2. QED
    BY <1>0, <2>1, JobLeaseAssumption DEF GrantOK, SkipOK
<1>9. ASSUME NEW p \in Instance, Return(p) PROVE Goal
  BY <1>0, <1>9 DEF Return, GrantOK, SkipOK
<1>10. ASSUME NEW p \in Instance, Release(p) PROVE Goal
  <2>1. CASE p = q
    BY <1>0, <1>10, <2>1 DEF Release, Forget, GrantOK, SkipOK
  <2>2. CASE p # q
    <3>1. UNCHANGED <<pc[q], sentAt[q], mine[q], stamp[q], now, notBefore>>
      BY <1>0, <1>10, <2>2 DEF Release, Forget
    <3>2. CASE UNCHANGED storeVars
      BY <1>0, <3>1, <3>2 DEF GrantOK, SkipOK
    <3>3. CASE token = mine[p] /\ token' = 0
      BY <1>0, <2>2, <3>1, <3>3, OthersToken DEF GrantOK, SkipOK
    <3>4. QED
      BY <1>10, <3>2, <3>3 DEF Release
  <2>3. QED
    BY <2>1, <2>2
<1>11. CASE Tick
  BY <1>0, <1>11, JobLeaseAssumption DEF Tick, GrantOK, SkipOK
<1>12. CASE UNCHANGED vars
  BY <1>0, <1>12 DEF vars, GrantOK, SkipOK
<1>13. QED
  BY <1>1, <1>2, <1>4, <1>5, <1>6, <1>7, <1>8, <1>9, <1>10, <1>11, <1>12 DEF Next

-----------------------------------------------------------------------------
(* Live runs.                                                              *)

(* While a run is live, the row is not available to anyone.                *)
LEMMA LiveHolds ==
  ASSUME IInv, NEW q \in Instance, Live(q)
  PROVE  ~Available
<1>1. TimerOK(q) /\ LiveOK(q) /\ StoreTypeOK /\ timer[q] \in Nat /\ confirmedAt[q] \in Nat
  BY DEF IInv, LiveInv, TypeOK, LeaseTypeOK
<1>2. QED
  BY <1>1, JobLeaseAssumption DEF TimerOK, LiveOK, Available, StoreTypeOK

LEMMA LiveStep == IInv /\ [Next]_vars => LiveInv'
<1> SUFFICES ASSUME IInv, [Next]_vars, NEW q \in Instance PROVE TimerOK(q)' /\ LiveOK(q)'
  BY DEF LiveInv
<1> DEFINE Goal == TimerOK(q)' /\ LiveOK(q)'
<1>0. /\ TimerOK(q) /\ LiveOK(q)
      /\ now \in Nat /\ token \in Nat /\ leaseExpiresAt \in Nat
      /\ pc \in [Instance -> Pc] /\ RenewIntervalMs \in Nat
      /\ mine \in [Instance -> Nat] /\ sentAt \in [Instance -> Nat]
  BY IntervalType DEF IInv, LiveInv, TypeOK, StoreTypeOK, RunTypeOK
<1>00. LeaseTypeOK
  BY DEF IInv, TypeOK
<1> DEFINE mineToo == <<pc[q], mine[q], lost[q], timerOn[q], timer[q], confirmedAt[q],
                        renewal[q], renewSentAt[q]>>
<1> USE DEF storeVars, leaseVars, Goto
<1>1. ASSUME UNCHANGED mineToo, UNCHANGED <<now, token, leaseExpiresAt>> PROVE Goal
  BY <1>0, <1>1 DEF TimerOK, LiveOK, Live
<1>2. ASSUME UNCHANGED mineToo, ~Live(q) PROVE Goal
  BY <1>0, <1>2 DEF TimerOK, LiveOK, Live
<1>3. ASSUME pc'[q] # "running", ~timerOn'[q] PROVE Goal
  BY <1>3 DEF TimerOK, LiveOK, Live
<1>4. ASSUME NEW p \in Instance, NEW l, p # q, Forget(p, l) PROVE UNCHANGED mineToo
  BY <1>0, <1>00, <1>4 DEF Forget, StopTimer, LeaseTypeOK
<1>5. ASSUME NEW l \in {"idle", "dead"}, Forget(q, l) PROVE Goal
  <2>1. pc'[q] # "running" /\ ~timerOn'[q]
    BY <1>0, <1>00, <1>5 DEF Forget, StopTimer, LeaseTypeOK
  <2>2. QED
    BY <2>1, <1>3
<1>6. ASSUME NEW p \in Instance, TickJob(p) PROVE Goal
  <2>1. CASE p = q
    BY <1>0, <1>3, <1>6, <2>1 DEF TickJob, TimerOK, Live
  <2>2. CASE p # q
    BY <1>0, <1>1, <1>6, <2>2 DEF TickJob
  <2>3. QED
    BY <2>1, <2>2
<1>7. ASSUME NEW p \in Instance, Stop(p) \/ Register(p) PROVE Goal
  BY <1>1, <1>7 DEF Stop, Register
<1>8. ASSUME NEW p \in Instance, Crash(p) \/ Refused(p) PROVE Goal
  <2>1. CASE p = q
    BY <1>5, <1>8, <2>1 DEF Crash, Refused
  <2>2. CASE p # q
    BY <1>1, <1>4, <1>8, <2>2 DEF Crash, Refused
  <2>3. QED
    BY <2>1, <2>2
<1>9. ASSUME NEW p \in Instance, Acquire(p) PROVE Goal
  <2>1. CASE p = q
    BY <1>0, <1>3, <1>9, <2>1 DEF Acquire, TimerOK, Live
  <2>2. CASE p # q
    <3>1. UNCHANGED mineToo
      BY <1>0, <1>9, <2>2 DEF Acquire
    <3>2. CASE Live(q)
      BY <1>1, <1>9, <3>1, <3>2, LiveHolds DEF Acquire, Granted
    <3>3. QED
      BY <1>2, <3>1, <3>2
  <2>3. QED
    BY <2>1, <2>2
<1>10. ASSUME NEW p \in Instance, AcquireThrows(p) PROVE Goal
  <2>1. CASE p = q
    BY <1>5, <1>10, <2>1 DEF AcquireThrows
  <2>2. CASE p # q
    <3>1. UNCHANGED mineToo
      BY <1>4, <1>10, <2>2 DEF AcquireThrows
    <3>2. CASE Live(q)
      BY <1>1, <1>10, <3>1, <3>2, LiveHolds DEF AcquireThrows, Granted
    <3>3. QED
      BY <1>2, <3>1, <3>2
  <2>3. QED
    BY <2>1, <2>2
<1>11. ASSUME NEW p \in Instance, Begin(p) PROVE Goal
  <2>1. CASE p # q
    <3>1. UNCHANGED mineToo
      BY <1>0, <1>00, <1>11, <2>1 DEF Begin, StartTimer, StopTimer, LeaseTypeOK
    <3>2. QED
      BY <1>1, <1>11, <3>1 DEF Begin
  <2>2. CASE p = q /\ (aborted[q] \/ Expiring(sentAt[q]))
    <3>1. pc'[q] # "running" /\ ~timerOn'[q]
      BY <1>0, <1>00, <1>11, <2>2 DEF Begin, StopTimer, LeaseTypeOK
    <3>2. QED
      BY <1>3, <3>1
  <2>3. CASE p = q /\ ~(aborted[q] \/ Expiring(sentAt[q]))
    <3>1. /\ pc'[q] = "running" /\ timerOn'[q] /\ timer'[q] = now + RenewIntervalMs
          /\ confirmedAt'[q] = sentAt[q] /\ renewal'[q] = "none"
          /\ UNCHANGED <<now, token, leaseExpiresAt, mine>>
      BY <1>0, <1>00, <1>11, <2>3 DEF Begin, StartTimer, LeaseTypeOK
    <3>2. now + RenewIntervalMs < sentAt[q] + LeaseMs /\ sentAt[q] \in Nat
      BY <1>0, <2>3, JobLeaseAssumption DEF Expiring
    <3>3. mine[q] # 0 /\ token = mine[q] /\ sentAt[q] + LeaseMs <= leaseExpiresAt
      <4>1. GrantOK(q) /\ pc[q] = "acquired"
        BY <1>11, <2>3 DEF Begin, IInv, AcquiredInv
      <4>2. now < sentAt[q] + LeaseMs
        BY <1>0, <3>2, JobLeaseAssumption
      <4>3. QED
        BY <4>1, <4>2 DEF GrantOK
    <3>4. TimerOK(q)'
      <4>1. ~lost'[q]
        <5>1. lost \in [Instance -> BOOLEAN]
          BY <1>00 DEF LeaseTypeOK
        <5>2. lost' = [lost EXCEPT ![q] = Expiring(sentAt[q])]
          BY <1>11, <2>3 DEF Begin
        <5>3. QED
          BY <5>1, <5>2, <2>3 DEF Expiring
      <4>2. now' <= timer'[q]
        BY <1>0, <3>1
      <4>3. QED
        BY <3>1, <4>1, <4>2 DEF TimerOK, Live
    <3>5. LiveOK(q)'
      BY <3>1, <3>2, <3>3 DEF LiveOK
    <3>6. QED
      BY <3>4, <3>5
  <2>4. QED
    BY <2>1, <2>2, <2>3
<1>12. ASSUME NEW p \in Instance, RenewTick(p) PROVE Goal
  <2>1. CASE p # q
    <3>1. UNCHANGED mineToo
      BY <1>0, <1>00, <1>12, <2>1 DEF RenewTick, StartTimer, StopTimer, LeaseTypeOK
    <3>2. QED
      BY <1>1, <1>12, <3>1 DEF RenewTick
  <2>2. CASE p = q /\ Expiring(confirmedAt[q])
    BY <1>00, <1>12, <2>2 DEF RenewTick, StopTimer, LeaseTypeOK, TimerOK, LiveOK, Live
  <2>3. CASE p = q /\ ~Expiring(confirmedAt[q])
    <3>1. Live(q) /\ LiveOK(q)
      BY <1>0, <1>12, <2>3 DEF RenewTick, TimerOK
    <3>2. /\ timerOn'[q] /\ timer'[q] = now + RenewIntervalMs
          /\ UNCHANGED <<now, token, leaseExpiresAt, pc, mine, confirmedAt, lost>>
      BY <1>00, <1>12, <2>3 DEF RenewTick, StartTimer, LeaseTypeOK
    <3>3. timer'[q] < confirmedAt[q] + LeaseMs
      BY <1>0, <1>00, <2>3, <3>2, JobLeaseAssumption DEF Expiring, LeaseTypeOK
    <3>4. /\ renewal'[q] # "none" => renewSentAt'[q] <= now
          /\ renewal'[q] = "yes" => renewSentAt'[q] + LeaseMs <= leaseExpiresAt
          /\ renewal'[q] # "no"
      <4>1. CASE renewal[q] = "none"
        BY <1>0, <1>00, <1>12, <2>3, <4>1 DEF RenewTick, LeaseTypeOK
      <4>2. CASE renewal[q] # "none"
        BY <1>12, <2>3, <3>1, <4>2 DEF RenewTick, LiveOK
      <4>3. QED
        BY <4>1, <4>2
    <3>5. TimerOK(q)'
      BY <1>0, <3>1, <3>2 DEF TimerOK, Live
    <3>6. LiveOK(q)'
      BY <3>1, <3>2, <3>3, <3>4 DEF LiveOK
    <3>7. QED
      BY <3>5, <3>6
  <2>4. QED
    BY <2>1, <2>2, <2>3
<1>13. ASSUME NEW p \in Instance, Renew(p) PROVE Goal
  <2>1. /\ UNCHANGED <<now, token, pc, mine, confirmedAt, timer, timerOn, lost, renewSentAt>>
        /\ leaseExpiresAt <= leaseExpiresAt' /\ leaseExpiresAt' \in Nat
    BY <1>0, <1>13, JobLeaseAssumption DEF Renew, IInv, RowInv
  <2>2. TimerOK(q)'
    BY <1>0, <2>1 DEF TimerOK, Live
  <2>3. Live(q) => confirmedAt[q] + LeaseMs <= leaseExpiresAt'
    BY <1>0, <1>00, <2>1, JobLeaseAssumption DEF LiveOK, LeaseTypeOK
  <2>4. CASE p # q
    <3>1. UNCHANGED renewal[q]
      BY <1>00, <1>13, <2>4 DEF Renew, LeaseTypeOK
    <3>2. Live(q) /\ renewal[q] = "yes" => renewSentAt[q] + LeaseMs <= leaseExpiresAt'
      BY <1>0, <1>00, <2>1, JobLeaseAssumption DEF LiveOK, LeaseTypeOK
    <3>3. LiveOK(q)'
      BY <1>0, <2>1, <2>3, <3>1, <3>2 DEF LiveOK, Live
    <3>4. QED
      BY <2>2, <3>3
  <2>5. CASE p = q
    <3>1. renewal[q] = "sent" /\ renewal'[q] = IF token = mine[q] THEN "yes" ELSE "no"
      BY <1>00, <1>13, <2>5 DEF Renew, LeaseTypeOK
    <3>2. Live(q) => token = mine[q] /\ leaseExpiresAt' = now + LeaseMs /\ renewSentAt[q] <= now
      BY <1>0, <1>13, <2>5, <3>1 DEF Renew, LiveOK
    <3>3. Live(q) => renewSentAt[q] + LeaseMs <= leaseExpiresAt'
      BY <1>0, <1>00, <3>2, JobLeaseAssumption DEF LeaseTypeOK
    <3>4. LiveOK(q)'
      BY <1>0, <2>1, <2>3, <3>1, <3>2, <3>3 DEF LiveOK, Live
    <3>5. QED
      BY <2>2, <3>4
  <2>6. QED
    BY <2>4, <2>5
<1>14. ASSUME NEW p \in Instance, RenewAnswered(p) PROVE Goal
  <2>1. CASE p # q
    <3>1. UNCHANGED mineToo
      BY <1>0, <1>00, <1>14, <2>1 DEF RenewAnswered, StopTimer, LeaseTypeOK
    <3>2. QED
      BY <1>1, <1>14, <3>1 DEF RenewAnswered
  <2>2. CASE p = q /\ pc[q] # "running"
    BY <1>0, <1>14, <2>2 DEF RenewAnswered, TimerOK, LiveOK, Live
  <2>3. CASE p = q /\ pc[q] = "running" /\ renewal[q] = "no"
    BY <1>00, <1>14, <2>3 DEF RenewAnswered, StopTimer, LeaseTypeOK, TimerOK, LiveOK, Live
  <2>4. CASE p = q /\ pc[q] = "running" /\ renewal[q] = "yes"
    <3>1. /\ UNCHANGED <<now, token, leaseExpiresAt, pc, mine, timer, timerOn, lost, renewSentAt>>
          /\ renewal'[q] = "none"
          /\ confirmedAt'[q] \in {confirmedAt[q], renewSentAt[q]}
          /\ confirmedAt[q] <= confirmedAt'[q]
      BY <1>00, <1>14, <2>4 DEF RenewAnswered, LeaseTypeOK
    <3>2. TimerOK(q)'
      BY <1>0, <3>1 DEF TimerOK, Live
    <3>3. Live(q) => /\ confirmedAt'[q] + LeaseMs <= leaseExpiresAt
                     /\ timer[q] < confirmedAt'[q] + LeaseMs
      BY <1>0, <1>00, <2>4, <3>1, JobLeaseAssumption DEF LiveOK, LeaseTypeOK
    <3>4. LiveOK(q)'
      BY <1>0, <3>1, <3>3 DEF LiveOK, Live
    <3>5. QED
      BY <3>2, <3>4
  <2>5. QED
    BY <1>14, <2>1, <2>2, <2>3, <2>4 DEF RenewAnswered
<1>15. ASSUME NEW p \in Instance, RenewThrows(p) PROVE Goal
  BY <1>0, <1>00, <1>15 DEF RenewThrows, TimerOK, LiveOK, Live, LeaseTypeOK
<1>16. ASSUME NEW p \in Instance, Return(p) PROVE Goal
  <2>1. CASE p = q
    BY <1>0, <1>00, <1>3, <1>16, <2>1 DEF Return, StopTimer, LeaseTypeOK
  <2>2. CASE p # q
    BY <1>0, <1>00, <1>1, <1>16, <2>2 DEF Return, StopTimer, LeaseTypeOK
  <2>3. QED
    BY <2>1, <2>2
<1>17. ASSUME NEW p \in Instance, Release(p) PROVE Goal
  <2>1. CASE p = q
    BY <1>5, <1>17, <2>1 DEF Release
  <2>2. CASE p # q
    <3>1. UNCHANGED mineToo
      BY <1>4, <1>17, <2>2 DEF Release
    <3>2. CASE Live(q)
      <4>1. token # mine[p]
        <5>1. token = mine[q] /\ mine[q] # 0
          BY <1>0, <3>2 DEF LiveOK
        <5>2. QED
          BY <2>2, <5>1, OthersToken
      <4>2. UNCHANGED storeVars
        BY <1>17, <4>1 DEF Release
      <4>3. QED
        BY <1>1, <1>17, <3>1, <4>2 DEF Release
    <3>3. QED
      BY <1>2, <3>1, <3>2
  <2>3. QED
    BY <2>1, <2>2
<1>18. CASE Tick
  BY <1>0, <1>00, <1>18 DEF Tick, TimerOK, LiveOK, Live, LeaseTypeOK
<1>19. CASE UNCHANGED vars
  BY <1>1, <1>19 DEF vars
<1>20. QED
  BY <1>6, <1>7, <1>8, <1>9, <1>10, <1>11, <1>12, <1>13, <1>14, <1>15, <1>16, <1>17,
     <1>18, <1>19 DEF Next

-----------------------------------------------------------------------------
(* The inductive invariant holds: types, row, tokens, granted leases and   *)
(* live runs, through every interleaving of store calls, timers, shutdowns *)
(* and crashes.                                                            *)
THEOREM Invariance == Spec => []IInv
<1>1. IInv /\ [Next]_vars => IInv'
  BY TypeStep, RowStep, TokenStep, AcquiredStep, LiveStep DEF IInv
<1>2. QED
  BY InitInv, <1>1, PTL DEF Spec

(* One holder: no two instances run the job unless one of them was told    *)
(* that its lease is lost. Both would hold the row's token.                *)
THEOREM HolderIsUnique == Spec => []OneHolder
<1>1. IInv => OneHolder
  BY DEF IInv, TokenInv, LiveInv, LiveOK, OneHolder
<1>2. QED
  BY Invariance, <1>1, PTL

-----------------------------------------------------------------------------
(* A job is called at one place only, with a lease that is not too old and *)
(* a signal that has not aborted.                                          *)
LEMMA StartsAtBegin ==
  ASSUME TypeOK, Next, NEW p \in Instance, Starts(p)
  PROVE  Begin(p) /\ ~Expiring(sentAt[p]) /\ ~aborted[p]
<1>0. pc \in [Instance -> Pc]
  BY DEF TypeOK, RunTypeOK
<1>1. ASSUME NEW q \in Instance, TickJob(q) \/ Stop(q) \/ Register(q) PROVE ~Starts(p)
  BY <1>0, <1>1 DEF TickJob, Stop, Register, Starts, Goto
<1>2. ASSUME NEW q \in Instance, NEW l \in {"idle", "dead"}, Forget(q, l) PROVE ~Starts(p)
  BY <1>0, <1>2 DEF Forget, Starts, Goto
<1>3. ASSUME NEW q \in Instance, Crash(q) \/ AcquireThrows(q) \/ Refused(q) \/ Release(q)
      PROVE  ~Starts(p)
  BY <1>2, <1>3 DEF Crash, AcquireThrows, Refused, Release
<1>4. ASSUME NEW q \in Instance, Acquire(q) \/ Return(q) PROVE ~Starts(p)
  BY <1>0, <1>4 DEF Acquire, Return, Starts, Goto
<1>5. ASSUME NEW q \in Instance,
             RenewTick(q) \/ Renew(q) \/ RenewAnswered(q) \/ RenewThrows(q) \/ Tick
      PROVE  ~Starts(p)
  BY <1>5 DEF RenewTick, Renew, RenewAnswered, RenewThrows, Tick, Starts
<1>6. ASSUME NEW q \in Instance, Begin(q)
      PROVE  q = p /\ ~Expiring(sentAt[p]) /\ ~aborted[p]
  BY <1>0, <1>6 DEF Begin, Starts, Goto
<1>7. QED
  BY <1>1, <1>3, <1>4, <1>5, <1>6 DEF Next

(* One run per interval: whoever starts the job acquired it CooldownMs or  *)
(* more after the acquire of the last run that called it.                  *)
THEOREM RunsAreSpaced == Spec => OneRunPerInterval
<1> DEFINE Spaced == \A p \in Instance : Starts(p) => stamp[p] >= notBefore
<1>1. ASSUME IInv, Next PROVE Spaced
  <2> SUFFICES ASSUME NEW p \in Instance, Starts(p) PROVE stamp[p] >= notBefore
    OBVIOUS
  <2>1. Begin(p) /\ ~Expiring(sentAt[p])
    BY <1>1, StartsAtBegin DEF IInv
  <2>2. GrantOK(p) /\ pc[p] = "acquired" /\ stamp[p] \in Nat /\ notBefore \in Nat
    BY <1>1, <2>1 DEF Begin, IInv, AcquiredInv, TypeOK, StoreTypeOK, RunTypeOK
  <2>3. now < sentAt[p] + LeaseMs
    BY <1>1, <2>1, IntervalType, JobLeaseAssumption
       DEF Expiring, IInv, TypeOK, StoreTypeOK, RunTypeOK
  <2>4. QED
    BY <2>2, <2>3 DEF GrantOK
<1>2. IInv /\ [Next]_vars => [Spaced]_vars
  BY <1>1
<1>3. QED
  BY Invariance, <1>2, PTL DEF Spec, OneRunPerInterval

-----------------------------------------------------------------------------
(* A run that was in flight when its runner stopped is aborted, as long as *)
(* the runner is not registered again, and after that, too.                *)
StopInv == \A p \in Instance : stopped[p] /\ pc[p] \notin {"idle", "dead"} => aborted[p]

LEMMA StopStep == TypeOK /\ StopInv /\ [Next]_vars => StopInv'
<1> SUFFICES ASSUME TypeOK, StopInv, [Next]_vars, NEW p \in Instance,
                    stopped'[p], pc'[p] \notin {"idle", "dead"}
             PROVE  aborted'[p]
  BY DEF StopInv
<1>0. /\ pc \in [Instance -> Pc] /\ aborted \in [Instance -> BOOLEAN]
      /\ stopped \in [Instance -> BOOLEAN]
  BY DEF TypeOK, RunTypeOK
<1>a. ASSUME UNCHANGED <<stopped, aborted>>,
             pc'[p] = pc[p] \/ pc[p] \notin {"idle", "dead"}
      PROVE  aborted'[p]
  BY <1>a DEF StopInv
<1>b. ASSUME NEW q \in Instance, NEW l \in {"idle", "dead"}, Forget(q, l), UNCHANGED stopped
      PROVE  aborted'[p]
  BY <1>0, <1>b DEF Forget, Goto, StopInv
<1>1. ASSUME NEW q \in Instance, TickJob(q) PROVE aborted'[p]
  BY <1>0, <1>1 DEF TickJob, Goto, runnerVars, StopInv
<1>2. ASSUME NEW q \in Instance, Stop(q) PROVE aborted'[p]
  BY <1>0, <1>2 DEF Stop, StopInv
<1>3. ASSUME NEW q \in Instance, Register(q) PROVE aborted'[p]
  BY <1>0, <1>3 DEF Register, StopInv
<1>4. ASSUME NEW q \in Instance, Crash(q) \/ AcquireThrows(q) \/ Refused(q) \/ Release(q)
      PROVE  aborted'[p]
  BY <1>b, <1>4 DEF Crash, AcquireThrows, Refused, Release
<1>5. ASSUME NEW q \in Instance, Acquire(q) \/ Begin(q) \/ Return(q) PROVE aborted'[p]
  BY <1>0, <1>a, <1>5 DEF Acquire, Begin, Return, Goto, runnerVars
<1>6. ASSUME NEW q \in Instance,
             RenewTick(q) \/ Renew(q) \/ RenewAnswered(q) \/ RenewThrows(q) \/ Tick
      PROVE  aborted'[p]
  BY <1>a, <1>6 DEF RenewTick, Renew, RenewAnswered, RenewThrows, Tick, runnerVars
<1>7. CASE UNCHANGED vars
  BY <1>a, <1>7 DEF vars, runnerVars
<1>8. QED
  BY <1>1, <1>2, <1>3, <1>4, <1>5, <1>6, <1>7 DEF Next

(* No job is called by a runner that has been stopped, nor with a signal   *)
(* that was aborted while its acquire was under way, registered again or   *)
(* not.                                                                    *)
THEOREM NoStartAfterStop == Spec => NoStartOnceAborted
<1> DEFINE Allowed == \A p \in Instance : Starts(p) => ~aborted[p] /\ ~stopped[p]
<1>1. Init => StopInv
  BY DEF Init, StopInv
<1>2. IInv /\ StopInv /\ [Next]_vars => StopInv'
  BY StopStep DEF IInv
<1>3. ASSUME IInv, StopInv, Next PROVE Allowed
  <2> SUFFICES ASSUME NEW p \in Instance, Starts(p) PROVE ~aborted[p] /\ ~stopped[p]
    OBVIOUS
  <2>1. Begin(p) /\ ~aborted[p]
    BY <1>3, StartsAtBegin DEF IInv
  <2>2. QED
    BY <1>3, <2>1 DEF Begin, StopInv
<1>4. IInv /\ StopInv /\ [Next]_vars => [Allowed]_vars
  BY <1>3
<1>5. QED
  BY Invariance, <1>1, <1>2, <1>4, PTL DEF Spec, NoStartOnceAborted
=============================================================================
