------------------------------ MODULE JobLease ------------------------------
(***************************************************************************)
(* One 'any' job of packages/jobs on several instances: the lease row of a *)
(* JobLeaseStore (PgJobLeaseStore; InMemoryJobLeaseStore behaves alike),   *)
(* JobLeaseManager.run with its HeldLease, and the part of                 *)
(* InProcessJobRunner that drives it: tick, stop, register.                *)
(*                                                                         *)
(* A store call is sent, takes effect, and is answered in three steps with *)
(* any delay between them; it may also fail, before or after its effect.   *)
(* Time is a number; only durations and the store's clock matter to the    *)
(* code, so one clock serves all. A renewal timer fires when it is due:    *)
(* an event loop kept busy beyond that is outside the model.               *)
(***************************************************************************)
EXTENDS Naturals, FiniteSets

CONSTANTS
  Instance,     \* the processes that registered the job
  LeaseMs,
  CooldownMs,
  MaxTime,      \* bound on the clock
  MaxAcquires   \* bound on successful acquires

ASSUME JobLeaseAssumption ==
  /\ LeaseMs \in Nat /\ LeaseMs >= 3
  /\ CooldownMs \in Nat
  /\ MaxTime \in Nat
  /\ MaxAcquires \in Nat

RenewIntervalMs == LeaseMs \div 3

VARIABLES
  now,
  token,            \* lease_token of the job's row: the number of an acquire, 0 for NULL
  leaseExpiresAt,
  cooldownUntil,
  issued            \* acquires so far; the next token is fresh

storeVars == <<token, leaseExpiresAt, cooldownUntil, issued>>

VARIABLES           \* of each instance
  pc,               \* where its tick stands; "idle" when no run is in flight
  mine,             \* the token it was given
  sentAt,           \* when its acquire was sent
  confirmedAt,      \* the lease is known to last LeaseMs from here
  timer,            \* when its renewal timer fires next
  timerOn,
  lost,             \* the lease's own signal has aborted
  renewal,          \* its renewal in flight: none, sent, or answered yes or no
  renewSentAt,
  stopped,          \* stop() was called and the job not registered again
  aborted           \* the runner aborted the run's signal

leaseVars == <<mine, sentAt, confirmedAt, timer, timerOn, lost, renewal, renewSentAt>>
runnerVars == <<stopped, aborted>>

VARIABLES           \* what an observer notes
  stamp,            \* store time of each instance's last acquire
  notBefore         \* CooldownMs after the acquire of the last run that called the job

vars == <<now, storeVars, pc, leaseVars, runnerVars, stamp, notBefore>>

Pc == {"idle", "acquiring", "acquired", "refused", "running", "skipping", "finishing", "dead"}

StoreTypeOK ==
  /\ now \in Nat
  /\ token \in Nat /\ leaseExpiresAt \in Nat /\ cooldownUntil \in Nat /\ issued \in Nat
  /\ notBefore \in Nat

RunTypeOK ==
  /\ pc \in [Instance -> Pc]
  /\ mine \in [Instance -> Nat]
  /\ sentAt \in [Instance -> Nat]
  /\ stamp \in [Instance -> Nat]
  /\ stopped \in [Instance -> BOOLEAN]
  /\ aborted \in [Instance -> BOOLEAN]

LeaseTypeOK ==
  /\ confirmedAt \in [Instance -> Nat]
  /\ timer \in [Instance -> Nat]
  /\ timerOn \in [Instance -> BOOLEAN]
  /\ lost \in [Instance -> BOOLEAN]
  /\ renewal \in [Instance -> {"none", "sent", "yes", "no"}]
  /\ renewSentAt \in [Instance -> Nat]

TypeOK == StoreTypeOK /\ RunTypeOK /\ LeaseTypeOK

Init ==
  /\ now = 0
  /\ token = 0 /\ leaseExpiresAt = 0 /\ cooldownUntil = 0 /\ issued = 0
  /\ pc = [p \in Instance |-> "idle"]
  /\ mine = [p \in Instance |-> 0]
  /\ sentAt = [p \in Instance |-> 0]
  /\ confirmedAt = [p \in Instance |-> 0]
  /\ timer = [p \in Instance |-> 0]
  /\ timerOn = [p \in Instance |-> FALSE]
  /\ lost = [p \in Instance |-> FALSE]
  /\ renewal = [p \in Instance |-> "none"]
  /\ renewSentAt = [p \in Instance |-> 0]
  /\ stopped = [p \in Instance |-> FALSE]
  /\ aborted = [p \in Instance |-> FALSE]
  /\ stamp = [p \in Instance |-> 0]
  /\ notBefore = 0

Goto(p, l) == pc' = [pc EXCEPT ![p] = l]

StartTimer(p) ==
  /\ timerOn' = [timerOn EXCEPT ![p] = TRUE]
  /\ timer' = [timer EXCEPT ![p] = now + RenewIntervalMs]

StopTimer(p) ==
  /\ timerOn' = [timerOn EXCEPT ![p] = FALSE]
  /\ timer' = [timer EXCEPT ![p] = 0]

(* The run is over and its HeldLease is dropped. A renewal still in flight *)
(* goes with it: at most it lets an abandoned lease last a little longer.  *)
Forget(p, l) ==
  /\ Goto(p, l)
  /\ StopTimer(p)
  /\ mine' = [mine EXCEPT ![p] = 0]
  /\ sentAt' = [sentAt EXCEPT ![p] = 0]
  /\ confirmedAt' = [confirmedAt EXCEPT ![p] = 0]
  /\ lost' = [lost EXCEPT ![p] = FALSE]
  /\ renewal' = [renewal EXCEPT ![p] = "none"]
  /\ renewSentAt' = [renewSentAt EXCEPT ![p] = 0]
  /\ aborted' = [aborted EXCEPT ![p] = FALSE]
  /\ stamp' = [stamp EXCEPT ![p] = 0]

(* HeldLease.expiring, with the confirmation time it looks at.             *)
Expiring(from) == now + RenewIntervalMs >= from + LeaseMs

-----------------------------------------------------------------------------
(* InProcessJobRunner.                                                     *)

(* A timer of the grid fires. It is skipped while a run is in flight; the  *)
(* acquire is sent at once, its signal cannot have aborted yet.            *)
TickJob(p) ==
  /\ pc[p] = "idle" /\ ~stopped[p]
  /\ Goto(p, "acquiring")
  /\ sentAt' = [sentAt EXCEPT ![p] = now]
  /\ UNCHANGED <<now, storeVars, mine, confirmedAt, timer, timerOn, lost, renewal,
                 renewSentAt, runnerVars, stamp, notBefore>>

(* stop: timers cleared, the signal of the run in flight aborted.          *)
Stop(p) ==
  /\ pc[p] # "dead" /\ ~stopped[p]
  /\ stopped' = [stopped EXCEPT ![p] = TRUE]
  /\ aborted' = [aborted EXCEPT ![p] = pc[p] # "idle"]
  /\ UNCHANGED <<now, storeVars, pc, leaseVars, stamp, notBefore>>

(* A job may be registered again after stop, its last run still in flight. *)
Register(p) ==
  /\ pc[p] # "dead" /\ stopped[p]
  /\ stopped' = [stopped EXCEPT ![p] = FALSE]
  /\ UNCHANGED <<now, storeVars, pc, leaseVars, aborted, stamp, notBefore>>

(* The process dies; its lease stays until it expires.                     *)
Crash(p) ==
  /\ pc[p] # "dead"
  /\ Forget(p, "dead")
  /\ UNCHANGED <<now, storeVars, stopped, notBefore>>

-----------------------------------------------------------------------------
(* tryAcquire.                                                             *)

(* Mutant: the cooldown is not looked at.                                  *)
AvailableAnyTime == token = 0 \/ leaseExpiresAt <= now

(* The WHERE clause of the conditional write.                              *)
Available == (token = 0 \/ leaseExpiresAt <= now) /\ cooldownUntil <= now

(* It takes effect in the store: fresh token, lease expiry and cooldown.   *)
Granted ==
  /\ Available
  /\ issued < MaxAcquires
  /\ issued' = issued + 1
  /\ token' = issued + 1
  /\ leaseExpiresAt' = now + LeaseMs
  /\ cooldownUntil' = now + CooldownMs

Acquire(p) ==
  /\ pc[p] = "acquiring"
  /\ \/ /\ Granted
        /\ mine' = [mine EXCEPT ![p] = issued + 1]
        /\ stamp' = [stamp EXCEPT ![p] = now]
        /\ Goto(p, "acquired")
     \/ /\ ~Available
        /\ Goto(p, "refused")
        /\ UNCHANGED <<storeVars, mine, stamp>>
  /\ UNCHANGED <<now, sentAt, confirmedAt, timer, timerOn, lost, renewal, renewSentAt,
                 runnerVars, notBefore>>

(* The call throws, its effect made or not: the tick is skipped.           *)
AcquireThrows(p) ==
  /\ pc[p] = "acquiring"
  /\ Forget(p, "idle")
  /\ Granted \/ UNCHANGED storeVars
  /\ UNCHANGED <<now, stopped, notBefore>>

Refused(p) ==
  /\ pc[p] = "refused"
  /\ Forget(p, "idle")
  /\ UNCHANGED <<now, storeVars, stopped, notBefore>>

(* Mutant: the run starts although the acquire took too long to answer.    *)
BeginUnchecked(p) ==
  /\ pc[p] = "acquired"
  /\ Goto(p, IF aborted[p] THEN "skipping" ELSE "running")
  /\ confirmedAt' = [confirmedAt EXCEPT ![p] = sentAt[p]]
  /\ IF aborted[p] THEN StopTimer(p) ELSE StartTimer(p)
  /\ renewal' = [renewal EXCEPT ![p] = "none"]
  /\ lost' = [lost EXCEPT ![p] = FALSE]
  /\ notBefore' = IF aborted[p] THEN notBefore ELSE stamp[p] + CooldownMs
  /\ UNCHANGED <<now, storeVars, mine, sentAt, renewSentAt, runnerVars, stamp>>

(* Mutant: the job is called although the runner has been stopped.         *)
BeginStopped(p) ==
  /\ pc[p] = "acquired"
  /\ Goto(p, IF Expiring(sentAt[p]) THEN "skipping" ELSE "running")
  /\ confirmedAt' = [confirmedAt EXCEPT ![p] = sentAt[p]]
  /\ IF Expiring(sentAt[p]) THEN StopTimer(p) ELSE StartTimer(p)
  /\ renewal' = [renewal EXCEPT ![p] = "none"]
  /\ lost' = [lost EXCEPT ![p] = Expiring(sentAt[p])]
  /\ notBefore' = IF Expiring(sentAt[p]) THEN notBefore ELSE stamp[p] + CooldownMs
  /\ UNCHANGED <<now, storeVars, mine, sentAt, renewSentAt, runnerVars, stamp>>

(* The lease was granted: HeldLease.start, then the job is called, unless  *)
(* the lease is too old already or the runner stopped meanwhile. A renewal *)
(* of an earlier lease still in flight can no longer match the row.        *)
Begin(p) ==
  LET skip == aborted[p] \/ Expiring(sentAt[p]) IN
  /\ pc[p] = "acquired"
  /\ Goto(p, IF skip THEN "skipping" ELSE "running")
  /\ confirmedAt' = [confirmedAt EXCEPT ![p] = sentAt[p]]
  /\ IF skip THEN StopTimer(p) ELSE StartTimer(p)
  /\ renewal' = [renewal EXCEPT ![p] = "none"]
  /\ lost' = [lost EXCEPT ![p] = Expiring(sentAt[p])]
  /\ notBefore' = IF skip THEN notBefore ELSE stamp[p] + CooldownMs
  /\ UNCHANGED <<now, storeVars, mine, sentAt, renewSentAt, runnerVars, stamp>>

-----------------------------------------------------------------------------
(* HeldLease.                                                              *)

(* The renewal timer fires: the deadline first, then a renewal unless one  *)
(* is in flight.                                                           *)
RenewTick(p) ==
  /\ timerOn[p] /\ timer[p] <= now
  /\ IF Expiring(confirmedAt[p])
     THEN /\ lost' = [lost EXCEPT ![p] = TRUE]
          /\ StopTimer(p)
          /\ UNCHANGED <<renewal, renewSentAt>>
     ELSE /\ StartTimer(p)
          /\ IF renewal[p] = "none"
             THEN /\ renewal' = [renewal EXCEPT ![p] = "sent"]
                  /\ renewSentAt' = [renewSentAt EXCEPT ![p] = now]
             ELSE UNCHANGED <<renewal, renewSentAt>>
          /\ UNCHANGED lost
  /\ UNCHANGED <<now, storeVars, pc, mine, sentAt, confirmedAt, runnerVars,
                 stamp, notBefore>>

(* The renewal takes effect: token-checked, whether expired or not.        *)
Renew(p) ==
  /\ renewal[p] = "sent"
  /\ renewal' = [renewal EXCEPT ![p] = IF token = mine[p] THEN "yes" ELSE "no"]
  /\ leaseExpiresAt' = IF token = mine[p] THEN now + LeaseMs ELSE leaseExpiresAt
  /\ UNCHANGED <<now, token, cooldownUntil, issued, pc, mine, sentAt, confirmedAt, timer,
                 timerOn, lost, renewSentAt, runnerVars, stamp, notBefore>>

(* Mutant: the lease is taken as confirmed from when the answer came.      *)
RenewAnsweredFromNow(p) ==
  /\ renewal[p] \in {"yes", "no"}
  /\ renewal' = [renewal EXCEPT ![p] = "none"]
  /\ IF pc[p] # "running" THEN UNCHANGED <<confirmedAt, lost, timerOn, timer>>
     ELSE IF renewal[p] = "yes"
     THEN /\ confirmedAt' = [confirmedAt EXCEPT ![p] = now]
          /\ UNCHANGED <<lost, timerOn, timer>>
     ELSE lost' = [lost EXCEPT ![p] = TRUE] /\ StopTimer(p) /\ UNCHANGED confirmedAt
  /\ UNCHANGED <<now, storeVars, pc, mine, sentAt, renewSentAt, runnerVars, stamp, notBefore>>

(* It is answered; nothing comes of it once the run has settled.           *)
RenewAnswered(p) ==
  /\ renewal[p] \in {"yes", "no"}
  /\ renewal' = [renewal EXCEPT ![p] = "none"]
  /\ IF pc[p] # "running" THEN UNCHANGED <<confirmedAt, lost, timerOn, timer>>
     ELSE IF renewal[p] = "yes"
     THEN /\ confirmedAt' = [confirmedAt EXCEPT
               ![p] = IF renewSentAt[p] > @ THEN renewSentAt[p] ELSE @]
          /\ UNCHANGED <<lost, timerOn, timer>>
     ELSE lost' = [lost EXCEPT ![p] = TRUE] /\ StopTimer(p) /\ UNCHANGED confirmedAt
  /\ UNCHANGED <<now, storeVars, pc, mine, sentAt, renewSentAt, runnerVars, stamp, notBefore>>

(* It throws, its effect made or not; the deadline decides.                *)
RenewThrows(p) ==
  /\ renewal[p] # "none"
  /\ renewal' = [renewal EXCEPT ![p] = "none"]
  /\ UNCHANGED <<now, storeVars, pc, mine, sentAt, confirmedAt, timer, timerOn, lost,
                 renewSentAt, runnerVars, stamp, notBefore>>

(* The job returns or throws, whatever its signal said: finish.            *)
Return(p) ==
  /\ pc[p] = "running"
  /\ Goto(p, "finishing")
  /\ StopTimer(p)
  /\ UNCHANGED <<now, storeVars, mine, sentAt, confirmedAt, lost, renewal, renewSentAt,
                 runnerVars, stamp, notBefore>>

(* Mutant: release gives up the row whoever holds it.                      *)
ReleaseUnchecked(p) ==
  /\ pc[p] \in {"skipping", "finishing"}
  /\ Forget(p, "idle")
  /\ token' = 0
  /\ leaseExpiresAt' = 0
  /\ cooldownUntil' = IF pc[p] = "skipping" THEN now ELSE cooldownUntil
  /\ UNCHANGED <<now, issued, stopped, notBefore>>

(* release: token-checked; the cooldown is dropped when the job never ran. *)
(* It may also fail, its effect made or not.                               *)
Release(p) ==
  /\ pc[p] \in {"skipping", "finishing"}
  /\ Forget(p, "idle")
  /\ \/ /\ token = mine[p]
        /\ token' = 0
        /\ leaseExpiresAt' = 0
        /\ cooldownUntil' = IF pc[p] = "skipping" THEN now ELSE cooldownUntil
        /\ UNCHANGED issued
     \/ UNCHANGED storeVars
  /\ UNCHANGED <<now, stopped, notBefore>>

-----------------------------------------------------------------------------
(* Time passes, no further than the next renewal timer.                    *)
Tick ==
  /\ now < MaxTime
  /\ \A p \in Instance : timerOn[p] => now < timer[p]
  /\ now' = now + 1
  /\ UNCHANGED <<storeVars, pc, leaseVars, runnerVars, stamp, notBefore>>

Next ==
  \/ \E p \in Instance :
       \/ TickJob(p) \/ Stop(p) \/ Register(p) \/ Crash(p)
       \/ Acquire(p) \/ AcquireThrows(p) \/ Refused(p) \/ Begin(p)
       \/ RenewTick(p) \/ Renew(p) \/ RenewAnswered(p) \/ RenewThrows(p)
       \/ Return(p) \/ Release(p)
  \/ Tick

Spec == Init /\ [][Next]_vars

-----------------------------------------------------------------------------
(* The job is running on p and p has not been told that its lease is lost. *)
Live(p) == pc[p] = "running" /\ ~lost[p]

(* One holder: no two instances run the job, except that one whose signal  *)
(* has aborted with JobLeaseLostError may not have returned yet. Through   *)
(* slow, failed and hanging store calls, and crashes.                      *)
OneHolder == \A p, q \in Instance : Live(p) /\ Live(q) => p = q

Starts(p) == pc[p] # "running" /\ pc'[p] = "running"

(* After a run's acquire no other run is acquired for CooldownMs, although *)
(* acquires that led to no run give the interval back.                     *)
OneRunPerInterval ==
  [][\A p \in Instance : Starts(p) => stamp[p] >= notBefore]_vars

(* A stopped runner does not start a run whose acquire was under way; a    *)
(* registration that follows does not revive it.                           *)
NoStartOnceAborted == [][\A p \in Instance : Starts(p) => ~aborted[p] /\ ~stopped[p]]_vars

(* "Gives up one renew interval before expiry": when the deadline check    *)
(* aborts the run's signal, the lease lasts another renewal interval.      *)
GivesUpOneIntervalEarly ==
  [][\A p \in Instance :
       Live(p) /\ lost'[p] /\ token = mine[p] => now + RenewIntervalMs <= leaseExpiresAt]_vars

-----------------------------------------------------------------------------
(* The inductive invariant behind OneHolder and OneRunPerInterval.         *)

(* A lease row and its tokens.                                             *)
RowInv ==
  /\ token <= issued
  /\ \A p \in Instance : mine[p] <= issued
  /\ leaseExpiresAt <= now + LeaseMs
  /\ notBefore <= cooldownUntil

(* Tokens identify their holder.                                           *)
TokenInv ==
  \A p, q \in Instance : p # q /\ mine[p] = mine[q] => mine[p] = 0

(* A granted lease is the row's until it expires, and cannot have expired  *)
(* while less than LeaseMs has passed since the acquire was sent.          *)
GrantOK(p) ==
  pc[p] = "acquired" =>
    /\ mine[p] # 0
    /\ now < sentAt[p] + LeaseMs => token = mine[p]
    /\ token = mine[p] =>
         /\ sentAt[p] + LeaseMs <= leaseExpiresAt
         /\ stamp[p] + CooldownMs <= cooldownUntil
         /\ notBefore <= stamp[p] /\ stamp[p] <= now

(* Giving the interval back does not shorten the interval of a run.        *)
SkipOK(p) ==
  pc[p] = "skipping" => mine[p] # 0 /\ (token = mine[p] => notBefore <= now)

AcquiredInv ==
  \A p \in Instance :
    /\ pc[p] \in {"acquiring", "acquired"} => sentAt[p] <= now
    /\ GrantOK(p)
    /\ SkipOK(p)

(* A live run holds the row's lease, and its timer fires before the lease  *)
(* expires; nothing else has a timer.                                      *)
TimerOK(p) == timerOn[p] => Live(p) /\ now <= timer[p]

LiveOK(p) ==
  Live(p) =>
    /\ timerOn[p]
    /\ mine[p] # 0 /\ token = mine[p]
    /\ timer[p] < confirmedAt[p] + LeaseMs
    /\ confirmedAt[p] + LeaseMs <= leaseExpiresAt
    /\ renewal[p] # "none" => renewSentAt[p] <= now
    /\ renewal[p] = "yes" => renewSentAt[p] + LeaseMs <= leaseExpiresAt
    /\ renewal[p] # "no"

LiveInv == \A p \in Instance : TimerOK(p) /\ LiveOK(p)

IInv == TypeOK /\ RowInv /\ TokenInv /\ AcquiredInv /\ LiveInv
=============================================================================
