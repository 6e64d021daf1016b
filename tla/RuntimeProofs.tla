---------------------------- MODULE RuntimeProofs ----------------------------
(***************************************************************************)
(* Proofs about Runtime for any phases of any participants: phases drain   *)
(* in order, nothing is disposed of twice, and exit code 0 is honest.      *)
(*                                                                         *)
(* DrainInv says what the disposals are by how far the phase loop is, and  *)
(* ResultInv that a result other than a timeout's came after the last      *)
(* phase and counts every failure of it.                                   *)
(***************************************************************************)
EXTENDS Runtime, TLAPS

Done(i) == i < at \/ (i = at /\ loop # "phase")

DrainInv ==
  /\ loop = "idle" => at = 0
  /\ loop = "phase" => at > 0
  /\ \A i \in 1..Len(Phases) : \A p \in Phases[i] :
       /\ at < i => disposal[p] = "none"
       /\ i <= at => disposal[p] # "none"
       /\ Done(i) => Settled(p) /\ (disposal[p] = "failed" => p \in counted)

ResultInv ==
  /\ result # NoResult /\ ~result.timedOut => loop = "ended" /\ (result.errors <=> counted # {})
  /\ exitCode = 0 => result # NoResult /\ ~result.timedOut /\ ~result.errors /\ pc = "exited"
  /\ loop # "idle" /\ ~direct => pc \in {"draining", "exited"}
  /\ loop = "ended" /\ ~direct => serving <= at

IInv == TypeOK /\ DrainInv /\ ResultInv

LEMMA PhaseIsSet ==
  /\ Len(Phases) \in Nat
  /\ \A i \in 1..Len(Phases) : Phases[i] \subseteq Participant
BY RuntimeAssumption

LEMMA ResultValue ==
  ASSUME NEW t \in BOOLEAN, Resolve(t)
  PROVE  /\ result' \in [timedOut : BOOLEAN, errors : BOOLEAN]
         /\ result'.timedOut = t /\ result'.errors = (counted # {})
<1>1. PICK e \in BOOLEAN : e = (counted # {})
  BY Zenon
<1>2. result' = [timedOut |-> t, errors |-> e]
  BY <1>1, Zenon DEF Resolve
<1>3. result' \in [timedOut : BOOLEAN, errors : BOOLEAN] /\ result'.timedOut = t /\ result'.errors = e
  BY <1>2
<1>4. QED
  BY <1>1, <1>3, Zenon

LEMMA Bounds ==
  ASSUME TypeOK
  PROVE  /\ at \in Nat /\ phases \in Nat /\ serving \in Nat
         /\ phases <= Len(Phases) /\ at <= phases /\ serving <= phases
         /\ loop \in {"idle", "next", "phase", "ended"}
         /\ disposal \in [Participant -> {"none", "running", "ok", "failed"}]
BY PhaseIsSet DEF TypeOK

LEMMA InitInv == Init => IInv
<1> SUFFICES ASSUME Init PROVE IInv
  OBVIOUS
<1>1. TypeOK
  <2>1. phases \in 0..Len(Phases) /\ at \in 0..phases /\ serving \in 0..phases
    BY PhaseIsSet DEF Init
  <2>2. disposal \in [Participant -> {"none", "running", "ok", "failed"}] /\ counted \subseteq Participant
    BY DEF Init
  <2>3. QED
    BY <2>1, <2>2 DEF Init, TypeOK
<1>2. DrainInv
  <2>1. at = 0 /\ loop = "idle" /\ \A p \in Participant : disposal[p] = "none"
    BY DEF Init
  <2>2. QED
    BY <2>1, PhaseIsSet DEF DrainInv, Done
<1>3. ResultInv
  BY RuntimeAssumption DEF Init, ResultInv
<1>4. QED
  BY <1>1, <1>2, <1>3 DEF IInv

LEMMA TypeStep == TypeOK /\ DrainInv /\ [Next]_vars => TypeOK'
<1> SUFFICES ASSUME TypeOK, DrainInv, [Next]_vars PROVE TypeOK'
  OBVIOUS
<1> USE PhaseIsSet DEF TypeOK
<1>1. CASE AddPhase
  BY <1>1 DEF AddPhase, runVars
<1>2. CASE BeginPhase
  BY <1>2 DEF BeginPhase, runVars
<1>3. ASSUME NEW p \in Participant, Disposed(p) PROVE TypeOK'
  BY <1>3 DEF Disposed, runVars
<1>4. CASE EndPhase
  <2>1. at \in 1..Len(Phases)
    BY <1>4, Bounds DEF EndPhase, DrainInv
  <2>2. counted' \subseteq Participant
    BY <1>4, <2>1 DEF EndPhase
  <2>3. QED
    BY <1>4, <2>2 DEF EndPhase, runVars
<1>5. CASE EndPhases \/ Timeout
  <2>1. \A t \in BOOLEAN : Resolve(t) => result' \in [timedOut : BOOLEAN, errors : BOOLEAN]
    BY ResultValue
  <2>2. result' \in [timedOut : BOOLEAN, errors : BOOLEAN] \cup {NoResult}
    BY <1>5, <2>1 DEF EndPhases, Timeout
  <2>3. QED
    BY <1>5, <2>2 DEF EndPhases, Timeout, runVars
<1>6. CASE Run \/ StartupSettles
  BY <1>6 DEF Run, StartupSettles, Trigger, Cause, drainVars
<1>7. ASSUME NEW c \in Cause, Triggered(c) PROVE TypeOK'
  BY <1>7 DEF Triggered, Trigger, drainVars
<1>8. CASE Drain \/ DrainDirectly
  BY <1>8 DEF Drain, DrainDirectly, Shutdown, runVars
<1>9. CASE Exit
  BY <1>9 DEF Exit, drainVars
<1>10. CASE UNCHANGED vars
  BY <1>10 DEF vars, runVars, drainVars
<1>11. QED
  BY <1>1, <1>2, <1>3, <1>4, <1>5, <1>6, <1>7, <1>8, <1>9, <1>10 DEF Next, LibraryStep

LEMMA DrainStep == TypeOK /\ DrainInv /\ [Next]_vars => DrainInv'
<1> SUFFICES ASSUME TypeOK, DrainInv, [Next]_vars PROVE DrainInv'
  OBVIOUS
<1> USE DEF DrainInv, Done, Settled
<1>0. /\ at \in Nat /\ phases \in Nat /\ phases <= Len(Phases) /\ at <= phases
      /\ disposal \in [Participant -> {"none", "running", "ok", "failed"}]
      /\ loop \in {"idle", "next", "phase", "ended"}
  BY Bounds
<1>1. CASE BeginPhase
  <2>1. loop = "next" /\ loop' = "phase" /\ at' = at + 1 /\ counted' = counted
    BY <1>1 DEF BeginPhase
  <2>2. at + 1 \in 1..Len(Phases)
    BY <1>0, <1>1, PhaseIsSet DEF BeginPhase
  <2>3. ASSUME NEW i \in 1..Len(Phases), NEW p \in Phases[i]
        PROVE  /\ at' < i => disposal'[p] = "none"
               /\ i <= at' => disposal'[p] # "none"
               /\ i < at' => Settled(p)' /\ (disposal'[p] = "failed" => p \in counted')
    <3>1. p \in Participant
      BY <2>3, PhaseIsSet
    <3>2. p \in Phases[at + 1] <=> i = at + 1
      BY <2>2, <2>3, RuntimeAssumption
    <3>3. disposal'[p] = IF i = at + 1 THEN "running" ELSE disposal[p]
      BY <1>1, <3>1, <3>2 DEF BeginPhase
    <3>4. QED
      BY <1>0, <2>1, <2>3, <3>3
  <2>4. QED
    BY <1>0, <2>1, <2>3
<1>2. ASSUME NEW q \in Participant, Disposed(q) PROVE DrainInv'
  <2>1. UNCHANGED <<at, loop, counted>> /\ disposal[q] = "running"
    BY <1>2 DEF Disposed
  <2>2. ASSUME NEW p \in Participant
        PROVE  p # q => disposal'[p] = disposal[p]
    BY <1>0, <1>2 DEF Disposed
  <2>3. disposal'[q] \in {"ok", "failed"}
    BY <1>0, <1>2 DEF Disposed
  <2>4. QED
    BY <2>1, <2>2, <2>3, PhaseIsSet
<1>3. CASE EndPhase
  <2>1. /\ loop = "phase" /\ loop' = "next" /\ UNCHANGED <<at, disposal>>
        /\ \A p \in Phases[at] : disposal[p] # "running"
        /\ counted' = counted \cup {p \in Phases[at] : disposal[p] = "failed"}
    BY <1>3 DEF EndPhase
  <2>2. ASSUME NEW i \in 1..Len(Phases), NEW p \in Phases[i]
        PROVE  i <= at => Settled(p) /\ (disposal[p] = "failed" => p \in counted')
    <3>1. p \in Participant
      BY <2>2, PhaseIsSet
    <3>2. CASE i = at
      BY <1>0, <2>1, <2>2, <3>1, <3>2
    <3>3. CASE i < at
      BY <1>0, <2>1, <2>2, <3>3
    <3>4. QED
      BY <1>0, <3>2, <3>3
  <2>3. QED
    BY <1>0, <2>1, <2>2
<1>4. CASE EndPhases
  BY <1>4 DEF EndPhases
<1>5. CASE Drain \/ DrainDirectly
  BY <1>5 DEF Drain, DrainDirectly, Shutdown, runVars
<1>6. CASE UNCHANGED <<at, loop, disposal, counted>>
  BY <1>6
<1>7. QED
  BY <1>1, <1>2, <1>3, <1>4, <1>5, <1>6
  DEF Next, LibraryStep, AddPhase, Timeout, Run, StartupSettles, Triggered, Exit, vars, drainVars

LEMMA ResultStep == TypeOK /\ ResultInv /\ [Next]_vars => ResultInv'
<1> SUFFICES ASSUME TypeOK, ResultInv, [Next]_vars PROVE ResultInv'
  OBVIOUS
<1> USE RuntimeAssumption DEF ResultInv
<1>0. /\ at \in Nat /\ phases \in Nat /\ serving \in Nat /\ at <= phases /\ serving <= phases
      /\ pc \in {"new", "startup", "waiting", "draining", "exited"}
      /\ result \in [timedOut : BOOLEAN, errors : BOOLEAN] \cup {NoResult}
  BY PhaseIsSet DEF TypeOK
<1>1. CASE AddPhase \/ (\E p \in Participant : Disposed(p))
  BY <1>1 DEF AddPhase, Disposed, runVars
<1>2. CASE BeginPhase \/ EndPhase
  BY <1>0, <1>2 DEF BeginPhase, EndPhase, runVars
<1>3. CASE EndPhases
  <2>1. /\ loop = "next" /\ loop' = "ended" /\ at = phases
        /\ UNCHANGED <<pc, exitCode, at, counted, serving, direct>>
    BY <1>3 DEF EndPhases, runVars
  <2>2. \/ result # NoResult /\ result' = result
        \/ ~result'.timedOut /\ result'.errors = (counted # {})
    BY <1>3, ResultValue DEF EndPhases
  <2>3. result = NoResult \/ result.timedOut
    BY <2>1
  <2>4. result' # NoResult /\ ~result'.timedOut => (result'.errors <=> counted' # {})
    BY <2>1, <2>2, <2>3
  <2>5. exitCode # 0
    BY <2>1
  <2>6. QED
    BY <1>0, <2>1, <2>4, <2>5
<1>4. CASE Timeout
  <2>1. UNCHANGED <<pc, exitCode, loop, at, counted, serving, direct>> /\ result = NoResult
    BY <1>4 DEF Timeout, runVars
  <2>2. result'.timedOut
    BY <1>4, ResultValue DEF Timeout
  <2>3. QED
    BY <2>1, <2>2
<1>5. CASE Run \/ StartupSettles
  BY <1>0, <1>5 DEF Run, StartupSettles, drainVars
<1>6. ASSUME NEW c \in Cause, Triggered(c) PROVE ResultInv'
  BY <1>6 DEF Triggered, drainVars
<1>7. CASE Drain \/ DrainDirectly
  BY <1>0, <1>7 DEF Drain, DrainDirectly, Shutdown, runVars
<1>8. CASE Exit
  BY <1>0, <1>8 DEF Exit, drainVars
<1>9. CASE UNCHANGED vars
  BY <1>9 DEF vars, runVars, drainVars
<1>10. QED
  BY <1>1, <1>2, <1>3, <1>4, <1>5, <1>6, <1>7, <1>8, <1>9 DEF Next, LibraryStep

LEMMA Invariance == Spec => []IInv
<1>1. IInv /\ [Next]_vars => IInv'
  BY TypeStep, DrainStep, ResultStep DEF IInv
<1>2. QED
  BY InitInv, <1>1, PTL DEF Spec

(* The variables keep their types; the drain never begins a phase that has *)
(* not been added (shutdown-manager.ts).                                   *)
THEOREM TypeCorrect == Spec => []TypeOK
<1>1. IInv => TypeOK
  BY DEF IInv
<1>2. QED
  BY <1>1, Invariance, PTL

(* A phase is begun only when all of the phases before it is disposed of,  *)
(* whatever failed and whether or not the drain timed out.                 *)
THEOREM InOrder == Spec => []PhasesInOrder
<1>1. IInv => PhasesInOrder
  BY PhaseIsSet DEF IInv, TypeOK, DrainInv, Done, PhasesInOrder
<1>2. QED
  BY <1>1, Invariance, PTL

(* Exit code 0 is given only after a drain without errors of all the       *)
(* phases there were when startup ended.                                   *)
THEOREM ZeroIsClean == Spec => []CleanExit
<1>1. IInv => CleanExit
  <2> SUFFICES ASSUME IInv, exitCode = 0
               PROVE  /\ \A i \in 1..at : \A p \in Phases[i] : disposal[p] = "ok"
                      /\ ~direct => serving <= at
    BY DEF CleanExit
  <2>1. loop = "ended" /\ counted = {}
    BY DEF IInv, ResultInv
  <2>2. at \in Nat /\ at <= Len(Phases)
    BY PhaseIsSet DEF IInv, TypeOK
  <2>3. QED
    BY <2>1, <2>2, PhaseIsSet DEF IInv, DrainInv, ResultInv, Done, Settled
<1>2. QED
  BY <1>1, Invariance, PTL

(* However many triggers and callers of shutdown() there are, nobody's     *)
(* dispose() is called again once it has settled.                          *)
THEOREM NotDisposedTwice == Spec => DisposedOnce
<1>1. ASSUME IInv, [Next]_vars PROVE [\A p \in Participant : Settled(p) => disposal'[p] = disposal[p]]_vars
  <2>1. ASSUME NEW p \in Participant, Settled(p), BeginPhase PROVE disposal'[p] = disposal[p]
    <3>1. at \in Nat /\ at + 1 \in 1..Len(Phases) /\ at < at + 1
      BY <1>1, <2>1, Bounds DEF BeginPhase, IInv
    <3>2. p \notin Phases[at + 1]
      BY <1>1, <2>1, <3>1 DEF IInv, DrainInv, Settled
    <3>3. QED
      BY <2>1, <3>2 DEF BeginPhase
  <2>2. ASSUME NEW p \in Participant, Settled(p), NEW q \in Participant, Disposed(q)
        PROVE  disposal'[p] = disposal[p]
    BY <1>1, <2>2, Bounds DEF Disposed, Settled, IInv
  <2>3. QED
    BY <1>1, <2>1, <2>2
    DEF Next, LibraryStep, AddPhase, EndPhase, EndPhases, Timeout, Run, StartupSettles, Triggered,
        Drain, DrainDirectly, Exit, vars, drainVars
<1>2. QED
  BY <1>1, Invariance, PTL DEF Spec, DisposedOnce
=============================================================================
