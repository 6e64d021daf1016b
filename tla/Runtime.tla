------------------------------- MODULE Runtime -------------------------------
(***************************************************************************)
(* packages/runtime: the life of a process under Runtime.run, and the      *)
(* ShutdownManager it drains through.  Startup, the disposal of each       *)
(* participant, triggers, the timeout and further callers of shutdown()    *)
(* interleave; a participant may hang, and so may startup.                 *)
(***************************************************************************)
EXTENDS Naturals, Sequences, FiniteSets

CONSTANTS
  Participant,  \* what is disposed of at shutdown
  Phases,       \* the phases the application adds, in order: sets of participants
  NoCause,
  NoResult

ASSUME RuntimeAssumption ==
  /\ Phases \in Seq(SUBSET Participant)
  /\ \A i, j \in 1..Len(Phases) : i # j => Phases[i] \cap Phases[j] = {}
  /\ NoResult # 0 /\ NoResult \notin [timedOut : BOOLEAN, errors : BOOLEAN]

(* ShutdownCause *)
Cause == {"signal", "uncaught-exception", "programmatic", "startup-error"}

VARIABLES
  pc,           \* where run() stands
  startup,      \* the startup callback
  cause,        \* the first trigger
  exitCode

runVars == <<pc, startup, cause, exitCode>>

VARIABLES
  phases,       \* how many phases have been added
  loop,         \* the phase loop of ShutdownManager.run
  at,           \* phases begun
  disposal,     \* dispose() of each participant
  counted,      \* participants whose errors are in phaseResults
  result        \* what shutdown() resolved to

drainVars == <<phases, loop, at, disposal, counted, result>>

VARIABLES       \* what an observer notes
  serving,      \* phases that had been added when startup settled
  direct        \* other code has called shutdown() too

vars == <<runVars, drainVars, serving, direct>>

TypeOK ==
  /\ pc \in {"new", "startup", "waiting", "draining", "exited"}
  /\ startup \in {"none", "running", "ok", "failed"}
  /\ cause \in Cause \cup {NoCause}
  /\ exitCode \in {NoResult, 0, 1}
  /\ phases \in 0..Len(Phases) /\ at \in 0..phases /\ serving \in 0..phases
  /\ loop \in {"idle", "next", "phase", "ended"}
  /\ disposal \in [Participant -> {"none", "running", "ok", "failed"}]
  /\ counted \subseteq Participant
  /\ result \in [timedOut : BOOLEAN, errors : BOOLEAN] \cup {NoResult}
  /\ direct \in BOOLEAN

Init ==
  /\ pc = "new" /\ startup = "none" /\ cause = NoCause /\ exitCode = NoResult
  /\ phases = 0 /\ loop = "idle" /\ at = 0
  /\ disposal = [p \in Participant |-> "none"]
  /\ counted = {} /\ result = NoResult
  /\ serving = 0 /\ direct = FALSE

Alive == pc # "exited"

-----------------------------------------------------------------------------
(* ShutdownManager.                                                        *)

(* Phases are usually added by startup; the phase loop iterates the list   *)
(* itself and sees one that is added while it runs.                        *)
AddPhase ==
  /\ Alive
  /\ phases < Len(Phases)
  /\ phases' = phases + 1
  /\ UNCHANGED <<runVars, loop, at, disposal, counted, result, serving, direct>>

(* Mutant: a second caller of shutdown drains anew.                        *)
ShutdownAgain ==
  /\ loop' = "next"
  /\ at' = 0

(* shutdown: callers share one drain.                                      *)
Shutdown ==
  /\ loop' = IF loop = "idle" THEN "next" ELSE loop
  /\ UNCHANGED at

BeginPhase ==
  /\ Alive
  /\ loop = "next" /\ at < phases
  /\ loop' = "phase"
  /\ at' = at + 1
  /\ disposal' = [p \in Participant |-> IF p \in Phases[at + 1] THEN "running" ELSE disposal[p]]
  /\ UNCHANGED <<runVars, phases, counted, result, serving, direct>>

(* dispose() of a participant resolves, rejects or throws.                 *)
Disposed(p) ==
  /\ Alive
  /\ disposal[p] = "running"
  /\ \E outcome \in {"ok", "failed"} : disposal' = [disposal EXCEPT ![p] = outcome]
  /\ UNCHANGED <<runVars, phases, loop, at, counted, result, serving, direct>>

(* Mutant: the phase ends with the first participant that is done.         *)
EndPhaseOnFirst ==
  /\ Alive
  /\ loop = "phase"
  /\ Phases[at] = {} \/ \E p \in Phases[at] : disposal[p] # "running"
  /\ loop' = "next"
  /\ counted' = counted \cup {p \in Phases[at] : disposal[p] = "failed"}
  /\ UNCHANGED <<runVars, phases, at, disposal, result, serving, direct>>

(* Promise.all over participants that cannot reject: the phase ends when   *)
(* all of them have settled, and its errors enter phaseResults.            *)
EndPhase ==
  /\ Alive
  /\ loop = "phase"
  /\ \A p \in Phases[at] : disposal[p] # "running"
  /\ loop' = "next"
  /\ counted' = counted \cup {p \in Phases[at] : disposal[p] = "failed"}
  /\ UNCHANGED <<runVars, phases, at, disposal, result, serving, direct>>

(* Mutant: errors of participants are not in the result.                   *)
ResolveIgnoringErrors(timedOut) ==
  result' = [timedOut |-> timedOut, errors |-> FALSE]

(* The race of the phases against the timeout is decided.                  *)
Resolve(timedOut) ==
  result' = [timedOut |-> timedOut, errors |-> counted # {}]

EndPhases ==
  /\ Alive
  /\ loop = "next" /\ at = phases
  /\ loop' = "ended"
  /\ IF result = NoResult THEN Resolve(FALSE) ELSE UNCHANGED result
  /\ UNCHANGED <<runVars, phases, at, disposal, counted, serving, direct>>

(* Mutant: the time is looked at between phases.                           *)
TimeoutBetweenPhases ==
  /\ Alive
  /\ loop = "next" /\ result = NoResult
  /\ Resolve(TRUE)
  /\ UNCHANGED <<runVars, phases, loop, at, disposal, counted, serving, direct>>

(* timeoutMs have passed. The phases go on, until the process exits.       *)
Timeout ==
  /\ Alive
  /\ loop # "idle" /\ result = NoResult
  /\ Resolve(TRUE)
  /\ UNCHANGED <<runVars, phases, loop, at, disposal, counted, serving, direct>>

-----------------------------------------------------------------------------
(* Runtime.                                                                *)

(* run: handlers are armed, startup is called.                             *)
Run ==
  /\ pc = "new"
  /\ pc' = "startup"
  /\ startup' = "running"
  /\ UNCHANGED <<cause, exitCode, drainVars, serving, direct>>

(* trigger: the first cause counts.                                        *)
Trigger(c) == cause' = IF cause = NoCause THEN c ELSE cause

(* A signal or an uncaught error, once handlers are armed; triggerShutdown *)
(* at any time.                                                            *)
Triggered(c) ==
  /\ Alive
  /\ cause = NoCause
  /\ pc = "new" => c = "programmatic"
  /\ Trigger(c)
  /\ UNCHANGED <<pc, startup, exitCode, drainVars, serving, direct>>

(* A trigger received meanwhile waits for startup to settle.               *)
StartupSettles ==
  /\ pc = "startup"
  /\ pc' = "waiting"
  /\ \/ startup' = "ok" /\ UNCHANGED cause
     \/ startup' = "failed" /\ Trigger("startup-error")
  /\ serving' = phases
  /\ UNCHANGED <<exitCode, drainVars, direct>>

Drain ==
  /\ pc = "waiting" /\ cause # NoCause
  /\ pc' = "draining"
  /\ Shutdown
  /\ UNCHANGED <<startup, cause, exitCode, phases, disposal, counted, result, serving, direct>>

(* Other code calls shutdown() itself.                                     *)
DrainDirectly ==
  /\ Alive
  /\ ~direct
  /\ direct' = TRUE
  /\ Shutdown
  /\ UNCHANGED <<runVars, phases, disposal, counted, result, serving>>

(* Mutant: the number of errors is the exit code.                          *)
ExitErrorCount ==
  /\ pc = "draining" /\ result # NoResult
  /\ pc' = "exited"
  /\ exitCode' = IF cause = "startup-error" \/ result.timedOut THEN 1 ELSE Cardinality(counted)
  /\ UNCHANGED <<startup, cause, drainVars, serving, direct>>

(* computeExitCode, and exit.                                              *)
Exit ==
  /\ pc = "draining" /\ result # NoResult
  /\ pc' = "exited"
  /\ exitCode' = IF cause = "startup-error" \/ result.timedOut \/ result.errors THEN 1 ELSE 0
  /\ UNCHANGED <<startup, cause, drainVars, serving, direct>>

-----------------------------------------------------------------------------
(* What the library does by itself, as opposed to the application and the  *)
(* operating system.                                                       *)
LibraryStep == BeginPhase \/ EndPhase \/ EndPhases \/ Timeout \/ Drain \/ Exit

Next ==
  \/ LibraryStep
  \/ Run \/ StartupSettles \/ AddPhase \/ DrainDirectly
  \/ \E c \in Cause \ {"startup-error"} : Triggered(c)
  \/ \E p \in Participant : Disposed(p)

Spec == Init /\ [][Next]_vars

(* Promises that have resolved are continued and timers fire. Nothing is   *)
(* assumed of startup, of dispose(), or of anyone asking for a shutdown.   *)
FairSpec == Spec /\ WF_vars(BeginPhase \/ EndPhase \/ EndPhases)
                 /\ WF_vars(Timeout) /\ WF_vars(Drain \/ Exit)

-----------------------------------------------------------------------------
Settled(p) == disposal[p] \in {"ok", "failed"}

(* Phases in order: nothing of a phase is disposed of before everything of *)
(* the phases before it is, whatever failed and whether or not the drain   *)
(* has timed out, so that a database outlives the workers that use it.     *)
PhasesInOrder ==
  \A i, j \in 1..Len(Phases) : \A p \in Phases[i], q \in Phases[j] :
    i < j /\ disposal[q] # "none" => Settled(p)

(* Exit code 0 says that the process drained cleanly: every participant of *)
(* every phase added by the end of startup was disposed of without error,  *)
(* and so was every phase begun later. A direct caller of shutdown() may   *)
(* have drained before startup added its phases.                           *)
CleanExit ==
  exitCode = 0 =>
    /\ \A i \in 1..at : \A p \in Phases[i] : disposal[p] = "ok"
    /\ ~direct => serving <= at

(* shutdown is idempotent: nothing is disposed of twice, although triggers *)
(* and direct callers come in any order.                                   *)
DisposedOnce ==
  [][\A p \in Participant : Settled(p) => disposal'[p] = disposal[p]]_vars

(* Time-bounded: once startup has settled, a trigger ends the process,     *)
(* though participants hang.                                               *)
TriggerEndsProcess == pc = "waiting" /\ cause # NoCause ~> pc = "exited"

(* "0 if everything drained cleanly, 1 otherwise (startup error, ...)": a  *)
(* process whose startup failed exits with 1.                              *)
FailedStartupExitsOne == startup = "failed" /\ pc = "exited" => exitCode = 1
=============================================================================
