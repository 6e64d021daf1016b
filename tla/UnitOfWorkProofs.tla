-------------------------- MODULE UnitOfWorkProofs --------------------------
(***************************************************************************)
(* Proofs about UnitOfWork for any number of callers and calls, any pool,  *)
(* and any number of faults: connections return, an update is lost only    *)
(* within a millisecond, a locked read conflicts only with itself, and the *)
(* calls of careful callers are atomic.                                    *)
(*                                                                         *)
(* The inductive invariant has one part for each of them: CallInv says how *)
(* far a call is by its pc, PoolInv counts the connections, LockInv says   *)
(* that the row is still the one a transaction locked, VersionInv that     *)
(* every version of the row was committed with its stamp, and AtomInv that *)
(* a call is stored from its commit on, and not before.                    *)
(***************************************************************************)
EXTENDS UnitOfWork, FiniteSetTheorems, TLAPS

AggType ==
  [loaded : {"no", "locked", "optimistic"}, ver : Nat, stamp : 0..MaxTime, events : SUBSET Call]
TrxType ==
  [session : {"none", "open", "aborted", "lost"}, began : 0..MaxTime,
   write : {"none", "update", "delete"}, changes : 0..2, sunk : SUBSET Call]

(* TypeOK in four parts, without the bounds of the pool that PoolInv gives.*)
RowOK ==
  /\ row \in [ver : Nat, stamp : 0..MaxTime, live : BOOLEAN]
  /\ locker \in Worker \cup {NoWorker}
  /\ stored \subseteq Call /\ sunk \subseteq Call /\ overwrote \subseteq Call
  /\ now \in 1..MaxTime /\ faults \in 0..MaxFaults
  /\ wroteAt \in [Call -> 0..MaxTime]

PcOK ==
  /\ types \in BOOLEAN
  /\ pc \in [Worker -> Pc]
  /\ calls \in [Worker -> Nat] /\ \A w \in Worker : calls[w] <= CallsOf[w]
  /\ error \in [Worker -> {"none", "operation", "conflict", "commit", "rollback"}]
  /\ answer \in [Call -> {"none", "resolved", "rejected", "unknown"}]

AggOK == agg \in [Worker -> AggType]
TrxOK == trx \in [Worker -> TrxType]

StateOK == RowOK /\ PcOK /\ AggOK /\ TrxOK

Before == {"working", "fetching", "sinking", "committing"}

CallOK(w) ==
  /\ pc[w] # "idle" => calls[w] > 0
  /\ pc[w] \in {"idle", "connecting"} => trx[w] = NoTrx
  /\ pc[w] = "fetching" => trx[w].session = "open"
  /\ pc[w] \in {"idle", "connecting"} \cup Before => error[w] = "none"
  /\ pc[w] = "rollback" => error[w] \in {"operation", "conflict", "commit"}
  /\ trx[w].session # "none" => trx[w].began > 0
  /\ trx[w].changes = 0 <=> trx[w].write = "none"

CallInv == \A w \in Worker : CallOK(w)

Holding == {w \in Worker : pc[w] \notin {"idle", "connecting"}}
Fetching == {w \in Worker : pc[w] = "fetching"}

PoolInv ==
  /\ free \in Nat /\ leaked \in Nat /\ leaked <= faults
  /\ free + Cardinality(Holding) + Cardinality(Fetching) + leaked = PoolSize

(* What a transaction has locked stays as it found it.                     *)
LockOK(w) ==
  /\ trx[w].session = "open" =>
       /\ pc[w] \in Before \cup {"rollback"}
       /\ trx[w].write # "none" => locker = w /\ agg[w].loaded # "no"
       /\ trx[w].write = "update" => row.live
       /\ agg[w].loaded = "locked" /\ pc[w] \in Before =>
            /\ locker = w
            /\ trx[w].changes = 0 => row.live /\ row.stamp = agg[w].stamp
  /\ pc[w] = "connecting" => agg[w].loaded # "locked"
  /\ error[w] = "conflict" /\ agg[w].loaded = "locked" => trx[w].changes > 0

LockInv == \A w \in Worker : LockOK(w)

OneMs == \E c, d \in stored : c # d /\ wroteAt[c] = wroteAt[d]

(* v is the version each stored call made of the row.                      *)
Versions(v) ==
  /\ \A c \in stored : v[c] \in 1..row.ver /\ wroteAt[c] > 0
  /\ \A c, d \in stored : v[c] = v[d] => c = d
  /\ row.live /\ row.ver = 0 => row.stamp = 0
  /\ row.live /\ row.ver > 0 => \E c \in stored : v[c] = row.ver /\ wroteAt[c] = row.stamp
  /\ \A w \in Worker : agg[w].loaded # "no" =>
       /\ agg[w].ver = 0 => agg[w].stamp = 0
       /\ agg[w].ver > 0 => \E c \in stored : v[c] = agg[w].ver /\ wroteAt[c] = agg[w].stamp

Noted(w) ==
  trx[w].session = "open" /\ trx[w].write = "update" /\ row.ver # agg[w].ver => overwrote # {}

VersionInv ==
  /\ \E v \in [Call -> Nat] : Versions(v)
  /\ overwrote # {} => OneMs
  /\ \A w \in Worker : Noted(w)

(* When a call's rows are stored, what its answer then may be, and, for a  *)
(* careful caller, what its transaction carries.                           *)
Stages(w) ==
  /\ pc[w] \in {"connecting"} \cup Before => Current(w) \notin stored
  /\ pc[w] = "rollback" /\ trx[w].session \in {"open", "aborted"} => Current(w) \notin stored
  /\ pc[w] = "releasing" /\ error[w] \in {"operation", "conflict", "commit"}
       => Current(w) \notin stored
  /\ pc[w] = "releasing" /\ error[w] = "none" /\ w \in Careful => Current(w) \in stored

Carries(w) ==
  /\ pc[w] \in Before => trx[w].session = "open"
  /\ pc[w] \in {"connecting", "working", "fetching"} /\ agg[w].loaded # "no"
       => agg[w].events = {Current(w)}
  /\ pc[w] \in {"sinking", "committing"} => trx[w].write # "none" /\ trx[w].sunk = {Current(w)}

Ahead(w) ==
  \A n \in Nat : <<w, n>> \in Call =>
    /\ <<w, n>> \in stored => n <= calls[w]
    /\ n > calls[w] \/ (n = calls[w] /\ pc[w] # "idle") => answer[<<w, n>>] = "none"

AtomOK(w) ==
  /\ Stages(w) /\ Ahead(w)
  /\ agg[w].events \subseteq {w} \X Nat /\ trx[w].sunk \subseteq {w} \X Nat
  /\ w \in Careful => Carries(w)

AtomInv == \A w \in Worker : AtomOK(w)

IInv == StateOK /\ CallInv /\ PoolInv /\ LockInv /\ VersionInv /\ AtomInv

LEMMA CallMember ==
  \A w \in Worker : \A n \in Nat : <<w, n>> \in Call <=> n > 0 /\ n <= CallsOf[w]
BY UnitOfWorkAssumption DEF Call

LEMMA CurrentIsCall ==
  ASSUME PcOK, CallInv, NEW w \in Worker, pc[w] # "idle"
  PROVE  Current(w) \in Call
BY CallMember DEF PcOK, CallInv, CallOK, Current

LEMMA Values ==
  /\ NoAgg \in AggType
  /\ NoTrx \in TrxType
  /\ \A t \in TrxType, how \in {"none", "open", "aborted", "lost"} :
       [t EXCEPT !.session = how] \in TrxType
BY UnitOfWorkAssumption DEF NoAgg, NoTrx, AggType, TrxType

LEMMA InitInv == Init => IInv
<1> SUFFICES ASSUME Init PROVE IInv
  OBVIOUS
<1> USE UnitOfWorkAssumption
<1>1. StateOK
  <2>1. RowOK
    <3>1. row \in [ver : Nat, stamp : 0..MaxTime, live : BOOLEAN] /\ now \in 1..MaxTime
      BY DEF Init
    <3>2. faults \in 0..MaxFaults /\ wroteAt \in [Call -> 0..MaxTime]
      BY DEF Init
    <3>3. QED
      BY <3>1, <3>2 DEF Init, RowOK
  <2>2. PcOK
    <3>1. calls \in [Worker -> Nat] /\ \A w \in Worker : calls[w] <= CallsOf[w]
      BY DEF Init
    <3>2. pc \in [Worker -> Pc]
      BY DEF Init, Pc
    <3>3. QED
      BY <3>1, <3>2 DEF Init, PcOK
  <2>3. AggOK /\ TrxOK
    BY Values DEF Init, AggOK, TrxOK
  <2>4. QED
    BY <2>1, <2>2, <2>3 DEF StateOK
<1>2. CallInv
  BY DEF Init, CallInv, CallOK, NoTrx, Before
<1>3. PoolInv
  <2>1. Holding = {} /\ Fetching = {}
    BY DEF Init, Holding, Fetching
  <2>2. QED
    BY <2>1, FS_EmptySet DEF Init, PoolInv
<1>4. LockInv
  BY DEF Init, LockInv, LockOK, NoTrx, NoAgg
<1>5. VersionInv
  <2> DEFINE v == [c \in Call |-> 0]
  <2>1. Versions(v)
    BY DEF Init, Versions, NoAgg
  <2>2. QED
    BY <2>1 DEF Init, VersionInv, Noted, NoTrx
<1>6. AtomInv
  BY DEF Init, AtomInv, AtomOK, Stages, Ahead, Carries, NoAgg, NoTrx, Before
<1>7. QED
  BY <1>1, <1>2, <1>3, <1>4, <1>5, <1>6 DEF IInv

-----------------------------------------------------------------------------
(* Types.                                                                  *)

LEMMA AggStep ==
  ASSUME PcOK, CallInv, RowOK, AggOK, [Next]_vars
  PROVE  AggOK'
<1> USE DEF AggOK
<1>1. ASSUME NEW w \in Worker, CallStep(w) PROVE AggOK'
  <2>1. calls[w] < CallsOf[w] => <<w, calls[w] + 1>> \in Call
    <3>1. calls[w] \in Nat /\ CallsOf[w] \in Nat
      BY UnitOfWorkAssumption DEF PcOK
    <3>2. QED
      BY <3>1, CallMember
  <2>2. ASSUME NEW instance \in AggType, StartCall(w, instance) PROVE AggOK'
    BY <2>2 DEF StartCall
  <2>3. CASE CallTransaction(w)
    BY <2>2, <2>3, Values DEF CallTransaction
  <2>4. CASE CallWithLoaded(w)
    <3>1. calls[w] < CallsOf[w]
      BY <2>4 DEF CallWithLoaded, StartCall
    <3>2. [loaded |-> "optimistic", ver |-> row.ver, stamp |-> row.stamp,
           events |-> {<<w, calls[w] + 1>>}] \in AggType
      BY <2>1, <3>1 DEF RowOK, AggType
    <3>3. QED
      BY <2>2, <2>4, <3>2 DEF CallWithLoaded
  <2>5. CASE CallWithKept(w)
    <3>1. \A a \in AggType : [a EXCEPT !.loaded = "optimistic"] \in AggType
      BY DEF AggType
    <3>2. QED
      BY <2>2, <2>5, <3>1 DEF CallWithKept
  <2>6. QED
    BY <1>1, <2>3, <2>4, <2>5 DEF CallStep
<1>2. ASSUME NEW w \in Worker, LoadForUpdate(w) PROVE AggOK'
  <2>1. Current(w) \in Call
    BY <1>2, CurrentIsCall DEF LoadForUpdate, Statement, Working
  <2>2. [loaded |-> "locked", ver |-> row.ver, stamp |-> row.stamp,
         events |-> {Current(w)}] \in AggType
    BY <2>1 DEF RowOK, AggType
  <2>3. QED
    BY <1>2, <2>2 DEF LoadForUpdate
<1>3. ASSUME NEW w \in Worker, OperationResolves(w) PROVE AggOK'
  <2>1. \A a \in AggType : [a EXCEPT !.events = {}] \in AggType
    BY DEF AggType
  <2>2. QED
    BY <1>3, <2>1 DEF OperationResolves
<1>4. ASSUME NEW w \in Worker, Release(w) PROVE AggOK'
  BY <1>4, Values DEF Release, Answered
<1>5. ASSUME NEW w \in Worker, UNCHANGED agg PROVE AggOK'
  BY <1>5
<1>6. QED
  BY <1>1, <1>2, <1>3, <1>4, <1>5
  DEF Next, OperationStep, TransactionStep, vars, Fetch, Fetched, FetchFails, LoadMissing, Conflict,
      Write, StatementFails, StatementFailsIgnored, SessionEnds, OperationThrows, Begin, BeginFails,
      Sink, SinkFails, Commit, CommitFails, Rollback, RollbackFails

LEMMA TrxStep ==
  ASSUME RowOK, AggOK, TrxOK, [Next]_vars
  PROVE  TrxOK'
<1> USE DEF TrxOK
<1>1. ASSUME NEW w \in Worker, NEW how \in {"none", "open", "aborted", "lost"},
             trx' = [trx EXCEPT ![w].session = how]
      PROVE  TrxOK'
  BY <1>1, Values
<1>2. ASSUME NEW w \in Worker, Begin(w) PROVE TrxOK'
  <2>1. now' \in 0..MaxTime
    BY <1>2, UnitOfWorkAssumption DEF Begin, RowOK
  <2> DEFINE u == [NoTrx EXCEPT !.session = "open"]
             t == [u EXCEPT !.began = now']
  <2>2. u \in TrxType
    BY Values
  <2> HIDE DEF u
  <2>3. t \in TrxType
    BY <2>1, <2>2 DEF TrxType
  <2> HIDE DEF t
  <2>4. trx' = [trx EXCEPT ![w] = t]
    BY <1>2 DEF Begin, t, u
  <2>5. QED
    BY <2>3, <2>4
<1>3. ASSUME NEW w \in Worker, NEW kind \in {"update", "delete"}, Write(w, kind) PROVE TrxOK'
  <2> DEFINE t == [trx[w] EXCEPT !.write = kind]
             u == [t EXCEPT !.changes = @ + 1]
  <2>1. trx[w] \in TrxType /\ trx[w].changes < 2
    BY <1>3 DEF Write
  <2>2. t \in TrxType /\ t.changes < 2
    BY <2>1 DEF TrxType
  <2> HIDE DEF t
  <2>3. u \in TrxType
    BY <2>2 DEF TrxType
  <2>4. trx' = [trx EXCEPT ![w] = u]
    BY <1>3 DEF Write, t
  <2> HIDE DEF u
  <2>5. QED
    BY <2>3, <2>4
<1>4. ASSUME NEW w \in Worker, OperationResolves(w) PROVE TrxOK'
  <2>1. agg[w].events \in SUBSET Call
    BY DEF AggOK, AggType
  <2>2. \A t \in TrxType : [t EXCEPT !.sunk = agg[w].events] \in TrxType
    BY <2>1 DEF TrxType
  <2>3. QED
    BY <1>4, <2>2 DEF OperationResolves
<1>5. ASSUME NEW w \in Worker, NEW how \in {"aborted", "lost"}, SessionEnds(w, how) PROVE TrxOK'
  BY <1>1, <1>5 DEF SessionEnds
<1>6. ASSUME NEW w \in Worker, SinkFails(w) \/ Commit(w) \/ CommitFails(w) PROVE TrxOK'
  BY <1>1, <1>6 DEF SinkFails, Commit, CommitFails
<1>7. ASSUME NEW w \in Worker, Rollback(w) \/ RollbackFails(w) PROVE TrxOK'
  BY <1>1, <1>7 DEF Rollback, RollbackFails
<1>8. ASSUME NEW w \in Worker, Release(w) PROVE TrxOK'
  BY <1>8, Values DEF Release, Answered
<1>9. ASSUME NEW w \in Worker, UNCHANGED trx PROVE TrxOK'
  BY <1>9
<1>10. QED
  BY <1>2, <1>3, <1>4, <1>5, <1>6, <1>7, <1>8, <1>9
  DEF Next, OperationStep, TransactionStep, vars, CallStep, CallTransaction, CallWithLoaded,
      CallWithKept, StartCall, BeginFails, Fetch, Fetched, FetchFails, LoadForUpdate, LoadMissing,
      Conflict, StatementFails, StatementFailsIgnored, OperationThrows, Sink

LEMMA ApplyOK ==
  ASSUME RowOK, TrxOK, NEW w \in Worker, Current(w) \in Call, Apply(w)
  PROVE  /\ row' \in [ver : Nat, stamp : 0..MaxTime, live : BOOLEAN]
         /\ locker' \in Worker \cup {NoWorker}
         /\ stored' \subseteq Call /\ sunk' \subseteq Call
         /\ wroteAt' \in [Call -> 0..MaxTime]
<1>1. trx[w].began \in 0..MaxTime /\ trx[w].sunk \subseteq Call
  BY DEF TrxOK, TrxType
<1>2. row' \in [ver : Nat, stamp : 0..MaxTime, live : BOOLEAN]
  <2> DEFINE next == [row EXCEPT !.ver = @ + 1]
  <2>1. next \in [ver : Nat, stamp : 0..MaxTime, live : BOOLEAN]
    BY DEF RowOK
  <2> HIDE DEF next
  <2>2. /\ [next EXCEPT !.stamp = trx[w].began] \in [ver : Nat, stamp : 0..MaxTime, live : BOOLEAN]
        /\ [next EXCEPT !.live = FALSE] \in [ver : Nat, stamp : 0..MaxTime, live : BOOLEAN]
    BY <1>1, <2>1
  <2>3. row' \in {[next EXCEPT !.stamp = trx[w].began], [next EXCEPT !.live = FALSE], row}
    BY DEF Apply, next
  <2>4. QED
    BY <2>2, <2>3 DEF RowOK
<1>3. wroteAt' \in [Call -> 0..MaxTime]
  BY <1>1 DEF Apply, RowOK
<1>4. QED
  BY <1>1, <1>2, <1>3 DEF Apply, Unlock, RowOK

LEMMA RowStep ==
  ASSUME PcOK, CallInv, RowOK, TrxOK, [Next]_vars
  PROVE  RowOK'
<1> USE UnitOfWorkAssumption
<1>1. ASSUME UNCHANGED <<row, stored, sunk, wroteAt>>,
             locker' \in Worker \cup {NoWorker}, overwrote' \subseteq Call,
             now' \in 1..MaxTime, faults' \in 0..MaxFaults
      PROVE  RowOK'
  BY <1>1 DEF RowOK
<1>2. Fault => faults' \in 0..MaxFaults
  BY DEF Fault, RowOK
<1>3. \A w \in Worker : Unlock(w) => locker' \in Worker \cup {NoWorker}
  BY DEF Unlock, RowOK
<1>4. /\ overwrote \subseteq Call /\ now \in 1..MaxTime /\ faults \in 0..MaxFaults
      /\ locker \in Worker \cup {NoWorker}
  BY DEF RowOK
<1>5. ASSUME NEW w \in Worker, Begin(w) \/ BeginFails(w) PROVE RowOK'
  <2>1. now' \in now..MaxTime => now' \in 1..MaxTime
    BY <1>4
  <2>2. QED
    BY <1>1, <1>2, <1>4, <1>5, <2>1 DEF Begin, BeginFails, db
<1>6. ASSUME NEW w \in Worker, FetchFails(w) \/ LoadForUpdate(w) \/ Rollback(w) \/ RollbackFails(w)
      PROVE  RowOK'
  BY <1>1, <1>2, <1>3, <1>4, <1>6 DEF FetchFails, LoadForUpdate, Rollback, RollbackFails, db, env
<1>7. ASSUME NEW w \in Worker, NEW kind \in {"update", "delete"}, Write(w, kind) PROVE RowOK'
  <2>1. Current(w) \in Call
    BY <1>7, CurrentIsCall DEF Write, Statement, Working
  <2>2. QED
    BY <1>1, <1>4, <1>7, <2>1 DEF Write
<1>8. ASSUME NEW w \in Worker, NEW how \in {"aborted", "lost"}, SessionEnds(w, how) PROVE RowOK'
  BY <1>1, <1>2, <1>3, <1>4, <1>8 DEF SessionEnds
<1>9. ASSUME NEW w \in Worker, SinkFails(w) PROVE RowOK'
  BY <1>1, <1>2, <1>3, <1>4, <1>9 DEF SinkFails
<1>10. ASSUME NEW w \in Worker, Commit(w) \/ CommitFails(w) PROVE RowOK'
  <2>1. Current(w) \in Call
    BY <1>10, CurrentIsCall DEF Commit, CommitFails
  <2>2. CASE Apply(w) /\ overwrote' = overwrote /\ now' = now /\ (faults' = faults \/ Fault)
    BY <1>2, <1>4, <2>1, <2>2, ApplyOK DEF RowOK
  <2>3. CASE UNCHANGED <<row, stored, sunk, wroteAt, overwrote, now>> /\ (faults' = faults \/ Fault)
             /\ (locker' = locker \/ Unlock(w))
    BY <1>1, <1>2, <1>3, <1>4, <2>3
  <2>4. QED
    BY <1>10, <2>2, <2>3 DEF Commit, CommitFails, db
<1>11. ASSUME UNCHANGED <<db, env>> PROVE RowOK'
  BY <1>1, <1>4, <1>11 DEF db, env
<1>12. QED
  BY <1>5, <1>6, <1>7, <1>8, <1>9, <1>10, <1>11
  DEF Next, OperationStep, TransactionStep, vars, CallStep, CallTransaction, CallWithLoaded,
      CallWithKept, StartCall, Fetch, Fetched, LoadMissing, Conflict, StatementFails,
      StatementFailsIgnored, OperationThrows, OperationResolves, Sink, Release, Answered

LEMMA PcStep ==
  ASSUME PcOK, CallInv, [Next]_vars
  PROVE  PcOK'
<1> USE DEF Pc
<1> DEFINE Why == {"none", "operation", "conflict", "commit", "rollback"}
<1>1. ASSUME UNCHANGED <<types, calls, answer>>, NEW w \in Worker, NEW to \in Pc, NEW why \in Why,
             pc' = [pc EXCEPT ![w] = to] \/ pc' = pc,
             error' = [error EXCEPT ![w] = why] \/ error' = error
      PROVE  PcOK'
  BY <1>1 DEF PcOK
<1>2. ASSUME NEW w \in Worker, CallStep(w) PROVE PcOK'
  <2>1. ASSUME NEW instance, StartCall(w, instance), types' \in {types, TRUE} PROVE PcOK'
    <3>1. calls[w] \in Nat /\ CallsOf[w] \in Nat
      BY UnitOfWorkAssumption DEF PcOK
    <3>2. calls' \in [Worker -> Nat] /\ \A x \in Worker : calls'[x] <= CallsOf[x]
      BY <2>1, <3>1 DEF StartCall, PcOK
    <3>3. QED
      BY <2>1, <3>2 DEF StartCall, PcOK
  <2>2. QED
    BY <1>2, <2>1 DEF CallStep, CallTransaction, CallWithLoaded, CallWithKept
<1>3. ASSUME NEW w \in Worker, BeginFails(w) \/ Release(w) PROVE PcOK'
  <2>1. Current(w) \in Call
    BY <1>3, CurrentIsCall DEF BeginFails, Release, Answered
  <2>2. Verdict(w) \in {"none", "resolved", "rejected", "unknown"}
    BY DEF Verdict
  <2>3. QED
    BY <1>3, <2>1, <2>2 DEF BeginFails, Release, Answered, PcOK
<1>4. ASSUME NEW w \in Worker, Fetched(w) PROVE PcOK'
  BY <1>4 DEF Fetched, PcOK
<1>5. ASSUME NEW w \in Worker, Begin(w) \/ Fetch(w) \/ FetchFails(w) PROVE PcOK'
  BY <1>1, <1>5 DEF Begin, Fetch, FetchFails
<1>6. ASSUME NEW w \in Worker, LoadMissing(w) \/ Conflict(w) \/ OperationThrows(w) PROVE PcOK'
  BY <1>1, <1>6 DEF LoadMissing, Conflict, OperationThrows, Fail
<1>7. ASSUME NEW w \in Worker, OperationResolves(w) \/ Sink(w) \/ SinkFails(w) PROVE PcOK'
  BY <1>1, <1>7 DEF OperationResolves, Sink, SinkFails, Fail
<1>8. ASSUME NEW w \in Worker, NEW how \in {"aborted", "lost"},
             StatementFails(w, how) \/ StatementFailsIgnored(w, how)
      PROVE  PcOK'
  BY <1>1, <1>8 DEF StatementFails, StatementFailsIgnored, SessionEnds, Fail
<1>9. ASSUME NEW w \in Worker, Commit(w) \/ CommitFails(w) \/ Rollback(w) \/ RollbackFails(w)
      PROVE  PcOK'
  BY <1>1, <1>9 DEF Commit, CommitFails, Rollback, RollbackFails, Fail
<1>10. ASSUME UNCHANGED <<types, calls, answer, pc, error>> PROVE PcOK'
  BY <1>10 DEF PcOK
<1>11. QED
  BY <1>2, <1>3, <1>4, <1>5, <1>6, <1>7, <1>8, <1>9, <1>10
  DEF Next, OperationStep, TransactionStep, vars, LoadForUpdate, Write

-----------------------------------------------------------------------------
(* A step is one worker's: the calls of the others stand where they stood. *)

Step(w) == CallStep(w) \/ OperationStep(w) \/ OperationThrows(w) \/ TransactionStep(w)

LEMMA Others ==
  ASSUME StateOK, NEW w \in Worker, Step(w), NEW x \in Worker, x # w
  PROVE  /\ pc'[x] = pc[x] /\ calls'[x] = calls[x] /\ error'[x] = error[x]
         /\ agg'[x] = agg[x] /\ trx'[x] = trx[x]
<1> USE DEF StateOK, PcOK, AggOK, TrxOK
<1>1. CASE CallStep(w)
  BY <1>1 DEF CallStep, CallTransaction, CallWithLoaded, CallWithKept, StartCall
<1>2. CASE Fetch(w) \/ Fetched(w) \/ FetchFails(w) \/ OperationThrows(w)
  BY <1>2 DEF Fetch, Fetched, FetchFails, OperationThrows, Fail
<1>3. CASE LoadForUpdate(w) \/ LoadMissing(w) \/ Conflict(w) \/ OperationResolves(w)
  BY <1>3 DEF LoadForUpdate, LoadMissing, Conflict, OperationResolves, Fail
<1>4. ASSUME NEW kind \in {"update", "delete"}, Write(w, kind)
      PROVE  trx'[x] = trx[x] /\ UNCHANGED <<pc, calls, error, agg>>
  BY <1>4 DEF Write
<1>5. ASSUME NEW how \in {"aborted", "lost"}, StatementFails(w, how) \/ StatementFailsIgnored(w, how)
      PROVE  /\ pc'[x] = pc[x] /\ error'[x] = error[x] /\ trx'[x] = trx[x]
             /\ UNCHANGED <<calls, agg>>
  BY <1>5 DEF StatementFails, StatementFailsIgnored, SessionEnds, Fail
<1>6. CASE Begin(w) \/ BeginFails(w)
  BY <1>6 DEF Begin, BeginFails
<1>7. CASE Sink(w) \/ SinkFails(w)
  BY <1>7 DEF Sink, SinkFails, Fail
<1>8. CASE Commit(w) \/ CommitFails(w)
  BY <1>8 DEF Commit, CommitFails, Fail
<1>9. CASE Rollback(w) \/ RollbackFails(w) \/ Release(w)
  BY <1>9 DEF Rollback, RollbackFails, Release, Answered
<1>10. QED
  BY <1>1, <1>2, <1>3, <1>4, <1>5, <1>6, <1>7, <1>8, <1>9 DEF Step, OperationStep, TransactionStep

(* A session that ends keeps what its transaction did.                     *)
LEMMA SessionSet ==
  ASSUME TrxOK, NEW w \in Worker, NEW how, trx' = [trx EXCEPT ![w].session = how]
  PROVE  /\ trx'[w].session = how /\ trx'[w].began = trx[w].began
         /\ trx'[w].write = trx[w].write /\ trx'[w].changes = trx[w].changes
         /\ trx'[w].sunk = trx[w].sunk
BY DEF TrxOK, TrxType

(* What a write and the end of an operation record.                        *)
LEMMA WriteSet ==
  ASSUME TrxOK, NEW w \in Worker, NEW kind \in {"update", "delete"}, Write(w, kind)
  PROVE  /\ trx'[w].session = trx[w].session /\ trx'[w].began = trx[w].began
         /\ trx'[w].write = kind /\ trx'[w].changes = trx[w].changes + 1
         /\ trx'[w].sunk = trx[w].sunk
<1>1. trx'[w] = [trx[w] EXCEPT !.write = kind, !.changes = @ + 1]
  BY DEF Write, TrxOK, TrxType
<1>2. trx[w] \in TrxType
  BY DEF TrxOK
<1>3. QED
  BY <1>1, <1>2 DEF TrxType

LEMMA ResolveSet ==
  ASSUME TrxOK, NEW w \in Worker, OperationResolves(w)
  PROVE  /\ trx'[w].session = trx[w].session /\ trx'[w].began = trx[w].began
         /\ trx'[w].write = trx[w].write /\ trx'[w].changes = trx[w].changes
         /\ trx'[w].sunk = agg[w].events
BY DEF OperationResolves, TrxOK, TrxType

LEMMA BeginSet ==
  ASSUME TrxOK, NEW w \in Worker, Begin(w)
  PROVE  /\ trx'[w].session = "open" /\ trx'[w].began = now'
         /\ trx'[w].write = "none" /\ trx'[w].changes = 0 /\ trx'[w].sunk = {}
<1>1. trx'[w] = [NoTrx EXCEPT !.session = "open", !.began = now']
  BY DEF Begin, TrxOK
<1>2. QED
  BY <1>1 DEF NoTrx

-----------------------------------------------------------------------------
(* How far a call is.                                                      *)

LEMMA CallInvStep ==
  ASSUME StateOK, CallInv, [Next]_vars
  PROVE  CallInv'
<1>1. ASSUME NEW w \in Worker, Step(w) PROVE CallOK(w)'
  <2> USE DEF PcOK, Pc, Before
  <2>0. PcOK /\ TrxOK /\ AggOK /\ RowOK /\ CallOK(w)
    BY DEF StateOK, CallInv
  <2>2. CASE CallStep(w)
    BY <2>0, <2>2 DEF CallStep, CallTransaction, CallWithLoaded, CallWithKept, StartCall, CallOK
  <2>3. CASE Begin(w)
    <3>1. now' > 0
      BY <2>0, <2>3, UnitOfWorkAssumption DEF Begin, RowOK
    <3>2. /\ pc'[w] = "working" /\ calls' = calls /\ error' = error
          /\ pc[w] = "connecting"
      BY <2>0, <2>3 DEF Begin
    <3>3. QED
      BY <2>0, <2>3, <3>1, <3>2, BeginSet DEF CallOK
  <2>4. CASE BeginFails(w)
    BY <2>0, <2>4 DEF BeginFails, CallOK
  <2>5. CASE Fetch(w) \/ Fetched(w)
    BY <2>0, <2>5 DEF Fetch, Fetched, Working, CallOK
  <2>6. CASE FetchFails(w)
    <3>1. /\ pc'[w] = "rollback" /\ error'[w] = "operation" /\ trx' = trx /\ calls' = calls
          /\ pc[w] = "fetching"
      BY <2>0, <2>6 DEF FetchFails
    <3>2. QED
      BY <2>0, <3>1 DEF CallOK
  <2>7. CASE LoadForUpdate(w)
    BY <2>0, <2>7 DEF LoadForUpdate, CallOK
  <2>8. CASE LoadMissing(w) \/ Conflict(w) \/ OperationThrows(w)
    <3>1. /\ pc'[w] = "rollback" /\ error'[w] \in {"operation", "conflict"} /\ trx' = trx
          /\ calls' = calls /\ pc[w] = "working"
      BY <2>0, <2>8 DEF LoadMissing, Conflict, OperationThrows, Fail, Statement, Working
    <3>2. QED
      BY <2>0, <3>1 DEF CallOK
  <2>9. CASE OperationResolves(w)
    <3>1. /\ pc'[w] \in {"sinking", "committing"} /\ pc[w] = "working" /\ calls' = calls
          /\ error' = error
      BY <2>0, <2>9 DEF OperationResolves
    <3>2. QED
      BY <2>0, <2>9, <3>1, ResolveSet DEF CallOK
  <2>10. ASSUME NEW kind \in {"update", "delete"}, Write(w, kind) PROVE CallOK(w)'
    <3>1. pc[w] = "working" /\ UNCHANGED <<pc, calls, error>> /\ trx[w].changes \in Nat
      BY <2>0, <2>10 DEF Write, Statement, Working, TrxOK, TrxType
    <3>2. QED
      BY <2>0, <2>10, <3>1, WriteSet DEF CallOK
  <2>11. ASSUME NEW how \in {"aborted", "lost"}, SessionEnds(w, how),
                Fail(w, "operation") \/ UNCHANGED <<pc, error>>
         PROVE  CallOK(w)'
    <3>1. /\ pc[w] = "working" /\ calls' = calls
          /\ \/ pc'[w] = "rollback" /\ error'[w] = "operation"
             \/ pc'[w] = "working" /\ error'[w] = error[w]
      BY <2>0, <2>11 DEF SessionEnds, Working, Fail
    <3>2. trx' = [trx EXCEPT ![w].session = how] /\ trx[w].session = "open"
      BY <2>11 DEF SessionEnds, Working
    <3>3. QED
      BY <2>0, <3>1, <3>2, SessionSet DEF CallOK
  <2>12. CASE Sink(w)
    BY <2>0, <2>12 DEF Sink, CallOK
  <2>13. CASE SinkFails(w) \/ CommitFails(w)
    <3>1. /\ pc'[w] = "rollback" /\ error'[w] \in {"operation", "commit"}
          /\ pc[w] \in {"sinking", "committing"} /\ calls' = calls
      BY <2>0, <2>13 DEF SinkFails, CommitFails, Fail
    <3>2. \/ trx' = trx
          \/ /\ trx[w].session = "open"
             /\ \E how \in {"aborted", "lost"} : trx' = [trx EXCEPT ![w].session = how]
      BY <2>13 DEF SinkFails, CommitFails
    <3>3. QED
      BY <2>0, <3>1, <3>2, SessionSet DEF CallOK
  <2>14. CASE Commit(w) \/ Rollback(w) \/ RollbackFails(w)
    <3>1. /\ pc'[w] = "releasing" /\ calls' = calls /\ pc[w] # "idle"
      BY <2>0, <2>14 DEF Commit, Rollback, RollbackFails
    <3>2. \/ trx' = trx
          \/ \E how \in {"none", "lost"} : /\ trx' = [trx EXCEPT ![w].session = how]
                                         /\ trx[w].session # "none"
      BY <2>14 DEF Commit, Rollback, RollbackFails
    <3>3. QED
      BY <2>0, <3>1, <3>2, SessionSet DEF CallOK
  <2>15. CASE Release(w)
    <3>1. pc'[w] = "idle" /\ error'[w] = "none" /\ trx'[w] = NoTrx
      BY <2>0, <2>15 DEF Release, Answered, TrxOK
    <3>2. QED
      BY <3>1 DEF CallOK, NoTrx
  <2>16. QED
    BY <1>1, <2>2, <2>3, <2>4, <2>5, <2>6, <2>7, <2>8, <2>9, <2>10, <2>11, <2>12, <2>13, <2>14, <2>15
    DEF Step, OperationStep, TransactionStep, StatementFails, StatementFailsIgnored
<1>2. ASSUME NEW w \in Worker, Step(w), NEW x \in Worker, x # w PROVE CallOK(x)'
  BY <1>2, Others DEF CallInv, CallOK
<1>3. CASE UNCHANGED vars
  BY <1>3 DEF vars, CallInv, CallOK
<1>4. QED
  BY <1>1, <1>2, <1>3 DEF Next, Step, CallInv

-----------------------------------------------------------------------------
(* The pool: who begins takes a connection and who releases gives one back;*)
(* a fetch of the column types takes another for as long as it lasts.      *)

LEMMA Counting ==
  ASSUME NEW w \in Worker, NEW S \in SUBSET Worker
  PROVE  /\ Cardinality(S) \in Nat
         /\ w \notin S => Cardinality(S \cup {w}) = Cardinality(S) + 1
         /\ w \in S => Cardinality(S \ {w}) = Cardinality(S) - 1
<1>1. IsFiniteSet(S)
  BY UnitOfWorkAssumption, FS_Subset
<1>2. QED
  BY <1>1, FS_CardinalityType, FS_AddElement, FS_RemoveElement

LEMMA PoolStep ==
  ASSUME StateOK, CallInv, PoolInv, [Next]_vars
  PROVE  PoolInv'
<1> DEFINE h == Cardinality(Holding)
           f == Cardinality(Fetching)
<1>1. PcOK /\ faults \in Nat /\ PoolSize \in Nat
  BY UnitOfWorkAssumption DEF StateOK, RowOK
<1>2. /\ free \in Nat /\ leaked \in Nat /\ leaked <= faults
      /\ h \in Nat /\ f \in Nat /\ free + h + f + leaked = PoolSize
  BY FS_Subset, FS_CardinalityType, UnitOfWorkAssumption DEF PoolInv, Holding, Fetching
<1>3. ASSUME free' \in Nat, leaked' \in Nat, leaked' <= faults',
             free' + h' + f' + leaked' = PoolSize
      PROVE  PoolInv'
  BY <1>3 DEF PoolInv
<1> HIDE DEF h, f
<1>4. ASSUME Holding' = Holding, Fetching' = Fetching,
             free' = free /\ leaked' = leaked,
             faults' = faults \/ faults' = faults + 1
      PROVE  PoolInv'
  BY <1>1, <1>4 DEF PoolInv
<1>5. ASSUME NEW w \in Worker, Step(w) PROVE PoolInv'
  <2>0. /\ Holding \in SUBSET Worker /\ Fetching \in SUBSET Worker
        /\ \A x \in Worker : x # w => (x \in Holding' <=> x \in Holding)
                                    /\ (x \in Fetching' <=> x \in Fetching)
        /\ Holding' \in SUBSET Worker /\ Fetching' \in SUBSET Worker
    BY <1>5, Others DEF Holding, Fetching
  <2>1. ASSUME (w \in Holding' <=> w \in Holding), (w \in Fetching' <=> w \in Fetching)
        PROVE  Holding' = Holding /\ Fetching' = Fetching
    BY <2>0, <2>1
  <2>2. ASSUME pc'[w] = pc[w] \/ (pc[w] \in {"idle", "connecting"} /\ pc'[w] \in {"idle", "connecting"})
                 \/ (pc[w] \in {"working", "sinking", "committing", "rollback", "releasing"}
                     /\ pc'[w] \in {"working", "sinking", "committing", "rollback", "releasing"})
        PROVE  Holding' = Holding /\ Fetching' = Fetching
    BY <2>1, <2>2 DEF Holding, Fetching
  <2>3. CASE Begin(w)
    <3>1. /\ pc[w] = "connecting" /\ pc'[w] = "working" /\ free > 0 /\ free' = free - 1
          /\ leaked' = leaked /\ faults' = faults
      BY <1>1, <2>3 DEF Begin, PcOK
    <3>2. w \notin Holding /\ Holding' = Holding \cup {w} /\ Fetching' = Fetching
      BY <2>0, <3>1 DEF Holding, Fetching
    <3>3. h' = h + 1 /\ f' = f
      BY <2>0, <3>2, Counting DEF h, f
    <3>4. QED
      BY <1>1, <1>2, <1>3, <3>1, <3>3
  <2>4. CASE BeginFails(w)
    <3>1. /\ pc[w] = "connecting" /\ pc'[w] = "idle" /\ free > 0 /\ free' = free - 1
          /\ leaked' = leaked + 1 /\ faults' = faults + 1
      BY <1>1, <2>4 DEF BeginFails, Fault, PcOK
    <3>2. h' = h /\ f' = f
      BY <2>2, <3>1 DEF h, f
    <3>3. QED
      BY <1>1, <1>2, <1>3, <3>1, <3>2
  <2>5. CASE Fetch(w)
    <3>1. /\ pc[w] = "working" /\ pc'[w] = "fetching" /\ free > 0 /\ free' = free - 1
          /\ leaked' = leaked /\ faults' = faults
      BY <1>1, <2>5 DEF Fetch, Working, PcOK, env
    <3>2. /\ w \notin Fetching /\ w \in Fetching'
          /\ w \in Holding /\ w \in Holding'
      BY <3>1 DEF Holding, Fetching
    <3>3. Fetching' = Fetching \cup {w} /\ Holding' = Holding
      BY <2>0, <3>2
    <3>4. h' = h /\ f' = f + 1
      BY <2>0, <3>2, <3>3, Counting DEF h, f
    <3>5. QED
      BY <1>1, <1>2, <1>3, <3>1, <3>4
  <2>6. CASE Fetched(w) \/ FetchFails(w)
    <3>1. /\ pc[w] = "fetching" /\ pc'[w] \in {"working", "rollback"} /\ free' = free + 1
          /\ leaked' = leaked /\ (faults' = faults \/ faults' = faults + 1)
      BY <1>1, <2>6 DEF Fetched, FetchFails, Fault, PcOK, env
    <3>2. /\ w \in Fetching /\ w \notin Fetching'
          /\ w \in Holding /\ w \in Holding'
      BY <3>1 DEF Holding, Fetching
    <3>3. Fetching' = Fetching \ {w} /\ Holding' = Holding
      BY <2>0, <3>2
    <3>4. h' = h /\ f' = f - 1
      BY <2>0, <3>2, <3>3, Counting DEF h, f
    <3>5. QED
      BY <1>1, <1>2, <1>3, <3>1, <3>4
  <2>7. CASE Release(w)
    <3>1. /\ pc[w] = "releasing" /\ pc'[w] = "idle" /\ free' = free + 1
          /\ leaked' = leaked /\ faults' = faults
      BY <1>1, <2>7 DEF Release, Answered, PcOK, env
    <3>2. /\ w \in Holding /\ w \notin Holding'
          /\ w \notin Fetching /\ w \notin Fetching'
      BY <3>1 DEF Holding, Fetching
    <3>3. Holding' = Holding \ {w} /\ Fetching' = Fetching
      BY <2>0, <3>2
    <3>4. h' = h - 1 /\ f' = f
      BY <2>0, <3>2, <3>3, Counting DEF h, f
    <3>5. QED
      BY <1>1, <1>2, <1>3, <3>1, <3>4
  <2>8. CASE CallStep(w)
    BY <1>1, <1>4, <2>2, <2>8
    DEF CallStep, CallTransaction, CallWithLoaded, CallWithKept, StartCall, PcOK, env
  <2>9. CASE LoadForUpdate(w) \/ LoadMissing(w) \/ Conflict(w) \/ OperationThrows(w)
             \/ OperationResolves(w)
    BY <1>1, <1>4, <2>2, <2>9
    DEF LoadForUpdate, LoadMissing, Conflict, OperationThrows, OperationResolves, Statement, Working,
        Fail, PcOK, env
  <2>10. ASSUME NEW kind \in {"update", "delete"}, Write(w, kind) PROVE PoolInv'
    BY <1>4, <2>2, <2>10 DEF Write
  <2>11. ASSUME NEW how \in {"aborted", "lost"}, SessionEnds(w, how),
                Fail(w, "operation") \/ UNCHANGED <<pc, error>>
         PROVE  PoolInv'
    BY <1>1, <1>4, <2>2, <2>11 DEF SessionEnds, Working, Fault, Fail, PcOK
  <2>12. CASE Sink(w) \/ SinkFails(w)
    BY <1>1, <1>4, <2>2, <2>12 DEF Sink, SinkFails, Fault, Fail, PcOK, env
  <2>13. CASE Commit(w) \/ CommitFails(w) \/ Rollback(w) \/ RollbackFails(w)
    <3>1. /\ pc[w] \in {"committing", "rollback"} /\ pc'[w] \in {"releasing", "rollback"}
          /\ free' = free /\ leaked' = leaked /\ (faults' = faults \/ faults' = faults + 1)
      BY <1>1, <2>13 DEF Commit, CommitFails, Rollback, RollbackFails, Fault, Fail, PcOK, env
    <3>2. QED
      BY <1>4, <2>2, <3>1
  <2>14. QED
    BY <1>5, <2>3, <2>4, <2>5, <2>6, <2>7, <2>8, <2>9, <2>10, <2>11, <2>12, <2>13
    DEF Step, OperationStep, TransactionStep, StatementFails, StatementFailsIgnored
<1>6. CASE UNCHANGED vars
  BY <1>4, <1>6 DEF vars, env, Holding, Fetching
<1>7. QED
  BY <1>5, <1>6 DEF Next, Step

-----------------------------------------------------------------------------
(* The row lock: nobody else's step moves a row that is locked.            *)

LEMMA LockKept ==
  ASSUME StateOK, LockInv, NEW w \in Worker, Step(w), NEW x \in Worker, x # w, locker = x
  PROVE  row' = row /\ locker' = locker
<1>0. x # NoWorker
  BY UnitOfWorkAssumption
<1>1. Unlock(w) => locker' = locker
  BY DEF Unlock
<1>2. trx[w].session = "open" /\ Apply(w) => row' = row /\ locker' = locker
  <2>1. trx[w].session = "open" => trx[w].write = "none"
    BY DEF LockInv, LockOK
  <2>2. QED
    BY <1>1, <2>1 DEF Apply
<1>3. CASE CallStep(w)
  BY <1>3 DEF CallStep, CallTransaction, CallWithLoaded, CallWithKept, StartCall, db
<1>4. CASE OperationStep(w) \/ OperationThrows(w)
  BY <1>0, <1>1, <1>4
  DEF OperationStep, Fetch, Fetched, FetchFails, LoadForUpdate, LoadMissing, Conflict,
      OperationResolves, Write, Statement, StatementFails, StatementFailsIgnored, SessionEnds,
      OperationThrows, db
<1>5. CASE TransactionStep(w)
  BY <1>1, <1>2, <1>5
  DEF TransactionStep, Begin, BeginFails, Sink, SinkFails, Commit, CommitFails, Rollback,
      RollbackFails, Release, Answered, db
<1>6. QED
  BY <1>3, <1>4, <1>5 DEF Step

LEMMA LockStep ==
  ASSUME StateOK, CallInv, LockInv, [Next]_vars
  PROVE  LockInv'
<1>1. ASSUME NEW w \in Worker, Step(w) PROVE LockOK(w)'
  <2> USE DEF PcOK, Pc, Before
  <2>0. PcOK /\ TrxOK /\ AggOK /\ CallOK(w) /\ LockOK(w)
    BY DEF StateOK, CallInv, LockInv
  <2>1. ASSUME trx'[w].session # "open", pc'[w] # "connecting",
               error'[w] = "conflict" => error[w] = "conflict",
               trx'[w].changes = trx[w].changes, agg' = agg
        PROVE  LockOK(w)'
    BY <2>0, <2>1 DEF LockOK
  <2>2. CASE CallStep(w)
    <3>1. /\ trx' = trx /\ error' = error /\ pc[w] = "idle" /\ pc'[w] = "connecting"
          /\ agg'[w].loaded # "locked"
      BY <2>0, <2>2
      DEF CallStep, CallTransaction, CallWithLoaded, CallWithKept, StartCall, NoAgg, AggOK, AggType
    <3>2. QED
      BY <2>0, <3>1 DEF LockOK, CallOK, NoTrx
  <2>3. CASE Begin(w)
    <3>1. /\ pc'[w] = "working" /\ pc[w] = "connecting" /\ agg' = agg /\ error' = error
      BY <2>0, <2>3 DEF Begin
    <3>2. QED
      BY <2>0, <2>3, <3>1, BeginSet DEF LockOK, CallOK
  <2>4. CASE BeginFails(w)
    <3>1. pc'[w] = "idle" /\ pc[w] = "connecting" /\ UNCHANGED <<agg, error, trx>>
      BY <2>0, <2>4 DEF BeginFails
    <3>2. QED
      BY <2>0, <3>1 DEF LockOK, CallOK, NoTrx
  <2>5. CASE Fetch(w) \/ Fetched(w) \/ FetchFails(w)
    <3>1. /\ pc[w] \in {"working", "fetching"} /\ pc'[w] \in {"working", "fetching", "rollback"}
          /\ UNCHANGED <<agg, trx, row, locker>>
          /\ error'[w] \in {error[w], "operation"}
      BY <2>0, <2>5 DEF Fetch, Fetched, FetchFails, Working, db
    <3>2. QED
      BY <2>0, <3>1 DEF LockOK
  <2>6. CASE LoadForUpdate(w)
    <3>1. /\ pc[w] = "working" /\ agg[w].loaded = "no" /\ row.live /\ locker' = w
          /\ agg'[w].loaded = "locked" /\ agg'[w].stamp = row.stamp
          /\ UNCHANGED <<pc, trx, row, error>>
      BY <2>0, <2>6 DEF LoadForUpdate, Statement, Working, AggOK
    <3>2. QED
      BY <2>0, <3>1 DEF LockOK, CallOK
  <2>7. CASE LoadMissing(w) \/ OperationThrows(w)
    <3>1. /\ pc[w] = "working" /\ pc'[w] = "rollback" /\ error'[w] = "operation"
          /\ UNCHANGED <<agg, trx, row, locker>>
      BY <2>0, <2>7 DEF LoadMissing, OperationThrows, Fail, Statement, Working, db
    <3>2. QED
      BY <2>0, <3>1 DEF LockOK
  <2>8. CASE Conflict(w)
    <3>1. /\ pc[w] = "working" /\ pc'[w] = "rollback" /\ trx[w].session = "open" /\ ~LockMatches(w)
          /\ UNCHANGED <<agg, trx, row, locker>>
      BY <2>0, <2>8 DEF Conflict, Fail, Statement, Working, db
    <3>2. agg[w].loaded = "locked" => trx[w].changes # 0
      BY <2>0, <3>1 DEF LockOK, LockMatches, SeenStamp, CallOK
    <3>3. trx[w].changes \in Nat
      BY <2>0 DEF TrxOK, TrxType
    <3>4. QED
      BY <2>0, <3>1, <3>2, <3>3 DEF LockOK
  <2>9. CASE OperationResolves(w)
    <3>1. /\ pc[w] = "working" /\ pc'[w] \in {"sinking", "committing"}
          /\ agg'[w].loaded = agg[w].loaded /\ agg'[w].stamp = agg[w].stamp
          /\ UNCHANGED <<row, locker, error>>
      BY <2>0, <2>9 DEF OperationResolves, AggOK, AggType, db
    <3>2. QED
      BY <2>0, <2>9, <3>1, ResolveSet DEF LockOK
  <2>10. ASSUME NEW kind \in {"update", "delete"}, Write(w, kind) PROVE LockOK(w)'
    <3>1. /\ pc[w] = "working" /\ agg[w].loaded # "no" /\ row.live /\ locker' = w
          /\ UNCHANGED <<row, pc, agg, error>> /\ trx[w].changes \in Nat
      BY <2>0, <2>10 DEF Write, Statement, Working, LockMatches, TrxOK, TrxType
    <3>2. QED
      BY <2>0, <2>10, <3>1, WriteSet DEF LockOK
  <2>11. ASSUME NEW how \in {"aborted", "lost"}, SessionEnds(w, how),
                Fail(w, "operation") \/ UNCHANGED <<pc, error>>
         PROVE  LockOK(w)'
    <3>1. /\ pc'[w] \in {"working", "rollback"} /\ error'[w] \in {error[w], "operation"}
          /\ agg' = agg /\ trx' = [trx EXCEPT ![w].session = how]
      BY <2>0, <2>11 DEF SessionEnds, Working, Fail
    <3>2. QED
      BY <2>0, <2>1, <3>1, SessionSet
  <2>12. CASE Sink(w)
    <3>1. pc[w] = "sinking" /\ pc'[w] = "committing" /\ UNCHANGED <<agg, trx, row, locker, error>>
      BY <2>0, <2>12 DEF Sink, db
    <3>2. QED
      BY <2>0, <3>1 DEF LockOK
  <2>13. CASE SinkFails(w) \/ CommitFails(w)
    <3>1. pc'[w] = "rollback" /\ error'[w] \in {"operation", "commit"} /\ agg' = agg
      BY <2>0, <2>13 DEF SinkFails, CommitFails, Fail
    <3>2. \/ trx' = trx /\ trx[w].session # "open"
          \/ \E how \in {"aborted", "lost"} : trx' = [trx EXCEPT ![w].session = how]
      BY <2>13 DEF SinkFails, CommitFails
    <3>3. QED
      BY <2>0, <2>1, <3>1, <3>2, SessionSet
  <2>14. CASE Commit(w) \/ Rollback(w) \/ RollbackFails(w)
    <3>1. pc'[w] = "releasing" /\ error'[w] \in {error[w], "rollback"} /\ agg' = agg
      BY <2>0, <2>14 DEF Commit, Rollback, RollbackFails
    <3>2. \/ trx' = trx /\ trx[w].session # "open"
          \/ \E how \in {"none", "lost"} : trx' = [trx EXCEPT ![w].session = how]
      BY <2>14 DEF Commit, Rollback, RollbackFails
    <3>3. QED
      BY <2>0, <2>1, <3>1, <3>2, SessionSet
  <2>15. CASE Release(w)
    <3>1. pc'[w] = "idle" /\ error'[w] = "none" /\ trx'[w] = NoTrx
      BY <2>0, <2>15 DEF Release, Answered, TrxOK
    <3>2. QED
      BY <3>1 DEF LockOK, NoTrx
  <2>16. QED
    BY <1>1, <2>2, <2>3, <2>4, <2>5, <2>6, <2>7, <2>8, <2>9, <2>10, <2>11, <2>12, <2>13, <2>14, <2>15
    DEF Step, OperationStep, TransactionStep, StatementFails, StatementFailsIgnored
<1>2. ASSUME NEW w \in Worker, Step(w), NEW x \in Worker, x # w PROVE LockOK(x)'
  <2>1. LockOK(x)
    BY DEF LockInv
  <2>2. /\ pc'[x] = pc[x] /\ error'[x] = error[x] /\ agg'[x] = agg[x] /\ trx'[x] = trx[x]
    BY <1>2, Others
  <2>3. locker = x => row' = row /\ locker' = locker
    BY <1>2, LockKept
  <2>4. trx[x].write \in {"none", "update", "delete"}
    BY DEF StateOK, TrxOK, TrxType
  <2>5. QED
    BY <2>1, <2>2, <2>3, <2>4 DEF LockOK
<1>3. CASE UNCHANGED vars
  BY <1>3 DEF vars, db, LockInv, LockOK
<1>4. QED
  BY <1>1, <1>2, <1>3 DEF Next, Step, LockInv

-----------------------------------------------------------------------------
(* Versions of the row: each is one stored call's, with its stamp.         *)

LEMMA VersionsKept ==
  ASSUME StateOK, NEW v \in [Call -> Nat], Versions(v), UNCHANGED <<row, stored, wroteAt>>,
         \A x \in Worker : agg'[x].loaded # "no" =>
           \/ agg[x].loaded # "no" /\ agg'[x].ver = agg[x].ver /\ agg'[x].stamp = agg[x].stamp
           \/ row.live /\ agg'[x].ver = row.ver /\ agg'[x].stamp = row.stamp
  PROVE  Versions(v)'
<1>1. /\ \A c \in stored' : v[c] \in 1..row'.ver /\ wroteAt'[c] > 0
      /\ \A c, d \in stored' : v[c] = v[d] => c = d
      /\ row'.live /\ row'.ver = 0 => row'.stamp = 0
      /\ row'.live /\ row'.ver > 0
           => \E c \in stored' : v[c] = row'.ver /\ wroteAt'[c] = row'.stamp
  BY DEF Versions
<1>2. ASSUME NEW x \in Worker, agg'[x].loaded # "no"
      PROVE  /\ agg'[x].ver = 0 => agg'[x].stamp = 0
             /\ agg'[x].ver > 0
                  => \E c \in stored' : v[c] = agg'[x].ver /\ wroteAt'[c] = agg'[x].stamp
  BY <1>1, <1>2 DEF Versions
<1>3. QED
  BY <1>1, <1>2 DEF Versions

LEMMA ApplyVersions ==
  ASSUME StateOK, CallInv, LockInv, NEW v \in [Call -> Nat], Versions(v), NEW w \in Worker,
         pc[w] = "committing", trx[w].session = "open", Current(w) \notin stored,
         Apply(w), UNCHANGED agg
  PROVE  \E u \in [Call -> Nat] : Versions(u)'
<1>1. /\ row \in [ver : Nat, stamp : 0..MaxTime, live : BOOLEAN]
      /\ trx[w].began > 0
      /\ trx[w].write \in {"none", "update", "delete"}
      /\ wroteAt \in [Call -> 0..MaxTime] /\ stored \subseteq Call
  BY DEF StateOK, RowOK, TrxOK, TrxType, CallInv, CallOK
<1>2. CASE trx[w].write = "none"
  <2>1. UNCHANGED <<row, stored, wroteAt>>
    BY <1>2 DEF Apply
  <2>2. QED
    BY <2>1, VersionsKept
<1>3. CASE trx[w].write # "none"
  <2>1. Current(w) \in Call
    BY CurrentIsCall DEF StateOK
  <2>2. row.ver + 1 \in Nat
    BY <1>1
  <2>3. \A n \in Nat : \E u \in [Call -> Nat] : u = [v EXCEPT ![Current(w)] = n]
    OBVIOUS
  <2>4. PICK u \in [Call -> Nat] : u = [v EXCEPT ![Current(w)] = row.ver + 1]
    BY <2>2, <2>3
  <2>5. /\ u[Current(w)] = row.ver + 1
        /\ \A c \in stored : u[c] = v[c] /\ c # Current(w) /\ c \in Call
    BY <1>1, <2>1, <2>4
  <2> DEFINE next == [row EXCEPT !.ver = @ + 1]
  <2>6. next \in [ver : Nat, stamp : 0..MaxTime, live : BOOLEAN] /\ next.ver = row.ver + 1
    BY <1>1
  <2>7. row' = [next EXCEPT !.stamp = trx[w].began] \/ row' = [next EXCEPT !.live = FALSE]
    BY <1>1, <1>3 DEF Apply
  <2> HIDE DEF next
  <2>8. row'.ver = row.ver + 1
    BY <2>6, <2>7
  <2>9. row'.live => row'.stamp = trx[w].began
    BY <2>6, <2>7
  <2>10. stored' = stored \cup {Current(w)}
    BY <1>3 DEF Apply
  <2>11. /\ wroteAt'[Current(w)] = trx[w].began
        /\ \A c \in stored : wroteAt'[c] = wroteAt[c]
    BY <1>1, <1>3, <2>1, <2>5 DEF Apply
  <2>12. \A c \in stored : v[c] \in 1..row.ver /\ wroteAt[c] > 0
    BY DEF Versions
  <2>13. \A c \in stored' : u[c] \in 1..row'.ver /\ wroteAt'[c] > 0
    BY <1>1, <2>5, <2>8, <2>10, <2>11, <2>12
  <2>14. \A c, d \in stored' : u[c] = u[d] => c = d
    <3>1. \A c, d \in stored : u[c] = u[d] => c = d
      BY <2>5 DEF Versions
    <3>2. \A c \in stored : u[c] # u[Current(w)]
      BY <1>1, <2>5, <2>12
    <3>3. QED
      BY <2>10, <3>1, <3>2
  <2>15. row'.live => row'.ver > 0 /\ u[Current(w)] = row'.ver /\ wroteAt'[Current(w)] = row'.stamp
    BY <1>1, <2>5, <2>8, <2>9, <2>11
  <2>16. ASSUME NEW x \in Worker, agg'[x].loaded # "no"
         PROVE  /\ agg'[x].ver = 0 => agg'[x].stamp = 0
                /\ agg'[x].ver > 0
                     => \E c \in stored' : u[c] = agg'[x].ver /\ wroteAt'[c] = agg'[x].stamp
    BY <2>5, <2>10, <2>11, <2>16 DEF Versions
  <2>17. row'.ver # 0
    BY <1>1, <2>8
  <2>18. Versions(u)'
    BY <2>10, <2>13, <2>14, <2>15, <2>16, <2>17 DEF Versions
  <2>19. QED
    BY <2>18
<1>4. QED
  BY <1>2, <1>3

(* The heart of it: a write over another version than the one read needs   *)
(* the row's stamp to be the one that was read.                            *)
LEMMA OverwriteInOneMs ==
  ASSUME StateOK, CallInv, VersionInv, NEW w \in Worker, NEW kind \in {"update", "delete"},
         Write(w, kind), row.ver # agg[w].ver
  PROVE  OneMs
<1>1. /\ row.ver \in Nat /\ agg[w].ver \in Nat /\ row.live
      /\ trx[w].write \in {"none", "update"} /\ trx[w].session = "open"
      /\ agg[w].loaded # "no" /\ SeenStamp(w) = agg[w].stamp
      /\ wroteAt \in [Call -> 0..MaxTime] /\ stored \subseteq Call
  BY DEF Write, LockMatches, Statement, Working, StateOK, RowOK, AggOK, AggType, TrxOK, TrxType
<1>2. CASE trx[w].write = "update"
  BY <1>1, <1>2 DEF VersionInv, Noted
<1>3. CASE trx[w].write = "none"
  <2>1. row.stamp = agg[w].stamp
    BY <1>1, <1>3 DEF SeenStamp
  <2>2. PICK v \in [Call -> Nat] : Versions(v)
    BY DEF VersionInv
  <2>3. /\ row.ver = 0 => row.stamp = 0
        /\ row.ver > 0 => \E c \in stored : v[c] = row.ver /\ wroteAt[c] = row.stamp
        /\ agg[w].ver = 0 => agg[w].stamp = 0
        /\ agg[w].ver > 0 => \E c \in stored : v[c] = agg[w].ver /\ wroteAt[c] = agg[w].stamp
        /\ \A c \in stored : wroteAt[c] > 0
    BY <1>1, <2>2 DEF Versions
  <2>4. row.ver > 0 /\ agg[w].ver > 0
    BY <1>1, <2>1, <2>3
  <2>5. PICK c \in stored, d \in stored : /\ v[c] = row.ver /\ wroteAt[c] = row.stamp
                                        /\ v[d] = agg[w].ver /\ wroteAt[d] = agg[w].stamp
    BY <2>3, <2>4
  <2>6. QED
    BY <2>1, <2>5 DEF OneMs
<1>4. QED
  BY <1>1, <1>2, <1>3

(* A step leaves the stored calls alone, or is a commit.                   *)
Commits(w) ==
  /\ pc[w] = "committing" /\ trx[w].session = "open"
  /\ Apply(w)
  /\ UNCHANGED <<agg, overwrote, answer, calls>>

LEMMA StoreSteps ==
  ASSUME NEW w \in Worker, Step(w)
  PROVE  Commits(w) \/ UNCHANGED <<row, stored, sunk, wroteAt>>
<1>1. CASE CallStep(w)
  BY <1>1 DEF CallStep, CallTransaction, CallWithLoaded, CallWithKept, StartCall, db, env
<1>2. CASE OperationStep(w) \/ OperationThrows(w)
  BY <1>2
  DEF OperationStep, Fetch, Fetched, FetchFails, LoadForUpdate, LoadMissing, Conflict,
      OperationResolves, Write, StatementFails, StatementFailsIgnored, SessionEnds,
      OperationThrows, db, env
<1>3. CASE TransactionStep(w)
  BY <1>3
  DEF TransactionStep, Begin, BeginFails, Sink, SinkFails, Commit, CommitFails, Rollback,
      RollbackFails, Release, Answered, Commits, db, env
<1>4. QED
  BY <1>1, <1>2, <1>3 DEF Step

(* What an instance read is what it has, or it has just read the row.      *)
LEMMA AggSteps ==
  ASSUME StateOK, NEW w \in Worker, Step(w), agg'[w].loaded # "no"
  PROVE  \/ agg[w].loaded # "no" /\ agg'[w].ver = agg[w].ver /\ agg'[w].stamp = agg[w].stamp
         \/ row.live /\ agg'[w].ver = row.ver /\ agg'[w].stamp = row.stamp
<1> USE DEF StateOK, AggOK, AggType
<1>1. CASE CallStep(w)
  BY <1>1 DEF CallStep, CallTransaction, CallWithLoaded, CallWithKept, StartCall, NoAgg
<1>2. CASE LoadForUpdate(w) \/ OperationResolves(w)
  BY <1>2 DEF LoadForUpdate, OperationResolves
<1>3. CASE Release(w)
  BY <1>3 DEF Release, Answered, NoAgg
<1>4. CASE UNCHANGED agg
  BY <1>4
<1>5. QED
  BY <1>1, <1>2, <1>3, <1>4
  DEF Step, OperationStep, TransactionStep, Fetch, Fetched, FetchFails, LoadMissing, Conflict, Write,
      StatementFails, StatementFailsIgnored, SessionEnds, OperationThrows, Begin, BeginFails, Sink,
      SinkFails, Commit, CommitFails, Rollback, RollbackFails

LEMMA NotedStep ==
  ASSUME StateOK, CallInv, LockInv, NEW w \in Worker, Noted(w), Step(w)
  PROVE  Noted(w)'
<1> USE DEF Noted
<1>0. TrxOK /\ AggOK /\ CallOK(w) /\ LockOK(w) /\ PcOK
  BY DEF StateOK, CallInv, LockInv
<1>1. CASE trx'[w].session # "open"
  BY <1>1
<1>2. CASE UNCHANGED <<trx, agg, row, overwrote>>
  BY <1>2
<1>3. CASE CallStep(w)
  <2>1. trx' = trx /\ trx[w] = NoTrx
    BY <1>0, <1>3 DEF CallStep, CallTransaction, CallWithLoaded, CallWithKept, StartCall, CallOK
  <2>2. QED
    BY <2>1 DEF NoTrx
<1>4. CASE Begin(w)
  BY <1>0, <1>4, BeginSet
<1>5. CASE LoadForUpdate(w)
  BY <1>0, <1>5 DEF LoadForUpdate, Statement, Working, LockOK
<1>6. CASE OperationResolves(w)
  <2>1. UNCHANGED <<row, overwrote>> /\ agg'[w].ver = agg[w].ver
    BY <1>0, <1>6 DEF OperationResolves, AggOK, AggType, db, env
  <2>2. QED
    BY <1>0, <1>6, <2>1, ResolveSet
<1>7. ASSUME NEW kind \in {"update", "delete"}, Write(w, kind) PROVE Noted(w)'
  <2>1. row' = row /\ agg' = agg /\ (row.ver # agg[w].ver => overwrote' # {})
    BY <1>7 DEF Write
  <2>2. QED
    BY <2>1
<1>8. CASE Release(w)
  BY <1>0, <1>1, <1>8 DEF Release, Answered, TrxOK, NoTrx
<1>9. ASSUME NEW how \in {"aborted", "lost"}, SessionEnds(w, how) PROVE Noted(w)'
  BY <1>0, <1>1, <1>9, SessionSet DEF SessionEnds
<1>10. CASE SinkFails(w)
  <2>1. \/ UNCHANGED <<trx, agg, row, overwrote>>
        \/ \E how \in {"aborted", "lost"} : trx' = [trx EXCEPT ![w].session = how]
    BY <1>10 DEF SinkFails
  <2>2. QED
    BY <1>0, <1>1, <1>2, <2>1, SessionSet
<1>11. CASE Commit(w) \/ CommitFails(w) \/ Rollback(w) \/ RollbackFails(w)
  <2>1. \/ trx' = trx /\ trx[w].session # "open"
        \/ \E how \in {"none", "aborted", "lost"} : trx' = [trx EXCEPT ![w].session = how]
    BY <1>11 DEF Commit, CommitFails, Rollback, RollbackFails
  <2>2. QED
    BY <1>0, <1>1, <2>1, SessionSet
<1>12. QED
  BY <1>2, <1>3, <1>4, <1>5, <1>6, <1>7, <1>8, <1>9, <1>10, <1>11
  DEF Step, OperationStep, TransactionStep, BeginFails, Fetch, Fetched, FetchFails, LoadMissing,
      Conflict, StatementFails, StatementFailsIgnored, OperationThrows, Sink, Fail, db, env

LEMMA VersionStep ==
  ASSUME StateOK, CallInv, LockInv, VersionInv, AtomInv, [Next]_vars
  PROVE  VersionInv'
<1>1. ASSUME NEW w \in Worker, Step(w) PROVE VersionInv'
  <2>1. Commits(w) => Current(w) \notin stored /\ Current(w) \in Call
    BY CurrentIsCall DEF Commits, AtomInv, AtomOK, Stages, Before, StateOK
  <2>2. PICK v \in [Call -> Nat] : Versions(v)
    BY DEF VersionInv
  <2>3. \E u \in [Call -> Nat] : Versions(u)'
    <3>1. CASE Commits(w)
      BY <2>1, <2>2, <3>1, ApplyVersions DEF Commits
    <3>2. CASE UNCHANGED <<row, stored, sunk, wroteAt>>
      <4>1. ASSUME NEW x \in Worker, agg'[x].loaded # "no"
            PROVE  \/ agg[x].loaded # "no" /\ agg'[x].ver = agg[x].ver /\ agg'[x].stamp = agg[x].stamp
                   \/ row.live /\ agg'[x].ver = row.ver /\ agg'[x].stamp = row.stamp
        BY <1>1, <4>1, Others, AggSteps
      <4>2. QED
        BY <2>2, <3>2, <4>1, VersionsKept
    <3>3. QED
      BY <1>1, <3>1, <3>2, StoreSteps
  <2>4. OneMs => OneMs'
    <3>1. stored \subseteq stored' /\ \A c \in stored : wroteAt'[c] = wroteAt[c]
      <4>1. CASE Commits(w)
        BY <2>1, <4>1 DEF Commits, Apply, StateOK, RowOK
      <4>2. QED
        BY <1>1, <4>1, StoreSteps
    <3>2. QED
      BY <3>1 DEF OneMs
  <2>5. overwrote' # {} => OneMs'
    <3>1. ASSUME NEW kind \in {"update", "delete"}, Write(w, kind) PROVE overwrote' # {} => OneMs
      BY <3>1, OverwriteInOneMs DEF Write, VersionInv
    <3>2. CASE overwrote' = overwrote
      BY <2>4, <3>2 DEF VersionInv
    <3>3. QED
      BY <1>1, <2>4, <3>1, <3>2
      DEF Step, CallStep, CallTransaction, CallWithLoaded, CallWithKept, StartCall, OperationStep,
          Fetch, Fetched, FetchFails, LoadForUpdate, LoadMissing, Conflict, OperationResolves,
          StatementFails, StatementFailsIgnored, SessionEnds, OperationThrows, TransactionStep,
          Begin, BeginFails, Sink, SinkFails, Commit, CommitFails, Rollback, RollbackFails, Release,
          Answered, env
  <2>6. overwrote \subseteq overwrote'
    BY <1>1
    DEF Step, CallStep, CallTransaction, CallWithLoaded, CallWithKept, StartCall, OperationStep,
        Fetch, Fetched, FetchFails, LoadForUpdate, LoadMissing, Conflict, OperationResolves, Write,
        StatementFails, StatementFailsIgnored, SessionEnds, OperationThrows, TransactionStep,
        Begin, BeginFails, Sink, SinkFails, Commit, CommitFails, Rollback, RollbackFails, Release,
        Answered, env
  <2>7. ASSUME NEW x \in Worker PROVE Noted(x)'
    <3>1. CASE x = w
      BY <1>1, <3>1, NotedStep DEF VersionInv
    <3>2. CASE x # w
      <4>1. trx'[x] = trx[x] /\ agg'[x] = agg[x]
        BY <1>1, <3>2, Others
      <4>2. trx[x].session = "open" /\ trx[x].write = "update" => row' = row
        BY <1>1, <3>2, LockKept DEF LockInv, LockOK
      <4>3. QED
        BY <2>6, <4>1, <4>2 DEF VersionInv, Noted
    <3>3. QED
      BY <3>1, <3>2
  <2>8. QED
    BY <2>3, <2>5, <2>7 DEF VersionInv
<1>2. CASE UNCHANGED vars
  BY <1>2 DEF vars, db, env, VersionInv, Versions, OneMs, Noted
<1>3. QED
  BY <1>1, <1>2 DEF Next, Step

-----------------------------------------------------------------------------
(* When a call is stored.                                                  *)

(* The answers a step gives.                                               *)
Answers(w) ==
  /\ pc'[w] = "idle" /\ calls'[w] = calls[w]
  /\ \E a \in {"resolved", "rejected", "unknown"} : answer' = [answer EXCEPT ![Current(w)] = a]

LEMMA AnswerSteps ==
  ASSUME StateOK, NEW w \in Worker, Step(w)
  PROVE  Answers(w) \/ UNCHANGED answer
<1> USE DEF StateOK, PcOK
<1>1. CASE Release(w)
  BY <1>1 DEF Release, Answered, Answers, Verdict
<1>2. CASE BeginFails(w)
  BY <1>2 DEF BeginFails, Answers
<1>3. CASE UNCHANGED answer
  BY <1>3
<1>4. QED
  BY <1>1, <1>2, <1>3
  DEF Step, CallStep, CallTransaction, CallWithLoaded, CallWithKept, StartCall, OperationStep,
      Fetch, Fetched, FetchFails, LoadForUpdate, LoadMissing, Conflict, OperationResolves, Write,
      StatementFails, StatementFailsIgnored, SessionEnds, OperationThrows, TransactionStep,
      Begin, Sink, SinkFails, Commit, CommitFails, Rollback, RollbackFails

LEMMA OtherCalls ==
  ASSUME StateOK, NEW w \in Worker, Step(w), NEW x \in Worker, x # w, NEW n \in Nat
  PROVE  /\ <<x, n>> \in stored' <=> <<x, n>> \in stored
         /\ <<x, n>> \in Call => answer'[<<x, n>>] = answer[<<x, n>>]
<1>1. Current(w) # <<x, n>>
  BY DEF Current
<1>2. <<x, n>> \in stored' <=> <<x, n>> \in stored
  BY <1>1, StoreSteps DEF Commits, Apply
<1>3. <<x, n>> \in Call => answer'[<<x, n>>] = answer[<<x, n>>]
  BY <1>1, AnswerSteps DEF Answers, StateOK, PcOK
<1>4. QED
  BY <1>2, <1>3

LEMMA AheadStep ==
  ASSUME StateOK, CallInv, NEW w \in Worker, Ahead(w), Step(w)
  PROVE  Ahead(w)'
<1>0. PcOK /\ calls[w] \in Nat
  BY DEF StateOK, PcOK
<1>1. SUFFICES ASSUME NEW n \in Nat, <<w, n>> \in Call
               PROVE  /\ <<w, n>> \in stored' => n <= calls'[w]
                      /\ n > calls'[w] \/ (n = calls'[w] /\ pc'[w] # "idle")
                           => answer'[<<w, n>>] = "none"
  BY DEF Ahead
<1>2. /\ <<w, n>> \in stored => n <= calls[w]
      /\ n > calls[w] \/ (n = calls[w] /\ pc[w] # "idle") => answer[<<w, n>>] = "none"
  BY <1>1 DEF Ahead
<1>3. <<w, n>> \in stored' => n <= calls[w]
  <2>1. stored' \subseteq stored \cup {Current(w)}
    BY StoreSteps DEF Commits, Apply
  <2>2. <<w, n>> = Current(w) => n = calls[w]
    BY DEF Current
  <2>3. QED
    BY <1>0, <1>2, <2>1, <2>2
<1>4. CASE CallStep(w)
  <2>1. calls'[w] = calls[w] + 1 /\ answer' = answer
    BY <1>0, <1>4 DEF CallStep, CallTransaction, CallWithLoaded, CallWithKept, StartCall, PcOK
  <2>2. QED
    BY <1>0, <1>2, <1>3, <2>1
<1>5. CASE Answers(w)
  <2>1. n > calls[w] => answer'[<<w, n>>] = answer[<<w, n>>]
    BY <1>0, <1>1, <1>5 DEF Answers, Current, PcOK
  <2>2. QED
    BY <1>0, <1>2, <1>3, <1>5, <2>1 DEF Answers
<1>6. CASE UNCHANGED answer /\ ~CallStep(w)
  <2>1. calls' = calls
    BY <1>6
    DEF Step, OperationStep, Fetch, Fetched, FetchFails, LoadForUpdate, LoadMissing, Conflict,
        OperationResolves, Write, StatementFails, StatementFailsIgnored, SessionEnds,
        OperationThrows, TransactionStep, Begin, BeginFails, Sink, SinkFails, Commit, CommitFails,
        Rollback, RollbackFails, Release, Answered
  <2>2. pc'[w] # "idle" => pc[w] # "idle"
    BY <1>0, <1>6
    DEF Step, OperationStep, Fetch, Fetched, FetchFails, LoadForUpdate, LoadMissing, Conflict,
        OperationResolves, Write, Statement, Working, StatementFails, StatementFailsIgnored,
        SessionEnds, OperationThrows, TransactionStep, Begin, BeginFails, Sink, SinkFails, Commit,
        CommitFails, Rollback, RollbackFails, Release, Answered, PcOK
  <2>3. QED
    BY <1>0, <1>2, <1>3, <1>6, <2>1, <2>2
<1>7. QED
  BY <1>4, <1>5, <1>6, AnswerSteps

LEMMA CarriesStep ==
  ASSUME StateOK, CallInv, LockInv, NEW w \in Careful, Carries(w), Step(w)
  PROVE  Carries(w)'
<1> USE DEF PcOK, Pc, Before
<1>0. w \in Worker /\ PcOK /\ TrxOK /\ AggOK /\ CallOK(w) /\ LockOK(w)
  BY UnitOfWorkAssumption DEF StateOK, CallInv, LockInv
<1>1. CASE pc'[w] \notin {"connecting"} \cup Before
  BY <1>1 DEF Carries
<1>2. CASE CallStep(w)
  <2>1. /\ pc'[w] = "connecting" /\ calls'[w] = calls[w] + 1
        /\ agg'[w].loaded # "no" => agg'[w].events = {<<w, calls[w] + 1>>}
    BY <1>0, <1>2
    DEF CallStep, CallTransaction, CallWithLoaded, CallWithKept, StartCall, NoAgg, AggOK
  <2>2. QED
    BY <2>1 DEF Carries, Current
<1>3. CASE Begin(w)
  <2>1. pc'[w] = "working" /\ pc[w] = "connecting" /\ UNCHANGED <<agg, calls>>
    BY <1>0, <1>3 DEF Begin
  <2>2. QED
    BY <1>0, <1>3, <2>1, BeginSet DEF Carries, Current
<1>4. CASE Fetch(w) \/ Fetched(w)
  <2>1. /\ pc[w] \in {"working", "fetching"} /\ pc'[w] \in {"working", "fetching"}
        /\ UNCHANGED <<agg, calls, trx>>
    BY <1>0, <1>4 DEF Fetch, Fetched, Working
  <2>2. QED
    BY <2>1 DEF Carries, Current
<1>5. CASE LoadForUpdate(w)
  <2>1. pc[w] = "working" /\ agg'[w].events = {Current(w)} /\ UNCHANGED <<pc, calls, trx>>
    BY <1>0, <1>5 DEF LoadForUpdate, Statement, Working, AggOK
  <2>2. QED
    BY <2>1 DEF Carries, Current
<1>6. ASSUME NEW kind \in {"update", "delete"}, Write(w, kind) PROVE Carries(w)'
  <2>1. pc[w] = "working" /\ UNCHANGED <<pc, calls, agg>>
    BY <1>6 DEF Write, Statement, Working
  <2>2. QED
    BY <1>0, <1>6, <2>1, WriteSet DEF Carries, Current
<1>7. CASE OperationResolves(w)
  <2>1. /\ pc[w] = "working" /\ pc'[w] \in {"sinking", "committing"} /\ calls' = calls
        /\ trx[w].write # "none" \/ trx[w].session # "open"
    BY <1>0, <1>7 DEF OperationResolves
  <2>2. trx[w].session = "open" /\ trx[w].write # "none" /\ agg[w].events = {Current(w)}
    BY <1>0, <2>1 DEF Carries, LockOK
  <2>3. QED
    BY <1>0, <1>7, <2>1, <2>2, ResolveSet DEF Carries, Current
<1>8. CASE Sink(w)
  <2>1. pc[w] = "sinking" /\ pc'[w] = "committing" /\ UNCHANGED <<agg, calls, trx>>
    BY <1>0, <1>8 DEF Sink
  <2>2. QED
    BY <2>1 DEF Carries, Current
<1>9. ASSUME NEW how \in {"aborted", "lost"}, StatementFails(w, how) PROVE Carries(w)'
  BY <1>0, <1>1, <1>9 DEF StatementFails, SessionEnds, Fail
<1>10. CASE FetchFails(w) \/ LoadMissing(w) \/ Conflict(w) \/ OperationThrows(w) \/ SinkFails(w)
            \/ CommitFails(w)
  BY <1>0, <1>1, <1>10 DEF FetchFails, LoadMissing, Conflict, OperationThrows, SinkFails, CommitFails, Fail
<1>11. CASE BeginFails(w) \/ Commit(w) \/ Rollback(w) \/ RollbackFails(w) \/ Release(w)
  BY <1>0, <1>1, <1>11 DEF BeginFails, Commit, Rollback, RollbackFails, Release, Answered
<1>12. QED
  BY <1>2, <1>3, <1>4, <1>5, <1>6, <1>7, <1>8, <1>9, <1>10, <1>11
  DEF Step, OperationStep, TransactionStep, StatementFailsIgnored

(* A call of w goes from its start to its transaction's end; only a commit *)
(* stores it, and after that only a lost session can be rolled back.       *)
LEMMA StagesStep ==
  ASSUME StateOK, CallInv, LockInv, NEW w \in Worker, Stages(w), Ahead(w), w \in Careful => Carries(w),
         Step(w)
  PROVE  Stages(w)'
<1> USE DEF PcOK, Pc, Before
<1>0. /\ PcOK /\ TrxOK /\ CallOK(w) /\ calls[w] \in Nat
      /\ stored \subseteq Call
  BY DEF StateOK, CallInv, PcOK, RowOK
<1>1. CASE CallStep(w)
  <2>1. /\ pc[w] = "idle" /\ calls[w] < CallsOf[w]
        /\ pc'[w] = "connecting" /\ calls'[w] = calls[w] + 1 /\ stored' = stored
    BY <1>0, <1>1 DEF CallStep, CallTransaction, CallWithLoaded, CallWithKept, StartCall, db
  <2>2. <<w, calls[w] + 1>> \notin stored
    BY <1>0 DEF Ahead
  <2>3. QED
    BY <2>1, <2>2 DEF Stages, Current
<1>2. ASSUME UNCHANGED <<calls, stored>>, pc'[w] \in {"idle", "connecting"} \cup Before,
             pc'[w] # "idle" => pc[w] \in {"connecting"} \cup Before
      PROVE  Stages(w)'
  BY <1>2 DEF Stages, Current
<1>3. ASSUME UNCHANGED <<calls, stored>>, pc'[w] = "rollback",
             pc[w] \in Before
      PROVE  Stages(w)'
  BY <1>3 DEF Stages, Current
<1>4. CASE Commit(w)
  <2>1. pc[w] = "committing" /\ pc'[w] = "releasing" /\ error'[w] = "none" /\ calls' = calls
    BY <1>0, <1>4 DEF Commit, CallOK
  <2>2. w \in Careful => Current(w) \in stored'
    <3>1. w \in Careful => trx[w].session = "open" /\ trx[w].write # "none"
      BY <2>1 DEF Carries
    <3>2. QED
      BY <1>4, <3>1 DEF Commit, Apply
  <2>3. QED
    BY <2>1, <2>2 DEF Stages, Current
<1>5. CASE CommitFails(w)
  <2>1. pc[w] = "committing" /\ pc'[w] = "rollback" /\ calls' = calls
    BY <1>0, <1>5 DEF CommitFails, Fail
  <2>2. stored' = stored \/ trx' = [trx EXCEPT ![w].session = "lost"]
    BY <1>5 DEF CommitFails, db
  <2>3. CASE stored' = stored
    BY <1>3, <2>1, <2>3
  <2>4. CASE trx' = [trx EXCEPT ![w].session = "lost"]
    <3>1. trx'[w].session = "lost"
      BY <1>0, <2>4, SessionSet
    <3>2. QED
      BY <2>1, <3>1 DEF Stages
  <2>5. QED
    BY <2>2, <2>3, <2>4
<1>6. CASE Rollback(w)
  <2>1. /\ pc[w] = "rollback" /\ trx[w].session \in {"open", "aborted"}
        /\ pc'[w] = "releasing" /\ UNCHANGED <<calls, stored, error>>
    BY <1>0, <1>6 DEF Rollback
  <2>2. error[w] # "none"
    BY <1>0, <2>1 DEF CallOK
  <2>3. QED
    BY <2>1, <2>2 DEF Stages, Current
<1>7. CASE RollbackFails(w)
  <2>1. pc'[w] = "releasing" /\ error'[w] = "rollback"
    BY <1>0, <1>7 DEF RollbackFails
  <2>2. QED
    BY <2>1 DEF Stages
<1>8. ASSUME NEW kind \in {"update", "delete"}, Write(w, kind) PROVE Stages(w)'
  BY <1>2, <1>8 DEF Write, Statement, Working
<1>9. ASSUME NEW how \in {"aborted", "lost"}, StatementFails(w, how) \/ StatementFailsIgnored(w, how)
      PROVE  Stages(w)'
  BY <1>0, <1>2, <1>3, <1>9 DEF StatementFails, StatementFailsIgnored, SessionEnds, Working, Fail
<1>10. CASE LoadForUpdate(w) \/ OperationResolves(w)
  BY <1>0, <1>2, <1>10 DEF LoadForUpdate, OperationResolves, Statement, Working, db
<1>11. CASE Fetch(w) \/ Fetched(w) \/ Begin(w) \/ BeginFails(w) \/ Sink(w) \/ Release(w)
  BY <1>0, <1>2, <1>11 DEF Fetch, Fetched, Begin, BeginFails, Sink, Release, Answered, Working, db
<1>12. CASE FetchFails(w) \/ LoadMissing(w) \/ Conflict(w) \/ OperationThrows(w) \/ SinkFails(w)
  BY <1>0, <1>3, <1>12
  DEF FetchFails, LoadMissing, Conflict, OperationThrows, SinkFails, Fail, Statement, Working, db
<1>13. QED
  BY <1>1, <1>4, <1>5, <1>6, <1>7, <1>8, <1>9, <1>10, <1>11, <1>12
  DEF Step, OperationStep, TransactionStep

(* Whose events an instance and a transaction hold.                        *)
LEMMA OwnEventsStep ==
  ASSUME StateOK, NEW w \in Worker, Step(w),
         agg[w].events \subseteq {w} \X Nat, trx[w].sunk \subseteq {w} \X Nat
  PROVE  agg'[w].events \subseteq {w} \X Nat /\ trx'[w].sunk \subseteq {w} \X Nat
<1>0. TrxOK /\ AggOK /\ calls[w] \in Nat
  BY DEF StateOK, PcOK
<1>1. CASE CallStep(w)
  BY <1>0, <1>1
  DEF CallStep, CallTransaction, CallWithLoaded, CallWithKept, StartCall, NoAgg, AggOK, AggType
<1>2. CASE LoadForUpdate(w)
  BY <1>0, <1>2 DEF LoadForUpdate, Current, AggOK
<1>3. CASE OperationResolves(w)
  <2>1. agg'[w].events = {}
    BY <1>0, <1>3 DEF OperationResolves, AggOK, AggType
  <2>2. QED
    BY <1>0, <1>3, <2>1, ResolveSet
<1>4. CASE Begin(w)
  BY <1>0, <1>4, BeginSet DEF Begin
<1>5. ASSUME NEW kind \in {"update", "delete"}, Write(w, kind)
      PROVE  agg'[w].events \subseteq {w} \X Nat /\ trx'[w].sunk \subseteq {w} \X Nat
  BY <1>0, <1>5, WriteSet DEF Write
<1>6. CASE Release(w)
  <2>1. agg'[w] \in {NoAgg, agg[w]} /\ trx'[w] = NoTrx
    BY <1>0, <1>6 DEF Release, Answered, AggOK, TrxOK
  <2>2. QED
    BY <2>1 DEF NoAgg, NoTrx
<1>7. ASSUME NEW how \in {"none", "aborted", "lost"}, trx' = [trx EXCEPT ![w].session = how], agg' = agg
      PROVE  agg'[w].events \subseteq {w} \X Nat /\ trx'[w].sunk \subseteq {w} \X Nat
  BY <1>0, <1>7, SessionSet
<1>8. CASE UNCHANGED <<agg, trx>>
  BY <1>8
<1>9. ASSUME NEW how \in {"aborted", "lost"}, SessionEnds(w, how)
      PROVE  agg'[w].events \subseteq {w} \X Nat /\ trx'[w].sunk \subseteq {w} \X Nat
  BY <1>7, <1>9 DEF SessionEnds
<1>10. CASE SinkFails(w) \/ Commit(w) \/ CommitFails(w) \/ Rollback(w) \/ RollbackFails(w)
  BY <1>7, <1>8, <1>10 DEF SinkFails, Commit, CommitFails, Rollback, RollbackFails
<1>11. QED
  BY <1>1, <1>2, <1>3, <1>4, <1>5, <1>6, <1>8, <1>9, <1>10
  DEF Step, OperationStep, TransactionStep, Fetch, Fetched, FetchFails, LoadMissing, Conflict,
      StatementFails, StatementFailsIgnored, OperationThrows, BeginFails, Sink

LEMMA AtomStep ==
  ASSUME StateOK, CallInv, LockInv, AtomInv, [Next]_vars
  PROVE  AtomInv'
<1>1. ASSUME NEW w \in Worker, Step(w), NEW x \in Worker PROVE AtomOK(x)'
  <2>1. AtomOK(x) /\ PcOK
    BY DEF AtomInv, StateOK
  <2>2. CASE x = w
    <3>1. Stages(x)' /\ Ahead(x)'
      BY <1>1, <2>1, <2>2, StagesStep, AheadStep DEF AtomOK
    <3>2. agg'[x].events \subseteq {x} \X Nat /\ trx'[x].sunk \subseteq {x} \X Nat
      BY <1>1, <2>1, <2>2, OwnEventsStep DEF AtomOK
    <3>3. x \in Careful => Carries(x)'
      BY <1>1, <2>1, <2>2, CarriesStep DEF AtomOK
    <3>4. QED
      BY <3>1, <3>2, <3>3 DEF AtomOK
  <2>3. CASE x # w
    <3>1. /\ pc'[x] = pc[x] /\ calls'[x] = calls[x] /\ error'[x] = error[x]
          /\ agg'[x] = agg[x] /\ trx'[x] = trx[x] /\ calls[x] \in Nat
      BY <1>1, <2>1, <2>3, Others DEF PcOK
    <3>2. ASSUME NEW n \in Nat
          PROVE  /\ <<x, n>> \in stored' <=> <<x, n>> \in stored
                 /\ <<x, n>> \in Call => answer'[<<x, n>>] = answer[<<x, n>>]
      BY <1>1, <2>3, OtherCalls
    <3>3. Current(x)' = Current(x) /\ (Current(x) \in stored' <=> Current(x) \in stored)
      <4>1. <<x, calls[x]>> \in stored' <=> <<x, calls[x]>> \in stored
        BY <3>1, <3>2
      <4>2. QED
        BY <3>1, <4>1 DEF Current
    <3>4. Stages(x)'
      BY <2>1, <3>1, <3>3 DEF AtomOK, Stages
    <3>5. Ahead(x)'
      <4>1. ASSUME NEW n \in Nat, <<x, n>> \in Call
            PROVE  /\ <<x, n>> \in stored' => n <= calls'[x]
                   /\ n > calls'[x] \/ (n = calls'[x] /\ pc'[x] # "idle")
                        => answer'[<<x, n>>] = "none"
        <5>1. /\ <<x, n>> \in stored => n <= calls[x]
              /\ n > calls[x] \/ (n = calls[x] /\ pc[x] # "idle") => answer[<<x, n>>] = "none"
          BY <2>1, <4>1 DEF AtomOK, Ahead
        <5>2. /\ <<x, n>> \in stored' <=> <<x, n>> \in stored
              /\ answer'[<<x, n>>] = answer[<<x, n>>]
          BY <3>2, <4>1
        <5>3. QED
          BY <3>1, <5>1, <5>2
      <4>2. QED
        BY <4>1 DEF Ahead
    <3>6. x \in Careful => Carries(x)'
      BY <2>1, <3>1, <3>3 DEF AtomOK, Carries
    <3>7. QED
      BY <2>1, <3>1, <3>4, <3>5, <3>6 DEF AtomOK
  <2>4. QED
    BY <2>2, <2>3
<1>2. CASE UNCHANGED vars
  BY <1>2 DEF vars, db, AtomInv, AtomOK, Stages, Ahead, Carries, Current
<1>3. QED
  BY <1>1, <1>2 DEF Next, Step, AtomInv

-----------------------------------------------------------------------------
(* The invariant, and what follows from it.                                *)

LEMMA InvStep == IInv /\ [Next]_vars => IInv'
<1> SUFFICES ASSUME IInv, [Next]_vars PROVE IInv'
  OBVIOUS
<1> USE DEF IInv
<1>1. StateOK'
  BY AggStep, TrxStep, RowStep, PcStep DEF StateOK
<1>2. QED
  BY <1>1, CallInvStep, PoolStep, LockStep, VersionStep, AtomStep

LEMMA Invariance == Spec => []IInv
BY InitInv, InvStep, PTL DEF Spec

(* Every variable keeps its type: in particular no connection is returned  *)
(* twice, so the pool never holds more than its size                       *)
(* (unit-of-work.ts:47-88).                                                *)
THEOREM TypeCorrect == Spec => []TypeOK
<1>1. IInv => TypeOK
  <2> SUFFICES ASSUME IInv PROVE TypeOK
    OBVIOUS
  <2>1. RowOK /\ PcOK /\ AggOK /\ TrxOK
    BY DEF IInv, StateOK
  <2>2. Cardinality(Holding) \in Nat /\ Cardinality(Fetching) \in Nat
    <3>1. IsFiniteSet(Holding) /\ IsFiniteSet(Fetching)
      BY UnitOfWorkAssumption, FS_Subset DEF Holding, Fetching
    <3>2. QED
      BY <3>1, FS_CardinalityType
  <2>3. free \in 0..PoolSize
    BY <2>2, UnitOfWorkAssumption DEF IInv, PoolInv
  <2>4. leaked \in 0..MaxFaults /\ now \in 0..MaxTime
    BY <2>1, UnitOfWorkAssumption DEF IInv, PoolInv, RowOK
  <2>5. QED
    BY <2>1, <2>3, <2>4 DEF TypeOK, RowOK, PcOK, AggOK, AggType, TrxOK, TrxType
<1>2. QED
  BY <1>1, Invariance, PTL

(* Whatever fails, every connection comes back except those whose BEGIN    *)
(* failed: transaction() begins before its try, and releases in a finally  *)
(* (unit-of-work.ts:47-48, 86-88).                                         *)
THEOREM ConnectionsReturn == Spec => []PoolRefills
<1>1. IInv => PoolRefills
  <2> SUFFICES ASSUME IInv, \A w \in Worker : pc[w] \in {"idle", "connecting"}
               PROVE  free = PoolSize - leaked
    BY DEF PoolRefills
  <2>1. Holding = {} /\ Fetching = {}
    BY DEF Holding, Fetching
  <2>2. Cardinality(Holding) = 0 /\ Cardinality(Fetching) = 0
    BY <2>1, FS_EmptySet
  <2>3. QED
    BY <2>2, UnitOfWorkAssumption DEF IInv, PoolInv
<1>2. QED
  BY <1>1, Invariance, PTL

(* A caller that locked the row when loading it meets an optimistic lock   *)
(* conflict only after a write of its own in the same transaction          *)
(* (base-scoped-aggregate.repository.ts:32-48, keyed-write.dao.ts:161).    *)
THEOREM OnlyItself == Spec => []LockedReadConflictsWithItself
<1>1. IInv => LockedReadConflictsWithItself
  BY DEF IInv, LockInv, LockOK, LockedReadConflictsWithItself
<1>2. QED
  BY <1>1, Invariance, PTL

(* An update is lost only to another that began in the same millisecond    *)
(* (pg-write-db-adapter.ts:144-147, 239-248).                              *)
THEOREM NoUpdateLost == Spec => []LostUpdateNeedsOneMs
<1>1. IInv => LostUpdateNeedsOneMs
  BY DEF IInv, VersionInv, OneMs, LostUpdateNeedsOneMs
<1>2. QED
  BY <1>1, Invariance, PTL

-----------------------------------------------------------------------------
(* The refinement.                                                         *)

atomicVars == <<stored \cap CarefulCalls, sunk \cap CarefulCalls, [c \in CarefulCalls |-> answer[c]]>>

LEMMA AtomicInit == Init => Atomic!Init
BY DEF Init, Atomic!Init, CarefulCalls

(* A careful caller's commit stores its write and its events at once.      *)
LEMMA CommitStores ==
  ASSUME IInv, NEW w \in Careful, Commits(w)
  PROVE  Current(w) \in CarefulCalls /\ Atomic!Store(Current(w))
<1>1. w \in Worker /\ PcOK /\ pc[w] = "committing" /\ AtomOK(w)
  BY UnitOfWorkAssumption DEF IInv, StateOK, Commits, AtomInv
<1>2. Current(w) \in Call
  BY <1>1, CurrentIsCall DEF IInv
<1>3. Current(w) \in CarefulCalls
  BY <1>2 DEF CarefulCalls, Current
<1>4. Current(w) \notin stored
  BY <1>1 DEF AtomOK, Stages, Before
<1>5. answer[Current(w)] = "none"
  BY <1>1, <1>2 DEF AtomOK, Ahead, PcOK, Current
<1>6. trx[w].write # "none" /\ trx[w].sunk = {Current(w)}
  BY <1>1 DEF AtomOK, Carries
<1>7. stored' = stored \cup {Current(w)} /\ sunk' = sunk \cup {Current(w)} /\ answer' = answer
  BY <1>6 DEF Commits, Apply
<1>8. /\ (stored \cap CarefulCalls)' = (stored \cap CarefulCalls) \cup {Current(w)}
      /\ (sunk \cap CarefulCalls)' = (sunk \cap CarefulCalls) \cup {Current(w)}
      /\ [c \in CarefulCalls |-> answer[c]]' = [c \in CarefulCalls |-> answer[c]]
  BY <1>3, <1>7
<1>9. QED
  BY <1>3, <1>4, <1>5, <1>8 DEF Atomic!Store

(* Its release, and its failed BEGIN, answer as the store then is.         *)
LEMMA ReleaseAnswers ==
  ASSUME IInv, NEW w \in Careful, Release(w) \/ BeginFails(w)
  PROVE  /\ Current(w) \in CarefulCalls
         /\ \E a \in {"resolved", "rejected", "unknown"} : Atomic!Answer(Current(w), a)
<1>1. w \in Worker /\ PcOK /\ pc[w] \in {"connecting", "releasing"} /\ AtomOK(w) /\ CallOK(w)
  BY UnitOfWorkAssumption DEF IInv, StateOK, CallInv, AtomInv, Release, Answered, BeginFails
<1>2. Current(w) \in Call
  BY <1>1, CurrentIsCall DEF IInv
<1>3. Current(w) \in CarefulCalls
  BY <1>2 DEF CarefulCalls, Current
<1>4. answer[Current(w)] = "none"
  BY <1>1, <1>2 DEF AtomOK, Ahead, PcOK, Current
<1>5. PICK a \in {"resolved", "rejected", "unknown"} :
        /\ answer' = [answer EXCEPT ![Current(w)] = a]
        /\ a = "resolved" => Current(w) \in stored
        /\ a = "rejected" => Current(w) \notin stored
  <2>1. CASE Release(w)
    <3>1. pc[w] = "releasing" /\ answer' = [answer EXCEPT ![Current(w)] = Verdict(w)]
      BY <2>1 DEF Release, Answered
    <3>2. error[w] \in {"none", "operation", "conflict", "commit", "rollback"}
      BY <1>1 DEF PcOK
    <3>3. /\ error[w] = "none" => Current(w) \in stored
          /\ error[w] \in {"operation", "conflict", "commit"} => Current(w) \notin stored
      BY <1>1, <3>1 DEF AtomOK, Stages
    <3>4. QED
      BY <3>1, <3>2, <3>3 DEF Verdict
  <2>2. CASE BeginFails(w)
    BY <1>1, <2>2 DEF BeginFails, AtomOK, Stages
  <2>3. QED
    BY <2>1, <2>2
<1>6. UNCHANGED <<stored, sunk>>
  BY DEF Release, Answered, BeginFails, db
<1>7. [c \in CarefulCalls |-> answer[c]]' = [[c \in CarefulCalls |-> answer[c]] EXCEPT ![Current(w)] = a]
  BY <1>1, <1>3, <1>5 DEF PcOK, CarefulCalls
<1>8. Atomic!Answer(Current(w), a)
  BY <1>3, <1>4, <1>5, <1>6, <1>7 DEF Atomic!Answer
<1>9. QED
  BY <1>3, <1>8

LEMMA AtomicStep == IInv /\ [Next]_vars => [Atomic!Next]_atomicVars
<1> SUFFICES ASSUME IInv, [Next]_vars PROVE Atomic!Next \/ UNCHANGED atomicVars
  OBVIOUS
<1>1. ASSUME NEW w \in Worker, Step(w) PROVE Atomic!Next \/ UNCHANGED atomicVars
  <2>1. CASE w \in Careful /\ Commits(w)
    BY <2>1, CommitStores DEF Atomic!Next
  <2>2. CASE w \in Careful /\ (Release(w) \/ BeginFails(w))
    BY <2>2, ReleaseAnswers DEF Atomic!Next
  <2>3. CASE w \notin Careful
    <3>1. Current(w) \notin CarefulCalls /\ trx[w].sunk \cap CarefulCalls = {}
      BY <2>3 DEF CarefulCalls, Current, IInv, AtomInv, AtomOK
    <3>2. /\ stored' \cap CarefulCalls = stored \cap CarefulCalls
          /\ sunk' \cap CarefulCalls = sunk \cap CarefulCalls
      BY <1>1, <3>1, StoreSteps DEF Commits, Apply
    <3>3. \A c \in CarefulCalls : answer'[c] = answer[c]
      BY <1>1, <3>1, AnswerSteps DEF Answers, IInv, StateOK, PcOK, CarefulCalls
    <3>4. QED
      BY <3>2, <3>3 DEF atomicVars
  <2>4. CASE ~Commits(w) /\ ~Release(w) /\ ~BeginFails(w)
    <3>1. UNCHANGED <<stored, sunk>>
      BY <1>1, <2>4, StoreSteps
    <3>2. answer' = answer
      BY <1>1, <2>4
      DEF Step, CallStep, CallTransaction, CallWithLoaded, CallWithKept, StartCall, OperationStep,
          Fetch, Fetched, FetchFails, LoadForUpdate, LoadMissing, Conflict, OperationResolves, Write,
          StatementFails, StatementFailsIgnored, SessionEnds, OperationThrows, TransactionStep,
          Begin, Sink, SinkFails, Commit, CommitFails, Rollback, RollbackFails
    <3>3. QED
      BY <3>1, <3>2 DEF atomicVars
  <2>5. QED
    BY <2>1, <2>2, <2>3, <2>4
<1>2. CASE UNCHANGED vars
  BY <1>2 DEF vars, db, atomicVars
<1>3. QED
  BY <1>1, <1>2 DEF Next, Step

(* The calls of careful callers are atomic: rows and events are stored     *)
(* together or not at all, and the promise of transaction() tells which,   *)
(* unless rolling back failed (unit-of-work.ts:63-88,                      *)
(* pg.transaction.ts:47-82).                                               *)
THEOREM Refinement == Spec => IsAtomic
BY AtomicInit, AtomicStep, Invariance, PTL DEF Spec, IsAtomic, Atomic!Spec, atomicVars
=============================================================================
