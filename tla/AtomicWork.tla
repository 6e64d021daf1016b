----------------------------- MODULE AtomicWork -----------------------------
(***************************************************************************)
(* What one call of UnitOfWork.transaction promises: the rows it wrote and *)
(* the events it recorded are stored in one step or not at all, it         *)
(* resolves only once they are, and it rejects only while they are not,    *)
(* unless rolling back failed too: then its outcome is unknown.            *)
(***************************************************************************)
CONSTANT Call

VARIABLES
  stored,     \* calls whose rows are in the database
  sunk,       \* calls whose events are in the outbox
  answer      \* of each call: none yet, resolved, rejected or unknown

Init ==
  /\ stored = {}
  /\ sunk = {}
  /\ answer = [c \in Call |-> "none"]

Store(c) ==
  /\ answer[c] = "none"
  /\ c \notin stored
  /\ stored' = stored \cup {c}
  /\ sunk' = sunk \cup {c}
  /\ UNCHANGED answer

Answer(c, a) ==
  /\ answer[c] = "none"
  /\ a = "resolved" => c \in stored
  /\ a = "rejected" => c \notin stored
  /\ answer' = [answer EXCEPT ![c] = a]
  /\ UNCHANGED <<stored, sunk>>

Next ==
  \E c \in Call : Store(c) \/ \E a \in {"resolved", "rejected", "unknown"} : Answer(c, a)

Spec == Init /\ [][Next]_<<stored, sunk, answer>>
=============================================================================
