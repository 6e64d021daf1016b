---------------------------- MODULE EventContext ----------------------------
(***************************************************************************)
(* An execution context carried by an event: EventMetadata of the ddd      *)
(* package on the side that emits it, createFromEventMetadata and          *)
(* EventConsumer.buildExecutionContext on the side that handles it.        *)
(*                                                                         *)
(* A context has at most one session scope and at most one scope of its    *)
(* own, and its session at most one user and some other attributes. What   *)
(* is absent is the empty set, and so is the null it becomes in JSON.      *)
(***************************************************************************)

ReservedAttributeKeys == {"scopeId", "userId", "__proto__", "constructor", "prototype"}

(* EventMetadata.create refuses attributes of nobody, and ones that would  *)
(* take the place of an id.                                                *)
MetadataInvalid(props) ==
  /\ props.attributes # {}
  /\ \/ props.scopeId = {} \/ props.userId = {}
     \/ props.attributes \cap ReservedAttributeKeys # {}

HasSession(metadata) == metadata.scopeId # {} /\ metadata.userId # {}

(* Mutant: a scope is a session's, whether or not there is a user.         *)
AlwaysSession(metadata) ==
  [session |-> metadata.scopeId, scope |-> {}, user |-> metadata.userId,
   attributes |-> metadata.attributes]

(* Both ids make a session; a scope alone is the scope of work without     *)
(* one, a user alone is nothing.                                           *)
CreateFromEventMetadata(metadata) ==
  IF HasSession(metadata)
  THEN [session |-> metadata.scopeId, scope |-> {}, user |-> metadata.userId,
        attributes |-> metadata.attributes \ {"scopeId", "userId"}]
  ELSE [session |-> {}, scope |-> metadata.scopeId, user |-> {}, attributes |-> {}]

SystemContext == [session |-> {}, scope |-> {}, user |-> {}, attributes |-> {}]

(* What the consumer runs a handler in: an event may come without metadata.*)
BuildExecutionContext(event) ==
  IF event.metadata = {} THEN SystemContext
  ELSE CreateFromEventMetadata(CHOOSE m \in event.metadata : TRUE)
=============================================================================
