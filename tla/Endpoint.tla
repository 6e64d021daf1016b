------------------------------ MODULE Endpoint ------------------------------
(***************************************************************************)
(* One request through HonoServer and the chain of its route: the          *)
(* execution context, the auth stack (bearerTokenMiddleware and            *)
(* authenticatedSessionMiddleware of the security package), middlewares    *)
(* that run the rest in a scope, the wrappers that AuthorizeScope and      *)
(* ValidateRequest left on the method, and the handler.                    *)
(*                                                                         *)
(* A value that came in with the request is known by where it came from:   *)
(* the client's body, params or query, a header, or the session. The token *)
(* service, the session store and the validator are external.              *)
(***************************************************************************)
EXTENDS Router

VARIABLES
  app,        \* the options of the router, the request and what the handler does
  routes,     \* the table the server registered
  route,      \* the route that serves the request, if any
  todo,       \* the rest of its chain
  attributes, \* the request's: its auth stack, that stack's keys, the stack that verified it
  context,    \* the ExecutionContext in force: none, or with a session, a scope
  input,      \* the validated input: where each key's value came from
  outcome     \* "none", the reason for no answer, or the status of the answer

httpVars == <<app, routes, route, todo, attributes, context, input, outcome>>

request == app.request

NoContext == [active |-> FALSE, session |-> {}, scope |-> {}]

EndpointInit(apps) ==
  /\ app \in apps
  /\ routes = <<>> /\ route = {} /\ todo = <<>>
  /\ attributes = [stack |-> {}, keys |-> {}, verified |-> {}]
  /\ context = NoContext
  /\ input = {}
  /\ outcome = "starting"

-----------------------------------------------------------------------------
(* The server                                                              *)

RefuseToStart ==
  /\ outcome = "starting"
  /\ Refused(app.options)
  /\ outcome' = "refused"
  /\ UNCHANGED <<app, routes, route, todo, attributes, context, input>>

Bootstrap ==
  /\ outcome = "starting"
  /\ ~Refused(app.options)
  /\ routes' = BuildRoutes(app.options)
  /\ outcome' = "listening"
  /\ UNCHANGED <<app, route, todo, attributes, context, input>>

Receive ==
  /\ outcome = "listening"
  /\ \E r \in Dispatch(routes, request.verb, request.path) :
       /\ route' = {routes[r]}
       /\ todo' = routes[r].chain \o routes[r].guards
       /\ outcome' = "serving"
  /\ UNCHANGED <<app, routes, attributes, context, input>>

NotFound ==
  /\ outcome = "listening"
  /\ Dispatch(routes, request.verb, request.path) = {}
  /\ outcome' = "404"
  /\ UNCHANGED <<app, routes, route, todo, attributes, context, input>>

-----------------------------------------------------------------------------
(* The chain. A step that throws ends it, with the status of its error.    *)

Step(name) ==
  /\ outcome = "serving"
  /\ todo # <<>>
  /\ Head(todo).step = name

Onward == todo' = Tail(todo) /\ UNCHANGED outcome

Throw(status) == outcome' = status /\ UNCHANGED todo

Rest == UNCHANGED <<app, routes, route, input>>

EnterContext ==
  /\ Step("context")
  /\ context' = [NoContext EXCEPT !.active = TRUE]
  /\ Onward /\ Rest /\ UNCHANGED attributes

Stamp ==
  /\ Step("stamp")
  /\ attributes' = [attributes EXCEPT
                      !.stack = {Head(todo).stack},
                      !.keys = SessionKeys(app.options, Head(todo).stack)]
  /\ Onward /\ Rest /\ UNCHANGED context

VerifyCredential ==
  /\ Step("verify")
  /\ IF request.credential = Head(todo).stack
     THEN attributes' = [attributes EXCEPT !.verified = {Head(todo).stack}] /\ Onward
     ELSE Throw("401") /\ UNCHANGED attributes
  /\ Rest /\ UNCHANGED context

(* The session goes on top of whatever context is in force.                *)
LoadSession ==
  /\ Step("load")
  /\ IF attributes.verified # {} /\ request.session = "live"
     THEN context' = [context EXCEPT !.session = {"session"}] /\ Onward
     ELSE Throw("401") /\ UNCHANGED context
  /\ Rest /\ UNCHANGED attributes

(* resolveScopeId throws when a context has both a session and a scope.    *)
ScopeConflict(c) == c.session # {} /\ c.scope # {}
ResolveScopeId(c) == c.session \cup c.scope

(* Mutant: the scope is set whatever scope is in force.                    *)
WithScopeUnchecked ==
  /\ Step("scope")
  /\ context' = [context EXCEPT !.scope = {Head(todo).target}]
  /\ Onward /\ Rest /\ UNCHANGED attributes

(* A middleware that runs the rest withScope(a scope of its choice).       *)
WithScope ==
  /\ Step("scope")
  /\ LET target == Head(todo).target
     IN \/ /\ ~context.active \/ ScopeConflict(context)
              \/ ResolveScopeId(context) \notin {{}, {target}}
           /\ Throw("500") /\ UNCHANGED context
        \/ /\ context.active /\ ResolveScopeId(context) = {}
           /\ context' = [context EXCEPT !.scope = {target}]
           /\ Onward
        \/ /\ context.active /\ ~ScopeConflict(context)
           /\ ResolveScopeId(context) = {target}
           /\ Onward /\ UNCHANGED context
  /\ Rest /\ UNCHANGED attributes

AuthorizeScope ==
  /\ Step("authorize")
  /\ IF attributes.verified # {} /\ request.granted
     THEN Onward ELSE Throw("403")
  /\ Rest /\ UNCHANGED <<attributes, context>>

(* What ValidateRequest gives the validator, key by key. The description   *)
(* of the schema may be missing; sessions have their base keys and, if the *)
(* request says so, the stack's.                                           *)
Described(guard, key) == guard.described /\ key \in guard.keys

FromSources(key) ==
  IF key \in request.sent \ attributes.keys THEN "client" ELSE "absent"

FromHeader(guard, key) ==
  IF Described(guard, key) /\ key \in EffectiveHeaders(guard.headers) \cap request.headers
  THEN "header" ELSE FromSources(key)

(* Mutant: what the request says wins over the session.                    *)
RawClientWins(guard, key) ==
  IF /\ Described(guard, key) /\ context.session # {}
     /\ key \in BaseSessionKeys \cup attributes.keys
     /\ FromHeader(guard, key) = "absent"
  THEN "session" ELSE FromHeader(guard, key)

Raw(guard, key) ==
  IF /\ Described(guard, key) /\ context.session # {}
     /\ key \in BaseSessionKeys \cup attributes.keys
  THEN "session" ELSE FromHeader(guard, key)

(* A described schema asks for the context, and for what a session must    *)
(* give it.                                                                *)
SessionLacks(guard) ==
  \/ ~context.active
  \/ \E key \in {k \in BaseSessionKeys \cup attributes.keys : Described(guard, k)} :
       IF context.session = {} THEN key \in attributes.keys
       ELSE key \notin BaseSessionKeys \cup request.sessionExtras

ValidateRequest ==
  /\ Step("validate")
  /\ LET guard == Head(todo)
     IN IF guard.described /\ SessionLacks(guard)
        THEN Throw("500") /\ UNCHANGED input
        ELSE IF request.malformed \/ \E key \in guard.required : Raw(guard, key) = "absent"
        THEN Throw("400") /\ UNCHANGED input
        ELSE /\ input' = {[key \in guard.keys |-> Raw(guard, key)]}
             /\ Onward
  /\ UNCHANGED <<app, routes, route, attributes, context>>

(* The handler runs in whatever context the chain left, with two scopes,   *)
(* too: it is told only when it asks for one of them.                      *)
Handle ==
  /\ outcome = "serving" /\ todo = <<>>
  /\ outcome' = "handled"
  /\ UNCHANGED <<app, routes, route, todo, attributes, context, input>>

EndpointNext ==
  \/ RefuseToStart \/ Bootstrap \/ Receive \/ NotFound
  \/ EnterContext \/ Stamp \/ VerifyCredential \/ LoadSession
  \/ WithScope \/ AuthorizeScope \/ ValidateRequest \/ Handle
=============================================================================
