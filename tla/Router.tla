------------------------------- MODULE Router -------------------------------
(***************************************************************************)
(* new Router(options): the chains of the auth stacks, the metadata that   *)
(* the decorators left along each controller's class hierarchy, and the    *)
(* table of routes, sorted by specificity, that the server registers in    *)
(* that order and serves by its first match. The matching is Hono's and    *)
(* external: a parameter takes one segment, a constrained one only what    *)
(* its constraint accepts, a last wildcard whatever remains of the path.   *)
(*                                                                         *)
(* A path is a sequence of segments, each with the request segments it     *)
(* accepts and the length of its text. What may be undefined in the code   *)
(* is a set here, empty or with the value.                                 *)
(***************************************************************************)
EXTENDS Naturals, FiniteSets, FiniteSetsExt, Sequences, SequencesExt

BaseSessionKeys == {"scopeId", "userId"}
ForbiddenSessionKeys == {"__proto__", "constructor", "prototype"}

CONSTANTS
  MethodName,       \* the names of the controllers' methods
  StackName         \* the names of auth stacks, declared or not

-----------------------------------------------------------------------------
(* What the options and the decorators may say. That a set has one element *)
(* at most is written down for the stacks, where it matters. A middleware  *)
(* of the application may run the rest withScope; a guard is what a        *)
(* decorator wraps around a method.                                        *)
MaybeStack == {{}} \cup {{name} : name \in StackName}

Segment == [kind : {"static", "param", "wild"}, accepts : SUBSET STRING, width : Nat]
Path == Seq(Segment)
Middleware == [step : {"scope"}, stack : {""}, target : STRING]
Guard ==
  [step : {"authorize"}]
  \cup [step : {"validate"}, keys : SUBSET STRING, required : SUBSET STRING,
        described : BOOLEAN, headers : SUBSET STRING]

RouteDefinition ==
  [method : MethodName, verb : STRING, path : Path, public : BOOLEAN,
   version : SUBSET Path, authStack : MaybeStack]
Class ==
  [prefix : SUBSET Path, version : SUBSET Path, authStack : MaybeStack,
   routes : Seq(RouteDefinition),
   patches : [MethodName -> [validation : SUBSET SUBSET STRING]],
   methods : [MethodName -> SUBSET Seq(Guard)]]
HttpModuleMeta ==
  [prefix : Path, version : SUBSET Path, authStack : MaybeStack,
   middlewares : Seq(Middleware)]
Registration ==
  [module : HttpModuleMeta, prefix : Path, classes : Seq(Class),
   middlewares : Seq(Middleware)]

AuthMiddlewareStack == [loads : BOOLEAN, keys : SUBSET STRING]
IsRouterOptions(options) ==
  /\ \A stacks \in options.authStacks : \A name \in DOMAIN stacks :
       stacks[name] \in AuthMiddlewareStack
  /\ options.defaultAuthStack \in MaybeStack
  /\ options.context \in BOOLEAN
  /\ options.globalMiddlewares \in Seq(Middleware)
  /\ options.registrations \in Seq(Registration)

-----------------------------------------------------------------------------
(* a ?? b ?? c                                                             *)
FirstSet(declared) ==
  LET set == {i \in DOMAIN declared : declared[i] # {}}
  IN IF set = {} THEN {} ELSE declared[Min(set)]

OrElse(declared, default) ==
  IF declared = {} THEN default ELSE CHOOSE v \in declared : TRUE

-----------------------------------------------------------------------------
(* Controllers. A hierarchy is the metadata of its classes, nearest first. *)
(* Settings and the fields of a patch are the nearest class's that         *)
(* declares them, as is a method.                                          *)

(* Mutant: the farthest class that declares a setting decides.             *)
ReadFarthest(classes, key) == FirstSet([c \in DOMAIN classes |-> Reverse(classes)[c][key]])

ReadInherited(classes, key) == FirstSet([c \in DOMAIN classes |-> classes[c][key]])

Patched(classes, method, field) ==
  FirstSet([c \in DOMAIN classes |-> classes[c].patches[method][field]])

Method(classes, method) == FirstSet([c \in DOMAIN classes |-> classes[c].methods[method]])

-----------------------------------------------------------------------------
(* Auth stacks                                                             *)

Stacks(options) == OrElse(options.authStacks, <<>>)

(* A stack that is not declared has no chain; the constructor refuses it.  *)
AuthChain(options, stack) ==
  IF stack \notin DOMAIN Stacks(options) THEN <<>> ELSE
  <<[step |-> "stamp", stack |-> stack], [step |-> "verify", stack |-> stack]>>
  \o (IF Stacks(options)[stack].loads THEN <<[step |-> "load", stack |-> stack]>> ELSE <<>>)

SessionKeys(options, stack) == Stacks(options)[stack].keys \ BaseSessionKeys

InvalidStack(stack) ==
  \/ stack.keys # {} /\ ~stack.loads
  \/ stack.keys \cap ({""} \cup ForbiddenSessionKeys) # {}

(* What the constructor refuses before it looks at any controller.         *)
InvalidOptions(options) ==
  LET declared == DOMAIN Stacks(options)
  IN \/ \E s \in declared : InvalidStack(Stacks(options)[s])
     \/ options.authStacks # {} /\ declared = {}
     \/ declared # {} /\ (~options.context \/ options.defaultAuthStack = {})
     \/ ~(options.defaultAuthStack \subseteq declared)

UndeclaredStack(options) ==
  \E reg \in Range(options.registrations) :
    ~((ReadInherited(reg.classes, "authStack") \cup reg.module.authStack)
        \subseteq DOMAIN Stacks(options))

-----------------------------------------------------------------------------
(* Routes                                                                  *)

Weight(segment) ==
  CASE segment.kind = "param" -> 2
    [] segment.kind = "wild" -> 1
    [] OTHER -> 3

(* The sums of weights and of widths, each with one more per segment, as   *)
(* the number of pairs of a segment and a number up to its own.            *)
ComputeSpecificity(path) ==
  Cardinality({u \in (DOMAIN path) \X (0..3) : u[2] <= Weight(path[u[1]])})

TextLength(path) ==
  IF path = <<>> THEN 1
  ELSE Cardinality(UNION {{i} \X (0..path[i].width) : i \in DOMAIN path})

(* Names of parameters are erased, constraints are not.                    *)
MatchShape(path) == [i \in DOMAIN path |-> <<path[i].kind, path[i].accepts>>]

FullPath(reg, def) ==
  reg.module.prefix
  \o OrElse(FirstSet(<<def.version, ReadInherited(reg.classes, "version"),
                       reg.module.version>>), <<>>)
  \o reg.prefix
  \o OrElse(ReadInherited(reg.classes, "prefix"), <<>>)
  \o def.path

(* The stack whose chain a route runs, none for a public route.            *)
ResolvedStack(options, reg, def) ==
  IF def.public THEN {}
  ELSE FirstSet(<<def.authStack, ReadInherited(reg.classes, "authStack"),
                  reg.module.authStack, options.defaultAuthStack>>)

MiddlewareChain(options, reg, stack) ==
  (IF options.context THEN <<[step |-> "context", stack |-> ""]>> ELSE <<>>)
  \o options.globalMiddlewares
  \o (IF stack = {} THEN <<>> ELSE AuthChain(options, OrElse(stack, "")))
  \o reg.module.middlewares \o reg.middlewares

NormalizedRoute(options, reg, def) ==
  LET stack == ResolvedStack(options, reg, def)
  IN [verb |-> def.verb, path |-> FullPath(reg, def), public |-> def.public,
      authStack |-> stack, chain |-> MiddlewareChain(options, reg, stack),
      guards |-> OrElse(Method(reg.classes, def.method), <<>>),
      reg |-> reg, def |-> def]

(* Where a route is declared: its registration, its class and its place    *)
(* among the routes of that class.                                         *)
Declarations(options) ==
  LET classes(r) == options.registrations[r].classes
  IN UNION {UNION {{<<r, c, d>> : d \in DOMAIN classes(r)[c].routes} : c \in DOMAIN classes(r)} :
             r \in DOMAIN options.registrations}

(* The routes of a hierarchy accumulate, the parents' first.               *)
DeclaredBefore(p, q) ==
  \/ p[1] < q[1]
  \/ p[1] = q[1] /\ p[2] > q[2]
  \/ p[1] = q[1] /\ p[2] = q[2] /\ p[3] < q[3]

DeclaredRoutes(options) ==
  [p \in Declarations(options) |->
    LET reg == options.registrations[p[1]]
    IN NormalizedRoute(options, reg, reg.classes[p[2]].routes[p[3]])]

DuplicateRoute(options) ==
  LET routes == DeclaredRoutes(options)
  IN \E p, q \in DOMAIN routes :
       /\ p # q
       /\ routes[p].verb = routes[q].verb
       /\ MatchShape(routes[p].path) = MatchShape(routes[q].path)

EffectiveHeaders(headers) == headers \cup {"updatedAt"}

(* A route that takes a key of its session from a header, too.             *)
HeaderConflict(options, route) ==
  \E stack \in route.authStack \cap DOMAIN Stacks(options),
     headers \in Patched(route.reg.classes, route.def.method, "validation") :
    /\ Stacks(options)[stack].loads
    /\ EffectiveHeaders(headers) \cap (BaseSessionKeys \cup SessionKeys(options, stack)) # {}

InvalidSelection(options) ==
  \E route \in Range(DeclaredRoutes(options)) :
    \/ route.def.public /\ route.def.authStack # {}
    \/ ~(route.def.authStack \subseteq DOMAIN Stacks(options))

(* new Router throws                                                       *)
Refused(options) ==
  \/ InvalidOptions(options)
  \/ UndeclaredStack(options)
  \/ InvalidSelection(options)
  \/ DuplicateRoute(options)
  \/ \E route \in Range(DeclaredRoutes(options)) : HeaderConflict(options, route)

(* Mutant: the longer text first, whatever the segments are.               *)
CompareByLength(routes, p, q) ==
  \/ TextLength(routes[p].path) > TextLength(routes[q].path)
  \/ TextLength(routes[p].path) = TextLength(routes[q].path) /\ DeclaredBefore(p, q)

(* The sort is stable.                                                     *)
CompareBySpecificity(routes, p, q) ==
  LET a == routes[p].path
      b == routes[q].path
  IN \/ ComputeSpecificity(a) > ComputeSpecificity(b)
     \/ /\ ComputeSpecificity(a) = ComputeSpecificity(b)
        /\ \/ TextLength(a) > TextLength(b)
           \/ TextLength(a) = TextLength(b) /\ DeclaredBefore(p, q)

(* Sorted, a route is at the place that those before it leave.             *)
BuildRoutes(options) ==
  LET routes == DeclaredRoutes(options)
      place == [p \in DOMAIN routes |->
                 1 + Cardinality({q \in DOMAIN routes : CompareBySpecificity(routes, q, p)})]
  IN [k \in 1..Cardinality(DOMAIN routes) |-> routes[CHOOSE p \in DOMAIN routes : place[p] = k]]

-----------------------------------------------------------------------------
(* The server                                                              *)

Accepts(path, segments) ==
  \/ /\ Len(path) = Len(segments)
     /\ \A i \in DOMAIN path : segments[i] \in path[i].accepts
  \/ /\ path # <<>> /\ Last(path).kind = "wild"
     /\ Len(segments) >= Len(path) - 1
     /\ \A i \in 1..(Len(path) - 1) : segments[i] \in path[i].accepts

Matches(routes, verb, segments) ==
  {r \in DOMAIN routes : routes[r].verb = verb /\ Accepts(routes[r].path, segments)}

(* The routes that a request is given to: one, or none.                    *)
Dispatch(routes, verb, segments) ==
  LET matching == Matches(routes, verb, segments)
  IN IF matching = {} THEN {} ELSE {Min(matching)}
=============================================================================
