------------------------------ MODULE Requests ------------------------------
(***************************************************************************)
(* A service on the kit: a request goes through HonoServer and the chain   *)
(* of its route (Endpoint), and its handler makes a keyed write            *)
(* (KeyedWrite) or read (KeyedRead), emits an event (EventContext), or     *)
(* lists a table of its scope page by page (ListQuery) while somebody's    *)
(* keyed write is under way. The list handler is that of                   *)
(* packages/persistence/README.md: RoleReadDao.listPage, with the scope    *)
(* the route's validated input names. Only the first page's request is     *)
(* followed through the chain; the client asks for the next pages as long  *)
(* as the last total promises more.                                        *)
(***************************************************************************)
EXTENDS Endpoint, EventContext, KeyedRead

CONSTANTS
  Cases,              \* each the options of a router, a request, the query it sends and
                      \* the write or read that is made
  MaxPages            \* bound on the pages a client asks for

(* A query, as a client may send it to a DAO that is set up as its types   *)
(* ask for.                                                                *)
IsQuery(query) ==
  /\ query.filters \in Seq(Filter)
  /\ query.sort \in Seq([field : STRING, dir : STRING])
  /\ {query.enforced, query.defaults} \subseteq Seq([field : Column, dir : {"asc", "desc"}])
  /\ query.page \in SUBSET (0..MaxPages) /\ query.pageSize \in SUBSET Nat
  /\ \A sent \in {query.page, query.pageSize} : \A m, n \in sent : m = n
  /\ query.conditions \in Seq([field : Column, op : Operators, marks : Nat, params : Seq(Value)])
  /\ \A c \in Range(query.conditions) : Len(c.params) = 1

(* The table has a unique id and the column of its rows' scopes; what a    *)
(* client may filter by are columns.                                       *)
ASSUME RequestsAssumption ==
  /\ \A c \in Cases :
       /\ IsRouterOptions(c.options)
       /\ \A a, b \in c.list : a = b /\ IsQuery(a)
       /\ IsKeyedCall(c.op) /\ IsReadCall(c.op)
  /\ MaxPages \in Nat \ {0}
  /\ {"id", "scope"} \cup DOMAIN Kind \subseteq Column
  /\ \A a, b \in InitTable : a["id"] = b["id"] => a = b

VARIABLES
  walk,               \* where the list stands, the current page and its two answers,
                      \* and the rows of the pages before
  emitted,            \* the event the handler emitted, if any
  handledIn           \* the context its consumer runs in, if any

eventVars == <<emitted, handledIn>>

vars == <<httpVars, writeVars, readVars, walk, eventVars>>

(* The scope of the session, and the one a client would like to name.      *)
SessionScope == 1
ClientScope == 2

NoPage == [page |-> 1, pageSize |-> DefaultPageSize]

Malformed(list) == \E query \in list : Rejected(query)

(* The validator refuses what the query's schema does.                     *)
Init ==
  /\ \E c \in Cases :
       /\ EndpointInit({[options |-> c.options, list |-> c.list,
                         request |-> Over([malformed |-> Malformed(c.list)], c.request)]})
       /\ KeyedWriteInit({c.op})
       /\ KeyedReadInit
  /\ walk = [at |-> "none", page |-> NoPage, rows |-> {}, total |-> {}, seen |-> <<>>]
  /\ emitted = {} /\ handledIn = {}

-----------------------------------------------------------------------------
(* The list handler                                                        *)

ScopeOf(source) == IF source["scopeId"] = "session" THEN SessionScope ELSE ClientScope

Own == {<<[field |-> "scope", suffix |-> "bare", value |-> Scalar(ScopeOf(source))]>> :
         source \in input}

Products == {Build(query, own, walk.page) : query \in app.list, own \in Own}

StartList ==
  /\ outcome = "handled" /\ walk.at = "none"
  /\ \E query \in app.list :
       walk' = [walk EXCEPT
                 !.at = IF BuildFails(query) THEN "failed" ELSE "reading",
                 !.page = OrElse(ParsePagination(query), NoPage)]
  /\ UNCHANGED <<httpVars, writeVars, readVars, eventVars>>

(* The two statements run on connections of their own, in either order.    *)
ReadRows ==
  /\ walk.at = "reading" /\ walk.rows = {}
  /\ \E product \in Products : \E s \in Arranged(Selected(table, product), product.order) :
       walk' = [walk EXCEPT !.rows = {Page(s, product)}]
  /\ UNCHANGED <<httpVars, writeVars, readVars, eventVars>>

ReadCount ==
  /\ walk.at = "reading" /\ walk.total = {}
  /\ \E product \in Products :
       walk' = [walk EXCEPT !.total = {Cardinality(Selected(table, product))}]
  /\ UNCHANGED <<httpVars, writeVars, readVars, eventVars>>

AnswerPage ==
  /\ walk.at = "reading"
  /\ \E rows \in walk.rows, total \in walk.total :
       walk' = IF walk.page.page * walk.page.pageSize < total /\ walk.page.page < MaxPages
               THEN [walk EXCEPT !.seen = @ \o rows, !.page.page = @ + 1,
                                 !.rows = {}, !.total = {}]
               ELSE [walk EXCEPT !.seen = @ \o rows, !.at = "done"]
  /\ UNCHANGED <<httpVars, writeVars, readVars, eventVars>>

(* The write is the handler's, or another request's while it lists.        *)
WriteNext ==
  /\ outcome = "handled"
  /\ KeyedWriteNext
  /\ UNCHANGED <<httpVars, readVars, walk, eventVars>>

ReadKeyed ==
  /\ outcome = "handled"
  /\ KeyedReadNext
  /\ UNCHANGED <<httpVars, walk, eventVars>>

-----------------------------------------------------------------------------
(* The event handler. The metadata is built as in the README of            *)
(* packages/execution-context, which asks for the scope, or left out.      *)

Metadata ==
  [scopeId |-> ResolveScopeId(context),
   userId |-> IF context.session = {} THEN {} ELSE {"user"},
   attributes |-> IF context.session = {} THEN {} ELSE request.sessionExtras]

Emitting == outcome = "handled" /\ app.list = {} /\ op.method = "none" /\ emitted = {}

Emit ==
  /\ Emitting
  /\ \/ /\ ~ScopeConflict(context) /\ ~MetadataInvalid(Metadata)
        /\ emitted' = {[metadata |-> {Metadata}]}
     \/ emitted' = {[metadata |-> {}]}
  /\ UNCHANGED <<httpVars, writeVars, readVars, walk, handledIn>>

(* The errors of resolveScopeId and of EventMetadata.create are the        *)
(* handler's.                                                              *)
EmitFails ==
  /\ Emitting
  /\ ScopeConflict(context) \/ MetadataInvalid(Metadata)
  /\ outcome' = "500"
  /\ UNCHANGED <<app, routes, route, todo, attributes, context, input>>
  /\ UNCHANGED <<writeVars, readVars, walk, eventVars>>

HandleEvent ==
  /\ handledIn = {}
  /\ \E event \in emitted : handledIn' = {BuildExecutionContext(event)}
  /\ UNCHANGED <<httpVars, writeVars, readVars, walk, emitted>>

Next ==
  \/ EndpointNext /\ UNCHANGED <<writeVars, readVars, walk, eventVars>>
  \/ StartList \/ ReadRows \/ ReadCount \/ AnswerPage
  \/ WriteNext \/ ReadKeyed
  \/ Emit \/ EmitFails \/ HandleEvent

Spec == Init /\ [][Next]_vars

-----------------------------------------------------------------------------
(* The state is as the variables say; in particular no page is longer than *)
(* asked for, and what the handler was given was validated.                *)
TypeOK ==
  /\ outcome \in {"starting", "refused", "listening", "serving", "handled",
                  "400", "401", "403", "404", "500"}
  /\ Cardinality(route) <= 1 /\ Cardinality(input) <= 1
  /\ walk.at \in {"none", "failed", "reading", "done"}
  /\ walk.page.page \in 1..MaxPages
  /\ walk.page.pageSize \in 1..(MaxPageSize + DefaultPageSize)
  /\ \A rows \in walk.rows : Len(rows) <= walk.page.pageSize
  /\ \A row \in table \cup pending : DOMAIN row = Column /\ Range(row) \subseteq Nat
  /\ write \in {"none", "idle", "refused", "pool", "transaction", "committing",
                "resolved", "rejected", "unknown"}
  /\ read \in {"none", "idle", "refused", "reading", "answered", "rejected", "tooMany"}
  /\ Range(answer) \cup locked \subseteq table

-----------------------------------------------------------------------------
(* Routes                                                                  *)

Rank(segment) ==
  CASE segment.kind = "static" -> 1 [] segment.kind = "param" -> 2 [] segment.kind = "wild" -> 3

MoreSpecific(a, b) ==
  /\ Len(a) >= Len(b)
  /\ \A i \in DOMAIN b : Rank(a[i]) <= Rank(b[i])
  /\ Len(a) > Len(b) \/ \E i \in DOMAIN b : Rank(a[i]) < Rank(b[i])

(* A request is not served by a route when another one that matches it,    *)
(* too, is segment by segment more specific (static, parametric, wildcard) *)
(* or goes on where a wildcard stands: the sums of Router's sort and the   *)
(* lengths that break its ties never turn such a pair around.              *)
ServedByMostSpecific ==
  \A r \in route : \A m \in Matches(routes, request.verb, request.path) :
    ~MoreSpecific(routes[m].path, r.path)

(* The declarations that may choose the stack of a route, nearest first.   *)
StackDeclarations(r) ==
  <<r.def.authStack>>
  \o [c \in DOMAIN r.reg.classes |-> r.reg.classes[c].authStack]
  \o <<r.reg.module.authStack, app.options.defaultAuthStack>>

(* A handler of a route that is not public runs only for a request that    *)
(* the nearest declared stack verified, with a session if and only if that *)
(* stack loads one; a public one runs without either.                      *)
GuardedByNearestStack ==
  \A r \in route : outcome = "handled" =>
    LET declared == StackDeclarations(r)
        set == {i \in DOMAIN declared : declared[i] # {}}
    IN IF r.def.public \/ set = {}
       THEN attributes.verified = {} /\ context.session = {}
       ELSE /\ attributes.verified = declared[Min(set)]
            /\ \A s \in attributes.verified :
                 (context.session # {}) = Stacks(app.options)[s].loads

Validations(r) == {guard \in Range(r.guards) : guard.step = "validate"}

(* What the session has, the client does not choose: the keys of the stack *)
(* that verified the request come from the session or not at all, in any   *)
(* schema, and the base keys of a described one from a loaded session,     *)
(* whatever body, query and headers say.                                   *)
SessionWins ==
  \A r \in route, source \in input : \A key \in DOMAIN source :
    /\ key \in attributes.keys => source[key] \in {"session", "absent"}
    /\ /\ key \in BaseSessionKeys /\ context.session # {}
       /\ \A guard \in Validations(r) : guard.described
       => source[key] = "session"

(* The scope that a withScope of its chain named is in the context a       *)
(* handler runs in, or its session's: no other took its place. There are   *)
(* two scopes only when each withScope came before the session was loaded, *)
(* and then no event goes out with either: who handles an event that       *)
(* carries its emitter's context does so in the emitter's one scope, with  *)
(* a session if and only if that had one, and with all of its attributes.  *)
(* Nobody's scope becomes a user's, and no user's is lost.                 *)
OneScope ==
  \A r \in route : outcome = "handled" =>
    /\ \A i \in DOMAIN r.chain : r.chain[i].step = "scope" =>
         /\ {r.chain[i].target} \in {context.scope, context.session}
         /\ ScopeConflict(context) =>
              \A j \in DOMAIN r.chain : r.chain[j].step = "load" => i < j
    /\ \A event \in emitted, c \in handledIn : event.metadata # {} =>
         /\ ~ScopeConflict(context)
         /\ ResolveScopeId(c) = ResolveScopeId(context)
         /\ c.session = context.session
         /\ c.session # {} => c.attributes = request.sessionExtras

-----------------------------------------------------------------------------
(* Lists                                                                   *)

Listed == Range(walk.seen) \cup UNION {Range(rows) : rows \in walk.rows}

(* A client's filter that the handler's own takes the place of.            *)
Replaced(f) == f.field = "scope" /\ f.suffix = "bare"

(* A row that a query means: its filters, but for the one that is          *)
(* replaced, the handler's and the conditions of its DAO.                  *)
InQuery(query, row) ==
  /\ \A f \in Range(ParsedFilters(query)) : Replaced(f) \/ Means(f, row[f.field], FALSE)
  /\ \A own \in Own : Meant(own, row, FALSE)
  /\ \A c \in Range(query.conditions) : IsTrue(c.op, row[c.field], Head(c.params))

(* A list shows rows of the session's scope only, and only rows that the   *)
(* client's own filters mean, whatever filters it sends and whatever is    *)
(* written meanwhile, when its schema can be described and has the scope   *)
(* and a session is loaded.                                                *)
ListStaysInScope ==
  \A row \in Listed :
    /\ /\ context.session # {}
       /\ \A r \in route : \A guard \in Validations(r) : guard.described /\ "scopeId" \in guard.keys
       => row["scope"] = SessionScope
    /\ \A query \in app.list : \A f \in Range(ParsedFilters(query)) :
         Replaced(f) \/ Means(f, row[f.field], FALSE)

FromFirstPage(query) == \A page \in ParsePagination(query) : page.page = 1

(* The pages of a list that nobody writes to, in an order that has a       *)
(* unique column, are a partition of the rows it selects: none is skipped, *)
(* none is shown twice, and the total is their number.                     *)
PagesPartition ==
  \A query \in app.list :
    /\ walk.at = "done" /\ op.method = "none"
    /\ FromFirstPage(query)
    /\ \E entry \in Range(Order(query)) : entry.field = "id"
    /\ \E total \in walk.total : total <= MaxPages * walk.page.pageSize
    => /\ IsInjective(walk.seen)
       /\ Range(walk.seen) = {row \in table : InQuery(query, row)}
       /\ walk.total = {Len(walk.seen)}

-----------------------------------------------------------------------------
(* Writes                                                                  *)

Addressed(row) ==
  CASE op.method \in {"updateBy", "deleteBy"} -> op.allRows \/ Meant(op.where, row, TRUE)
    [] OTHER -> \E other \in Range(op.rows) : ~KeyMissing(other) /\ SameKey(row, other)

Written(row) ==
  LET given == IF op.method = "updateBy" THEN op.set
               ELSE CHOOSE other \in Range(op.rows) : SameKey(row, other)
  IN Over(Prepared(given), row)

(* The table as the caller of the write means it to be.                    *)
Intended ==
  CASE op.method = "createMany" -> InitTable \cup {Inserted(Prepared(row)) : row \in Range(op.rows)}
    [] op.method \in {"updateMany", "updateBy"} ->
         {IF Addressed(row) THEN Written(row) ELSE row : row \in InitTable}
    [] op.method \in {"deleteMany", "deleteBy"} -> {row \in InitTable : ~Addressed(row)}
    [] OTHER -> InitTable

(* The deletes of single keys are the exception the README names.          *)
KeyByKey == op.method = "deleteMany" /\ PerKey /\ ~op.trx

(* A write of any number of rows and statements is made as it is meant or  *)
(* not at all, and its caller is told which, unless the answer to its      *)
(* COMMIT, or to a statement that commits by itself, is lost. Deletes of   *)
(* single keys that are broken off have taken no row that was not meant.   *)
WriteIsAllOrNothing ==
  /\ op.method \in WriteMethods =>
       IF KeyByKey THEN Intended \subseteq table /\ table \subseteq InitTable
       ELSE table = InitTable \/ table = Intended
  /\ write = "resolved" => table = Intended
  /\ write \in {"idle", "refused"} \/ (write = "rejected" /\ ~KeyByKey) => table = InitTable

-----------------------------------------------------------------------------
(* Reads                                                                   *)

AskedFor ==
  {row \in table :
    IF op.method \in {"findOneByKey", "findManyForUpdateByKeys"}
    THEN \E key \in Range(op.rows) : ~KeyMissing(key) /\ SameKey(row, key)
    ELSE op.allRows \/ Meant(op.where, row, TRUE)}

(* Duplicate keys collapse, unless they are read one by one.               *)
Occurrences(row) ==
  IF PerKey
  THEN Cardinality({k \in DOMAIN op.rows : ~KeyMissing(op.rows[k]) /\ SameKey(row, op.rows[k])})
  ELSE 1

Skipped == IF op.onLocked = "skip" THEN op.locked ELSE {}

(* A read answers with rows that were asked for and are there, each as     *)
(* often as it was, in the order asked for and no more than the limit; it  *)
(* leaves one out only for the limit, or for a lock that it was to skip.   *)
(* A single row is the only one, and there is more than one if it says so. *)
(* So it is however the locks of another transaction end meanwhile.        *)
ReadIsWhatWasAsked ==
  /\ read = "answered" =>
       /\ \A row \in Range(answer) :
            row \in AskedFor /\ Cardinality({i \in DOMAIN answer : answer[i] = row}) <= Occurrences(row)
       /\ \A i, j \in DOMAIN answer : i < j => ~Precedes(op.order, answer[j], answer[i])
       /\ \A n \in op.limit : Len(answer) <= n
       /\ op.limit = {} /\ ReadLimit = op.limit => AskedFor \ Skipped \subseteq Range(answer)
       /\ Single => AskedFor = Range(answer)
       /\ ReadLimit # {} /\ AskedFor \ Skipped # {} /\ op.limit # {0} => answer # <<>>
  /\ read = "tooMany" => Cardinality(AskedFor) > 1

(* What a keyed call promises its caller (packages/persistence/README.md,  *)
(* Key sets and Predicate writes): all of a write or nothing of it, and of *)
(* a read what it asked for, whatever fails and whoever is in between.     *)
CallDoesWhatWasAsked == WriteIsAllOrNothing /\ ReadIsWhatWasAsked

-----------------------------------------------------------------------------
(* A predicate write that no caller said reaches all rows is not one that  *)
(* does: some row, there or not, is outside of its where.                  *)
NoAccidentalAllRows ==
  op.method \in {"updateBy", "deleteBy"} /\ write \notin {"idle", "refused"} /\ ~op.allRows =>
    \E row \in [{f.field : f \in Range(op.where)} -> NULL..9] : ~Meant(op.where, row, TRUE)
=============================================================================
