----------------------------- MODULE MCRequests -----------------------------
(* Cases for Requests: router options that the constructor refuses, ones   *)
(* it accepts with a request each, list queries, and keyed writes.         *)
EXTENDS Requests

-----------------------------------------------------------------------------
(* Paths                                                                   *)
Texts == {"users", "me", "7", "v1", "secret"}
S(text) == [kind |-> "static", accepts |-> {text}, width |-> 5]
P(width) == [kind |-> "param", accepts |-> Texts, width |-> width]
Digits == [kind |-> "param", accepts |-> {"7"}, width |-> 11]
W == [kind |-> "wild", accepts |-> Texts, width |-> 1]

(* Controllers                                                             *)
Methods == {"list", "get", "save", "probe"}
StackNames == {"bearer", "light", "apiKey", "unknown"}
NoPatch == [m \in Methods |-> [validation |-> {}]]
Declares(routeDefs, guards) ==
  [prefix |-> {}, version |-> {}, authStack |-> {}, routes |-> routeDefs, patches |-> NoPatch,
   methods |-> [m \in Methods |-> IF m \in DOMAIN guards THEN {guards[m]} ELSE {}]]
Def(method, verb, path) ==
  [method |-> method, verb |-> verb, path |-> path, public |-> FALSE, version |-> {},
   authStack |-> {}]
Plain == [prefix |-> <<>>, version |-> {}, authStack |-> {}, middlewares |-> <<>>]
Reg(module, classes) ==
  [module |-> module, prefix |-> <<>>, classes |-> classes, middlewares |-> <<>>]

Validate(required, described, headers) ==
  [step |-> "validate", keys |-> {"scopeId", "tenant", "updatedAt"}, required |-> required,
   described |-> described, headers |-> headers]
Authorize == [step |-> "authorize"]

Bearer == [loads |-> TRUE, keys |-> {"tenant", "scopeId"}]
Light == [loads |-> TRUE, keys |-> {}]
ApiKey == [loads |-> FALSE, keys |-> {}]
Declared == [bearer |-> Bearer, light |-> Light, apiKey |-> ApiKey]
Opts(regs) ==
  [authStacks |-> {Declared}, defaultAuthStack |-> {"light"}, context |-> TRUE,
   globalMiddlewares |-> <<>>, registrations |-> regs]
Open(regs) ==
  [Opts(regs) EXCEPT !.authStacks = {}, !.defaultAuthStack = {}]

(* Requests                                                                *)
Ask(verb, path) ==
  [verb |-> verb, path |-> path, credential |-> "light", session |-> "live", granted |-> TRUE,
   sent |-> {"scopeId", "tenant"}, headers |-> {}, sessionExtras |-> {"tenant"}]

NoOp == [method |-> "none", rows |-> <<>>, where |-> <<>>, allRows |-> FALSE, set |-> <<>>,
         trx |-> FALSE, key |-> <<"id">>, byKeys |-> TRUE,
         limit |-> {}, order |-> <<>>, onLocked |-> "none", locked |-> {}]
Case(options, req) == [options |-> options, request |-> req, list |-> {}, op |-> NoOp]

-----------------------------------------------------------------------------
(* The service: a base class with the routes of users, a subclass with one *)
(* override, one patched method and settings of its own.                   *)
Users == S("users")
BaseClass ==
  [Declares(<<Def("get", "GET", <<P(30)>>), Def("get", "GET", <<S("me")>>),
              Def("list", "GET", <<>>), [Def("probe", "GET", <<W>>) EXCEPT !.public = TRUE],
              Def("save", "POST", <<>>)>>,
            [get |-> <<Authorize>>, probe |-> <<>>,
             list |-> <<Authorize, Validate({"scopeId"}, TRUE, {})>>,
             save |-> <<Validate({}, TRUE, {"scopeIdOfHeader"})>>])
   EXCEPT !.prefix = {<<Users>>}, !.authStack = {"apiKey"}, !.version = {<<S("v1")>>}]
ChildClass ==
  [Declares(<<[Def("get", "GET", <<Digits>>) EXCEPT !.version = {<<>>}]>>, [save |-> <<>>])
   EXCEPT !.authStack = {"bearer"}]
Service == Opts(<<Reg(Plain, <<ChildClass, BaseClass>>)>>)
At(rest) == <<"v1", "users">> \o rest
ToBearer(verb, rest) == [Ask(verb, At(rest)) EXCEPT !.credential = "bearer"]

RouteCases ==
  {Case(Service, [Ask(verb, At(rest)) EXCEPT !.credential = stack]) :
     rest \in BoundedSeq(Texts, 2), verb \in {"GET", "POST"}, stack \in {"bearer", "apiKey"}}
  \cup {Case(Service, Ask("GET", <<"users", "7">>)),
        Case(Service, Ask("GET", <<"me">>)),
        Case(Service, [ToBearer("GET", <<"me">>) EXCEPT !.session = "revoked"]),
        Case(Service, [ToBearer("GET", <<"me">>) EXCEPT !.granted = FALSE]),
        Case(Service, [ToBearer("GET", <<>>) EXCEPT !.sessionExtras = {}]),
        Case(Service, [Ask("GET", <<"users", "7">>) EXCEPT !.credential = "bearer"])}

(* One route behind a module, with a schema and a stack of its own.        *)
One(guard, stack, middlewares) ==
  Opts(<<Reg([Plain EXCEPT !.authStack = stack, !.middlewares = middlewares],
             <<Declares(<<Def("list", "GET", <<Users>>)>>, [list |-> <<guard>>])>>)>>)
Scoped(target) == [step |-> "scope", stack |-> "", target |-> target]
Stay == <<Scoped("session")>>
Away == <<Scoped("other")>>
Get(stack) == [Ask("GET", <<"users">>) EXCEPT !.credential = stack]

ChainCases ==
  {Case(One(Validate(need, described, {}), {stack}, middlewares), Get(stack)) :
     need \in {{}, {"tenant"}}, described \in BOOLEAN, stack \in {"bearer", "light", "apiKey"},
     middlewares \in {<<>>, Stay, Away, Stay \o Away, Stay \o Stay}}
  \cup {Case([One(Authorize, {stack}, inner) EXCEPT !.globalMiddlewares = middlewares], Get(stack)) :
          stack \in {"light", "apiKey"}, middlewares \in {Stay, Away}, inner \in {<<>>, Stay}}
  \cup {Case([Open(<<Reg([Plain EXCEPT !.middlewares = middlewares],
                        <<Declares(<<Def("list", "GET", <<Users>>)>>, [list |-> guards])>>)>>)
              EXCEPT !.context = active], Get("light")) :
          active \in BOOLEAN, middlewares \in {<<>>, Away},
          guards \in {<<>>, <<Authorize>>, <<Validate({"scopeId"}, TRUE, {})>>}}
  \cup {Case(One(Validate({"updatedAt"}, described, headers), {"light"}, <<>>),
             [Get("light") EXCEPT !.headers = sent]) :
          described \in BOOLEAN, headers \in {{}, {"scopeId"}}, sent \in {{}, {"updatedAt"}}}
  \cup {Case(One(Authorize, {"light"}, <<>>), [Get("light") EXCEPT !.sessionExtras = {"constructor"}])}

-----------------------------------------------------------------------------
(* Options the constructor refuses                                         *)
Twice == <<Def("get", "GET", <<P(2)>>), Def("list", "GET", <<P(8)>>)>>
Public(stack) == [Def("get", "GET", <<Users>>) EXCEPT !.public = TRUE, !.authStack = {stack}]
Only(defs) == <<Reg(Plain, <<Declares(defs, [get |-> <<>>, list |-> <<>>])>>)>>
Fine == Only(<<Def("get", "GET", <<Users>>)>>)

RefusedOptions ==
  {Opts(Only(Twice)),
   Opts(Only(<<Public("light")>>)),
   Opts(Only(<<[Def("get", "GET", <<>>) EXCEPT !.authStack = {"unknown"}]>>)),
   Opts(<<Reg([Plain EXCEPT !.authStack = {"unknown"}], <<Declares(<<>>, [get |-> <<>>])>>)>>),
   [Opts(Fine) EXCEPT !.authStacks = {<<>>}],
   [Opts(Fine) EXCEPT !.context = FALSE],
   [Opts(Fine) EXCEPT !.defaultAuthStack = {}],
   [Opts(Fine) EXCEPT !.defaultAuthStack = {"unknown"}],
   [Opts(Fine) EXCEPT !.authStacks = {[light |-> [loads |-> FALSE, keys |-> {"tenant"}]]}],
   [Opts(Fine) EXCEPT !.authStacks = {[light |-> [loads |-> TRUE, keys |-> {"constructor"}]]}],
   [Opts(Fine) EXCEPT !.authStacks = {[light |-> [loads |-> TRUE, keys |-> {""}]]}],
   Opts(<<Reg(Plain, <<[Declares(<<Def("list", "GET", <<>>)>>, [list |-> <<>>])
                        EXCEPT !.patches["list"].validation = {{"userId"}}]>>)>>)}

RefusedCases == {Case(options, Ask("GET", <<>>)) : options \in RefusedOptions}

-----------------------------------------------------------------------------
(* The table: ids are unique, times and names are not.                     *)
Row(id, scope, at, name) ==
  [id |-> id, scope |-> scope, at |-> at, name |-> name, updatedBy |-> 1]
MCTable == {Row(1, 1, 5, 6), Row(2, 1, 5, 4), Row(3, 1, NULL, 6), Row(4, 2, 5, 6), Row(5, 1, 6, 4)}
MCColumn == {"id", "scope", "at", "name", "updatedBy"}
MCKind == [id |-> "number", scope |-> "number", at |-> "number", name |-> "string"]

F(field, suffix, value) == [field |-> field, suffix |-> suffix, value |-> value]
By(field, dir) == [field |-> field, dir |-> dir]
Query ==
  [filters |-> <<>>, sort |-> <<By("id", "asc")>>, page |-> {1}, pageSize |-> {2}, strict |-> FALSE,
   enforced |-> <<By("scope", "asc")>>, defaults |-> <<By("at", "desc"), By("id", "asc")>>,
   conditions |-> <<>>]
Since(marks) == [field |-> "at", op |-> "gte", marks |-> marks, params |-> <<Scalar(5)>>]

Pool ==
  {F("at", "gte", Scalar(5)), F("at", "isNull", Scalar(No)), F("at", "notIn", List({5})),
   F("name", "contains", Scalar(6)), F("name", "contains", Scalar(EmptyText)),
   F("name", "in", List({4, 6})), F("id", "notIn", List({1})), F("id", "lt", Scalar(3)),
   F("scope", "bare", Scalar(2)), F("scope", "in", List({1, 2})),
   F("scope", "in", List({2, 3})), F("secret", "bare", Scalar(1))}
Filters == {s \in BoundedSeq(Pool, 2) : \A i, j \in DOMAIN s : SameFilterKey(s[i], s[j]) => i = j}
Queries ==
  {[Query EXCEPT !.filters = filters] : filters \in Filters}
  \cup {[Query EXCEPT !.sort = <<By("at", "asc"), By("at", "asc"), By("id", "desc")>>],
        [Query EXCEPT !.sort = <<>>, !.page = {}],
        [Query EXCEPT !.sort = <<By("at", "desc"), By("id", "up"), By("secret", "asc")>>],
        [Query EXCEPT !.page = {}, !.pageSize = {}],
        [Query EXCEPT !.page = {0}, !.pageSize = {9}],
        [Query EXCEPT !.page = {2}],
        [Query EXCEPT !.pageSize = {1}],
        [Query EXCEPT !.strict = TRUE, !.filters = <<F("secret", "bare", Scalar(1))>>],
        [Query EXCEPT !.strict = TRUE, !.pageSize = {0}],
        [Query EXCEPT !.filters = <<F("name", "contains", List({4}))>>],
        [Query EXCEPT !.filters = <<F("id", "gt", Scalar(1))>>, !.conditions = <<Since(1)>>],
        [Query EXCEPT !.conditions = <<Since(2)>>]}

Listing(described) == One(Validate({"scopeId"}, described, {}), {"bearer"}, <<>>)
ListCases ==
  {[Case(Listing(TRUE), Get("bearer")) EXCEPT !.list = {query}] : query \in Queries}
  \cup {[Case(Listing(FALSE), Get("bearer")) EXCEPT !.list = {Query}]}

-----------------------------------------------------------------------------
(* Writes                                                                  *)
Key(id) == [id |-> id]
Pair(scope, id) == [scope |-> scope, id |-> id]
Set == [scope |-> 3]
Write(method) == [NoOp EXCEPT !.method = method, !.set = Set]
Conditions ==
  {F("at", "bare", Scalar(NULL)), F("at", "bare", Scalar(5)), F("at", "eq", Scalar(NULL)),
   F("at", "bare", List({})), F("at", "notInStrict", List({5})), F("name", "ne", Scalar(4)),
   F("name", "contains", Scalar(EmptyText)), F("name", "isNotNull", Scalar(1)),
   F("id", "notIn", List({})), F("id", "gt", Scalar(2)), F("id", "above", Scalar(1)),
   F("scope", "bare", [many |-> FALSE, items |-> {}])}
Wheres == {s \in BoundedSeq(Conditions, 2) : \A i, j \in DOMAIN s : SameFilterKey(s[i], s[j]) => i = j}
Ops ==
  {[Write(method) EXCEPT !.where = where] : method \in {"updateBy", "deleteBy"}, where \in Wheres}
  \cup {[Write(method) EXCEPT !.allRows = TRUE] : method \in {"updateBy", "deleteBy"}}
  \cup {[Write("updateBy") EXCEPT !.allRows = TRUE, !.set = set] :
          set \in {<<>>, [updatedBy |-> 2]}}
  \cup {[Write("createMany") EXCEPT !.rows = rows, !.trx = trx] : trx \in BOOLEAN,
          rows \in {<<>>, <<Row(6, 1, 5, 6)>>, <<Row(6, 1, 5, 6), Row(7, 1, 5, 6), Row(8, 2, 4, 6)>>}}
  \cup {[Write("updateMany") EXCEPT !.rows = rows, !.trx = TRUE, !.key = key] :
          key \in {<<"id">>, <<"scope", "id">>, <<>>},
          rows \in {<<>>, <<Key(4)>>, <<Row(1, 1, 7, 7), Row(2, 1, 7, 7), Row(3, 1, 3, 7)>>}}
  \cup {[Write("deleteMany") EXCEPT !.rows = rows, !.trx = trx, !.key = key, !.byKeys = byKeys] :
          trx \in BOOLEAN, byKeys \in BOOLEAN, key \in {<<"id">>, <<"scope", "id">>},
          rows \in {<<Pair(1, 1), Pair(1, 2)>>, <<Pair(1, 1), Key(4)>>, <<Key(4)>>, <<>>}}

Writing == One(Validate({}, TRUE, {}), {"light"}, <<>>)
WriteCases == {[Case(Writing, Get("light")) EXCEPT !.op = w] : w \in Ops}

-----------------------------------------------------------------------------
(* Keyed reads, while nobody or somebody has rows locked                   *)
RowOf(id) == CHOOSE row \in MCTable : row.id = id
Strict == {<<>>} \cup {<<f>> : f \in Conditions} \cup {<<F("at", "bare", Scalar(6))>>}
Loose == {where \in Strict : \A f \in Range(where) : f.value.many \/ f.value.items # {}}
KeyLists ==
  {<<>>, <<Pair(1, 3), Pair(1, 1)>>, <<Pair(1, 1), Pair(2, 4), Pair(1, 1)>>, <<Pair(1, 9)>>,
   <<Pair(1, 2), Key(4)>>}
Unlocked == [onLocked |-> "none", locked |-> {RowOf(2)}]
Locking ==
  {[onLocked |-> policy, locked |-> busy] :
    policy \in {"wait", "skip", "nowait"}, busy \in {{}, {RowOf(1)}, {RowOf(2), RowOf(4)}}}
NoSkip == {lock \in Locking : lock.onLocked # "skip"}
Find(method, where, limit, order, lock) ==
  [NoOp EXCEPT !.method = method, !.where = where, !.limit = limit, !.order = order,
               !.onLocked = lock.onLocked, !.locked = lock.locked]
ByKey(keys, columns, byKeys, limit, order, lock) ==
  [Find("findManyForUpdateByKeys", <<>>, limit, order, lock)
   EXCEPT !.rows = keys, !.key = columns, !.byKeys = byKeys]
ById == <<By("id", "desc")>>
Reads ==
  {Find(method, where, {}, <<>>, Unlocked) : where \in Loose,
     method \in {"findOne", "findMany", "existsBy", "countBy"}}
  \cup {Find("findSingle", where, {}, <<>>, Unlocked) : where \in Strict}
  \cup {[Find("findSingle", <<>>, {}, <<>>, Unlocked) EXCEPT !.allRows = TRUE]}
  \cup {[Find("findOneByKey", <<>>, {}, <<>>, Unlocked) EXCEPT !.rows = <<key>>] :
          key \in {Key(4), Key(9), [scope |-> 1]}}
  \cup {Find("findOneForUpdate", where, {}, <<>>, lock) : where \in Loose,
          lock \in {lock \in Locking : lock.onLocked = "wait"}}
  \cup {Find("findSingleForUpdate", where, {}, <<>>, lock) : where \in Strict, lock \in NoSkip}
  \cup {Find("findManyForUpdate", where, limit, <<By("name", "asc")>>, lock) :
          where \in Loose, limit \in {{}, {2}, {0 - 1}}, lock \in Locking}
  \cup {ByKey(keys, <<"scope", "id">>, byKeys, limit, order, lock) :
          keys \in KeyLists, byKeys \in BOOLEAN, limit \in {{}, {0}, {1}, {0 - 1}},
          order \in {<<>>, ById}, lock \in Locking}
  \cup {ByKey(keys, columns, TRUE, {2}, order, lock) :
          keys \in KeyLists, columns \in {<<>>, <<"id">>}, order \in {<<>>, ById}, lock \in Locking}
ReadCases == {[Case(Writing, Get("light")) EXCEPT !.op = w] : w \in Reads}

(* A write of somebody else's while a list is read.                        *)
BothCases ==
  {[Case(Listing(TRUE), Get("bearer")) EXCEPT !.list = {Query}, !.op = w] :
     w \in {[Write("updateBy") EXCEPT !.allRows = TRUE],
            [Write("deleteMany") EXCEPT !.rows = <<Pair(1, 1), Pair(1, 3)>>, !.trx = TRUE,
                                        !.key = <<"scope", "id">>, !.byKeys = FALSE]}}

MCCases ==
  RouteCases \cup ChainCases \cup RefusedCases \cup ListCases \cup WriteCases \cup ReadCases
  \cup BothCases
=============================================================================
