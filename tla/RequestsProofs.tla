--------------------------- MODULE RequestsProofs ---------------------------
(***************************************************************************)
(* Proofs about Requests, for every router's options, every request, every *)
(* list and every keyed call. First the chain that a request goes through  *)
(* (IInv), then keyed writes (WriteInv), lists (ListInv), keyed reads      *)
(* (ReadInv) and, from all of them, the pages of a list (PageInv).         *)
(***************************************************************************)
EXTENDS Requests, FiniteSetTheorems, SequenceTheorems, WellFoundedInduction, TLAPS

-----------------------------------------------------------------------------
(* A set of numbers that is not empty has a least one, and Min is it.      *)
LEMMA MinIsLeast ==
  ASSUME NEW S \in SUBSET Nat, S # {}
  PROVE  Min(S) \in S /\ \A y \in S : Min(S) <= y
<1>1. PICK x \in S : \A y \in S : ~(<<y, x>> \in OpToRel(<, Nat))
  BY NatLessThanWellFounded, WFMin
<1>2. \A y \in S : x <= y
  <2> SUFFICES ASSUME NEW y \in S, y < x PROVE FALSE
    OBVIOUS
  <2>1. <<y, x>> \in OpToRel(<, Nat)
    BY DEF OpToRel
  <2>2. QED
    BY <1>1, <2>1
<1>3. QED
  BY <1>1, <1>2 DEF Min

LEMMA FiniteUpTo ==
  ASSUME NEW n \in Nat
  PROVE  IsFiniteSet(0..n)
<1> DEFINE S == 0..n
<1>1. S \in SUBSET Nat /\ \A s \in S : s <= n
  OBVIOUS
<1> HIDE DEF S
<1>2. IsFiniteSet(S)
  BY <1>1, FS_BoundedSetOfNaturals
<1>3. QED
  BY <1>2 DEF S

(* A union of finitely many finite sets is finite.                         *)
LEMMA FiniteUnion ==
  ASSUME NEW f, IsFiniteSet(DOMAIN f), \A x \in DOMAIN f : IsFiniteSet(f[x])
  PROVE  IsFiniteSet(UNION {f[x] : x \in DOMAIN f})
<1> DEFINE T == {f[x] : x \in DOMAIN f}
           g == [x \in DOMAIN f |-> f[x]]
<1>1. g \in Surjection(DOMAIN f, T)
  BY DEF Surjection
<1>2. IsFiniteSet(T)
  BY <1>1, FS_Surjection
<1>3. QED
  BY <1>2, FS_UNION

(* The places that a strict total order gives the elements of a finite set *)
(* are those from 1 to their number, each once and in that order.          *)
StrictTotalOrder(D, R) ==
  /\ \A p \in D : <<p, p>> \notin R
  /\ \A p, q, r \in D : <<p, q>> \in R /\ <<q, r>> \in R => <<p, r>> \in R
  /\ \A p, q \in D : p = q \/ <<p, q>> \in R \/ <<q, p>> \in R

RanksIn(D, R) == [p \in D |-> 1 + Cardinality({q \in D : <<q, p>> \in R})]

LEMMA PlacesInOrder ==
  ASSUME NEW D, IsFiniteSet(D), NEW R, StrictTotalOrder(D, R),
         NEW place, place = RanksIn(D, R)
  PROVE  /\ Cardinality(D) \in Nat
         /\ \A p \in D : place[p] \in 1..Cardinality(D)
         /\ \A p, q \in D : place[p] < place[q] <=> <<p, q>> \in R
         /\ \A k \in 1..Cardinality(D) : \E p \in D : place[p] = k
<1> DEFINE before(p) == {q \in D : <<q, p>> \in R}
           n == Cardinality(D)
<1>1. n \in Nat
  BY FS_CardinalityType
<1>2. \A p \in D : IsFiniteSet(before(p)) /\ Cardinality(before(p)) \in Nat
  BY FS_Subset, FS_CardinalityType
<1>a. \A p \in D : place[p] = 1 + Cardinality(before(p))
  BY DEF RanksIn
<1>b. \A p \in D : before(p) \in SUBSET (D \ {p})
  BY DEF StrictTotalOrder
<1>c. \A p, q \in D : <<p, q>> \in R =>
        before(p) \in SUBSET before(q) /\ p \in before(q) /\ p \notin before(p)
  BY DEF StrictTotalOrder
<1> HIDE DEF before, n
<1>3. ASSUME NEW p \in D PROVE Cardinality(before(p)) <= n - 1
  <2>1. IsFiniteSet(D \ {p}) /\ Cardinality(D \ {p}) = n - 1
    BY FS_RemoveElement DEF n
  <2>2. Cardinality(before(p)) <= Cardinality(D \ {p})
    BY <1>b, <2>1, FS_Subset
  <2>3. QED
    BY <2>1, <2>2
<1>4. ASSUME NEW p \in D PROVE place[p] \in 1..n
  <2>1. Cardinality(before(p)) \in Nat /\ Cardinality(before(p)) <= n - 1
    BY <1>2, <1>3
  <2>2. place[p] = 1 + Cardinality(before(p))
    BY <1>a
  <2>3. QED
    BY <1>1, <2>1, <2>2
<1>5. ASSUME NEW p \in D, NEW q \in D, <<p, q>> \in R PROVE place[p] < place[q]
  <2>1. before(p) \in SUBSET before(q) /\ before(p) # before(q)
    BY <1>5, <1>c
  <2>2. Cardinality(before(p)) <= Cardinality(before(q))
        /\ Cardinality(before(p)) # Cardinality(before(q))
    BY <1>2, <2>1, FS_Subset
  <2>3. /\ Cardinality(before(p)) \in Nat /\ Cardinality(before(q)) \in Nat
        /\ place[p] = 1 + Cardinality(before(p)) /\ place[q] = 1 + Cardinality(before(q))
    BY <1>2, <1>a
  <2>4. QED
    BY <2>2, <2>3
<1>6. \A p, q \in D : place[p] < place[q] => <<p, q>> \in R
  <2> SUFFICES ASSUME NEW p \in D, NEW q \in D, place[p] < place[q] PROVE <<p, q>> \in R
    OBVIOUS
  <2>1. place[p] \in Nat /\ place[q] \in Nat
    BY <1>1, <1>4
  <2>2. p # q
    BY <2>1
  <2>3. ~(place[q] < place[p])
    BY <2>1
  <2>4. <<q, p>> \notin R
    BY <1>5, <2>3
  <2>5. QED
    BY <2>2, <2>4 DEF StrictTotalOrder
<1>7. \A k \in 1..n : \E p \in D : place[p] = k
  <2>1. place \in [D -> 1..n]
    <3>1. DOMAIN place = D /\ place = [p \in D |-> place[p]]
      BY DEF RanksIn
    <3>2. QED
      BY <1>4, <3>1
  <2>2. \A p, q \in D : place[p] = place[q] => p = q
    <3> SUFFICES ASSUME NEW p \in D, NEW q \in D, place[p] = place[q], p # q PROVE FALSE
      OBVIOUS
    <3>1. place[p] < place[q] \/ place[q] < place[p]
      BY <1>5 DEF StrictTotalOrder
    <3>2. QED
      BY <1>1, <1>4, <3>1
  <2>3. place \in Injection(D, 1..n)
    BY <2>1, <2>2, Zenon DEF Injection, IsInjective
  <2>4. IsFiniteSet(1..n) /\ Cardinality(1..n) = n
    BY <1>1, FS_Interval
  <2>5. place \in Surjection(D, 1..n)
    BY <2>3, <2>4, FS_Injection DEF n
  <2>6. QED
    BY <2>5 DEF Surjection
<1>8. QED
  BY <1>1, <1>4, <1>5, <1>6, <1>7 DEF n

-----------------------------------------------------------------------------
(* Specificity                                                             *)
LEMMA WeightIsRank ==
  \A s, t \in Segment :
    /\ Weight(s) \in 1..3
    /\ Rank(s) <= Rank(t) => Weight(s) >= Weight(t)
    /\ Rank(s) < Rank(t) => Weight(s) > Weight(t)
BY DEF Segment, Weight, Rank

LEMMA FiniteScores ==
  ASSUME NEW path \in Path
  PROVE  /\ DOMAIN path = 1..Len(path) /\ Len(path) \in Nat /\ IsFiniteSet(DOMAIN path)
         /\ IsFiniteSet({u \in (DOMAIN path) \X (0..3) : u[2] <= Weight(path[u[1]])})
         /\ ComputeSpecificity(path) \in Nat
         /\ TextLength(path) \in Nat
<1>1. DOMAIN path = 1..Len(path) /\ Len(path) \in Nat /\ \A i \in DOMAIN path : path[i] \in Segment
  BY DEF Path
<1>2. IsFiniteSet(DOMAIN path)
  BY <1>1, FS_Interval
<1>3. IsFiniteSet((DOMAIN path) \X (0..3))
  <2>1. IsFiniteSet(0..3)
    BY FiniteUpTo
  <2>2. QED
    BY <1>2, <2>1, FS_Product
<1>4. IsFiniteSet({u \in (DOMAIN path) \X (0..3) : u[2] <= Weight(path[u[1]])})
  BY <1>3, FS_Subset
<1>5. TextLength(path) \in Nat
  <2> DEFINE f == [i \in DOMAIN path |-> {i} \X (0..path[i].width)]
  <2>1. ASSUME NEW i \in DOMAIN path PROVE IsFiniteSet({i} \X (0..path[i].width))
    <3>1. path[i].width \in Nat
      BY <1>1 DEF Segment
    <3>2. IsFiniteSet({i}) /\ IsFiniteSet(0..path[i].width)
      BY <3>1, FS_Singleton, FiniteUpTo
    <3>3. QED
      BY <3>2, FS_Product
  <2>2. IsFiniteSet(UNION {f[i] : i \in DOMAIN f})
    BY <1>2, <2>1, FiniteUnion
  <2>3. {f[i] : i \in DOMAIN f} = {{i} \X (0..path[i].width) : i \in DOMAIN path}
    OBVIOUS
  <2>4. QED
    BY <2>2, <2>3, FS_CardinalityType DEF TextLength
<1>6. QED
  BY <1>1, <1>2, <1>4, <1>5, FS_CardinalityType DEF ComputeSpecificity

(* A path that is segment by segment more specific has the greater sum.    *)
LEMMA MoreSpecificScores ==
  ASSUME NEW a \in Path, NEW b \in Path, MoreSpecific(a, b)
  PROVE  ComputeSpecificity(a) > ComputeSpecificity(b)
<1> DEFINE units(p) == {u \in (DOMAIN p) \X (0..3) : u[2] <= Weight(p[u[1]])}
<1>1. /\ DOMAIN a = 1..Len(a) /\ Len(a) \in Nat /\ \A i \in DOMAIN a : a[i] \in Segment
      /\ DOMAIN b = 1..Len(b) /\ Len(b) \in Nat /\ \A i \in DOMAIN b : b[i] \in Segment
  BY DEF Path
<1>2. /\ DOMAIN b \subseteq DOMAIN a
      /\ \A i \in DOMAIN b : Weight(a[i]) \in 1..3 /\ Weight(b[i]) \in 1..3
      /\ \A i \in DOMAIN b : Weight(a[i]) >= Weight(b[i])
  BY <1>1, WeightIsRank DEF MoreSpecific
<1>3. units(b) \in SUBSET units(a)
  <2> SUFFICES ASSUME NEW i \in DOMAIN b, NEW n \in 0..3, n <= Weight(b[i])
               PROVE  n <= Weight(a[i])
    BY <1>2
  <2>1. QED
    BY <1>2
<1>4. units(a) # units(b)
  <2>1. CASE Len(a) > Len(b)
    <3>1. Len(b) + 1 \in DOMAIN a \ DOMAIN b
      BY <1>1, <2>1
    <3>2. Weight(a[Len(b) + 1]) \in 1..3
      BY <1>1, <3>1, WeightIsRank
    <3>3. <<Len(b) + 1, 0>> \in units(a) \ units(b)
      BY <3>1, <3>2
    <3>4. QED
      BY <3>3
  <2>2. CASE \E i \in DOMAIN b : Rank(a[i]) < Rank(b[i])
    <3>1. PICK i \in DOMAIN b : Rank(a[i]) < Rank(b[i])
      BY <2>2
    <3>2. Weight(a[i]) > Weight(b[i])
      BY <1>1, <1>2, <3>1, WeightIsRank
    <3>3. <<i, Weight(a[i])>> \in units(a) \ units(b)
      BY <1>2, <3>2
    <3>4. QED
      BY <3>3
  <2>3. QED
    BY <2>1, <2>2 DEF MoreSpecific
<1>5. IsFiniteSet(units(a)) /\ ComputeSpecificity(a) = Cardinality(units(a))
      /\ ComputeSpecificity(b) = Cardinality(units(b))
  BY FiniteScores DEF ComputeSpecificity
<1>6. ComputeSpecificity(a) \in Nat /\ ComputeSpecificity(b) \in Nat
  BY FiniteScores
<1> HIDE DEF units
<1>7. QED
  BY <1>3, <1>4, <1>5, <1>6, FS_Subset

-----------------------------------------------------------------------------
(* The declared routes                                                     *)

LEMMA Elements ==
  ASSUME NEW T, NEW s \in Seq(T)
  PROVE  /\ DOMAIN s = 1..Len(s) /\ Len(s) \in Nat /\ IsFiniteSet(DOMAIN s)
         /\ DOMAIN s \subseteq Nat
         /\ \A i \in DOMAIN s : s[i] \in T
<1>1. DOMAIN s = 1..Len(s) /\ Len(s) \in Nat /\ \A i \in DOMAIN s : s[i] \in T
  BY ElementOfSeq, LenProperties
<1>2. IsFiniteSet(1..Len(s))
  BY <1>1, FS_Interval
<1>3. QED
  BY <1>1, <1>2

(* a ?? b ?? c is one of them, if any is.                                  *)
LEMMA FirstSetIsOne ==
  ASSUME NEW T, NEW s, DOMAIN s \subseteq Nat, \A i \in DOMAIN s : s[i] \in T
  PROVE  FirstSet(s) \in T \cup {{}}
<1> DEFINE set == {i \in DOMAIN s : s[i] # {}}
<1>1. set # {} => Min(set) \in set
  BY MinIsLeast
<1>2. QED
  BY <1>1 DEF FirstSet

LEMMA PartsOfRegistration ==
  ASSUME NEW reg \in Registration
  PROVE  /\ reg.prefix \in Path /\ reg.classes \in Seq(Class)
         /\ reg.middlewares \in Seq(Middleware)
         /\ reg.module.prefix \in Path /\ reg.module.version \in SUBSET Path
         /\ reg.module.middlewares \in Seq(Middleware)
         /\ reg.module.authStack \in MaybeStack
<1>1. /\ reg.prefix \in Path /\ reg.classes \in Seq(Class)
      /\ reg.middlewares \in Seq(Middleware) /\ reg.module \in HttpModuleMeta
  BY DEF Registration
<1>2. QED
  BY <1>1 DEF HttpModuleMeta

LEMMA PartsOfClass ==
  ASSUME NEW class \in Class
  PROVE  /\ class.prefix \in SUBSET Path /\ class.version \in SUBSET Path
         /\ class.authStack \in MaybeStack /\ class.routes \in Seq(RouteDefinition)
         /\ class.methods \in [MethodName -> SUBSET Seq(Guard)]
BY DEF Class

LEMMA RegistrationOfPlace ==
  ASSUME NEW options, IsRouterOptions(options), NEW p \in Declarations(options)
  PROVE  /\ p = <<p[1], p[2], p[3]>> /\ p[1] \in Nat /\ p[2] \in Nat /\ p[3] \in Nat
         /\ options.registrations[p[1]] \in Registration
         /\ options.registrations[p[1]].classes[p[2]].routes[p[3]] \in RouteDefinition
<1> DEFINE regs == options.registrations
<1>1. PICK r \in DOMAIN regs :
        \E c \in DOMAIN regs[r].classes : \E d \in DOMAIN regs[r].classes[c].routes :
          p = <<r, c, d>>
  BY DEF Declarations
<1>a. PICK c \in DOMAIN regs[r].classes : \E d \in DOMAIN regs[r].classes[c].routes : p = <<r, c, d>>
  BY <1>1
<1>b. PICK d \in DOMAIN regs[r].classes[c].routes : p = <<r, c, d>>
  BY <1>a
<1>2. regs \in Seq(Registration)
  BY DEF IsRouterOptions
<1> HIDE DEF regs
<1>3. r \in Nat /\ regs[r] \in Registration
  BY <1>2, Elements
<1>4. regs[r].classes \in Seq(Class)
  BY <1>3, PartsOfRegistration
<1>5. c \in Nat /\ regs[r].classes[c] \in Class
  BY <1>4, Elements
<1>6. regs[r].classes[c].routes \in Seq(RouteDefinition)
  BY <1>5, PartsOfClass
<1>7. d \in Nat /\ regs[r].classes[c].routes[d] \in RouteDefinition
  BY <1>6, Elements
<1>8. p[1] = r /\ p[2] = c /\ p[3] = d
  BY <1>b
<1>9. QED
  BY <1>b, <1>3, <1>5, <1>7, <1>8 DEF regs

LEMMA FinitelyDeclared ==
  ASSUME NEW options, IsRouterOptions(options)
  PROVE  IsFiniteSet(Declarations(options))
<1> DEFINE regs == options.registrations
           inClass(r, c) == {<<r, c, d>> : d \in DOMAIN regs[r].classes[c].routes}
           inReg(r) == UNION {inClass(r, c) : c \in DOMAIN regs[r].classes}
<1>1. regs \in Seq(Registration)
  BY DEF IsRouterOptions
<1>a. Declarations(options) = UNION {inReg(r) : r \in DOMAIN regs}
  BY DEF Declarations
<1> HIDE DEF regs
<1>2. ASSUME NEW r \in DOMAIN regs PROVE IsFiniteSet(inReg(r))
  <2>1. regs[r].classes \in Seq(Class)
    BY <1>1, Elements, PartsOfRegistration
  <2>2. IsFiniteSet(DOMAIN regs[r].classes)
    BY <2>1, Elements
  <2>3. ASSUME NEW c \in DOMAIN regs[r].classes PROVE IsFiniteSet(inClass(r, c))
    <3>1. regs[r].classes[c].routes \in Seq(RouteDefinition)
      BY <2>1, Elements, PartsOfClass
    <3> DEFINE D == DOMAIN regs[r].classes[c].routes
               g == [d \in D |-> <<r, c, d>>]
    <3>2. IsFiniteSet(D)
      BY <3>1, Elements
    <3>3. g \in Surjection(D, inClass(r, c))
      <4> HIDE DEF D
      <4>1. inClass(r, c) = {<<r, c, d>> : d \in D}
        BY DEF D
      <4>2. QED
        BY <4>1 DEF Surjection
    <3>4. QED
      BY <3>2, <3>3, FS_Surjection
  <2> DEFINE f == [c \in DOMAIN regs[r].classes |-> inClass(r, c)]
  <2> HIDE DEF inClass
  <2>a. DOMAIN f = DOMAIN regs[r].classes /\ \A c \in DOMAIN f : f[c] = inClass(r, c)
    OBVIOUS
  <2> HIDE DEF f
  <2>4. IsFiniteSet(UNION {f[c] : c \in DOMAIN f})
    BY <2>2, <2>3, <2>a, FiniteUnion
  <2>5. {f[c] : c \in DOMAIN f} = {inClass(r, c) : c \in DOMAIN regs[r].classes}
    BY <2>a
  <2>6. QED
    BY <2>4, <2>5
<1> DEFINE f == [r \in DOMAIN regs |-> inReg(r)]
<1> HIDE DEF inReg
<1>3. DOMAIN f = DOMAIN regs /\ \A r \in DOMAIN f : f[r] = inReg(r)
  OBVIOUS
<1> HIDE DEF f
<1>4. IsFiniteSet(UNION {f[r] : r \in DOMAIN f})
  BY <1>1, <1>2, <1>3, Elements, FiniteUnion
<1>5. {f[r] : r \in DOMAIN f} = {inReg(r) : r \in DOMAIN regs}
  BY <1>3
<1>6. QED
  BY <1>4, <1>5, <1>a

(* What the classes of a hierarchy say of a setting is of its type.        *)
LEMMA Inherited ==
  ASSUME NEW classes \in Seq(Class)
  PROVE  /\ ReadInherited(classes, "prefix") \in SUBSET Path
         /\ ReadInherited(classes, "version") \in SUBSET Path
         /\ ReadInherited(classes, "authStack") \in MaybeStack
         /\ \A method \in MethodName : Method(classes, method) \in SUBSET Seq(Guard)
<1>1. DOMAIN classes \subseteq Nat /\ \A c \in DOMAIN classes : classes[c] \in Class
  BY Elements
<1>2. ReadInherited(classes, "prefix") \in SUBSET Path
  <2> DEFINE s == [c \in DOMAIN classes |-> classes[c]["prefix"]]
  <2>1. DOMAIN s \subseteq Nat /\ \A c \in DOMAIN s : s[c] \in SUBSET Path
    BY <1>1, PartsOfClass
  <2> HIDE DEF s
  <2>2. FirstSet(s) \in SUBSET Path
    BY <2>1, FirstSetIsOne
  <2>3. QED
    BY <2>2 DEF ReadInherited, s
<1>3. ReadInherited(classes, "version") \in SUBSET Path
  <2> DEFINE s == [c \in DOMAIN classes |-> classes[c]["version"]]
  <2>1. DOMAIN s \subseteq Nat /\ \A c \in DOMAIN s : s[c] \in SUBSET Path
    BY <1>1, PartsOfClass
  <2> HIDE DEF s
  <2>2. FirstSet(s) \in SUBSET Path
    BY <2>1, FirstSetIsOne
  <2>3. QED
    BY <2>2 DEF ReadInherited, s
<1>4. ReadInherited(classes, "authStack") \in MaybeStack
  <2> DEFINE s == [c \in DOMAIN classes |-> classes[c]["authStack"]]
  <2>1. DOMAIN s \subseteq Nat /\ \A c \in DOMAIN s : s[c] \in MaybeStack
    BY <1>1, PartsOfClass
  <2> HIDE DEF s
  <2>2. FirstSet(s) \in MaybeStack
    BY <2>1, FirstSetIsOne DEF MaybeStack
  <2>3. QED
    BY <2>2 DEF ReadInherited, s
<1>5. ASSUME NEW method \in MethodName PROVE Method(classes, method) \in SUBSET Seq(Guard)
  <2> DEFINE s == [c \in DOMAIN classes |-> classes[c].methods[method]]
  <2>1. DOMAIN s \subseteq Nat /\ \A c \in DOMAIN s : s[c] \in SUBSET Seq(Guard)
    BY <1>1, PartsOfClass
  <2> HIDE DEF s
  <2>2. FirstSet(s) \in SUBSET Seq(Guard)
    BY <2>1, FirstSetIsOne
  <2>3. QED
    BY <2>2 DEF Method, s
<1>6. QED
  BY <1>2, <1>3, <1>4, <1>5

LEMMA PathIsFull ==
  ASSUME NEW reg \in Registration, NEW def \in RouteDefinition
  PROVE  FullPath(reg, def) \in Path
<1>1. def.path \in Path /\ def.version \in SUBSET Path
  BY DEF RouteDefinition
<1> DEFINE versions == <<def.version, ReadInherited(reg.classes, "version"), reg.module.version>>
<1>2. FirstSet(versions) \in SUBSET Path
  <2>1. DOMAIN versions \subseteq Nat /\ \A i \in DOMAIN versions : versions[i] \in SUBSET Path
    BY <1>1, PartsOfRegistration, Inherited
  <2> HIDE DEF versions
  <2>2. QED
    BY <2>1, FirstSetIsOne
<1>3. ASSUME NEW set \in SUBSET Path PROVE OrElse(set, <<>>) \in Path
  <2>1. <<>> \in Path
    BY DEF Path
  <2>2. QED
    BY <2>1 DEF OrElse
<1>4. \A s, t \in Path : s \o t \in Path
  BY ConcatProperties DEF Path
<1>5. QED
  BY <1>1, <1>2, <1>3, <1>4, PartsOfRegistration, Inherited DEF FullPath

(* The routes, by where they are declared.                                 *)
LEMMA RouteOfPlace ==
  ASSUME NEW options, IsRouterOptions(options), NEW p \in Declarations(options)
  PROVE  \E reg \in Registration, def \in RouteDefinition :
           /\ reg \in Range(options.registrations)
           /\ DeclaredRoutes(options)[p] = NormalizedRoute(options, reg, def)
<1> DEFINE reg == options.registrations[p[1]]
           def == reg.classes[p[2]].routes[p[3]]
<1>1. reg \in Registration /\ def \in RouteDefinition
  BY RegistrationOfPlace
<1>2. DeclaredRoutes(options)[p] = NormalizedRoute(options, reg, def)
  BY DEF DeclaredRoutes
<1>3. p[1] \in DOMAIN options.registrations
  <2>1. PICK r \in DOMAIN options.registrations :
          \E c \in DOMAIN options.registrations[r].classes :
            \E d \in DOMAIN options.registrations[r].classes[c].routes : p = <<r, c, d>>
    BY DEF Declarations
  <2>2. QED
    BY <2>1
<1>4. reg \in Range(options.registrations)
  BY <1>3 DEF Range
<1> HIDE DEF reg, def
<1>5. QED
  BY <1>1, <1>2, <1>4

(* The table has the declared routes and no others, and none of its routes *)
(* comes after one that is segment by segment less specific.               *)
LEMMA Sorted ==
  ASSUME NEW options, IsRouterOptions(options)
  PROVE  /\ DOMAIN BuildRoutes(options) \subseteq Nat
         /\ \A k \in DOMAIN BuildRoutes(options) :
              \E p \in Declarations(options) : BuildRoutes(options)[k] = DeclaredRoutes(options)[p]
         /\ \A j, k \in DOMAIN BuildRoutes(options) :
              j < k => ~MoreSpecific(BuildRoutes(options)[k].path, BuildRoutes(options)[j].path)
<1> DEFINE D == Declarations(options)
           rs == DeclaredRoutes(options)
           R == {u \in D \X D : CompareBySpecificity(rs, u[1], u[2])}
           place == [p \in D |-> 1 + Cardinality({q \in D : <<q, p>> \in R})]
           n == Cardinality(D)
           score(p) == ComputeSpecificity(rs[p].path)
           length(p) == TextLength(rs[p].path)
<1>1. IsFiniteSet(D) /\ DOMAIN rs = D
  BY FinitelyDeclared DEF DeclaredRoutes
<1>2. ASSUME NEW p \in D PROVE rs[p].path \in Path
  <2>1. PICK reg \in Registration, def \in RouteDefinition : rs[p] = NormalizedRoute(options, reg, def)
    BY RouteOfPlace
  <2>2. rs[p].path = FullPath(reg, def)
    BY <2>1 DEF NormalizedRoute
  <2>3. QED
    BY <2>2, PathIsFull
<1>3. ASSUME NEW p \in D PROVE score(p) \in Nat /\ length(p) \in Nat
  BY <1>2, FiniteScores
<1>4. ASSUME NEW p \in D
      PROVE p = <<p[1], p[2], p[3]>> /\ p[1] \in Nat /\ p[2] \in Nat /\ p[3] \in Nat
  BY RegistrationOfPlace
<1>5. \A p, q \in D : <<p, q>> \in R <=>
        \/ score(p) > score(q)
        \/ score(p) = score(q) /\ length(p) > length(q)
        \/ score(p) = score(q) /\ length(p) = length(q) /\ DeclaredBefore(p, q)
  BY DEF CompareBySpecificity
<1>6. place = [p \in D |-> 1 + Cardinality({q \in D : CompareBySpecificity(rs, q, p)})]
  <2>1. ASSUME NEW p \in D
        PROVE  {q \in D : <<q, p>> \in R} = {q \in D : CompareBySpecificity(rs, q, p)}
    OBVIOUS
  <2> HIDE DEF R
  <2>2. QED
    BY <2>1
<1>7. BuildRoutes(options) = [k \in 1..n |-> rs[CHOOSE p \in D : place[p] = k]]
  <2> HIDE DEF place, D
  <2>1. QED
    BY <1>1, <1>6 DEF BuildRoutes
<1> HIDE DEF R, D, rs, score, length
<1>a. \A p \in D : <<p, p>> \notin R
  BY <1>3, <1>4, <1>5 DEF DeclaredBefore
<1>b. \A p, q, r \in D : <<p, q>> \in R /\ <<q, r>> \in R => <<p, r>> \in R
  <2> SUFFICES ASSUME NEW p \in D, NEW q \in D, NEW r \in D, <<p, q>> \in R, <<q, r>> \in R
               PROVE  <<p, r>> \in R
    OBVIOUS
  <2>1. DeclaredBefore(p, q) /\ DeclaredBefore(q, r) => DeclaredBefore(p, r)
    BY <1>4 DEF DeclaredBefore
  <2>2. QED
    BY <1>3, <1>5, <2>1
<1>c. \A p, q \in D : p = q \/ <<p, q>> \in R \/ <<q, p>> \in R
  <2> SUFFICES ASSUME NEW p \in D, NEW q \in D, p # q PROVE <<p, q>> \in R \/ <<q, p>> \in R
    OBVIOUS
  <2>1. p[1] # q[1] \/ p[2] # q[2] \/ p[3] # q[3]
    BY <1>4
  <2>2. DeclaredBefore(p, q) \/ DeclaredBefore(q, p)
    BY <1>4, <2>1 DEF DeclaredBefore
  <2>3. QED
    BY <1>3, <1>5, <2>2
<1>d. /\ n \in Nat
      /\ \A p, q \in D : place[p] < place[q] => <<p, q>> \in R
      /\ \A k \in 1..n : \E p \in D : place[p] = k
  <2>1. place = RanksIn(D, R)
    BY DEF RanksIn
  <2>2. StrictTotalOrder(D, R)
    BY <1>a, <1>b, <1>c DEF StrictTotalOrder
  <2> HIDE DEF place
  <2>3. QED
    BY <1>1, <2>1, <2>2, PlacesInOrder
<1> DEFINE at(k) == CHOOSE p \in D : place[p] = k
<1> HIDE DEF place, n
<1>8. \A k \in 1..n : at(k) \in D /\ place[at(k)] = k
  BY <1>d
<1>9. DOMAIN BuildRoutes(options) = 1..n /\ \A k \in 1..n : BuildRoutes(options)[k] = rs[at(k)]
  BY <1>7
<1> HIDE DEF at
<1>10. ASSUME NEW j \in 1..n, NEW k \in 1..n, j < k, MoreSpecific(rs[at(k)].path, rs[at(j)].path)
       PROVE  FALSE
  <2>1. <<at(j), at(k)>> \in R
    BY <1>8, <1>d, <1>10
  <2>2. score(at(j)) >= score(at(k))
    BY <1>3, <1>5, <1>8, <2>1
  <2>3. score(at(k)) > score(at(j))
    BY <1>2, <1>8, <1>10, MoreSpecificScores DEF score
  <2>4. QED
    BY <1>3, <1>8, <2>2, <2>3
<1>11. QED
  BY <1>8, <1>9, <1>10, <1>d DEF D, rs

-----------------------------------------------------------------------------
(* The chain of a route                                                    *)
StackSteps == {"stamp", "verify", "load"}
GuardSteps == {"authorize", "validate"}
ChainStep ==
  [step : {"context"} \cup StackSteps, stack : {""} \cup StackName] \cup Middleware \cup Guard

StepsOf(s) == {step.step : step \in Range(s)}

(* The context comes first and the guards last.                            *)
InOrder(s) ==
  \A i, j \in DOMAIN s : i < j =>
    s[j].step # "context" /\ (s[i].step \in GuardSteps => s[j].step \in GuardSteps)

LEMMA StepsOfConcat ==
  ASSUME NEW T, NEW s \in Seq(T), NEW t \in Seq(T)
  PROVE  s \o t \in Seq(T) /\ StepsOf(s \o t) = StepsOf(s) \cup StepsOf(t)
BY RangeConcatenation, ConcatProperties DEF StepsOf

LEMMA InOrderConcat ==
  ASSUME NEW T, NEW s \in Seq(T), NEW t \in Seq(T), InOrder(s), InOrder(t),
         "context" \notin StepsOf(t),
         StepsOf(s) \cap GuardSteps = {} \/ StepsOf(t) \subseteq GuardSteps
  PROVE  InOrder(s \o t)
<1> SUFFICES ASSUME NEW i \in DOMAIN (s \o t), NEW j \in DOMAIN (s \o t), i < j
             PROVE  /\ (s \o t)[j].step # "context"
                    /\ (s \o t)[i].step \in GuardSteps => (s \o t)[j].step \in GuardSteps
  BY DEF InOrder
<1>1. /\ Len(s) \in Nat /\ Len(t) \in Nat /\ DOMAIN s = 1..Len(s) /\ DOMAIN t = 1..Len(t)
      /\ DOMAIN (s \o t) = 1..(Len(s) + Len(t))
      /\ \A k \in 1..(Len(s) + Len(t)) :
           (s \o t)[k] = IF k <= Len(s) THEN s[k] ELSE t[k - Len(s)]
  BY ConcatProperties, LenProperties
<1>2. CASE j <= Len(s)
  <2>1. i \in DOMAIN s /\ j \in DOMAIN s /\ (s \o t)[i] = s[i] /\ (s \o t)[j] = s[j]
    BY <1>1, <1>2
  <2>2. QED
    BY <2>1 DEF InOrder
<1>3. CASE i > Len(s)
  <2>1. /\ i - Len(s) \in DOMAIN t /\ j - Len(s) \in DOMAIN t /\ i - Len(s) < j - Len(s)
        /\ (s \o t)[i] = t[i - Len(s)] /\ (s \o t)[j] = t[j - Len(s)]
    BY <1>1, <1>3
  <2>2. QED
    BY <2>1 DEF InOrder
<1>4. CASE i <= Len(s) /\ j > Len(s)
  <2>1. /\ i \in DOMAIN s /\ j - Len(s) \in DOMAIN t
        /\ (s \o t)[i] = s[i] /\ (s \o t)[j] = t[j - Len(s)]
    BY <1>1, <1>4
  <2>2. (s \o t)[i].step \in StepsOf(s) /\ (s \o t)[j].step \in StepsOf(t)
    BY <2>1 DEF StepsOf, Range
  <2>3. QED
    BY <2>2
<1>5. QED
  BY <1>1, <1>2, <1>3, <1>4

LEMMA FewSteps ==
  /\ <<>> \in Seq(ChainStep) /\ Range(<<>>) = {} /\ InOrder(<<>>)
  /\ \A x \in ChainStep : <<x>> \in Seq(ChainStep) /\ Range(<<x>>) = {x} /\ InOrder(<<x>>)
<1>1. <<>> \in Seq(ChainStep) /\ Range(<<>>) = {} /\ InOrder(<<>>)
  BY DEF Range, InOrder
<1>2. ASSUME NEW x \in ChainStep
      PROVE  <<x>> \in Seq(ChainStep) /\ Range(<<x>>) = {x} /\ InOrder(<<x>>)
  <2>1. <<x>> \in Seq(ChainStep) /\ DOMAIN <<x>> = {1} /\ <<x>>[1] = x
    OBVIOUS
  <2> DEFINE s == <<x>>
  <2> HIDE DEF s
  <2>2. DOMAIN s = {1} /\ s[1] = x
    BY <2>1 DEF s
  <2>3. Range(s) = {x}
    BY <2>2 DEF Range
  <2>4. InOrder(s)
    BY <2>2 DEF InOrder
  <2>5. QED
    BY <2>1, <2>3, <2>4 DEF s
<1>3. QED
  BY <1>1, <1>2

(* What comes before the guards.                                           *)
ChainedUp(s) ==
  s \in Seq(ChainStep) /\ InOrder(s) /\ StepsOf(s) \subseteq {"context", "scope"} \cup StackSteps

LEMMA ChainOnward ==
  ASSUME NEW s, NEW t, ChainedUp(s), ChainedUp(t), "context" \notin StepsOf(t)
  PROVE  /\ ChainedUp(s \o t)
         /\ StepsOf(s \o t) = StepsOf(s) \cup StepsOf(t) /\ Range(s \o t) = Range(s) \cup Range(t)
<1>1. s \in Seq(ChainStep) /\ t \in Seq(ChainStep) /\ InOrder(s) /\ InOrder(t)
  BY DEF ChainedUp
<1>2. StepsOf(s) \cap GuardSteps = {}
  BY DEF ChainedUp, GuardSteps, StackSteps
<1>3. InOrder(s \o t)
  BY <1>1, <1>2, InOrderConcat
<1>4. /\ s \o t \in Seq(ChainStep) /\ StepsOf(s \o t) = StepsOf(s) \cup StepsOf(t)
      /\ Range(s \o t) = Range(s) \cup Range(t)
  BY <1>1, StepsOfConcat, RangeConcatenation
<1>5. QED
  BY <1>3, <1>4 DEF ChainedUp

LEMMA StepKinds ==
  /\ \A m \in Middleware : m \in ChainStep /\ m.step = "scope"
  /\ \A g \in Guard : g \in ChainStep /\ g.step \in GuardSteps
  /\ Middleware \subseteq ChainStep /\ Guard \subseteq ChainStep
BY DEF Middleware, Guard, ChainStep, GuardSteps

LEMMA MiddlewaresInOrder ==
  ASSUME NEW s \in Seq(Middleware)
  PROVE  s \in Seq(ChainStep) /\ StepsOf(s) \subseteq {"scope"} /\ InOrder(s)
<1>1. s \in Seq(ChainStep)
  BY StepKinds, SeqMonotonic
<1>2. \A i \in DOMAIN s : s[i].step = "scope"
  BY Elements, StepKinds
<1>3. QED
  BY <1>1, <1>2 DEF StepsOf, Range, InOrder, GuardSteps

LEMMA GuardsInOrder ==
  ASSUME NEW s \in Seq(Guard)
  PROVE  s \in Seq(ChainStep) /\ StepsOf(s) \subseteq GuardSteps /\ InOrder(s)
<1>1. s \in Seq(ChainStep)
  BY StepKinds, SeqMonotonic
<1>2. \A i \in DOMAIN s : s[i].step \in GuardSteps
  BY Elements, StepKinds
<1>3. QED
  BY <1>1, <1>2 DEF StepsOf, Range, InOrder, GuardSteps

LEMMA StackOfOptions ==
  ASSUME NEW options, IsRouterOptions(options), NEW name \in DOMAIN Stacks(options)
  PROVE  Stacks(options)[name].loads \in BOOLEAN
<1>1. CASE options.authStacks = {}
  <2>1. Stacks(options) = <<>>
    BY <1>1 DEF Stacks, OrElse
  <2>2. QED
    BY <2>1
<1>2. CASE options.authStacks # {}
  <2>1. Stacks(options) \in options.authStacks
    BY <1>2 DEF Stacks, OrElse
  <2>2. Stacks(options)[name] \in AuthMiddlewareStack
    BY <2>1 DEF IsRouterOptions
  <2>3. QED
    BY <2>2 DEF AuthMiddlewareStack
<1>3. QED
  BY <1>1, <1>2

LEMMA ThreeInAll ==
  ASSUME NEW a, NEW b, NEW c
  PROVE  <<a, b>> \o <<c>> = <<a, b, c>> /\ <<a, b>> \o <<>> = <<a, b>>
<1> DEFINE T == {a, b, c}
<1>1. <<a, b>> \in Seq(T) /\ <<c>> \in Seq(T) /\ <<a, b, c>> \in Seq(T)
  OBVIOUS
<1>2. /\ Len(<<a, b>>) = 2 /\ <<a, b>>[1] = a /\ <<a, b>>[2] = b
      /\ Len(<<c>>) = 1 /\ <<c>>[1] = c
      /\ Len(<<a, b, c>>) = 3
      /\ <<a, b, c>>[1] = a /\ <<a, b, c>>[2] = b /\ <<a, b, c>>[3] = c
  OBVIOUS
<1> DEFINE s == <<a, b>>
           t == <<c>>
           u == <<a, b, c>>
<1> HIDE DEF s, t, u, T
<1>3. s \in Seq(T) /\ t \in Seq(T) /\ u \in Seq(T) /\ Len(s) = 2 /\ Len(t) = 1 /\ Len(u) = 3
      /\ s[1] = a /\ s[2] = b /\ t[1] = c /\ u[1] = a /\ u[2] = b /\ u[3] = c
  BY <1>1, <1>2 DEF s, t, u
<1>4. s \o t \in Seq(T) /\ Len(s \o t) = 3 /\ \A i \in 1..3 : (s \o t)[i] = IF i <= 2 THEN s[i] ELSE t[i - 2]
  <2>1. /\ s \o t \in Seq(T) /\ Len(s \o t) = Len(s) + Len(t)
        /\ \A i \in 1..(Len(s) + Len(t)) :
             (s \o t)[i] = IF i <= Len(s) THEN s[i] ELSE t[i - Len(s)]
    BY <1>3, ConcatProperties
  <2>2. QED
    BY <1>3, <2>1
<1>5. \A i \in 1..3 : (s \o t)[i] = u[i]
  BY <1>3, <1>4
<1>6. s \o t = u
  BY <1>3, <1>4, <1>5, SeqEqual
<1>7. s \o <<>> = s
  BY <1>3, ConcatEmptySeq
<1>8. QED
  BY <1>6, <1>7 DEF s, t, u

(* The chain of a declared stack verifies, and loads if the stack does.    *)
LEMMA AuthChainInOrder ==
  ASSUME NEW options, IsRouterOptions(options),
         NEW name \in StackName, name \in DOMAIN Stacks(options)
  PROVE  LET s == AuthChain(options, name)
         IN /\ s \in Seq(ChainStep) /\ StepsOf(s) \subseteq StackSteps /\ InOrder(s)
            /\ \A step \in Range(s) : step.stack = name
            /\ "verify" \in StepsOf(s)
            /\ "load" \in StepsOf(s) <=> Stacks(options)[name].loads
<1> DEFINE step(kind) == [step |-> kind, stack |-> name]
           both == <<step("stamp"), step("verify")>>
           all == <<step("stamp"), step("verify"), step("load")>>
<1>1. Stacks(options)[name].loads \in BOOLEAN
  BY StackOfOptions
<1>2. AuthChain(options, name) = IF Stacks(options)[name].loads THEN all ELSE both
  <2>1. both \o <<step("load")>> = all /\ both \o <<>> = both
    BY ThreeInAll
  <2>2. AuthChain(options, name) = both \o (IF Stacks(options)[name].loads THEN <<step("load")>> ELSE <<>>)
    BY DEF AuthChain
  <2> HIDE DEF both, all, step
  <2>3. QED
    BY <2>1, <2>2
<1>3. /\ step("stamp") \in ChainStep /\ step("verify") \in ChainStep /\ step("load") \in ChainStep
  BY DEF ChainStep, StackSteps
<1>4. /\ both \in Seq(ChainStep) /\ InOrder(both)
      /\ Range(both) = {step("stamp"), step("verify")}
  <2>1. both \in Seq(ChainStep)
    BY <1>3
  <2>2. Range(both) = {step("stamp"), step("verify")}
    BY DEF Range
  <2>3. InOrder(both)
    BY DEF InOrder, GuardSteps
  <2>4. QED
    BY <2>1, <2>2, <2>3
<1>5. /\ all \in Seq(ChainStep) /\ InOrder(all)
      /\ Range(all) = {step("stamp"), step("verify"), step("load")}
  <2>1. all \in Seq(ChainStep)
    BY <1>3
  <2>2. Range(all) = {step("stamp"), step("verify"), step("load")}
    BY DEF Range
  <2>3. InOrder(all)
    BY DEF InOrder, GuardSteps
  <2>4. QED
    BY <2>1, <2>2, <2>3
<1> HIDE DEF both, all
<1>6. StepsOf(both) = {"stamp", "verify"} /\ StepsOf(all) = {"stamp", "verify", "load"}
  BY <1>4, <1>5 DEF StepsOf
<1>7. QED
  BY <1>2, <1>4, <1>5, <1>6 DEF StackSteps

-----------------------------------------------------------------------------
(* The stack of a route                                                    *)

(* The first of the declarations is the one that those before leave open.  *)
IsFirst(s, m) == m \in DOMAIN s /\ s[m] # {} /\ \A i \in DOMAIN s : i < m => s[i] = {}

LEMMA FirstSetAt ==
  ASSUME NEW s, DOMAIN s \subseteq Nat, NEW m, IsFirst(s, m)
  PROVE  FirstSet(s) = s[m] /\ Min({i \in DOMAIN s : s[i] # {}}) = m
<1> DEFINE set == {i \in DOMAIN s : s[i] # {}}
<1>1. set # {} /\ Min(set) \in set /\ \A y \in set : Min(set) <= y
  BY MinIsLeast DEF IsFirst
<1>2. Min(set) = m
  <2>1. m \in set /\ Min(set) <= m /\ m \in Nat /\ Min(set) \in Nat
    BY <1>1 DEF IsFirst
  <2>2. ~(Min(set) < m)
    BY <1>1 DEF IsFirst
  <2> HIDE DEF set
  <2>3. QED
    BY <2>1, <2>2
<1>3. QED
  BY <1>1, <1>2 DEF FirstSet, IsFirst

LEMMA FirstSetNone ==
  ASSUME NEW s, \A i \in DOMAIN s : s[i] = {}
  PROVE  FirstSet(s) = {}
BY DEF FirstSet

(* A hierarchy in the middle may be looked at first, by itself.            *)
LEMMA FirstSetNested ==
  ASSUME NEW T, NEW f \in Seq(T), NEW a, NEW b, NEW c,
         NEW s, Len(s) = Len(f) + 3, DOMAIN s = 1..(Len(f) + 3),
         s[1] = a, \A i \in 1..Len(f) : s[i + 1] = f[i],
         s[Len(f) + 2] = b, s[Len(f) + 3] = c
  PROVE  FirstSet(<<a, FirstSet(f), b, c>>) = FirstSet(s)
<1> DEFINE n == Len(f)
           four == <<a, FirstSet(f), b, c>>
<1>1. n \in Nat /\ DOMAIN f = 1..n /\ DOMAIN f \subseteq Nat /\ DOMAIN s \subseteq Nat
  BY Elements
<1>2. /\ DOMAIN four = 1..4 /\ DOMAIN four \subseteq Nat
      /\ four[1] = a /\ four[2] = FirstSet(f) /\ four[3] = b /\ four[4] = c
  OBVIOUS
<1> HIDE DEF four
<1>3. CASE a # {}
  <2>1. 1 \in DOMAIN four /\ 1 \in DOMAIN s
    BY <1>1, <1>2
  <2>2. \A i \in Nat : (i \in DOMAIN four \/ i \in DOMAIN s) => ~(i < 1)
    BY <1>1, <1>2
  <2>3. IsFirst(four, 1) /\ IsFirst(s, 1)
    BY <1>1, <1>2, <1>3, <2>1, <2>2 DEF IsFirst
  <2>4. FirstSet(four) = four[1] /\ FirstSet(s) = s[1]
    BY <1>1, <1>2, <2>3, FirstSetAt
  <2>5. QED
    BY <1>2, <2>4 DEF four
<1>4. CASE a = {} /\ \E i \in DOMAIN f : f[i] # {}
  <2> DEFINE m == Min({i \in DOMAIN f : f[i] # {}})
  <2>1. m \in DOMAIN f /\ f[m] # {} /\ \A i \in DOMAIN f : f[i] # {} => m <= i
    <3> DEFINE set == {i \in DOMAIN f : f[i] # {}}
    <3>1. set \in SUBSET Nat /\ set # {}
      BY <1>1, <1>4
    <3>2. Min(set) \in set /\ \A y \in set : Min(set) <= y
      BY <3>1, MinIsLeast
    <3>3. QED
      BY <3>2
  <2> HIDE DEF m
  <2>2. m \in Nat /\ \A i \in DOMAIN f : i < m => f[i] = {}
    BY <1>1, <2>1
  <2>3. FirstSet(f) = f[m]
    <3>1. IsFirst(f, m)
      BY <2>1, <2>2 DEF IsFirst
    <3>2. QED
      BY <1>1, <3>1, FirstSetAt
  <2>4. FirstSet(four) = four[2]
    <3>1. IsFirst(four, 2)
      BY <1>2, <1>4, <2>1, <2>3 DEF IsFirst
    <3>2. QED
      BY <1>2, <3>1, FirstSetAt
  <2>5. FirstSet(s) = s[m + 1]
    <3>1. m + 1 \in DOMAIN s /\ s[m + 1] # {}
      BY <1>1, <2>1
    <3>2. ASSUME NEW i \in DOMAIN s, i < m + 1 PROVE s[i] = {}
      <4>1. CASE i = 1
        BY <1>4, <4>1
      <4>2. CASE i # 1
        <5>1. i - 1 \in DOMAIN f /\ i - 1 < m /\ (i - 1) + 1 = i
          BY <1>1, <2>1, <2>2, <3>2, <4>2
        <5>2. s[(i - 1) + 1] = f[i - 1]
          BY <1>1, <5>1
        <5>3. QED
          BY <2>2, <5>1, <5>2
      <4>3. QED
        BY <4>1, <4>2
    <3>3. IsFirst(s, m + 1)
      BY <3>1, <3>2 DEF IsFirst
    <3>4. QED
      BY <1>1, <3>3, FirstSetAt
  <2>6. s[m + 1] = f[m]
    BY <1>1, <2>1
  <2>7. QED
    BY <1>2, <2>3, <2>4, <2>5, <2>6 DEF four
<1>5. CASE a = {} /\ ~(\E i \in DOMAIN f : f[i] # {})
  <2>1. FirstSet(f) = {}
    BY <1>5, FirstSetNone
  <2>2. \A i \in DOMAIN s : i < n + 2 => s[i] = {}
    <3> SUFFICES ASSUME NEW i \in DOMAIN s, i < n + 2 PROVE s[i] = {}
      OBVIOUS
    <3>1. CASE i = 1
      BY <1>5, <3>1
    <3>2. CASE i # 1
      <4>1. i - 1 \in DOMAIN f /\ (i - 1) + 1 = i
        BY <1>1, <3>2
      <4>2. s[(i - 1) + 1] = f[i - 1]
        BY <1>1, <4>1
      <4>3. QED
        BY <1>5, <4>1, <4>2
    <3>3. QED
      BY <3>1, <3>2
  <2>3. \A i \in DOMAIN four : i < 3 => four[i] = {}
    BY <1>2, <1>5, <2>1
  <2>4. CASE b # {}
    <3>1. 3 \in DOMAIN four /\ four[3] = b /\ n + 2 \in DOMAIN s /\ s[n + 2] = b
      BY <1>1, <1>2
    <3>2. IsFirst(four, 3) /\ IsFirst(s, n + 2)
      BY <2>2, <2>3, <2>4, <3>1 DEF IsFirst
    <3>3. FirstSet(four) = b /\ FirstSet(s) = b
      BY <1>1, <1>2, <3>1, <3>2, FirstSetAt
    <3>4. QED
      BY <3>3 DEF four
  <2>5. CASE b = {} /\ c # {}
    <3>1. 4 \in DOMAIN four /\ four[4] = c /\ n + 3 \in DOMAIN s /\ s[n + 3] = c
      BY <1>1, <1>2
    <3>2. \A i \in DOMAIN four : i < 4 => four[i] = {}
      BY <1>2, <2>3, <2>5
    <3>3. \A i \in DOMAIN s : i < n + 3 => s[i] = {}
      <4>1. \A i \in DOMAIN s : i < n + 3 => i < n + 2 \/ i = n + 2
        BY <1>1
      <4>2. QED
        BY <2>2, <2>5, <4>1
    <3>4. IsFirst(four, 4) /\ IsFirst(s, n + 3)
      BY <2>5, <3>1, <3>2, <3>3 DEF IsFirst
    <3>5. FirstSet(four) = c /\ FirstSet(s) = c
      BY <1>1, <1>2, <3>1, <3>4, FirstSetAt
    <3>6. QED
      BY <3>5 DEF four
  <2>6. CASE b = {} /\ c = {}
    <3>1. \A i \in DOMAIN four : four[i] = {}
      BY <1>2, <2>3, <2>6
    <3>2. \A i \in DOMAIN s : s[i] = {}
      <4>1. \A i \in DOMAIN s : i < n + 2 \/ i = n + 2 \/ i = n + 3
        BY <1>1
      <4>2. QED
        BY <2>2, <2>6, <4>1
    <3>3. QED
      BY <3>1, <3>2, FirstSetNone DEF four
  <2>7. QED
    BY <2>4, <2>5, <2>6
<1>6. QED
  BY <1>3, <1>4, <1>5

(* The stack of a route that the constructor lets pass is declared.        *)
LEMMA StackOfRoute ==
  ASSUME NEW options, IsRouterOptions(options), ~Refused(options),
         NEW p \in Declarations(options),
         NEW reg \in Registration, NEW def \in RouteDefinition,
         reg \in Range(options.registrations),
         DeclaredRoutes(options)[p] = NormalizedRoute(options, reg, def)
  PROVE  /\ ResolvedStack(options, reg, def) \in MaybeStack
         /\ ResolvedStack(options, reg, def) \subseteq DOMAIN Stacks(options)
<1> DEFINE T == {stack \in MaybeStack : stack \subseteq DOMAIN Stacks(options)}
           four == <<def.authStack, ReadInherited(reg.classes, "authStack"),
                     reg.module.authStack, options.defaultAuthStack>>
<1>1. def.authStack \in T
  <2>1. NormalizedRoute(options, reg, def) \in Range(DeclaredRoutes(options))
    <3>1. p \in DOMAIN DeclaredRoutes(options)
      BY DEF DeclaredRoutes
    <3>2. QED
      BY <3>1 DEF Range
  <2>2. NormalizedRoute(options, reg, def).def = def
    BY DEF NormalizedRoute
  <2>3. def.authStack \subseteq DOMAIN Stacks(options)
    BY <2>1, <2>2 DEF Refused, InvalidSelection
  <2>4. QED
    BY <2>3 DEF RouteDefinition
<1>2. ReadInherited(reg.classes, "authStack") \in T /\ reg.module.authStack \in T
  <2>1. /\ ReadInherited(reg.classes, "authStack") \in MaybeStack
        /\ reg.module.authStack \in MaybeStack
    BY PartsOfRegistration, Inherited
  <2>2. QED
    BY <2>1 DEF Refused, UndeclaredStack
<1>3. options.defaultAuthStack \in T
  BY DEF Refused, InvalidOptions, IsRouterOptions
<1>4. {} \in T
  BY DEF MaybeStack
<1>5. DOMAIN four \subseteq Nat /\ \A i \in DOMAIN four : four[i] \in T
  BY <1>1, <1>2, <1>3
<1>6. FirstSet(four) \in T
  <2> HIDE DEF four, T
  <2>1. QED
    BY <1>4, <1>5, FirstSetIsOne
<1>7. ResolvedStack(options, reg, def) = IF def.public THEN {} ELSE FirstSet(four)
  BY DEF ResolvedStack
<1>8. QED
  BY <1>4, <1>6, <1>7

(* What the chain of a route is made of: the context before everything,    *)
(* the guards after it, and the chain of the route's stack, if it has one. *)
Chained(options, r) ==
  /\ r.chain \in Seq(ChainStep) /\ r.guards \in Seq(ChainStep)
  /\ InOrder(r.chain \o r.guards)
  /\ StepsOf(r.chain) \cap GuardSteps = {} /\ StepsOf(r.guards) \subseteq GuardSteps
  /\ \A step \in Range(r.chain) : step.step \in StackSteps => r.authStack = {step.stack}
  /\ \A name \in r.authStack :
       /\ r.authStack = {name} /\ name \in DOMAIN Stacks(options)
       /\ "verify" \in StepsOf(r.chain)
       /\ "load" \in StepsOf(r.chain) <=> Stacks(options)[name].loads

LEMMA RoutesAreChained ==
  ASSUME NEW options, IsRouterOptions(options), ~Refused(options),
         NEW p \in Declarations(options)
  PROVE  Chained(options, DeclaredRoutes(options)[p])
<1>1. PICK reg \in Registration, def \in RouteDefinition :
        /\ reg \in Range(options.registrations)
        /\ DeclaredRoutes(options)[p] = NormalizedRoute(options, reg, def)
  BY RouteOfPlace
<1> DEFINE r == DeclaredRoutes(options)[p]
           stack == ResolvedStack(options, reg, def)
           first == IF options.context THEN <<[step |-> "context", stack |-> ""]>> ELSE <<>>
           globals == options.globalMiddlewares
           auth == IF stack = {} THEN <<>> ELSE AuthChain(options, OrElse(stack, ""))
           module == reg.module.middlewares
           own == reg.middlewares
           guards == OrElse(Method(reg.classes, def.method), <<>>)
<1>2. /\ r.authStack = stack /\ r.guards = guards
      /\ r.chain = first \o globals \o auth \o module \o own
  <2>1. r = NormalizedRoute(options, reg, def)
    BY <1>1
  <2>2. r.authStack = stack /\ r.guards = guards /\ r.chain = MiddlewareChain(options, reg, stack)
    <3> HIDE DEF r, stack, guards
    <3>1. QED
      BY <2>1 DEF NormalizedRoute, stack, guards
  <2>3. MiddlewareChain(options, reg, stack) = first \o globals \o auth \o module \o own
    BY DEF MiddlewareChain
  <2>4. QED
    BY <2>2, <2>3
<1>3. stack \in MaybeStack /\ stack \subseteq DOMAIN Stacks(options)
  BY <1>1, StackOfRoute
<1>4. first \in Seq(ChainStep) /\ StepsOf(first) \subseteq {"context"} /\ InOrder(first)
  <2>1. options.context \in BOOLEAN
    BY DEF IsRouterOptions
  <2>2. [step |-> "context", stack |-> ""] \in ChainStep
    BY DEF ChainStep
  <2>3. CASE options.context
    <3>1. first = <<[step |-> "context", stack |-> ""]>>
      BY <2>3
    <3>2. first \in Seq(ChainStep) /\ InOrder(first)
      BY <2>2, <3>1, FewSteps
    <3>3. Range(first) = {[step |-> "context", stack |-> ""]}
      BY <2>2, <3>1, FewSteps
    <3>4. StepsOf(first) \subseteq {"context"}
      <4>a. \A name : [step |-> "context", stack |-> name].step = "context"
        OBVIOUS
      <4>1. \A step \in Range(first) : step.step = "context"
        <5> HIDE DEF first
        <5>1. QED
          BY <3>3, <4>a, Zenon
      <4> HIDE DEF first
      <4>2. QED
        BY <4>1 DEF StepsOf
    <3>5. QED
      BY <3>2, <3>4
  <2>4. CASE ~options.context
    <3>1. first = <<>>
      BY <2>4
    <3>2. QED
      BY <3>1, FewSteps DEF StepsOf
  <2>5. QED
    BY <2>1, <2>3, <2>4
<1>5. /\ globals \in Seq(ChainStep) /\ StepsOf(globals) \subseteq {"scope"} /\ InOrder(globals)
      /\ module \in Seq(ChainStep) /\ StepsOf(module) \subseteq {"scope"} /\ InOrder(module)
      /\ own \in Seq(ChainStep) /\ StepsOf(own) \subseteq {"scope"} /\ InOrder(own)
  <2>1. globals \in Seq(Middleware) /\ module \in Seq(Middleware) /\ own \in Seq(Middleware)
    BY PartsOfRegistration DEF IsRouterOptions
  <2>2. QED
    BY <2>1, MiddlewaresInOrder
<1>6. /\ auth \in Seq(ChainStep) /\ StepsOf(auth) \subseteq StackSteps /\ InOrder(auth)
      /\ \A step \in Range(auth) : stack = {step.stack}
      /\ \A name \in stack :
           /\ stack = {name} /\ name \in DOMAIN Stacks(options)
           /\ "verify" \in StepsOf(auth)
           /\ "load" \in StepsOf(auth) <=> Stacks(options)[name].loads
  <2>1. CASE stack = {}
    <3>1. auth = <<>>
      BY <2>1
    <3>2. QED
      BY <2>1, <3>1, FewSteps DEF StepsOf
  <2>2. CASE stack # {}
    <3>1. PICK name \in StackName : stack = {name}
      BY <1>3, <2>2 DEF MaybeStack
    <3>2. auth = AuthChain(options, name) /\ name \in DOMAIN Stacks(options)
      BY <1>3, <3>1 DEF OrElse
    <3> HIDE DEF auth, stack
    <3>3. QED
      BY <3>1, <3>2, AuthChainInOrder
  <2>3. QED
    BY <2>1, <2>2
<1>7. guards \in Seq(ChainStep) /\ StepsOf(guards) \subseteq GuardSteps /\ InOrder(guards)
  <2>1. Method(reg.classes, def.method) \in SUBSET Seq(Guard)
    <3>1. def.method \in MethodName
      BY DEF RouteDefinition
    <3>2. QED
      BY <3>1, PartsOfRegistration, Inherited
  <2>2. guards \in Seq(Guard)
    BY <2>1 DEF OrElse
  <2>3. QED
    BY <2>2, GuardsInOrder
<1> HIDE DEF r, stack, first, globals, auth, module, own, guards
<1> DEFINE c2 == first \o globals
           c3 == c2 \o auth
           c4 == c3 \o module
           c5 == c4 \o own
           c6 == c5 \o guards
<1>b. /\ ChainedUp(first) /\ ChainedUp(globals) /\ ChainedUp(auth)
      /\ ChainedUp(module) /\ ChainedUp(own)
      /\ "context" \notin StepsOf(globals) \cup StepsOf(auth) \cup StepsOf(module) \cup StepsOf(own)
  BY <1>4, <1>5, <1>6 DEF ChainedUp, StackSteps
<1>8. /\ ChainedUp(c2) /\ StepsOf(c2) = StepsOf(first) \cup StepsOf(globals)
      /\ Range(c2) = Range(first) \cup Range(globals)
  BY <1>b, ChainOnward
<1> HIDE DEF c2
<1>9. /\ ChainedUp(c3) /\ StepsOf(c3) = StepsOf(c2) \cup StepsOf(auth)
      /\ Range(c3) = Range(c2) \cup Range(auth)
  BY <1>b, <1>8, ChainOnward
<1> HIDE DEF c3
<1>10. /\ ChainedUp(c4) /\ StepsOf(c4) = StepsOf(c3) \cup StepsOf(module)
       /\ Range(c4) = Range(c3) \cup Range(module)
  BY <1>b, <1>9, ChainOnward
<1> HIDE DEF c4
<1>11. /\ ChainedUp(c5) /\ StepsOf(c5) = StepsOf(c4) \cup StepsOf(own)
       /\ Range(c5) = Range(c4) \cup Range(own)
  BY <1>b, <1>10, ChainOnward
<1>a. r.chain = c5
  BY <1>2 DEF c2, c3, c4
<1> HIDE DEF c5
<1>12. StepsOf(c5) \cap GuardSteps = {}
  BY <1>11 DEF ChainedUp, GuardSteps, StackSteps
<1>13. InOrder(c6)
  <2>1. "context" \notin StepsOf(guards)
    BY <1>7 DEF GuardSteps
  <2>2. QED
    BY <1>7, <1>11, <1>12, <2>1, InOrderConcat DEF ChainedUp
<1>14. ASSUME NEW step \in Range(c5), step.step \in StackSteps PROVE stack = {step.stack}
  <2>1. Range(c5) = Range(first) \cup Range(globals) \cup Range(auth) \cup Range(module) \cup Range(own)
    BY <1>8, <1>9, <1>10, <1>11
  <2>2. \A x \in Range(first) \cup Range(globals) \cup Range(module) \cup Range(own) :
          x.step \in {"context", "scope"}
    BY <1>4, <1>5 DEF StepsOf
  <2>3. step \in Range(auth)
    BY <1>14, <2>1, <2>2 DEF StackSteps
  <2>4. QED
    BY <1>6, <2>3
<1>15. ASSUME NEW kind \in StackSteps PROVE kind \in StepsOf(c5) <=> kind \in StepsOf(auth)
  BY <1>4, <1>5, <1>8, <1>9, <1>10, <1>11 DEF StackSteps
<1>16. Chained(options, r)
  BY <1>2, <1>6, <1>7, <1>a, <1>11, <1>12, <1>13, <1>14, <1>15 DEF Chained, ChainedUp, StackSteps
<1>17. QED
  BY <1>16 DEF r

-----------------------------------------------------------------------------
(* The inductive invariant                                                 *)
Full(r) == r.chain \o r.guards

Shapes ==
  /\ attributes = [stack |-> attributes.stack, keys |-> attributes.keys,
                   verified |-> attributes.verified]
  /\ context = [active |-> context.active, session |-> context.session, scope |-> context.scope]

(* Once the server listens, its table is that of the options.              *)
Tabled ==
  outcome \notin {"starting", "refused"} =>
    ~Refused(app.options) /\ routes = BuildRoutes(app.options)

(* Nothing is known of the request before it has a route, which is the     *)
(* first of those that match.                                              *)
Routed ==
  /\ route = {} => attributes.verified = {} /\ context = NoContext /\ input = {}
  /\ outcome \in {"starting", "refused", "listening"} => route = {}
  /\ outcome \in {"serving", "handled"} => route # {}
  /\ \A r \in route :
       /\ route = {r} /\ outcome \notin {"starting", "refused", "listening"}
       /\ \E k \in Matches(routes, request.verb, request.path) :
            r = routes[k] /\ \A m \in Matches(routes, request.verb, request.path) : k <= m

(* What a step of the chain that has been made leaves for good.            *)
Left(step) ==
  /\ step.step = "verify" => attributes.verified = {step.stack}
  /\ step.step = "load" => context.session = {"session"}
  /\ step.step = "scope" => {step.target} \in {context.scope, context.session}

(* A step of the chain is still to be made or has left what it leaves, and *)
(* what there is, steps of the chain have left.                            *)
Underway(r) ==
  /\ todo \in Seq(ChainStep) /\ Range(todo) \subseteq Range(Full(r)) /\ InOrder(todo)
  /\ "context" \in StepsOf(todo) => context = NoContext
  /\ \A step \in Range(Full(r)) : step \in Range(todo) \/ Left(step)
  /\ attributes.verified # {} => "verify" \in StepsOf(Full(r))
  /\ context.session # {} => context.session = {"session"} /\ "load" \in StepsOf(Full(r))

(* After a validation only guards follow, so what it took its input from   *)
(* is still so.                                                            *)
Validated(r) ==
  \A source \in input :
    /\ StepsOf(todo) \subseteq GuardSteps
    /\ \E guard \in Range(r.guards) :
         /\ guard.step = "validate" /\ ~(guard.described /\ SessionLacks(guard))
         /\ source = [key \in guard.keys |-> Raw(guard, key)]

HttpInv ==
  /\ IsRouterOptions(app.options)
  /\ Shapes
  /\ Tabled
  /\ Routed
  /\ \A r \in route : Underway(r) /\ Validated(r)
  /\ outcome = "handled" => todo = <<>>

(* The places of the steps that have been made, before those of the rest.  *)
Made(r) == 1..(Len(Full(r)) - Len(todo))

(* There are two scopes only where all scopes were named before the first  *)
(* session was loaded.                                                     *)
ScopesFirst(r) ==
  /\ Len(Full(r)) - Len(todo) \in Nat
  /\ \A i \in DOMAIN todo : todo[i] = Full(r)[Len(Full(r)) - Len(todo) + i]
  /\ \A j \in Made(r) : Full(r)[j].step = "load" => context.session # {}
  /\ ScopeConflict(context) =>
       \A i, j \in Made(r) : Full(r)[i].step = "scope" /\ Full(r)[j].step = "load" => i < j

Ordered == \A r \in route : ScopesFirst(r)

(* What is emitted has the context of the handler, or none.                *)
Carried ==
  /\ emitted # {} => outcome = "handled"
  /\ \A event \in emitted :
       /\ emitted = {event}
       /\ event.metadata # {} =>
            event.metadata = {Metadata} /\ ~MetadataInvalid(Metadata) /\ ~ScopeConflict(context)
  /\ \A c \in handledIn : \E event \in emitted : c = BuildExecutionContext(event)

(* A predicate write that is under way was not refused.                    *)
WhereIsStrict ==
  /\ op.where \in Seq(Filter)
  /\ op.method \in {"updateBy", "deleteBy"} /\ write \notin {"idle", "refused"} => ~WhereRefused

IInv == HttpInv /\ Ordered /\ Carried /\ WhereIsStrict

-----------------------------------------------------------------------------
(* The steps of a request                                                  *)

(* Only Http's variables decide HttpInv.                                   *)
LEMMA ServedIsChained ==
  ASSUME HttpInv, NEW r \in route
  PROVE  /\ route = {r} /\ Chained(app.options, r)
         /\ \E p \in Declarations(app.options) : r = DeclaredRoutes(app.options)[p]
<1>1. PICK k \in Matches(routes, request.verb, request.path) : r = routes[k]
  BY DEF HttpInv, Routed
<1>2. ~Refused(app.options) /\ routes = BuildRoutes(app.options)
  BY DEF HttpInv, Tabled, Routed
<1>3. k \in DOMAIN routes
  BY <1>1 DEF Matches
<1>4. IsRouterOptions(app.options)
  BY DEF HttpInv
<1>5. PICK p \in Declarations(app.options) : r = DeclaredRoutes(app.options)[p]
  BY <1>1, <1>2, <1>3, <1>4, Sorted
<1>6. Chained(app.options, r)
  BY <1>2, <1>4, <1>5, RoutesAreChained
<1>7. route = {r}
  BY DEF HttpInv, Routed
<1>8. QED
  BY <1>5, <1>6, <1>7

LEMMA HeadAndTail ==
  ASSUME NEW T, NEW s \in Seq(T), s # <<>>
  PROVE  /\ Tail(s) \in Seq(T) /\ Head(s) \in Range(s)
         /\ Range(Tail(s)) \subseteq Range(s) /\ Range(s) \subseteq {Head(s)} \cup Range(Tail(s))
         /\ InOrder(s) =>
              /\ InOrder(Tail(s)) /\ "context" \notin StepsOf(Tail(s))
              /\ Head(s).step \in GuardSteps => StepsOf(Tail(s)) \subseteq GuardSteps
<1>1. /\ Len(s) \in Nat /\ Len(s) > 0 /\ DOMAIN s = 1..Len(s)
      /\ Tail(s) \in Seq(T) /\ DOMAIN Tail(s) = 1..(Len(s) - 1)
      /\ \A i \in 1..(Len(s) - 1) : Tail(s)[i] = s[i + 1]
      /\ Head(s) = s[1]
  BY HeadTailProperties, LenProperties, EmptySeq
<1> DEFINE n == Len(s)
           t == Tail(s)
           h == Head(s)
<1>2. /\ n \in Nat /\ n > 0 /\ DOMAIN s = 1..n /\ DOMAIN t = 1..(n - 1)
      /\ \A i \in DOMAIN t : t[i] = s[i + 1] /\ i + 1 \in DOMAIN s /\ 1 < i + 1
      /\ 1 \in DOMAIN s /\ h = s[1]
  BY <1>1
<1> HIDE DEF n, t, h
<1>3. h \in Range(s)
  BY <1>2 DEF Range
<1>4. Range(t) \subseteq Range(s)
  BY <1>2 DEF Range
<1>5. ASSUME NEW i \in DOMAIN s PROVE s[i] = h \/ s[i] \in Range(t)
  <2>1. CASE i = 1
    BY <1>2, <2>1
  <2>2. CASE i # 1
    <3>1. i - 1 \in DOMAIN t /\ (i - 1) + 1 = i
      BY <1>2, <2>2
    <3>2. t[i - 1] = s[i]
      BY <1>2, <3>1
    <3>3. QED
      BY <3>1, <3>2 DEF Range
  <2>3. QED
    BY <2>1, <2>2
<1>6. Range(s) \subseteq {h} \cup Range(t)
  BY <1>5 DEF Range
<1>7. ASSUME InOrder(s)
      PROVE  /\ InOrder(t) /\ \A i \in DOMAIN t : t[i].step # "context"
             /\ h.step \in GuardSteps => \A i \in DOMAIN t : t[i].step \in GuardSteps
  <2>1. \A i \in DOMAIN t :
          t[i].step # "context" /\ (h.step \in GuardSteps => t[i].step \in GuardSteps)
    BY <1>2, <1>7 DEF InOrder
  <2>2. ASSUME NEW i \in DOMAIN t, NEW j \in DOMAIN t, i < j
        PROVE  t[i].step \in GuardSteps => t[j].step \in GuardSteps
    <3>1. i + 1 < j + 1
      BY <1>2, <2>2
    <3>2. QED
      BY <1>2, <1>7, <3>1 DEF InOrder
  <2>3. QED
    BY <2>1, <2>2 DEF InOrder
<1>8. InOrder(s) => /\ InOrder(t) /\ "context" \notin StepsOf(t)
                    /\ h.step \in GuardSteps => StepsOf(t) \subseteq GuardSteps
  BY <1>7 DEF StepsOf, Range
<1>9. QED
  BY <1>1, <1>3, <1>4, <1>6, <1>8 DEF h, t

LEMMA FullIsChained ==
  ASSUME NEW options, NEW r, Chained(options, r)
  PROVE  /\ Full(r) \in Seq(ChainStep) /\ InOrder(Full(r))
         /\ Range(Full(r)) = Range(r.chain) \cup Range(r.guards)
         /\ \A step \in Range(Full(r)) :
              /\ step.step \in GuardSteps => step \in Range(r.guards)
              /\ step.step \notin GuardSteps => step \in Range(r.chain)
<1>1. r.chain \in Seq(ChainStep) /\ r.guards \in Seq(ChainStep)
  BY DEF Chained
<1>2. /\ Full(r) \in Seq(ChainStep) /\ Range(Full(r)) = Range(r.chain) \cup Range(r.guards)
  BY <1>1, RangeConcatenation, ConcatProperties DEF Full
<1>3. /\ \A step \in Range(r.chain) : step.step \notin GuardSteps
      /\ \A step \in Range(r.guards) : step.step \in GuardSteps
  BY DEF Chained, StepsOf
<1>4. InOrder(Full(r))
  BY DEF Chained, Full
<1>5. QED
  BY <1>2, <1>3, <1>4

LEMMA StepFacts ==
  ASSUME HttpInv, NEW name, Step(name), NEW r \in route
  PROVE  /\ Chained(app.options, r) /\ Underway(r) /\ Validated(r)
         /\ Head(todo).step = name /\ Head(todo) \in Range(Full(r)) /\ Head(todo) \in Range(todo)
         /\ Tail(todo) \in Seq(ChainStep) /\ InOrder(Tail(todo))
         /\ Range(Tail(todo)) \subseteq Range(todo)
         /\ Range(todo) \subseteq {Head(todo)} \cup Range(Tail(todo))
         /\ "context" \notin StepsOf(Tail(todo))
         /\ name \in GuardSteps => StepsOf(Tail(todo)) \subseteq GuardSteps
         /\ name \notin GuardSteps => input = {}
<1>1. Chained(app.options, r)
  BY ServedIsChained
<1>2. Underway(r) /\ Validated(r)
  BY DEF HttpInv
<1>3. todo # <<>> /\ Head(todo).step = name /\ todo \in Seq(ChainStep) /\ InOrder(todo)
  BY <1>2 DEF Step, Underway
<1>4. /\ Tail(todo) \in Seq(ChainStep) /\ Head(todo) \in Range(todo)
      /\ Range(Tail(todo)) \subseteq Range(todo)
      /\ Range(todo) \subseteq {Head(todo)} \cup Range(Tail(todo))
      /\ InOrder(Tail(todo)) /\ "context" \notin StepsOf(Tail(todo))
      /\ Head(todo).step \in GuardSteps => StepsOf(Tail(todo)) \subseteq GuardSteps
  BY <1>3, HeadAndTail
<1>5. Head(todo) \in Range(Full(r))
  BY <1>2, <1>4 DEF Underway
<1>6. Head(todo).step \in StepsOf(todo)
  BY <1>4 DEF StepsOf
<1>7. name \notin GuardSteps => input = {}
  BY <1>2, <1>3, <1>6 DEF Validated
<1>8. QED
  BY <1>1, <1>2, <1>3, <1>4, <1>5, <1>7

(* What a step of the chain need not say for itself.                       *)
LEMMA StepKeeps ==
  ASSUME HttpInv, NEW name, Step(name),
         UNCHANGED <<app, routes, route>>,
         outcome' \in {"serving", "400", "401", "403", "500"},
         Shapes',
         \A r \in route : Underway(r)' /\ Validated(r)'
  PROVE  HttpInv'
<1>1. outcome = "serving"
  BY DEF Step
<1>2. route # {}
  BY <1>1 DEF HttpInv, Routed
<1>3. Tabled'
  BY <1>1 DEF HttpInv, Tabled
<1>4. Routed'
  <2>1. request' = request
    BY DEF request
  <2>2. ASSUME NEW r \in route
        PROVE  (\E k \in Matches(routes, request.verb, request.path) :
                 r = routes[k] /\ \A m \in Matches(routes, request.verb, request.path) : k <= m)'
    <3>1. \E k \in Matches(routes, request.verb, request.path) :
            r = routes[k] /\ \A m \in Matches(routes, request.verb, request.path) : k <= m
      BY DEF HttpInv, Routed
    <3>2. QED
      BY <2>1, <3>1
  <2>3. \A r \in route : route = {r}
    BY DEF HttpInv, Routed
  <2>4. QED
    BY <1>2, <2>2, <2>3 DEF Routed
<1>5. QED
  BY <1>3, <1>4 DEF HttpInv

LEMMA Unchanging ==
  ASSUME UNCHANGED <<app, attributes, context>>
  PROVE  \A guard, key : Raw(guard, key)' = Raw(guard, key)
                       /\ SessionLacks(guard)' = SessionLacks(guard)
BY DEF Raw, SessionLacks, FromHeader, FromSources, Described, request

(* What has been made stays made when nothing but the outcome changes.     *)
LEMMA Standing ==
  ASSUME HttpInv, UNCHANGED <<app, routes, route, todo, attributes, context, input>>
  PROVE  Shapes' /\ \A r \in route : Underway(r)' /\ Validated(r)'
<1>1. Shapes'
  BY DEF HttpInv, Shapes
<1>2. ASSUME NEW r \in route PROVE Underway(r)'
  BY DEF HttpInv, Underway, Left
<1>3. ASSUME NEW r \in route PROVE Validated(r)'
  <2> SUFFICES ASSUME NEW source \in input
               PROVE  /\ StepsOf(todo) \subseteq GuardSteps
                      /\ \E guard \in Range(r.guards) :
                           /\ guard.step = "validate" /\ ~(guard.described /\ SessionLacks(guard)')
                           /\ source = [key \in guard.keys |-> Raw(guard, key)']
    BY DEF Validated
  <2>1. PICK guard \in Range(r.guards) :
           /\ guard.step = "validate" /\ ~(guard.described /\ SessionLacks(guard))
           /\ source = [key \in guard.keys |-> Raw(guard, key)]
    BY DEF HttpInv, Validated
  <2>2. [key \in guard.keys |-> Raw(guard, key)'] = [key \in guard.keys |-> Raw(guard, key)]
    BY Unchanging
  <2>3. QED
    BY <2>1, <2>2, Unchanging DEF HttpInv, Validated
<1>4. QED
  BY <1>1, <1>2, <1>3

(* A step that throws leaves the chain as it is.                           *)
LEMMA ThrowKeeps ==
  ASSUME HttpInv, NEW name, Step(name), NEW status \in {"400", "401", "403", "500"}, Throw(status),
         UNCHANGED <<app, routes, route, attributes, context, input>>
  PROVE  HttpInv'
BY Standing, StepKeeps DEF Throw

(* A step that lets the next one run has left what such a step leaves, and *)
(* takes nothing from what others have left.                               *)
LEMMA OnwardKeepsUnderway ==
  ASSUME HttpInv, NEW name, Step(name), NEW r \in route, Onward,
         \A step \in Range(Full(r)) : Left(step) \/ step = Head(todo) => Left(step)',
         attributes.verified' # {} => attributes.verified = attributes.verified' \/ name = "verify",
         context.session' # {} =>
           \/ context.session = context.session'
           \/ name = "load" /\ context.session' = {"session"}
  PROVE  Underway(r)'
<1>1. /\ Head(todo) \in Range(Full(r)) /\ Head(todo).step = name
      /\ Tail(todo) \in Seq(ChainStep) /\ InOrder(Tail(todo))
      /\ Range(Tail(todo)) \subseteq Range(todo)
      /\ Range(todo) \subseteq {Head(todo)} \cup Range(Tail(todo))
      /\ "context" \notin StepsOf(Tail(todo))
      /\ Underway(r)
  BY StepFacts
<1>2. todo' = Tail(todo)
  BY DEF Onward
<1>3. name \in StepsOf(Full(r))
  BY <1>1 DEF StepsOf
<1>4. \A step \in Range(Full(r)) : step \in Range(todo') \/ Left(step)'
  BY <1>1, <1>2 DEF Underway
<1>5. attributes.verified' # {} => "verify" \in StepsOf(Full(r))
  BY <1>1, <1>3 DEF Underway
<1>6. context.session' # {} => context.session' = {"session"} /\ "load" \in StepsOf(Full(r))
  BY <1>1, <1>3 DEF Underway
<1>7. Range(todo') \subseteq Range(Full(r))
  BY <1>1, <1>2 DEF Underway
<1>8. QED
  BY <1>1, <1>2, <1>4, <1>5, <1>6, <1>7 DEF Underway

LEMMA ContextKeeps == HttpInv /\ EnterContext => HttpInv'
<1> SUFFICES ASSUME HttpInv, EnterContext PROVE HttpInv'
  OBVIOUS
<1>1. Step("context") /\ Onward /\ UNCHANGED <<app, routes, route, input, attributes>>
  BY DEF EnterContext, Rest
<1>2. PICK r : r \in route
  BY <1>1 DEF HttpInv, Routed, Step
<1>3. context = NoContext /\ input = {} /\ Head(todo).step = "context"
  <2>1. /\ Head(todo).step = "context" /\ Head(todo) \in Range(todo) /\ Underway(r)
        /\ "context" \notin GuardSteps => input = {}
    BY <1>1, <1>2, StepFacts
  <2>2. "context" \in StepsOf(todo)
    BY <2>1 DEF StepsOf
  <2>3. QED
    BY <2>1, <2>2 DEF Underway, GuardSteps
<1>4. context' = [active |-> TRUE, session |-> {}, scope |-> {}]
  BY DEF EnterContext, NoContext
<1>5. context.session' = context.session /\ context.scope' = context.scope
  BY <1>3, <1>4 DEF NoContext
<1>6. Shapes'
  BY <1>1, <1>4 DEF HttpInv, Shapes
<1>7. ASSUME NEW q \in route PROVE Underway(q)' /\ Validated(q)'
  <2>1. ASSUME NEW step, Left(step) \/ step = Head(todo) PROVE Left(step)'
    <3>1. CASE Left(step)
      BY <1>1, <1>5, <3>1 DEF Left
    <3>2. CASE step = Head(todo)
      BY <1>3, <3>2 DEF Left
    <3>3. QED
      BY <2>1, <3>1, <3>2
  <2>2. Underway(q)'
    BY <1>1, <1>5, <2>1, OnwardKeepsUnderway
  <2>3. QED
    BY <1>1, <1>3, <2>2 DEF Validated
<1>8. outcome' = "serving"
  BY <1>1 DEF Onward, Step
<1>9. QED
  BY <1>1, <1>6, <1>7, <1>8, StepKeeps

LEMMA StampKeeps == HttpInv /\ Stamp => HttpInv'
<1> SUFFICES ASSUME HttpInv, Stamp PROVE HttpInv'
  OBVIOUS
<1>1. Step("stamp") /\ Onward /\ UNCHANGED <<app, routes, route, input, context>>
  BY DEF Stamp, Rest
<1>2. PICK r : r \in route
  BY <1>1 DEF HttpInv, Routed, Step
<1>3. input = {} /\ Head(todo).step = "stamp"
  BY <1>1, <1>2, StepFacts DEF GuardSteps
<1>4. /\ attributes.verified' = attributes.verified
      /\ Shapes'
  BY <1>1 DEF Stamp, HttpInv, Shapes
<1>5. ASSUME NEW q \in route PROVE Underway(q)' /\ Validated(q)'
  <2>1. ASSUME NEW step, Left(step) \/ step = Head(todo) PROVE Left(step)'
    <3>1. CASE Left(step)
      BY <1>1, <1>4, <3>1 DEF Left
    <3>2. CASE step = Head(todo)
      BY <1>3, <3>2 DEF Left
    <3>3. QED
      BY <2>1, <3>1, <3>2
  <2>2. Underway(q)'
    BY <1>1, <1>4, <2>1, OnwardKeepsUnderway
  <2>3. QED
    BY <1>1, <1>3, <2>2 DEF Validated
<1>6. outcome' = "serving"
  BY <1>1 DEF Onward, Step
<1>7. QED
  BY <1>1, <1>4, <1>5, <1>6, StepKeeps

(* One route has one stack, so no other one was verified before.           *)
LEMMA VerifyKeeps == HttpInv /\ VerifyCredential => HttpInv'
<1> SUFFICES ASSUME HttpInv, VerifyCredential PROVE HttpInv'
  OBVIOUS
<1>1. Step("verify") /\ UNCHANGED <<app, routes, route, input, context>>
  BY DEF VerifyCredential, Rest
<1>2. PICK r : r \in route
  BY <1>1 DEF HttpInv, Routed, Step
<1>3. CASE request.credential # Head(todo).stack
  <2>1. Throw("401") /\ UNCHANGED attributes
    BY <1>3 DEF VerifyCredential
  <2>2. QED
    BY <1>1, <2>1, ThrowKeeps
<1>4. CASE request.credential = Head(todo).stack
  <2>1. Onward /\ attributes' = [attributes EXCEPT !.verified = {Head(todo).stack}]
    BY <1>4 DEF VerifyCredential
  <2>2. attributes.verified' = {Head(todo).stack} /\ Shapes'
    BY <1>1, <2>1 DEF HttpInv, Shapes
  <2>3. input = {} /\ Head(todo).step = "verify"
    BY <1>1, <1>2, StepFacts DEF GuardSteps
  <2>4. ASSUME NEW q \in route PROVE Underway(q)' /\ Validated(q)'
    <3>1. Chained(app.options, q) /\ Head(todo) \in Range(Full(q))
      BY <1>1, StepFacts
    <3>2. ASSUME NEW step \in Range(Full(q)), step.step = "verify"
          PROVE  q.authStack = {step.stack}
      BY <3>1, <3>2, FullIsChained DEF Chained, GuardSteps, StackSteps
    <3>3. \A step \in Range(Full(q)) : step.step = "verify" => step.stack = Head(todo).stack
      <4>1. q.authStack = {Head(todo).stack}
        BY <2>3, <3>1, <3>2
      <4>2. QED
        BY <3>2, <4>1
    <3>4. ASSUME NEW step \in Range(Full(q)), Left(step) \/ step = Head(todo) PROVE Left(step)'
      <4>1. step.step = "verify" => attributes.verified' = {step.stack}
        BY <2>2, <3>3
      <4>2. CASE Left(step)
        BY <1>1, <4>1, <4>2 DEF Left
      <4>3. CASE step = Head(todo)
        BY <2>3, <4>1, <4>3 DEF Left
      <4>4. QED
        BY <3>4, <4>2, <4>3
    <3>5. Underway(q)'
      BY <1>1, <2>1, <3>4, OnwardKeepsUnderway
    <3>6. QED
      BY <1>1, <2>3, <3>5 DEF Validated
  <2>5. outcome' = "serving"
    BY <1>1, <2>1 DEF Onward, Step
  <2>6. QED
    BY <1>1, <2>2, <2>4, <2>5, StepKeeps
<1>5. QED
  BY <1>3, <1>4

(* A session goes on top of a scope or of itself, and takes nothing away.  *)
LEMMA LoadKeeps == HttpInv /\ LoadSession => HttpInv'
<1> SUFFICES ASSUME HttpInv, LoadSession PROVE HttpInv'
  OBVIOUS
<1>1. Step("load") /\ UNCHANGED <<app, routes, route, input, attributes>>
  BY DEF LoadSession, Rest
<1>2. PICK r : r \in route
  BY <1>1 DEF HttpInv, Routed, Step
<1>3. CASE ~(attributes.verified # {} /\ request.session = "live")
  <2>1. Throw("401") /\ UNCHANGED context
    BY <1>3 DEF LoadSession
  <2>2. QED
    BY <1>1, <2>1, ThrowKeeps
<1>4. CASE attributes.verified # {} /\ request.session = "live"
  <2>1. Onward /\ context' = [context EXCEPT !.session = {"session"}]
    BY <1>4 DEF LoadSession
  <2>2. context.session' = {"session"} /\ context.scope' = context.scope /\ Shapes'
    BY <1>1, <2>1 DEF HttpInv, Shapes
  <2>3. input = {} /\ Head(todo).step = "load" /\ Underway(r)
    BY <1>1, <1>2, StepFacts DEF GuardSteps
  <2>4. context.session = {} \/ context.session = {"session"}
    BY <2>3 DEF Underway
  <2>5. ASSUME NEW q \in route PROVE Underway(q)' /\ Validated(q)'
    <3>1. ASSUME NEW step, Left(step) \/ step = Head(todo) PROVE Left(step)'
      <4>1. CASE Left(step)
        <5>1. /\ step.step = "verify" => attributes.verified' = {step.stack}
              /\ step.step = "load" => context.session' = {"session"}
          BY <1>1, <2>2, <4>1 DEF Left
        <5>2. step.step = "scope" => {step.target} \in {context.scope', context.session'}
          BY <2>2, <2>4, <4>1 DEF Left
        <5>3. QED
          BY <5>1, <5>2 DEF Left
      <4>2. CASE step = Head(todo)
        BY <2>2, <2>3, <4>2 DEF Left
      <4>3. QED
        BY <3>1, <4>1, <4>2
    <3>2. Underway(q)'
      BY <1>1, <2>1, <2>2, <3>1, OnwardKeepsUnderway
    <3>3. QED
      BY <1>1, <2>3, <3>2 DEF Validated
  <2>6. outcome' = "serving"
    BY <1>1, <2>1 DEF Onward, Step
  <2>7. QED
    BY <1>1, <2>2, <2>5, <2>6, StepKeeps
<1>5. QED
  BY <1>3, <1>4

LEMMA ScopeKeeps == HttpInv /\ WithScope => HttpInv'
<1> SUFFICES ASSUME HttpInv, WithScope PROVE HttpInv'
  OBVIOUS
<1>1. Step("scope") /\ UNCHANGED <<app, routes, route, input, attributes>>
  BY DEF WithScope, Rest
<1>2. PICK r : r \in route
  BY <1>1 DEF HttpInv, Routed, Step
<1> DEFINE target == Head(todo).target
<1>3. CASE Throw("500") /\ UNCHANGED context
  BY <1>1, <1>3, ThrowKeeps
<1>4. ASSUME Onward,
             \/ ResolveScopeId(context) = {} /\ context' = [context EXCEPT !.scope = {target}]
             \/ ResolveScopeId(context) = {target} /\ UNCHANGED context
      PROVE  HttpInv'
  <2>1. /\ context.session' = context.session /\ Shapes'
        /\ {target} \in {context.scope', context.session'}
        /\ context.session # {} \/ context.scope # {} => UNCHANGED context
    <3>1. CASE ResolveScopeId(context) = {} /\ context' = [context EXCEPT !.scope = {target}]
      <4>1. context.session = {} /\ context.scope = {}
        BY <3>1 DEF ResolveScopeId
      <4>2. context.session' = context.session /\ context.scope' = {target} /\ Shapes'
        BY <1>1, <3>1 DEF HttpInv, Shapes
      <4>3. QED
        BY <4>1, <4>2
    <3>2. CASE ResolveScopeId(context) = {target} /\ UNCHANGED context
      BY <1>1, <3>2 DEF HttpInv, Shapes, ResolveScopeId
    <3>3. QED
      BY <1>4, <3>1, <3>2
  <2>2. input = {} /\ Head(todo).step = "scope"
    BY <1>1, <1>2, StepFacts DEF GuardSteps
  <2>3. ASSUME NEW q \in route PROVE Underway(q)' /\ Validated(q)'
    <3>1. ASSUME NEW step, Left(step) \/ step = Head(todo) PROVE Left(step)'
      <4>1. CASE Left(step)
        <5>1. /\ step.step = "verify" => attributes.verified' = {step.stack}
              /\ step.step = "load" => context.session' = {"session"}
          BY <1>1, <2>1, <4>1 DEF Left
        <5>2. ASSUME step.step = "scope"
              PROVE  {step.target} \in {context.scope', context.session'}
          <6>1. {step.target} \in {context.scope, context.session}
            BY <4>1, <5>2 DEF Left
          <6>2. UNCHANGED context
            BY <2>1, <6>1
          <6>3. QED
            BY <6>1, <6>2
        <5>3. QED
          BY <5>1, <5>2 DEF Left
      <4>2. CASE step = Head(todo)
        BY <2>1, <2>2, <4>2 DEF Left
      <4>3. QED
        BY <3>1, <4>1, <4>2
    <3>2. Underway(q)'
      BY <1>1, <1>4, <2>1, <3>1, OnwardKeepsUnderway
    <3>3. QED
      BY <1>1, <2>2, <3>2 DEF Validated
  <2>4. outcome' = "serving"
    BY <1>1, <1>4 DEF Onward, Step
  <2>5. QED
    BY <1>1, <2>1, <2>3, <2>4, StepKeeps
<1>5. QED
  BY <1>3, <1>4 DEF WithScope

(* A guard that lets the next one run.                                     *)
LEMMA GuardKeeps ==
  ASSUME HttpInv, NEW name \in GuardSteps, Step(name), Onward,
         UNCHANGED <<app, routes, route, attributes, context>>,
         \A source \in input' : source \in input \/
            /\ name = "validate" /\ ~(Head(todo).described /\ SessionLacks(Head(todo)))
            /\ source = [key \in Head(todo).keys |-> Raw(Head(todo), key)]
  PROVE  HttpInv'
<1>1. Shapes'
  BY DEF HttpInv, Shapes
<1>2. ASSUME NEW q \in route PROVE Underway(q)' /\ Validated(q)'
  <2>1. /\ Chained(app.options, q) /\ Validated(q)
        /\ Head(todo).step = name /\ Head(todo) \in Range(Full(q))
        /\ StepsOf(Tail(todo)) \subseteq GuardSteps
    BY StepFacts
  <2>2. ASSUME NEW step, Left(step) \/ step = Head(todo) PROVE Left(step)'
    <3>1. CASE Left(step)
      BY <3>1 DEF Left
    <3>2. CASE step = Head(todo)
      BY <2>1, <3>2 DEF Left, GuardSteps
    <3>3. QED
      BY <2>2, <3>1, <3>2
  <2>3. Underway(q)'
    BY <2>2, OnwardKeepsUnderway
  <2>4. ASSUME NEW source \in input'
        PROVE  \E guard \in Range(q.guards) :
                 /\ guard.step = "validate" /\ ~(guard.described /\ SessionLacks(guard)')
                 /\ source = [key \in guard.keys |-> Raw(guard, key)']
    <3>1. \E guard \in Range(q.guards) :
             /\ guard.step = "validate" /\ ~(guard.described /\ SessionLacks(guard))
             /\ source = [key \in guard.keys |-> Raw(guard, key)]
      <4>1. CASE source \in input
        BY <2>1, <4>1 DEF Validated
      <4>2. CASE source \notin input
        <5>1. /\ name = "validate" /\ ~(Head(todo).described /\ SessionLacks(Head(todo)))
              /\ source = [key \in Head(todo).keys |-> Raw(Head(todo), key)]
          BY <4>2
        <5>2. Head(todo) \in Range(q.guards)
          BY <2>1, FullIsChained
        <5>3. QED
          BY <2>1, <5>1, <5>2
      <4>3. QED
        BY <4>1, <4>2
    <3>2. PICK guard \in Range(q.guards) :
             /\ guard.step = "validate" /\ ~(guard.described /\ SessionLacks(guard))
             /\ source = [key \in guard.keys |-> Raw(guard, key)]
      BY <3>1
    <3>3. [key \in guard.keys |-> Raw(guard, key)'] = [key \in guard.keys |-> Raw(guard, key)]
      BY Unchanging
    <3>4. QED
      BY <3>2, <3>3, Unchanging
  <2>5. Validated(q)'
    BY <2>1, <2>4 DEF Validated, Onward
  <2>6. QED
    BY <2>3, <2>5
<1>3. outcome' = "serving"
  BY DEF Onward, Step
<1>4. QED
  BY <1>1, <1>2, <1>3, StepKeeps

LEMMA AuthorizeKeeps == HttpInv /\ AuthorizeScope => HttpInv'
<1> SUFFICES ASSUME HttpInv, AuthorizeScope PROVE HttpInv'
  OBVIOUS
<1>1. /\ Step("authorize") /\ UNCHANGED <<app, routes, route, input, attributes, context>>
      /\ Onward \/ Throw("403")
  BY DEF AuthorizeScope, Rest
<1>2. CASE Onward
  BY <1>1, <1>2, GuardKeeps DEF GuardSteps
<1>3. CASE Throw("403")
  BY <1>1, <1>3, ThrowKeeps
<1>4. QED
  BY <1>1, <1>2, <1>3

LEMMA ValidateKeeps == HttpInv /\ ValidateRequest => HttpInv'
<1> SUFFICES ASSUME HttpInv, ValidateRequest PROVE HttpInv'
  OBVIOUS
<1> DEFINE guard == Head(todo)
<1>1. Step("validate") /\ UNCHANGED <<app, routes, route, attributes, context>>
  BY DEF ValidateRequest
<1>2. CASE (Throw("500") \/ Throw("400")) /\ UNCHANGED input
  BY <1>1, <1>2, ThrowKeeps
<1>3. ASSUME ~(guard.described /\ SessionLacks(guard)), Onward,
             input' = {[key \in guard.keys |-> Raw(guard, key)]}
      PROVE  HttpInv'
  BY <1>1, <1>3, GuardKeeps DEF GuardSteps
<1>4. QED
  BY <1>2, <1>3 DEF ValidateRequest

(* A step of nobody's, or the end of the handler's.                        *)
LEMMA OutcomeKeeps ==
  ASSUME HttpInv, UNCHANGED <<app, routes, route, todo, attributes, context, input>>,
         outcome' = outcome \/ (outcome \in {"serving", "handled"} /\ outcome' \in {"handled", "500"}),
         outcome' = "handled" => todo = <<>>
  PROVE  HttpInv'
<1>1. Shapes' /\ \A r \in route : Underway(r)' /\ Validated(r)'
  BY Standing
<1>2. Tabled'
  BY DEF HttpInv, Tabled
<1>3. Routed'
  <2>1. request' = request
    BY DEF request
  <2>2. \A r \in route :
          /\ route = {r} /\ outcome \notin {"starting", "refused", "listening"}
          /\ \E k \in Matches(routes, request.verb, request.path) :
               r = routes[k] /\ \A m \in Matches(routes, request.verb, request.path) : k <= m
    BY DEF HttpInv, Routed
  <2>3. \A r \in route :
          /\ route = {r} /\ outcome' \notin {"starting", "refused", "listening"}
          /\ \E k \in Matches(routes', request'.verb, request'.path) :
               r = routes'[k] /\ \A m \in Matches(routes', request'.verb, request'.path) : k <= m
    BY <2>1, <2>2
  <2>4. /\ route' = {} => attributes'.verified = {} /\ context' = NoContext /\ input' = {}
        /\ outcome' \in {"starting", "refused", "listening"} => route' = {}
        /\ outcome' \in {"serving", "handled"} => route' # {}
    BY DEF HttpInv, Routed, NoContext
  <2>5. QED
    BY <2>3, <2>4 DEF Routed, NoContext
<1>4. (outcome = "handled" => todo = <<>>)'
  OBVIOUS
<1>5. QED
  BY <1>1, <1>2, <1>3, <1>4 DEF HttpInv

LEMMA HandleKeeps == HttpInv /\ Handle => HttpInv'
BY OutcomeKeeps DEF Handle

(* Before a request has a route there is nothing but the table.            *)
LEMMA ServerKeeps ==
  HttpInv /\ (RefuseToStart \/ Bootstrap \/ NotFound) => HttpInv'
<1> SUFFICES ASSUME HttpInv, RefuseToStart \/ Bootstrap \/ NotFound PROVE HttpInv'
  OBVIOUS
<1>1. /\ UNCHANGED <<app, route, todo, attributes, context, input>>
      /\ outcome \in {"starting", "listening"} /\ outcome' \in {"refused", "listening", "404"}
      /\ outcome' # "refused" =>
           ~Refused(app.options)' /\ routes' = BuildRoutes(app.options)'
  BY DEF RefuseToStart, Bootstrap, NotFound, HttpInv, Tabled
<1>2. route = {} /\ attributes.verified = {} /\ context = NoContext /\ input = {}
  BY <1>1 DEF HttpInv, Routed
<1>3. Tabled'
  BY <1>1 DEF Tabled
<1>4. Routed'
  BY <1>1, <1>2 DEF Routed, NoContext
<1>5. Shapes'
  BY <1>1 DEF HttpInv, Shapes
<1>6. QED
  BY <1>1, <1>2, <1>3, <1>4, <1>5 DEF HttpInv

(* The first route that matches is the one the server gives the request to.*)
LEMMA ReceiveKeeps == HttpInv /\ Receive => HttpInv'
<1> SUFFICES ASSUME HttpInv, Receive PROVE HttpInv'
  OBVIOUS
<1>1. /\ UNCHANGED <<app, routes, attributes, context, input>>
      /\ outcome = "listening" /\ outcome' = "serving"
  BY DEF Receive
<1>2. PICK k \in Dispatch(routes, request.verb, request.path) :
         route' = {routes[k]} /\ todo' = routes[k].chain \o routes[k].guards
  BY DEF Receive
<1> DEFINE matching == Matches(routes, request.verb, request.path)
<1>a. PICK r : r = routes[k]
  OBVIOUS
<1>3. /\ route = {} /\ attributes.verified = {} /\ context = NoContext /\ input = {}
      /\ IsRouterOptions(app.options) /\ ~Refused(app.options) /\ routes = BuildRoutes(app.options)
  BY <1>1 DEF HttpInv, Routed, Tabled
<1>4. matching \in SUBSET DOMAIN routes /\ DOMAIN routes \subseteq Nat
  BY <1>3, Sorted DEF Matches
<1>5. k \in matching /\ \A m \in matching : k <= m
  <2>1. matching # {} /\ k = Min(matching)
    BY <1>2 DEF Dispatch
  <2> HIDE DEF matching
  <2>2. QED
    BY <1>4, <2>1, MinIsLeast
<1>6. Chained(app.options, r)
  <2>1. PICK p \in Declarations(app.options) : r = DeclaredRoutes(app.options)[p]
    BY <1>a, <1>3, <1>4, <1>5, Sorted
  <2>2. QED
    BY <1>3, <2>1, RoutesAreChained
<1>7. /\ Full(r) \in Seq(ChainStep) /\ InOrder(Full(r))
  BY <1>6, FullIsChained
<1> HIDE DEF matching
<1>8. todo' = Full(r) /\ route' = {r}
  BY <1>a, <1>2 DEF Full
<1>9. Routed'
  <2>1. request' = request
    BY <1>1 DEF request
  <2>2. /\ k \in Matches(routes', request'.verb, request'.path) /\ r = routes'[k]
        /\ \A m \in Matches(routes', request'.verb, request'.path) : k <= m
    BY <1>a, <1>1, <1>5, <2>1 DEF matching
  <2>3. QED
    BY <1>1, <1>8, <2>2 DEF Routed
<1>10. Shapes' /\ Tabled'
  BY <1>1, <1>3 DEF HttpInv, Shapes, Tabled
<1>11. Underway(r)' /\ Validated(r)'
  <2>1. /\ (attributes.verified)' = {} /\ context' = NoContext /\ (context.session)' = {}
        /\ input' = {}
    BY <1>1, <1>3 DEF NoContext
  <2>2. Underway(r)'
    BY <1>7, <1>8, <2>1 DEF Underway, NoContext
  <2>3. QED
    BY <2>1, <2>2 DEF Validated
<1>12. QED
  BY <1>1, <1>3, <1>8, <1>9, <1>10, <1>11 DEF HttpInv

-----------------------------------------------------------------------------
(* The invariant is inductive                                              *)

LEMMA InitHolds == Init => IInv
<1> SUFFICES ASSUME Init PROVE IInv
  OBVIOUS
<1>1. PICK c \in Cases :
        /\ EndpointInit({[options |-> c.options, list |-> c.list,
                          request |-> Over([malformed |-> Malformed(c.list)], c.request)]})
        /\ KeyedWriteInit({c.op})
  BY DEF Init
<1>2. IsRouterOptions(c.options) /\ c.op.where \in Seq(Filter)
  BY RequestsAssumption DEF IsKeyedCall
<1>3. /\ app.options = c.options
      /\ route = {} /\ input = {} /\ context = NoContext /\ outcome = "starting"
      /\ attributes = [stack |-> {}, keys |-> {}, verified |-> {}]
  BY <1>1 DEF EndpointInit
<1>4. Shapes /\ attributes.verified = {}
  BY <1>3 DEF Shapes, NoContext
<1>5. HttpInv
  BY <1>2, <1>3, <1>4 DEF HttpInv, Tabled, Routed
<1>6. Carried
  BY DEF Init, Carried
<1>7. WhereIsStrict
  BY <1>1, <1>2 DEF KeyedWriteInit, WhereIsStrict, WriteMethods
<1>8. Ordered
  BY <1>3 DEF Ordered
<1>9. QED
  BY <1>5, <1>6, <1>7, <1>8 DEF IInv

LEMMA HttpInvKept == HttpInv /\ [Next]_vars => HttpInv'
<1> SUFFICES ASSUME HttpInv, [Next]_vars PROVE HttpInv'
  OBVIOUS
<1>1. CASE EndpointNext
  BY <1>1, ServerKeeps, ReceiveKeeps, ContextKeeps, StampKeeps, VerifyKeeps, LoadKeeps, ScopeKeeps,
     AuthorizeKeeps, ValidateKeeps, HandleKeeps DEF EndpointNext
<1>2. CASE EmitFails
  <2>1. /\ UNCHANGED <<app, routes, route, todo, attributes, context, input>>
        /\ outcome = "handled" /\ outcome' = "500"
    BY <1>2 DEF EmitFails, Emitting
  <2>2. QED
    BY <2>1, OutcomeKeeps
<1>3. CASE UNCHANGED httpVars
  <2>1. UNCHANGED <<app, routes, route, todo, attributes, context, input>> /\ outcome' = outcome
    BY <1>3 DEF httpVars
  <2>2. outcome' = "handled" => todo = <<>>
    BY <2>1 DEF HttpInv
  <2>3. QED
    BY <2>1, <2>2, OutcomeKeeps
<1>4. QED
  BY <1>1, <1>2, <1>3 DEF Next, vars, StartList, ReadRows, ReadCount, AnswerPage, WriteNext, ReadKeyed,
                          Emit, HandleEvent

(* What has been made keeps its order when neither the rest of the chain   *)
(* nor the context changes.                                                *)
LEMMA OrderedStays ==
  ASSUME Ordered, UNCHANGED <<route, todo, context>>
  PROVE  Ordered'
<1>1. ASSUME NEW r \in route PROVE ScopesFirst(r)'
  BY DEF Ordered, ScopesFirst, Made, ScopeConflict
<1>2. QED
  BY <1>1 DEF Ordered

(* A step that lets the next one run is the last of those that have been   *)
(* made; it is a session that makes a conflict, and no scope is named in   *)
(* one.                                                                    *)
LEMMA OrderedOnward ==
  ASSUME HttpInv, Ordered, NEW name, Step(name), Onward, UNCHANGED route,
         context.session # {} \/ name = "load" => context.session' # {},
         ScopeConflict(context)' =>
           name # "scope" /\ (ScopeConflict(context) \/ (name = "load" /\ context.session = {}))
  PROVE  Ordered'
<1> SUFFICES ASSUME NEW r \in route PROVE ScopesFirst(r)'
  BY DEF Ordered
<1> DEFINE full == Full(r)
           n == Len(full) - Len(todo)
<1>1. /\ todo \in Seq(ChainStep) /\ todo # <<>> /\ Head(todo).step = name /\ todo' = Tail(todo)
  BY DEF HttpInv, Underway, Step, Onward
<1>2. /\ Len(todo) \in Nat /\ Len(todo) > 0 /\ DOMAIN todo = 1..Len(todo) /\ Head(todo) = todo[1]
      /\ Len(todo') = Len(todo) - 1 /\ DOMAIN todo' = 1..(Len(todo) - 1)
      /\ \A i \in 1..(Len(todo) - 1) : todo'[i] = todo[i + 1]
  BY <1>1, HeadTailProperties, LenProperties, EmptySeq
<1>3. Len(full) \in Nat
  BY ServedIsChained, FullIsChained, LenProperties
<1>4. ScopesFirst(r)
  BY DEF Ordered
<1>5. /\ n \in Nat /\ Made(r) = 1..n /\ \A i \in DOMAIN todo : todo[i] = full[n + i]
      /\ \A j \in 1..n : full[j].step = "load" => context.session # {}
      /\ ScopeConflict(context) =>
           \A i, j \in 1..n : full[i].step = "scope" /\ full[j].step = "load" => i < j
  BY <1>4 DEF ScopesFirst, Made
<1>6. Full(r)' = full
  BY DEF Full
<1>7. Len(full) - Len(todo') = n + 1
  BY <1>2, <1>3
<1> HIDE DEF n, full
<1>8. full[n + 1].step = name
  BY <1>1, <1>2, <1>5
<1>9. \A i \in DOMAIN todo' : todo'[i] = full[(n + 1) + i]
  <2> SUFFICES ASSUME NEW i \in 1..(Len(todo) - 1) PROVE todo[i + 1] = full[(n + 1) + i]
    BY <1>2
  <2>1. i + 1 \in DOMAIN todo /\ n + (i + 1) = (n + 1) + i
    BY <1>2, <1>5
  <2>2. QED
    BY <1>5, <2>1
<1>10. \A j \in 1..(n + 1) : j \in 1..n \/ j = n + 1
  BY <1>5
<1>11. ASSUME NEW j \in 1..(n + 1), full[j].step = "load" PROVE context.session' # {}
  BY <1>5, <1>8, <1>10, <1>11
<1>12. ASSUME ScopeConflict(context)',
              NEW i \in 1..(n + 1), NEW j \in 1..(n + 1), full[i].step = "scope", full[j].step = "load"
       PROVE  i < j
  <2>1. i \in 1..n
    BY <1>8, <1>10, <1>12
  <2>2. CASE j = n + 1
    BY <1>5, <2>1, <2>2
  <2>3. CASE j \in 1..n
    <3>1. context.session # {}
      BY <1>5, <1>12, <2>3
    <3>2. ScopeConflict(context)
      BY <1>12, <3>1
    <3>3. QED
      BY <1>5, <1>12, <2>1, <2>3, <3>2
  <2>4. QED
    BY <1>10, <2>2, <2>3
<1>13. Made(r)' = 1..(n + 1) /\ Len(full) - Len(todo') \in Nat
  BY <1>5, <1>6, <1>7 DEF Made
<1>14. QED
  BY <1>6, <1>7, <1>9, <1>11, <1>12, <1>13 DEF ScopesFirst

(* Every step keeps the order: a session may be loaded on top of a scope,  *)
(* but no scope is named on top of a session that is not its own.          *)
LEMMA OrderedKept == HttpInv /\ Ordered /\ [Next]_vars => Ordered'
<1> SUFFICES ASSUME HttpInv, Ordered, [Next]_vars PROVE Ordered'
  OBVIOUS
<1>1. CASE UNCHANGED <<route, todo, context>>
  BY <1>1, OrderedStays
<1>2. CASE Receive
  <2>1. PICK k \in Dispatch(routes, request.verb, request.path) :
           route' = {routes[k]} /\ todo' = routes[k].chain \o routes[k].guards
    BY <1>2 DEF Receive
  <2>2. context' = NoContext
    BY <1>2 DEF Receive, HttpInv, Routed
  <2>3. ASSUME NEW r \in route' PROVE ScopesFirst(r)'
    <3>1. HttpInv'
      BY <1>2, ReceiveKeeps
    <3>2. todo' = Full(r) /\ Full(r)' = Full(r)
      BY <2>1, <2>3 DEF Full
    <3>3. todo' \in Seq(ChainStep)
      BY <2>3, <3>1 DEF HttpInv, Underway
    <3>4. Len(todo') \in Nat /\ Len(todo') - Len(todo') = 0 /\ DOMAIN todo' = 1..Len(todo')
      BY <3>3, LenProperties
    <3>5. ~ScopeConflict(context)'
      BY <2>2 DEF ScopeConflict, NoContext
    <3>6. Len(Full(r)') - Len(todo') = 0 /\ Made(r)' = {}
      BY <3>2, <3>4 DEF Made
    <3>7. \A i \in DOMAIN todo' : todo'[i] = Full(r)'[0 + i]
      BY <3>2, <3>4
    <3>8. QED
      BY <3>5, <3>6, <3>7 DEF ScopesFirst
  <2>4. QED
    BY <2>3 DEF Ordered
<1>3. CASE EnterContext
  <2>1. PICK r : r \in route
    BY <1>3 DEF EnterContext, Step, HttpInv, Routed
  <2>2. Step("context") /\ Onward /\ UNCHANGED route
    BY <1>3 DEF EnterContext, Rest
  <2>3. "context" \in StepsOf(todo) /\ Underway(r)
    BY <2>1, <2>2, StepFacts DEF StepsOf
  <2>4. context = NoContext
    BY <2>3 DEF Underway
  <2>5. context.session = {} /\ ~ScopeConflict(context)'
    BY <1>3, <2>4 DEF EnterContext, ScopeConflict, NoContext
  <2>6. QED
    BY <2>2, <2>5, OrderedOnward
<1>4. CASE LoadSession
  <2>1. Step("load") /\ UNCHANGED route
    BY <1>4 DEF LoadSession, Rest
  <2>2. CASE Throw("401") /\ UNCHANGED context
    BY <2>1, <2>2, OrderedStays DEF Throw
  <2>3. CASE Onward /\ context' = [context EXCEPT !.session = {"session"}]
    <3>1. context.session' = {"session"} /\ context.scope' = context.scope
      BY <2>3 DEF HttpInv, Shapes
    <3>2. ScopeConflict(context)' => ScopeConflict(context) \/ context.session = {}
      BY <3>1 DEF ScopeConflict
    <3>3. QED
      BY <2>1, <2>3, <3>1, <3>2, OrderedOnward
  <2>4. QED
    BY <1>4, <2>2, <2>3 DEF LoadSession
<1>5. CASE WithScope
  <2>1. Step("scope") /\ UNCHANGED route
    BY <1>5 DEF WithScope, Rest
  <2>2. CASE Throw("500") /\ UNCHANGED context
    BY <2>1, <2>2, OrderedStays DEF Throw
  <2>3. CASE /\ Onward /\ ResolveScopeId(context) = {}
             /\ context' = [context EXCEPT !.scope = {Head(todo).target}]
    <3>1. context.session = {} /\ context.session' = {}
      BY <2>3 DEF ResolveScopeId, HttpInv, Shapes
    <3>2. ~ScopeConflict(context)'
      BY <3>1 DEF ScopeConflict
    <3>3. QED
      BY <2>1, <2>3, <3>1, <3>2, OrderedOnward
  <2>4. CASE Onward /\ ~ScopeConflict(context) /\ UNCHANGED context
    <3>1. ~ScopeConflict(context)'
      BY <2>4 DEF ScopeConflict
    <3>2. QED
      BY <2>1, <2>4, <3>1, OrderedOnward
  <2>5. QED
    BY <1>5, <2>2, <2>3, <2>4 DEF WithScope
<1>6. ASSUME NEW name \in {"stamp", "verify", "authorize", "validate"}, Step(name),
             UNCHANGED <<route, context>>, Onward \/ UNCHANGED todo
      PROVE  Ordered'
  <2>1. CASE UNCHANGED todo
    BY <1>6, <2>1, OrderedStays
  <2>2. CASE Onward
    <3>1. ScopeConflict(context)' = ScopeConflict(context)
      BY <1>6 DEF ScopeConflict
    <3>2. QED
      BY <1>6, <2>2, <3>1, OrderedOnward
  <2>3. QED
    BY <1>6, <2>1, <2>2
<1>7. CASE Stamp \/ VerifyCredential \/ AuthorizeScope \/ ValidateRequest
  <2>1. \E name \in {"stamp", "verify", "authorize", "validate"} :
           Step(name) /\ UNCHANGED <<route, context>> /\ (Onward \/ UNCHANGED todo)
    BY <1>7 DEF Stamp, VerifyCredential, AuthorizeScope, ValidateRequest, Rest, Throw
  <2>2. QED
    BY <1>6, <2>1
<1>8. CASE RefuseToStart \/ Bootstrap \/ NotFound \/ Handle \/ EmitFails \/ UNCHANGED httpVars
  <2>1. UNCHANGED <<route, todo, context>>
    BY <1>8 DEF RefuseToStart, Bootstrap, NotFound, Handle, EmitFails, httpVars
  <2>2. QED
    BY <2>1, OrderedStays
<1>9. QED
  BY <1>2, <1>3, <1>4, <1>5, <1>7, <1>8
  DEF Next, vars, EndpointNext, StartList, ReadRows, ReadCount, AnswerPage, WriteNext, ReadKeyed,
      Emit, HandleEvent

(* While there is an event the request is handled, and its context stays.  *)
LEMMA CarriedKept == HttpInv /\ Carried /\ [Next]_vars => Carried'
<1> SUFFICES ASSUME HttpInv, Carried, [Next]_vars PROVE Carried'
  OBVIOUS
<1>1. ASSUME UNCHANGED httpVars
      PROVE  /\ Metadata' = Metadata /\ outcome' = outcome
             /\ ScopeConflict(context)' = ScopeConflict(context)
  BY <1>1 DEF Metadata, httpVars, ResolveScopeId, ScopeConflict, request
<1>2. CASE UNCHANGED <<httpVars, eventVars>>
  <2>1. /\ emitted' = emitted /\ handledIn' = handledIn /\ Metadata' = Metadata /\ outcome' = outcome
        /\ ScopeConflict(context)' = ScopeConflict(context)
    BY <1>1, <1>2 DEF eventVars
  <2>2. QED
    BY <2>1 DEF Carried
<1>3. CASE (EndpointNext \/ EmitFails) /\ UNCHANGED eventVars
  <2>1. emitted = {}
    <3>1. CASE EndpointNext
      <4>1. outcome # "handled"
        BY <3>1 DEF EndpointNext, RefuseToStart, Bootstrap, Receive, NotFound, EnterContext, Stamp,
                    VerifyCredential, LoadSession, WithScope, AuthorizeScope, ValidateRequest, Handle,
                    Step
      <4>2. QED
        BY <4>1 DEF Carried
    <3>2. CASE EmitFails
      BY <3>2 DEF EmitFails, Emitting
    <3>3. QED
      BY <1>3, <3>1, <3>2
  <2>2. handledIn = {}
    BY <2>1 DEF Carried
  <2>3. QED
    BY <1>3, <2>1, <2>2 DEF Carried, eventVars
<1>4. CASE Emit
  <2>1. emitted = {} /\ outcome = "handled" /\ UNCHANGED httpVars /\ handledIn' = handledIn
    BY <1>4 DEF Emit, Emitting
  <2>2. handledIn = {}
    BY <2>1 DEF Carried
  <2>3. /\ Metadata' = Metadata /\ outcome' = "handled"
        /\ ScopeConflict(context)' = ScopeConflict(context)
    BY <1>1, <2>1
  <2>4. \/ /\ ~ScopeConflict(context) /\ ~MetadataInvalid(Metadata)
           /\ emitted' = {[metadata |-> {Metadata}]}
        \/ emitted' = {[metadata |-> {}]}
    BY <1>4 DEF Emit
  <2>5. \A event \in emitted' :
           /\ emitted' = {event}
           /\ event.metadata # {} =>
                event.metadata = {Metadata} /\ ~MetadataInvalid(Metadata) /\ ~ScopeConflict(context)
    BY <2>4
  <2>6. QED
    BY <2>1, <2>2, <2>3, <2>5 DEF Carried
<1>5. CASE HandleEvent
  <2>1. UNCHANGED httpVars /\ emitted' = emitted
        /\ \E event \in emitted : handledIn' = {BuildExecutionContext(event)}
    BY <1>5 DEF HandleEvent
  <2>2. /\ Metadata' = Metadata /\ outcome' = outcome
        /\ ScopeConflict(context)' = ScopeConflict(context)
    BY <1>1, <2>1
  <2>3. QED
    BY <2>1, <2>2 DEF Carried
<1>6. QED
  BY <1>2, <1>3, <1>4, <1>5 DEF Next, vars, StartList, ReadRows, ReadCount, AnswerPage, WriteNext,
                               ReadKeyed, EmitFails

(* What a write does before it runs decides whether it may run.            *)
LEMMA WhereKept == WhereIsStrict /\ [Next]_vars => WhereIsStrict'
<1> SUFFICES ASSUME WhereIsStrict, [Next]_vars PROVE WhereIsStrict'
  OBVIOUS
<1>1. CASE UNCHANGED <<op, write>>
  BY <1>1 DEF WhereIsStrict, WhereRefused
<1>2. CASE KeyedWriteNext
  <2>1. op' = op
    BY <1>2 DEF KeyedWriteNext, Refuse, Issue, RunOnPool, RunInTransaction, StatementFails,
                AnswerLost, CommitWrite, CommitWriteFails
  <2>2. WhereRefused' = WhereRefused
    BY <2>1 DEF WhereRefused
  <2>3. CASE Refuse
    BY <2>1, <2>2, <2>3 DEF Refuse, WhereIsStrict
  <2>4. CASE Issue
    <3>1. op.method \in {"updateBy", "deleteBy"} => ~WhereRefused
      BY <2>4 DEF Issue, DaoThrows
    <3>2. QED
      BY <2>1, <2>2, <3>1 DEF WhereIsStrict
  <2>5. CASE write \notin {"idle", "refused"}
    BY <2>1, <2>2, <2>5 DEF WhereIsStrict
  <2>6. QED
    BY <1>2, <2>3, <2>4, <2>5 DEF KeyedWriteNext, RunOnPool, RunInTransaction, StatementFails,
                                  AnswerLost, CommitWrite, CommitWriteFails
<1>3. CASE KeyedReadNext
  BY <1>1, <1>3 DEF KeyedReadNext, RefuseRead, IssueRead, ReadNext, ReadFails, AnswerRead,
                    OtherEnds, writeVars
<1>4. QED
  BY <1>1, <1>2, <1>3 DEF Next, vars, writeVars, StartList, ReadRows, ReadCount, AnswerPage, WriteNext,
                          ReadKeyed, Emit, EmitFails, HandleEvent

(* HttpInv, Ordered, Carried and WhereIsStrict hold in every state that a  *)
(* service can be in, whatever its options, the request and its handler    *)
(* are.                                                                    *)
THEOREM Invariance == Spec => []IInv
<1>1. IInv /\ [Next]_vars => IInv'
  BY HttpInvKept, OrderedKept, CarriedKept, WhereKept DEF IInv
<1>2. QED
  BY InitHolds, <1>1, PTL DEF Spec

-----------------------------------------------------------------------------
(* Theorems about a request                                                *)

(* No route that matches a request is, segment by segment, more specific   *)
(* than the one that serves it, whatever routes the controllers declare:   *)
(* the sums of Router's sort never turn such a pair around.                *)
THEOREM ServesMostSpecific == Spec => []ServedByMostSpecific
<1>1. IInv => ServedByMostSpecific
  <2> SUFFICES ASSUME IInv, NEW r \in route, NEW m \in Matches(routes, request.verb, request.path)
               PROVE  ~MoreSpecific(routes[m].path, r.path)
    BY DEF ServedByMostSpecific
  <2>1. PICK k \in Matches(routes, request.verb, request.path) :
           r = routes[k] /\ \A n \in Matches(routes, request.verb, request.path) : k <= n
    BY DEF IInv, HttpInv, Routed
  <2>2. IsRouterOptions(app.options) /\ routes = BuildRoutes(app.options)
    BY DEF IInv, HttpInv, Routed, Tabled
  <2>3. k \in DOMAIN routes /\ m \in DOMAIN routes /\ DOMAIN routes \subseteq Nat /\ k <= m
    BY <2>1, <2>2, Sorted DEF Matches
  <2>4. CASE k < m
    BY <2>1, <2>2, <2>3, <2>4, Sorted
  <2>5. CASE k = m
    <3>1. routes[m].path = r.path
      BY <2>1, <2>5
    <3>2. ~MoreSpecific(r.path, r.path)
      <4>1. PICK p \in Declarations(app.options) : r = DeclaredRoutes(app.options)[p]
        BY ServedIsChained DEF IInv
      <4>2. PICK reg \in Registration, def \in RouteDefinition : r = NormalizedRoute(app.options, reg, def)
        BY <2>2, <4>1, RouteOfPlace
      <4>3. r.path \in Path
        BY <4>2, PathIsFull DEF NormalizedRoute
      <4>4. ComputeSpecificity(r.path) \in Nat
        BY <4>3, FiniteScores
      <4>5. QED
        BY <4>3, <4>4, MoreSpecificScores
    <3>3. QED
      BY <3>1, <3>2
  <2>6. QED
    BY <2>3, <2>4, <2>5
<1>2. QED
  BY Invariance, <1>1, PTL

(* The nearest declaration of a stack, of all that may choose a route's,   *)
(* is the one that the constructor took.                                   *)
LEMMA NearestStack ==
  ASSUME HttpInv, NEW r \in route
  PROVE  /\ r.authStack = IF r.def.public THEN {} ELSE FirstSet(StackDeclarations(r))
         /\ DOMAIN StackDeclarations(r) \subseteq Nat
<1>1. PICK p \in Declarations(app.options) : r = DeclaredRoutes(app.options)[p]
  BY ServedIsChained
<1>2. IsRouterOptions(app.options)
  BY DEF HttpInv
<1>3. PICK reg \in Registration, def \in RouteDefinition : r = NormalizedRoute(app.options, reg, def)
  BY <1>1, <1>2, RouteOfPlace
<1>4. r.reg = reg /\ r.def = def /\ r.authStack = ResolvedStack(app.options, reg, def)
  BY <1>3 DEF NormalizedRoute
<1> DEFINE f == [c \in DOMAIN reg.classes |-> reg.classes[c].authStack]
           a == def.authStack
           b == reg.module.authStack
           d == app.options.defaultAuthStack
           one == <<a>>
           two == <<b, d>>
           s == one \o f \o two
<1>5. StackDeclarations(r) = s
  BY <1>4 DEF StackDeclarations
<1>6. /\ a \in MaybeStack /\ b \in MaybeStack /\ d \in MaybeStack
      /\ reg.classes \in Seq(Class)
  BY <1>2, PartsOfRegistration DEF RouteDefinition, IsRouterOptions
<1>7. f \in Seq(MaybeStack)
  <2>1. /\ DOMAIN reg.classes = 1..Len(reg.classes) /\ Len(reg.classes) \in Nat
        /\ \A c \in DOMAIN reg.classes : reg.classes[c].authStack \in MaybeStack
    BY <1>6, Elements, PartsOfClass
  <2>2. QED
    BY <2>1
<1>8. /\ one \in Seq(MaybeStack) /\ two \in Seq(MaybeStack)
      /\ Len(one) = 1 /\ one[1] = a /\ Len(two) = 2 /\ two[1] = b /\ two[2] = d
  BY <1>6
<1>9. FirstSet(<<a, FirstSet(f), b, d>>) = FirstSet(s) /\ DOMAIN s \subseteq Nat
  <2> HIDE DEF f, a, b, d, one, two
  <2> DEFINE n == Len(f)
  <2>1. n \in Nat
    BY <1>7, Elements
  <2> DEFINE front == one \o f
  <2>2. /\ front \in Seq(MaybeStack) /\ Len(front) = n + 1
        /\ \A i \in 1..(n + 1) : front[i] = IF i <= 1 THEN one[i] ELSE f[i - 1]
    <3>1. /\ front \in Seq(MaybeStack) /\ Len(front) = Len(one) + Len(f)
          /\ \A i \in 1..(Len(one) + Len(f)) : front[i] = IF i <= Len(one) THEN one[i] ELSE f[i - Len(one)]
      BY <1>7, <1>8, ConcatProperties
    <3>2. QED
      BY <1>8, <2>1, <3>1
  <2> HIDE DEF front
  <2>3. /\ s \in Seq(MaybeStack) /\ Len(s) = n + 3
        /\ \A i \in 1..(n + 3) : s[i] = IF i <= n + 1 THEN front[i] ELSE two[i - (n + 1)]
    <3>1. /\ s \in Seq(MaybeStack) /\ Len(s) = Len(front) + Len(two)
          /\ \A i \in 1..(Len(front) + Len(two)) :
               s[i] = IF i <= Len(front) THEN front[i] ELSE two[i - Len(front)]
      BY <1>8, <2>2, ConcatProperties DEF front
    <3> HIDE DEF s
    <3>2. QED
      BY <1>8, <2>1, <2>2, <3>1
  <2> HIDE DEF s
  <2>4. Len(s) = Len(f) + 3 /\ DOMAIN s = 1..(Len(f) + 3) /\ DOMAIN s \subseteq Nat
    BY <2>3, LenProperties, Elements
  <2> HIDE DEF n
  <2>5. s[1] = a /\ \A i \in 1..n : s[i + 1] = f[i]
    <3>1. /\ 1 \in 1..(n + 1) /\ 1 \in 1..(n + 3) /\ 1 <= n + 1
          /\ \A i \in 1..n :
               /\ i + 1 \in 1..(n + 1) /\ i + 1 \in 1..(n + 3)
               /\ i + 1 <= n + 1 /\ ~(i + 1 <= 1) /\ (i + 1) - 1 = i
      BY <2>1
    <3>2. s[1] = front[1] /\ front[1] = one[1]
      BY <2>2, <2>3, <3>1
    <3>3. ASSUME NEW i \in 1..n PROVE s[i + 1] = f[i]
      <4>1. s[i + 1] = front[i + 1] /\ front[i + 1] = f[(i + 1) - 1]
        BY <2>2, <2>3, <3>1
      <4>2. QED
        BY <3>1, <4>1
    <3>4. QED
      BY <1>8, <3>2, <3>3
  <2>6. s[n + 2] = b /\ s[n + 3] = d
    <3>1. n + 2 \in 1..(n + 3) /\ n + 3 \in 1..(n + 3) /\ ~(n + 2 <= n + 1) /\ ~(n + 3 <= n + 1)
          /\ (n + 2) - (n + 1) = 1 /\ (n + 3) - (n + 1) = 2
      BY <2>1
    <3>2. s[n + 2] = two[(n + 2) - (n + 1)] /\ s[n + 3] = two[(n + 3) - (n + 1)]
      BY <2>3, <3>1
    <3>3. QED
      BY <1>8, <3>1, <3>2
  <2>7. FirstSet(<<a, FirstSet(f), b, d>>) = FirstSet(s)
    <3>1. \A i \in 1..Len(f) : s[i + 1] = f[i]
      BY <2>5 DEF n
    <3>2. s[Len(f) + 2] = b /\ s[Len(f) + 3] = d
      BY <2>6 DEF n
    <3>3. QED
      BY <1>7, <2>4, <2>5, <3>1, <3>2, FirstSetNested
  <2>8. QED
    BY <2>4, <2>7
<1>10. f = [c \in DOMAIN reg.classes |-> reg.classes[c]["authStack"]]
  OBVIOUS
<1>11. ReadInherited(reg.classes, "authStack") = FirstSet(f)
  BY <1>10 DEF ReadInherited
<1> HIDE DEF f, s
<1>12. QED
  BY <1>4, <1>5, <1>9, <1>11 DEF ResolvedStack

(* A handler of a route that is not public runs only for a request that    *)
(* the nearest declared stack verified, with a session if and only if that *)
(* stack loads one, however the declarations are spread over hierarchies,  *)
(* modules and options; a public one runs without either.                  *)
THEOREM NearestStackGuards == Spec => []GuardedByNearestStack
<1>1. IInv => GuardedByNearestStack
  <2> SUFFICES ASSUME IInv, NEW r \in route, outcome = "handled"
               PROVE  LET declared == StackDeclarations(r)
                          set == {i \in DOMAIN declared : declared[i] # {}}
                      IN IF r.def.public \/ set = {}
                         THEN attributes.verified = {} /\ context.session = {}
                         ELSE /\ attributes.verified = declared[Min(set)]
                              /\ \A s \in attributes.verified :
                                   (context.session # {}) = Stacks(app.options)[s].loads
    BY DEF GuardedByNearestStack
  <2> DEFINE declared == StackDeclarations(r)
             set == {i \in DOMAIN declared : declared[i] # {}}
  <2>1. HttpInv /\ todo = <<>> /\ IsRouterOptions(app.options) /\ Underway(r)
    BY DEF IInv, HttpInv
  <2>2. Chained(app.options, r)
    BY <2>1, ServedIsChained
  <2>3. Range(todo) = {}
    BY <2>1 DEF Range
  <2>4. \A step \in Range(Full(r)) : Left(step)
    BY <2>1, <2>3 DEF Underway
  <2>5. \A kind \in StackSteps : kind \in StepsOf(Full(r)) =>
          \E step \in Range(r.chain) : step.step = kind /\ r.authStack = {step.stack}
    <3> SUFFICES ASSUME NEW kind \in StackSteps, kind \in StepsOf(Full(r))
                 PROVE  \E step \in Range(r.chain) : step.step = kind /\ r.authStack = {step.stack}
      OBVIOUS
    <3>1. PICK step \in Range(Full(r)) : step.step = kind
      BY DEF StepsOf
    <3>2. step.step \notin GuardSteps
      BY <3>1 DEF StackSteps, GuardSteps
    <3>3. step \in Range(r.chain)
      BY <2>2, <3>2, FullIsChained
    <3>4. r.authStack = {step.stack}
      BY <2>2, <3>1, <3>3 DEF Chained
    <3>5. QED
      BY <3>1, <3>3, <3>4
  <2>6. r.authStack = IF r.def.public \/ set = {} THEN {} ELSE declared[Min(set)]
    <3>1. FirstSet(declared) = IF set = {} THEN {} ELSE declared[Min(set)]
      BY DEF FirstSet
    <3>2. r.authStack = IF r.def.public THEN {} ELSE FirstSet(declared)
      BY <2>1, NearestStack
    <3> HIDE DEF declared, set
    <3>3. QED
      BY <3>1, <3>2
  <2>7. CASE r.authStack = {}
    <3>1. "verify" \notin StepsOf(Full(r)) /\ "load" \notin StepsOf(Full(r))
      BY <2>5, <2>7 DEF StackSteps
    <3>2. attributes.verified = {} /\ context.session = {}
      BY <2>1, <3>1 DEF Underway
    <3>3. r.def.public \/ set = {}
      <4>1. ASSUME set # {} PROVE declared[Min(set)] # {}
        <5>1. DOMAIN declared \subseteq Nat
          BY <2>1, NearestStack
        <5>2. Min(set) \in set
          BY <4>1, <5>1, MinIsLeast
        <5>3. QED
          BY <5>2
      <4>2. QED
        BY <2>6, <2>7, <4>1
    <3>4. QED
      BY <3>2, <3>3
  <2>8. CASE r.authStack # {}
    <3>1. ~(r.def.public \/ set = {}) /\ r.authStack = declared[Min(set)]
      BY <2>6, <2>8
    <3>2. PICK name \in r.authStack : TRUE
      BY <2>8
    <3>3. /\ r.authStack = {name} /\ name \in DOMAIN Stacks(app.options)
          /\ "verify" \in StepsOf(r.chain)
          /\ "load" \in StepsOf(r.chain) <=> Stacks(app.options)[name].loads
      BY <2>2, <3>2 DEF Chained
    <3>4. attributes.verified = {name}
      <4>1. PICK step \in Range(r.chain) : step.step = "verify"
        BY <3>3 DEF StepsOf
      <4>2. r.authStack = {step.stack} /\ step \in Range(Full(r))
        BY <2>2, <4>1, FullIsChained DEF Chained, StackSteps
      <4>3. attributes.verified = {step.stack}
        BY <2>4, <4>1, <4>2 DEF Left
      <4>4. QED
        BY <3>3, <4>2, <4>3
    <3>5. context.session # {} <=> Stacks(app.options)[name].loads
      <4>1. ASSUME context.session # {} PROVE Stacks(app.options)[name].loads
        <5>1. "load" \in StepsOf(Full(r))
          BY <2>1, <4>1 DEF Underway
        <5>2. \E step \in Range(r.chain) : step.step = "load"
          BY <2>5, <5>1 DEF StackSteps
        <5>3. "load" \in StepsOf(r.chain)
          BY <5>2 DEF StepsOf
        <5>4. QED
          BY <3>3, <5>3
      <4>2. ASSUME Stacks(app.options)[name].loads PROVE context.session # {}
        <5>1. PICK step \in Range(r.chain) : step.step = "load"
          BY <3>3, <4>2 DEF StepsOf
        <5>2. step \in Range(Full(r))
          BY <2>2, FullIsChained
        <5>3. context.session = {"session"}
          BY <2>4, <5>1, <5>2 DEF Left
        <5>4. QED
          BY <5>3
      <4>3. QED
        BY <4>1, <4>2
    <3>6. (context.session # {}) = Stacks(app.options)[name].loads
      BY <2>1, <3>3, <3>5, StackOfOptions
    <3>7. attributes.verified = declared[Min(set)]
      BY <3>1, <3>3, <3>4
    <3>8. QED
      BY <3>1, <3>4, <3>6, <3>7
  <2>9. QED
    BY <2>7, <2>8
<1>2. QED
  BY Invariance, <1>1, PTL

(* What the session has, the client does not choose: a key of the stack    *)
(* that verified the request has its value from the session or none, and a *)
(* base key of a described schema from a loaded session, whatever body,    *)
(* query and headers say and whatever steps the chain has.                 *)
THEOREM SessionIsNotTheClients == Spec => []SessionWins
<1>1. IInv => SessionWins
  <2> SUFFICES ASSUME IInv, NEW r \in route, NEW source \in input, NEW key \in DOMAIN source
               PROVE  /\ key \in attributes.keys => source[key] \in {"session", "absent"}
                      /\ /\ key \in BaseSessionKeys /\ context.session # {}
                         /\ \A guard \in Validations(r) : guard.described
                         => source[key] = "session"
    BY DEF SessionWins
  <2>1. PICK guard \in Range(r.guards) :
           /\ guard.step = "validate" /\ ~(guard.described /\ SessionLacks(guard))
           /\ source = [k \in guard.keys |-> Raw(guard, k)]
    BY DEF IInv, HttpInv, Validated
  <2>2. key \in guard.keys /\ source[key] = Raw(guard, key)
    BY <2>1
  <2>3. guard \in Validations(r)
    BY <2>1 DEF Validations
  <2>4. ASSUME key \in attributes.keys PROVE source[key] \in {"session", "absent"}
    <3>1. CASE Described(guard, key)
      <4>1. guard.described
        BY <3>1 DEF Described
      <4>2. context.session # {}
        BY <2>1, <2>4, <3>1, <4>1 DEF SessionLacks
      <4>3. QED
        BY <2>2, <2>4, <3>1, <4>2 DEF Raw
    <3>2. CASE ~Described(guard, key)
      BY <2>2, <2>4, <3>2 DEF Raw, FromHeader, FromSources
    <3>3. QED
      BY <3>1, <3>2
  <2>5. ASSUME key \in BaseSessionKeys, context.session # {}, guard.described
        PROVE  source[key] = "session"
    BY <2>2, <2>5 DEF Raw, Described
  <2>6. QED
    BY <2>3, <2>4, <2>5
<1>2. QED
  BY Invariance, <1>1, PTL

(* The scopes that the withScopes of its chain named and its session's are *)
(* those of the context a handler runs in, two only when each withScope    *)
(* came before the session was loaded. An event that carries the context   *)
(* has its one scope, with a session if and only if the handler had one    *)
(* and with all of its attributes: for every chain, and every session.     *)
THEOREM RunsInOneScope == Spec => []OneScope
<1>1. IInv => OneScope
  <2> SUFFICES ASSUME IInv, NEW r \in route, outcome = "handled"
               PROVE  /\ \A i \in DOMAIN r.chain : r.chain[i].step = "scope" =>
                           /\ {r.chain[i].target} \in {context.scope, context.session}
                           /\ ScopeConflict(context) =>
                                \A j \in DOMAIN r.chain : r.chain[j].step = "load" => i < j
                      /\ \A event \in emitted, c \in handledIn : event.metadata # {} =>
                           /\ ~ScopeConflict(context)
                           /\ ResolveScopeId(c) = ResolveScopeId(context)
                           /\ c.session = context.session
                           /\ c.session # {} => c.attributes = request.sessionExtras
    BY DEF OneScope
  <2>1. HttpInv /\ todo = <<>> /\ Underway(r) /\ ScopesFirst(r) /\ Carried
    BY DEF IInv, HttpInv, Ordered
  <2>2. Range(todo) = {} /\ Len(todo) = 0
    BY <2>1 DEF Range
  <2>3. Chained(app.options, r)
    BY <2>1, ServedIsChained
  <2>4. \A i \in DOMAIN r.chain :
          i \in Made(r) /\ Full(r)[i] = r.chain[i] /\ r.chain[i] \in Range(Full(r))
    <3>1. r.chain \in Seq(ChainStep) /\ r.guards \in Seq(ChainStep)
      BY <2>3 DEF Chained
    <3>2. /\ Len(r.chain) \in Nat /\ Len(r.guards) \in Nat /\ DOMAIN r.chain = 1..Len(r.chain)
          /\ Len(Full(r)) = Len(r.chain) + Len(r.guards)
          /\ \A i \in 1..(Len(r.chain) + Len(r.guards)) :
               Full(r)[i] = IF i <= Len(r.chain) THEN r.chain[i] ELSE r.guards[i - Len(r.chain)]
      BY <3>1, ConcatProperties, LenProperties DEF Full
    <3>3. Made(r) = 1..(Len(r.chain) + Len(r.guards))
      BY <2>2, <3>2 DEF Made
    <3>4. ASSUME NEW i \in DOMAIN r.chain
          PROVE  i \in 1..(Len(r.chain) + Len(r.guards)) /\ i <= Len(r.chain)
      <4> DEFINE n == Len(r.chain)
                 g == Len(r.guards)
      <4>1. n \in Nat /\ g \in Nat /\ i \in 1..n
        BY <3>2, <3>4
      <4> HIDE DEF n, g
      <4>2. i \in 1..(n + g) /\ i <= n
        BY <4>1
      <4>3. QED
        BY <4>2 DEF n, g
    <3>5. ASSUME NEW i \in DOMAIN r.chain
          PROVE  r.chain[i] \in Range(r.chain)
      BY <3>5, Zenon DEF Range
    <3>6. Range(r.chain) \subseteq Range(Full(r))
      BY <2>3, FullIsChained
    <3>7. QED
      BY <3>2, <3>3, <3>4, <3>5, <3>6
  <2>5. ASSUME NEW i \in DOMAIN r.chain, r.chain[i].step = "scope"
        PROVE  /\ {r.chain[i].target} \in {context.scope, context.session}
               /\ ScopeConflict(context) =>
                    \A j \in DOMAIN r.chain : r.chain[j].step = "load" => i < j
    <3>1. Left(r.chain[i])
      BY <2>1, <2>2, <2>4 DEF Underway
    <3>2. {r.chain[i].target} \in {context.scope, context.session}
      BY <2>5, <3>1 DEF Left
    <3>3. ASSUME ScopeConflict(context), NEW j \in DOMAIN r.chain, r.chain[j].step = "load"
          PROVE  i < j
      BY <2>1, <2>4, <2>5, <3>3 DEF ScopesFirst
    <3>4. QED
      BY <3>2, <3>3
  <2>6. ~ScopeConflict(context) /\ context.session # {} =>
          context.scope = {} /\ ResolveScopeId(context) = context.session
    BY DEF ScopeConflict, ResolveScopeId
  <2>7. ASSUME NEW event \in emitted, NEW c \in handledIn, event.metadata # {}
        PROVE  /\ ~ScopeConflict(context)
               /\ ResolveScopeId(c) = ResolveScopeId(context)
               /\ c.session = context.session
               /\ c.session # {} => c.attributes = request.sessionExtras
    <3>1. /\ emitted = {event} /\ event.metadata = {Metadata} /\ ~MetadataInvalid(Metadata)
          /\ ~ScopeConflict(context) /\ \E e \in emitted : c = BuildExecutionContext(e)
      BY <2>1, <2>7 DEF Carried
    <3>2. c = CreateFromEventMetadata(Metadata)
      BY <3>1 DEF BuildExecutionContext
    <3>3. CASE context.session # {}
      <4>1. /\ Metadata.scopeId = context.session /\ Metadata.userId = {"user"}
            /\ Metadata.attributes = request.sessionExtras
        BY <2>6, <3>1, <3>3 DEF Metadata
      <4>2. HasSession(Metadata)
        BY <3>3, <4>1 DEF HasSession
      <4>3. /\ c.session = context.session /\ c.scope = {}
            /\ c.attributes = request.sessionExtras \ {"scopeId", "userId"}
        BY <3>2, <4>1, <4>2 DEF CreateFromEventMetadata
      <4>4. c.attributes = request.sessionExtras
        BY <3>1, <4>1, <4>3 DEF MetadataInvalid, ReservedAttributeKeys
      <4>5. QED
        BY <2>6, <3>1, <3>3, <4>3, <4>4 DEF ResolveScopeId
    <3>4. CASE context.session = {}
      <4>1. Metadata.scopeId = ResolveScopeId(context) /\ Metadata.userId = {}
        BY <3>4 DEF Metadata
      <4>2. ~HasSession(Metadata)
        BY <4>1 DEF HasSession
      <4>3. c.session = {} /\ c.scope = ResolveScopeId(context)
        BY <3>2, <4>1, <4>2 DEF CreateFromEventMetadata
      <4>4. QED
        BY <3>1, <3>4, <4>3 DEF ResolveScopeId
    <3>5. QED
      BY <3>3, <3>4
  <2>8. QED
    BY <2>5, <2>7
<1>2. QED
  BY Invariance, <1>1, PTL

(* A predicate that the DAO lets pass is not met by every row: one filter  *)
(* of it leaves some value out.                                            *)
LEMMA SomeValueIsLeftOut ==
  ASSUME NEW f \in Filter, ~UnknownOperator(f), ~NoValue(f), ~MatchesEveryRow(f)
  PROVE  \E cell \in NULL..9 : ~Means(f, cell, TRUE)
<1> DEFINE x == f.value.items
<1>1. /\ f.suffix \in Operators \cup {"bare"} /\ x \in SUBSET (0..9)
      /\ f.value = [many |-> f.value.many, items |-> x] /\ f.value.many \in BOOLEAN
  BY DEF Filter, Value, UnknownOperator, NULL, No
<1>2. 0 \in NULL..9 /\ 1 \in NULL..9 /\ \A v \in x : v \in NULL..9
  BY <1>1 DEF NULL
<1>3. CASE f.suffix = "bare"
  <2>1. CASE f.value = Scalar(NULL)
    <3>1. ~Means(f, 1, TRUE)
      BY <1>3, <2>1 DEF Means, NULL
    <3>2. QED
      BY <1>2, <3>1
  <2>2. CASE f.value # Scalar(NULL)
    <3>1. ~Means(f, 0, TRUE)
      BY <1>3, <2>2 DEF Means, NULL
    <3>2. QED
      BY <1>2, <3>1
  <2>3. QED
    BY <2>1, <2>2
<1>4. CASE f.suffix \in {"in", "eq", "ne", "contains", "gt", "gte", "lt", "lte"}
  <2>1. ~Means(f, 0, TRUE)
    BY <1>4 DEF Means, NULL
  <2>2. QED
    BY <1>2, <2>1
<1>5. CASE f.suffix \in {"notIn", "notInStrict"}
  <2>1. x # {}
    <3>1. f.value # List({})
      BY <1>5 DEF MatchesEveryRow, ParsedOperator
    <3>2. QED
      BY <1>1, <3>1 DEF List, NoValue
  <2>2. CASE \E v \in x : v # 0
    <3>1. PICK v \in x : v # 0
      BY <2>2
    <3>2. ~Means(f, v, TRUE)
      BY <1>5, <3>1 DEF Means, NULL
    <3>3. QED
      BY <1>2, <3>2
  <2>3. CASE ~(\E v \in x : v # 0)
    <3>1. x = {0}
      BY <2>1, <2>3
    <3>2. 0 \in x \cap {0, 1}
      BY <3>1
    <3>3. ~Means(f, 1, TRUE)
      <4>1. CASE f.suffix = "notIn"
        BY <3>2, <4>1 DEF Means, NULL
      <4>2. CASE f.suffix = "notInStrict"
        BY <3>2, <4>2 DEF Means, NULL
      <4>3. QED
        BY <1>5, <4>1, <4>2
    <3>4. QED
      BY <1>2, <3>3
  <2>4. QED
    BY <2>2, <2>3
<1>6. CASE f.suffix \in {"isNull", "isNotNull"}
  <2>1. ~Means(f, 0, TRUE) \/ ~Means(f, 1, TRUE)
    <3>1. CASE f.suffix = "isNull"
      <4>1. \A cell : Means(f, cell, TRUE) = ((cell = 0) = (f.value # Scalar(No)))
        BY <3>1 DEF Means, NULL
      <4>2. (0 = 0) = TRUE /\ (1 = 0) = FALSE
        OBVIOUS
      <4>3. QED
        BY <4>1, <4>2
    <3>2. CASE f.suffix = "isNotNull"
      <4>1. \A cell : Means(f, cell, TRUE) = ((cell # 0) = (f.value # Scalar(No)))
        BY <3>2 DEF Means, NULL
      <4>2. (0 # 0) = FALSE /\ (1 # 0) = TRUE
        OBVIOUS
      <4>3. QED
        BY <4>1, <4>2
    <3>3. QED
      BY <1>6, <3>1, <3>2
  <2>2. QED
    BY <1>2, <2>1
<1>7. QED
  BY <1>1, <1>3, <1>4, <1>5, <1>6 DEF Operators

(* A predicate write that runs without its caller's word that it means all *)
(* rows leaves some possible row out, whatever its where is.               *)
THEOREM NoWriteOfAllByAccident == Spec => []NoAccidentalAllRows
<1>1. IInv => NoAccidentalAllRows
  <2> DEFINE fields == {f.field : f \in Range(op.where)}
  <2> SUFFICES ASSUME IInv, op.method \in {"updateBy", "deleteBy"}, write \notin {"idle", "refused"},
                      ~op.allRows
               PROVE  \E row \in [fields -> NULL..9] : ~Meant(op.where, row, TRUE)
    BY DEF NoAccidentalAllRows
  <2>1. /\ op.where \in Seq(Filter) /\ op.where # <<>>
        /\ \A f \in Range(op.where) : ~UnknownOperator(f) /\ ~NoValue(f) /\ ~MatchesEveryRow(f)
    BY DEF IInv, WhereIsStrict, WhereRefused
  <2>2. PICK f \in Range(op.where) : f \in Filter
    <3>1. Len(op.where) \in Nat \ {0} /\ DOMAIN op.where = 1..Len(op.where)
      BY <2>1, EmptySeq, LenProperties
    <3>2. 1 \in DOMAIN op.where
      BY <3>1
    <3>3. op.where[1] \in Range(op.where) /\ op.where[1] \in Filter
      BY <2>1, <3>2, Elements DEF Range
    <3>4. QED
      BY <3>3
  <2>3. PICK cell \in NULL..9 : ~Means(f, cell, TRUE)
    BY <2>1, <2>2, SomeValueIsLeftOut
  <2> DEFINE row == [field \in fields |-> cell]
  <2>4. row \in [fields -> NULL..9] /\ f.field \in fields /\ row[f.field] = cell
    BY <2>2, <2>3
  <2> HIDE DEF row, fields
  <2>5. ~Meant(op.where, row, TRUE)
    BY <2>2, <2>3, <2>4 DEF Meant
  <2>6. QED
    BY <2>4, <2>5
<1>2. QED
  BY Invariance, <1>1, PTL

-----------------------------------------------------------------------------
(* Parts of sequences                                                      *)

(* The elements of a sequence at some of its places keep their order.      *)
KeptAt(s, P, at) ==
  /\ at \in [1..Cardinality(P) -> P]
  /\ \A k \in 1..Cardinality(P) :
       Kept(s, P)[k] = s[at[k]] /\ Cardinality({j \in P : j <= at[k]}) = k
  /\ \A k, l \in 1..Cardinality(P) : k < l => at[k] < at[l]
  /\ \A i \in P : \E k \in 1..Cardinality(P) : at[k] = i

(* Kept gives the elements at the places, as many as there are places.     *)
LEMMA KeptInOrder ==
  ASSUME NEW T, NEW s \in Seq(T), NEW P \in SUBSET (DOMAIN s)
  PROVE  /\ IsFiniteSet(P) /\ Cardinality(P) \in Nat
         /\ Kept(s, P) \in Seq(T) /\ Len(Kept(s, P)) = Cardinality(P)
         /\ \E at : KeptAt(s, P, at)
<1> DEFINE R == {u \in P \X P : u[1] < u[2]}
           n == Cardinality(P)
           upTo(i) == {j \in P : j <= i}
<1>1. /\ IsFiniteSet(P) /\ n \in Nat /\ P \subseteq Nat /\ DOMAIN s = 1..Len(s)
      /\ \A i \in P : s[i] \in T
  BY Elements, FS_Subset, FS_CardinalityType
<1>2. \A p, q \in P : <<p, q>> \in R <=> p < q
  OBVIOUS
<1> HIDE DEF R, n
<1>3. StrictTotalOrder(P, R)
  <2>1. P \subseteq Nat
    BY <1>1
  <2>2. \A p \in P : <<p, p>> \notin R
    BY <1>2, <2>1
  <2>3. \A p, q, r \in P : <<p, q>> \in R /\ <<q, r>> \in R => <<p, r>> \in R
    BY <1>2, <2>1
  <2>4. \A p, q \in P : p = q \/ <<p, q>> \in R \/ <<q, p>> \in R
    <3>1. \A p, q \in P : p = q \/ p < q \/ q < p
      BY <2>1
    <3>2. QED
      BY <1>2, <3>1
  <2>5. QED
    BY <2>2, <2>3, <2>4 DEF StrictTotalOrder
<1>a. PICK place : place = RanksIn(P, R)
  OBVIOUS
<1>4. /\ \A p \in P : place[p] \in 1..n
      /\ \A p, q \in P : place[p] < place[q] <=> p < q
      /\ \A k \in 1..n : \E p \in P : place[p] = k
  <2>1. /\ \A p \in P : place[p] \in 1..n
        /\ \A p, q \in P : place[p] < place[q] <=> <<p, q>> \in R
        /\ \A k \in 1..n : \E p \in P : place[p] = k
    <3>1. n = Cardinality(P)
      BY DEF n
    <3>2. /\ \A p \in P : place[p] \in 1..Cardinality(P)
          /\ \A p, q \in P : place[p] < place[q] <=> <<p, q>> \in R
          /\ \A k \in 1..Cardinality(P) : \E p \in P : place[p] = k
      BY <1>1, <1>3, <1>a, PlacesInOrder
    <3>3. QED
      BY <3>1, <3>2
  <2>2. QED
    BY <1>2, <2>1
<1>5. \A p \in P : Cardinality(upTo(p)) = place[p]
  <2> SUFFICES ASSUME NEW p \in P PROVE Cardinality(upTo(p)) = place[p]
    OBVIOUS
  <2> DEFINE before == {q \in P : <<q, p>> \in R}
  <2>1. upTo(p) = before \cup {p} /\ p \notin before
    BY <1>1, <1>2
  <2>2. IsFiniteSet(before) /\ Cardinality(before) \in Nat
    BY <1>1, FS_Subset, FS_CardinalityType
  <2>3. Cardinality(upTo(p)) = Cardinality(before) + 1
    BY <2>1, <2>2, FS_AddElement
  <2>4. place[p] = 1 + Cardinality(before)
    BY <1>a DEF RanksIn
  <2>5. QED
    BY <2>2, <2>3, <2>4
<1>6. \A p, q \in P : place[p] = place[q] => p = q
  <2> SUFFICES ASSUME NEW p \in P, NEW q \in P, place[p] = place[q] PROVE p = q
    OBVIOUS
  <2>1. place[p] \in Nat /\ p \in Nat /\ q \in Nat
    BY <1>1, <1>4
  <2>2. ~(p < q) /\ ~(q < p)
    BY <1>4, <2>1
  <2>3. QED
    BY <2>1, <2>2
<1> DEFINE at == [k \in 1..n |-> CHOOSE i \in P : Cardinality({j \in P : j <= i}) = k]
<1>7. \A k \in 1..n : at[k] \in P /\ Cardinality({j \in P : j <= at[k]}) = k
  <2> SUFFICES ASSUME NEW k \in 1..n
               PROVE  at[k] \in P /\ Cardinality({j \in P : j <= at[k]}) = k
    OBVIOUS
  <2>1. PICK p \in P : place[p] = k
    BY <1>4
  <2>2. Cardinality({j \in P : j <= p}) = k
    BY <1>5, <2>1
  <2>3. QED
    BY <2>2
<1>8. \A k \in 1..n : place[at[k]] = k
  BY <1>5, <1>7
<1>9. Kept(s, P) = [k \in 1..n |-> s[at[k]]]
  BY DEF Kept, n
<1> HIDE DEF at
<1>10. at \in [1..n -> P]
  BY <1>7 DEF at
<1>11. ASSUME NEW k \in 1..n, NEW l \in 1..n, k < l PROVE at[k] < at[l]
  <2>1. at[k] \in P /\ at[l] \in P /\ place[at[k]] = k /\ place[at[l]] = l
    BY <1>7, <1>8
  <2>2. QED
    BY <1>4, <1>11, <2>1
<1>12. ASSUME NEW i \in P PROVE \E k \in 1..n : at[k] = i
  <2>1. place[i] \in 1..n
    BY <1>4
  <2>2. at[place[i]] \in P /\ place[at[place[i]]] = place[i]
    BY <1>7, <1>8, <2>1
  <2>3. QED
    BY <1>6, <2>1, <2>2
<1>13. Kept(s, P) \in Seq(T) /\ Len(Kept(s, P)) = n
  <2>1. Kept(s, P) \in [1..n -> T]
    BY <1>1, <1>7, <1>9
  <2>2. QED
    BY <1>1, <2>1, <1>9
<1>14. \A k \in 1..n : Kept(s, P)[k] = s[at[k]] /\ Cardinality({j \in P : j <= at[k]}) = k
  BY <1>7, <1>9
<1>15. KeptAt(s, P, at)
  BY <1>10, <1>11, <1>12, <1>14 DEF KeptAt, n
<1>16. QED
  BY <1>1, <1>13, <1>15 DEF n

(* They are the elements at those places and no others.                    *)
LEMMA RangeOfKept ==
  ASSUME NEW T, NEW s \in Seq(T), NEW P \in SUBSET (DOMAIN s)
  PROVE  Range(Kept(s, P)) = {s[i] : i \in P}
<1>1. PICK at : KeptAt(s, P, at)
  BY KeptInOrder
<1>2. DOMAIN Kept(s, P) = 1..Cardinality(P)
  BY DEF Kept
<1>3. \A k \in DOMAIN Kept(s, P) : Kept(s, P)[k] = s[at[k]] /\ at[k] \in P
  BY <1>1, <1>2 DEF KeptAt
<1>4. \A i \in P : \E k \in DOMAIN Kept(s, P) : at[k] = i
  BY <1>1, <1>2 DEF KeptAt
<1>5. Range(Kept(s, P)) = {Kept(s, P)[k] : k \in DOMAIN Kept(s, P)}
  BY DEF Range
<1>6. QED
  BY <1>3, <1>4, <1>5

-----------------------------------------------------------------------------
(* Filters                                                                 *)

(* A filter whose operator is known and whose value is one it takes.       *)
Sensible(f, arrayAsIn) ==
  /\ f.suffix \in Operators \cup {"bare"}
  /\ f.value \in [many : BOOLEAN, items : SUBSET Nat]
  /\ ~f.value.many => \E v \in Nat : f.value = Scalar(v)
  /\ f.value.many => \/ f.suffix \in {"in", "notIn", "notInStrict", "isNull", "isNotNull"}
                     \/ f.suffix = "bare" /\ arrayAsIn

(* The clause of such a filter is true of the cells that it means.         *)
LEMMA ClauseMeans ==
  ASSUME NEW f, NEW arrayAsIn \in BOOLEAN, Sensible(f, arrayAsIn), NEW cell \in Nat
  PROVE  IsTrue(SqlOperator(f, arrayAsIn), cell,
                IF Binds(f, arrayAsIn) THEN f.value ELSE Scalar(NULL))
           <=> Means(f, cell, arrayAsIn)
<1> DEFINE how == SqlOperator(f, arrayAsIn)
<1>1. CASE f.value.many
  <2>1. f.value # Scalar(NULL) /\ f.value # Scalar(No) /\ f.value.items \in SUBSET Nat
    BY <1>1 DEF Sensible, Scalar
  <2>2. CASE f.suffix \in {"isNull", "isNotNull"}
    BY <2>1, <2>2 DEF SqlOperator, FilterOperator, ParsedOperator, Binds, IsTrue, Means
  <2>3. CASE f.suffix = "bare" /\ arrayAsIn
    <3>1. how = "in" /\ Binds(f, arrayAsIn)
      BY <1>1, <2>1, <2>3 DEF SqlOperator, FilterOperator, Binds
    <3>2. QED
      BY <2>1, <2>3, <3>1 DEF IsTrue, Means
  <2>4. CASE f.suffix \in {"in", "notIn", "notInStrict"}
    <3>1. how = f.suffix /\ Binds(f, arrayAsIn)
      BY <2>4 DEF SqlOperator, FilterOperator, ParsedOperator, Binds
    <3>2. f.value.items \cap {NULL, cell} = {} <=> NULL \notin f.value.items /\ cell \notin f.value.items
      OBVIOUS
    <3>3. QED
      BY <2>1, <2>4, <3>1, <3>2 DEF IsTrue, DiffersFromAll, Means
  <2>5. QED
    BY <1>1, <2>2, <2>3, <2>4 DEF Sensible
<1>2. CASE ~f.value.many
  <2>1. PICK v \in Nat : f.value = Scalar(v)
    BY <1>2 DEF Sensible
  <2>2. /\ f.value.many = FALSE /\ f.value.items = {v}
        /\ (CHOOSE x \in f.value.items : TRUE) = v
        /\ f.value = Scalar(NULL) <=> v = NULL
        /\ f.value = Scalar(No) <=> v = No
    <3>1. \A x : Scalar(x).many = FALSE /\ Scalar(x).items = {x}
      BY DEF Scalar
    <3>2. \A x : {v} = {x} => v = x
      OBVIOUS
    <3>3. f.value = Scalar(NULL) => v = NULL
      <4>1. f.value = Scalar(NULL) => {v} = {NULL}
        BY <2>1, <3>1
      <4>2. QED
        BY <3>2, <4>1
    <3>4. f.value = Scalar(No) => v = No
      <4>1. f.value = Scalar(No) => {v} = {No}
        BY <2>1, <3>1
      <4>2. QED
        BY <3>2, <4>1
    <3>5. (CHOOSE x \in {v} : TRUE) = v
      OBVIOUS
    <3>6. f.value.many = FALSE /\ f.value.items = {v}
      BY <2>1, <3>1
    <3>7. QED
      BY <2>1, <3>3, <3>4, <3>5, <3>6
  <2>3. CASE f.suffix \in {"isNull", "isNotNull"}
    BY <2>2, <2>3 DEF SqlOperator, FilterOperator, ParsedOperator, Binds, IsTrue, Means
  <2>4. CASE f.suffix = "bare" /\ v = NULL
    <3>1. f.value # Scalar(No) /\ f.value = Scalar(NULL)
      BY <2>2, <2>4 DEF NULL, No
    <3>2. how = "isNull" /\ ~Binds(f, arrayAsIn)
      BY <2>2, <2>4, <3>1 DEF SqlOperator, FilterOperator, Binds
    <3>3. QED
      BY <2>4, <3>1, <3>2 DEF IsTrue, Means
  <2>5. CASE f.suffix = "bare" /\ v # NULL
    <3>1. how = "eq" /\ Binds(f, arrayAsIn)
      BY <2>2, <2>5 DEF SqlOperator, FilterOperator, ParsedOperator, Binds
    <3>2. QED
      BY <2>2, <2>5, <3>1 DEF IsTrue, Means
  <2>6. CASE f.suffix \in {"eq", "ne", "contains", "gt", "gte", "lt", "lte", "in", "notIn", "notInStrict"}
    <3>1. how = f.suffix /\ Binds(f, arrayAsIn)
      BY <2>6 DEF SqlOperator, FilterOperator, ParsedOperator, Binds
    <3>2. CASE f.suffix \in {"eq", "ne", "contains"}
      <4>1. CASE f.suffix = "eq"
        BY <2>2, <3>1, <4>1 DEF IsTrue, Means
      <4>2. CASE f.suffix = "ne"
        BY <2>2, <3>1, <4>2 DEF IsTrue, Means
      <4>3. CASE f.suffix = "contains"
        BY <2>2, <3>1, <4>3 DEF IsTrue, Means
      <4>4. QED
        BY <3>2, <4>1, <4>2, <4>3
    <3>3. CASE f.suffix \in {"gt", "gte", "lt", "lte"}
      <4>1. CASE f.suffix = "gt"
        BY <2>2, <3>1, <4>1 DEF IsTrue, Means
      <4>2. CASE f.suffix = "gte"
        BY <2>2, <3>1, <4>2 DEF IsTrue, Means
      <4>3. CASE f.suffix = "lt"
        BY <2>2, <3>1, <4>3 DEF IsTrue, Means
      <4>4. CASE f.suffix = "lte"
        BY <2>2, <3>1, <4>4 DEF IsTrue, Means
      <4>5. QED
        BY <3>3, <4>1, <4>2, <4>3, <4>4
    <3>4. CASE f.suffix \in {"in", "notIn", "notInStrict"}
      BY <2>2, <3>1, <3>4 DEF IsTrue, Means, DiffersFromAll
    <3>5. QED
      BY <2>6, <3>2, <3>3, <3>4
  <2>7. QED
    BY <2>3, <2>4, <2>5, <2>6 DEF Sensible, Operators
<1>3. QED
  BY <1>1, <1>2

(* The parameter of a clause is the value of its filter, where its number  *)
(* counts from the values before.                                          *)
LEMMA BoundInOrder ==
  ASSUME NEW T, NEW filters \in Seq(T), NEW arrayAsIn
  PROVE  /\ Bound(filters, arrayAsIn) \in Seq({f.value : f \in Range(filters)})
         /\ \A i \in DOMAIN filters : Binds(filters[i], arrayAsIn) =>
              LET at == Cardinality({j \in 1..i : Binds(filters[j], arrayAsIn)})
              IN  at \in 1..Len(Bound(filters, arrayAsIn))
                  /\ Bound(filters, arrayAsIn)[at] = filters[i].value
<1> DEFINE P == {i \in DOMAIN filters : Binds(filters[i], arrayAsIn)}
           n == Cardinality(P)
<1>1. P \in SUBSET (DOMAIN filters) /\ DOMAIN filters = 1..Len(filters) /\ Len(filters) \in Nat
  BY Elements
<1>2. n \in Nat /\ Kept(filters, P) \in Seq(T) /\ DOMAIN Kept(filters, P) = 1..n
  BY <1>1, KeptInOrder DEF Kept
<1>3. PICK at : KeptAt(filters, P, at)
  BY <1>1, KeptInOrder
<1>4. Bound(filters, arrayAsIn) = [k \in 1..n |-> Kept(filters, P)[k].value]
  BY <1>2 DEF Bound
<1>5. Bound(filters, arrayAsIn) = [k \in 1..n |-> filters[at[k]].value]
  BY <1>3, <1>4 DEF KeptAt
<1>6. \A k \in 1..n : at[k] \in P /\ filters[at[k]] \in Range(filters)
  BY <1>3 DEF KeptAt, Range
<1>7. Bound(filters, arrayAsIn) \in [1..n -> {f.value : f \in Range(filters)}]
  BY <1>5, <1>6
<1>8. Len(Bound(filters, arrayAsIn)) = n
  BY <1>2, <1>5
<1>9. ASSUME NEW i \in DOMAIN filters, Binds(filters[i], arrayAsIn)
      PROVE  LET c == Cardinality({j \in 1..i : Binds(filters[j], arrayAsIn)})
             IN  c \in 1..n /\ Bound(filters, arrayAsIn)[c] = filters[i].value
  <2>1. i \in P
    BY <1>9
  <2>2. PICK k \in 1..n : at[k] = i
    BY <1>3, <2>1 DEF KeptAt
  <2>3. Cardinality({j \in P : j <= i}) = k
    BY <1>3, <2>2 DEF KeptAt
  <2>4. {j \in P : j <= i} = {j \in 1..i : Binds(filters[j], arrayAsIn)}
    BY <1>1
  <2>5. QED
    BY <1>5, <2>2, <2>3, <2>4
<1> HIDE DEF n, P
<1>10. QED
  BY <1>2, <1>7, <1>8, <1>9, SMTT(30)

(* The WHERE of some filters selects a row if and only if the filters mean *)
(* it, whatever parameters are bound before and after theirs.              *)
LEMMA ClausesMean ==
  ASSUME NEW T, NEW filters \in Seq(T), NEW arrayAsIn \in BOOLEAN,
         NEW V, NEW before \in Seq(V), NEW after \in Seq(V),
         \A f \in Range(filters) : f.value \in V /\ Sensible(f, arrayAsIn),
         NEW row, \A f \in Range(filters) : row[f.field] \in Nat
  PROVE  Selects(Clauses(filters, Len(before), arrayAsIn),
                 (before \o Bound(filters, arrayAsIn)) \o after, row)
           <=> Meant(filters, row, arrayAsIn)
<1> DEFINE start == Len(before)
           bound == Bound(filters, arrayAsIn)
           values == (before \o bound) \o after
           clauses == Clauses(filters, start, arrayAsIn)
           count(i) == Cardinality({j \in 1..i : Binds(filters[j], arrayAsIn)})
<1>1. /\ bound \in Seq(V)
      /\ \A i \in DOMAIN filters : Binds(filters[i], arrayAsIn) =>
           count(i) \in 1..Len(bound) /\ bound[count(i)] = filters[i].value
  <2>1. /\ bound \in Seq({f.value : f \in Range(filters)})
        /\ \A i \in DOMAIN filters : Binds(filters[i], arrayAsIn) =>
             count(i) \in 1..Len(bound) /\ bound[count(i)] = filters[i].value
    BY BoundInOrder
  <2>2. {f.value : f \in Range(filters)} \subseteq V
    OBVIOUS
  <2>3. QED
    BY <2>1, <2>2, SeqMonotonic
<1>2. Len(before) \in Nat /\ Len(bound) \in Nat /\ Len(after) \in Nat
  BY <1>1, LenProperties
<1>3. \A k \in 1..Len(bound) : values[start + k] = bound[k]
  <2>1. /\ before \o bound \in Seq(V) /\ Len(before \o bound) = Len(before) + Len(bound)
        /\ \A i \in 1 .. Len(before) + Len(bound) : (before \o bound)[i] =
             IF i <= Len(before) THEN before[i] ELSE bound[i - Len(before)]
    BY <1>1, ConcatProperties
  <2>2. \A i \in 1 .. Len(before \o bound) + Len(after) : values[i] =
             IF i <= Len(before \o bound) THEN (before \o bound)[i] ELSE after[i - Len(before \o bound)]
    BY <2>1, ConcatProperties
  <2> SUFFICES ASSUME NEW k \in 1..Len(bound) PROVE values[start + k] = bound[k]
    OBVIOUS
  <2>3. /\ start + k \in 1..Len(before) + Len(bound) /\ ~(start + k <= Len(before))
        /\ (start + k) - Len(before) = k
    BY <1>2
  <2>4. start + k \in 1..Len(before \o bound) + Len(after) /\ start + k <= Len(before \o bound)
    BY <1>2, <2>1, <2>3
  <2> HIDE DEF values, bound
  <2>5. QED
    BY <2>1, <2>2, <2>3, <2>4
<1> HIDE DEF bound, values, count
<1>4. ASSUME NEW i \in DOMAIN filters
      PROVE  IsTrue(clauses[i].op, row[clauses[i].field],
                    IF clauses[i].at = 0 THEN Scalar(NULL) ELSE values[clauses[i].at])
               <=> Means(filters[i], row[filters[i].field], arrayAsIn)
  <2>1. /\ clauses[i].field = filters[i].field /\ clauses[i].op = SqlOperator(filters[i], arrayAsIn)
        /\ clauses[i].at = IF Binds(filters[i], arrayAsIn) THEN start + count(i) ELSE 0
    BY DEF Clauses, count
  <2>2. filters[i] \in Range(filters)
    BY DEF Range
  <2>3. (IF clauses[i].at = 0 THEN Scalar(NULL) ELSE values[clauses[i].at])
          = IF Binds(filters[i], arrayAsIn) THEN filters[i].value ELSE Scalar(NULL)
    <3>1. CASE Binds(filters[i], arrayAsIn)
      <4>1. count(i) \in 1..Len(bound) /\ clauses[i].at = start + count(i)
        BY <1>1, <2>1, <3>1
      <4>2. clauses[i].at # 0
        BY <1>2, <4>1
      <4>3. values[clauses[i].at] = filters[i].value
        BY <1>1, <1>3, <3>1, <4>1
      <4>4. QED
        BY <3>1, <4>2, <4>3
    <3>2. CASE ~Binds(filters[i], arrayAsIn)
      BY <2>1, <3>2
    <3>3. QED
      BY <3>1, <3>2
  <2>4. QED
    BY <2>1, <2>2, <2>3, ClauseMeans
<1>5. DOMAIN clauses = DOMAIN filters
  BY DEF Clauses
<1> HIDE DEF clauses
<1>6. Selects(clauses, values, row) <=>
        \A i \in DOMAIN filters :
          IsTrue(clauses[i].op, row[clauses[i].field],
                 IF clauses[i].at = 0 THEN Scalar(NULL) ELSE values[clauses[i].at])
  BY <1>5 DEF Selects, Range
<1>7. Meant(filters, row, arrayAsIn) <=>
        \A i \in DOMAIN filters : Means(filters[i], row[filters[i].field], arrayAsIn)
  BY DEF Meant, Range
<1>8. QED
  BY <1>4, <1>6, <1>7 DEF clauses, values, bound

-----------------------------------------------------------------------------
(* Statements of batches                                                   *)

(* The columns of a row are counted up, each of them.                      *)
LEMMA SetAsSequence ==
  ASSUME NEW S, IsFiniteSet(S)
  PROVE  /\ SetToSeq(S) \in Seq(S) /\ Len(SetToSeq(S)) = Cardinality(S)
         /\ Range(SetToSeq(S)) = S
<1> DEFINE n == Cardinality(S)
           s == SetToSeq(S)
<1>1. n \in Nat /\ ExistsBijection(1..n, S)
  BY FS_CardinalityType
<1>2. PICK f \in Bijection(1..n, S) : TRUE
  BY <1>1 DEF ExistsBijection
<1>3. f \in [1..n -> S] /\ IsInjective(f)
  BY <1>2 DEF Bijection, Injection
<1>4. s \in [1..n -> S] /\ IsInjective(s)
  BY <1>3 DEF SetToSeq
<1> HIDE DEF s
<1>5. IsFiniteSet(1..n) /\ Cardinality(1..n) = n
  BY <1>1, FS_Interval
<1>6. s \in Injection(1..n, S)
  BY <1>4 DEF Injection
<1> HIDE DEF n
<1>7. s \in Surjection(1..n, S)
  BY <1>5, <1>6, FS_Injection DEF n
<1>8. Range(s) = S
  BY <1>4, <1>7 DEF Surjection, Range
<1>9. s \in Seq(S) /\ Len(s) = n
  BY <1>1, <1>4
<1>10. QED
  BY <1>8, <1>9 DEF s, n

(* What a place divided by the length of a row is: the row it is in and    *)
(* the column.                                                             *)
LEMMA Division ==
  ASSUME NEW l \in Nat \ {0}, NEW a \in Nat
  PROVE  /\ a \div l \in Nat /\ a % l \in 0..(l - 1)
         /\ a = l * (a \div l) + (a % l)
         /\ \A n \in Nat : a < n * l => a \div l < n
<1>1. PICK d \in Int : d = a \div l
  OBVIOUS
<1>2. PICK e \in 0..(l - 1) : e = a % l
  OBVIOUS
<1>3. a = l * d + e
  BY <1>1, <1>2
<1>4. d >= 0
  <2>1. CASE d <= 0 - 1
    <3>1. l * d <= 0 - l
      BY <2>1
    <3>2. QED
      BY <1>3, <3>1
  <2>2. QED
    BY <2>1
<1>5. ASSUME NEW n \in Nat, a < n * l PROVE d < n
  <2>1. CASE d >= n
    <3>1. l * d >= n * l
      BY <2>1
    <3>2. QED
      BY <1>3, <1>5, <3>1
  <2>2. QED
    BY <2>1
<1>6. QED
  BY <1>1, <1>2, <1>3, <1>4, <1>5

(* The place of a column of a row tells both.                              *)
LEMMA QuotientAndRemainder ==
  ASSUME NEW l \in Nat \ {0}, NEW q \in Nat, NEW m \in 0..(l - 1)
  PROVE  (q * l + m) \div l = q /\ (q * l + m) % l = m
<1>1. PICK a \in Nat : a = q * l + m
  OBVIOUS
<1>2. PICK d \in Nat : d = a \div l
  BY Division
<1>3. PICK e \in 0..(l - 1) : e = a % l
  BY Division
<1>4. a = l * d + e
  BY <1>2, <1>3, Division
<1>5. l * (q - d) = e - m
  <2>1. l * (q - d) = q * l - l * d
    OBVIOUS
  <2>2. QED
    BY <1>1, <1>4, <2>1
<1>6. q - d = 0
  <2>1. CASE q - d >= 1
    <3>1. l * (q - d) >= l
      BY <2>1
    <3>2. QED
      BY <1>5, <3>1
  <2>2. CASE q - d <= 0 - 1
    <3>1. l * (q - d) <= 0 - l
      BY <2>2
    <3>2. QED
      BY <1>5, <3>1
  <2>3. QED
    BY <2>1, <2>2
<1>7. d = q
  BY <1>6
<1>8. e = m
  BY <1>1, <1>4, <1>7
<1>9. QED
  BY <1>1, <1>2, <1>3, <1>7, <1>8

(* The place of a cell among the values is that of no other one.           *)
LEMMA PlaceOfCell ==
  ASSUME NEW n \in Nat, NEW l \in Nat, NEW r \in 1..n, NEW c \in 1..l,
         NEW p, p = (r - 1) * l + c
  PROVE  p \in 1..(n * l) /\ 1 + ((p - 1) \div l) = r /\ 1 + ((p - 1) % l) = c
<1>1. PICK q \in Nat : q = r - 1
  OBVIOUS
<1>2. PICK m \in 0..(l - 1) : m = c - 1
  OBVIOUS
<1>3. q * l \in Nat /\ p - 1 = q * l + m
  BY <1>1, <1>2
<1>4. (q * l + m) \div l = q /\ (q * l + m) % l = m
  BY QuotientAndRemainder
<1>5. p <= n * l
  <2>1. PICK k \in Nat : n = q + 1 + k
    <3>1. n - (q + 1) \in Nat
      BY <1>1
    <3>2. QED
      BY <3>1
  <2>2. n * l = q * l + l + k * l /\ k * l \in Nat
    BY <2>1
  <2>3. QED
    BY <1>2, <1>3, <2>2
<1>6. QED
  BY <1>1, <1>2, <1>3, <1>4, <1>5

CellsInPlace(rows, columns) ==
  \A r \in DOMAIN rows, c \in DOMAIN columns :
    /\ Places(rows, columns)[r][c] \in 1..(Len(rows) * Len(columns))
    /\ RowValues(rows, columns)[Places(rows, columns)[r][c]] = Scalar(rows[r][columns[c]])

(* The parameters of a batch are the cells of its rows, row by row.        *)
LEMMA ValuesOfRows ==
  ASSUME NEW T, NEW rows \in Seq(T), NEW C, NEW columns \in Seq(C),
         NEW V, \A row \in Range(rows), c \in Range(columns) : Scalar(row[c]) \in V
  PROVE  /\ RowValues(rows, columns) \in Seq(V)
         /\ Len(RowValues(rows, columns)) = Len(rows) * Len(columns)
         /\ CellsInPlace(rows, columns)
<1> DEFINE n == Len(rows)
           l == Len(columns)
           total == n * l
           rowOf(p) == 1 + ((p - 1) \div l)
           columnOf(p) == 1 + ((p - 1) % l)
<1>1. n \in Nat /\ l \in Nat /\ DOMAIN rows = 1..n /\ DOMAIN columns = 1..l /\ total \in Nat
  BY LenProperties
<1>2. ASSUME NEW p \in 1..total PROVE rowOf(p) \in 1..n /\ columnOf(p) \in 1..l
  <2>1. l \in Nat \ {0}
    BY <1>1
  <2>2. PICK a \in Nat : a = p - 1
    BY <1>1
  <2>3. a < n * l
    BY <1>1, <2>2
  <2>4. a \div l \in Nat /\ a % l \in 0..(l - 1) /\ a \div l < n
    BY <1>1, <2>1, <2>3, Division
  <2>5. rowOf(p) = 1 + (a \div l) /\ columnOf(p) = 1 + (a % l)
    BY <2>2
  <2> HIDE DEF rowOf, columnOf
  <2>6. PICK d, e : d = a \div l /\ e = a % l
    OBVIOUS
  <2>7. QED
    BY <1>1, <2>4, <2>5, <2>6
<1>3. RowValues(rows, columns) = [p \in 1..total |-> Scalar(rows[rowOf(p)][columns[columnOf(p)]])]
  BY DEF RowValues
<1> HIDE DEF total, rowOf, columnOf
<1>4. \A p \in 1..total : Scalar(rows[rowOf(p)][columns[columnOf(p)]]) \in V
  BY <1>1, <1>2 DEF Range
<1>5. RowValues(rows, columns) \in [1..total -> V]
  BY <1>3, <1>4
<1>6. ASSUME NEW r \in DOMAIN rows, NEW c \in DOMAIN columns
      PROVE  /\ Places(rows, columns)[r][c] \in 1..total
             /\ RowValues(rows, columns)[Places(rows, columns)[r][c]] = Scalar(rows[r][columns[c]])
  <2>1. PICK p : p = Places(rows, columns)[r][c]
    OBVIOUS
  <2>2. p = (r - 1) * l + c
    BY <2>1 DEF Places
  <2>3. p \in 1..total /\ rowOf(p) = r /\ columnOf(p) = c
    <3>1. p \in 1..(n * l) /\ 1 + ((p - 1) \div l) = r /\ 1 + ((p - 1) % l) = c
      <4>1. n \in Nat /\ l \in Nat /\ r \in 1..n /\ c \in 1..l
        BY <1>1
      <4> HIDE DEF n, l
      <4>2. QED
        BY <2>2, <4>1, PlaceOfCell
    <3>2. QED
      BY <3>1 DEF total, rowOf, columnOf
  <2>4. QED
    BY <1>3, <2>1, <2>3
<1>7. RowValues(rows, columns) \in Seq(V) /\ Len(RowValues(rows, columns)) = total
  BY <1>1, <1>3, <1>5
<1>8. QED
  BY <1>6, <1>7 DEF total, CellsInPlace

(* What a statement of some rows says of them: the values of the columns,  *)
(* whatever other values the statement has.                                *)
IsAbout(st, rows, columns) ==
  /\ st.columns = columns /\ st.tuples = Places(rows, columns)
  /\ \A p \in 1..(Len(rows) * Len(columns)) : st.values[p] = RowValues(rows, columns)[p]

(* What PostgreSQL reads from the parameters are the rows that were        *)
(* written to them.                                                        *)
LEMMA TuplesOfRows ==
  ASSUME NEW T, NEW rows \in Seq(T), NEW C, NEW columns \in Seq(C), NEW st,
         IsAbout(st, rows, columns)
  PROVE  Tuples(st) = {[c \in Range(columns) |-> row[c]] : row \in Range(rows)}
<1> DEFINE places == Places(rows, columns)
           index(c) == CHOOSE i \in DOMAIN columns : columns[i] = c
           tuple(r) == [c \in Range(columns) |-> Cell(st, places[r][index(c)])]
<1>1. \A c \in Range(columns) : index(c) \in DOMAIN columns /\ columns[index(c)] = c
  BY DEF Range
<1>3. \A r \in DOMAIN rows, c \in DOMAIN columns :
         /\ places[r][c] \in 1..(Len(rows) * Len(columns))
         /\ RowValues(rows, columns)[places[r][c]] = Scalar(rows[r][columns[c]])
  <2> DEFINE V == {Scalar(row2[c2]) : row2 \in Range(rows), c2 \in Range(columns)}
  <2>1. \A row \in Range(rows), c \in Range(columns) : Scalar(row[c]) \in V
    OBVIOUS
  <2> HIDE DEF V
  <2>2. CellsInPlace(rows, columns)
    BY <2>1, ValuesOfRows
  <2>3. QED
    BY <2>2 DEF CellsInPlace
<1> HIDE DEF places, index
<1>4. \A x : (CHOOSE v \in Scalar(x).items : TRUE) = x
  BY DEF Scalar
<1>5. ASSUME NEW r \in DOMAIN rows, NEW c \in Range(columns)
      PROVE  Cell(st, places[r][index(c)]) = rows[r][c]
  <2>1. index(c) \in DOMAIN columns /\ columns[index(c)] = c
    BY <1>1
  <2>2. st.values[places[r][index(c)]] = Scalar(rows[r][columns[index(c)]])
    BY <1>3, <2>1 DEF IsAbout
  <2>3. QED
    BY <1>4, <2>1, <2>2 DEF Cell
<1>6. \A r \in DOMAIN rows : tuple(r) = [c \in Range(columns) |-> rows[r][c]]
  BY <1>5
<1>7. DOMAIN places = DOMAIN rows
  BY DEF places, Places
<1>8. Tuples(st) = {tuple(r) : r \in DOMAIN rows}
  <2>1. Tuples(st) = {[c \in Range(columns) |-> Cell(st, t[index(c)])] : t \in Range(places)}
    BY DEF Tuples, index, places, IsAbout
  <2>2. Range(places) = {places[r] : r \in DOMAIN rows}
    BY <1>7 DEF Range
  <2> DEFINE said(t) == [c \in Range(columns) |-> Cell(st, t[index(c)])]
  <2>3. {said(t) : t \in {places[r] : r \in DOMAIN rows}} = {said(places[r]) : r \in DOMAIN rows}
    <3> HIDE DEF said
    <3>1. QED
      OBVIOUS
  <2>4. QED
    BY <2>1, <2>2, <2>3
<1> HIDE DEF tuple
<1>9. Tuples(st) = {[c \in Range(columns) |-> rows[r][c]] : r \in DOMAIN rows}
  BY <1>6, <1>8
<1>10. Range(rows) = {rows[r] : r \in DOMAIN rows}
  BY DEF Range
<1>11. QED
  BY <1>9, <1>10

(* A part of a sequence has the elements at those places.                  *)
LEMMA RangeOfSubSeq ==
  ASSUME NEW T, NEW s \in Seq(T), NEW m \in Nat \ {0}, NEW n \in 0..Len(s)
  PROVE  /\ SubSeq(s, m, n) \in Seq(T)
         /\ Range(SubSeq(s, m, n)) = {s[i] : i \in m..n}
<1>1. DOMAIN s = 1..Len(s) /\ Len(s) \in Nat /\ \A i \in DOMAIN s : s[i] \in T
  BY Elements
<1>2. \A i \in m..n : s[i] \in T
  BY <1>1
<1>3. PICK u : u = SubSeq(s, m, n)
  OBVIOUS
<1>4. /\ u \in Seq(T) /\ Len(u) = IF m <= n THEN n - m + 1 ELSE 0
      /\ \A i \in 1..(n - m + 1) : u[i] = s[m + i - 1]
  BY <1>1, <1>2, <1>3, SubSeqProperties
<1>5. Range(u) = {u[i] : i \in 1..Len(u)}
  BY <1>4, RangeEquality
<1>6. 1..Len(u) = 1..(n - m + 1)
  BY <1>1, <1>4
<1>7. \A i \in m..n : i - m + 1 \in 1..(n - m + 1) /\ s[i] = u[i - m + 1]
  BY <1>1, <1>4
<1>8. \A i \in 1..(n - m + 1) : m + i - 1 \in m..n /\ u[i] = s[m + i - 1]
  BY <1>1, <1>4
<1>9. {u[i] : i \in 1..(n - m + 1)} = {s[i] : i \in m..n}
  BY <1>7, <1>8
<1>10. QED
  BY <1>3, <1>4, <1>5, <1>6, <1>9

(* The chunks of a batch are its rows, one after another: the statements   *)
(* up to the k-th have the first upTo[k] of them.                          *)
CutAt(sts, verb, rows, columns, upTo) ==
  /\ sts \in Seq(Range(sts)) /\ sts # <<>>
  /\ upTo[0] = 0 /\ upTo[Len(sts)] = Len(rows)
  /\ \A k \in 1..Len(sts) :
       /\ upTo[k - 1] \in Nat /\ upTo[k] \in upTo[k - 1]..Len(rows)
       /\ sts[k].verb = verb
       /\ Tuples(sts[k]) = {[c \in Range(columns) |-> rows[i][c]] : i \in (upTo[k - 1] + 1)..upTo[k]}

(* chunkRows cuts a batch into pieces that cover it from its first row to  *)
(* its last.                                                               *)
LEMMA Chunks ==
  ASSUME NEW T, NEW rows \in Seq(T), rows # <<>>, NEW perRow \in Nat \ {0}
  PROVE  \E size \in Nat \ {0} :
           LET n == (Len(rows) + size - 1) \div size
           IN /\ n \in Nat \ {0} /\ Len(rows) <= n * size
              /\ \A k \in 1..n : (k - 1) * size <= Len(rows)
              /\ ChunkRows(rows, perRow) =
                   [k \in 1..n |-> SubSeq(rows, ChunkStart(k, size), Min({k * size, Len(rows)}))]
<1> DEFINE size == Max({1, MaxParameters \div perRow})
           a == Len(rows) + size - 1
           n == a \div size
<1>1. Len(rows) \in Nat \ {0}
  BY EmptySeq
<1>2. size \in Nat \ {0}
  <2>1. PICK d \in Nat : d = MaxParameters \div perRow
    BY Division, KeyedWriteAssumption
  <2>2. \E m \in {1, d} : \A y \in {1, d} : m >= y
    <3>1. CASE d >= 1
      BY <3>1
    <3>2. CASE d < 1
      BY <2>1, <3>2
    <3>3. QED
      BY <2>1, <3>1, <3>2
  <2>3. Max({1, d}) \in {1, d} /\ Max({1, d}) >= 1
    BY <2>2 DEF Max
  <2>4. QED
    BY <2>1, <2>3
<1>3. ChunkRows(rows, perRow) =
        [k \in 1..n |-> SubSeq(rows, ChunkStart(k, size), Min({k * size, Len(rows)}))]
  BY DEF ChunkRows
<1> HIDE DEF size
<1>4. a \in Nat
  BY <1>1, <1>2
<1>5. PICK q \in Nat, e \in 0..(size - 1) : q = a \div size /\ a = size * q + e
  <2> HIDE DEF a
  <2>1. a \div size \in Nat /\ a % size \in 0..(size - 1) /\ a = size * (a \div size) + (a % size)
    BY <1>2, <1>4, Division
  <2>2. QED
    BY <2>1
<1>6. size * q >= Len(rows)
  BY <1>1, <1>2, <1>5
<1>7. q # 0
  BY <1>1, <1>2, <1>6
<1>8. ASSUME NEW k \in 1..q PROVE (k - 1) * size <= Len(rows)
  <2>1. (q - k) * size >= 0
    BY <1>2
  <2>2. (q - k) * size = q * size - k * size /\ (k - 1) * size = k * size - size
    BY <1>2
  <2>3. QED
    BY <1>1, <1>2, <1>5, <2>1, <2>2
<1>9. q * size >= Len(rows)
  BY <1>2, <1>6
<1>10. n = q
  BY <1>5
<1> HIDE DEF n
<1>11. /\ n \in Nat \ {0} /\ Len(rows) <= n * size
       /\ \A k \in 1..n : (k - 1) * size <= Len(rows)
  BY <1>7, <1>8, <1>9, <1>10
<1>12. QED
  BY <1>2, <1>3, <1>11 DEF n, a

(* Min of two numbers is the lesser.                                       *)
LEMMA LesserOfTwo ==
  ASSUME NEW a \in Nat, NEW b \in Nat
  PROVE  Min({a, b}) = IF a <= b THEN a ELSE b
<1>1. Min({a, b}) \in {a, b} /\ \A y \in {a, b} : Min({a, b}) <= y
  BY MinIsLeast
<1>2. QED
  BY <1>1

(* The statements of a batch are about consecutive pieces of it, and none  *)
(* is left out.                                                            *)
LEMMA BatchIsCut ==
  ASSUME NEW T, NEW rows \in Seq(T), rows # <<>>, NEW C, NEW columns \in Seq(C), columns # <<>>,
         NEW verb
  PROVE  \E upTo : CutAt(BatchStatements(verb, rows, columns), verb, rows, columns, upTo)
<1>1. Len(rows) \in Nat /\ DOMAIN rows = 1..Len(rows) /\ Len(columns) \in Nat \ {0}
  BY LenProperties, EmptySeq
<1>2. PICK size \in Nat \ {0} :
        LET n == (Len(rows) + size - 1) \div size
        IN /\ n \in Nat \ {0} /\ Len(rows) <= n * size
           /\ \A k \in 1..n : (k - 1) * size <= Len(rows)
           /\ ChunkRows(rows, Len(columns)) =
                [k \in 1..n |-> SubSeq(rows, ChunkStart(k, size), Min({k * size, Len(rows)}))]
  BY <1>1, Chunks
<1>3. PICK n : n = (Len(rows) + size - 1) \div size
  OBVIOUS
<1> DEFINE chunks == ChunkRows(rows, Len(columns))
           sts == BatchStatements(verb, rows, columns)
           upTo == [k \in 0..n |-> Min({k * size, Len(rows)})]
<1>4. /\ n \in Nat \ {0} /\ Len(rows) <= n * size
      /\ \A k \in 1..n : (k - 1) * size <= Len(rows)
      /\ chunks = [k \in 1..n |-> SubSeq(rows, ChunkStart(k, size), Min({k * size, Len(rows)}))]
  BY <1>2, <1>3
<1>5. \A k \in 0..n : upTo[k] = IF k * size <= Len(rows) THEN k * size ELSE Len(rows)
  BY <1>1, <1>4, LesserOfTwo
<1>6. ASSUME NEW k \in 1..n PROVE chunks[k] = SubSeq(rows, (k - 1) * size + 1, upTo[k])
  <2>1. k \in 0..n
    BY <1>4
  <2>2. upTo[k] = Min({k * size, Len(rows)})
    BY <2>1
  <2>3. chunks[k] = SubSeq(rows, ChunkStart(k, size), Min({k * size, Len(rows)}))
    BY <1>4
  <2> HIDE DEF chunks, upTo
  <2>4. QED
    BY <2>2, <2>3 DEF ChunkStart
<1> HIDE DEF upTo
<1>7. \A k \in 1..n : upTo[k - 1] = (k - 1) * size
  BY <1>4, <1>5
<1>8. upTo[0] = 0 /\ upTo[n] = Len(rows)
  <2>1. upTo[0] = 0
    BY <1>1, <1>4, <1>5
  <2>2. PICK m \in Nat : m = n * size
    BY <1>4
  <2>3. upTo[n] = IF m <= Len(rows) THEN m ELSE Len(rows)
    BY <1>4, <1>5, <2>2
  <2>4. Len(rows) <= m
    BY <1>4, <2>2
  <2>a. (IF m <= Len(rows) THEN m ELSE Len(rows)) = Len(rows)
    <3>1. Len(rows) \in Nat
      BY <1>1
    <3>2. \A x \in Nat : x <= m => (IF m <= x THEN m ELSE x) = x
      OBVIOUS
    <3>3. QED
      BY <2>4, <3>1, <3>2
  <2>5. upTo[n] = Len(rows)
    BY <2>3, <2>a, Zenon
  <2>6. QED
    BY <2>1, <2>5
<1>9. ASSUME NEW k \in 1..n PROVE upTo[k - 1] \in Nat /\ upTo[k] \in upTo[k - 1]..Len(rows)
  <2>1. (k - 1) * size \in Nat /\ (k - 1) * size <= k * size /\ k * size \in Nat
    BY <1>4
  <2>2. upTo[k] = IF k * size <= Len(rows) THEN k * size ELSE Len(rows)
    BY <1>4, <1>5
  <2>3. QED
    BY <1>1, <1>4, <1>7, <2>1, <2>2
<1>10. sts = [k \in 1..n |-> Statement(verb, columns, Places(chunks[k], columns), <<>>,
                                       RowValues(chunks[k], columns))]
  BY <1>4 DEF BatchStatements
<1>11. ASSUME NEW k \in 1..n
       PROVE  Tuples(sts[k]) =
                {[c \in Range(columns) |-> rows[i][c]] : i \in (upTo[k - 1] + 1)..upTo[k]}
  <2>1. PICK chunk : chunk = chunks[k]
    OBVIOUS
  <2>2. /\ sts[k].columns = columns /\ sts[k].tuples = Places(chunk, columns)
        /\ sts[k].values = RowValues(chunk, columns)
    BY <1>10, <2>1 DEF Statement
  <2>3. chunk = SubSeq(rows, upTo[k - 1] + 1, upTo[k])
    BY <1>6, <1>7, <2>1
  <2>4. upTo[k - 1] + 1 \in Nat \ {0} /\ upTo[k] \in 0..Len(rows)
    BY <1>1, <1>9
  <2>5. chunk \in Seq(T) /\ Range(chunk) = {rows[i] : i \in (upTo[k - 1] + 1)..upTo[k]}
    <3>1. PICK first \in Nat \ {0}, last \in 0..Len(rows) : first = upTo[k - 1] + 1 /\ last = upTo[k]
      BY <2>4
    <3>2. chunk = SubSeq(rows, first, last)
      BY <2>3, <3>1
    <3>3. chunk \in Seq(T) /\ Range(chunk) = {rows[i] : i \in first..last}
      BY <3>2, RangeOfSubSeq
    <3>4. QED
      BY <3>1, <3>3
  <2>6. Tuples(sts[k]) = {[c \in Range(columns) |-> row[c]] : row \in Range(chunk)}
    <3>1. PICK st : st = sts[k]
      OBVIOUS
    <3>2. IsAbout(st, chunk, columns)
      BY <2>2, <3>1 DEF IsAbout
    <3>3. Tuples(st) = {[c \in Range(columns) |-> row[c]] : row \in Range(chunk)}
      BY <2>5, <3>2, TuplesOfRows
    <3>4. QED
      BY <3>1, <3>3
  <2> HIDE DEF sts
  <2> DEFINE tuple(row) == [c \in Range(columns) |-> row[c]]
  <2>7. Tuples(sts[k]) = {tuple(row) : row \in {rows[i] : i \in (upTo[k - 1] + 1)..upTo[k]}}
    BY <2>5, <2>6
  <2>8. {tuple(row) : row \in {rows[i] : i \in (upTo[k - 1] + 1)..upTo[k]}}
          = {tuple(rows[i]) : i \in (upTo[k - 1] + 1)..upTo[k]}
    <3> HIDE DEF tuple
    <3>1. QED
      OBVIOUS
  <2>9. QED
    BY <2>7, <2>8
<1>12. sts \in Seq(Range(sts)) /\ Len(sts) = n /\ \A k \in 1..n : sts[k].verb = verb
  <2>1. sts \in [1..n -> Range(sts)] /\ DOMAIN sts = 1..n
    BY <1>10 DEF Range
  <2>2. \A k \in 1..n : sts[k].verb = verb
    BY <1>10 DEF Statement
  <2> HIDE DEF sts
  <2>3. QED
    BY <1>4, <2>1, <2>2
<1> HIDE DEF sts
<1>13. sts # <<>>
  BY <1>4, <1>12
<1>14. CutAt(sts, verb, rows, columns, upTo)
  BY <1>8, <1>9, <1>11, <1>12, <1>13 DEF CutAt
<1>15. QED
  BY <1>14 DEF sts

-----------------------------------------------------------------------------
(* The progress of a write                                                 *)

TableRow == [Column -> Nat]

(* A row that is handed over has the actor, and of the caller's cells all  *)
(* others; written over a row of the table it leaves one.                  *)
LEMMA PreparedRow ==
  ASSUME NEW row, IsPartialRow(row)
  PROVE  /\ DOMAIN Prepared(row) = {ActorColumn} \cup DOMAIN row
         /\ \A c \in DOMAIN row \ {ActorColumn} : Prepared(row)[c] = row[c]
         /\ Prepared(row) = [c \in DOMAIN Prepared(row) |-> Prepared(row)[c]]
         /\ IsPartialRow(Prepared(row))
         /\ Inserted(Prepared(row)) \in TableRow
<1> DEFINE p == Prepared(row)
<1>1. p = [c \in {ActorColumn} \cup DOMAIN row |-> IF c = ActorColumn THEN Actor ELSE row[c]]
  BY DEF Prepared, Over
<1>2. DOMAIN row \subseteq Column /\ \A c \in DOMAIN row : row[c] \in Nat
  BY DEF IsPartialRow
<1>3. ActorColumn \in Column /\ Actor \in Nat
  BY KeyedWriteAssumption
<1> HIDE DEF p
<1>4. \A c \in DOMAIN p : p[c] \in Nat
  BY <1>1, <1>2, <1>3
<1>5. p \in [DOMAIN p -> Nat] /\ DOMAIN p \subseteq Column
  BY <1>1, <1>2, <1>3, <1>4
<1>6. Inserted(p) \in TableRow
  BY <1>4 DEF Inserted, TableRow, NULL
<1>7. QED
  BY <1>1, <1>5, <1>6 DEF p, IsPartialRow

(* A row over which a part of one is written is a row, with the cells of   *)
(* the part.                                                               *)
LEMMA RowWithPart ==
  ASSUME NEW part, IsPartialRow(part), NEW row \in TableRow
  PROVE  /\ Over(part, row) \in TableRow
         /\ \A c \in DOMAIN part : Over(part, row)[c] = part[c]
<1>1. Over(part, row) = [c \in DOMAIN part \cup Column |-> IF c \in DOMAIN part THEN part[c] ELSE row[c]]
  BY DEF Over, TableRow
<1>2. DOMAIN part \subseteq Column /\ \A c \in DOMAIN part : part[c] \in Nat
  BY DEF IsPartialRow
<1>3. DOMAIN part \cup Column = Column
  BY <1>2
<1>4. \A c \in Column : (IF c \in DOMAIN part THEN part[c] ELSE row[c]) \in Nat
  BY <1>2 DEF TableRow
<1>5. QED
  BY <1>1, <1>2, <1>3, <1>4 DEF TableRow

(* What a call is given are rows or parts of them, and a key of columns.   *)
LEMMA KeyedCallFacts ==
  ASSUME IsKeyedCall(op)
  PROVE  /\ op.rows \in Seq(Range(op.rows)) /\ \A row \in Range(op.rows) : IsPartialRow(row)
         /\ IsPartialRow(op.set)
         /\ op.key \in Seq(Column) /\ Range(op.key) \subseteq Column \ {ActorColumn}
<1>1. op.key \in Seq(Column \ {ActorColumn})
  BY DEF IsKeyedCall
<1>2. Range(op.key) \in SUBSET (Column \ {ActorColumn})
  BY <1>1, RangeOfSeq
<1>3. op.key \in Seq(Column)
  BY <1>1, SeqMonotonic
<1>4. QED
  BY <1>2, <1>3 DEF IsKeyedCall

(* The statements of a batch, and how many of its rows they have.          *)
Batch(upTo) ==
  /\ StatementsOf \in Seq(Range(StatementsOf)) /\ StatementsOf # <<>>
  /\ upTo[0] = 0 /\ upTo[Len(StatementsOf)] = Len(op.rows)
  /\ \A k \in 1..Len(StatementsOf) :
       /\ upTo[k - 1] \in Nat /\ upTo[k] \in upTo[k - 1]..Len(op.rows)
       /\ StatementsOf[k].verb = IF op.method = "createMany" THEN "insert" ELSE "updateMany"
       /\ Tuples(StatementsOf[k]) = {Prepared(op.rows[i]) : i \in (upTo[k - 1] + 1)..upTo[k]}

(* A batch that is not refused is about all of its rows.                   *)
LEMMA BatchTuples ==
  ASSUME IsKeyedCall(op), op.method \in {"createMany", "updateMany"}, op.rows # <<>>, ~DaoThrows
  PROVE  \E upTo : Batch(upTo)
<1> DEFINE rows == [r \in DOMAIN op.rows |-> Prepared(op.rows[r])]
           verb == IF op.method = "createMany" THEN "insert" ELSE "updateMany"
<1>1. /\ op.rows \in Seq(Range(op.rows)) /\ DOMAIN op.rows = 1..Len(op.rows) /\ Len(op.rows) \in Nat
      /\ \A row \in Range(op.rows) : IsPartialRow(row)
      /\ op.key \in Seq(Column) /\ Range(op.key) \subseteq Column \ {ActorColumn}
  BY KeyedCallFacts, LenProperties
<1>2. 1 \in DOMAIN op.rows
  BY <1>1, EmptySeq
<1>3. \A r \in DOMAIN op.rows : op.rows[r] \in Range(op.rows) /\ rows[r] = Prepared(op.rows[r])
  BY DEF Range
<1>4. \A r \in DOMAIN op.rows : DOMAIN op.rows[r] = DOMAIN op.rows[1]
  BY <1>2, <1>3 DEF IsKeyedCall
<1>5. DOMAIN rows = DOMAIN op.rows
  OBVIOUS
<1> HIDE DEF rows
<1>6. \A r \in DOMAIN op.rows :
        /\ DOMAIN rows[r] = DOMAIN rows[1] /\ rows[r] = [c \in DOMAIN rows[r] |-> rows[r][c]]
        /\ IsPartialRow(rows[r]) /\ ActorColumn \in DOMAIN rows[r]
  <2> SUFFICES ASSUME NEW r \in DOMAIN op.rows
               PROVE  /\ DOMAIN rows[r] = DOMAIN rows[1] /\ rows[r] = [c \in DOMAIN rows[r] |-> rows[r][c]]
                      /\ IsPartialRow(rows[r]) /\ ActorColumn \in DOMAIN rows[r]
    OBVIOUS
  <2>1. \A i \in {1, r} : IsPartialRow(op.rows[i]) /\ rows[i] = Prepared(op.rows[i])
    BY <1>1, <1>2, <1>3
  <2>2. \A i \in {1, r} : DOMAIN Prepared(op.rows[i]) = {ActorColumn} \cup DOMAIN op.rows[i]
    BY <2>1, PreparedRow
  <2>3. DOMAIN op.rows[r] = DOMAIN op.rows[1]
    BY <1>4
  <2>4. rows[r] = [c \in DOMAIN rows[r] |-> rows[r][c]] /\ IsPartialRow(rows[r])
    BY <2>1, PreparedRow
  <2>5. QED
    BY <2>1, <2>2, <2>3, <2>4
<1>7. rows \in Seq(Range(rows)) /\ Len(rows) = Len(op.rows)
  <2>1. rows \in [1..Len(op.rows) -> Range(rows)]
    BY <1>1, <1>5 DEF rows, Range
  <2>2. QED
    BY <1>1, <2>1
<1>8. IsFiniteSet(DOMAIN rows[1])
  BY <1>2, <1>6, KeyedWriteAssumption, FS_Subset DEF IsPartialRow
<1>9. PICK columns \in Seq(Column) : Range(columns) = DOMAIN rows[1] /\ StatementsOf = BatchStatements(verb, rows, columns)
  <2>1. CASE op.method = "createMany"
    <3> DEFINE columns == ColumnsOf(rows[1], {})
    <3>1. columns \in Seq(DOMAIN rows[1]) /\ Range(columns) = DOMAIN rows[1]
      <4>1. DOMAIN rows[1] \ {} = DOMAIN rows[1]
        OBVIOUS
      <4>2. QED
        BY <1>8, <4>1, SetAsSequence DEF ColumnsOf
    <3>2. columns \in Seq(Column)
      BY <1>2, <1>6, <3>1, SeqMonotonic DEF IsPartialRow
    <3>3. StatementsOf = BatchStatements("insert", rows, columns)
      BY <2>1 DEF StatementsOf, InsertStatements, rows
    <3>4. QED
      BY <2>1, <3>1, <3>2, <3>3
  <2>2. CASE op.method = "updateMany"
    <3> DEFINE others == ColumnsOf(rows[1], Range(KeyColumns))
    <3>1. Range(op.key) \subseteq DOMAIN op.rows[1]
      BY <1>2, <1>3, <2>2 DEF DaoThrows, PerKey, KeyMissing, KeyColumns
    <3>2. Range(op.key) \subseteq DOMAIN rows[1]
      BY <1>1, <1>2, <1>3, <3>1, PreparedRow
    <3>3. IsFiniteSet(DOMAIN rows[1] \ Range(op.key))
      BY <1>8, FS_Subset
    <3>4. /\ others \in Seq(DOMAIN rows[1] \ Range(op.key))
          /\ Range(others) = DOMAIN rows[1] \ Range(op.key)
      BY <3>3, SetAsSequence DEF ColumnsOf, KeyColumns
    <3>5. DOMAIN rows[1] \ Range(op.key) \subseteq Column
      BY <1>2, <1>6 DEF IsPartialRow
    <3> HIDE DEF others
    <3>6. others \in Seq(Column)
      BY <3>4, <3>5, SeqMonotonic
    <3>7. others \o op.key \in Seq(Column) /\ Range(others \o op.key) = Range(others) \cup Range(op.key)
      BY <1>1, <3>6, ConcatProperties, RangeConcatenation
    <3>8. Range(others \o op.key) = DOMAIN rows[1]
      BY <3>2, <3>4, <3>7
    <3>9. StatementsOf = BatchStatements("updateMany", rows, others \o op.key)
      BY <2>2 DEF StatementsOf, UpdateManyStatements, rows, others, KeyColumns
    <3>10. QED
      BY <2>2, <3>7, <3>8, <3>9
  <2>3. QED
    BY <2>1, <2>2
<1>10. columns # <<>>
  <2>1. ActorColumn \in Range(columns)
    BY <1>2, <1>6, <1>9
  <2>2. QED
    BY <2>1 DEF Range
<1>11. rows # <<>>
  BY <1>2, <1>5
<1>12. PICK upTo : CutAt(StatementsOf, verb, rows, columns, upTo)
  BY <1>7, <1>9, <1>10, <1>11, BatchIsCut
<1>13. ASSUME NEW k \in 1..Len(StatementsOf)
       PROVE  Tuples(StatementsOf[k]) = {Prepared(op.rows[i]) : i \in (upTo[k - 1] + 1)..upTo[k]}
  <2>1. /\ upTo[k - 1] \in Nat /\ upTo[k] \in upTo[k - 1]..Len(rows)
        /\ Tuples(StatementsOf[k]) =
             {[c \in Range(columns) |-> rows[i][c]] : i \in (upTo[k - 1] + 1)..upTo[k]}
    BY <1>12 DEF CutAt
  <2>2. \A i \in (upTo[k - 1] + 1)..upTo[k] : i \in DOMAIN op.rows
    BY <1>1, <1>7, <2>1
  <2>3. \A i \in (upTo[k - 1] + 1)..upTo[k] : [c \in Range(columns) |-> rows[i][c]] = Prepared(op.rows[i])
    BY <1>3, <1>6, <1>9, <2>2
  <2>4. PICK a, b : a = upTo[k - 1] + 1 /\ b = upTo[k]
    OBVIOUS
  <2> DEFINE said(i) == [c \in Range(columns) |-> rows[i][c]]
             meant(i) == Prepared(op.rows[i])
  <2>5. \A i \in a..b : said(i) = meant(i)
    BY <2>3, <2>4
  <2>6. Tuples(StatementsOf[k]) = {said(i) : i \in a..b}
    BY <2>1, <2>4
  <2>7. {said(i) : i \in a..b} = {meant(i) : i \in a..b}
    <3> HIDE DEF said, meant
    <3> QED
      BY <2>5
  <2>8. QED
    BY <2>4, <2>6, <2>7
<1>14. Batch(upTo)
  BY <1>7, <1>12, <1>13 DEF CutAt, Batch
<1>15. QED
  BY <1>14

-----------------------------------------------------------------------------
(* The wheres of statements                                                *)

ParameterValue == [many : BOOLEAN, items : SUBSET Nat]

(* What an UPDATE or a DELETE selects, whatever parameters its text has    *)
(* before those of its where.                                              *)
LEMMA WhereSelects ==
  ASSUME NEW T, NEW filters \in Seq(T), NEW row \in TableRow,
         \A f \in Range(filters) : Sensible(f, TRUE) /\ f.field \in Column,
         NEW before \in Seq(ParameterValue)
  PROVE  /\ Selects(Clauses(filters, Len(before), TRUE), before \o Bound(filters, TRUE), row)
              <=> Meant(filters, row, TRUE)
         /\ Selects(Clauses(filters, 0, TRUE), Bound(filters, TRUE), row)
              <=> Meant(filters, row, TRUE)
<1> DEFINE bound == Bound(filters, TRUE)
<1>1. \A f \in Range(filters) : f.value \in ParameterValue
  BY DEF Sensible, ParameterValue
<1>2. \A f \in Range(filters) : row[f.field] \in Nat
  BY DEF TableRow
<1>3. bound \in Seq(ParameterValue)
  <2>1. bound \in Seq({f.value : f \in Range(filters)})
    BY BoundInOrder
  <2>2. {f.value : f \in Range(filters)} \subseteq ParameterValue
    BY <1>1
  <2>3. QED
    BY <2>1, <2>2, SeqMonotonic
<1>4. <<>> \in Seq(ParameterValue) /\ Len(<<>>) = 0
  OBVIOUS
<1> HIDE DEF bound
<1>5. (before \o bound) \o <<>> = before \o bound
  BY <1>3, ConcatProperties, ConcatEmptySeq
<1>6. (<<>> \o bound) \o <<>> = bound
  BY <1>3, ConcatProperties, ConcatEmptySeq
<1>7. \A start \in Seq(ParameterValue) :
        Selects(Clauses(filters, Len(start), TRUE), (start \o bound) \o <<>>, row)
          <=> Meant(filters, row, TRUE)
  BY <1>1, <1>2, <1>4, ClausesMean DEF bound
<1>8. Selects(Clauses(filters, Len(before), TRUE), before \o bound, row) <=> Meant(filters, row, TRUE)
  BY <1>5, <1>7
<1>9. Selects(Clauses(filters, 0, TRUE), bound, row) <=> Meant(filters, row, TRUE)
  BY <1>4, <1>6, <1>7
<1>10. QED
  BY <1>8, <1>9 DEF bound

(* The filters of a call that was not refused.                             *)
LEMMA SensibleWhere ==
  ASSUME NEW f \in Filter, Fits(f), ~UnknownOperator(f), ~NoValue(f)
  PROVE  Sensible(f, TRUE)
<1>1. /\ f.value \in [many : BOOLEAN, items : SUBSET (0..9)]
      /\ f.value.many \/ \A a, b \in f.value.items : a = b
  BY DEF Filter, Value, NULL, No
<1>2. /\ f.value.many \in BOOLEAN /\ f.value.items \in SUBSET (0..9)
      /\ f.value = [many |-> f.value.many, items |-> f.value.items]
  BY <1>1
<1>3. f.value.items \in SUBSET Nat /\ f.value \in [many : BOOLEAN, items : SUBSET Nat]
  BY <1>2
<1>4. ASSUME ~f.value.many
      PROVE  \E v \in Nat : f.value = Scalar(v)
  <2>1. PICK v : v \in f.value.items
    BY <1>4 DEF NoValue
  <2>2. f.value.items = {v}
    BY <1>1, <1>4, <2>1
  <2>3. QED
    BY <1>2, <1>3, <1>4, <2>1, <2>2 DEF Scalar
<1>5. f.suffix \in Operators \cup {"bare"}
  BY DEF UnknownOperator
<1>6. f.value.many => f.suffix \in {"in", "notIn", "notInStrict", "bare"}
  BY DEF Fits
<1>7. QED
  BY <1>3, <1>4, <1>5, <1>6 DEF Sensible

(* A filter on a key column means the cells that are the key's, or one of  *)
(* the keys'.                                                              *)
LEMMA KeyFilterMeans ==
  ASSUME NEW column, NEW items \in SUBSET Nat, NULL \notin items, NEW cell \in Nat, NEW f,
         f = [field |-> column, suffix |-> "bare", value |-> List(items)]
           \/ \E v \in items : items = {v} /\ f = [field |-> column, suffix |-> "bare", value |-> Scalar(v)]
  PROVE  Sensible(f, TRUE) /\ f.field = column /\ (Means(f, cell, TRUE) <=> cell \in items)
<1>1. f.suffix = "bare" /\ f.field = column
  OBVIOUS
<1>2. f.value = List(items) \/ \E v \in items : items = {v} /\ f.value = Scalar(v)
  OBVIOUS
<1>3. f.value.items = items /\ f.value # Scalar(NULL)
  BY <1>2 DEF List, Scalar
<1>4. Means(f, cell, TRUE) <=> cell # NULL /\ cell \in items
  <2>1. Means(f, cell, TRUE) <=> cell # NULL /\ cell \in f.value.items
    BY <1>1, <1>3 DEF Means
  <2>2. QED
    BY <1>3, <2>1
<1>5. Sensible(f, TRUE)
  <2>1. CASE f.value = List(items)
    BY <1>1, <2>1 DEF List, Sensible
  <2>2. CASE \E v \in items : items = {v} /\ f.value = Scalar(v)
    <3>1. PICK v \in items : f.value = Scalar(v)
      BY <2>2
    <3>2. v \in Nat /\ ~f.value.many /\ f.value \in [many : BOOLEAN, items : SUBSET Nat]
      BY <3>1 DEF Scalar
    <3>3. QED
      BY <1>1, <3>1, <3>2 DEF Sensible
  <2>3. QED
    BY <1>2, <2>1, <2>2
<1>6. QED
  BY <1>1, <1>4, <1>5

(* What the table is after each statement of a write; a delete only takes  *)
(* rows away, and none that is meant to stay.                              *)
IsProgress(made) ==
  /\ StatementsOf \in Seq(Range(StatementsOf)) /\ StatementsOf # <<>>
  /\ made[0] = InitTable /\ made[Len(StatementsOf)] = Intended
  /\ \A k \in 0..Len(StatementsOf) :
       /\ made[k] \subseteq TableRow
       /\ op.method \in {"deleteMany", "deleteBy"} =>
            Intended \subseteq made[k] /\ made[k] \subseteq InitTable
  /\ \A k \in 1..Len(StatementsOf) :
       StatementsOf[k] # NoStatement => Effect(StatementsOf[k], made[k - 1]) = made[k]

(* A write of one statement is made as meant when the statement does what  *)
(* is meant.                                                               *)
LEMMA OneStatement ==
  ASSUME NEW st, StatementsOf = <<st>>, Effect(st, InitTable) = Intended, Intended \subseteq TableRow
  PROVE  \E made : IsProgress(made)
<1> DEFINE made == [k \in 0..1 |-> IF k = 0 THEN InitTable ELSE Intended]
<1>1. made[0] = InitTable /\ made[1] = Intended
  OBVIOUS
<1>2. InitTable \subseteq TableRow
  BY KeyedWriteAssumption DEF TableRow
<1>3. /\ StatementsOf \in Seq(Range(StatementsOf)) /\ Len(StatementsOf) = 1
      /\ StatementsOf[1] = st /\ StatementsOf # <<>>
  BY DEF Range
<1> HIDE DEF made
<1>4. IsProgress(made)
  <2>1. \A k \in 0..1 : k = 0 \/ k = 1
    OBVIOUS
  <2>2. \A k \in 1..1 : k = 1 /\ k - 1 = 0
    OBVIOUS
  <2>3. op.method \in {"deleteMany", "deleteBy"} => Intended \subseteq InitTable
    BY DEF Intended
  <2>4. QED
    BY <1>1, <1>2, <1>3, <2>1, <2>2, <2>3 DEF IsProgress
<1>5. QED
  BY <1>4

(* createMany, chunk by chunk, inserts all of its rows.                    *)
LEMMA CreateManyProgress ==
  ASSUME IsKeyedCall(op), op.method = "createMany", op.rows # <<>>, ~DaoThrows
  PROVE  \E made : IsProgress(made)
<1>1. PICK upTo : Batch(upTo)
  BY BatchTuples
<1>2. op.rows \in Seq(Range(op.rows)) /\ \A row \in Range(op.rows) : IsPartialRow(row)
  BY KeyedCallFacts
<1>3. Len(op.rows) \in Nat /\ DOMAIN op.rows = 1..Len(op.rows)
  BY <1>2, LenProperties
<1> DEFINE n == Len(StatementsOf)
           row(i) == Inserted(Prepared(op.rows[i]))
           made == [k \in 0..n |-> InitTable \cup {row(i) : i \in 1..upTo[k]}]
<1>4. n \in Nat /\ n # 0
  BY <1>1, LenProperties, EmptySeq DEF Batch
<1>5. \A i \in 1..Len(op.rows) : row(i) \in TableRow
  BY <1>2, <1>3, PreparedRow DEF Range
<1>6. InitTable \subseteq TableRow
  BY KeyedWriteAssumption DEF TableRow
<1>7. \A k \in 0..n : upTo[k] \in 0..Len(op.rows)
  <2>1. \A k \in 1..n : upTo[k] \in 0..Len(op.rows)
    BY <1>1, <1>3 DEF Batch
  <2>2. upTo[0] = 0 /\ 0 \in 0..Len(op.rows)
    BY <1>1, <1>3 DEF Batch
  <2>3. QED
    BY <1>4, <2>1, <2>2
<1>8. made[0] = InitTable
  <2>1. upTo[0] = 0 /\ 1..0 = {} /\ 0 \in 0..n
    BY <1>1, <1>4 DEF Batch
  <2>2. QED
    BY <2>1
<1>9. made[n] = Intended
  <2>1. upTo[n] = Len(op.rows) /\ n \in 0..n
    BY <1>1, <1>4 DEF Batch
  <2>2. made[n] = InitTable \cup {row(i) : i \in 1..Len(op.rows)}
    BY <2>1
  <2>3. Range(op.rows) = {op.rows[i] : i \in 1..Len(op.rows)}
    BY <1>3 DEF Range
  <2>4. Intended = InitTable \cup {Inserted(Prepared(given)) : given \in Range(op.rows)}
    BY DEF Intended
  <2> DEFINE inserted(given) == Inserted(Prepared(given))
  <2> HIDE DEF made, inserted
  <2>5. {inserted(given) : given \in Range(op.rows)} = {inserted(op.rows[i]) : i \in 1..Len(op.rows)}
    BY <2>3
  <2>6. QED
    BY <2>2, <2>4, <2>5 DEF inserted
<1>10. \A k \in 0..n : made[k] \subseteq TableRow
  <2> SUFFICES ASSUME NEW k \in 0..n PROVE made[k] \subseteq TableRow
    OBVIOUS
  <2>1. \A i \in 1..upTo[k] : i \in 1..Len(op.rows)
    BY <1>3, <1>7
  <2>2. made[k] = InitTable \cup {row(i) : i \in 1..upTo[k]}
    OBVIOUS
  <2> HIDE DEF row, made
  <2>3. QED
    BY <1>5, <1>6, <2>1, <2>2
<1>11. ASSUME NEW k \in 1..n
       PROVE  Effect(StatementsOf[k], made[k - 1]) = made[k]
  <2>1. /\ upTo[k - 1] \in Nat /\ upTo[k] \in upTo[k - 1]..Len(op.rows)
        /\ StatementsOf[k].verb = "insert"
        /\ Tuples(StatementsOf[k]) = {Prepared(op.rows[i]) : i \in (upTo[k - 1] + 1)..upTo[k]}
    BY <1>1 DEF Batch
  <2>2. k \in 0..n /\ k - 1 \in 0..n
    BY <1>4
  <2>3. /\ made[k] = InitTable \cup {row(i) : i \in 1..upTo[k]}
        /\ made[k - 1] = InitTable \cup {row(i) : i \in 1..upTo[k - 1]}
    BY <2>2
  <2>4. Effect(StatementsOf[k], made[k - 1])
          = made[k - 1] \cup {Inserted(t) : t \in Tuples(StatementsOf[k])}
    BY <2>1 DEF Effect
  <2> DEFINE inserted(given) == Inserted(given)
             given(i) == Prepared(op.rows[i])
  <2>5. {Inserted(t) : t \in Tuples(StatementsOf[k])} = {row(i) : i \in (upTo[k - 1] + 1)..upTo[k]}
    <3>1. Tuples(StatementsOf[k]) = {given(i) : i \in (upTo[k - 1] + 1)..upTo[k]}
      BY <2>1
    <3> HIDE DEF inserted, given
    <3>2. {inserted(t) : t \in Tuples(StatementsOf[k])}
            = {inserted(given(i)) : i \in (upTo[k - 1] + 1)..upTo[k]}
      BY <3>1
    <3>3. QED
      BY <3>2 DEF inserted, given
  <2>6. 1..upTo[k] = (1..upTo[k - 1]) \cup ((upTo[k - 1] + 1)..upTo[k])
    BY <1>3, <2>1
  <2> HIDE DEF row, made
  <2>7. {row(i) : i \in 1..upTo[k]}
          = {row(i) : i \in 1..upTo[k - 1]} \cup {row(i) : i \in (upTo[k - 1] + 1)..upTo[k]}
    BY <2>6
  <2>8. QED
    BY <2>3, <2>4, <2>5, <2>7
<1> HIDE DEF made
<1>12. IsProgress(made)
  BY <1>1, <1>8, <1>9, <1>10, <1>11 DEF IsProgress, Batch, n
<1>13. QED
  BY <1>12

(* A row of an updateMany, and the row of the table that has its key.      *)
LEMMA RowOfBatch ==
  ASSUME IsKeyedCall(op), op.method = "updateMany", ~DaoThrows, NEW i \in 1..Len(op.rows),
         NEW row \in TableRow
  PROVE  /\ op.rows[i] \in Range(op.rows) /\ ~KeyMissing(op.rows[i])
         /\ \A j \in 1..Len(op.rows) :
              SameKey(row, op.rows[i]) /\ SameKey(row, op.rows[j]) => i = j
         /\ SameKey(Prepared(op.rows[i]), row) <=> SameKey(row, op.rows[i])
         /\ SameKey(row, op.rows[i]) =>
              /\ Written(row) = Over(Prepared(op.rows[i]), row)
              /\ Written(row) \in TableRow
              /\ \A c \in Range(op.key) : Written(row)[c] = row[c]
<1>1. /\ op.rows \in Seq(Range(op.rows)) /\ \A r \in Range(op.rows) : IsPartialRow(r)
      /\ op.key \in Seq(Column) /\ Range(op.key) \subseteq Column \ {ActorColumn}
  BY KeyedCallFacts
<1>2. DOMAIN op.rows = 1..Len(op.rows)
  BY <1>1, LenProperties
<1>3. op.rows[i] \in Range(op.rows) /\ IsPartialRow(op.rows[i])
  BY <1>1, <1>2 DEF Range
<1>4. op.key # <<>> /\ \A r \in Range(op.rows) : ~KeyMissing(r)
  BY DEF DaoThrows, PerKey, KeyColumns
<1>5. \A r \in Range(op.rows) : Range(op.key) \subseteq DOMAIN r
  BY <1>4 DEF KeyMissing, KeyColumns
<1>6. \A j, k \in DOMAIN op.rows :
        (\A column \in Range(op.key) : op.rows[j][column] = op.rows[k][column]) => j = k
  <2>1. \A j \in DOMAIN op.rows : Range(op.key) \subseteq DOMAIN op.rows[j]
    BY <1>5 DEF Range
  <2>2. QED
    BY <1>4, <2>1 DEF IsKeyedCall
<1>7. ASSUME NEW j \in 1..Len(op.rows), SameKey(row, op.rows[i]), SameKey(row, op.rows[j])
      PROVE  i = j
  BY <1>2, <1>6, <1>7 DEF SameKey, KeyColumns
<1>8. \A c \in Range(op.key) : Prepared(op.rows[i])[c] = op.rows[i][c] /\ c \in DOMAIN Prepared(op.rows[i])
  BY <1>1, <1>3, <1>5, PreparedRow
<1>9. SameKey(Prepared(op.rows[i]), row) <=> SameKey(row, op.rows[i])
  BY <1>8 DEF SameKey, KeyColumns
<1>10. ASSUME SameKey(row, op.rows[i])
       PROVE  /\ Written(row) = Over(Prepared(op.rows[i]), row)
              /\ Written(row) \in TableRow
              /\ \A c \in Range(op.key) : Written(row)[c] = row[c]
  <2> DEFINE given == CHOOSE other \in Range(op.rows) : SameKey(row, other)
  <2>1. given \in Range(op.rows) /\ SameKey(row, given)
    BY <1>3, <1>10
  <2>2. PICK j \in 1..Len(op.rows) : given = op.rows[j]
    BY <1>2, <2>1 DEF Range
  <2>3. given = op.rows[i]
    BY <1>7, <1>10, <2>1, <2>2
  <2>4. Written(row) = Over(Prepared(given), row)
    BY DEF Written
  <2>5. Written(row) = Over(Prepared(op.rows[i]), row)
    BY <2>3, <2>4
  <2>6. IsPartialRow(Prepared(op.rows[i]))
    BY <1>3, PreparedRow
  <2>7. /\ Over(Prepared(op.rows[i]), row) \in TableRow
        /\ \A c \in DOMAIN Prepared(op.rows[i]) :
             Over(Prepared(op.rows[i]), row)[c] = Prepared(op.rows[i])[c]
    BY <2>6, RowWithPart
  <2>8. \A c \in Range(op.key) : Written(row)[c] = row[c]
    BY <1>8, <1>10, <2>5, <2>7 DEF SameKey, KeyColumns
  <2>9. QED
    BY <2>5, <2>7, <2>8
<1>11. QED
  BY <1>3, <1>4, <1>7, <1>9, <1>10

(* One row of an updateMany's batch after another.                         *)
UpdatedUpTo(upTo, k, row) ==
  IF \E i \in 1..upTo[k] : SameKey(row, op.rows[i]) THEN Written(row) ELSE row

(* A statement of updateMany updates a row with the row of its chunk that  *)
(* has the same key.                                                       *)
LEMMA UpdatedRow ==
  ASSUME IsKeyedCall(op), op.method = "updateMany", op.rows # <<>>, ~DaoThrows,
         NEW upTo, Batch(upTo), NEW k \in 1..Len(StatementsOf), NEW row \in TableRow
  PROVE  LET before == UpdatedUpTo(upTo, k - 1, row)
             data == {t \in Tuples(StatementsOf[k]) : SameKey(t, before)}
         IN (IF data = {} THEN before ELSE Over(CHOOSE t \in data : TRUE, before))
              = UpdatedUpTo(upTo, k, row)
<1> DEFINE before == UpdatedUpTo(upTo, k - 1, row)
           data == {t \in Tuples(StatementsOf[k]) : SameKey(t, before)}
           first == upTo[k - 1] + 1
           last == upTo[k]
<1>1. /\ upTo[k - 1] \in Nat /\ upTo[k] \in upTo[k - 1]..Len(op.rows)
      /\ Tuples(StatementsOf[k]) = {Prepared(op.rows[i]) : i \in first..last}
  BY DEF Batch
<1>2. Len(op.rows) \in Nat
  BY KeyedCallFacts, LenProperties
<1>3. /\ 1..upTo[k] \subseteq 1..Len(op.rows) /\ first..last \subseteq 1..upTo[k]
      /\ \A i \in 1..upTo[k] : i \in 1..upTo[k - 1] \/ i \in first..last
      /\ \A i \in 1..upTo[k - 1] : i \in 1..upTo[k] /\ i \notin first..last
  BY <1>1, <1>2
<1> HIDE DEF first, last
<1>4. CASE \E i \in 1..upTo[k - 1] : SameKey(row, op.rows[i])
  <2>1. PICK i \in 1..upTo[k - 1] : SameKey(row, op.rows[i])
    BY <1>4
  <2>2. before = Written(row) /\ UpdatedUpTo(upTo, k, row) = Written(row)
    BY <1>3, <2>1 DEF UpdatedUpTo
  <2>3. Written(row) \in TableRow /\ \A c \in Range(op.key) : Written(row)[c] = row[c]
    BY <1>3, <2>1, RowOfBatch
  <2>4. ASSUME NEW j \in first..last PROVE ~SameKey(Prepared(op.rows[j]), before)
    <3>1. j \in 1..Len(op.rows) /\ i \in 1..Len(op.rows) /\ i # j
      BY <1>3, <2>1
    <3>2. ~SameKey(row, op.rows[j])
      BY <2>1, <3>1, RowOfBatch
    <3>3. ~SameKey(before, op.rows[j])
      BY <2>2, <2>3, <3>2 DEF SameKey, KeyColumns
    <3>4. \A r \in TableRow : SameKey(Prepared(op.rows[j]), r) <=> SameKey(r, op.rows[j])
      BY <3>1, RowOfBatch
    <3>5. QED
      BY <2>2, <2>3, <3>3, <3>4
  <2>5. data = {}
    BY <1>1, <2>4
  <2>6. QED
    BY <2>2, <2>5
<1>5. CASE ~(\E i \in 1..upTo[k - 1] : SameKey(row, op.rows[i]))
  <2>1. before = row
    BY <1>5 DEF UpdatedUpTo
  <2>2. \A j \in first..last : SameKey(Prepared(op.rows[j]), row) <=> SameKey(row, op.rows[j])
    BY <1>3, RowOfBatch
  <2>3. CASE \E j \in first..last : SameKey(row, op.rows[j])
    <3>1. PICK j \in first..last : SameKey(row, op.rows[j])
      BY <2>3
    <3>2. UpdatedUpTo(upTo, k, row) = Written(row)
      BY <1>3, <3>1 DEF UpdatedUpTo
    <3>3. Written(row) = Over(Prepared(op.rows[j]), row)
      BY <1>3, <3>1, RowOfBatch
    <3>4. \A i \in first..last : SameKey(row, op.rows[i]) => i = j
      BY <1>3, <3>1, RowOfBatch
    <3>5. data = {Prepared(op.rows[j])}
      BY <1>1, <2>1, <2>2, <3>1, <3>4
    <3> HIDE DEF data, before
    <3>6. data # {} /\ (CHOOSE t \in data : TRUE) = Prepared(op.rows[j])
      BY <3>5
    <3>7. QED
      BY <2>1, <3>2, <3>3, <3>6 DEF data, before
  <2>4. CASE ~(\E j \in first..last : SameKey(row, op.rows[j]))
    <3>1. UpdatedUpTo(upTo, k, row) = row
      BY <1>3, <1>5, <2>4 DEF UpdatedUpTo
    <3>2. data = {}
      BY <1>1, <2>1, <2>2, <2>4
    <3>3. QED
      BY <2>1, <3>1, <3>2
  <2>5. QED
    BY <2>3, <2>4
<1>6. QED
  BY <1>4, <1>5

(* updateMany, chunk by chunk, writes each of its rows over the one of its *)
(* key.                                                                    *)
LEMMA UpdateManyProgress ==
  ASSUME IsKeyedCall(op), op.method = "updateMany", op.rows # <<>>, ~DaoThrows
  PROVE  \E made : IsProgress(made)
<1>1. PICK upTo : Batch(upTo)
  BY BatchTuples
<1>2. Len(op.rows) \in Nat /\ DOMAIN op.rows = 1..Len(op.rows)
  BY KeyedCallFacts, LenProperties
<1> DEFINE n == Len(StatementsOf)
           made == [k \in 0..n |-> {UpdatedUpTo(upTo, k, row) : row \in InitTable}]
<1>3. n \in Nat /\ n # 0 /\ 0 \in 0..n /\ n \in 0..n
  BY <1>1, LenProperties, EmptySeq DEF Batch
<1>4. InitTable \subseteq TableRow
  BY KeyedWriteAssumption DEF TableRow
<1>5. \A k \in 0..n : upTo[k] \in 0..Len(op.rows)
  <2>1. \A k \in 1..n : upTo[k] \in 0..Len(op.rows)
    BY <1>1, <1>2 DEF Batch
  <2>2. upTo[0] = 0 /\ 0 \in 0..Len(op.rows)
    BY <1>1, <1>2 DEF Batch
  <2>3. QED
    BY <1>3, <2>1, <2>2
<1>6. \A k \in 0..n, row \in InitTable : UpdatedUpTo(upTo, k, row) \in TableRow
  <2> SUFFICES ASSUME NEW k \in 0..n, NEW row \in InitTable PROVE UpdatedUpTo(upTo, k, row) \in TableRow
    OBVIOUS
  <2>1. ASSUME NEW i \in 1..upTo[k], SameKey(row, op.rows[i]) PROVE Written(row) \in TableRow
    <3>1. i \in 1..Len(op.rows)
      BY <1>2, <1>5
    <3>2. QED
      BY <1>4, <2>1, <3>1, RowOfBatch
  <2>2. QED
    BY <1>4, <2>1 DEF UpdatedUpTo
<1>7. made[0] = InitTable
  <2>1. \A row \in InitTable : UpdatedUpTo(upTo, 0, row) = row
    <3>1. upTo[0] = 0 /\ 1..0 = {}
      BY <1>1 DEF Batch
    <3>2. QED
      BY <3>1 DEF UpdatedUpTo
  <2>2. made[0] = {UpdatedUpTo(upTo, 0, row) : row \in InitTable}
    BY <1>3
  <2>3. QED
    BY <2>1, <2>2
<1>8. made[n] = Intended
  <2>1. ASSUME NEW row \in InitTable
        PROVE  UpdatedUpTo(upTo, n, row) = IF Addressed(row) THEN Written(row) ELSE row
    <3>1. upTo[n] = Len(op.rows)
      BY <1>1 DEF Batch
    <3>2. Addressed(row) <=> \E other \in Range(op.rows) : ~KeyMissing(other) /\ SameKey(row, other)
      BY DEF Addressed
    <3>3. \A i \in 1..Len(op.rows) : op.rows[i] \in Range(op.rows) /\ ~KeyMissing(op.rows[i])
      BY <1>4, RowOfBatch
    <3>4. \A other \in Range(op.rows) : \E i \in 1..Len(op.rows) : other = op.rows[i]
      BY <1>2 DEF Range
    <3>5. Addressed(row) <=> \E i \in 1..Len(op.rows) : SameKey(row, op.rows[i])
      BY <3>2, <3>3, <3>4
    <3>6. QED
      BY <3>1, <3>5 DEF UpdatedUpTo
  <2> DEFINE updated(row) == UpdatedUpTo(upTo, n, row)
             intended(row) == IF Addressed(row) THEN Written(row) ELSE row
  <2>2. Intended = {intended(row) : row \in InitTable}
    BY DEF Intended
  <2>3. made[n] = {updated(row) : row \in InitTable}
    BY <1>3
  <2>4. \A row \in InitTable : updated(row) = intended(row)
    BY <2>1
  <2> HIDE DEF updated, intended, made
  <2>5. QED
    BY <2>2, <2>3, <2>4
<1>9. \A k \in 0..n : made[k] \subseteq TableRow
  BY <1>6
<1>10. ASSUME NEW k \in 1..n
       PROVE  Effect(StatementsOf[k], made[k - 1]) = made[k]
  <2> DEFINE next(row) ==
               LET data == {t \in Tuples(StatementsOf[k]) : SameKey(t, row)}
               IN IF data = {} THEN row ELSE Over(CHOOSE t \in data : TRUE, row)
             before(row) == UpdatedUpTo(upTo, k - 1, row)
             after(row) == UpdatedUpTo(upTo, k, row)
  <2>1. StatementsOf[k].verb = "updateMany"
    BY <1>1 DEF Batch
  <2>2. Effect(StatementsOf[k], made[k - 1]) = {next(row) : row \in made[k - 1]}
    BY <2>1 DEF Effect
  <2>3. k \in 0..n /\ k - 1 \in 0..n
    BY <1>3
  <2>4. made[k - 1] = {before(row) : row \in InitTable} /\ made[k] = {after(row) : row \in InitTable}
    BY <2>3
  <2>5. \A row \in InitTable : next(before(row)) = after(row)
    <3> SUFFICES ASSUME NEW row \in InitTable PROVE next(before(row)) = after(row)
      OBVIOUS
    <3>1. QED
      BY <1>1, <1>4, UpdatedRow
  <2> HIDE DEF next, before, after, made
  <2>6. {next(row) : row \in made[k - 1]} = {next(before(row)) : row \in InitTable}
    BY <2>4
  <2>7. {next(before(row)) : row \in InitTable} = {after(row) : row \in InitTable}
    BY <2>5
  <2>8. QED
    BY <2>2, <2>4, <2>6, <2>7
<1> HIDE DEF made
<1>11. IsProgress(made)
  BY <1>1, <1>7, <1>8, <1>9, <1>10 DEF IsProgress, Batch, n
<1>12. QED
  BY <1>11

(* A delete with a where takes the rows away that the where means.         *)
LEMMA DeleteEffect ==
  ASSUME NEW T, NEW filters \in Seq(T), \A f \in Range(filters) : Sensible(f, TRUE) /\ f.field \in Column,
         NEW rows \in SUBSET TableRow
  PROVE  Effect(DeleteStatement(filters), rows) = {row \in rows : ~Meant(filters, row, TRUE)}
<1> DEFINE st == DeleteStatement(filters)
<1>1. st.verb = "delete" /\ st.clauses = Clauses(filters, 0, TRUE) /\ st.values = Bound(filters, TRUE)
  BY DEF DeleteStatement, Statement
<1>2. Effect(st, rows) = {row \in rows : ~Selects(st.clauses, st.values, row)}
  BY <1>1 DEF Effect
<1>3. \A row \in rows : Selects(st.clauses, st.values, row) <=> Meant(filters, row, TRUE)
  <2> SUFFICES ASSUME NEW row \in rows
               PROVE  Selects(st.clauses, st.values, row) <=> Meant(filters, row, TRUE)
    OBVIOUS
  <2>1. <<>> \in Seq(ParameterValue)
    OBVIOUS
  <2>2. Selects(Clauses(filters, 0, TRUE), Bound(filters, TRUE), row) <=> Meant(filters, row, TRUE)
    BY <2>1, WhereSelects
  <2>3. QED
    BY <1>1, <2>2
<1> HIDE DEF st
<1>4. Effect(st, rows) = {row \in rows : ~Meant(filters, row, TRUE)}
  BY <1>2, <1>3
<1>5. QED
  BY <1>4 DEF st

(* The filters of one key, or the one of all keys of a single column.      *)
LEMMA KeyIsMeant ==
  ASSUME IsKeyedCall(op), NEW key \in Range(op.rows), ~KeyMissing(key), NEW row \in TableRow
  PROVE  LET filters == [c \in DOMAIN KeyColumns |-> KeyFilter(key, KeyColumns[c])]
         IN /\ filters \in Seq(Range(filters))
            /\ \A f \in Range(filters) : Sensible(f, TRUE) /\ f.field \in Column
            /\ Meant(filters, row, TRUE) <=> SameKey(row, key)
<1> DEFINE filters == [c \in DOMAIN KeyColumns |-> KeyFilter(key, KeyColumns[c])]
<1>1. /\ IsPartialRow(key) /\ op.key \in Seq(Column) /\ Range(op.key) \subseteq DOMAIN key
      /\ \A column \in Range(op.key) : key[column] # NULL
  BY KeyedCallFacts DEF IsKeyedCall, KeyMissing, KeyColumns
<1>2. DOMAIN op.key = 1..Len(op.key) /\ Len(op.key) \in Nat
  BY <1>1, LenProperties
<1>3. filters \in Seq(Range(filters))
  <2>1. filters \in [1..Len(op.key) -> Range(filters)]
    BY <1>2 DEF Range, KeyColumns
  <2>2. QED
    BY <1>2, <2>1
<1>4. ASSUME NEW c \in DOMAIN op.key
      PROVE  /\ Sensible(filters[c], TRUE) /\ filters[c].field = op.key[c] /\ op.key[c] \in Column
             /\ Means(filters[c], row[op.key[c]], TRUE) <=> row[op.key[c]] = key[op.key[c]]
  <2> DEFINE column == op.key[c]
  <2>1. column \in Range(op.key) /\ column \in Column
    BY <1>1, Elements DEF Range
  <2>2. key[column] \in Nat /\ key[column] # NULL /\ row[column] \in Nat
    BY <1>1, <2>1 DEF IsPartialRow, TableRow
  <2>3. filters[c] = [field |-> column, suffix |-> "bare", value |-> Scalar(key[column])]
    BY DEF KeyFilter, KeyColumns
  <2> HIDE DEF column, filters
  <2>4. {key[column]} \in SUBSET Nat /\ NULL \notin {key[column]} /\ key[column] \in {key[column]}
    BY <2>2
  <2>5. /\ Sensible(filters[c], TRUE) /\ filters[c].field = column
        /\ Means(filters[c], row[column], TRUE) <=> row[column] \in {key[column]}
    BY <2>2, <2>3, <2>4, KeyFilterMeans, ZenonT(60)
  <2>6. QED
    BY <2>1, <2>5 DEF column
<1>5. DOMAIN filters = DOMAIN op.key
  BY DEF KeyColumns
<1> HIDE DEF filters
<1>6. \A f \in Range(filters) : Sensible(f, TRUE) /\ f.field \in Column
  <2> SUFFICES ASSUME NEW f \in Range(filters) PROVE Sensible(f, TRUE) /\ f.field \in Column
    OBVIOUS
  <2>1. PICK c \in DOMAIN op.key : f = filters[c]
    BY <1>5 DEF Range
  <2>2. QED
    BY <1>4, <2>1
<1>7. Meant(filters, row, TRUE) <=> \A c \in DOMAIN op.key : row[op.key[c]] = key[op.key[c]]
  BY <1>4, <1>5 DEF Meant, Range
<1>8. SameKey(row, key) <=> \A c \in DOMAIN op.key : row[op.key[c]] = key[op.key[c]]
  BY DEF SameKey, KeyColumns, Range
<1>9. QED
  BY <1>3, <1>6, <1>7, <1>8 DEF filters

(* The one array of a key set means the rows that have a key of the set.   *)
LEMMA KeysAreMeant ==
  ASSUME IsKeyedCall(op), Len(KeyColumns) = 1, \A key \in Range(op.rows) : ~KeyMissing(key),
         NEW row \in TableRow
  PROVE  LET f == [field |-> KeyColumns[1], suffix |-> "bare",
                   value |-> List({key[KeyColumns[1]] : key \in Range(op.rows)})]
         IN /\ Sensible(f, TRUE) /\ f.field \in Column
            /\ Meant(<<f>>, row, TRUE) <=> \E key \in Range(op.rows) : SameKey(row, key)
<1> DEFINE column == KeyColumns[1]
           items == {key[column] : key \in Range(op.rows)}
           f == [field |-> column, suffix |-> "bare", value |-> List(items)]
<1>1. op.key \in Seq(Column) /\ Range(op.key) = {column} /\ column \in Column
  <2>1. op.key \in Seq(Column)
    BY KeyedCallFacts
  <2>2. DOMAIN op.key = 1..1
    BY <2>1, LenProperties DEF KeyColumns
  <2>3. QED
    BY <2>1, <2>2, Elements DEF Range, KeyColumns
<1>2. \A key \in Range(op.rows) : key[column] \in Nat /\ key[column] # NULL
  <2> SUFFICES ASSUME NEW key \in Range(op.rows) PROVE key[column] \in Nat /\ key[column] # NULL
    OBVIOUS
  <2>1. IsPartialRow(key) /\ column \in DOMAIN key
    BY <1>1, KeyedCallFacts DEF KeyMissing, KeyColumns
  <2>2. key[column] # NULL
    BY <1>1, <2>1 DEF IsKeyedCall
  <2>3. QED
    BY <2>1, <2>2 DEF IsPartialRow
<1>3. items \in SUBSET Nat /\ NULL \notin items /\ row[column] \in Nat
  BY <1>1, <1>2 DEF TableRow
<1> HIDE DEF items, column, f
<1>4. Sensible(f, TRUE) /\ f.field = column /\ (Means(f, row[column], TRUE) <=> row[column] \in items)
  <2>1. f = [field |-> column, suffix |-> "bare", value |-> List(items)]
    BY DEF f
  <2>2. QED
    <3>1. \A g : g = [field |-> column, suffix |-> "bare", value |-> List(items)] =>
            Sensible(g, TRUE) /\ g.field = column /\ (Means(g, row[column], TRUE) <=> row[column] \in items)
      BY <1>3, KeyFilterMeans
    <3>2. QED
      BY <2>1, <3>1
<1>5. Range(<<f>>) = {f}
  BY DEF Range
<1>6. Meant(<<f>>, row, TRUE) <=> Means(f, row[column], TRUE)
  BY <1>4, <1>5 DEF Meant
<1>7. row[column] \in items <=> \E key \in Range(op.rows) : SameKey(row, key)
  BY <1>1 DEF items, SameKey, KeyColumns
<1>8. QED
  BY <1>1, <1>4, <1>6, <1>7 DEF items, column, f

(* A delete whose statement says of a row what the caller does.            *)
LEMMA OneDelete ==
  ASSUME NEW st, StatementsOf = <<st>>, op.method \in {"deleteMany", "deleteBy"},
         Effect(st, InitTable) = {row \in InitTable : ~Addressed(row)}
  PROVE  \E made : IsProgress(made)
<1>1. Intended = {row \in InitTable : ~Addressed(row)}
  BY DEF Intended
<1>2. Intended \subseteq TableRow
  BY <1>1, KeyedWriteAssumption DEF TableRow
<1>3. QED
  BY <1>1, <1>2, OneStatement

(* deleteMany takes the rows of its keys away: by one array, by arrays     *)
(* unnested, or key by key.                                                *)
LEMMA DeleteManyProgress ==
  ASSUME IsKeyedCall(op), op.method = "deleteMany", op.rows # <<>>, ~DaoThrows
  PROVE  \E made : IsProgress(made)
<1>1. /\ op.rows \in Seq(Range(op.rows)) /\ \A r \in Range(op.rows) : IsPartialRow(r)
      /\ op.key \in Seq(Column) /\ KeyColumns = op.key
  BY KeyedCallFacts DEF KeyColumns
<1>2. op.key # <<>> /\ (~PerKey => \A key \in Range(op.rows) : ~KeyMissing(key))
  BY DEF DaoThrows, KeyColumns
<1>3. Len(op.key) \in Nat \ {0} /\ DOMAIN op.rows = 1..Len(op.rows) /\ Len(op.rows) \in Nat
  BY <1>1, <1>2, LenProperties, EmptySeq
<1>4. InitTable \subseteq TableRow
  BY KeyedWriteAssumption DEF TableRow
<1>5. \A row : Addressed(row) <=> \E key \in Range(op.rows) : ~KeyMissing(key) /\ SameKey(row, key)
  BY DEF Addressed
<1>6. CASE Len(op.key) = 1
  <2> DEFINE f == [field |-> KeyColumns[1], suffix |-> "bare",
                   value |-> List({key[KeyColumns[1]] : key \in Range(op.rows)})]
  <2>1. StatementsOf = <<DeleteStatement(<<f>>)>>
    BY <1>1, <1>6 DEF StatementsOf, DeleteManyStatements
  <2>2. \A key \in Range(op.rows) : ~KeyMissing(key)
    BY <1>1, <1>2, <1>6 DEF PerKey
  <2>3. \A row \in TableRow :
          /\ Sensible(f, TRUE) /\ f.field \in Column
          /\ Meant(<<f>>, row, TRUE) <=> \E key \in Range(op.rows) : SameKey(row, key)
    BY <1>1, <1>6, <2>2, KeysAreMeant
  <2> HIDE DEF f
  <2>4. \A row \in InitTable : Meant(<<f>>, row, TRUE) <=> Addressed(row)
    BY <1>4, <1>5, <2>2, <2>3
  <2>5. CASE InitTable = {}
    <3>1. Effect(DeleteStatement(<<f>>), InitTable) = {}
      BY <2>5 DEF Effect, DeleteStatement, Statement
    <3>2. QED
      BY <2>1, <2>5, <3>1, OneDelete
  <2>6. CASE InitTable # {}
    <3>1. Sensible(f, TRUE) /\ f.field \in Column
      BY <1>4, <2>3, <2>6
    <3>2. <<f>> \in Seq({f}) /\ \A g \in Range(<<f>>) : g = f
      BY DEF Range
    <3>3. Effect(DeleteStatement(<<f>>), InitTable) = {row \in InitTable : ~Meant(<<f>>, row, TRUE)}
      BY <1>4, <3>1, <3>2, DeleteEffect
    <3>4. Effect(DeleteStatement(<<f>>), InitTable) = {row \in InitTable : ~Addressed(row)}
      BY <2>4, <3>3
    <3>5. QED
      BY <2>1, <3>4, OneDelete
  <2>7. QED
    BY <2>5, <2>6
<1>7. CASE Len(op.key) > 1 /\ op.byKeys
  <2> DEFINE st == Statement("deleteByKeys", KeyColumns, Places(op.rows, KeyColumns), <<>>,
                             RowValues(op.rows, KeyColumns))
             told(key) == [c \in Range(op.key) |-> key[c]]
  <2>1. StatementsOf = <<st>>
    BY <1>1, <1>7 DEF StatementsOf, DeleteManyStatements
  <2>2. \A key \in Range(op.rows) : ~KeyMissing(key)
    BY <1>2, <1>7 DEF PerKey
  <2>3. IsAbout(st, op.rows, op.key)
    BY <1>1 DEF Statement, IsAbout
  <2>4. Tuples(st) = {told(key) : key \in Range(op.rows)}
    BY <1>1, <2>3, TuplesOfRows
  <2>5. st.verb = "deleteByKeys"
    BY DEF Statement
  <2>6. \A row, key : SameKey(told(key), row) <=> SameKey(row, key)
    BY <1>1 DEF SameKey
  <2>7. Effect(st, InitTable) = {row \in InitTable : \A t \in Tuples(st) : ~SameKey(t, row)}
    BY <2>5 DEF Effect
  <2> HIDE DEF st, told
  <2>8. \A row \in InitTable : (\A t \in Tuples(st) : ~SameKey(t, row)) <=> ~Addressed(row)
    BY <1>5, <2>2, <2>4, <2>6
  <2>9. Effect(st, InitTable) = {row \in InitTable : ~Addressed(row)}
    BY <2>7, <2>8
  <2>10. QED
    BY <2>1, <2>9, OneDelete
<1>8. CASE Len(op.key) > 1 /\ ~op.byKeys
  <2> DEFINE filters(key) == [c \in DOMAIN KeyColumns |-> KeyFilter(key, KeyColumns[c])]
             n == Len(op.rows)
             gone(k, row) == \E i \in 1..k : ~KeyMissing(op.rows[i]) /\ SameKey(row, op.rows[i])
             made == [k \in 0..n |-> {row \in InitTable : ~gone(k, row)}]
  <2>1. StatementsOf = [k \in DOMAIN op.rows |->
                         IF KeyMissing(op.rows[k]) THEN NoStatement
                         ELSE DeleteStatement(filters(op.rows[k]))]
    <3>1. Len(KeyColumns) # 1 /\ ~(Len(KeyColumns) > 1 /\ op.byKeys)
      <4>1. \A l \in Nat \ {0} : l > 1 => l # 1
        OBVIOUS
      <4>2. Len(op.key) \in Nat \ {0}
        BY <1>3
      <4>3. QED
        BY <1>1, <1>8, <4>1, <4>2, Zenon
    <3>2. DeleteManyStatements = [k \in DOMAIN op.rows |->
                                   IF KeyMissing(op.rows[k]) THEN NoStatement
                                   ELSE DeleteStatement(filters(op.rows[k]))]
      BY <3>1, Zenon DEF DeleteManyStatements
    <3>3. StatementsOf = DeleteManyStatements
      BY DEF StatementsOf
    <3>4. QED
      BY <3>2, <3>3
  <2>2. Len(StatementsOf) = n /\ n \in Nat \ {0} /\ StatementsOf \in Seq(Range(StatementsOf))
    <3>1. n \in Nat \ {0}
      BY <1>1, <1>3, EmptySeq
    <3>2. StatementsOf \in [1..n -> Range(StatementsOf)]
      BY <1>3, <2>1 DEF Range
    <3>3. QED
      BY <3>1, <3>2
  <2>3. made[0] = InitTable
    BY <2>2
  <2>4. made[n] = Intended
    <3>1. \A row : gone(n, row) <=> Addressed(row)
      BY <1>3, <1>5 DEF Range
    <3>2. made[n] = {row \in InitTable : ~gone(n, row)}
      BY <2>2
    <3> HIDE DEF gone, made
    <3>3. QED
      BY <3>1, <3>2 DEF Intended
  <2>5. \A k \in 0..n :
          made[k] \subseteq TableRow /\ Intended \subseteq made[k] /\ made[k] \subseteq InitTable
    <3>1. ASSUME NEW k \in 0..n, NEW row \in Intended PROVE row \in made[k]
      <4>1. row \in InitTable /\ ~Addressed(row)
        BY DEF Intended
      <4>2. \A i \in 1..k : op.rows[i] \in Range(op.rows)
        BY <1>3 DEF Range
      <4>3. ~gone(k, row)
        BY <1>5, <4>1, <4>2
      <4> HIDE DEF gone
      <4>4. QED
        BY <4>1, <4>3
    <3>2. QED
      BY <1>4, <3>1
  <2>6. ASSUME NEW k \in 1..n, StatementsOf[k] # NoStatement
        PROVE  Effect(StatementsOf[k], made[k - 1]) = made[k]
    <3>1. k \in 0..n /\ k - 1 \in 0..n /\ 1..k = (1..(k - 1)) \cup {k}
      BY <2>2
    <3>2. op.rows[k] \in Range(op.rows) /\ ~KeyMissing(op.rows[k])
          /\ StatementsOf[k] = DeleteStatement(filters(op.rows[k]))
      BY <1>3, <2>1, <2>6 DEF Range
    <3>3. \A row : gone(k, row) <=> gone(k - 1, row) \/ SameKey(row, op.rows[k])
      BY <3>1, <3>2
    <3>4. /\ made[k - 1] = {row \in InitTable : ~gone(k - 1, row)}
          /\ made[k] = {row \in InitTable : ~gone(k, row)}
      BY <3>1
    <3> HIDE DEF gone, made
    <3>5. made[k - 1] \in SUBSET TableRow
      BY <1>4, <3>4
    <3>6. \A row \in TableRow :
            /\ filters(op.rows[k]) \in Seq(Range(filters(op.rows[k])))
            /\ \A f \in Range(filters(op.rows[k])) : Sensible(f, TRUE) /\ f.field \in Column
            /\ Meant(filters(op.rows[k]), row, TRUE) <=> SameKey(row, op.rows[k])
      BY <3>2, KeyIsMeant
    <3> HIDE DEF filters
    <3>7. CASE made[k - 1] = {}
      <4>1. made[k] = {}
        BY <3>3, <3>4, <3>7
      <4>2. Effect(DeleteStatement(filters(op.rows[k])), made[k - 1]) = {}
        BY <3>7 DEF Effect, DeleteStatement, Statement
      <4>3. QED
        BY <3>2, <4>1, <4>2
    <3>8. CASE made[k - 1] # {}
      <4>1. /\ filters(op.rows[k]) \in Seq(Range(filters(op.rows[k])))
            /\ \A f \in Range(filters(op.rows[k])) : Sensible(f, TRUE) /\ f.field \in Column
        BY <3>5, <3>6, <3>8
      <4>2. Effect(DeleteStatement(filters(op.rows[k])), made[k - 1])
              = {row \in made[k - 1] : ~Meant(filters(op.rows[k]), row, TRUE)}
        BY <3>5, <4>1, DeleteEffect
      <4>3. {row \in made[k - 1] : ~Meant(filters(op.rows[k]), row, TRUE)} = made[k]
        BY <3>3, <3>4, <3>5, <3>6
      <4>4. QED
        BY <3>2, <4>2, <4>3
    <3>9. QED
      BY <3>7, <3>8
  <2> HIDE DEF made
  <2>7. IsProgress(made)
    <3>1. StatementsOf # <<>>
      BY <2>2
    <3>2. QED
      BY <2>2, <2>3, <2>4, <2>5, <2>6, <3>1 DEF IsProgress
  <2>8. QED
    BY <2>7
<1>9. Len(op.key) = 1 \/ Len(op.key) > 1
  <2>1. \A l \in Nat \ {0} : l = 1 \/ l > 1
    OBVIOUS
  <2>2. Len(op.key) \in Nat \ {0}
    BY <1>3
  <2>3. QED
    BY <2>1, <2>2, Zenon
<1>10. QED
  BY <1>6, <1>7, <1>8, <1>9, Zenon

(* The where of a predicate write that is not refused.                     *)
LEMMA WhereIsSensible ==
  ASSUME IsKeyedCall(op), ~WhereRefused, ~op.allRows
  PROVE  op.where \in Seq(Filter) /\ \A f \in Range(op.where) : Sensible(f, TRUE) /\ f.field \in Column
<1>1. /\ op.where \in Seq(Filter)
      /\ \A f \in Range(op.where) : f.field \in Column /\ Fits(f) /\ ~UnknownOperator(f) /\ ~NoValue(f)
  BY DEF IsKeyedCall, WhereRefused
<1>2. \A f \in Range(op.where) : f \in Filter
  BY <1>1, RangeOfSeq
<1>3. QED
  BY <1>1, <1>2, SensibleWhere

(* deleteBy takes the rows away that its where means.                      *)
LEMMA DeleteByProgress ==
  ASSUME IsKeyedCall(op), op.method = "deleteBy", ~DaoThrows
  PROVE  \E made : IsProgress(made)
<1> DEFINE where == IF op.allRows THEN <<>> ELSE op.where
           st == DeleteStatement(where)
<1>1. StatementsOf = <<st>>
  BY DEF StatementsOf
<1>2. InitTable \in SUBSET TableRow
  BY KeyedWriteAssumption DEF TableRow
<1>3. ~WhereRefused
  BY DEF DaoThrows
<1>4. where \in Seq(Filter) /\ \A f \in Range(where) : Sensible(f, TRUE) /\ f.field \in Column
  <2>1. CASE op.allRows
    <3>1. where = <<>> /\ Range(<<>>) = {} /\ <<>> \in Seq(Filter)
      BY <2>1 DEF Range
    <3>2. QED
      BY <3>1
  <2>2. CASE ~op.allRows
    BY <1>3, <2>2, WhereIsSensible
  <2>3. QED
    BY <2>1, <2>2
<1>5. \A row \in InitTable : Meant(where, row, TRUE) <=> Addressed(row)
  <2>1. \A row \in InitTable : Addressed(row) <=> op.allRows \/ Meant(op.where, row, TRUE)
    BY DEF Addressed
  <2>2. CASE op.allRows
    <3>1. \A row \in InitTable : Meant(<<>>, row, TRUE)
      BY DEF Meant, Range
    <3>2. QED
      BY <2>1, <2>2, <3>1
  <2>3. CASE ~op.allRows
    BY <2>1, <2>3
  <2>4. QED
    BY <2>2, <2>3
<1> HIDE DEF where
<1>6. Effect(st, InitTable) = {row \in InitTable : ~Meant(where, row, TRUE)}
  BY <1>2, <1>4, DeleteEffect
<1>7. Effect(st, InitTable) = {row \in InitTable : ~Addressed(row)}
  BY <1>5, <1>6
<1>8. QED
  BY <1>1, <1>7, OneDelete

(* updateBy writes its set over the rows that its where means.             *)
LEMMA UpdateByProgress ==
  ASSUME IsKeyedCall(op), op.method = "updateBy", ~DaoThrows
  PROVE  \E made : IsProgress(made)
<1> DEFINE given == Prepared(op.set)
           columns == ColumnsOf(given, {})
           where == IF op.allRows THEN <<>> ELSE op.where
           parameters == RowValues(<<given>>, columns)
           st == UpdateStatement
<1>1. ~WhereRefused /\ IsPartialRow(op.set)
  BY KeyedCallFacts DEF DaoThrows
<1>2. /\ IsPartialRow(given) /\ given = [c \in DOMAIN given |-> given[c]]
      /\ IsFiniteSet(DOMAIN given)
  <2>1. IsPartialRow(given) /\ given = [c \in DOMAIN given |-> given[c]]
    BY <1>1, PreparedRow
  <2>2. IsFiniteSet(DOMAIN given)
    BY <2>1, KeyedWriteAssumption, FS_Subset DEF IsPartialRow
  <2>3. QED
    BY <2>1, <2>2
<1> HIDE DEF given
<1>3. columns \in Seq(DOMAIN given) /\ Range(columns) = DOMAIN given /\ Len(columns) \in Nat
  <2>1. DOMAIN given \ {} = DOMAIN given
    OBVIOUS
  <2>2. columns \in Seq(DOMAIN given) /\ Range(columns) = DOMAIN given
    BY <1>2, <2>1, SetAsSequence DEF ColumnsOf
  <2>3. QED
    BY <2>2, LenProperties
<1> HIDE DEF columns
<1>4. parameters \in Seq(ParameterValue) /\ Len(parameters) = Len(columns)
  <2>1. <<given>> \in Seq({given}) /\ Len(<<given>>) = 1 /\ Range(<<given>>) = {given}
    BY DEF Range
  <2>2. \A row \in Range(<<given>>), c \in Range(columns) : Scalar(row[c]) \in ParameterValue
    <3>1. \A c \in Range(columns) : given[c] \in Nat
      BY <1>2, <1>3 DEF IsPartialRow
    <3>2. QED
      BY <2>1, <3>1 DEF Scalar, ParameterValue
  <2>3. /\ RowValues(<<given>>, columns) \in Seq(ParameterValue)
        /\ Len(RowValues(<<given>>, columns)) = Len(<<given>>) * Len(columns)
    BY <1>3, <2>1, <2>2, ValuesOfRows
  <2>4. 1 * Len(columns) = Len(columns)
    BY <1>3
  <2>5. QED
    BY <2>1, <2>3, <2>4
<1> HIDE DEF parameters
<1>5. where \in Seq(Filter) /\ \A f \in Range(where) : Sensible(f, TRUE) /\ f.field \in Column
  <2>1. CASE op.allRows
    <3>1. where = <<>> /\ Range(<<>>) = {} /\ <<>> \in Seq(Filter)
      BY <2>1 DEF Range
    <3>2. QED
      BY <3>1
  <2>2. CASE ~op.allRows
    BY <1>1, <2>2, WhereIsSensible
  <2>3. QED
    BY <2>1, <2>2
<1>6. /\ st.verb = "update" /\ st.columns = columns /\ st.tuples = Places(<<given>>, columns)
      /\ st.clauses = Clauses(where, Len(parameters), TRUE)
      /\ st.values = parameters \o Bound(where, TRUE)
  <2>1. Clauses(<<>>, Len(columns), TRUE) = <<>>
    BY DEF Clauses
  <2>2. Bound(<<>>, TRUE) = <<>>
    <3>1. <<>> \in Seq(Filter) /\ TRUE \in BOOLEAN
      OBVIOUS
    <3>2. Bound(<<>>, TRUE) \in Seq({f.value : f \in Range(<<>>)})
      BY <3>1, BoundInOrder
    <3>3. Range(<<>>) = {}
      BY DEF Range
    <3>4. {f.value : f \in Range(<<>>)} = {}
      BY <3>3
    <3>5. Bound(<<>>, TRUE) \in Seq({})
      BY <3>2, <3>4
    <3>6. \A s \in Seq({}) : s = <<>>
      OBVIOUS
    <3>7. QED
      BY <3>5, <3>6
  <2>3. st = Statement("update", columns, Places(<<given>>, columns), WriteWhere(Len(columns)),
                       parameters \o (IF op.allRows THEN <<>> ELSE Bound(op.where, TRUE)))
    BY DEF UpdateStatement, columns, given, parameters
  <2>4. WriteWhere(Len(columns)) = Clauses(where, Len(columns), TRUE)
    BY <2>1 DEF WriteWhere
  <2>5. (IF op.allRows THEN <<>> ELSE Bound(op.where, TRUE)) = Bound(where, TRUE)
    BY <2>2
  <2> HIDE DEF st, where
  <2>6. QED
    BY <1>4, <2>3, <2>4, <2>5 DEF Statement
<1>7. StatementsOf = <<st>>
  BY DEF StatementsOf
<1> HIDE DEF st
<1>8. \A row \in InitTable : Meant(where, row, TRUE) <=> Addressed(row)
  <2>1. \A row \in InitTable : Addressed(row) <=> op.allRows \/ Meant(op.where, row, TRUE)
    BY DEF Addressed
  <2>2. CASE op.allRows
    <3>1. \A row \in InitTable : Meant(<<>>, row, TRUE)
      BY DEF Meant, Range
    <3>2. QED
      BY <2>1, <2>2, <3>1
  <2>3. CASE ~op.allRows
    BY <2>1, <2>3
  <2>4. QED
    BY <2>2, <2>3
<1> HIDE DEF where
<1>9. \A row \in InitTable : Selects(st.clauses, st.values, row) <=> Addressed(row)
  <2> SUFFICES ASSUME NEW row \in InitTable
               PROVE  Selects(st.clauses, st.values, row) <=> Addressed(row)
    OBVIOUS
  <2>1. row \in TableRow
    BY KeyedWriteAssumption DEF TableRow
  <2>2. Selects(Clauses(where, Len(parameters), TRUE), parameters \o Bound(where, TRUE), row)
          <=> Meant(where, row, TRUE)
    BY <1>4, <1>5, <2>1, WhereSelects
  <2>3. QED
    BY <1>6, <1>8, <2>2
<1>10. Tuples(st) = {given}
  <2>1. <<given>> \in Seq({given}) /\ Len(<<given>>) = 1 /\ Range(<<given>>) = {given}
    BY DEF Range
  <2>2. \A p \in 1..(1 * Len(columns)) : st.values[p] = parameters[p]
    <3>1. parameters \in Seq(ParameterValue) /\ Bound(where, TRUE) \in Seq({f.value : f \in Range(where)})
      BY <1>4, <1>5, BoundInOrder
    <3>2. {f.value : f \in Range(where)} \subseteq ParameterValue
      BY <1>5 DEF Sensible, ParameterValue
    <3>3. Bound(where, TRUE) \in Seq(ParameterValue)
      BY <3>1, <3>2, SeqMonotonic
    <3>4. \A p \in 1..(Len(parameters) + Len(Bound(where, TRUE))) :
            (parameters \o Bound(where, TRUE))[p] =
              IF p <= Len(parameters) THEN parameters[p] ELSE Bound(where, TRUE)[p - Len(parameters)]
      BY <3>1, <3>3, ConcatProperties
    <3>5. Len(parameters) \in Nat /\ Len(Bound(where, TRUE)) \in Nat
      BY <3>1, <3>3, LenProperties
    <3>6. \A p \in 1..Len(parameters) : p \in 1..(Len(parameters) + Len(Bound(where, TRUE))) /\ p <= Len(parameters)
      <4>1. \A m, n \in Nat : \A p \in 1..m : p \in 1..(m + n) /\ p <= m
        OBVIOUS
      <4>2. QED
        BY <3>5, <4>1
    <3>7. 1 * Len(columns) = Len(parameters)
      BY <1>3, <1>4
    <3>8. QED
      BY <1>6, <3>4, <3>6, <3>7
  <2>3. IsAbout(st, <<given>>, columns)
    BY <1>6, <2>1, <2>2 DEF IsAbout, parameters
  <2> DEFINE said(row) == [c \in Range(columns) |-> row[c]]
  <2>4. Tuples(st) = {said(row) : row \in Range(<<given>>)}
    BY <1>3, <2>1, <2>3, TuplesOfRows
  <2>5. said(given) = given
    BY <1>2, <1>3
  <2> HIDE DEF said
  <2>6. QED
    BY <2>1, <2>4, <2>5
<1>11. (CHOOSE t \in Tuples(st) : TRUE) = given
  BY <1>10
<1> DEFINE intended(row) == IF Addressed(row) THEN Written(row) ELSE row
           next(row) == IF Selects(st.clauses, st.values, row) THEN Over(CHOOSE t \in Tuples(st) : TRUE, row)
                        ELSE row
<1>12. Effect(st, InitTable) = {next(row) : row \in InitTable}
  BY <1>6 DEF Effect
<1>13. Intended = {intended(row) : row \in InitTable}
  BY DEF Intended
<1>14. \A row \in InitTable : next(row) = intended(row)
  <2>1. \A row \in InitTable : Written(row) = Over(given, row)
    BY DEF Written, given
  <2>2. QED
    BY <1>9, <1>11, <2>1
<1>15. \A row \in InitTable : intended(row) \in TableRow
  <2>1. \A row \in InitTable : row \in TableRow /\ Over(given, row) \in TableRow
    BY <1>2, KeyedWriteAssumption, RowWithPart DEF TableRow
  <2>2. \A row \in InitTable : Written(row) = Over(given, row)
    BY DEF Written, given
  <2>3. QED
    BY <2>1, <2>2
<1> HIDE DEF intended, next
<1>16. Effect(st, InitTable) = Intended
  BY <1>12, <1>13, <1>14
<1>17. Intended \subseteq TableRow
  BY <1>13, <1>15
<1>18. QED
  BY <1>7, <1>16, <1>17, OneStatement

(* Each write that is not refused has statements that make, one after      *)
(* another, what its caller means of the table, or has nothing to do.      *)
LEMMA WriteProgress ==
  ASSUME IsKeyedCall(op), op.method \in WriteMethods, ~DaoThrows
  PROVE  \/ StatementsOf = <<>> /\ Intended = InitTable
         \/ \E made : IsProgress(made)
<1>1. CASE op.method \in {"createMany", "updateMany", "deleteMany"} /\ op.rows = <<>>
  <2>1. StatementsOf = <<>> /\ Range(op.rows) = {}
    <3>1. StatementsOf = <<>>
      BY <1>1, Zenon DEF StatementsOf
    <3>2. Range(<<>>) = {}
      BY DEF Range
    <3>3. QED
      BY <1>1, <3>1, <3>2, Zenon
  <2>2. CASE op.method = "createMany"
    BY <2>1, <2>2 DEF Intended
  <2>3. CASE op.method \in {"updateMany", "deleteMany"}
    <3>1. \A row \in InitTable : ~Addressed(row)
      BY <2>1, <2>3 DEF Addressed
    <3>2. CASE op.method = "updateMany"
      BY <2>1, <3>1, <3>2 DEF Intended
    <3>3. CASE op.method = "deleteMany"
      BY <2>1, <3>1, <3>3 DEF Intended
    <3>4. QED
      BY <2>3, <3>2, <3>3
  <2>4. QED
    BY <1>1, <2>2, <2>3
<1>2. CASE op.method \in {"createMany", "updateMany", "deleteMany"} /\ op.rows # <<>>
  BY <1>2, CreateManyProgress, UpdateManyProgress, DeleteManyProgress
<1>3. CASE op.method \in {"updateBy", "deleteBy"}
  BY <1>3, UpdateByProgress, DeleteByProgress
<1>4. QED
  BY <1>1, <1>2, <1>3 DEF WriteMethods

-----------------------------------------------------------------------------
(* A write is made as it is meant                                          *)

(* The statements up to the n-th have run, and left these rows.            *)
RunUpTo(n, made, rows) ==
  /\ IsProgress(made)
  /\ n \in 0..(Len(StatementsOf) - 1)
  /\ statements = SubSeq(StatementsOf, n + 1, Len(StatementsOf))
  /\ rows = made[n]

WriteInv ==
  /\ write \in {"none", "idle", "refused", "pool", "transaction", "committing",
                "resolved", "rejected", "unknown"}
  /\ write = "none" <=> op.method \notin WriteMethods
  /\ write = "none" \/ read = "none"
  /\ table \subseteq TableRow /\ pending \subseteq TableRow
  /\ op.method \notin {"createMany", "updateMany", "updateBy"} => table \subseteq InitTable
  /\ KeyByKey => Intended \subseteq table
  /\ write \in {"idle", "refused"} => table = InitTable /\ pending = InitTable
  /\ write \notin {"none", "idle", "refused"} => ~DaoThrows
  /\ write = "pool" => ~InTransaction(StatementsOf) /\ \E n, made : RunUpTo(n, made, table)
  /\ write = "transaction" => table = InitTable /\ \E n, made : RunUpTo(n, made, pending)
  /\ write = "committing" => table = InitTable /\ pending = Intended
  /\ write = "resolved" => table = Intended
  /\ write = "rejected" => table = InitTable \/ KeyByKey
  /\ write = "unknown" => table \in {InitTable, Intended} \/ KeyByKey

(* The call is as the interface has it, and stays.                         *)
Given ==
  /\ IsKeyedCall(op) /\ IsReadCall(op)
  /\ \A a, b \in app.list : a = b /\ IsQuery(a)
  /\ request.malformed = Malformed(app.list)
  /\ input # {} => ~request.malformed

(* Only a batch, or the deletes of single keys, have several statements.   *)
LEMMA SeveralStatements ==
  ASSUME op.method \in WriteMethods, op.method \notin {"createMany", "updateMany"}, ~DaoThrows,
         IsKeyedCall(op)
  PROVE  Len(StatementsOf) \in {0, 1} \/ (op.method = "deleteMany" /\ PerKey)
<1>1. op.method \in {"deleteMany", "updateBy", "deleteBy"}
  BY DEF WriteMethods
<1>2. Len(<<>>) = 0 /\ \A st : Len(<<st>>) = 1
  OBVIOUS
<1>3. CASE op.method \in {"updateBy", "deleteBy"}
  <2>1. \E st : StatementsOf = <<st>>
    BY <1>3 DEF StatementsOf
  <2>2. Len(StatementsOf) = 1
    BY <1>2, <2>1, Zenon
  <2>3. QED
    BY <2>2
<1>4. CASE op.method = "deleteMany"
  <2>1. Len(KeyColumns) \in Nat \ {0}
    BY <1>4, KeyedCallFacts, EmptySeq, LenProperties DEF DaoThrows, KeyColumns
  <2>2. CASE op.rows = <<>>
    <3>1. StatementsOf = <<>>
      BY <1>4, <2>2, Zenon DEF StatementsOf
    <3>2. Len(StatementsOf) = 0
      BY <1>2, <3>1, Zenon
    <3>3. QED
      BY <3>2
  <2>3. CASE op.rows # <<>> /\ ~PerKey
    <3>1. StatementsOf = DeleteManyStatements
      BY <1>4, <2>3 DEF StatementsOf
    <3>2. \A l \in Nat \ {0} : (l = 1 /\ ~(l > 1)) \/ (l # 1 /\ l > 1)
      OBVIOUS
    <3>3. \/ Len(KeyColumns) = 1 /\ ~(Len(KeyColumns) > 1)
          \/ Len(KeyColumns) # 1 /\ Len(KeyColumns) > 1
      BY <2>1, <3>2
    <3>4. Len(KeyColumns) > 1 => op.byKeys
      BY <1>4, <2>3 DEF PerKey
    <3>5. \E st : DeleteManyStatements = <<st>>
      BY <3>3, <3>4, Zenon DEF DeleteManyStatements
    <3>6. Len(StatementsOf) = 1
      BY <1>2, <3>1, <3>5, Zenon
    <3>7. QED
      BY <3>6
  <2>4. QED
    BY <1>4, <2>2, <2>3
<1>5. QED
  BY <1>1, <1>3, <1>4

(* On the pool only the deletes of single keys are several.                *)
LEMMA PoolIsKeyByKey ==
  ASSUME IsKeyedCall(op), op.method \in WriteMethods, ~DaoThrows, ~InTransaction(StatementsOf),
         NEW made, IsProgress(made), Len(StatementsOf) # 1
  PROVE  KeyByKey
<1>1. Len(StatementsOf) \in Nat /\ Len(StatementsOf) # 0
  BY LenProperties, EmptySeq DEF IsProgress
<1>2. Len(StatementsOf) > 1
  <2>1. \A l \in Nat : l # 0 /\ l # 1 => l > 1
    OBVIOUS
  <2>2. QED
    BY <1>1, <2>1, Zenon
<1>3. ~op.trx /\ op.method = "deleteMany"
  BY <1>2 DEF InTransaction
<1>4. PerKey
  BY <1>1, <1>3, SeveralStatements
<1>5. QED
  BY <1>3, <1>4 DEF KeyByKey

(* What a call asks for stays while it is under way.                       *)
LEMMA CallStays ==
  ASSUME op' = op
  PROVE  /\ StatementsOf' = StatementsOf /\ Intended' = Intended
         /\ DaoThrows' = DaoThrows /\ KeyByKey' = KeyByKey
         /\ InTransaction(StatementsOf)' = InTransaction(StatementsOf)
         /\ \A made : IsProgress(made)' = IsProgress(made)
<1>1. KeyColumns' = KeyColumns /\ WhereRefused' = WhereRefused /\ SetRefused' = SetRefused
      /\ PerKey' = PerKey
  BY DEF KeyColumns, WhereRefused, SetRefused, PerKey
<1>2. (\A row : KeyMissing(row)' = KeyMissing(row)) /\ (\A a, b : SameKey(a, b)' = SameKey(a, b))
  BY <1>1 DEF KeyMissing, SameKey
<1>3. DaoThrows' = DaoThrows
  BY <1>1, <1>2 DEF DaoThrows
<1>4. StatementsOf' = StatementsOf
  <2>1. InsertStatements' = InsertStatements
    BY DEF InsertStatements
  <2>2. UpdateManyStatements' = UpdateManyStatements
    BY <1>1 DEF UpdateManyStatements
  <2>3. UpdateStatement' = UpdateStatement
    BY DEF UpdateStatement, WriteWhere
  <2>4. DeleteManyStatements' = DeleteManyStatements
    BY <1>1, <1>2 DEF DeleteManyStatements
  <2>5. QED
    BY <2>1, <2>2, <2>3, <2>4 DEF StatementsOf
<1>5. \A row : Addressed(row)' = Addressed(row) /\ Written(row)' = Written(row)
  <2> SUFFICES ASSUME NEW row PROVE Addressed(row)' = Addressed(row) /\ Written(row)' = Written(row)
    OBVIOUS
  <2>1. Addressed(row)' = Addressed(row)
    BY <1>2 DEF Addressed
  <2>2. Written(row)' = Written(row)
    <3>1. (CHOOSE other \in Range(op.rows) : SameKey(row, other)')
            = CHOOSE other \in Range(op.rows) : SameKey(row, other)
      BY <1>2
    <3> DEFINE of == CHOOSE other \in Range(op.rows) : SameKey(row, other)
    <3>2. Written(row) = Over(Prepared(IF op.method = "updateBy" THEN op.set ELSE of), row)
      BY DEF Written
    <3>3. Written(row)' = Over(Prepared(IF op'.method = "updateBy" THEN op'.set ELSE of'), row)
      BY DEF Written
    <3>4. of' = of
      BY <3>1
    <3> HIDE DEF of
    <3>5. QED
      BY <3>2, <3>3, <3>4
  <2>3. QED
    BY <2>1, <2>2
<1>6. Intended' = Intended
  BY <1>5 DEF Intended
<1>7. \A st, rows : Effect(st, rows)' = Effect(st, rows)
  BY <1>2 DEF Effect
<1>8. KeyByKey' = KeyByKey
  BY <1>1 DEF KeyByKey
<1>9. InTransaction(StatementsOf)' = InTransaction(StatementsOf)
  BY <1>4 DEF InTransaction
<1>10. \A made : IsProgress(made)' = IsProgress(made)
  BY <1>4, <1>6, <1>7 DEF IsProgress
<1>11. QED
  BY <1>3, <1>4, <1>6, <1>8, <1>9, <1>10

(* The next statement is the one after those that have run.                *)
LEMMA NextStatement ==
  ASSUME NEW n, NEW made, NEW rows, RunUpTo(n, made, rows), Head(statements) # NoStatement
  PROVE  /\ n \in Nat /\ n + 1 \in 0..Len(StatementsOf) /\ Len(StatementsOf) \in Nat
         /\ Effect(Head(statements), rows) = made[n + 1]
         /\ Tail(statements) = SubSeq(StatementsOf, (n + 1) + 1, Len(StatementsOf))
         /\ Tail(statements) = <<>> <=> n + 1 = Len(StatementsOf)
         /\ made[n + 1] \subseteq TableRow
         /\ op.method \in {"deleteMany", "deleteBy"} =>
              Intended \subseteq made[n + 1] /\ made[n + 1] \subseteq InitTable
<1> DEFINE l == Len(StatementsOf)
<1>1. StatementsOf \in Seq(Range(StatementsOf)) /\ l \in Nat
  BY LenProperties DEF RunUpTo, IsProgress
<1>2. n \in 0..(l - 1) /\ statements = SubSeq(StatementsOf, n + 1, l) /\ rows = made[n]
  BY DEF RunUpTo
<1> HIDE DEF l
<1>3. n \in Nat /\ n + 1 \in 1..l /\ l \in (n + 1)..l /\ (n + 1) - 1 = n /\ n + 1 \in 0..l
  BY <1>1, <1>2
<1>4. Head(statements) = StatementsOf[n + 1] /\ Tail(statements) = SubSeq(StatementsOf, (n + 1) + 1, l)
  BY <1>1, <1>2, <1>3, HeadTailOfSubSeq DEF l
<1>5. /\ Effect(Head(statements), rows) = made[n + 1] /\ made[n + 1] \subseteq TableRow
      /\ op.method \in {"deleteMany", "deleteBy"} =>
           Intended \subseteq made[n + 1] /\ made[n + 1] \subseteq InitTable
  BY <1>2, <1>3, <1>4 DEF RunUpTo, IsProgress, l
<1>6. Tail(statements) = <<>> <=> n + 1 = l
  <2>1. CASE n + 1 = l
    <3>1. (n + 1) + 1 \in Int /\ l \in Int /\ l < (n + 1) + 1
      BY <1>1, <1>3, <2>1
    <3>2. QED
      BY <1>4, <2>1, <3>1, SubSeqEmpty
  <2>2. CASE n + 1 # l
    <3>1. PICK m : m = (n + 1) + 1
      OBVIOUS
    <3>2. m \in Nat \ {0} /\ m <= l /\ m \in Int /\ l \in Int
      BY <1>1, <1>3, <2>2, <3>1
    <3>3. \A i \in m..l : StatementsOf[i] \in Range(StatementsOf)
      <4>1. \A i \in m..l : i \in 1..l
        BY <1>1, <3>2
      <4>2. DOMAIN StatementsOf = 1..l
        BY <1>1, LenProperties DEF l
      <4>3. QED
        BY <4>1, <4>2 DEF Range
    <3>4. Len(SubSeq(StatementsOf, m, l)) = IF m <= l THEN l - m + 1 ELSE 0
      BY <3>2, <3>3, SubSeqProperties
    <3>5. Len(SubSeq(StatementsOf, m, l)) # 0
      BY <1>1, <3>2, <3>4
    <3>6. Len(<<>>) = 0
      OBVIOUS
    <3>7. Tail(statements) # <<>>
      BY <1>4, <3>1, <3>5, <3>6
    <3>8. QED
      BY <2>2, <3>7
  <2>3. QED
    BY <2>1, <2>2
<1>7. QED
  BY <1>1, <1>3, <1>4, <1>5, <1>6 DEF l

(* What is asked for stays.                                                *)
LEMMA AskedOnce == [Next]_vars => UNCHANGED <<app, op>>
BY DEF Next, vars, httpVars, writeVars, EndpointNext, RefuseToStart, Bootstrap, Receive, NotFound,
       EnterContext, Stamp, VerifyCredential, LoadSession, WithScope, AuthorizeScope,
       ValidateRequest, Handle, Rest, StartList, ReadRows, ReadCount, AnswerPage, WriteNext,
       KeyedWriteNext, Refuse, Issue, RunOnPool, RunInTransaction, StatementFails, AnswerLost,
       CommitWrite, CommitWriteFails, ReadKeyed, KeyedReadNext, RefuseRead, IssueRead, ReadNext, ReadFails,
       AnswerRead, OtherEnds, Emit, EmitFails, HandleEvent

(* The call, the list and whether the request is malformed stay as they    *)
(* are.                                                                    *)
LEMMA GivenKept == Given /\ [Next]_vars => Given'
<1> SUFFICES ASSUME Given, [Next]_vars PROVE Given'
  OBVIOUS
<1>1. UNCHANGED <<app, op>>
  BY AskedOnce
<1>2. input' # {} => ~request.malformed
  <2>1. CASE UNCHANGED input
    BY <2>1 DEF Given
  <2>2. CASE ValidateRequest
    <3>1. input' = input \/ ~request.malformed
      BY <2>2 DEF ValidateRequest, Throw
    <3>2. QED
      BY <3>1 DEF Given
  <2>3. QED
    BY <2>1, <2>2
    DEF Next, vars, httpVars, EndpointNext, RefuseToStart, Bootstrap, Receive, NotFound,
        EnterContext, Stamp, VerifyCredential, LoadSession, WithScope, AuthorizeScope,
        Handle, Rest, StartList, ReadRows, ReadCount, AnswerPage, WriteNext, ReadKeyed,
        Emit, EmitFails, HandleEvent
<1>3. QED
  BY <1>1, <1>2 DEF Given, request

(* Steps that do not write leave what is known of the write.               *)
LEMMA WriteStays ==
  ASSUME WriteInv, UNCHANGED <<op, table, pending, statements, write>>, write = "none" \/ read' = "none"
  PROVE  WriteInv'
<1>1. /\ StatementsOf' = StatementsOf /\ Intended' = Intended
      /\ DaoThrows' = DaoThrows /\ KeyByKey' = KeyByKey
      /\ InTransaction(StatementsOf)' = InTransaction(StatementsOf)
  BY CallStays
<1>2. /\ (\E n, made : RunUpTo(n, made, table)) => (\E n, made : RunUpTo(n, made, table)')
      /\ (\E n, made : RunUpTo(n, made, pending)) => (\E n, made : RunUpTo(n, made, pending)')
  BY <1>1, CallStays DEF RunUpTo
<1>3. QED
  BY <1>1, <1>2 DEF WriteInv

(* A call that is issued: its statements are yet to be run.                *)
LEMMA IssueKeeps == Given /\ WriteInv /\ Issue /\ UNCHANGED readVars => WriteInv'
<1> SUFFICES ASSUME Given, WriteInv, Issue, UNCHANGED readVars PROVE WriteInv'
  OBVIOUS
<1>1. /\ op.method \in WriteMethods /\ ~DaoThrows /\ IsKeyedCall(op)
      /\ table = InitTable /\ pending = InitTable /\ read = "none"
      /\ UNCHANGED <<op, table, pending, read>> /\ statements' = StatementsOf
  BY DEF Issue, WriteInv, Given, readVars
<1>2. /\ StatementsOf' = StatementsOf /\ Intended' = Intended
      /\ DaoThrows' = DaoThrows /\ KeyByKey' = KeyByKey
      /\ InTransaction(StatementsOf)' = InTransaction(StatementsOf)
      /\ \A made : IsProgress(made)' = IsProgress(made)
  BY <1>1, CallStays
<1>3. write' = IF StatementsOf = <<>> THEN "resolved"
               ELSE IF InTransaction(StatementsOf) THEN "transaction" ELSE "pool"
  BY DEF Issue
<1>4. table \subseteq TableRow /\ pending \subseteq TableRow
  BY DEF WriteInv
<1>5. CASE StatementsOf = <<>>
  <2>1. \A made : ~IsProgress(made)
    BY <1>5 DEF IsProgress
  <2>2. Intended = InitTable
    BY <1>1, <2>1, WriteProgress
  <2>3. QED
    BY <1>1, <1>2, <1>3, <1>4, <1>5, <2>2 DEF WriteInv
<1>6. CASE StatementsOf # <<>>
  <2>1. PICK made : IsProgress(made)
    BY <1>1, <1>6, WriteProgress
  <2>2. StatementsOf \in Seq(Range(StatementsOf)) /\ made[0] = InitTable
    BY <2>1 DEF IsProgress
  <2>3. Len(StatementsOf) \in Nat \ {0}
    BY <1>6, <2>2, LenProperties, EmptySeq
  <2>4. 0 \in 0..(Len(StatementsOf) - 1) /\ 0 + 1 = 1
    BY <2>3
  <2>5. SubSeq(StatementsOf, 1, Len(StatementsOf)) = StatementsOf
    BY <2>2, SubSeqFull
  <2>6. RunUpTo(0, made, table)' /\ RunUpTo(0, made, pending)'
    BY <1>1, <1>2, <2>1, <2>2, <2>4, <2>5 DEF RunUpTo
  <2>7. (\E n, m : RunUpTo(n, m, table)') /\ (\E n, m : RunUpTo(n, m, pending)')
    BY <2>6
  <2>8. write' = IF InTransaction(StatementsOf) THEN "transaction" ELSE "pool"
    BY <1>3, <1>6
  <2>9. QED
    BY <1>1, <1>2, <1>4, <2>7, <2>8 DEF WriteInv
<1>7. QED
  BY <1>5, <1>6

(* A statement that runs makes the next piece of what is meant.            *)
LEMMA RunKeeps ==
  ASSUME Given, WriteInv, RunOnPool \/ RunInTransaction, UNCHANGED readVars
  PROVE  WriteInv'
<1>1. /\ op.method \in WriteMethods /\ ~DaoThrows /\ IsKeyedCall(op) /\ read = "none"
      /\ UNCHANGED <<op, read>> /\ statements' = Tail(statements)
      /\ Head(statements) # NoStatement
      /\ table \subseteq TableRow /\ pending \subseteq TableRow
  BY DEF RunOnPool, RunInTransaction, WriteInv, Given, readVars
<1>2. /\ StatementsOf' = StatementsOf /\ Intended' = Intended
      /\ DaoThrows' = DaoThrows /\ KeyByKey' = KeyByKey
      /\ InTransaction(StatementsOf)' = InTransaction(StatementsOf)
      /\ \A made : IsProgress(made)' = IsProgress(made)
  BY <1>1, CallStays
<1>3. ASSUME NEW n, NEW made, NEW rows, RunUpTo(n, made, rows)
      PROVE  /\ Effect(Head(statements), rows) \subseteq TableRow
             /\ op.method \in {"deleteMany", "deleteBy"} =>
                  /\ Intended \subseteq Effect(Head(statements), rows)
                  /\ Effect(Head(statements), rows) \subseteq InitTable
             /\ statements' = <<>> => Effect(Head(statements), rows) = Intended
             /\ statements' # <<>> =>
                  \A next : next = Effect(Head(statements), rows) => RunUpTo(n + 1, made, next)'
  <2>1. /\ n \in Nat /\ n + 1 \in 0..Len(StatementsOf) /\ Len(StatementsOf) \in Nat
        /\ Effect(Head(statements), rows) = made[n + 1]
        /\ Tail(statements) = SubSeq(StatementsOf, (n + 1) + 1, Len(StatementsOf))
        /\ Tail(statements) = <<>> <=> n + 1 = Len(StatementsOf)
        /\ made[n + 1] \subseteq TableRow
        /\ op.method \in {"deleteMany", "deleteBy"} =>
             Intended \subseteq made[n + 1] /\ made[n + 1] \subseteq InitTable
    BY <1>1, <1>3, NextStatement
  <2>2. IsProgress(made)
    BY <1>3 DEF RunUpTo
  <2>3. statements' = <<>> => Effect(Head(statements), rows) = Intended
    BY <1>1, <2>1, <2>2 DEF IsProgress
  <2>4. ASSUME statements' # <<>>
        PROVE  n + 1 \in 0..(Len(StatementsOf) - 1)
    BY <1>1, <2>1, <2>4
  <2>5. QED
    BY <1>1, <1>2, <2>1, <2>2, <2>3, <2>4 DEF RunUpTo
<1>4. CASE RunOnPool
  <2>1. /\ ~InTransaction(StatementsOf)
        /\ table' = Effect(Head(statements), table) /\ UNCHANGED pending
        /\ write' = IF statements' = <<>> THEN "resolved" ELSE "pool"
    BY <1>4 DEF RunOnPool, WriteInv
  <2>2. PICK n, made : RunUpTo(n, made, table)
    BY <1>4 DEF RunOnPool, WriteInv
  <2>3. /\ table' \subseteq TableRow
        /\ op.method \in {"deleteMany", "deleteBy"} =>
             Intended \subseteq table' /\ table' \subseteq InitTable
        /\ statements' = <<>> => table' = Intended
        /\ statements' # <<>> => RunUpTo(n + 1, made, table)'
    <3>1. /\ Effect(Head(statements), table) \subseteq TableRow
          /\ op.method \in {"deleteMany", "deleteBy"} =>
               /\ Intended \subseteq Effect(Head(statements), table)
               /\ Effect(Head(statements), table) \subseteq InitTable
          /\ statements' = <<>> => Effect(Head(statements), table) = Intended
      BY <1>3, <2>2
    <3>2. ASSUME statements' # <<>> PROVE RunUpTo(n + 1, made, table)'
      <4>1. PICK next : next = Effect(Head(statements), table)
        OBVIOUS
      <4>2. RunUpTo(n + 1, made, next)' /\ table' = next
        BY <1>3, <2>1, <2>2, <3>2, <4>1
      <4>3. QED
        BY <4>2 DEF RunUpTo
    <3>3. QED
      BY <2>1, <3>1, <3>2
  <2>4. statements' # <<>> => \E k, m : RunUpTo(k, m, table)'
    BY <2>3
  <2>5. op.method \notin {"createMany", "updateMany", "updateBy"} => table' \subseteq InitTable
    BY <1>1, <2>3 DEF WriteMethods
  <2>6. KeyByKey => Intended \subseteq table'
    BY <2>3 DEF KeyByKey
  <2>7. QED
    BY <1>1, <1>2, <2>1, <2>3, <2>4, <2>5, <2>6 DEF WriteInv
<1>5. CASE RunInTransaction
  <2>1. /\ table = InitTable /\ UNCHANGED table
        /\ pending' = Effect(Head(statements), pending)
        /\ write' = IF statements' = <<>> THEN "committing" ELSE "transaction"
    BY <1>5 DEF RunInTransaction, WriteInv
  <2>2. PICK n, made : RunUpTo(n, made, pending)
    BY <1>5 DEF RunInTransaction, WriteInv
  <2>3. /\ pending' \subseteq TableRow
        /\ statements' = <<>> => pending' = Intended
        /\ statements' # <<>> => RunUpTo(n + 1, made, pending)'
    <3>1. /\ Effect(Head(statements), pending) \subseteq TableRow
          /\ statements' = <<>> => Effect(Head(statements), pending) = Intended
      BY <1>3, <2>2
    <3>2. ASSUME statements' # <<>> PROVE RunUpTo(n + 1, made, pending)'
      <4>1. PICK next : next = Effect(Head(statements), pending)
        OBVIOUS
      <4>2. RunUpTo(n + 1, made, next)' /\ pending' = next
        BY <1>3, <2>1, <2>2, <3>2, <4>1
      <4>3. QED
        BY <4>2 DEF RunUpTo
    <3>3. QED
      BY <2>1, <3>1, <3>2
  <2>4. statements' # <<>> => \E k, m : RunUpTo(k, m, pending)'
    BY <2>3
  <2>5. QED
    BY <1>1, <1>2, <2>1, <2>3, <2>4 DEF WriteInv
<1>6. QED
  BY <1>4, <1>5

(* Before it ends a write has left the table as it was, but for the        *)
(* deletes of single keys.                                                 *)
LEMMA BeforeTheEnd ==
  ASSUME Given, WriteInv, write \in {"pool", "transaction"}
  PROVE  table = InitTable \/ KeyByKey
<1>1. op.method \in WriteMethods /\ ~DaoThrows /\ IsKeyedCall(op)
  BY DEF WriteInv, Given
<1>2. CASE write = "transaction"
  BY <1>2 DEF WriteInv
<1>3. CASE write = "pool"
  <2>1. PICK n, made : RunUpTo(n, made, table)
    BY <1>3 DEF WriteInv
  <2>2. IsProgress(made) /\ n \in 0..(Len(StatementsOf) - 1) /\ table = made[n]
    BY <2>1 DEF RunUpTo
  <2>3. CASE Len(StatementsOf) = 1
    <3>1. n = 0
      BY <2>2, <2>3
    <3>2. QED
      BY <2>2, <3>1 DEF IsProgress
  <2>4. CASE Len(StatementsOf) # 1
    BY <1>1, <1>3, <2>2, <2>4, PoolIsKeyByKey DEF WriteInv
  <2>5. QED
    BY <2>3, <2>4
<1>4. QED
  BY <1>2, <1>3

(* A statement that fails leaves the table as it was, but for the deletes  *)
(* of single keys.                                                         *)
LEMMA FailKeeps ==
  ASSUME Given, WriteInv, StatementFails, UNCHANGED readVars
  PROVE  WriteInv'
<1>1. /\ op.method \in WriteMethods /\ ~DaoThrows /\ IsKeyedCall(op) /\ read = "none"
      /\ UNCHANGED <<op, table, read>> /\ pending' = table /\ write' = "rejected"
      /\ table \subseteq TableRow
  BY DEF StatementFails, WriteInv, Given, readVars
<1>2. DaoThrows' = DaoThrows /\ KeyByKey' = KeyByKey /\ Intended' = Intended
  BY <1>1, CallStays
<1>3. table = InitTable \/ KeyByKey
  BY BeforeTheEnd DEF StatementFails
<1>4. QED
  BY <1>1, <1>2, <1>3 DEF WriteInv

(* A statement on the pool whose answer is lost has been made or not; it   *)
(* is all of the write, but for the deletes of single keys.                *)
LEMMA LostKeeps ==
  ASSUME Given, WriteInv, AnswerLost, UNCHANGED readVars
  PROVE  WriteInv'
<1>1. /\ op.method \in WriteMethods /\ ~DaoThrows /\ IsKeyedCall(op) /\ read = "none"
      /\ UNCHANGED <<op, pending, read>> /\ write = "pool" /\ write' = "unknown"
      /\ table' \in {table, Effect(Head(statements), table)} /\ Head(statements) # NoStatement
      /\ table \subseteq TableRow /\ pending \subseteq TableRow
  BY DEF AnswerLost, WriteInv, Given, readVars
<1>2. DaoThrows' = DaoThrows /\ KeyByKey' = KeyByKey /\ Intended' = Intended
  BY <1>1, CallStays
<1>3. PICK n, made : RunUpTo(n, made, table)
  BY <1>1 DEF WriteInv
<1>4. /\ Effect(Head(statements), table) = made[n + 1] /\ made[n + 1] \subseteq TableRow
      /\ op.method \in {"deleteMany", "deleteBy"} =>
           Intended \subseteq made[n + 1] /\ made[n + 1] \subseteq InitTable
  BY <1>1, <1>3, NextStatement
<1>5. /\ table' \subseteq TableRow
      /\ op.method \notin {"createMany", "updateMany", "updateBy"} => table' \subseteq InitTable
      /\ KeyByKey => Intended \subseteq table'
  BY <1>1, <1>4 DEF WriteInv, WriteMethods, KeyByKey
<1>6. table' \in {InitTable, Intended} \/ KeyByKey
  <2>1. CASE table' = table
    BY <1>1, <2>1, BeforeTheEnd
  <2>2. CASE table' = made[n + 1] /\ Len(StatementsOf) = 1
    <3>1. IsProgress(made) /\ n + 1 = Len(StatementsOf)
      BY <1>3, <2>2 DEF RunUpTo
    <3>2. QED
      BY <2>2, <3>1 DEF IsProgress
  <2>3. CASE Len(StatementsOf) # 1
    BY <1>1, <1>3, <2>3, PoolIsKeyByKey DEF RunUpTo, WriteInv
  <2>4. QED
    BY <1>1, <1>4, <2>1, <2>2, <2>3
<1>7. QED
  BY <1>1, <1>2, <1>5, <1>6 DEF WriteInv

(* Every step keeps what is known of a write.                              *)
LEMMA WriteInvKept == Given /\ WriteInv /\ [Next]_vars => WriteInv'
<1> SUFFICES ASSUME Given, WriteInv, [Next]_vars PROVE WriteInv'
  OBVIOUS
<1>1. CASE UNCHANGED <<writeVars, readVars>>
  BY <1>1, WriteStays DEF WriteInv, writeVars, readVars
<1>2. CASE WriteNext
  <2>1. KeyedWriteNext /\ UNCHANGED readVars
    BY <1>2 DEF WriteNext
  <2>2. CASE Refuse
    <3>1. /\ UNCHANGED <<op, table, pending, read>> /\ write = "idle" /\ write' = "refused"
      BY <2>1, <2>2 DEF Refuse, readVars
    <3>2. Intended' = Intended /\ KeyByKey' = KeyByKey
      BY <3>1, CallStays
    <3>3. QED
      BY <3>1, <3>2 DEF WriteInv
  <2>3. CASE CommitWrite \/ CommitWriteFails
    <3>1. /\ UNCHANGED <<op, pending, read>> /\ write = "committing"
          /\ \/ write' = "resolved" /\ table' = pending
             \/ write' = "unknown" /\ table' \in {table, pending}
      BY <2>1, <2>3 DEF CommitWrite, CommitWriteFails, readVars
    <3>2. Intended' = Intended /\ DaoThrows' = DaoThrows /\ KeyByKey' = KeyByKey
      BY <3>1, CallStays
    <3>3. table = InitTable /\ pending = Intended
      BY <3>1 DEF WriteInv
    <3>4. op.method \notin {"createMany", "updateMany", "updateBy"} => Intended \subseteq InitTable
      BY DEF Intended
    <3>5. QED
      BY <3>1, <3>2, <3>3, <3>4 DEF WriteInv
  <2>4. QED
    BY <2>1, <2>2, <2>3, IssueKeeps, RunKeeps, FailKeeps, LostKeeps DEF KeyedWriteNext
<1>3. CASE ReadKeyed
  <2>1. KeyedReadNext
    BY <1>3 DEF ReadKeyed
  <2>2. write = "none" /\ UNCHANGED <<op, pending, statements, write>>
    BY <2>1 DEF KeyedReadNext, RefuseRead, IssueRead, ReadNext, ReadFails, AnswerRead, OtherEnds,
                writeVars, WriteInv
  <2>3. table' \subseteq table
    BY <2>1 DEF KeyedReadNext, RefuseRead, IssueRead, ReadNext, ReadFails, AnswerRead, OtherEnds,
                writeVars
  <2>4. ~KeyByKey'
    BY <2>2 DEF WriteInv, KeyByKey, WriteMethods
  <2>5. QED
    BY <2>2, <2>3, <2>4 DEF WriteInv
<1>4. QED
  BY <1>1, <1>2, <1>3 DEF Next, vars, StartList, ReadRows, ReadCount, AnswerPage, Emit, EmitFails,
                          HandleEvent

(* A service starts with a call that is under the interface, and nothing   *)
(* written.                                                                *)
LEMMA CallInit == Init => Given /\ WriteInv
<1> SUFFICES ASSUME Init PROVE Given /\ WriteInv
  OBVIOUS
<1>1. PICK c \in Cases :
        /\ EndpointInit({[options |-> c.options, list |-> c.list,
                          request |-> Over([malformed |-> Malformed(c.list)], c.request)]})
        /\ KeyedWriteInit({c.op})
        /\ KeyedReadInit
  BY DEF Init
<1>2. /\ op = c.op /\ table = InitTable /\ pending = InitTable
      /\ write = IF op.method \in WriteMethods THEN "idle" ELSE "none"
      /\ read = IF op.method \in WriteMethods \cup {"none"} THEN "none" ELSE "idle"
  BY <1>1 DEF KeyedWriteInit, KeyedReadInit
<1>3. app.list = c.list /\ input = {} /\ request.malformed = Malformed(app.list)
  BY <1>1 DEF EndpointInit, request, Over
<1>4. Given
  BY <1>2, <1>3, RequestsAssumption DEF Given
<1>5. InitTable \subseteq TableRow
  BY KeyedWriteAssumption DEF TableRow
<1>6. op.method = "deleteMany" => Intended \subseteq InitTable
  BY DEF Intended
<1>7. WriteInv
  BY <1>2, <1>5, <1>6 DEF WriteInv, KeyByKey
<1>8. QED
  BY <1>4, <1>7

-----------------------------------------------------------------------------
(* The statements of a list                                                *)

(* What passes the schema is a filter that can be made a clause.           *)
LEMMA ParsedIsSensible ==
  ASSUME NEW query, IsQuery(query), ~Rejected(query), NEW f \in Range(ParsedFilters(query))
  PROVE  Sensible(f, FALSE) /\ f.field \in Column /\ f.value \in ParameterValue
<1> DEFINE P == {i \in DOMAIN query.filters : KnownKey(query.filters[i])}
<1>1. query.filters \in Seq(Filter) /\ P \in SUBSET (DOMAIN query.filters)
  BY DEF IsQuery
<1>2. Range(ParsedFilters(query)) = {query.filters[i] : i \in P}
  BY <1>1, RangeOfKept DEF ParsedFilters
<1>3. PICK i \in DOMAIN query.filters : f = query.filters[i] /\ KnownKey(f)
  BY <1>2
<1>4. f \in Filter /\ f \in Range(query.filters)
  BY <1>1, <1>3, Elements DEF Range
<1>5. ~IllTyped(f)
  BY <1>3, <1>4 DEF Rejected
<1>6. /\ f.value \in [many : BOOLEAN, items : SUBSET (0..9)]
      /\ f.value.many \/ \A a, b \in f.value.items : a = b
  BY <1>4 DEF Filter, Value, NULL, No
<1>7. f.value.many => f.suffix \in {"in", "notIn"}
  BY <1>5 DEF IllTyped
<1>8. f.value \in ParameterValue
  BY <1>6 DEF ParameterValue
<1>9. ASSUME ~f.value.many
      PROVE  \E v \in Nat : f.value = Scalar(v)
  <2>1. PICK v : v \in f.value.items
    BY <1>5, <1>9 DEF IllTyped
  <2>2. f.value.items = {v} /\ v \in Nat /\ f.value = [many |-> f.value.many, items |-> f.value.items]
    BY <1>6, <1>9, <2>1
  <2>3. f.value.many = FALSE
    BY <1>6, <1>9
  <2>4. QED
    BY <2>2, <2>3 DEF Scalar
<1>10. f.field \in DOMAIN Kind /\ f.suffix \in {"bare"} \cup OperatorsByKind[Kind[f.field]]
  BY <1>3 DEF KnownKey
<1>11. f.suffix \in Operators \cup {"bare"}
  <2>1. Kind[f.field] \in {"string", "number", "boolean", "enum"}
    BY <1>10, ListQueryAssumption
  <2>2. OperatorsByKind[Kind[f.field]] \subseteq Operators
    BY <2>1 DEF OperatorsByKind, Operators
  <2>3. QED
    BY <1>10, <2>2
<1>12. f.field \in Column
  BY <1>10, RequestsAssumption
<1>13. QED
  BY <1>7, <1>8, <1>9, <1>11, <1>12 DEF Sensible, ParameterValue

OwnFilter(n) == [field |-> "scope", suffix |-> "bare", value |-> Scalar(n)]

(* The handler's own filter is of the scope, and of one number.            *)
LEMMA OwnIsSensible ==
  ASSUME NEW own \in Own
  PROVE  /\ \E n \in {SessionScope, ClientScope} : own = <<OwnFilter(n)>>
         /\ \A f \in Range(own) : /\ Sensible(f, FALSE) /\ f.field \in Column /\ f.value \in ParameterValue
                                  /\ f.field = "scope" /\ f.suffix = "bare"
         /\ own \in Seq(Range(own)) /\ Range(own) # {}
<1>1. PICK n \in {SessionScope, ClientScope} : own = <<OwnFilter(n)>>
  BY DEF Own, ScopeOf, OwnFilter
<1>2. own \in Seq(Range(own)) /\ Range(own) = {OwnFilter(n)}
  BY <1>1 DEF Range
<1>3. n \in Nat
  BY DEF SessionScope, ClientScope
<1>4. /\ OwnFilter(n).field = "scope" /\ OwnFilter(n).suffix = "bare" /\ OwnFilter(n).value = Scalar(n)
      /\ Scalar(n) \in ParameterValue /\ ~Scalar(n).many
  BY <1>3 DEF OwnFilter, Scalar, ParameterValue
<1>5. Sensible(OwnFilter(n), FALSE)
  BY <1>3, <1>4 DEF Sensible, ParameterValue
<1>6. QED
  BY <1>1, <1>2, <1>4, <1>5, RequestsAssumption

(* Of the client's filters one that the handler sets is replaced, no other *)
(* one.                                                                    *)
LEMMA EffectiveMeans ==
  ASSUME NEW query, IsQuery(query), NEW own \in Own, NEW row
  PROVE  /\ EffectiveFilters(query, own) \in Seq(Range(ParsedFilters(query)) \cup Range(own))
         /\ Meant(EffectiveFilters(query, own), row, FALSE) <=>
              /\ \A f \in Range(ParsedFilters(query)) : Replaced(f) \/ Means(f, row[f.field], FALSE)
              /\ Meant(own, row, FALSE)
<1> DEFINE parsed == ParsedFilters(query)
           P == {i \in DOMAIN parsed : \A g \in Range(own) : ~SameFilterKey(parsed[i], g)}
           T == Range(parsed) \cup Range(own)
<1>1. parsed \in Seq(Filter)
  <2>1. query.filters \in Seq(Filter)
    BY DEF IsQuery
  <2>2. {i \in DOMAIN query.filters : KnownKey(query.filters[i])} \in SUBSET (DOMAIN query.filters)
    OBVIOUS
  <2>3. QED
    BY <2>1, <2>2, KeptInOrder DEF ParsedFilters
<1>2. parsed \in Seq(Range(parsed))
  <2>1. DOMAIN parsed = 1..Len(parsed) /\ Len(parsed) \in Nat
    BY <1>1, Elements
  <2>2. parsed \in [1..Len(parsed) -> Range(parsed)]
    BY <1>1, <2>1 DEF Range
  <2>3. QED
    BY <2>1, <2>2
<1>3. P \in SUBSET (DOMAIN parsed)
  OBVIOUS
<1>4. EffectiveFilters(query, own) = Kept(parsed, P) \o own
  BY DEF EffectiveFilters
<1> HIDE DEF parsed
<1>5. \A i \in DOMAIN parsed : i \in P <=> ~Replaced(parsed[i])
  <2>1. Range(own) # {} /\ \A g \in Range(own) : g.field = "scope" /\ g.suffix = "bare"
    BY OwnIsSensible
  <2>2. QED
    BY <2>1 DEF SameFilterKey, Replaced
<1>6. Kept(parsed, P) \in Seq(Range(parsed)) /\ Range(Kept(parsed, P)) = {parsed[i] : i \in P}
  BY <1>2, <1>3, KeptInOrder, RangeOfKept
<1> HIDE DEF P
<1>7. Kept(parsed, P) \in Seq(T) /\ own \in Seq(T)
  BY <1>6, SeqMonotonic, OwnIsSensible
<1>8. EffectiveFilters(query, own) \in Seq(T)
  BY <1>4, <1>7, ConcatProperties
<1>9. Range(EffectiveFilters(query, own)) = {parsed[i] : i \in P} \cup Range(own)
  BY <1>4, <1>6, <1>7, RangeConcatenation
<1>10. (\A f \in {parsed[i] : i \in P} : Means(f, row[f.field], FALSE))
         <=> \A f \in Range(parsed) : Replaced(f) \/ Means(f, row[f.field], FALSE)
  BY <1>3, <1>5 DEF Range
<1>11. QED
  BY <1>8, <1>9, <1>10 DEF Meant, parsed

(* The statement of a page, and of the count, selects the rows that the    *)
(* query means.                                                            *)
LEMMA BuildSelects ==
  ASSUME NEW query, IsQuery(query), ~Rejected(query), NEW own \in Own, NEW page, NEW row \in TableRow
  PROVE  Selects(Build(query, own, page).clauses, Build(query, own, page).values, row) <=>
           /\ \A f \in Range(ParsedFilters(query)) : Replaced(f) \/ Means(f, row[f.field], FALSE)
           /\ Meant(own, row, FALSE)
           /\ \A c \in Range(query.conditions) : IsTrue(c.op, row[c.field], Head(c.params))
<1> DEFINE filters == EffectiveFilters(query, own)
           conditions == query.conditions
           bound == Bound(filters, FALSE)
           heads == [i \in DOMAIN conditions |-> Head(conditions[i].params)]
           values == bound \o heads
           clauses == Clauses(filters, 0, FALSE)
           rebased == Rebased(conditions, Len(bound))
           T == Range(ParsedFilters(query)) \cup Range(own)
<1>1. filters \in Seq(T)
      /\ (Meant(filters, row, FALSE) <=>
            /\ \A f \in Range(ParsedFilters(query)) : Replaced(f) \/ Means(f, row[f.field], FALSE)
            /\ Meant(own, row, FALSE))
  BY EffectiveMeans
<1>2. \A f \in T : Sensible(f, FALSE) /\ f.field \in Column /\ f.value \in ParameterValue
  BY ParsedIsSensible, OwnIsSensible
<1>3. /\ Build(query, own, page).clauses = clauses \o rebased
      /\ Build(query, own, page).values = values
  BY DEF Build
<1> HIDE DEF filters, T
<1>4. \A f \in Range(filters) : f \in T
  BY <1>1, RangeOfSeq
<1>5. /\ conditions \in Seq([field : Column, op : Operators, marks : Nat, params : Seq(Value)])
      /\ \A c \in Range(conditions) : Len(c.params) = 1
  BY DEF IsQuery
<1>6. DOMAIN conditions = 1..Len(conditions) /\ Len(conditions) \in Nat
  BY <1>5, Elements
<1> HIDE DEF conditions
<1>7. heads \in Seq(ParameterValue) /\ Len(heads) = Len(conditions)
  <2>1. \A i \in DOMAIN conditions : heads[i] \in ParameterValue
    <3> SUFFICES ASSUME NEW i \in DOMAIN conditions PROVE heads[i] \in ParameterValue
      OBVIOUS
    <3>1. conditions[i].params \in Seq(Value) /\ Len(conditions[i].params) = 1
      <4>1. conditions[i] \in [field : Column, op : Operators, marks : Nat, params : Seq(Value)]
        BY <1>5, Elements
      <4>2. conditions[i] \in Range(conditions)
        BY DEF Range
      <4>3. QED
        BY <1>5, <4>1, <4>2
    <3>2. Head(conditions[i].params) \in Value
      BY <3>1, HeadTailProperties, EmptySeq
    <3>3. Value \subseteq ParameterValue
      BY DEF Value, ParameterValue, NULL, No
    <3>4. QED
      BY <3>2, <3>3
  <2>2. heads \in [1..Len(conditions) -> ParameterValue]
    BY <1>6, <2>1
  <2>3. QED
    BY <1>6, <2>2
<1>8. bound \in Seq(ParameterValue) /\ Len(bound) \in Nat
  <2>1. bound \in Seq({f.value : f \in Range(filters)})
    BY <1>1, BoundInOrder
  <2>2. {f.value : f \in Range(filters)} \subseteq ParameterValue
    BY <1>2, <1>4
  <2>3. bound \in Seq(ParameterValue)
    BY <2>1, <2>2, SeqMonotonic
  <2>4. QED
    BY <2>3, LenProperties
<1> HIDE DEF bound
<1>9. Selects(clauses, values, row) <=> Meant(filters, row, FALSE)
  <2>1. <<>> \in Seq(ParameterValue) /\ Len(<<>>) = 0 /\ <<>> \o bound = bound
    BY <1>8, ConcatEmptySeq
  <2>2. \A f \in Range(filters) : f.value \in ParameterValue /\ Sensible(f, FALSE)
    BY <1>2, <1>4
  <2>3. \A f \in Range(filters) : row[f.field] \in Nat
    BY <1>2, <1>4 DEF TableRow
  <2> HIDE DEF heads
  <2>4. \A before \in Seq(ParameterValue) :
          Selects(Clauses(filters, Len(before), FALSE), (before \o Bound(filters, FALSE)) \o heads, row)
            <=> Meant(filters, row, FALSE)
    BY <1>1, <1>7, <2>2, <2>3, ClausesMean
  <2>5. Selects(Clauses(filters, Len(<<>>), FALSE), (<<>> \o bound) \o heads, row)
          <=> Meant(filters, row, FALSE)
    BY <2>1, <2>4 DEF bound
  <2>6. QED
    BY <2>1, <2>5
<1>10. Selects(rebased, values, row) <=>
         \A c \in Range(conditions) : IsTrue(c.op, row[c.field], Head(c.params))
  <2>1. ASSUME NEW i \in DOMAIN conditions
        PROVE  /\ rebased[i].at # 0 /\ values[rebased[i].at] = Head(conditions[i].params)
               /\ rebased[i].op = conditions[i].op /\ rebased[i].field = conditions[i].field
    <3>1. /\ rebased[i].at = Len(bound) + i
          /\ rebased[i].op = conditions[i].op /\ rebased[i].field = conditions[i].field
      BY DEF Rebased
    <3>2. \A m, l \in Nat : \A j \in 1..l :
            m + j # 0 /\ m + j \in 1..(m + l) /\ ~(m + j <= m) /\ (m + j) - m = j
      OBVIOUS
    <3>3. /\ Len(bound) + i # 0 /\ Len(bound) + i \in 1..(Len(bound) + Len(heads))
          /\ ~(Len(bound) + i <= Len(bound)) /\ (Len(bound) + i) - Len(bound) = i
      BY <1>6, <1>7, <1>8, <3>2
    <3> HIDE DEF heads
    <3>4. values[Len(bound) + i] = heads[i]
      <4>1. \A k \in 1..(Len(bound) + Len(heads)) :
              values[k] = IF k <= Len(bound) THEN bound[k] ELSE heads[k - Len(bound)]
        BY <1>7, <1>8, ConcatProperties
      <4>2. QED
        BY <3>3, <4>1
    <3> HIDE DEF values
    <3>5. QED
      BY <3>1, <3>3, <3>4 DEF heads
  <2>2. DOMAIN rebased = DOMAIN conditions
    BY DEF Rebased
  <2> HIDE DEF rebased, values
  <2>3. Selects(rebased, values, row) <=>
          \A i \in DOMAIN conditions :
            IsTrue(rebased[i].op, row[rebased[i].field],
                   IF rebased[i].at = 0 THEN Scalar(NULL) ELSE values[rebased[i].at])
    BY <2>2 DEF Selects, Range
  <2>4. (\A c \in Range(conditions) : IsTrue(c.op, row[c.field], Head(c.params))) <=>
          \A i \in DOMAIN conditions :
            IsTrue(conditions[i].op, row[conditions[i].field], Head(conditions[i].params))
    BY DEF Range
  <2>5. QED
    BY <2>1, <2>3, <2>4
<1>11. Selects(clauses \o rebased, values, row) <=>
         Selects(clauses, values, row) /\ Selects(rebased, values, row)
  <2> DEFINE C == Range(clauses) \cup Range(rebased)
  <2>1. clauses \in Seq(C)
    <3>1. DOMAIN filters = 1..Len(filters) /\ Len(filters) \in Nat
      BY <1>1, Elements
    <3>2. DOMAIN clauses = 1..Len(filters) /\ clauses = [i \in DOMAIN clauses |-> clauses[i]]
      BY <3>1 DEF Clauses
    <3> HIDE DEF clauses
    <3>3. clauses \in [1..Len(filters) -> C]
      BY <3>2 DEF Range
    <3>4. QED
      BY <3>1, <3>3
  <2>2. rebased \in Seq(C)
    <3>1. DOMAIN rebased = 1..Len(conditions) /\ rebased = [i \in DOMAIN rebased |-> rebased[i]]
      BY <1>6 DEF Rebased
    <3> HIDE DEF rebased
    <3>2. rebased \in [1..Len(conditions) -> C]
      BY <3>1 DEF Range
    <3>3. \A S : \A n \in Nat : \A f \in [1..n -> S] : f \in Seq(S)
      OBVIOUS
    <3> HIDE DEF C
    <3>4. QED
      BY <1>6, <3>2, <3>3, Zenon
  <2> HIDE DEF clauses, rebased, values
  <2>3. Range(clauses \o rebased) = Range(clauses) \cup Range(rebased)
    BY <2>1, <2>2, RangeConcatenation
  <2>4. QED
    BY <2>3 DEF Selects
<1>12. QED
  BY <1>1, <1>3, <1>9, <1>10, <1>11 DEF conditions

(* What has been written at any time is all that is meant, or nothing, but *)
(* for the deletes of single keys, and the caller is told which.           *)
LEMMA AllOrNothing == Given /\ WriteInv => WriteIsAllOrNothing
<1> SUFFICES ASSUME Given, WriteInv PROVE WriteIsAllOrNothing
  OBVIOUS
<1>1. op.method \in WriteMethods => KeyByKey \/ table = InitTable \/ table = Intended
  BY BeforeTheEnd DEF WriteInv
<1>2. KeyByKey => Intended \subseteq table /\ table \subseteq InitTable
  BY DEF WriteInv, KeyByKey
<1>3. QED
  BY <1>1, <1>2 DEF WriteIsAllOrNothing, WriteInv

(* The table stays finite, and a table of rows.                            *)
LEMMA TableIsFinite == Given /\ WriteInv => IsFiniteSet(table) /\ table \subseteq TableRow
<1> SUFFICES ASSUME Given, WriteInv PROVE IsFiniteSet(table)
  BY DEF WriteInv
<1>1. IsFiniteSet(InitTable)
  BY KeyedWriteAssumption
<1>2. op.method \notin {"createMany", "updateMany", "updateBy"} => table \subseteq InitTable
  BY DEF WriteInv
<1>3. CASE op.method \notin {"createMany", "updateMany", "updateBy"}
  BY <1>1, <1>2, <1>3, FS_Subset
<1>4. CASE op.method \in {"createMany", "updateMany", "updateBy"}
  <2>1. table = InitTable \/ table = Intended
    BY <1>4, AllOrNothing DEF WriteIsAllOrNothing, KeyByKey, WriteMethods
  <2>2. CASE op.method = "createMany"
    <3> DEFINE row(given) == Inserted(Prepared(given))
               f == [given \in Range(op.rows) |-> row(given)]
    <3>1. op.rows \in Seq(Range(op.rows))
      BY KeyedCallFacts DEF Given
    <3>2. IsFiniteSet(Range(op.rows))
      <4>1. op.rows \in Surjection(DOMAIN op.rows, Range(op.rows))
        BY <3>1, LenProperties DEF Surjection, Range
      <4>2. QED
        BY <3>1, <4>1, Elements, FS_Surjection
    <3>3. f \in Surjection(Range(op.rows), {row(given) : given \in Range(op.rows)})
      BY DEF Surjection
    <3>4. IsFiniteSet({row(given) : given \in Range(op.rows)})
      BY <3>2, <3>3, FS_Surjection
    <3>5. Intended = InitTable \cup {row(given) : given \in Range(op.rows)}
      BY <2>2 DEF Intended
    <3>6. IsFiniteSet(Intended)
      BY <1>1, <3>4, <3>5, FS_Union
    <3>7. QED
      BY <1>1, <2>1, <3>6
  <2>3. CASE op.method \in {"updateMany", "updateBy"}
    <3> DEFINE after(row) == IF Addressed(row) THEN Written(row) ELSE row
               f == [row \in InitTable |-> after(row)]
    <3>1. f \in Surjection(InitTable, {after(row) : row \in InitTable})
      BY DEF Surjection
    <3>2. IsFiniteSet({after(row) : row \in InitTable})
      BY <1>1, <3>1, FS_Surjection
    <3>3. Intended = {after(row) : row \in InitTable}
      BY <2>3 DEF Intended
    <3>4. QED
      BY <1>1, <2>1, <3>2, <3>3
  <2>4. QED
    BY <1>4, <2>2, <2>3
<1>5. QED
  BY <1>3, <1>4

(* Rows in an order are all of them, each once.                            *)
LEMMA ArrangedRows ==
  ASSUME NEW rows, IsFiniteSet(rows), NEW order, NEW s \in Arranged(rows, order)
  PROVE  /\ s \in Seq(rows) /\ Len(s) = Cardinality(rows) /\ Cardinality(rows) \in Nat
         /\ DOMAIN s = 1..Len(s) /\ Range(s) = rows
         /\ \A i, j \in DOMAIN s : s[i] = s[j] => i = j
         /\ \A i, j \in DOMAIN s : Precedes(order, s[i], s[j]) => i < j
<1> DEFINE n == Cardinality(rows)
<1>1. /\ s \in [1..n -> rows] /\ \A i, j \in 1..n : i # j => s[i] # s[j]
      /\ \A i, j \in DOMAIN s : Precedes(order, s[i], s[j]) => i < j
  BY DEF Arranged, SetToSeqs
<1>2. n \in Nat
  BY FS_CardinalityType
<1> HIDE DEF n
<1>3. s \in Seq(rows) /\ Len(s) = n /\ DOMAIN s = 1..n
  BY <1>1, <1>2
<1>4. Range(s) = rows
  <2>1. s \in Injection(1..n, rows)
    BY <1>1 DEF Injection, IsInjective
  <2>2. Cardinality(1..n) = n
    BY <1>2, FS_Interval
  <2>3. s \in Surjection(1..n, rows)
    BY <2>1, <2>2, FS_Injection DEF n
  <2>4. QED
    BY <1>3, <2>3 DEF Surjection, Range
<1>5. QED
  BY <1>1, <1>2, <1>3, <1>4 DEF n

(* A page of them.                                                         *)
LEMMA PageOf ==
  ASSUME NEW T, NEW s \in Seq(T), NEW product, product.offset \in Nat, product.limit \in Nat
  PROVE  LET last == IF Len(s) <= product.offset + product.limit THEN Len(s)
                     ELSE product.offset + product.limit
         IN /\ Page(s, product) = SubSeq(s, product.offset + 1, last)
            /\ Page(s, product) \in Seq(T) /\ Range(Page(s, product)) \subseteq Range(s)
            /\ Len(Page(s, product)) <= product.limit
<1>1. PICK l \in Nat, m \in Nat, n \in Nat : l = Len(s) /\ m = product.offset /\ n = product.limit
  BY LenProperties
<1>2. PICK last \in Nat : last = IF l <= m + n THEN l ELSE m + n
  BY <1>1
<1>3. Min({l, m + n}) = last
  <2>1. PICK e \in Nat : e = m + n
    OBVIOUS
  <2>2. Min({l, e}) = IF l <= e THEN l ELSE e
    BY LesserOfTwo
  <2>3. QED
    BY <1>2, <2>1, <2>2
<1>4. Page(s, product) = SubSeq(s, m + 1, last)
  BY <1>1, <1>3 DEF Page
<1>5. last <= l /\ last <= m + n /\ m + 1 \in Nat \ {0} /\ last \in 0..l
  BY <1>2
<1>a. last \in 0..Len(s)
  BY <1>1, <1>5
<1>6. SubSeq(s, m + 1, last) \in Seq(T) /\ Range(SubSeq(s, m + 1, last)) = {s[i] : i \in (m + 1)..last}
  <2>1. PICK first \in Nat \ {0} : first = m + 1
    BY <1>5
  <2>2. SubSeq(s, first, last) \in Seq(T) /\ Range(SubSeq(s, first, last)) = {s[i] : i \in first..last}
    BY <1>a, RangeOfSubSeq
  <2>3. QED
    BY <2>1, <2>2
<1>7. DOMAIN s = 1..l /\ \A i \in 1..l : s[i] \in T
  BY <1>1, Elements
<1>8. \A i \in (m + 1)..last : i \in 1..l
  BY <1>5
<1>9. Len(SubSeq(s, m + 1, last)) <= n
  <2>1. Len(SubSeq(s, m + 1, last)) = IF m + 1 <= last THEN last - (m + 1) + 1 ELSE 0
    BY <1>7, <1>8, SubSeqProperties
  <2>2. QED
    BY <1>5, <2>1
<1>10. {s[i] : i \in (m + 1)..last} \subseteq Range(s)
  BY <1>7, <1>8 DEF Range
<1>11. QED
  BY <1>1, <1>2, <1>4, <1>6, <1>9, <1>10

-----------------------------------------------------------------------------
(* A list                                                                  *)

(* Once the list has begun its handler's request stays as it is, and the   *)
(* rows of every page are what the query means.                            *)
ListInv ==
  /\ \A a, b \in input : a = b
  /\ walk = [at |-> walk.at, page |-> walk.page, rows |-> walk.rows, total |-> walk.total,
             seen |-> walk.seen]
  /\ walk.page = [page |-> walk.page.page, pageSize |-> walk.page.pageSize]
  /\ walk.at \in {"none", "failed", "reading", "done"}
  /\ walk.page.page \in 1..MaxPages
  /\ walk.page.pageSize \in 1..(MaxPageSize + DefaultPageSize)
  /\ walk.at # "none" => outcome = "handled" /\ app.list # {}
  /\ walk.at \in {"none", "failed"} => walk.rows = {} /\ walk.total = {} /\ walk.seen = <<>>
  /\ walk.seen \in Seq(TableRow)
  /\ \A rows \in walk.rows :
       walk.rows = {rows} /\ rows \in Seq(TableRow) /\ Len(rows) <= walk.page.pageSize
  /\ \A row \in Listed : input # {} /\ \A query \in app.list : InQuery(query, row)

(* A service starts without a list.                                        *)
LEMMA ListInit == Init => ListInv
<1> SUFFICES ASSUME Init PROVE ListInv
  OBVIOUS
<1>1. input = {} /\ walk = [at |-> "none", page |-> NoPage, rows |-> {}, total |-> {}, seen |-> <<>>]
  BY DEF Init, EndpointInit
<1>2. /\ walk.at = "none" /\ walk.page = NoPage /\ walk.rows = {} /\ walk.total = {} /\ walk.seen = <<>>
  BY <1>1
<1>3. NoPage.page = 1 /\ NoPage.pageSize = DefaultPageSize /\ NoPage = [page |-> 1, pageSize |-> DefaultPageSize]
  BY DEF NoPage
<1>4. 1 \in 1..MaxPages /\ DefaultPageSize \in 1..(MaxPageSize + DefaultPageSize)
  BY RequestsAssumption, ListQueryAssumption
<1>5. Listed = {}
  <2>1. Range(<<>>) = {}
    BY DEF Range
  <2>2. QED
    BY <1>2, <2>1 DEF Listed
<1>6. <<>> \in Seq(TableRow)
  OBVIOUS
<1>7. QED
  BY <1>1, <1>2, <1>3, <1>4, <1>5, <1>6 DEF ListInv

(* The page a client asks for is one, and no longer than allowed.          *)
LEMMA PageAskedFor ==
  ASSUME NEW query, IsQuery(query), NEW asked, asked = OrElse(ParsePagination(query), NoPage)
  PROVE  /\ asked = [page |-> asked.page, pageSize |-> asked.pageSize]
         /\ asked.page \in 1..MaxPages
         /\ asked.pageSize \in 1..(MaxPageSize + DefaultPageSize)
         /\ ParsePagination(query) = {} => asked = NoPage
         /\ ParsePagination(query) # {} => ParsePagination(query) = {asked}
<1>1. /\ query.page \in SUBSET (0..MaxPages) /\ query.pageSize \in SUBSET Nat
      /\ \A sent \in {query.page, query.pageSize} : \A m, n \in sent : m = n
  BY DEF IsQuery
<1>2. MaxPages \in Nat \ {0} /\ DefaultPageSize \in Nat \ {0} /\ MaxPageSize \in Nat \ {0}
  BY RequestsAssumption, ListQueryAssumption
<1>3. ASSUME NEW sent \in {query.page, query.pageSize}, sent \notin {{}, {0}}, NEW default
      PROVE  Positive(sent, default) \in sent \ {0}
  <2>1. PICK n \in sent : sent = {n} /\ n # 0
    BY <1>1, <1>3
  <2>2. Positive(sent, default) \in sent
    BY <1>3, <2>1 DEF Positive
  <2>3. QED
    BY <2>1, <2>2
<1>4. Positive(query.page, 1) \in 1..MaxPages
  <2>1. CASE query.page \in {{}, {0}}
    BY <1>2, <2>1 DEF Positive
  <2>2. CASE query.page \notin {{}, {0}}
    BY <1>1, <1>2, <1>3, <2>2
  <2>3. QED
    BY <2>1, <2>2
<1> DEFINE size == IF query.pageSize \in {{}, {0}} THEN DefaultPageSize
                   ELSE Min({Positive(query.pageSize, DefaultPageSize), MaxPageSize})
<1>5. size \in 1..(MaxPageSize + DefaultPageSize)
  <2>1. CASE query.pageSize \in {{}, {0}}
    BY <1>2, <2>1
  <2>2. CASE query.pageSize \notin {{}, {0}}
    <3>1. PICK n \in Nat \ {0} : n = Positive(query.pageSize, DefaultPageSize)
      BY <1>1, <1>3, <2>2
    <3>2. size = IF n <= MaxPageSize THEN n ELSE MaxPageSize
      BY <1>2, <2>2, <3>1, LesserOfTwo
    <3>3. QED
      BY <1>2, <3>2
  <2>3. QED
    BY <2>1, <2>2
<1> HIDE DEF size
<1>6. ParsePagination(query) = IF query.page = {} /\ query.pageSize = {} THEN {}
                               ELSE {[page |-> Positive(query.page, 1), pageSize |-> size]}
  BY DEF ParsePagination, size
<1>7. CASE ParsePagination(query) = {}
  BY <1>2, <1>7 DEF OrElse, NoPage
<1>8. CASE ParsePagination(query) # {}
  <2>1. ParsePagination(query) = {[page |-> Positive(query.page, 1), pageSize |-> size]}
    BY <1>6, <1>8
  <2>2. asked = [page |-> Positive(query.page, 1), pageSize |-> size]
    BY <2>1 DEF OrElse
  <2>3. QED
    BY <1>4, <1>5, <2>1, <2>2
<1>9. QED
  BY <1>7, <1>8

(* The rows of a page's statement are those its query means.               *)
LEMMA SelectedMeans ==
  ASSUME Given, ListInv, NEW query \in app.list, NEW own \in Own, NEW page, NEW row \in TableRow
  PROVE  Selects(Build(query, own, page).clauses, Build(query, own, page).values, row)
           <=> InQuery(query, row)
<1>1. IsQuery(query) /\ ~Rejected(query)
  BY DEF Given, Malformed, Own
<1>2. \A other \in Own : other = own
  BY DEF ListInv, Own
<1>3. (\A other \in Own : Meant(other, row, FALSE)) <=> Meant(own, row, FALSE)
  BY <1>2
<1>4. QED
  BY <1>1, <1>3, BuildSelects DEF InQuery

(* The handler's request is over once it lists.                            *)
LEMMA ListIsLast ==
  ASSUME ListInv, walk.at # "none", [Next]_vars
  PROVE  UNCHANGED httpVars
<1>1. outcome = "handled" /\ app.list # {}
  BY DEF ListInv
<1>2. ~EndpointNext /\ ~EmitFails
  BY <1>1 DEF EndpointNext, RefuseToStart, Bootstrap, Receive, NotFound, EnterContext, Stamp,
              VerifyCredential, LoadSession, WithScope, AuthorizeScope, ValidateRequest, Handle,
              Step, EmitFails, Emitting
<1>3. QED
  BY <1>2 DEF Next, vars, StartList, ReadRows, ReadCount, AnswerPage, WriteNext, ReadKeyed, Emit,
              HandleEvent

(* What a query means stays with the request.                              *)
LEMMA QueryStays ==
  ASSUME UNCHANGED httpVars
  PROVE  /\ Own' = Own /\ \A query, row : InQuery(query, row)' = InQuery(query, row)
         /\ UNCHANGED <<app, input, outcome, route, context, attributes>>
<1>1. UNCHANGED <<app, input, outcome, route, context, attributes>>
  BY DEF httpVars
<1>2. Own' = Own
  BY <1>1 DEF Own
<1>3. QED
  BY <1>1, <1>2 DEF InQuery

(* A list starts at the page its client asks for.                          *)
LEMMA StartKeeps == Given /\ ListInv /\ StartList => ListInv'
<1> SUFFICES ASSUME Given, ListInv, StartList PROVE ListInv'
  OBVIOUS
<1>1. PICK query \in app.list :
        walk' = [walk EXCEPT !.at = IF BuildFails(query) THEN "failed" ELSE "reading",
                             !.page = OrElse(ParsePagination(query), NoPage)]
  BY DEF StartList
<1>2. outcome = "handled" /\ walk.at = "none" /\ UNCHANGED httpVars
  BY DEF StartList
<1>3. PICK asked : asked = OrElse(ParsePagination(query), NoPage)
  OBVIOUS
<1>4. /\ asked = [page |-> asked.page, pageSize |-> asked.pageSize]
      /\ asked.page \in 1..MaxPages
      /\ asked.pageSize \in 1..(MaxPageSize + DefaultPageSize)
  BY <1>3, PageAskedFor DEF Given
<1>5. walk = [at |-> walk.at, page |-> walk.page, rows |-> walk.rows, total |-> walk.total,
              seen |-> walk.seen]
      /\ walk.rows = {} /\ walk.total = {} /\ walk.seen = <<>>
  BY <1>2 DEF ListInv
<1>6. PICK at \in {"failed", "reading"} :
        walk' = [at |-> at, page |-> asked, rows |-> {}, total |-> {}, seen |-> <<>>]
  BY <1>1, <1>3, <1>5
<1>7. /\ walk'.at = at /\ walk'.page = asked /\ walk'.rows = {} /\ walk'.total = {}
      /\ walk'.seen = <<>>
  BY <1>6
<1>8. Listed' = {}
  <2>1. Range(<<>>) = {}
    BY DEF Range
  <2>2. QED
    BY <1>7, <2>1 DEF Listed
<1>9. UNCHANGED <<app, input, outcome>> /\ <<>> \in Seq(TableRow)
  BY <1>2, QueryStays
<1>10. QED
  BY <1>1, <1>2, <1>4, <1>6, <1>7, <1>8, <1>9 DEF ListInv

(* The rows of a page are rows that the query means.                       *)
LEMMA ReadRowsKeeps == Given /\ WriteInv /\ ListInv /\ ReadRows => ListInv'
<1> SUFFICES ASSUME Given, WriteInv, ListInv, ReadRows PROVE ListInv'
  OBVIOUS
<1>1. walk.at = "reading" /\ walk.rows = {} /\ UNCHANGED httpVars
  BY DEF ReadRows
<1>2. PICK product \in Products :
        \E s \in Arranged(Selected(table, product), product.order) :
          walk' = [walk EXCEPT !.rows = {Page(s, product)}]
  BY DEF ReadRows
<1>3. PICK query \in app.list, own \in Own : product = Build(query, own, walk.page)
  BY DEF Products
<1>4. PICK selected : selected = Selected(table, product)
  OBVIOUS
<1>5. PICK s \in Arranged(selected, product.order) : walk' = [walk EXCEPT !.rows = {Page(s, product)}]
  BY <1>2, <1>4
<1>6. PICK rows : rows = Page(s, product)
  OBVIOUS
<1>7. selected \in SUBSET table /\ table \subseteq TableRow /\ IsFiniteSet(selected)
  <2>1. selected \in SUBSET table
    BY <1>4 DEF Selected
  <2>2. QED
    BY <2>1, TableIsFinite, FS_Subset
<1>8. s \in Seq(selected) /\ Range(s) = selected
  BY <1>7, ArrangedRows
<1>9. product.limit = walk.page.pageSize /\ product.limit \in Nat /\ product.offset \in Nat
  <2>1. walk.page.pageSize \in Nat /\ walk.page.page \in Nat \ {0}
    BY RequestsAssumption, ListQueryAssumption DEF ListInv
  <2>2. product.limit = walk.page.pageSize /\ product.offset = (walk.page.page - 1) * walk.page.pageSize
    BY <1>3 DEF Build, Offset
  <2>3. \A m \in Nat \ {0} : \A n \in Nat : (m - 1) * n \in Nat
    OBVIOUS
  <2>4. QED
    BY <2>1, <2>2, <2>3
<1>10. rows \in Seq(selected) /\ Range(rows) \subseteq selected /\ Len(rows) <= walk.page.pageSize
  BY <1>6, <1>8, <1>9, PageOf
<1>11. rows \in Seq(TableRow)
  BY <1>7, <1>10, SeqMonotonic
<1>12. ASSUME NEW row \in selected
       PROVE  input # {} /\ \A asked \in app.list : InQuery(asked, row)
  <2>1. row \in TableRow /\ Selects(product.clauses, product.values, row)
    BY <1>4, <1>7 DEF Selected
  <2>2. InQuery(query, row)
    BY <1>3, <2>1, SelectedMeans
  <2>3. \A asked \in app.list : asked = query
    BY DEF Given
  <2>4. input # {}
    BY DEF Own
  <2>5. QED
    BY <2>2, <2>3, <2>4
<1>13. /\ walk' = [at |-> walk.at, page |-> walk.page, rows |-> {rows}, total |-> walk.total,
                   seen |-> walk.seen]
  BY <1>5, <1>6 DEF ListInv
<1>14. /\ walk'.at = walk.at /\ walk'.page = walk.page /\ walk'.rows = {rows}
       /\ walk'.total = walk.total /\ walk'.seen = walk.seen
  BY <1>13
<1>15. Listed' \subseteq Listed \cup Range(rows)
  BY <1>14 DEF Listed
<1>16. \A row \in Listed' : input # {} /\ \A asked \in app.list : InQuery(asked, row)
  BY <1>10, <1>12, <1>15 DEF ListInv
<1>17. \A row \in Listed' : input' # {} /\ \A asked \in app'.list : InQuery(asked, row)'
  BY <1>1, <1>16, QueryStays
<1>18. UNCHANGED <<app, input, outcome>>
  BY <1>1, QueryStays
<1>19. QED
  BY <1>1, <1>10, <1>11, <1>13, <1>14, <1>17, <1>18 DEF ListInv

(* The count of a page reads no rows.                                      *)
LEMMA ReadCountKeeps == ListInv /\ ReadCount => ListInv'
<1> SUFFICES ASSUME ListInv, ReadCount PROVE ListInv'
  OBVIOUS
<1>1. PICK total : walk' = [walk EXCEPT !.total = total]
  BY DEF ReadCount
<1>2. walk.at = "reading" /\ UNCHANGED httpVars
  BY DEF ReadCount
<1>3. walk' = [at |-> walk.at, page |-> walk.page, rows |-> walk.rows, total |-> total,
               seen |-> walk.seen]
  BY <1>1 DEF ListInv
<1>4. /\ walk'.at = walk.at /\ walk'.page = walk.page /\ walk'.rows = walk.rows
      /\ walk'.total = total /\ walk'.seen = walk.seen
  BY <1>3
<1>5. Listed' = Listed
  BY <1>4 DEF Listed
<1>6. \A row \in Listed' : input' # {} /\ \A asked \in app'.list : InQuery(asked, row)'
  BY <1>2, <1>5, QueryStays DEF ListInv
<1>7. UNCHANGED <<app, input, outcome>>
  BY <1>2, QueryStays
<1>8. QED
  BY <1>2, <1>3, <1>4, <1>6, <1>7 DEF ListInv

(* A page that is answered adds its rows to those that were seen.          *)
LEMMA AnswerPageKeeps == ListInv /\ AnswerPage => ListInv'
<1> SUFFICES ASSUME ListInv, AnswerPage PROVE ListInv'
  OBVIOUS
<1>1. PICK rows \in walk.rows, total \in walk.total :
        walk' = IF walk.page.page * walk.page.pageSize < total /\ walk.page.page < MaxPages
                THEN [walk EXCEPT !.seen = @ \o rows, !.page.page = @ + 1, !.rows = {}, !.total = {}]
                ELSE [walk EXCEPT !.seen = @ \o rows, !.at = "done"]
  BY DEF AnswerPage
<1>2. walk.at = "reading" /\ UNCHANGED httpVars
  BY DEF AnswerPage
<1>3. /\ walk = [at |-> walk.at, page |-> walk.page, rows |-> walk.rows, total |-> walk.total,
                 seen |-> walk.seen]
      /\ walk.page = [page |-> walk.page.page, pageSize |-> walk.page.pageSize]
      /\ walk.rows = {rows} /\ rows \in Seq(TableRow) /\ walk.seen \in Seq(TableRow)
      /\ walk.page.page \in 1..MaxPages
  BY DEF ListInv
<1>4. PICK seen : seen = walk.seen \o rows
  OBVIOUS
<1>5. seen \in Seq(TableRow) /\ Range(seen) = Range(walk.seen) \cup Range(rows)
  BY <1>3, <1>4, ConcatProperties, RangeConcatenation
<1>6. Range(seen) \subseteq Listed
  BY <1>3, <1>5 DEF Listed
<1>7. UNCHANGED <<app, input, outcome>>
  BY <1>2, QueryStays
<1>8. CASE walk.page.page * walk.page.pageSize < total /\ walk.page.page < MaxPages
  <2>1. walk' = [walk EXCEPT !.seen = seen, !.page.page = walk.page.page + 1, !.rows = {}, !.total = {}]
    BY <1>1, <1>4, <1>8
  <2>2. walk' = [at |-> walk.at, rows |-> {}, total |-> {}, seen |-> seen,
                 page |-> [page |-> walk.page.page + 1, pageSize |-> walk.page.pageSize]]
    BY <1>3, <2>1
  <2>3. /\ walk'.at = walk.at /\ walk'.rows = {} /\ walk'.total = {} /\ walk'.seen = seen
        /\ walk'.page = [page |-> walk.page.page + 1, pageSize |-> walk.page.pageSize]
    BY <2>2
  <2>4. walk.page.page + 1 \in 1..MaxPages
    BY <1>3, <1>8, RequestsAssumption
  <2>5. Listed' \subseteq Listed
    BY <1>6, <2>3 DEF Listed
  <2>6. \A row \in Listed' : input' # {} /\ \A asked \in app'.list : InQuery(asked, row)'
    BY <1>2, <2>5, QueryStays DEF ListInv
  <2>7. QED
    BY <1>2, <1>5, <1>7, <2>2, <2>3, <2>4, <2>6 DEF ListInv
<1>9. CASE ~(walk.page.page * walk.page.pageSize < total /\ walk.page.page < MaxPages)
  <2>1. walk' = [walk EXCEPT !.seen = seen, !.at = "done"]
    BY <1>1, <1>4, <1>9
  <2>2. walk' = [at |-> "done", rows |-> walk.rows, total |-> walk.total, seen |-> seen,
                 page |-> walk.page]
    BY <1>3, <2>1
  <2>3. /\ walk'.at = "done" /\ walk'.rows = walk.rows /\ walk'.total = walk.total
        /\ walk'.seen = seen /\ walk'.page = walk.page
    BY <2>2
  <2>4. Listed' \subseteq Listed
    BY <1>6, <2>3 DEF Listed
  <2>5. \A row \in Listed' : input' # {} /\ \A asked \in app'.list : InQuery(asked, row)'
    BY <1>2, <2>4, QueryStays DEF ListInv
  <2>6. QED
    BY <1>2, <1>5, <1>7, <2>2, <2>3, <2>5 DEF ListInv
<1>10. QED
  BY <1>8, <1>9

(* Every step keeps what is known of a list.                               *)
LEMMA ListKept == Given /\ WriteInv /\ ListInv /\ [Next]_vars => ListInv'
<1> SUFFICES ASSUME Given, WriteInv, ListInv, [Next]_vars PROVE ListInv'
  OBVIOUS
<1>1. CASE UNCHANGED walk /\ walk.at # "none"
  <2>1. UNCHANGED httpVars
    BY <1>1, ListIsLast
  <2>2. Listed' = Listed
    BY <1>1 DEF Listed
  <2>3. \A row \in Listed' : input' # {} /\ \A asked \in app'.list : InQuery(asked, row)'
    BY <2>1, <2>2, QueryStays DEF ListInv
  <2>4. UNCHANGED <<app, input, outcome>>
    BY <2>1, QueryStays
  <2>5. QED
    BY <1>1, <2>3, <2>4 DEF ListInv
<1>2. CASE UNCHANGED walk /\ walk.at = "none"
  <2>1. Listed' = {}
    <3>1. Range(<<>>) = {}
      BY DEF Range
    <3>2. QED
      BY <1>2, <3>1 DEF Listed, ListInv
  <2>2. \A a, b \in input' : a = b
    <3>1. CASE UNCHANGED input
      BY <3>1 DEF ListInv
    <3>2. CASE ValidateRequest
      <4>1. \/ input' = input
            \/ \E source : input' = {source}
        BY <3>2 DEF ValidateRequest
      <4>2. QED
        BY <4>1 DEF ListInv
    <3>3. QED
      BY <3>1, <3>2
      DEF Next, vars, httpVars, EndpointNext, RefuseToStart, Bootstrap, Receive, NotFound,
          EnterContext, Stamp, VerifyCredential, LoadSession, WithScope, AuthorizeScope,
          Handle, Rest, StartList, ReadRows, ReadCount, AnswerPage, WriteNext, ReadKeyed,
          Emit, EmitFails, HandleEvent
  <2>3. QED
    BY <1>2, <2>1, <2>2 DEF ListInv
<1>3. CASE StartList \/ ReadRows \/ ReadCount \/ AnswerPage
  BY <1>3, StartKeeps, ReadRowsKeeps, ReadCountKeeps, AnswerPageKeeps
<1>4. QED
  BY <1>1, <1>2, <1>3 DEF Next, vars, WriteNext, ReadKeyed, Emit, EmitFails, HandleEvent

(* What a list shows it shows to a request that is being handled.          *)
LEMMA ListedWhileHandled ==
  ASSUME ListInv, NEW row \in Listed
  PROVE  /\ walk.at \in {"reading", "done"} /\ outcome = "handled" /\ input # {}
         /\ \E query \in app.list : InQuery(query, row)
         /\ \A query \in app.list : InQuery(query, row)
<1>1. walk.at \notin {"none", "failed"}
  <2>1. Range(<<>>) = {}
    BY DEF Range
  <2>2. QED
    BY <2>1 DEF ListInv, Listed
<1>2. QED
  BY <1>1 DEF ListInv

(* A list shows rows of the session's scope only, and only rows that the   *)
(* client's own filters mean: for every table, every query and every write *)
(* that is made meanwhile.                                                 *)
LEMMA ScopedList == IInv /\ ListInv => ListStaysInScope
<1> SUFFICES ASSUME IInv, ListInv, NEW row \in Listed
             PROVE  /\ /\ context.session # {}
                       /\ \A r \in route : \A guard \in Validations(r) :
                            guard.described /\ "scopeId" \in guard.keys
                       => row["scope"] = SessionScope
                    /\ \A query \in app.list : \A f \in Range(ParsedFilters(query)) :
                         Replaced(f) \/ Means(f, row[f.field], FALSE)
  BY DEF ListStaysInScope
<1>1. \A query \in app.list : \A f \in Range(ParsedFilters(query)) :
        Replaced(f) \/ Means(f, row[f.field], FALSE)
  BY ListedWhileHandled DEF InQuery
<1>2. ASSUME context.session # {},
             \A r \in route : \A guard \in Validations(r) :
               guard.described /\ "scopeId" \in guard.keys
      PROVE  row["scope"] = SessionScope
  <2>1. outcome = "handled" /\ input # {}
    BY ListedWhileHandled
  <2>2. PICK source \in input : TRUE
    BY <2>1
  <2>3. PICK r \in route : Validated(r)
    BY <2>1 DEF IInv, HttpInv, Routed
  <2>4. PICK guard \in Range(r.guards) :
          guard.step = "validate" /\ source = [key \in guard.keys |-> Raw(guard, key)]
    BY <2>2, <2>3 DEF Validated
  <2>5. guard.described /\ "scopeId" \in guard.keys
    BY <1>2, <2>4 DEF Validations
  <2>6. source["scopeId"] = "session"
    BY <1>2, <2>4, <2>5 DEF Raw, Described, BaseSessionKeys
  <2>7. <<OwnFilter(SessionScope)>> \in Own
    BY <2>2, <2>6 DEF Own, ScopeOf, OwnFilter
  <2>8. Meant(<<OwnFilter(SessionScope)>>, row, FALSE)
    BY <2>7, ListedWhileHandled DEF InQuery
  <2>9. Range(<<OwnFilter(SessionScope)>>) = {OwnFilter(SessionScope)}
    BY DEF Range
  <2>10. Means(OwnFilter(SessionScope), row["scope"], FALSE)
    <3>1. OwnFilter(SessionScope).field = "scope"
      BY DEF OwnFilter
    <3>2. QED
      BY <2>8, <2>9, <3>1 DEF Meant
  <2>11. /\ OwnFilter(SessionScope).suffix = "bare" /\ OwnFilter(SessionScope).value = Scalar(1)
         /\ Scalar(1).items = {1} /\ Scalar(1) # Scalar(NULL) /\ ~Scalar(1).many
    BY DEF OwnFilter, SessionScope, Scalar, NULL
  <2>12. row["scope"] \in {1}
    BY <2>10, <2>11 DEF Means
  <2>13. QED
    BY <2>12 DEF SessionScope
<1>3. QED
  BY <1>1, <1>2

-----------------------------------------------------------------------------
(* What a read finds                                                       *)

(* A read with a where finds the rows that the where means.                *)
LEMMA FoundByWhere ==
  ASSUME NEW T, NEW filters \in Seq(T), \A f \in Range(filters) : Sensible(f, TRUE) /\ f.field \in Column,
         table \subseteq TableRow
  PROVE  Found(Select(filters)) = {row \in table : Meant(filters, row, TRUE)}
<1> DEFINE st == Select(filters)
<1>1. st.verb = "select" /\ st.clauses = Clauses(filters, 0, TRUE) /\ st.values = Bound(filters, TRUE)
  BY DEF Select, Statement
<1>2. Found(st) = {row \in table : Selects(st.clauses, st.values, row)}
  BY <1>1 DEF Found
<1>3. \A row \in table : Selects(st.clauses, st.values, row) <=> Meant(filters, row, TRUE)
  <2> SUFFICES ASSUME NEW row \in table
               PROVE  Selects(st.clauses, st.values, row) <=> Meant(filters, row, TRUE)
    OBVIOUS
  <2>1. <<>> \in Seq(ParameterValue) /\ row \in TableRow
    OBVIOUS
  <2>2. Selects(Clauses(filters, 0, TRUE), Bound(filters, TRUE), row) <=> Meant(filters, row, TRUE)
    BY <2>1, WhereSelects
  <2>3. QED
    BY <1>1, <2>2
<1> HIDE DEF st
<1>4. Found(st) = {row \in table : Meant(filters, row, TRUE)}
  BY <1>2, <1>3
<1>5. QED
  BY <1>4 DEF st

(* The one statement of a read that is not made key by key finds what was  *)
(* asked for.                                                              *)
FindsWhatWasAsked ==
  \/ ReadStatements = <<>> /\ AskedFor = {}
  \/ \E st : ReadStatements = <<st>> /\ Found(st) = AskedFor

(* A read of a key set that is not made key by key finds the rows of its   *)
(* keys.                                                                   *)
LEMMA FoundByKeys ==
  ASSUME IsKeyedCall(op), ByKeys, ~PerKey, ~ReadThrows, table \subseteq TableRow
  PROVE  FindsWhatWasAsked
<1>1. /\ op.rows \in Seq(Range(op.rows)) /\ \A r \in Range(op.rows) : IsPartialRow(r)
      /\ op.key \in Seq(Column) /\ KeyColumns = op.key
  BY KeyedCallFacts DEF KeyColumns
<1>2. op.key # <<>> /\ \A key \in Range(op.rows) : ~KeyMissing(key)
  BY DEF ReadThrows, KeyColumns, ByKeys, Single
<1>3. Len(op.key) \in Nat \ {0}
  BY <1>1, <1>2, EmptySeq
<1>4. AskedFor = {row \in table : \E key \in Range(op.rows) : SameKey(row, key)}
  BY <1>2 DEF AskedFor, ByKeys
<1>5. CASE op.rows = <<>>
  <2>1. Range(op.rows) = {}
    BY <1>5 DEF Range
  <2>2. QED
    BY <1>4, <1>5, <2>1 DEF ReadStatements, FindsWhatWasAsked
<1>6. CASE op.rows # <<>> /\ Len(op.key) = 1
  <2> DEFINE f == [field |-> KeyColumns[1], suffix |-> "bare",
                   value |-> List({key[KeyColumns[1]] : key \in Range(op.rows)})]
  <2>1. ReadStatements = <<Select(<<f>>)>>
    BY <1>1, <1>6 DEF ReadStatements
  <2>2. \A row \in TableRow :
          /\ Sensible(f, TRUE) /\ f.field \in Column
          /\ Meant(<<f>>, row, TRUE) <=> \E key \in Range(op.rows) : SameKey(row, key)
    BY <1>1, <1>2, <1>6, KeysAreMeant
  <2> HIDE DEF f
  <2>3. [c \in Column |-> 0] \in TableRow
    BY DEF TableRow
  <2>4. Sensible(f, TRUE) /\ f.field \in Column
    BY <2>2, <2>3
  <2>5. <<f>> \in Seq({f}) /\ \A g \in Range(<<f>>) : g = f
    BY DEF Range
  <2>6. Found(Select(<<f>>)) = {row \in table : Meant(<<f>>, row, TRUE)}
    BY <2>4, <2>5, FoundByWhere
  <2>7. Found(Select(<<f>>)) = AskedFor
    BY <1>4, <2>2, <2>6
  <2>8. QED
    BY <2>1, <2>7 DEF FindsWhatWasAsked
<1>7. CASE op.rows # <<>> /\ Len(op.key) # 1
  <2> DEFINE told(key) == [c \in Range(op.key) |-> key[c]]
  <2>1. op.byKeys
    <3>1. \A l \in Nat \ {0} : l # 1 => l > 1
      OBVIOUS
    <3>2. Len(KeyColumns) > 1
      BY <1>1, <1>3, <1>7, <3>1, Zenon
    <3>3. QED
      BY <3>2 DEF PerKey, ByKeys
  <2>2. ReadStatements = <<SelectByKeys>>
    BY <1>1, <1>7, <2>1 DEF ReadStatements
  <2>3. IsAbout(SelectByKeys, op.rows, op.key) /\ SelectByKeys.verb = "selectByKeys"
    BY <1>1 DEF SelectByKeys, Statement, IsAbout
  <2>4. Tuples(SelectByKeys) = {told(key) : key \in Range(op.rows)}
    <3>1. \A row \in Range(op.rows) : \A c \in Range(op.key) : c \in DOMAIN row
      BY <1>1, <1>2 DEF KeyMissing
    <3>2. QED
      BY <1>1, <2>3, <3>1, TuplesOfRows
  <2>5. \A row, key : SameKey(row, told(key)) <=> SameKey(row, key)
    BY <1>1 DEF SameKey
  <2>6. Found(SelectByKeys) = {row \in table : \E t \in Tuples(SelectByKeys) : SameKey(row, t)}
    BY <2>3 DEF Found
  <2> HIDE DEF told
  <2>7. Found(SelectByKeys) = AskedFor
    BY <1>4, <2>4, <2>5, <2>6
  <2>8. QED
    BY <2>2, <2>7 DEF FindsWhatWasAsked
<1>8. QED
  BY <1>5, <1>6, <1>7

(* A read of one key finds the row of the key.                             *)
LEMMA FoundByKey ==
  ASSUME IsKeyedCall(op), IsReadCall(op), op.method = "findOneByKey", ~ReadThrows, table \subseteq TableRow
  PROVE  FindsWhatWasAsked
<1>1. /\ op.rows \in Seq(Range(op.rows)) /\ Len(op.rows) = 1 /\ ~ByKeys /\ ~PerKey
  BY KeyedCallFacts DEF IsReadCall, ByKeys, PerKey
<1>2. \A key \in Range(op.rows) : ~KeyMissing(key)
  BY <1>1 DEF ReadThrows, ByKeys, Single
<1>3. DOMAIN op.rows = {1} /\ Range(op.rows) = {op.rows[1]}
  <2>1. DOMAIN op.rows = 1..1
    BY <1>1, LenProperties
  <2>2. QED
    BY <2>1 DEF Range
<1>4. PICK key : key = op.rows[1]
  OBVIOUS
<1> DEFINE filters == [c \in DOMAIN KeyColumns |-> KeyFilter(key, KeyColumns[c])]
<1>5. ReadStatements = [k \in {1} |-> SelectKey(key)]
  BY <1>1, <1>2, <1>3, <1>4 DEF ReadStatements
<1>6. ReadStatements = <<SelectKey(key)>>
  BY <1>5
<1>7. SelectKey(key) = Select(filters)
  BY DEF SelectKey
<1>8. \A row \in TableRow :
        /\ filters \in Seq(Range(filters))
        /\ \A f \in Range(filters) : Sensible(f, TRUE) /\ f.field \in Column
        /\ Meant(filters, row, TRUE) <=> SameKey(row, key)
  BY <1>2, <1>3, <1>4, KeyIsMeant
<1> HIDE DEF filters
<1>9. [c \in Column |-> 0] \in TableRow
  BY DEF TableRow
<1>10. Found(Select(filters)) = {row \in table : Meant(filters, row, TRUE)}
  BY <1>8, <1>9, FoundByWhere
<1>11. AskedFor = {row \in table : SameKey(row, key)}
  BY <1>2, <1>3, <1>4 DEF AskedFor
<1>12. Found(Select(filters)) = AskedFor
  BY <1>8, <1>10, <1>11
<1>13. QED
  BY <1>6, <1>7, <1>12 DEF FindsWhatWasAsked

(* A read by a predicate finds the rows that it means, all rows when it    *)
(* says so.                                                                *)
LEMMA FoundByPredicate ==
  ASSUME IsKeyedCall(op), IsReadCall(op), op.method \notin WriteMethods \cup {"none", "findOneByKey"},
         ~ByKeys, ~ReadThrows, table \subseteq TableRow
  PROVE  FindsWhatWasAsked
<1> DEFINE where == IF op.allRows THEN <<>> ELSE op.where
<1>1. ~PerKey
  BY DEF PerKey, WriteMethods, ByKeys
<1>2. ReadStatements = <<Select(where)>>
  BY <1>1 DEF ReadStatements
<1>3. where \in Seq(Filter) /\ \A f \in Range(where) : Sensible(f, TRUE) /\ f.field \in Column
  <2>1. CASE op.allRows
    <3>1. where = <<>> /\ Range(<<>>) = {} /\ <<>> \in Seq(Filter)
      BY <2>1 DEF Range
    <3>2. QED
      BY <3>1
  <2>2. CASE ~op.allRows /\ Single
    <3>1. ~WhereRefused
      BY <2>2 DEF ReadThrows, Single, ByKeys
    <3>2. QED
      BY <2>2, <3>1, WhereIsSensible
  <2>3. CASE ~op.allRows /\ ~Single
    <3>1. /\ op.where \in Seq(Filter)
          /\ \A f \in Range(op.where) : f.field \in Column /\ Fits(f)
      BY DEF IsKeyedCall
    <3>2. \A f \in Range(op.where) : ~NoValue(f)
      BY <2>3 DEF IsReadCall, Single
    <3>3. \A f \in Range(op.where) : ~UnknownOperator(f)
      BY <2>3 DEF ReadThrows
    <3>4. \A f \in Range(op.where) : f \in Filter
      BY <3>1, RangeOfSeq
    <3>5. QED
      BY <2>3, <3>1, <3>2, <3>3, <3>4, SensibleWhere
  <2>4. QED
    BY <2>1, <2>2, <2>3
<1>4. \A row \in table : Meant(where, row, TRUE) <=> op.allRows \/ Meant(op.where, row, TRUE)
  <2>1. \A row : Meant(<<>>, row, TRUE)
    BY DEF Meant, Range
  <2>2. QED
    BY <2>1
<1> HIDE DEF where
<1>5. Found(Select(where)) = {row \in table : Meant(where, row, TRUE)}
  BY <1>3, FoundByWhere
<1>6. AskedFor = {row \in table : op.allRows \/ Meant(op.where, row, TRUE)}
  BY DEF AskedFor, ByKeys
<1>7. Found(Select(where)) = AskedFor
  BY <1>4, <1>5, <1>6
<1>8. QED
  BY <1>2, <1>7 DEF FindsWhatWasAsked, where

(* So each read that is one statement finds what was asked for.            *)
LEMMA ReadFinds ==
  ASSUME IsKeyedCall(op), IsReadCall(op), op.method \notin WriteMethods \cup {"none"}, ~PerKey,
         ~ReadThrows, table \subseteq TableRow
  PROVE  FindsWhatWasAsked
BY FoundByKeys, FoundByKey, FoundByPredicate

-----------------------------------------------------------------------------
(* What a read answers                                                     *)

(* Some elements of a sequence, in their order.                            *)
InPart(u, s, at) ==
  /\ at \in [DOMAIN u -> DOMAIN s]
  /\ \A k \in DOMAIN u : u[k] = s[at[k]]
  /\ \A k, l \in DOMAIN u : k < l => at[k] < at[l]

(* A read sees all of the rows, in their order, or those that are not      *)
(* locked when it skips the others.                                        *)
LEMMA VisibleIsPart ==
  ASSUME NEW T, NEW s \in Seq(T)
  PROVE  /\ Visible(s) \in Seq(T) /\ \E at : InPart(Visible(s), s, at)
         /\ Range(Visible(s)) = IF op.onLocked = "skip" THEN Range(s) \ locked ELSE Range(s)
<1> DEFINE P == {i \in DOMAIN s : s[i] \notin locked}
<1>1. CASE op.onLocked = "skip"
  <2>1. Visible(s) = Kept(s, P)
    BY <1>1 DEF Visible
  <2>2. P \in SUBSET (DOMAIN s)
    OBVIOUS
  <2>3. Kept(s, P) \in Seq(T) /\ Len(Kept(s, P)) = Cardinality(P) /\ Cardinality(P) \in Nat
    BY <2>2, KeptInOrder
  <2>4. PICK at : KeptAt(s, P, at)
    BY <2>2, KeptInOrder
  <2>5. DOMAIN Kept(s, P) = 1..Cardinality(P)
    BY DEF Kept
  <2>6. InPart(Kept(s, P), s, at)
    BY <2>2, <2>4, <2>5 DEF KeptAt, InPart
  <2>7. Range(Kept(s, P)) = {s[i] : i \in P}
    BY <2>2, RangeOfKept
  <2>8. {s[i] : i \in P} = Range(s) \ locked
    BY DEF Range
  <2>9. QED
    BY <1>1, <2>1, <2>3, <2>6, <2>7, <2>8
<1>2. CASE op.onLocked # "skip"
  <2>1. Visible(s) = s
    BY <1>2 DEF Visible
  <2>2. DOMAIN s \subseteq Nat
    BY Elements
  <2>3. InPart(s, s, [k \in DOMAIN s |-> k])
    BY <2>2 DEF InPart
  <2>4. QED
    BY <1>2, <2>1, <2>3
<1>3. QED
  BY <1>1, <1>2

(* A limit leaves the first rows, as many as it says or all there are.     *)
LEMMA UpToIsPart ==
  ASSUME NEW T, NEW u \in Seq(T), NEW limits \in SUBSET Nat
  PROVE  /\ UpTo(u, limits) \in Seq(T)
         /\ \E l \in 0..Len(u) :
              /\ Len(UpTo(u, limits)) = l /\ DOMAIN UpTo(u, limits) = 1..l
              /\ \A k \in 1..l : UpTo(u, limits)[k] = u[k]
              /\ l = Len(u) \/ l \in limits
              /\ \A n \in limits : l <= n
<1>1. Len(u) \in Nat /\ DOMAIN u = 1..Len(u) /\ \A k \in DOMAIN u : u[k] \in T
  BY Elements
<1>2. CASE limits = {}
  <2>1. UpTo(u, limits) = u
    BY <1>2 DEF UpTo
  <2>2. QED
    <3>1. Len(u) \in 0..Len(u)
      BY <1>1
    <3>2. QED
      BY <1>1, <1>2, <2>1, <3>1
<1>3. CASE limits # {}
  <2> DEFINE l == Min(limits \cup {Len(u)})
  <2>1. l \in limits \cup {Len(u)} /\ \A y \in limits \cup {Len(u)} : l <= y
    <3>1. limits \cup {Len(u)} \in SUBSET Nat /\ limits \cup {Len(u)} # {}
      BY <1>1
    <3>2. QED
      BY <3>1, MinIsLeast
  <2>2. UpTo(u, limits) = SubSeq(u, 1, l)
    BY <1>3 DEF UpTo
  <2> HIDE DEF l
  <2>3. l \in 0..Len(u)
    <3>1. l \in Nat /\ l <= Len(u) /\ Len(u) \in Nat
      BY <1>1, <2>1
    <3>2. QED
      BY <3>1
  <2>4. \A k \in 1..l : u[k] \in T
    BY <1>1, <2>3
  <2>5. /\ SubSeq(u, 1, l) \in Seq(T) /\ Len(SubSeq(u, 1, l)) = IF 1 <= l THEN l - 1 + 1 ELSE 0
        /\ \A k \in 1..(l - 1 + 1) : SubSeq(u, 1, l)[k] = u[1 + k - 1]
    BY <2>3, <2>4, SubSeqProperties
  <2>6. Len(SubSeq(u, 1, l)) = l /\ \A k \in 1..l : SubSeq(u, 1, l)[k] = u[k]
    <3>1. l \in Nat
      BY <1>1, <2>3
    <3>2. \A m \in Nat : (IF 1 <= m THEN m - 1 + 1 ELSE 0) = m
      OBVIOUS
    <3>3. l - 1 + 1 = l /\ \A k \in 1..l : 1 + k - 1 = k
      BY <3>1
    <3>4. QED
      BY <2>5, <3>1, <3>2, <3>3
  <2>7. DOMAIN SubSeq(u, 1, l) = 1..l
    BY <2>5, <2>6, LenProperties
  <2>8. QED
    BY <2>1, <2>2, <2>3, <2>5, <2>6, <2>7
<1>4. QED
  BY <1>2, <1>3

(* What a read is to answer, when it is ready to.                          *)
Satisfied ==
  /\ \A row \in Range(answer) :
       row \in AskedFor /\ Cardinality({i \in DOMAIN answer : answer[i] = row}) <= Occurrences(row)
  /\ \A i, j \in DOMAIN answer : i < j => ~Precedes(op.order, answer[j], answer[i])
  /\ \A n \in op.limit : Len(answer) <= n
  /\ op.limit = {} /\ ReadLimit = op.limit => AskedFor \ Skipped \subseteq Range(answer)
  /\ Single => IF Len(answer) > 1 THEN Cardinality(AskedFor) > 1 ELSE AskedFor = Range(answer)
  /\ ReadLimit # {} /\ AskedFor \ Skipped # {} /\ op.limit # {0} => answer # <<>>

(* A limit that is not refused is one natural number.                      *)
LEMMA LimitIsNatural ==
  ASSUME IsReadCall(op), ~ReadThrows
  PROVE  /\ ReadLimit \in SUBSET Nat /\ \A m, n \in ReadLimit : m = n
         /\ op.limit # {} => ReadLimit = op.limit
<1>1. \A m, n \in op.limit : m = n
  BY DEF IsReadCall
<1>2. op.limit # {} => op.method \in {"findManyForUpdate", "findManyForUpdateByKeys"}
  BY DEF IsReadCall
<1>3. op.limit # {} => ~BadLimit
  BY <1>2 DEF ReadThrows, ByKeys, Single
<1>4. op.limit \in SUBSET Nat
  BY <1>3 DEF BadLimit
<1>5. QED
  BY <1>1, <1>2, <1>4 DEF ReadLimit, Single

(* The rows of the one statement, in an order, up to the limit, are what   *)
(* was asked for.                                                          *)
LEMMA OneReadSatisfies ==
  ASSUME IsReadCall(op), op.method \notin WriteMethods \cup {"none"}, ~ReadThrows, ~PerKey,
         IsFiniteSet(table), locked \subseteq op.locked,
         NEW s \in Arranged(AskedFor, op.order), answer = UpTo(Visible(s), ReadLimit)
  PROVE  Satisfied
<1>1. IsFiniteSet(AskedFor)
  BY FS_Subset DEF AskedFor
<1>2. /\ s \in Seq(AskedFor) /\ Range(s) = AskedFor /\ DOMAIN s = 1..Len(s) /\ Len(s) \in Nat
      /\ \A i, j \in DOMAIN s : s[i] = s[j] => i = j
      /\ \A i, j \in DOMAIN s : Precedes(op.order, s[i], s[j]) => i < j
  BY <1>1, ArrangedRows, LenProperties
<1>3. PICK u : u = Visible(s)
  OBVIOUS
<1>4. /\ u \in Seq(AskedFor) /\ \E at : InPart(u, s, at)
      /\ Range(u) = IF op.onLocked = "skip" THEN AskedFor \ locked ELSE AskedFor
  BY <1>2, <1>3, VisibleIsPart
<1>5. PICK at : InPart(u, s, at)
  BY <1>4
<1>6. ReadLimit \in SUBSET Nat /\ (op.limit # {} => ReadLimit = op.limit)
  BY LimitIsNatural
<1>7. DOMAIN u = 1..Len(u) /\ Len(u) \in Nat
  BY <1>4, LenProperties
<1>8. PICK l \in 0..Len(u) :
        /\ Len(answer) = l /\ DOMAIN answer = 1..l
        /\ \A k \in 1..l : answer[k] = u[k]
        /\ l = Len(u) \/ l \in ReadLimit
        /\ \A n \in ReadLimit : l <= n
  BY <1>3, <1>4, <1>6, UpToIsPart, LimitIsNatural
<1>9. \A k \in DOMAIN answer :
        /\ k \in DOMAIN u /\ k \in Nat /\ answer[k] = u[k] /\ at[k] \in DOMAIN s /\ answer[k] = s[at[k]]
  <2>1. \A k \in DOMAIN answer : k \in DOMAIN u /\ k \in Nat
    <3>1. \A m \in Nat : \A n \in 0..m : \A k \in 1..n : k \in 1..m /\ k \in Nat
      OBVIOUS
    <3>2. QED
      BY <1>7, <1>8, <3>1
  <2>2. QED
    BY <1>5, <1>8, <2>1 DEF InPart
<1>10. \A i, j \in DOMAIN answer : i < j => at[i] < at[j]
  BY <1>5, <1>9 DEF InPart
<1>11. DOMAIN s \subseteq Nat
  BY <1>2
<1>12. \A i, j \in DOMAIN answer : answer[i] = answer[j] => i = j
  <2> SUFFICES ASSUME NEW i \in DOMAIN answer, NEW j \in DOMAIN answer, answer[i] = answer[j], i # j
               PROVE  FALSE
    OBVIOUS
  <2>1. at[i] = at[j] /\ at[i] \in Nat
    BY <1>2, <1>9, <1>11
  <2>2. i < j \/ j < i
    BY <1>9
  <2>3. QED
    BY <1>10, <2>1, <2>2
<1>13. Range(answer) \subseteq Range(u) /\ Range(u) \subseteq AskedFor
  BY <1>4, <1>9 DEF Range
<1>14. ASSUME NEW row \in Range(answer)
       PROVE  row \in AskedFor /\ Cardinality({i \in DOMAIN answer : answer[i] = row}) <= Occurrences(row)
  <2>1. PICK i \in DOMAIN answer : answer[i] = row
    BY DEF Range
  <2>2. {j \in DOMAIN answer : answer[j] = row} = {i}
    BY <1>12, <2>1
  <2>3. Cardinality({i}) = 1 /\ Occurrences(row) = 1
    BY FS_Singleton DEF Occurrences
  <2>4. QED
    BY <1>13, <2>2, <2>3
<1>15. \A i, j \in DOMAIN answer : i < j => ~Precedes(op.order, answer[j], answer[i])
  <2> SUFFICES ASSUME NEW i \in DOMAIN answer, NEW j \in DOMAIN answer, i < j,
                      Precedes(op.order, answer[j], answer[i])
               PROVE  FALSE
    OBVIOUS
  <2>1. at[i] < at[j] /\ at[j] < at[i] /\ at[i] \in Nat /\ at[j] \in Nat
    BY <1>2, <1>9, <1>10, <1>11
  <2>2. QED
    BY <2>1
<1>16. \A n \in op.limit : Len(answer) <= n
  BY <1>6, <1>8
<1>17. l = Len(u) => Range(answer) = Range(u)
  BY <1>7, <1>8 DEF Range
<1>18. AskedFor \ Skipped \subseteq Range(u)
  BY <1>4 DEF Skipped
<1>19. op.limit = {} /\ ReadLimit = op.limit => AskedFor \ Skipped \subseteq Range(answer)
  BY <1>8, <1>17, <1>18
<1>20. ASSUME Single
       PROVE  IF Len(answer) > 1 THEN Cardinality(AskedFor) > 1 ELSE AskedFor = Range(answer)
  <2>1. Range(u) = AskedFor /\ ReadLimit = {2}
    BY <1>4, <1>20 DEF IsReadCall, Single, ReadLimit
  <2>2. CASE Len(answer) > 1
    <3>1. 1 \in DOMAIN answer /\ 2 \in DOMAIN answer
      <4>1. \A m \in Nat : m > 1 => 1 \in 1..m /\ 2 \in 1..m
        OBVIOUS
      <4>2. l \in Nat
        <5>1. \A m \in Nat : \A n \in 0..m : n \in Nat
          OBVIOUS
        <5>2. QED
          BY <1>7, <5>1
      <4>3. QED
        BY <1>8, <2>2, <4>1, <4>2
    <3>2. PICK a, b \in AskedFor : a # b
      <4>1. answer[1] \in Range(answer) /\ answer[2] \in Range(answer) /\ answer[1] # answer[2]
        BY <1>12, <3>1 DEF Range
      <4>2. QED
        BY <1>13, <4>1
    <3>3. Cardinality({a, b}) = 2
      <4>1. IsFiniteSet({a}) /\ Cardinality({a}) = 1 /\ b \notin {a}
        BY <3>2, FS_Singleton
      <4>2. Cardinality({a} \cup {b}) = Cardinality({a}) + 1
        BY <4>1, FS_AddElement
      <4>3. {a} \cup {b} = {a, b}
        OBVIOUS
      <4>4. \A m, n : m = 1 /\ n = m + 1 => n = 2
        OBVIOUS
      <4>5. Cardinality({a} \cup {b}) = 2
        BY ONLY <4>1, <4>2, <4>4, Zenon
      <4>6. QED
        BY <4>3, <4>5, Zenon
    <3>4. Cardinality({a, b}) <= Cardinality(AskedFor) /\ Cardinality(AskedFor) \in Nat
      BY <1>1, FS_Subset, FS_CardinalityType
    <3>5. QED
      BY <2>2, <3>3, <3>4
  <2>3. CASE ~(Len(answer) > 1)
    <3>1. l # 2
      BY <1>8, <2>3
    <3>2. l = Len(u)
      BY <1>8, <2>1, <3>1
    <3>3. QED
      BY <1>17, <2>1, <2>3, <3>2
  <2>4. QED
    BY <2>2, <2>3
<1>21. ASSUME ReadLimit # {}, AskedFor \ Skipped # {}, op.limit # {0}
       PROVE  answer # <<>>
  <2>1. u # <<>>
    <3>1. Range(<<>>) = {}
      BY DEF Range
    <3>2. QED
      BY <1>18, <1>21, <3>1
  <2>2. Len(u) # 0
    BY <1>4, <2>1, EmptySeq
  <2>3. 0 \notin ReadLimit
    <3>1. CASE op.limit = {}
      BY <1>21, <3>1 DEF ReadLimit
    <3>2. CASE op.limit # {}
      BY <1>6, <1>21, <3>2, LimitIsNatural
    <3>3. QED
      BY <3>1, <3>2
  <2>4. Len(answer) # 0
    BY <1>8, <2>2, <2>3
  <2>5. QED
    BY <2>4, EmptySeq
<1>22. QED
  BY <1>14, <1>15, <1>16, <1>19, <1>20, <1>21 DEF Satisfied

-----------------------------------------------------------------------------
(* Reads key by key                                                        *)

(* A read key by key has a statement for each key, and none for a key that *)
(* is incomplete.                                                          *)
LEMMA KeyReads ==
  ASSUME IsKeyedCall(op), ByKeys, PerKey
  PROVE  /\ ReadStatements \in Seq(Range(ReadStatements)) /\ Len(ReadStatements) = Len(op.rows)
         /\ Len(op.rows) \in Nat /\ DOMAIN op.rows = 1..Len(op.rows)
         /\ \A k \in DOMAIN op.rows :
              ReadStatements[k] = IF KeyMissing(op.rows[k]) THEN NoStatement ELSE SelectKey(op.rows[k])
<1>1. op.rows \in Seq(Range(op.rows)) /\ Len(op.rows) \in Nat /\ DOMAIN op.rows = 1..Len(op.rows)
  BY KeyedCallFacts, LenProperties
<1>2. Len(KeyColumns) # 1 /\ ~op.byKeys
  <2>1. Len(KeyColumns) > 1 /\ Len(KeyColumns) \in Nat /\ ~op.byKeys
    BY KeyedCallFacts, LenProperties DEF PerKey, KeyColumns
  <2>2. \A l \in Nat : l > 1 => l # 1
    OBVIOUS
  <2>3. QED
    BY <2>1, <2>2, Zenon
<1>3. CASE op.rows = <<>>
  <2>1. ReadStatements = <<>>
    BY <1>3 DEF ReadStatements
  <2>2. DOMAIN op.rows = {}
    BY <1>3
  <2>3. QED
    BY <1>1, <1>3, <2>1, <2>2
<1>4. CASE op.rows # <<>>
  <2>1. ReadStatements = [k \in DOMAIN op.rows |->
                           IF KeyMissing(op.rows[k]) THEN NoStatement ELSE SelectKey(op.rows[k])]
    BY <1>2, <1>4 DEF ReadStatements
  <2>2. ReadStatements \in [1..Len(op.rows) -> Range(ReadStatements)]
    BY <1>1, <2>1 DEF Range
  <2>3. ReadStatements \in Seq(Range(ReadStatements)) /\ Len(ReadStatements) = Len(op.rows)
    BY <1>1, <2>2
  <2>4. QED
    BY <1>1, <2>1, <2>3
<1>5. QED
  BY <1>3, <1>4

(* There is at most one row of a key.                                      *)
LEMMA KeyFinds ==
  ASSUME IsKeyedCall(op), IsReadCall(op), ByKeys, PerKey, table \subseteq InitTable,
         NEW key \in Range(op.rows), ~KeyMissing(key)
  PROVE  /\ Found(SelectKey(key)) = {row \in table : SameKey(row, key)}
         /\ \A a, b \in Found(SelectKey(key)) : a = b
         /\ IsFiniteSet(Found(SelectKey(key)))
<1> DEFINE filters == [c \in DOMAIN KeyColumns |-> KeyFilter(key, KeyColumns[c])]
<1>1. SelectKey(key) = Select(filters)
  BY DEF SelectKey
<1>2. \A row \in TableRow :
        /\ filters \in Seq(Range(filters))
        /\ \A f \in Range(filters) : Sensible(f, TRUE) /\ f.field \in Column
        /\ Meant(filters, row, TRUE) <=> SameKey(row, key)
  BY KeyIsMeant
<1> HIDE DEF filters
<1>3. [c \in Column |-> 0] \in TableRow
  BY DEF TableRow
<1>4. table \subseteq TableRow /\ IsFiniteSet(InitTable)
  BY KeyedWriteAssumption DEF TableRow
<1>5. Found(Select(filters)) = {row \in table : Meant(filters, row, TRUE)}
  BY <1>2, <1>3, <1>4, FoundByWhere
<1>6. Found(SelectKey(key)) = {row \in table : SameKey(row, key)}
  BY <1>1, <1>2, <1>4, <1>5
<1>7. op.key # <<>>
  BY DEF PerKey, KeyColumns
<1>8. ASSUME NEW a \in Found(SelectKey(key)), NEW b \in Found(SelectKey(key)) PROVE a = b
  <2>1. a \in InitTable /\ b \in InitTable /\ \A column \in Range(op.key) : a[column] = b[column]
    BY <1>6 DEF SameKey, KeyColumns
  <2>2. QED
    BY <1>7, <2>1 DEF IsReadCall
<1>9. Found(SelectKey(key)) \subseteq InitTable
  BY <1>6
<1>10. QED
  BY <1>4, <1>6, <1>8, <1>9, FS_Subset

(* The first k keys have been read: each row of the answer is of another   *)
(* of them, and no row of theirs has been left out that was not to be.     *)
ReadUpTo(k, at) ==
  /\ k \in 0..Len(op.rows)
  /\ reads = SubSeq(ReadStatements, k + 1, Len(op.rows))
  /\ at \in [DOMAIN answer -> 1..k]
  /\ \A i, j \in DOMAIN answer : i < j => at[i] < at[j]
  /\ \A i \in DOMAIN answer :
       ~KeyMissing(op.rows[at[i]]) /\ SameKey(answer[i], op.rows[at[i]])
  /\ \A i \in 1..k : \A row \in table :
       ~KeyMissing(op.rows[i]) /\ SameKey(row, op.rows[i]) /\ row \notin Skipped
         => row \in Range(answer)
  /\ \A n \in ReadLimit : Len(answer) <= n

(* When enough keys have been read the answer is what was asked for.       *)
LEMMA KeyReadsSatisfy ==
  ASSUME IsKeyedCall(op), IsReadCall(op), ByKeys, PerKey, ~ReadThrows, Enough,
         answer \in Seq(TableRow), Range(answer) \subseteq table,
         NEW k, NEW at, ReadUpTo(k, at)
  PROVE  Satisfied
<1>1. /\ ReadStatements \in Seq(Range(ReadStatements)) /\ Len(ReadStatements) = Len(op.rows)
      /\ Len(op.rows) \in Nat /\ DOMAIN op.rows = 1..Len(op.rows)
  BY KeyReads
<1>2. /\ op.method = "findManyForUpdateByKeys" /\ ~Single /\ ReadLimit = op.limit
      /\ op.order = <<>> /\ op.limit \in SUBSET Nat /\ \A m, n \in op.limit : m = n
  <2>1. op.method = "findManyForUpdateByKeys" /\ ~Single /\ ReadLimit = op.limit
    BY DEF ByKeys, Single, ReadLimit
  <2>2. op.order = <<>>
    BY <2>1 DEF ReadThrows, ByKeys, Single
  <2>3. QED
    BY <2>1, <2>2, LimitIsNatural
<1>3. DOMAIN answer = 1..Len(answer) /\ Len(answer) \in Nat /\ DOMAIN answer \subseteq Nat
      /\ IsFiniteSet(DOMAIN answer)
  BY Elements
<1>4. k \in 0..Len(op.rows) /\ 1..k \subseteq DOMAIN op.rows /\ 1..k \subseteq Nat
  BY <1>1 DEF ReadUpTo
<1>5. AskedFor = {row \in table : \E key \in Range(op.rows) : ~KeyMissing(key) /\ SameKey(row, key)}
  BY <1>2 DEF AskedFor
<1>6. \A i \in DOMAIN answer :
        /\ at[i] \in DOMAIN op.rows /\ at[i] \in Nat
        /\ ~KeyMissing(op.rows[at[i]]) /\ SameKey(answer[i], op.rows[at[i]])
  BY <1>4 DEF ReadUpTo
<1>7. \A i, j \in DOMAIN answer : at[i] = at[j] => i = j
  <2> SUFFICES ASSUME NEW i \in DOMAIN answer, NEW j \in DOMAIN answer, at[i] = at[j], i # j
               PROVE  FALSE
    OBVIOUS
  <2>1. i < j \/ j < i
    BY <1>3
  <2>2. QED
    BY <1>6, <2>1 DEF ReadUpTo
<1>8. ASSUME NEW row \in Range(answer)
      PROVE  row \in AskedFor /\ Cardinality({i \in DOMAIN answer : answer[i] = row}) <= Occurrences(row)
  <2> DEFINE I == {i \in DOMAIN answer : answer[i] = row}
             J == {j \in DOMAIN op.rows : ~KeyMissing(op.rows[j]) /\ SameKey(row, op.rows[j])}
             of == [i \in I |-> at[i]]
  <2>1. Occurrences(row) = Cardinality(J)
    BY DEF Occurrences
  <2>2. IsFiniteSet(J)
    <3>1. IsFiniteSet(DOMAIN op.rows)
      BY KeyedCallFacts, Elements
    <3>2. QED
      BY <3>1, FS_Subset
  <2>3. of \in Injection(I, J)
    BY <1>6, <1>7 DEF Injection, IsInjective
  <2>4. Cardinality(I) <= Cardinality(J)
    BY <2>2, <2>3, FS_Injection
  <2>5. PICK i \in DOMAIN answer : answer[i] = row
    BY DEF Range
  <2>6. row \in table /\ op.rows[at[i]] \in Range(op.rows)
    BY <1>6 DEF Range
  <2>7. row \in AskedFor
    BY <1>5, <1>6, <2>5, <2>6
  <2>8. QED
    BY <2>1, <2>4, <2>7
<1>9. \A i, j \in DOMAIN answer : ~Precedes(op.order, answer[j], answer[i])
  BY <1>2 DEF Precedes
<1>10. \A n \in op.limit : Len(answer) <= n
  BY <1>2 DEF ReadUpTo
<1>11. ASSUME reads = <<>> PROVE AskedFor \ Skipped \subseteq Range(answer)
  <2>1. k = Len(op.rows)
    <3>1. SUFFICES ASSUME k # Len(op.rows) PROVE FALSE
      OBVIOUS
    <3>2. k + 1 \in 1..Len(op.rows) /\ Len(op.rows) \in (k + 1)..Len(op.rows)
      BY <1>1, <1>4, <3>1
    <3>3. \A i \in (k + 1)..Len(op.rows) : ReadStatements[i] \in Range(ReadStatements)
      <4>1. \A i \in (k + 1)..Len(op.rows) : i \in 1..Len(op.rows)
        BY <1>1, <1>4
      <4>2. DOMAIN ReadStatements = 1..Len(op.rows)
        BY <1>1, LenProperties
      <4>3. QED
        BY <4>1, <4>2 DEF Range
    <3>4. PICK m : m = k + 1
      OBVIOUS
    <3>5. m \in Int /\ Len(op.rows) \in Int /\ m <= Len(op.rows)
      BY <1>1, <3>2, <3>4
    <3>6. Len(SubSeq(ReadStatements, m, Len(op.rows)))
            = IF m <= Len(op.rows) THEN Len(op.rows) - m + 1 ELSE 0
      BY <3>3, <3>4, <3>5, SubSeqProperties
    <3>7. Len(SubSeq(ReadStatements, m, Len(op.rows))) # 0
      BY <1>1, <3>5, <3>6
    <3>8. reads = SubSeq(ReadStatements, m, Len(op.rows)) /\ Len(<<>>) = 0
      BY <3>4 DEF ReadUpTo
    <3>9. QED
      BY <1>11, <3>7, <3>8
  <2>2. ASSUME NEW row \in AskedFor \ Skipped PROVE row \in Range(answer)
    <3>1. PICK i \in DOMAIN op.rows : ~KeyMissing(op.rows[i]) /\ SameKey(row, op.rows[i])
      BY <1>5, <2>2 DEF Range
    <3>2. i \in 1..k /\ row \in table /\ row \notin Skipped
      BY <1>1, <1>5, <2>1, <2>2, <3>1
    <3>3. QED
      BY <3>1, <3>2 DEF ReadUpTo
  <2>3. QED
    BY <2>2
<1>12. op.limit = {} => AskedFor \ Skipped \subseteq Range(answer)
  BY <1>2, <1>11 DEF Enough
<1>13. ASSUME AskedFor \ Skipped # {}, op.limit # {0} PROVE answer # <<>>
  <2>1. CASE reads = <<>>
    <3>1. Range(<<>>) = {}
      BY DEF Range
    <3>2. QED
      BY <1>11, <1>13, <2>1, <3>1
  <2>2. CASE reads # <<>>
    <3>1. PICK n \in op.limit : Len(answer) >= n
      BY <1>2, <2>2 DEF Enough
    <3>2. n # 0 /\ n \in Nat
      BY <1>2, <1>13, <3>1
    <3>3. Len(answer) # 0
      BY <1>3, <3>1, <3>2
    <3>4. Len(<<>>) = 0
      OBVIOUS
    <3>5. QED
      BY <3>3, <3>4
  <2>3. QED
    BY <2>1, <2>2
<1>14. QED
  BY <1>2, <1>8, <1>9, <1>10, <1>12, <1>13 DEF Satisfied

(* What a read reads next, when its keys are read one by one: the one row  *)
(* of the key, or none.                                                    *)
LEMMA RowOfKey ==
  ASSUME IsKeyedCall(op), IsReadCall(op), ByKeys, PerKey, table \subseteq InitTable,
         locked \subseteq op.locked,
         NEW key \in Range(op.rows), ~KeyMissing(key),
         NEW rows \in Got(SelectKey(key)), ~Blocked(rows)
  PROVE  /\ rows \in Seq(table) /\ Len(rows) \in {0, 1}
         /\ \A row \in Range(rows) : SameKey(row, key) /\ row \notin locked
         /\ \A row \in table : SameKey(row, key) /\ row \notin Skipped => row \in Range(rows)
<1>1. /\ Found(SelectKey(key)) = {row \in table : SameKey(row, key)}
      /\ \A a, b \in Found(SelectKey(key)) : a = b
      /\ IsFiniteSet(Found(SelectKey(key)))
  BY KeyFinds
<1>2. PICK s \in Arranged(Found(SelectKey(key)), op.order) : rows = Visible(s)
  BY DEF Got, UpTo
<1>3. /\ s \in Seq(Found(SelectKey(key))) /\ Range(s) = Found(SelectKey(key))
      /\ \A i, j \in DOMAIN s : s[i] = s[j] => i = j
  BY <1>1, ArrangedRows
<1>4. /\ rows \in Seq(Found(SelectKey(key))) /\ \E at : InPart(rows, s, at)
      /\ Range(rows) = IF op.onLocked = "skip" THEN Range(s) \ locked ELSE Range(s)
  BY <1>2, <1>3, VisibleIsPart
<1>5. PICK at : InPart(rows, s, at)
  BY <1>4
<1>6. DOMAIN rows = 1..Len(rows) /\ Len(rows) \in Nat
  BY <1>4, LenProperties
<1>7. Len(rows) \in {0, 1}
  <2>1. ASSUME Len(rows) \notin {0, 1} PROVE FALSE
    <3>1. 1 \in DOMAIN rows /\ 2 \in DOMAIN rows
      BY <1>6, <2>1
    <3>2. /\ at[1] \in DOMAIN s /\ at[2] \in DOMAIN s /\ at[1] < at[2]
      BY <1>5, <3>1 DEF InPart
    <3>3. s[at[1]] \in Found(SelectKey(key)) /\ s[at[2]] \in Found(SelectKey(key))
      BY <1>3, <3>2 DEF Range
    <3>4. at[1] = at[2] /\ at[1] \in Nat
      <4>1. DOMAIN s \subseteq Nat
        BY <1>3, Elements
      <4>2. QED
        BY <1>1, <1>3, <3>2, <3>3, <4>1
    <3>5. QED
      BY <3>2, <3>4
  <2>2. QED
    BY <2>1
<1>8. rows \in Seq(table)
  <2>1. Found(SelectKey(key)) \subseteq table
    BY <1>1
  <2>2. QED
    BY <1>4, <2>1, SeqMonotonic
<1>9. ASSUME NEW row \in Range(rows) PROVE SameKey(row, key) /\ row \notin locked
  <2>1. row \in Range(s)
    BY <1>4, <1>9
  <2>2. op.onLocked \in {"wait", "skip", "nowait"}
    BY DEF IsReadCall, ByKeys
  <2>3. row \notin locked
    BY <1>4, <1>9, <2>2 DEF Blocked
  <2>4. QED
    BY <1>1, <1>3, <2>1, <2>3
<1>10. ASSUME NEW row \in table, SameKey(row, key), row \notin Skipped PROVE row \in Range(rows)
  <2>1. row \in Range(s)
    BY <1>1, <1>3, <1>10
  <2>2. op.onLocked = "skip" => row \notin locked
    BY <1>10 DEF Skipped
  <2>3. QED
    BY <1>4, <2>1, <2>2
<1>11. QED
  BY <1>7, <1>8, <1>9, <1>10

(* A row that is read, or none, is put after those of the keys before.     *)
LEMMA OneMore ==
  ASSUME NEW T, NEW a \in Seq(T), NEW b \in Seq(T), Len(b) \in {0, 1}
  PROVE  /\ a \o b \in Seq(T) /\ Len(a \o b) = Len(a) + Len(b)
         /\ Range(a \o b) = Range(a) \cup Range(b)
         /\ \A i \in DOMAIN (a \o b) :
              \/ i \in DOMAIN a /\ (a \o b)[i] = a[i]
              \/ i = Len(a) + 1 /\ i \notin DOMAIN a /\ (a \o b)[i] \in Range(b)
<1>1. /\ DOMAIN a = 1..Len(a) /\ Len(a) \in Nat /\ DOMAIN b = 1..Len(b) /\ Len(b) \in Nat
  BY LenProperties
<1>2. /\ a \o b \in Seq(T) /\ Len(a \o b) = Len(a) + Len(b)
      /\ \A i \in 1..(Len(a) + Len(b)) :
           (a \o b)[i] = IF i <= Len(a) THEN a[i] ELSE b[i - Len(a)]
  BY ConcatProperties
<1>3. Range(a \o b) = Range(a) \cup Range(b)
  BY RangeConcatenation
<1>4. DOMAIN (a \o b) = 1..(Len(a) + Len(b))
  BY <1>2, LenProperties
<1>5. ASSUME NEW i \in DOMAIN (a \o b)
      PROVE  \/ i \in DOMAIN a /\ (a \o b)[i] = a[i]
             \/ i = Len(a) + 1 /\ i \notin DOMAIN a /\ (a \o b)[i] \in Range(b)
  <2>1. PICK m, n : m = Len(a) /\ n = Len(b)
    OBVIOUS
  <2>2. m \in Nat /\ n \in {0, 1} /\ i \in 1..(m + n) /\ DOMAIN a = 1..m /\ DOMAIN b = 1..n
    BY <1>1, <1>4, <2>1
  <2>3. (a \o b)[i] = IF i <= m THEN a[i] ELSE b[i - m]
    BY <1>2, <2>1, <2>2
  <2>4. CASE i <= m
    <3>1. i \in 1..m
      BY <2>2, <2>4
    <3>2. QED
      BY <2>2, <2>3, <2>4, <3>1
  <2>5. CASE ~(i <= m)
    <3>1. n = 1 /\ i = m + 1 /\ i - m = 1 /\ i \notin 1..m /\ 1 \in 1..n
      BY <2>2, <2>5
    <3>2. b[1] \in Range(b)
      BY <2>2, <3>1 DEF Range
    <3>3. QED
      BY <2>1, <2>2, <2>3, <2>5, <3>1, <3>2
  <2>6. QED
    BY <2>4, <2>5
<1>6. QED
  BY <1>2, <1>3, <1>5

(* What a read asks for stays while it is under way.                       *)
LEMMA ReadStays ==
  ASSUME op' = op
  PROVE  /\ ReadStatements' = ReadStatements /\ ReadThrows' = ReadThrows /\ ReadLimit' = ReadLimit
         /\ PerKey' = PerKey /\ ByKeys' = ByKeys /\ Single' = Single /\ Skipped' = Skipped
         /\ \A row : KeyMissing(row)' = KeyMissing(row)
         /\ \A a, b : SameKey(a, b)' = SameKey(a, b)
         /\ \A row : Occurrences(row)' = Occurrences(row)
<1>1. KeyColumns' = KeyColumns /\ WhereRefused' = WhereRefused /\ PerKey' = PerKey
      /\ ByKeys' = ByKeys /\ Single' = Single /\ BadLimit' = BadLimit
  BY DEF KeyColumns, WhereRefused, PerKey, ByKeys, Single, BadLimit
<1>2. (\A row : KeyMissing(row)' = KeyMissing(row)) /\ (\A a, b : SameKey(a, b)' = SameKey(a, b))
  BY <1>1 DEF KeyMissing, SameKey
<1>3. ReadThrows' = ReadThrows
  BY <1>1, <1>2 DEF ReadThrows
<1>4. SelectByKeys' = SelectByKeys
  BY <1>1 DEF SelectByKeys
<1>5. \A key : SelectKey(key)' = SelectKey(key)
  BY <1>1 DEF SelectKey
<1>6. ReadStatements' = ReadStatements
  BY <1>1, <1>2, <1>4, <1>5 DEF ReadStatements
<1>7. ReadLimit' = ReadLimit /\ Skipped' = Skipped
  BY <1>1 DEF ReadLimit, Skipped
<1>8. \A row : Occurrences(row)' = Occurrences(row)
  BY <1>1, <1>2 DEF Occurrences
<1>9. QED
  BY <1>1, <1>2, <1>3, <1>6, <1>7, <1>8

(* The next key is read.                                                   *)
LEMMA KeyReadStep ==
  ASSUME IsKeyedCall(op), IsReadCall(op), ByKeys, PerKey, ~ReadThrows, ~Enough,
         table \subseteq InitTable, locked \subseteq op.locked, answer \in Seq(table),
         Head(reads) # NoStatement, NEW rows \in Got(Head(reads)), ~Blocked(rows),
         answer' = answer \o rows, reads' = Tail(reads), UNCHANGED <<op, table, locked>>,
         NEW k, NEW at, ReadUpTo(k, at)
  PROVE  /\ \E later, at2 : ReadUpTo(later, at2)'
         /\ rows \in Seq(table) /\ Range(rows) \cap locked = {}
<1>1. /\ ReadStatements \in Seq(Range(ReadStatements)) /\ Len(ReadStatements) = Len(op.rows)
      /\ Len(op.rows) \in Nat /\ DOMAIN op.rows = 1..Len(op.rows)
      /\ \A i \in DOMAIN op.rows :
           ReadStatements[i] = IF KeyMissing(op.rows[i]) THEN NoStatement ELSE SelectKey(op.rows[i])
  BY KeyReads
<1>2. /\ ReadLimit \in SUBSET Nat /\ \A m, n \in ReadLimit : m = n
      /\ \A n \in ReadLimit : ~(Len(answer) >= n)
      /\ reads # <<>>
  BY LimitIsNatural DEF Enough
<1>3. PICK l : l = Len(op.rows)
  OBVIOUS
<1>4. k \in 0..l /\ l \in Nat /\ reads = SubSeq(ReadStatements, k + 1, l)
  BY <1>1, <1>3 DEF ReadUpTo
<1>5. k # l
  <2>1. SUFFICES ASSUME k = l PROVE FALSE
    OBVIOUS
  <2>2. k + 1 \in Int /\ l \in Int /\ l < k + 1
    BY <1>4, <2>1
  <2>3. reads = <<>>
    BY <1>4, <2>2, SubSeqEmpty
  <2>4. QED
    BY <1>2, <2>3
<1>6. PICK m : m = k + 1
  OBVIOUS
<1>7. m \in 1..l /\ l \in m..l /\ m \in 0..l /\ k \in Nat /\ m \in Nat /\ m \in DOMAIN op.rows
      /\ 1..k \subseteq 1..m /\ m \in 1..m /\ \A i \in 1..m : i \in 1..k \/ i = m
  BY <1>1, <1>3, <1>4, <1>5, <1>6
<1>8. Head(reads) = ReadStatements[m] /\ reads' = SubSeq(ReadStatements, m + 1, l)
  BY <1>1, <1>3, <1>4, <1>6, <1>7, HeadTailOfSubSeq
<1>9. PICK key : key = op.rows[m]
  OBVIOUS
<1>10. key \in Range(op.rows) /\ ~KeyMissing(key) /\ Head(reads) = SelectKey(key)
  BY <1>1, <1>7, <1>8, <1>9 DEF Range
<1>11. /\ rows \in Seq(table) /\ Len(rows) \in {0, 1}
       /\ \A row \in Range(rows) : SameKey(row, key) /\ row \notin locked
       /\ \A row \in table : SameKey(row, key) /\ row \notin Skipped => row \in Range(rows)
  BY <1>10, RowOfKey
<1>12. /\ answer' \in Seq(table) /\ Len(answer') = Len(answer) + Len(rows)
       /\ Range(answer') = Range(answer) \cup Range(rows)
       /\ \A i \in DOMAIN answer' :
            \/ i \in DOMAIN answer /\ answer'[i] = answer[i]
            \/ i = Len(answer) + 1 /\ i \notin DOMAIN answer /\ answer'[i] \in Range(rows)
  BY <1>11, OneMore
<1>13. PICK at2 : at2 = [i \in DOMAIN answer' |-> IF i \in DOMAIN answer THEN at[i] ELSE m]
  OBVIOUS
<1>14. \A i \in DOMAIN answer : at[i] \in 1..k
  BY DEF ReadUpTo
<1>15. at2 \in [DOMAIN answer' -> 1..m]
  BY <1>7, <1>13, <1>14
<1>16. DOMAIN answer = 1..Len(answer) /\ Len(answer) \in Nat
  BY LenProperties
<1>17. ASSUME NEW i \in DOMAIN answer', NEW j \in DOMAIN answer', i < j PROVE at2[i] < at2[j]
  <2>1. CASE i \in DOMAIN answer /\ j \in DOMAIN answer
    BY <1>13, <1>17, <2>1 DEF ReadUpTo
  <2>2. CASE i \in DOMAIN answer /\ j \notin DOMAIN answer
    <3>1. at2[i] \in 1..k /\ at2[j] = m
      BY <1>13, <1>14, <2>2
    <3>2. QED
      BY <1>6, <1>7, <3>1
  <2>3. CASE i \notin DOMAIN answer
    <3>1. i = Len(answer) + 1 /\ (j \in 1..Len(answer) \/ j = Len(answer) + 1)
      BY <1>12, <1>16, <2>3
    <3>2. QED
      BY <1>16, <1>17, <3>1
  <2>4. QED
    BY <2>1, <2>2, <2>3
<1>18. ASSUME NEW i \in DOMAIN answer'
       PROVE  ~KeyMissing(op.rows[at2[i]]) /\ SameKey(answer'[i], op.rows[at2[i]])
  <2>1. CASE i \in DOMAIN answer
    <3>1. at2[i] = at[i] /\ answer'[i] = answer[i]
      BY <1>12, <1>13, <1>16, <2>1
    <3>2. QED
      BY <2>1, <3>1 DEF ReadUpTo
  <2>2. CASE i \notin DOMAIN answer
    <3>1. at2[i] = m /\ answer'[i] \in Range(rows)
      BY <1>12, <1>13, <1>18, <2>2
    <3>2. QED
      BY <1>9, <1>10, <1>11, <3>1
  <2>3. QED
    BY <2>1, <2>2
<1>19. ASSUME NEW i \in 1..m, NEW row \in table, ~KeyMissing(op.rows[i]), SameKey(row, op.rows[i]),
              row \notin Skipped
       PROVE  row \in Range(answer')
  <2>1. CASE i \in 1..k
    BY <1>12, <1>19, <2>1 DEF ReadUpTo
  <2>2. CASE i = m
    BY <1>9, <1>11, <1>12, <1>19, <2>2
  <2>3. QED
    BY <1>7, <2>1, <2>2
<1>20. \A n \in ReadLimit : Len(answer') <= n
  <2>1. \A a \in Nat, d \in {0, 1}, n \in Nat : ~(a >= n) => a + d <= n
    OBVIOUS
  <2>2. QED
    BY <1>2, <1>11, <1>12, <1>16, <2>1
<1>21. /\ ReadStatements' = ReadStatements /\ ReadLimit' = ReadLimit /\ Skipped' = Skipped
       /\ \A row : KeyMissing(row)' = KeyMissing(row)
       /\ \A a, b : SameKey(a, b)' = SameKey(a, b)
  BY ReadStays
<1>22. ReadUpTo(m, at2)'
  <2>1. /\ m \in 0..Len(op'.rows)
        /\ reads' = SubSeq(ReadStatements', m + 1, Len(op'.rows))
    BY <1>3, <1>7, <1>8, <1>21
  <2>2. /\ at2 \in [DOMAIN answer' -> 1..m]
        /\ \A i, j \in DOMAIN answer' : i < j => at2[i] < at2[j]
    BY <1>15, <1>17
  <2>3. \A i \in DOMAIN answer' :
          (~KeyMissing(op.rows[at2[i]]) /\ SameKey(answer[i], op.rows[at2[i]]))'
    BY <1>18, <1>21
  <2>4. \A i \in 1..m : \A row \in table' :
          (~KeyMissing(op.rows[i]) /\ SameKey(row, op.rows[i]) /\ row \notin Skipped
             => row \in Range(answer))'
    BY <1>19, <1>21
  <2>5. \A n \in ReadLimit' : Len(answer') <= n
    BY <1>20, <1>21
  <2>6. QED
    BY <2>1, <2>2, <2>3, <2>4, <2>5 DEF ReadUpTo
<1>23. QED
  BY <1>11, <1>22

(* What a keyed read has, at any time: its one statement is yet to run or  *)
(* has left rows that were asked for, or it is somewhere in its keys. It   *)
(* has no row that another transaction may still delete.                   *)
OneRead ==
  \/ reads = ReadStatements /\ answer = <<>>
  \/ reads = <<>> /\ \E s \in Arranged(AskedFor, op.order) : answer = UpTo(Visible(s), ReadLimit)

ReadInv ==
  /\ read \in {"none", "idle", "refused", "reading", "answered", "rejected", "tooMany"}
  /\ read = "none" <=> op.method \in WriteMethods \cup {"none"}
  /\ read = "none" => locked = {}
  /\ op.method = "none" => table = InitTable
  /\ read \in {"none", "idle", "refused"} => answer = <<>> /\ reads = <<>>
  /\ read \notin {"none", "idle", "refused"} => ~ReadThrows
  /\ answer \in Seq(table)
  /\ locked \subseteq table /\ locked \subseteq op.locked
  /\ reads # <<>> => Range(answer) \cap locked = {}
  /\ read = "reading" => IF PerKey THEN \E k, at : ReadUpTo(k, at) ELSE OneRead
  /\ ReadIsWhatWasAsked

(* While the table stays, so do the rows that were asked for.              *)
LEMMA AskedStays ==
  ASSUME UNCHANGED <<op, table>>
  PROVE  AskedFor' = AskedFor
<1>1. /\ \A row : KeyMissing(row)' = KeyMissing(row)
      /\ \A a, b : SameKey(a, b)' = SameKey(a, b)
  BY ReadStays
<1>2. QED
  BY <1>1 DEF AskedFor

(* A read of no statement asked for nothing.                               *)
LEMMA NothingSatisfies ==
  ASSUME IsReadCall(op), ~ReadThrows, AskedFor = {}, answer = <<>>
  PROVE  Satisfied
<1>1. Range(answer) = {} /\ DOMAIN answer = {} /\ Len(answer) = 0
  BY DEF Range
<1>2. op.limit \in SUBSET Nat
  BY LimitIsNatural
<1>3. QED
  BY <1>1, <1>2 DEF Satisfied

(* A read that has enough has what was asked for.                          *)
LEMMA ReadyIsSatisfied ==
  ASSUME Given, WriteInv, ReadInv, read = "reading", Enough
  PROVE  Satisfied
<1>1. /\ IsKeyedCall(op) /\ IsReadCall(op) /\ ~ReadThrows
      /\ op.method \notin WriteMethods \cup {"none"}
      /\ locked \subseteq op.locked /\ answer \in Seq(table)
      /\ IsFiniteSet(table) /\ table \subseteq TableRow
  BY TableIsFinite DEF Given, ReadInv
<1>2. CASE PerKey
  <2>1. ByKeys
    BY <1>1, <1>2 DEF PerKey, ByKeys, WriteMethods
  <2>2. PICK k, at : ReadUpTo(k, at)
    BY <1>2 DEF ReadInv
  <2>3. answer \in Seq(TableRow) /\ Range(answer) \subseteq table
    BY <1>1, SeqMonotonic, RangeOfSeq
  <2>4. QED
    BY <1>1, <1>2, <2>1, <2>2, <2>3, KeyReadsSatisfy
<1>3. CASE ~PerKey
  <2>1. OneRead /\ reads = <<>>
    BY <1>3 DEF ReadInv, Enough
  <2>2. CASE \E s \in Arranged(AskedFor, op.order) : answer = UpTo(Visible(s), ReadLimit)
    BY <1>1, <1>3, <2>2, OneReadSatisfies
  <2>3. CASE ReadStatements = <<>> /\ answer = <<>>
    <3>1. \A st : <<st>> # <<>>
      OBVIOUS
    <3>2. AskedFor = {}
      BY <1>1, <1>3, <2>3, <3>1, ReadFinds DEF FindsWhatWasAsked
    <3>3. QED
      BY <1>1, <2>3, <3>2, NothingSatisfies
  <2>4. QED
    BY <2>1, <2>2, <2>3 DEF OneRead
<1>4. QED
  BY <1>2, <1>3

(* A read answers what was asked for.                                      *)
LEMMA AnswerKeeps == Given /\ WriteInv /\ ReadInv /\ AnswerRead => ReadInv'
<1> SUFFICES ASSUME Given, WriteInv, ReadInv, AnswerRead PROVE ReadInv'
  OBVIOUS
<1>1. /\ read = "reading" /\ Enough
      /\ read' = IF Single /\ Len(answer) > 1 THEN "tooMany" ELSE "answered"
      /\ reads' = <<>> /\ UNCHANGED <<op, table, answer, locked>>
  BY DEF AnswerRead, writeVars
<1>2. Satisfied
  BY <1>1, ReadyIsSatisfied
<1>3. /\ ReadThrows' = ReadThrows /\ ReadLimit' = ReadLimit /\ Single' = Single
      /\ Skipped' = Skipped /\ AskedFor' = AskedFor
      /\ \A row : Occurrences(row)' = Occurrences(row)
  BY <1>1, ReadStays, AskedStays
<1>4. ReadIsWhatWasAsked'
  <2>1. CASE Single /\ Len(answer) > 1
    <3>1. read' = "tooMany" /\ Cardinality(AskedFor') > 1
      BY <1>1, <1>2, <1>3, <2>1 DEF Satisfied
    <3>2. QED
      BY <3>1 DEF ReadIsWhatWasAsked
  <2>2. CASE ~(Single /\ Len(answer) > 1)
    <3>1. read' = "answered" /\ (Single => AskedFor = Range(answer))
      BY <1>1, <1>2, <2>2 DEF Satisfied
    <3>2. QED
      BY <1>1, <1>2, <1>3, <3>1 DEF Satisfied, ReadIsWhatWasAsked
  <2>3. QED
    BY <2>1, <2>2
<1>5. read' \in {"answered", "tooMany"} /\ read # "none" /\ ~ReadThrows
  BY <1>1 DEF ReadInv
<1>6. QED
  BY <1>1, <1>3, <1>4, <1>5 DEF ReadInv

(* A read that is issued has read nothing.                                 *)
LEMMA IssueReadKeeps == Given /\ WriteInv /\ ReadInv /\ IssueRead => ReadInv'
<1> SUFFICES ASSUME Given, WriteInv, ReadInv, IssueRead PROVE ReadInv'
  OBVIOUS
<1>1. /\ read = "idle" /\ ~ReadThrows /\ read' = "reading" /\ reads' = ReadStatements
      /\ answer = <<>> /\ UNCHANGED <<op, table, answer, locked>>
      /\ op.method \notin WriteMethods \cup {"none"} /\ IsKeyedCall(op) /\ IsReadCall(op)
  BY DEF IssueRead, writeVars, ReadInv, Given
<1>2. /\ ReadThrows' = ReadThrows /\ ReadStatements' = ReadStatements /\ PerKey' = PerKey
      /\ ReadLimit' = ReadLimit
  BY <1>1, ReadStays
<1>3. Range(answer') = {} /\ answer' = <<>> /\ DOMAIN answer' = {} /\ Len(answer') = 0
  BY <1>1 DEF Range
<1>4. ASSUME PerKey PROVE \E k, at : ReadUpTo(k, at)'
  <2>1. ByKeys
    BY <1>1, <1>4 DEF PerKey, ByKeys, WriteMethods
  <2>2. /\ ReadStatements \in Seq(Range(ReadStatements)) /\ Len(ReadStatements) = Len(op.rows)
        /\ Len(op.rows) \in Nat
    BY <1>1, <1>4, <2>1, KeyReads
  <2>3. SubSeq(ReadStatements, 1, Len(ReadStatements)) = ReadStatements
    BY <2>2, SubSeqFull
  <2>4. reads' = SubSeq(ReadStatements, 0 + 1, Len(op.rows)) /\ 0 \in 0..Len(op.rows)
    <3>1. 0 + 1 = 1
      OBVIOUS
    <3>2. QED
      BY <1>1, <2>2, <2>3, <3>1
  <2>5. PICK at : at = [i \in {} |-> 1]
    OBVIOUS
  <2>6. 1..0 = {} /\ at \in [{} -> 1..0]
    BY <2>5
  <2>7. ReadLimit \in SUBSET Nat
    BY <1>1, LimitIsNatural
  <2>8. ReadUpTo(0, at)'
    BY <1>1, <1>2, <1>3, <2>4, <2>6, <2>7 DEF ReadUpTo
  <2>9. QED
    BY <2>8
<1>5. OneRead'
  BY <1>1, <1>2 DEF OneRead
<1>6. ReadIsWhatWasAsked'
  BY <1>1 DEF ReadIsWhatWasAsked
<1>7. QED
  BY <1>1, <1>2, <1>3, <1>4, <1>5, <1>6 DEF ReadInv

(* A statement of a read adds rows that were asked for, and that nobody    *)
(* can delete any more.                                                    *)
LEMMA ReadNextKeeps == Given /\ WriteInv /\ ReadInv /\ ReadNext => ReadInv'
<1> SUFFICES ASSUME Given, WriteInv, ReadInv, ReadNext PROVE ReadInv'
  OBVIOUS
<1>1. /\ read = "reading" /\ ~Enough /\ Head(reads) # NoStatement
      /\ read' = "reading" /\ reads' = Tail(reads) /\ UNCHANGED <<op, table, read, locked>>
      /\ ~ReadThrows /\ answer \in Seq(table) /\ locked \subseteq op.locked /\ reads # <<>>
      /\ op.method \notin WriteMethods \cup {"none"} /\ IsKeyedCall(op) /\ IsReadCall(op)
      /\ table \subseteq InitTable /\ IsFiniteSet(table) /\ table \subseteq TableRow
  <2>1. op.method \notin WriteMethods \cup {"none"}
    BY DEF ReadNext, ReadInv
  <2>2. table \subseteq InitTable
    BY <2>1 DEF WriteInv, WriteMethods
  <2>3. QED
    BY <2>1, <2>2, TableIsFinite DEF ReadNext, writeVars, ReadInv, Given, Enough
<1>2. PICK rows \in Got(Head(reads)) : ~Blocked(rows) /\ answer' = answer \o rows
  BY DEF ReadNext
<1>3. /\ ReadThrows' = ReadThrows /\ ReadStatements' = ReadStatements /\ PerKey' = PerKey
      /\ ReadLimit' = ReadLimit /\ AskedFor' = AskedFor
  BY <1>1, ReadStays, AskedStays
<1>4. ReadIsWhatWasAsked'
  BY <1>1 DEF ReadIsWhatWasAsked
<1>5. CASE PerKey
  <2>1. ByKeys
    BY <1>1, <1>5 DEF PerKey, ByKeys, WriteMethods
  <2>2. PICK k, at : ReadUpTo(k, at)
    BY <1>1, <1>5 DEF ReadInv
  <2>3. /\ \E later, at2 : ReadUpTo(later, at2)'
        /\ rows \in Seq(table) /\ Range(rows) \cap locked = {}
    BY <1>1, <1>2, <1>5, <2>1, <2>2, KeyReadStep
  <2>4. answer' \in Seq(table) /\ Range(answer') = Range(answer) \cup Range(rows)
    BY <1>1, <1>2, <2>3, ConcatProperties, RangeConcatenation
  <2>5. Range(answer) \cap locked = {}
    BY <1>1 DEF ReadInv
  <2>6. QED
    BY <1>1, <1>3, <1>4, <1>5, <2>3, <2>4, <2>5 DEF ReadInv
<1>6. CASE ~PerKey
  <2>1. reads = ReadStatements /\ answer = <<>>
    BY <1>1, <1>6 DEF ReadInv, OneRead
  <2>2. PICK st : ReadStatements = <<st>> /\ Found(st) = AskedFor
    BY <1>1, <1>6, <2>1, ReadFinds DEF FindsWhatWasAsked
  <2>3. Head(reads) = st /\ reads' = <<>>
    BY <1>1, <2>1, <2>2
  <2>4. PICK s \in Arranged(AskedFor, op.order) : rows = UpTo(Visible(s), ReadLimit)
    BY <1>2, <1>6, <2>2, <2>3 DEF Got
  <2>5. rows \in Seq(table)
    <3>1. IsFiniteSet(AskedFor) /\ AskedFor \subseteq table
      BY <1>1, FS_Subset DEF AskedFor
    <3>2. s \in Seq(AskedFor)
      BY <3>1, ArrangedRows
    <3>3. s \in Seq(table)
      BY <3>1, <3>2, SeqMonotonic
    <3>4. Visible(s) \in Seq(table)
      BY <3>3, VisibleIsPart
    <3>5. ReadLimit \in SUBSET Nat
      BY <1>1, LimitIsNatural
    <3>6. QED
      BY <2>4, <3>4, <3>5, UpToIsPart
  <2>6. answer' = rows
    BY <1>2, <2>1, <2>5, ConcatEmptySeq
  <2>7. Visible(s)' = Visible(s)
    BY <1>1 DEF Visible
  <2>8. answer' = UpTo(Visible(s)', ReadLimit')
    BY <1>3, <2>4, <2>6, <2>7
  <2>9. (\E z \in Arranged(AskedFor, op.order) : answer = UpTo(Visible(z), ReadLimit))'
    BY <1>1, <1>3, <2>4, <2>8
  <2>10. OneRead'
    BY <2>3, <2>9 DEF OneRead
  <2>11. QED
    BY <1>1, <1>3, <1>4, <1>6, <2>3, <2>5, <2>6, <2>10 DEF ReadInv
<1>7. QED
  BY <1>5, <1>6

(* The rows that another transaction deletes have not been read.           *)
LEMMA OtherEndsKeeps == Given /\ WriteInv /\ ReadInv /\ OtherEnds => ReadInv'
<1> SUFFICES ASSUME Given, WriteInv, ReadInv, OtherEnds PROVE ReadInv'
  OBVIOUS
<1>1. /\ read = "idle" \/ (read = "reading" /\ reads # <<>>)
      /\ table' \in {table, table \ locked} /\ locked' = {}
      /\ UNCHANGED <<op, read, reads, answer>>
      /\ op.method \notin WriteMethods \cup {"none"} /\ answer \in Seq(table)
  BY DEF OtherEnds, ReadInv
<1>2. /\ ReadThrows' = ReadThrows /\ ReadStatements' = ReadStatements /\ PerKey' = PerKey
      /\ ReadLimit' = ReadLimit /\ Skipped' = Skipped
      /\ \A row : KeyMissing(row)' = KeyMissing(row)
      /\ \A a, b : SameKey(a, b)' = SameKey(a, b)
  BY <1>1, ReadStays
<1>3. answer' \in Seq(table')
  <2>1. Range(answer) \cap locked = {}
    <3>1. Range(<<>>) = {}
      BY DEF Range
    <3>2. QED
      BY <1>1, <3>1 DEF ReadInv
  <2>2. Range(answer) \subseteq table'
    BY <1>1, <2>1, RangeOfSeq
  <2>3. answer \in Seq(Range(answer))
    BY <1>1, LenProperties DEF Range
  <2>4. QED
    BY <1>1, <2>2, <2>3, SeqMonotonic
<1>4. ReadIsWhatWasAsked'
  BY <1>1 DEF ReadIsWhatWasAsked
<1>5. CASE read = "idle"
  BY <1>1, <1>2, <1>3, <1>4, <1>5 DEF ReadInv
<1>6. CASE read = "reading" /\ PerKey
  <2>1. PICK k, at : ReadUpTo(k, at)
    BY <1>6 DEF ReadInv
  <2>2. ReadUpTo(k, at)'
    BY <1>1, <1>2, <2>1 DEF ReadUpTo
  <2>3. \E l, at2 : ReadUpTo(l, at2)'
    BY <2>2
  <2>4. QED
    BY <1>1, <1>2, <1>3, <1>4, <1>6, <2>3 DEF ReadInv
<1>7. CASE read = "reading" /\ ~PerKey
  <2>1. reads = ReadStatements /\ answer = <<>>
    BY <1>1, <1>7 DEF ReadInv, OneRead
  <2>2. OneRead'
    BY <1>1, <1>2, <2>1 DEF OneRead
  <2>3. QED
    BY <1>1, <1>2, <1>3, <1>4, <1>7, <2>2 DEF ReadInv
<1>8. QED
  BY <1>1, <1>5, <1>6, <1>7

(* A service starts with nothing read.                                     *)
LEMMA ReadInit == Init => ReadInv
<1> SUFFICES ASSUME Init PROVE ReadInv
  OBVIOUS
<1>1. PICK c \in Cases : KeyedWriteInit({c.op}) /\ KeyedReadInit
  BY DEF Init
<1>2. /\ op = c.op /\ table = InitTable /\ reads = <<>> /\ answer = <<>> /\ locked = op.locked
      /\ read = IF op.method \in WriteMethods \cup {"none"} THEN "none" ELSE "idle"
  BY <1>1 DEF KeyedWriteInit, KeyedReadInit
<1>3. locked \subseteq table /\ (op.method \in WriteMethods \cup {"none"} => locked = {})
  BY <1>2, RequestsAssumption DEF IsReadCall
<1>4. ReadIsWhatWasAsked
  BY <1>2 DEF ReadIsWhatWasAsked
<1>5. <<>> \in Seq(table)
  OBVIOUS
<1>6. QED
  BY <1>2, <1>3, <1>4, <1>5 DEF ReadInv

(* Every step keeps what is known of a read.                               *)
LEMMA ReadKept == Given /\ WriteInv /\ ReadInv /\ [Next]_vars => ReadInv'
<1> SUFFICES ASSUME Given, WriteInv, ReadInv, [Next]_vars PROVE ReadInv'
  OBVIOUS
<1>1. CASE UNCHANGED <<writeVars, readVars>>
  <2>1. UNCHANGED <<op, table, read, reads, answer, locked>>
    BY <1>1 DEF writeVars, readVars
  <2>2. /\ ReadThrows' = ReadThrows /\ ReadStatements' = ReadStatements /\ PerKey' = PerKey
        /\ ReadLimit' = ReadLimit /\ Single' = Single /\ Skipped' = Skipped
        /\ AskedFor' = AskedFor
        /\ \A row : KeyMissing(row)' = KeyMissing(row)
        /\ \A a, b : SameKey(a, b)' = SameKey(a, b)
        /\ \A row : Occurrences(row)' = Occurrences(row)
    BY <2>1, ReadStays, AskedStays
  <2>3. ReadIsWhatWasAsked'
    BY <2>1, <2>2 DEF ReadInv, ReadIsWhatWasAsked
  <2>4. (\E k, at : ReadUpTo(k, at)) => \E k, at : ReadUpTo(k, at)'
    <3>1. ASSUME NEW k, NEW at, ReadUpTo(k, at) PROVE ReadUpTo(k, at)'
      BY <2>1, <2>2, <3>1 DEF ReadUpTo
    <3>2. QED
      BY <3>1
  <2>5. \A s : Visible(s)' = Visible(s)
    BY <2>1 DEF Visible
  <2>6. OneRead => OneRead'
    BY <2>1, <2>2, <2>5 DEF OneRead
  <2>7. QED
    BY <2>1, <2>2, <2>3, <2>4, <2>6 DEF ReadInv
<1>2. CASE WriteNext
  <2>1. /\ write # "none" /\ UNCHANGED <<op, read, reads, answer, locked>>
    BY <1>2 DEF WriteNext, KeyedWriteNext, Refuse, Issue, RunOnPool, RunInTransaction, StatementFails,
                AnswerLost, CommitWrite, CommitWriteFails, readVars
  <2>2. op.method \in WriteMethods /\ op.method # "none" /\ read = "none"
    BY <2>1 DEF WriteInv, WriteMethods
  <2>3. ReadIsWhatWasAsked'
    BY <2>1, <2>2 DEF ReadIsWhatWasAsked
  <2>4. answer = <<>> /\ reads = <<>> /\ locked = {} /\ <<>> \in Seq(table')
    BY <2>2 DEF ReadInv
  <2>5. QED
    BY <2>1, <2>2, <2>3, <2>4 DEF ReadInv
<1>3. CASE ReadKeyed
  <2>1. KeyedReadNext
    BY <1>3 DEF ReadKeyed
  <2>2. CASE RefuseRead
    <3>1. /\ read = "idle" /\ read' = "refused" /\ UNCHANGED <<op, table, reads, answer, locked>>
      BY <2>2 DEF RefuseRead, writeVars
    <3>2. ReadIsWhatWasAsked'
      BY <3>1 DEF ReadIsWhatWasAsked
    <3>3. QED
      BY <3>1, <3>2 DEF ReadInv
  <2>3. CASE ReadFails
    <3>1. /\ read = "reading" /\ read' = "rejected" /\ UNCHANGED <<op, table, reads, answer, locked>>
      BY <2>3 DEF ReadFails, writeVars
    <3>2. ReadIsWhatWasAsked' /\ ReadThrows' = ReadThrows
      BY <3>1, ReadStays DEF ReadIsWhatWasAsked
    <3>3. QED
      BY <3>1, <3>2 DEF ReadInv
  <2>4. QED
    BY <2>1, <2>2, <2>3, IssueReadKeeps, ReadNextKeeps, AnswerKeeps, OtherEndsKeeps DEF KeyedReadNext
<1>4. QED
  BY <1>1, <1>2, <1>3 DEF Next, vars, StartList, ReadRows, ReadCount, AnswerPage, Emit, EmitFails,
                          HandleEvent

-----------------------------------------------------------------------------
(* All of it together                                                      *)

Outcomes == {"starting", "refused", "listening", "serving", "handled",
             "400", "401", "403", "404", "500"}

CallsInv == Given /\ WriteInv /\ ListInv /\ ReadInv /\ outcome \in Outcomes

(* All of it holds when a service starts.                                  *)
LEMMA CallsInit == Init => CallsInv
<1>1. Init => outcome \in Outcomes
  BY DEF Init, EndpointInit, Outcomes
<1>2. QED
  BY <1>1, CallInit, ListInit, ReadInit DEF CallsInv

(* Every step keeps all of it.                                             *)
LEMMA CallsKept == CallsInv /\ [Next]_vars => CallsInv'
<1> SUFFICES ASSUME CallsInv, [Next]_vars PROVE CallsInv'
  OBVIOUS
<1>1. outcome' \in Outcomes
  BY DEF CallsInv, Outcomes, Next, vars, httpVars, EndpointNext, RefuseToStart, Bootstrap, Receive,
         NotFound, EnterContext, Stamp, VerifyCredential, LoadSession, WithScope, AuthorizeScope,
         ValidateRequest, Handle, Throw, Onward, StartList, ReadRows, ReadCount, AnswerPage,
         WriteNext, ReadKeyed, Emit, EmitFails, HandleEvent
<1>2. QED
  BY <1>1, GivenKept, WriteInvKept, ListKept, ReadKept DEF CallsInv

(* What is known of the request, the write, the list and the read holds in *)
(* every state of a service.                                               *)
THEOREM CallsInvariance == Spec => [](IInv /\ CallsInv)
<1>1. Init => CallsInv
  BY CallsInit
<1>2. CallsInv /\ [Next]_vars => CallsInv'
  BY CallsKept
<1>3. QED
  BY <1>1, <1>2, Invariance, PTL DEF Spec

(* Any two of a set are the same.                                          *)
LEMMA AtMostOne ==
  ASSUME NEW S, \A a, b \in S : a = b
  PROVE  Cardinality(S) <= 1
<1>1. CASE S = {}
  BY <1>1, FS_EmptySet
<1>2. CASE S # {}
  <2>1. PICK a : S = {a}
    BY <1>2
  <2>2. QED
    BY <2>1, FS_Singleton
<1>3. QED
  BY <1>1, <1>2

(* Requests are of the types that the variables say, pages are no longer   *)
(* than asked for, and a keyed read has rows that are there.               *)
THEOREM RequestsTypes == Spec => []TypeOK
<1>1. IInv /\ CallsInv => TypeOK
  <2> SUFFICES ASSUME IInv, CallsInv PROVE TypeOK
    OBVIOUS
  <2>1. Cardinality(route) <= 1
    <3>1. \A a, b \in route : a = b
      BY ServedIsChained DEF IInv
    <3>2. QED
      BY <3>1, AtMostOne
  <2>2. Cardinality(input) <= 1
    BY AtMostOne DEF CallsInv, ListInv
  <2>3. \A row \in table \cup pending : DOMAIN row = Column /\ Range(row) \subseteq Nat
    BY DEF CallsInv, WriteInv, TableRow, Range
  <2>4. Range(answer) \cup locked \subseteq table
    BY RangeOfSeq DEF CallsInv, ReadInv
  <2>5. \A rows \in walk.rows : Len(rows) <= walk.page.pageSize
    BY DEF CallsInv, ListInv
  <2>6. /\ walk.at \in {"none", "failed", "reading", "done"}
        /\ walk.page.page \in 1..MaxPages
        /\ walk.page.pageSize \in 1..(MaxPageSize + DefaultPageSize)
    BY DEF CallsInv, ListInv
  <2>7. /\ write \in {"none", "idle", "refused", "pool", "transaction", "committing",
                      "resolved", "rejected", "unknown"}
        /\ read \in {"none", "idle", "refused", "reading", "answered", "rejected", "tooMany"}
        /\ outcome \in Outcomes
    BY DEF CallsInv, WriteInv, ReadInv
  <2>8. QED
    BY <2>1, <2>2, <2>3, <2>4, <2>5, <2>6, <2>7 DEF TypeOK, Outcomes
<1>2. QED
  BY CallsInvariance, <1>1, PTL

(* A list is of its session's scope and of what its client asked for,      *)
(* whatever filters it sends and whatever is written meanwhile.            *)
THEOREM ListsStayInScope == Spec => []ListStaysInScope
<1>1. IInv /\ CallsInv => ListStaysInScope
  BY ScopedList DEF CallsInv
<1>2. QED
  BY CallsInvariance, <1>1, PTL

(* A keyed write is made as it is meant or not at all, and a keyed read    *)
(* answers what it asked for, whatever fails and whoever is in between.    *)
THEOREM CallsDoWhatWasAsked == Spec => []CallDoesWhatWasAsked
<1>1. CallsInv => CallDoesWhatWasAsked
  BY AllOrNothing DEF CallsInv, ReadInv, CallDoesWhatWasAsked
<1>2. QED
  BY CallsInvariance, <1>1, PTL

-----------------------------------------------------------------------------
(* The pages of a list                                                     *)

(* What an order is made of.                                               *)
SortEntry == [field : Column, dir : {"asc", "desc"}]

(* The order of a query, its enforced, its client's and its default part,  *)
(* is of columns.                                                          *)
LEMMA OrderIsOfColumns ==
  ASSUME NEW query, IsQuery(query)
  PROVE  Order(query) \in Seq(SortEntry)
<1> DEFINE P == {i \in DOMAIN query.sort :
                  /\ SortValid(query.sort[i])
                  /\ \A j \in 1..(i - 1) : query.sort[j] # query.sort[i]}
<1>1. /\ query.sort \in Seq([field : STRING, dir : STRING])
      /\ query.enforced \in Seq(SortEntry) /\ query.defaults \in Seq(SortEntry)
  BY DEF IsQuery, SortEntry
<1>2. P \in SUBSET (DOMAIN query.sort)
  OBVIOUS
<1>3. ParseSort(query) = Kept(query.sort, P)
  BY DEF ParseSort
<1>4. /\ ParseSort(query) \in Seq([field : STRING, dir : STRING])
      /\ Range(ParseSort(query)) = {query.sort[i] : i \in P}
  BY <1>1, <1>2, <1>3, KeptInOrder, RangeOfKept
<1>5. \A i \in P : query.sort[i] \in SortEntry
  <2> SUFFICES ASSUME NEW i \in P PROVE query.sort[i] \in SortEntry
    OBVIOUS
  <2>1. SortValid(query.sort[i]) /\ query.sort[i] \in [field : STRING, dir : STRING]
    BY <1>1, Elements
  <2>2. DOMAIN Kind \subseteq Column
    BY RequestsAssumption
  <2>3. QED
    BY <2>1, <2>2 DEF SortValid, SortEntry
<1> HIDE DEF P
<1>6. ParseSort(query) \in Seq(SortEntry)
  <2>1. ParseSort(query) \in Seq(Range(ParseSort(query)))
    BY <1>4, LenProperties DEF Range
  <2>2. Range(ParseSort(query)) \subseteq SortEntry
    BY <1>4, <1>5
  <2>3. QED
    BY <2>1, <2>2, SeqMonotonic
<1>7. \A s \in Seq(SortEntry) : query.enforced \o s \in Seq(SortEntry)
  BY <1>1, ConcatProperties
<1>8. QED
  BY <1>1, <1>6, <1>7 DEF Order

(* Of two different cells one sorts below the other, NULL among them.      *)
LEMMA OneIsBelow == \A x, y \in Nat : x = y \/ Below(x, y) \/ Below(y, x)
BY DEF Below, NULL

(* Of two rows that have another id one comes first, in an order that has  *)
(* the id.                                                                 *)
LEMMA OnePrecedes ==
  ASSUME NEW order \in Seq(SortEntry), \E entry \in Range(order) : entry.field = "id",
         NEW a \in TableRow, NEW b \in TableRow, a["id"] # b["id"]
  PROVE  Precedes(order, a, b) \/ Precedes(order, b, a)
<1> DEFINE K == {k \in DOMAIN order : a[order[k].field] # b[order[k].field]}
<1>1. /\ DOMAIN order = 1..Len(order) /\ Len(order) \in Nat
      /\ \A k \in DOMAIN order : order[k] \in SortEntry
  BY Elements
<1>2. K # {} /\ K \in SUBSET Nat
  <2>1. PICK k \in DOMAIN order : order[k].field = "id"
    BY DEF Range
  <2>2. QED
    BY <1>1, <2>1
<1>3. PICK k \in K : \A y \in K : k <= y
  BY <1>2, MinIsLeast
<1>4. k \in 1..Len(order) /\ k \in DOMAIN order
  BY <1>1
<1>5. \A j \in 1..(k - 1) : a[order[j].field] = b[order[j].field]
  <2> SUFFICES ASSUME NEW j \in 1..(k - 1), j \in K PROVE FALSE
    BY <1>1, <1>4
  <2>1. k <= j /\ j <= k - 1 /\ k \in Nat
    BY <1>3, <1>4
  <2>2. QED
    BY <2>1
<1>6. PICK x \in Nat, y \in Nat : x = a[order[k].field] /\ y = b[order[k].field]
  BY <1>1, <1>4 DEF SortEntry, TableRow
<1>7. x # y
  BY <1>6
<1>8. Below(x, y) \/ Below(y, x)
  BY <1>7, OneIsBelow
<1>9. QED
  BY <1>4, <1>5, <1>6, <1>8 DEF Precedes

(* Rows that one order leaves no tie of come in one way.                   *)
LEMMA PlaceOfRow ==
  ASSUME NEW rows, IsFiniteSet(rows), NEW order,
         \A a, b \in rows : a = b \/ Precedes(order, a, b) \/ Precedes(order, b, a),
         NEW s \in Arranged(rows, order), NEW i \in DOMAIN s
  PROVE  i \in Nat \ {0} /\ Cardinality({b \in rows : Precedes(order, b, s[i])}) = i - 1
<1> DEFINE B == {b \in rows : Precedes(order, b, s[i])}
           g == [j \in 1..(i - 1) |-> s[j]]
<1>1. /\ s \in Seq(rows) /\ DOMAIN s = 1..Len(s) /\ Len(s) \in Nat /\ Range(s) = rows
      /\ \A j, k \in DOMAIN s : s[j] = s[k] => j = k
      /\ \A j, k \in DOMAIN s : Precedes(order, s[j], s[k]) => j < k
  BY ArrangedRows
<1>2. i \in Nat \ {0} /\ i - 1 \in Nat /\ \A j \in 1..(i - 1) : j \in DOMAIN s /\ j < i
  BY <1>1
<1>3. \A j \in 1..(i - 1) : s[j] \in B
  <2> SUFFICES ASSUME NEW j \in 1..(i - 1) PROVE s[j] \in B
    OBVIOUS
  <2>1. j \in DOMAIN s /\ j < i /\ j \in Nat
    BY <1>2
  <2>2. s[j] \in rows /\ s[i] \in rows /\ s[j] # s[i]
    BY <1>1, <1>2, <2>1 DEF Range
  <2>3. ~Precedes(order, s[i], s[j])
    BY <1>1, <1>2, <2>1
  <2>4. QED
    BY <2>2, <2>3
<1>4. \A b \in B : \E j \in 1..(i - 1) : s[j] = b
  <2> SUFFICES ASSUME NEW b \in B PROVE \E j \in 1..(i - 1) : s[j] = b
    OBVIOUS
  <2>1. PICK j \in DOMAIN s : s[j] = b
    BY <1>1 DEF Range
  <2>2. j < i
    BY <1>1, <2>1
  <2>3. j \in 1..(i - 1)
    BY <1>1, <1>2, <2>1, <2>2
  <2>4. QED
    BY <2>1, <2>3
<1>5. \A j, k \in 1..(i - 1) : s[j] = s[k] => j = k
  BY <1>1, <1>2
<1> HIDE DEF B
<1>6. g \in Surjection(1..(i - 1), B) /\ g \in Injection(1..(i - 1), B)
  BY <1>3, <1>4, <1>5 DEF Surjection, Injection, IsInjective
<1>7. IsFiniteSet(1..(i - 1)) /\ Cardinality(1..(i - 1)) = i - 1
  <2>1. \A m \in Nat : IsFiniteSet(1..m) /\ Cardinality(1..m) = m
    BY FS_Interval
  <2>2. QED
    BY <1>2, <2>1
<1>8. Cardinality(B) = i - 1
  BY <1>6, <1>7, FS_Surjection
<1>9. QED
  BY <1>2, <1>8 DEF B

(* So there is one arrangement of them.                                    *)
LEMMA OneArrangement ==
  ASSUME NEW rows, IsFiniteSet(rows), NEW order,
         \A a, b \in rows : a = b \/ Precedes(order, a, b) \/ Precedes(order, b, a),
         NEW s \in Arranged(rows, order), NEW t \in Arranged(rows, order)
  PROVE  s = t
<1>1. /\ s \in Seq(rows) /\ t \in Seq(rows) /\ Len(s) = Len(t)
      /\ DOMAIN s = 1..Len(s) /\ DOMAIN t = 1..Len(t) /\ Range(s) = rows /\ Range(t) = rows
  BY ArrangedRows
<1>2. ASSUME NEW i \in 1..Len(s) PROVE s[i] = t[i]
  <2>1. PICK j \in DOMAIN t : t[j] = s[i]
    BY <1>1 DEF Range
  <2>2. /\ i \in Nat /\ Cardinality({b \in rows : Precedes(order, b, s[i])}) = i - 1
        /\ j \in Nat /\ Cardinality({b \in rows : Precedes(order, b, t[j])}) = j - 1
    <3>1. i \in DOMAIN s
      BY <1>1
    <3>2. i \in Nat \ {0} /\ Cardinality({b \in rows : Precedes(order, b, s[i])}) = i - 1
      BY <3>1, PlaceOfRow
    <3>3. j \in Nat \ {0} /\ Cardinality({b \in rows : Precedes(order, b, t[j])}) = j - 1
      BY PlaceOfRow
    <3>4. QED
      BY <3>2, <3>3
  <2>3. i = j
    BY <2>1, <2>2
  <2>4. QED
    BY <2>1, <2>3
<1>3. QED
  BY <1>1, <1>2, SeqEqual

(* The rows that a query is to list while nobody writes, in its order,     *)
(* whose pages its client gets: it has seen those before the current page. *)
Wanted(query) == {row \in InitTable : InQuery(query, row)}

HasUniqueOrder(query) == \E entry \in Range(Order(query)) : entry.field = "id"

Paged(query) ==
  op.method = "none" /\ FromFirstPage(query) /\ HasUniqueOrder(query) /\ walk.at \in {"reading", "done"}

Lesser(m, n) == IF m <= n THEN m ELSE n

PagesOf(s) ==
  LET size == walk.page.pageSize
      before == (walk.page.page - 1) * size
      end == Lesser(Len(s), before + size)
  IN /\ walk.at = "reading" =>
          /\ before <= Len(s) /\ walk.seen = SubSeq(s, 1, before)
          /\ \A rows \in walk.rows : rows = SubSeq(s, before + 1, end)
     /\ \A total \in walk.total : total = Len(s)
     /\ walk.at = "done" =>
          /\ walk.seen = SubSeq(s, 1, end)
          /\ end = Len(s) \/ walk.page.page = MaxPages
          /\ \E total : walk.total = {total}

PageInv ==
  \A query \in app.list : Paged(query) =>
    /\ walk.rows # {} \/ walk.at = "done" => Arranged(Wanted(query), Order(query)) # {}
    /\ \A s \in Arranged(Wanted(query), Order(query)) : PagesOf(s)

(* The lesser of two numbers is one of them, and no more than either.      *)
LEMMA LesserIs ==
  \A m, n \in Nat :
    /\ Lesser(m, n) \in Nat /\ Lesser(m, n) <= m
    /\ n < m => Lesser(m, n) = n /\ n <= m
    /\ ~(n < m) => Lesser(m, n) = m
BY DEF Lesser

(* The rows that a query wants are finitely many of the table.             *)
LEMMA WantedRows ==
  ASSUME NEW query
  PROVE  Wanted(query) \subseteq InitTable /\ IsFiniteSet(Wanted(query)) /\ InitTable \subseteq TableRow
<1>1. IsFiniteSet(InitTable) /\ InitTable \subseteq TableRow
  BY KeyedWriteAssumption DEF TableRow
<1>2. Wanted(query) \subseteq InitTable
  BY DEF Wanted
<1>3. QED
  BY <1>1, <1>2, FS_Subset

(* In an order that has the id they come in one way.                       *)
LEMMA WantedOnce ==
  ASSUME NEW query, IsQuery(query), HasUniqueOrder(query),
         NEW s \in Arranged(Wanted(query), Order(query)),
         NEW t \in Arranged(Wanted(query), Order(query))
  PROVE  s = t
<1>1. PICK rows, order : rows = Wanted(query) /\ order = Order(query)
  OBVIOUS
<1>2. rows \subseteq InitTable /\ IsFiniteSet(rows) /\ InitTable \subseteq TableRow
  BY <1>1, WantedRows
<1>3. order \in Seq(SortEntry) /\ \E entry \in Range(order) : entry.field = "id"
  BY <1>1, OrderIsOfColumns DEF HasUniqueOrder
<1>4. ASSUME NEW a \in rows, NEW b \in rows
      PROVE  a = b \/ Precedes(order, a, b) \/ Precedes(order, b, a)
  <2>1. a["id"] = b["id"] => a = b
    BY <1>2, RequestsAssumption
  <2>2. a \in TableRow /\ b \in TableRow
    BY <1>2
  <2>3. QED
    BY <1>3, <2>1, <2>2, OnePrecedes
<1>5. QED
  BY <1>1, <1>2, <1>4, OneArrangement

(* What stays while a list is under way.                                   *)
LEMMA WantedStays ==
  ASSUME UNCHANGED httpVars
  PROVE  \A query : Wanted(query)' = Wanted(query)
BY QueryStays DEF Wanted

(* No rows have been seen when a list starts at its first page.            *)
LEMMA StartPages == Given /\ ListInv /\ StartList => PageInv'
<1> SUFFICES ASSUME Given, ListInv, StartList, NEW query \in app'.list, Paged(query)'
             PROVE  /\ walk'.rows = {} /\ walk'.at # "done"
                    /\ \A s \in Arranged(Wanted(query)', Order(query)) : PagesOf(s)'
  BY DEF PageInv
<1>1. query \in app.list /\ UNCHANGED httpVars /\ walk.at = "none"
  BY QueryStays DEF StartList
<1>2. IsQuery(query) /\ \A other \in app.list : other = query
  BY <1>1 DEF Given
<1>3. PICK asked : asked = OrElse(ParsePagination(query), NoPage)
  OBVIOUS
<1>4. walk' = [walk EXCEPT !.at = IF BuildFails(query) THEN "failed" ELSE "reading", !.page = asked]
  BY <1>2, <1>3 DEF StartList
<1>5. walk = [at |-> walk.at, page |-> walk.page, rows |-> walk.rows, total |-> walk.total,
              seen |-> walk.seen]
      /\ walk.rows = {} /\ walk.total = {} /\ walk.seen = <<>>
  BY <1>1 DEF ListInv
<1>6. PICK at \in {"failed", "reading"} :
        walk' = [at |-> at, page |-> asked, rows |-> {}, total |-> {}, seen |-> <<>>]
  BY <1>4, <1>5
<1>7. /\ walk'.at \in {"failed", "reading"} /\ walk'.page = asked /\ walk'.rows = {} /\ walk'.total = {}
      /\ walk'.seen = <<>>
  BY <1>6
<1>8. asked.page = 1 /\ asked.pageSize \in 1..(MaxPageSize + DefaultPageSize)
  <2>1. /\ ParsePagination(query) = {} => asked = NoPage
        /\ ParsePagination(query) # {} => ParsePagination(query) = {asked}
        /\ asked.pageSize \in 1..(MaxPageSize + DefaultPageSize)
    BY <1>2, <1>3, PageAskedFor
  <2>2. FromFirstPage(query)
    BY DEF Paged
  <2>3. NoPage.page = 1
    BY DEF NoPage
  <2>4. QED
    BY <2>1, <2>2, <2>3 DEF FromFirstPage
<1>9. ASSUME NEW s \in Arranged(Wanted(query)', Order(query)) PROVE PagesOf(s)'
  <2>1. s \in Seq(Wanted(query)') /\ Len(s) \in Nat
    <3>1. IsFiniteSet(Wanted(query)')
      BY <1>1, WantedRows, WantedStays
    <3>2. QED
      BY <3>1, ArrangedRows, LenProperties
  <2>2. SubSeq(s, 1, 0) = <<>>
    BY SubSeqEmpty
  <2>3. (walk'.page.page - 1) * walk'.page.pageSize = 0
    <3>1. asked.pageSize \in Nat
      BY <1>8, ListQueryAssumption
    <3>2. QED
      BY <1>7, <1>8, <3>1
  <2>4. 0 <= Len(s)
    BY <2>1
  <2>5. QED
    BY <1>7, <2>2, <2>3, <2>4 DEF PagesOf
<1>10. walk'.at # "done"
  BY <1>7
<1>11. QED
  BY <1>7, <1>9, <1>10

(* The rows of a statement of a list that nobody writes to.                *)
LEMMA SelectedIsWanted ==
  ASSUME Given, WriteInv, ListInv, ReadInv, op.method = "none", NEW query \in app.list,
         NEW product \in Products
  PROVE  /\ Selected(table, product) = Wanted(query) /\ product.order = Order(query)
         /\ product.limit = walk.page.pageSize
         /\ product.offset = (walk.page.page - 1) * walk.page.pageSize
<1>1. PICK asked \in app.list, own \in Own : product = Build(asked, own, walk.page)
  BY DEF Products
<1>2. asked = query
  BY DEF Given
<1>3. table = InitTable /\ table \subseteq TableRow
  BY DEF ReadInv, WriteInv
<1>4. \A row \in table : Selects(product.clauses, product.values, row) <=> InQuery(query, row)
  BY <1>1, <1>2, <1>3, SelectedMeans
<1>5. Selected(table, product) = Wanted(query)
  BY <1>3, <1>4 DEF Selected, Wanted
<1>6. /\ product.order = Order(query) /\ product.limit = walk.page.pageSize
      /\ product.offset = Offset(walk.page)
  BY <1>1, <1>2 DEF Build
<1>7. QED
  BY <1>5, <1>6 DEF Offset

(* The rows before a page are a natural number.                            *)
LEMMA PageStart ==
  ASSUME ListInv
  PROVE  /\ walk.page.pageSize \in Nat \ {0} /\ walk.page.page \in Nat \ {0}
         /\ (walk.page.page - 1) * walk.page.pageSize \in Nat
         /\ walk.page.page * walk.page.pageSize
              = (walk.page.page - 1) * walk.page.pageSize + walk.page.pageSize
<1>1. walk.page.pageSize \in Nat \ {0} /\ walk.page.page \in Nat \ {0}
  BY RequestsAssumption, ListQueryAssumption DEF ListInv
<1>2. \A m \in Nat \ {0} : \A n \in Nat : (m - 1) * n \in Nat /\ m * n = (m - 1) * n + n
  OBVIOUS
<1>3. QED
  BY <1>1, <1>2

(* The rows of a page are those that follow the rows of the pages before.  *)
LEMMA RowsOfPage ==
  ASSUME Given, WriteInv, ListInv, ReadInv, PageInv, ReadRows
  PROVE  PageInv'
<1> SUFFICES ASSUME NEW query \in app'.list, Paged(query)'
             PROVE  /\ Arranged(Wanted(query)', Order(query)) # {}
                    /\ \A s \in Arranged(Wanted(query)', Order(query)) : PagesOf(s)'
  BY DEF PageInv
<1>1. walk.at = "reading" /\ walk.rows = {} /\ UNCHANGED httpVars /\ UNCHANGED op
  BY DEF ReadRows, writeVars
<1>2. query \in app.list /\ Wanted(query)' = Wanted(query) /\ op.method = "none"
      /\ FromFirstPage(query) /\ HasUniqueOrder(query) /\ Paged(query) /\ IsQuery(query)
  <2>1. query \in app.list /\ Wanted(query)' = Wanted(query)
    BY <1>1, QueryStays, WantedStays
  <2>2. QED
    BY <1>1, <2>1 DEF Paged, Given, FromFirstPage, HasUniqueOrder
<1>3. PICK product \in Products :
        \E s \in Arranged(Selected(table, product), product.order) :
          walk' = [walk EXCEPT !.rows = {Page(s, product)}]
  BY DEF ReadRows
<1>4. /\ Selected(table, product) = Wanted(query) /\ product.order = Order(query)
      /\ product.limit = walk.page.pageSize
      /\ product.offset = (walk.page.page - 1) * walk.page.pageSize
  BY <1>2, SelectedIsWanted
<1>5. PICK s \in Arranged(Wanted(query), Order(query)) : walk' = [walk EXCEPT !.rows = {Page(s, product)}]
  BY <1>3, <1>4
<1>6. PICK rows : rows = Page(s, product)
  OBVIOUS
<1>7. walk' = [at |-> walk.at, page |-> walk.page, rows |-> {rows}, total |-> walk.total,
               seen |-> walk.seen]
  BY <1>5, <1>6 DEF ListInv
<1>8. /\ walk'.at = "reading" /\ walk'.page = walk.page /\ walk'.rows = {rows}
      /\ walk'.total = walk.total /\ walk'.seen = walk.seen
  BY <1>1, <1>7
<1>9. s \in Seq(Wanted(query))
  BY WantedRows, ArrangedRows
<1>10. PICK size \in Nat, before \in Nat : size = walk.page.pageSize /\ before = (walk.page.page - 1) * walk.page.pageSize
  BY PageStart
<1>11. rows = SubSeq(s, before + 1, Lesser(Len(s), before + size))
  <2>1. product.offset = before /\ product.limit = size
    BY <1>4, <1>10
  <2>2. Page(s, product) = SubSeq(s, product.offset + 1,
                             IF Len(s) <= product.offset + product.limit THEN Len(s)
                             ELSE product.offset + product.limit)
    BY <1>9, <2>1, PageOf
  <2>3. QED
    BY <1>6, <2>1, <2>2 DEF Lesser
<1>12. PagesOf(s)
  BY <1>2 DEF PageInv
<1>13. PagesOf(s)'
  BY <1>1, <1>8, <1>10, <1>11, <1>12 DEF PagesOf
<1>14. \A t \in Arranged(Wanted(query), Order(query)) : t = s
  BY <1>2, WantedOnce
<1>15. QED
  BY <1>2, <1>13, <1>14

(* The total of a page is the number of the rows that are wanted.          *)
LEMMA CountOfPage ==
  ASSUME Given, WriteInv, ListInv, ReadInv, PageInv, ReadCount
  PROVE  PageInv'
<1> SUFFICES ASSUME NEW query \in app'.list, Paged(query)'
             PROVE  /\ walk'.rows # {} \/ walk'.at = "done" => Arranged(Wanted(query)', Order(query)) # {}
                    /\ \A s \in Arranged(Wanted(query)', Order(query)) : PagesOf(s)'
  BY DEF PageInv
<1>1. walk.at = "reading" /\ walk.total = {} /\ UNCHANGED httpVars /\ UNCHANGED op
  BY DEF ReadCount, writeVars
<1>2. query \in app.list /\ Wanted(query)' = Wanted(query) /\ op.method = "none" /\ Paged(query)
  <2>1. query \in app.list /\ Wanted(query)' = Wanted(query)
    BY <1>1, QueryStays, WantedStays
  <2>2. QED
    BY <1>1, <2>1 DEF Paged, FromFirstPage, HasUniqueOrder
<1>3. PICK product \in Products :
        walk' = [walk EXCEPT !.total = {Cardinality(Selected(table, product))}]
  BY DEF ReadCount
<1>4. PICK total : total = Cardinality(Wanted(query))
  OBVIOUS
<1>5. Selected(table, product) = Wanted(query)
  BY <1>2, SelectedIsWanted
<1>6. walk' = [at |-> walk.at, page |-> walk.page, rows |-> walk.rows, total |-> {total},
               seen |-> walk.seen]
  BY <1>3, <1>4, <1>5 DEF ListInv
<1>7. /\ walk'.at = "reading" /\ walk'.page = walk.page /\ walk'.rows = walk.rows
      /\ walk'.total = {total} /\ walk'.seen = walk.seen
  BY <1>1, <1>6
<1>8. ASSUME NEW s \in Arranged(Wanted(query), Order(query)) PROVE PagesOf(s)'
  <2>1. PagesOf(s)
    BY <1>2 DEF PageInv
  <2>2. Len(s) = total
    BY <1>4, WantedRows, ArrangedRows
  <2>3. QED
    BY <1>1, <1>7, <2>1, <2>2 DEF PagesOf
<1>9. QED
  BY <1>2, <1>7, <1>8 DEF PageInv

(* When a page is answered its rows have been seen, and the next one       *)
(* starts after them.                                                      *)
LEMMA NextPage ==
  ASSUME Given, WriteInv, ListInv, PageInv, AnswerPage
  PROVE  PageInv'
<1> SUFFICES ASSUME NEW query \in app'.list, Paged(query)'
             PROVE  /\ walk'.rows # {} \/ walk'.at = "done" => Arranged(Wanted(query)', Order(query)) # {}
                    /\ \A s \in Arranged(Wanted(query)', Order(query)) : PagesOf(s)'
  BY DEF PageInv
<1>1. walk.at = "reading" /\ UNCHANGED httpVars /\ UNCHANGED op
  BY DEF AnswerPage, writeVars
<1>2. query \in app.list /\ Wanted(query)' = Wanted(query) /\ Paged(query)
  <2>1. query \in app.list /\ Wanted(query)' = Wanted(query)
    BY <1>1, QueryStays, WantedStays
  <2>2. QED
    BY <1>1, <2>1 DEF Paged, FromFirstPage, HasUniqueOrder
<1>3. PICK rows \in walk.rows, total \in walk.total :
        walk' = IF walk.page.page * walk.page.pageSize < total /\ walk.page.page < MaxPages
                THEN [walk EXCEPT !.seen = @ \o rows, !.page.page = @ + 1, !.rows = {}, !.total = {}]
                ELSE [walk EXCEPT !.seen = @ \o rows, !.at = "done"]
  BY DEF AnswerPage
<1>4. /\ walk = [at |-> walk.at, page |-> walk.page, rows |-> walk.rows, total |-> walk.total,
                 seen |-> walk.seen]
      /\ walk.page = [page |-> walk.page.page, pageSize |-> walk.page.pageSize]
      /\ walk.page.page \in 1..MaxPages
  BY DEF ListInv
<1>5. PICK seen : seen = walk.seen \o rows
  OBVIOUS
<1>6. PICK size \in Nat, before \in Nat, page \in Nat :
        /\ size = walk.page.pageSize /\ before = (walk.page.page - 1) * walk.page.pageSize
        /\ page = walk.page.page /\ walk.page.page * walk.page.pageSize = before + size
  BY PageStart
<1>7. ASSUME NEW s \in Arranged(Wanted(query), Order(query))
      PROVE  /\ Len(s) \in Nat /\ total = Len(s) /\ walk.total = {total} /\ before <= Len(s)
             /\ seen = SubSeq(s, 1, Lesser(Len(s), before + size))
  <2>1. PagesOf(s)
    BY <1>2 DEF PageInv
  <2>2. s \in Seq(Wanted(query)) /\ Len(s) \in Nat
    BY WantedRows, ArrangedRows, LenProperties
  <2>3. /\ before <= Len(s) /\ walk.seen = SubSeq(s, 1, before)
        /\ rows = SubSeq(s, before + 1, Lesser(Len(s), before + size))
        /\ \A other \in walk.total : other = Len(s)
    BY <1>1, <1>3, <1>6, <2>1 DEF PagesOf
  <2>4. PICK end : end = Lesser(Len(s), before + size)
    OBVIOUS
  <2>5. 1 \in 1..(Len(s) + 1) /\ before \in (1 - 1)..Len(s) /\ end \in before..Len(s)
    BY <2>2, <2>3, <2>4 DEF Lesser
  <2>6. SubSeq(s, 1, before) \o SubSeq(s, before + 1, end) = SubSeq(s, 1, end)
    BY <2>2, <2>5, ConcatAdjacentSubSeq
  <2>7. seen = SubSeq(s, 1, end)
    BY <1>5, <2>3, <2>4, <2>6
  <2>8. total = Len(s) /\ walk.total = {total}
    BY <1>3, <2>3
  <2>9. QED
    BY <2>2, <2>3, <2>4, <2>7, <2>8
<1>8. CASE before + size < total /\ page < MaxPages
  <2>1. walk' = [walk EXCEPT !.seen = seen, !.page.page = walk.page.page + 1, !.rows = {}, !.total = {}]
    BY <1>3, <1>5, <1>6, <1>8
  <2>2. walk' = [at |-> walk.at, rows |-> {}, total |-> {}, seen |-> seen,
                 page |-> [page |-> walk.page.page + 1, pageSize |-> walk.page.pageSize]]
    BY <1>4, <2>1
  <2>3. /\ walk'.at = "reading" /\ walk'.rows = {} /\ walk'.total = {} /\ walk'.seen = seen
        /\ walk'.page = [page |-> page + 1, pageSize |-> size]
    BY <1>1, <1>6, <2>2
  <2>4. (walk'.page.page - 1) * walk'.page.pageSize = before + size
    <3>1. walk'.page.page = page + 1 /\ walk'.page.pageSize = size
      BY <2>3
    <3>2. page + 1 - 1 = page
      BY <1>6
    <3>3. page * size = before + size
      BY <1>6
    <3>4. QED
      BY <3>1, <3>2, <3>3
  <2>5. ASSUME NEW s \in Arranged(Wanted(query), Order(query)) PROVE PagesOf(s)'
    <3>1. /\ Len(s) \in Nat /\ total = Len(s) /\ before <= Len(s)
          /\ seen = SubSeq(s, 1, Lesser(Len(s), before + size))
      BY <1>7
    <3>2. before + size <= Len(s) /\ Lesser(Len(s), before + size) = before + size
      <4>1. before + size \in Nat
        BY <1>6
      <4>2. before + size < Len(s)
        BY <1>8, <3>1
      <4>3. QED
        BY <3>1, <4>1, <4>2, LesserIs
    <3>3. seen = SubSeq(s, 1, before + size)
      BY <3>1, <3>2
    <3>4. QED
      BY <2>3, <2>4, <3>2, <3>3 DEF PagesOf
  <2>6. QED
    BY <1>2, <2>3, <2>5
<1>9. CASE ~(before + size < total /\ page < MaxPages)
  <2>1. walk' = [walk EXCEPT !.seen = seen, !.at = "done"]
    BY <1>3, <1>5, <1>6, <1>9
  <2>2. walk' = [at |-> "done", rows |-> walk.rows, total |-> walk.total, seen |-> seen,
                 page |-> walk.page]
    BY <1>4, <2>1
  <2>3. /\ walk'.at = "done" /\ walk'.rows = walk.rows /\ walk'.total = walk.total
        /\ walk'.seen = seen /\ walk'.page = walk.page
    BY <2>2
  <2>4. ASSUME NEW s \in Arranged(Wanted(query), Order(query)) PROVE PagesOf(s)'
    <3>1. /\ Len(s) \in Nat /\ total = Len(s) /\ before <= Len(s) /\ walk.total = {total}
          /\ seen = SubSeq(s, 1, Lesser(Len(s), before + size))
      BY <1>7
    <3>2. Lesser(Len(s), before + size) = Len(s) \/ page = MaxPages
      <4>1. MaxPages \in Nat /\ page <= MaxPages
        BY <1>4, <1>6, RequestsAssumption
      <4>2. QED
        <5>1. before + size \in Nat /\ page \in Nat
          BY <1>6
        <5>2. page = MaxPages \/ page < MaxPages
          BY <4>1, <5>1
        <5>3. page = MaxPages \/ ~(before + size < Len(s))
          BY <1>9, <3>1, <5>2
        <5>4. QED
          BY <3>1, <5>1, <5>3, LesserIs
    <3>3. /\ (walk'.page.page - 1) * walk'.page.pageSize = before /\ walk'.page.pageSize = size
          /\ walk'.page.page = page
      BY <1>6, <2>3
    <3>4. \A other \in walk'.total : other = Len(s)
      BY <2>3, <3>1
    <3>5. \E other : walk'.total = {other}
      BY <1>3, <2>3, <3>1
    <3>6. QED
      BY <2>3, <3>1, <3>2, <3>3, <3>4, <3>5 DEF PagesOf
  <2>5. Arranged(Wanted(query), Order(query)) # {}
    BY <1>2, <1>3 DEF PageInv
  <2>6. QED
    BY <1>2, <2>3, <2>4, <2>5
<1>10. QED
  BY <1>8, <1>9

(* Every step keeps what is known of the pages.                            *)
LEMMA PagesKept == Given /\ WriteInv /\ ListInv /\ ReadInv /\ PageInv /\ [Next]_vars => PageInv'
<1> SUFFICES ASSUME Given, WriteInv, ListInv, ReadInv, PageInv, [Next]_vars PROVE PageInv'
  OBVIOUS
<1>1. UNCHANGED <<app, op>>
  BY AskedOnce
<1>2. CASE UNCHANGED walk
  <2> SUFFICES ASSUME NEW query \in app'.list, Paged(query)'
               PROVE  /\ walk'.rows # {} \/ walk'.at = "done" => Arranged(Wanted(query)', Order(query)) # {}
                      /\ \A s \in Arranged(Wanted(query)', Order(query)) : PagesOf(s)'
    BY DEF PageInv
  <2>1. walk.at # "none"
    BY <1>2 DEF Paged
  <2>2. Wanted(query)' = Wanted(query)
    BY <2>1, ListIsLast, WantedStays
  <2>3. query \in app.list /\ Paged(query)
    BY <1>1, <1>2 DEF Paged, FromFirstPage, HasUniqueOrder
  <2>4. \A s : PagesOf(s)' = PagesOf(s)
    BY <1>2 DEF PagesOf
  <2>5. QED
    BY <1>2, <2>2, <2>3, <2>4 DEF PageInv
<1>3. CASE StartList \/ ReadRows \/ ReadCount \/ AnswerPage
  BY <1>3, StartPages, RowsOfPage, CountOfPage, NextPage
<1>4. QED
  BY <1>2, <1>3 DEF Next, vars, WriteNext, ReadKeyed, Emit, EmitFails, HandleEvent

(* The pages of a list that nobody writes to, in an order that has the id, *)
(* are a partition of the rows it selects: none is skipped or shown twice, *)
(* whatever the query, its filters and its page size are.                  *)
THEOREM PagesArePartition == Spec => []PagesPartition
<1>1. Init => PageInv
  BY DEF Init, PageInv, Paged
<1>2. CallsInv /\ PageInv /\ [Next]_vars => PageInv'
  BY PagesKept DEF CallsInv
<1>3. CallsInv /\ PageInv => PagesPartition
  <2> SUFFICES ASSUME CallsInv, PageInv, NEW query \in app.list, walk.at = "done", op.method = "none",
                      FromFirstPage(query), HasUniqueOrder(query),
                      \E total \in walk.total : total <= MaxPages * walk.page.pageSize
               PROVE  /\ IsInjective(walk.seen)
                      /\ Range(walk.seen) = {row \in table : InQuery(query, row)}
                      /\ walk.total = {Len(walk.seen)}
    BY DEF PagesPartition, HasUniqueOrder
  <2>1. Paged(query) /\ ListInv /\ table = InitTable
    BY DEF Paged, CallsInv, ReadInv
  <2>2. PICK s \in Arranged(Wanted(query), Order(query)) : PagesOf(s)
    BY <2>1 DEF PageInv
  <2>3. /\ s \in Seq(Wanted(query)) /\ Len(s) \in Nat /\ DOMAIN s = 1..Len(s) /\ Range(s) = Wanted(query)
        /\ \A i, j \in DOMAIN s : s[i] = s[j] => i = j
    BY WantedRows, ArrangedRows, LenProperties
  <2>4. PICK size \in Nat \ {0}, before \in Nat, page \in Nat :
          /\ size = walk.page.pageSize /\ before = (walk.page.page - 1) * walk.page.pageSize
          /\ page = walk.page.page /\ walk.page.page * walk.page.pageSize = before + size
    BY <2>1, PageStart
  <2>5. PICK total : /\ walk.total = {total} /\ total = Len(s)
                     /\ total <= MaxPages * walk.page.pageSize
    BY <2>2 DEF PagesOf
  <2>6. PICK end : end = Lesser(Len(s), before + size)
    OBVIOUS
  <2>7. walk.seen = SubSeq(s, 1, end) /\ (end = Len(s) \/ page = MaxPages)
    BY <2>2, <2>4, <2>6 DEF PagesOf
  <2>8. page = MaxPages => end = Len(s)
    <3>1. page = MaxPages => Len(s) <= before + size
      BY <2>4, <2>5
    <3>2. \A m, n \in Nat : m <= n => ~(n < m)
      OBVIOUS
    <3>3. before + size \in Nat
      BY <2>4
    <3>4. QED
      BY <2>3, <2>6, <3>1, <3>2, <3>3, LesserIs
  <2>9. walk.seen = s
    BY <2>3, <2>7, <2>8, SubSeqFull
  <2>10. Range(s) = {row \in table : InQuery(query, row)}
    BY <2>1, <2>3 DEF Wanted
  <2>11. QED
    BY <2>3, <2>5, <2>9, <2>10 DEF IsInjective
<1>4. QED
  BY <1>1, <1>2, <1>3, CallsInvariance, PTL DEF Spec
=============================================================================
