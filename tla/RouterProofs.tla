----------------------------- MODULE RouterProofs -----------------------------
(***************************************************************************)
(* Proofs about Router: the table of restful_router is what was declared,  *)
(* whatever is declared and in whatever order, so that a request is        *)
(* answered by the handler that is responsible for it by the declarations, *)
(* and the Allow of a 405 is true.                                         *)
(***************************************************************************)
EXTENDS Router, FiniteSetTheorems, TLAPS

-----------------------------------------------------------------------------
(* Numbers and sequences *)

LEMMA SeqIs ==
    ASSUME NEW E, NEW q \in Seq(E)
    PROVE  Len(q) \in Nat /\ DOMAIN q = 1 .. Len(q) /\ \A i \in 1 .. Len(q) : q[i] \in E
  OBVIOUS

LEMMA FunctionIsSeq ==
    ASSUME NEW E, NEW n \in Nat, NEW f \in [1 .. n -> E]
    PROVE  f \in Seq(E) /\ Len(f) = n /\ DOMAIN f = 1 .. n
  OBVIOUS

LEMMA AppendIs ==
    ASSUME NEW E, NEW q \in Seq(E), NEW e \in E
    PROVE  /\ Append(q, e) \in Seq(E) /\ Len(Append(q, e)) = Len(q) + 1 /\ Append(q, e)[Len(q) + 1] = e
           /\ \A i \in 1 .. Len(q) : Append(q, e)[i] = q[i]
  OBVIOUS

\* A set of numbers has a least one, and if it is bounded a greatest one.
LEMMA Least ==
    ASSUME NEW S, S \subseteq Nat, S # {}
    PROVE  Min(S) \in S /\ \A n \in S : Min(S) <= n
  <1>1. IsWellFoundedOn(OpToRel(<, Nat), Nat)
    BY NatLessThanWellFounded, Zenon
  <1>2. PICK x \in S : \A y \in S : <<y, x>> \notin OpToRel(<, Nat)
    BY <1>1, WFMin, Zenon
  <1>3. ASSUME NEW y \in S PROVE x <= y
    <2>1. <<y, x>> \notin OpToRel(<, Nat)
      BY <1>2, Zenon
    <2>2. ~(y < x)
      BY <2>1, Zenon DEF OpToRel
    <2> QED BY <2>2
  <1> QED BY <1>3, Zenon DEF Min

LEMMA Greatest ==
    ASSUME NEW S, NEW n \in Nat, S \subseteq 0 .. n, S # {}
    PROVE  Max(S) \in S /\ \A k \in S : k <= Max(S)
  <1> DEFINE T == {n - k : k \in S}
  <1>1. T \subseteq Nat /\ T # {}
    <2>1. \A k \in S : n - k \in Nat
      OBVIOUS
    <2> QED BY <2>1, Zenon
  <1>2. Min(T) \in T /\ \A k \in T : Min(T) <= k
    BY <1>1, Least, Zenon
  <1>3. PICK x \in S : n - x = Min(T)
    BY <1>2, Zenon
  <1>4. ASSUME NEW k \in S PROVE k <= x
    <2>1. n - k \in T /\ k \in Nat /\ x \in Nat
      OBVIOUS
    <2>2. n - x <= n - k
      BY <1>2, <1>3, <2>1, Zenon
    <2> QED BY <2>1, <2>2
  <1> QED BY <1>4, Zenon DEF Max

\* split() returns a list of pieces, and none for an empty string.
LEMMA MinIs ==
    ASSUME NEW S, S \subseteq Nat, NEW x \in S, \A n \in S : x <= n
    PROVE  Min(S) = x
  <1>1. PICK y \in S : y = Min(S) /\ \A n \in S : y <= n
    BY Least, Zenon
  <1>2. x <= y /\ y <= x /\ x \in Nat /\ y \in Nat
    BY <1>1, Zenon
  <1> QED BY <1>1, <1>2

LEMMA MaxIs ==
    ASSUME NEW S, NEW n \in Nat, S \subseteq 0 .. n, NEW x \in S, \A k \in S : k <= x
    PROVE  Max(S) = x
  <1>1. PICK y \in S : y = Max(S) /\ \A k \in S : k <= y
    BY Greatest, Zenon
  <1>2. x <= y /\ y <= x /\ x \in Nat /\ y \in Nat
    BY <1>1
  <1> QED BY <1>1, <1>2

LEMMA SplitIs ==
    ASSUME NEW E, NEW str \in Seq(E), NEW ch, NEW count
    PROVE  /\ DOMAIN Split(str, ch, count) = 1 .. Len(Split(str, ch, count)) /\ Len(Split(str, ch, count)) \in Nat
           /\ \E T : Split(str, ch, count) \in Seq(T)
           /\ str = <<>> => DOMAIN Split(str, ch, count) = {}
  <1> DEFINE found == {i \in DOMAIN str : str[i] = ch}
             cuts == {i \in found : Cardinality({j \in found : j <= i}) <= count}
             starts == {i \in DOMAIN str \ cuts : i = 1 \/ i - 1 \in cuts}
             nth(k) == CHOOSE i \in starts : Cardinality({j \in starts : j <= i}) = k
             end(i) == Max({j \in i .. Len(str) : (i .. j) \cap cuts = {}})
             pieces == [k \in 1 .. Cardinality(starts) |-> SubSeq(str, nth(k), end(nth(k)))]
  <1>1. Split(str, ch, count) = pieces
    BY Zenon DEF Split
  <1>2. starts \subseteq 1 .. Len(str) /\ Len(str) \in Nat /\ DOMAIN str = 1 .. Len(str)
    BY SeqIs, Zenon
  <1> HIDE DEF starts
  <1>3. IsFiniteSet(1 .. Len(str))
    BY <1>2, FS_Interval
  <1>4. IsFiniteSet(starts)
    BY <1>2, <1>3, FS_Subset, Zenon
  <1>5. Cardinality(starts) \in Nat
    BY <1>4, FS_CardinalityType
  <1> HIDE DEF nth, end
  <1> DEFINE T == {pieces[k] : k \in 1 .. Cardinality(starts)}
  <1>6. pieces \in [1 .. Cardinality(starts) -> T]
    BY Zenon
  <1>7. str = <<>> => starts = {}
    BY <1>2
  <1>8. starts = {} => Cardinality(starts) = 0
    BY FS_EmptySet
  <1> HIDE DEF T, pieces
  <1>9. pieces \in Seq(T) /\ Len(pieces) = Cardinality(starts) /\ DOMAIN pieces = 1 .. Cardinality(starts)
    BY <1>5, <1>6, FunctionIsSeq
  <1>10. str = <<>> => DOMAIN pieces = {}
    BY SMTT(40), Z3T(40), <1>7, <1>8, <1>9
  <1> QED BY <1>1, <1>5, <1>9, <1>10, Zenon

-----------------------------------------------------------------------------
(* Routes *)

LEMMA PartsAre ==
    ASSUME NEW p \in Parts PROVE Len(p) \in Nat /\ DOMAIN p = 1 .. Len(p)
  <1>1. PICK d \in Declarations : p = parse_route_parts(d.route)
    BY DEF Parts
  <1> DEFINE q == splitAll(d.route, "/")
             T == {p[i] : i \in DOMAIN q}
  <1>2. DOMAIN q = 1 .. Len(q) /\ Len(q) \in Nat
    BY RouterAssumption, SplitIs, Zenon DEF splitAll, split
  <1>3. p = [i \in DOMAIN q |-> [capture |-> IsCapture(q[i]), text |-> q[i]]]
    BY <1>1, Zenon DEF parse_route_parts
  <1> HIDE DEF q
  <1>4. p \in [1 .. Len(q) -> T]
    BY <1>2, <1>3, Zenon
  <1> HIDE DEF T
  <1> QED BY <1>2, <1>4, FunctionIsSeq, Zenon

LEMMA SameIsEquivalence ==
    ASSUME NEW p \in Parts, NEW q \in Parts, NEW r \in Parts
    PROVE  /\ SameRoute(p, p)
           /\ SameRoute(p, q) => SameRoute(q, p)
           /\ SameRoute(p, q) /\ SameRoute(q, r) => SameRoute(p, r)
  <1>1. DOMAIN p = 1 .. Len(p) /\ DOMAIN q = 1 .. Len(q) /\ DOMAIN r = 1 .. Len(r)
    BY PartsAre, Zenon
  <1> QED BY <1>1, Zenon DEF SameRoute

\* The same routes match the same paths.
LEMMA SameMatches ==
    ASSUME NEW r, NEW s, r.parts \in Parts, s.parts \in Parts, SameRoute(r.parts, s.parts),
           NEW pieces, DOMAIN pieces = 1 .. Len(pieces)
    PROVE  PathMatched(r, pieces) <=> PathMatched(s, pieces)
  <1>1. DOMAIN r.parts = 1 .. Len(r.parts) /\ DOMAIN s.parts = 1 .. Len(s.parts)
    BY PartsAre, Zenon
  <1> QED BY <1>1, Zenon DEF SameRoute, PathMatched

-----------------------------------------------------------------------------
(* A declaration *)

Table == [parts : Parts, methods : UNION {[S -> Handlers] : S \in SUBSET Methods}, all_methods : Seq(Methods)]
Entry == [parts : Parts, method : Methods, handler : Handlers]

LEMMA EmptyRoute == ASSUME NEW p \in Parts
    PROVE NewRoute(p) \in Table /\ NewRoute(p).parts = p /\ DOMAIN NewRoute(p).methods = {}
          /\ NewRoute(p).all_methods = <<>>
  <1>1. <<>> \in [{} -> Handlers] /\ <<>> \in Seq(Methods)
    OBVIOUS
  <1>2. <<>> \in UNION {[S -> Handlers] : S \in SUBSET Methods}
    BY <1>1, Zenon
  <1> QED BY <1>1, <1>2, Zenon DEF NewRoute, Table

\* set_method_handler gives a method its handler, and lists a new one.
Handles(s, r, m, h) ==
    /\ DOMAIN s.methods = DOMAIN r.methods \cup {m} /\ s.methods[m] = h
    /\ \A x \in DOMAIN r.methods : x # m => s.methods[x] = r.methods[x]
    /\ s.all_methods = IF m \in DOMAIN r.methods \/ m = "OPTIONS" THEN r.all_methods ELSE Append(r.all_methods, m)

LEMMA HandlerSet ==
    ASSUME NEW r \in Table, NEW m \in Methods, NEW h \in Handlers
    PROVE  LET s == set_method_handler(r, m, h)
           IN  s \in Table /\ s.parts = r.parts /\ Handles(s, r, m, h)
  <1> DEFINE f == Handling(r.methods, m, h)
             a == IF m \in DOMAIN r.methods \/ m = "OPTIONS" THEN r.all_methods ELSE Append(r.all_methods, m)
             s == set_method_handler(r, m, h)
  <1>1. PICK S \in SUBSET Methods : r.methods \in [S -> Handlers]
    BY DEF Table
  <1>2. DOMAIN f = DOMAIN r.methods \cup {m} /\ f[m] = h /\ \A x \in DOMAIN r.methods : x # m => f[x] = r.methods[x]
    BY DEF Handling
  <1>3. f \in [S \cup {m} -> Handlers]
    BY <1>1, Zenon DEF Handling
  <1>4. f \in UNION {[X -> Handlers] : X \in SUBSET Methods}
    BY <1>3, Zenon
  <1>5. a \in Seq(Methods)
    BY AppendIs, Zenon DEF Table
  <1>6. s = [r EXCEPT !.methods = f, !.all_methods = a]
    BY Zenon DEF set_method_handler
  <1> HIDE DEF f, a, s
  <1>7. s \in Table /\ s.parts = r.parts /\ s.methods = f /\ s.all_methods = a
    BY <1>4, <1>5, <1>6, Zenon DEF Table
  <1> QED BY <1>2, <1>7, Zenon DEF s, a, Handles

\* What create_route finds or makes: R is the table, with the route at a place.
Created(R, at, p) ==
    /\ R \in Seq(Table) /\ at \in DOMAIN R /\ SameRoute(R[at].parts, p) /\ DOMAIN m_routes \subseteq DOMAIN R
    /\ \A i \in DOMAIN R : i # at => i \in DOMAIN m_routes
    /\ \A i \in DOMAIN m_routes : R[i] = m_routes[i] /\ (i # at => ~SameRoute(m_routes[i].parts, p))
    /\ at \notin DOMAIN m_routes => R[at] = NewRoute(p) /\ \A i \in DOMAIN m_routes : i < at

LEMMA RouteCreated ==
    ASSUME m_routes \in Seq(Table), TableWellFormed, NEW p \in Parts
    PROVE  Created(create_route(m_routes, p).routes, create_route(m_routes, p).at, p)
  <1> DEFINE same == {i \in DOMAIN m_routes : SameRoute(m_routes[i].parts, p)}
             t == create_route(m_routes, p)
             new == Append(m_routes, NewRoute(p))
  <1>0. \A i \in DOMAIN m_routes : m_routes[i].parts \in Parts
    <2>1. \A i \in DOMAIN m_routes : m_routes[i] \in Table
      BY SeqIs
    <2> QED BY <2>1 DEF Table
  <1>1. DOMAIN m_routes = 1 .. Len(m_routes) /\ Len(m_routes) \in Nat
    BY SeqIs, Zenon
  <1>2. CASE same # {}
    <2>1. Min(same) \in same
      <3>1. same \subseteq Nat
        BY <1>1
      <3> HIDE DEF same
      <3> QED BY <1>2, <3>1, Least, Zenon
    <2>2. t.routes = m_routes /\ t.at = Min(same)
      BY <1>2 DEF create_route
    <2> DEFINE at == Min(same)
    <2>3. at \in DOMAIN m_routes /\ SameRoute(m_routes[at].parts, p)
      BY <2>1
    <2> HIDE DEF at
    <2>4. ASSUME NEW i \in DOMAIN m_routes, i # at, SameRoute(m_routes[i].parts, p) PROVE FALSE
      <3>1. SameRoute(p, m_routes[at].parts) /\ SameRoute(m_routes[i].parts, m_routes[at].parts)
        BY <1>0, <2>3, <2>4, SameIsEquivalence, Zenon
      <3> QED BY <2>3, <2>4, <3>1, Zenon DEF TableWellFormed
    <2>5. Created(m_routes, at, p)
      BY <2>3, <2>4, Zenon DEF Created
    <2> QED BY <2>2, <2>5, Zenon DEF at
  <1>3. CASE same = {}
    <2>1. t.routes = new /\ t.at = Len(m_routes) + 1
      BY <1>3, Zenon DEF create_route
    <2>2. NewRoute(p) \in Table /\ NewRoute(p).parts = p
      BY EmptyRoute, Zenon
    <2>3. /\ new \in Seq(Table) /\ Len(new) = Len(m_routes) + 1 /\ new[Len(m_routes) + 1] = NewRoute(p)
          /\ \A i \in 1 .. Len(m_routes) : new[i] = m_routes[i]
      BY <2>2, AppendIs
    <2>4. DOMAIN new = 1 .. Len(m_routes) + 1
      BY <2>3, SeqIs, Zenon
    <2>5. SameRoute(p, p)
      BY SameIsEquivalence, Zenon
    <2> HIDE DEF new
    <2>6. Created(new, Len(m_routes) + 1, p)
      BY SMTT(40), Z3T(40), <1>1, <1>3, <2>2, <2>3, <2>4, <2>5 DEF Created
    <2> QED BY <2>1, <2>6, Zenon
  <1> QED BY <1>2, <1>3

\* The routes of the table that are not declared now, and the one that is.
Extended(at, m, h, p) ==
    /\ m_routes' \in Seq(Table) /\ log' \in Seq(Entry) /\ at \in DOMAIN m_routes' /\ DOMAIN m_routes \subseteq DOMAIN m_routes'
    /\ \A i \in DOMAIN m_routes' : i # at => i \in DOMAIN m_routes /\ m_routes'[i] = m_routes[i]
    /\ \A i \in DOMAIN m_routes : m_routes'[i].parts = m_routes[i].parts
    /\ at \notin DOMAIN m_routes => \A i \in DOMAIN m_routes : i < at
    /\ DOMAIN log' = DOMAIN log \cup {Len(log) + 1} /\ log'[Len(log) + 1] = [parts |-> p, method |-> m, handler |-> h]
    /\ \A k \in DOMAIN log : log'[k] = log[k] /\ k < Len(log) + 1

\* The methods of the route before the declaration.
Before(at) == IF at \in DOMAIN m_routes THEN m_routes[at] ELSE NewRoute(<<>>)

LEMMA DeclareExtends ==
    ASSUME Inv, NEW d \in Declarations, Declare(d)
    PROVE  LET p == parse_route_parts(d.route)
               at == create_route(m_routes, p).at
           IN  /\ Extended(at, d.method, d.handler, p)
               /\ SameRoute(m_routes'[at].parts, p)
               /\ \A i \in DOMAIN m_routes : i # at => ~SameRoute(m_routes[i].parts, p)
               /\ Handles(m_routes'[at], Before(at), d.method, d.handler)
  <1> DEFINE p == parse_route_parts(d.route)
             t == create_route(m_routes, p)
             at == t.at
             R == t.routes
             e == [parts |-> p, method |-> d.method, handler |-> d.handler]
  <1>1. p \in Parts /\ d.method \in Methods /\ d.handler \in Handlers
    BY DEF Parts, Methods, Handlers
  <1>2. m_routes \in Seq(Table) /\ log \in Seq(Entry) /\ TableWellFormed
    BY Zenon DEF Inv, TypeOK, Table, Entry
  <1>3. Created(R, at, p)
    BY <1>1, <1>2, RouteCreated, Zenon
  <1>4. m_routes' = [R EXCEPT ![at] = set_method_handler(R[at], d.method, d.handler)] /\ log' = Append(log, e)
    BY Zenon DEF Declare
  <1> HIDE DEF p, at, R
  <1>5. R \in Seq(Table) /\ at \in DOMAIN R /\ R[at] \in Table
    <2>1. R \in Seq(Table) /\ at \in DOMAIN R
      BY <1>3, Zenon DEF Created
    <2> QED BY <2>1, SeqIs, Zenon
  <1> DEFINE s == set_method_handler(R[at], d.method, d.handler)
             r == R[at]
  <1>6. s \in Table /\ s.parts = r.parts /\ Handles(s, r, d.method, d.handler)
    BY <1>1, <1>5, HandlerSet, Zenon
  <1> HIDE DEF s
  <1>7. m_routes' \in Seq(Table) /\ DOMAIN m_routes' = DOMAIN R /\ m_routes'[at] = s /\ \A i \in DOMAIN R : i # at => m_routes'[i] = R[i]
    BY SMTT(40), Z3T(40), <1>4, <1>5, <1>6 DEF s
  <1>8. e \in Entry
    BY <1>1, Zenon DEF Entry
  <1> HIDE DEF e
  <1>9. /\ log' \in Seq(Entry) /\ DOMAIN log' = DOMAIN log \cup {Len(log) + 1} /\ log'[Len(log) + 1] = e
        /\ \A k \in DOMAIN log : log'[k] = log[k] /\ k < Len(log) + 1
    <2>1. /\ log' \in Seq(Entry) /\ Len(log') = Len(log) + 1 /\ log'[Len(log) + 1] = e
          /\ \A k \in 1 .. Len(log) : log'[k] = log[k]
      BY SMTT(40), Z3T(40), <1>2, <1>4, <1>8, AppendIs
    <2>2. DOMAIN log = 1 .. Len(log) /\ DOMAIN log' = 1 .. Len(log') /\ Len(log) \in Nat
      BY <1>2, <2>1, SeqIs, Zenon
    <2> QED BY SMTT(40), Z3T(40), <2>1, <2>2
  <1>10. Extended(at, d.method, d.handler, p)
    BY <1>3, <1>6, <1>7, <1>9, Zenon DEF Extended, Created, e
  <1>11. SameRoute(m_routes'[at].parts, p) /\ \A i \in DOMAIN m_routes : i # at => ~SameRoute(m_routes[i].parts, p)
    BY SMTT(40), Z3T(40), <1>3, <1>6, <1>7 DEF Created
  <1>12. Handles(m_routes'[at], Before(at), d.method, d.handler)
    <2>1. r.methods = Before(at).methods /\ r.all_methods = Before(at).all_methods
      BY <1>3 DEF Created, Before, NewRoute
    <2> QED BY <1>6, <1>7, <2>1, Zenon DEF Handles
  <1> QED BY <1>10, <1>11, <1>12, Zenon DEF p, at

\* What a 405 lists for a route.
Listing(r) ==
    /\ Range(r.all_methods) = DOMAIN r.methods \ {"OPTIONS"}
    /\ \A j, k \in DOMAIN r.all_methods : r.all_methods[j] = r.all_methods[k] => j = k

LEMMA ListingKept ==
    ASSUME NEW r, NEW s, NEW m \in Methods, NEW h, r.all_methods \in Seq(Methods), Listing(r), Handles(s, r, m, h)
    PROVE  Listing(s)
  <1> DEFINE q == r.all_methods
  <1>1. DOMAIN s.methods = DOMAIN r.methods \cup {m}
        /\ s.all_methods = IF m \in DOMAIN r.methods \/ m = "OPTIONS" THEN q ELSE Append(q, m)
    BY Zenon DEF Handles
  <1>2. Range(q) = DOMAIN r.methods \ {"OPTIONS"} /\ \A j, k \in DOMAIN q : q[j] = q[k] => j = k
    BY Zenon DEF Listing
  <1>3. CASE m \in DOMAIN r.methods \/ m = "OPTIONS"
    <2>1. DOMAIN s.methods \ {"OPTIONS"} = DOMAIN r.methods \ {"OPTIONS"} /\ s.all_methods = q
      BY <1>1, <1>3, Zenon
    <2> QED BY <1>2, <2>1, Zenon DEF Listing
  <1>4. CASE ~(m \in DOMAIN r.methods \/ m = "OPTIONS")
    <2> DEFINE a == Append(q, m)
    <2>1. Len(q) \in Nat /\ DOMAIN q = 1 .. Len(q)
      BY SeqIs, Zenon
    <2>2. /\ a \in Seq(Methods) /\ Len(a) = Len(q) + 1 /\ a[Len(q) + 1] = m /\ \A i \in 1 .. Len(q) : a[i] = q[i]
      BY AppendIs
    <2>3. DOMAIN a = 1 .. Len(q) + 1
      BY <2>2, SeqIs, Zenon
    <2> HIDE DEF a
    <2>4. DOMAIN a = DOMAIN q \cup {Len(q) + 1} /\ Len(q) + 1 \notin DOMAIN q
      BY <2>1, <2>3
    <2>5. m \notin Range(q) /\ Range(a) = Range(q) \cup {m}
      BY SMTT(40), Z3T(40), <1>2, <1>4, <2>1, <2>2, <2>4 DEF Range
    <2>6. \A j \in DOMAIN q : q[j] # m
      BY <2>5, Zenon DEF Range
    <2>7. \A j, k \in DOMAIN a : a[j] = a[k] => j = k
      BY <1>2, <2>1, <2>2, <2>4, <2>6, Zenon
    <2>8. Range(a) = DOMAIN s.methods \ {"OPTIONS"} /\ s.all_methods = a
      BY <1>1, <1>2, <1>4, <2>5, Zenon DEF a
    <2> QED BY <2>7, <2>8, Zenon DEF Listing
  <1> QED BY <1>3, <1>4, Zenon

LEMMA DeclareInv == ASSUME Inv, NEW d \in Declarations, Declare(d) PROVE Inv'
  <1> DEFINE p == parse_route_parts(d.route)
             m == d.method
             h == d.handler
             n == Len(log) + 1
  <1>1. PICK at : /\ Extended(at, m, h, p) /\ SameRoute(m_routes'[at].parts, p)
                  /\ \A i \in DOMAIN m_routes : i # at => ~SameRoute(m_routes[i].parts, p)
                  /\ Handles(m_routes'[at], Before(at), m, h)
    BY DeclareExtends, Zenon
  <1> DEFINE old == at \in DOMAIN m_routes
  <1>2. p \in Parts
    BY Zenon DEF Parts
  <1> HIDE DEF p
  <1>3. /\ \A i \in DOMAIN m_routes : m_routes[i].parts \in Parts
        /\ \A i \in DOMAIN m_routes' : m_routes'[i].parts \in Parts
        /\ \A k \in DOMAIN log : log[k].parts \in Parts
    <2>1. m_routes \in Seq(Table) /\ m_routes' \in Seq(Table) /\ log \in Seq(Entry)
      BY <1>1, Zenon DEF Inv, TypeOK, Table, Entry, Extended
    <2>2. /\ \A i \in DOMAIN m_routes : m_routes[i] \in Table
          /\ \A i \in DOMAIN m_routes' : m_routes'[i] \in Table
          /\ \A k \in DOMAIN log : log[k] \in Entry
      BY <2>1, SeqIs, Zenon
    <2> QED BY <2>2, Zenon DEF Table, Entry
  \* who declared what
  <1>4. ASSUME NEW i \in DOMAIN m_routes, i # at PROVE Declared(i)' = Declared(i)
    <2>1. m_routes'[i].parts = m_routes[i].parts /\ ~SameRoute(m_routes[i].parts, p)
      BY <1>1, <1>4, Zenon DEF Extended
    <2> QED BY SMTT(40), Z3T(40), <1>1, <2>1 DEF Extended, Declared
  <1>5. Declared(at)' = (IF old THEN Declared(at) ELSE {}) \cup {n}
    <2>1. CASE old
      BY SMTT(40), Z3T(40), <1>1, <2>1 DEF Extended, Declared
    <2>2. CASE ~old
      <3>1. ASSUME NEW k \in DOMAIN log, SameRoute(m_routes'[at].parts, log[k].parts) PROVE FALSE
        <4>1. PICK i \in DOMAIN m_routes : SameRoute(m_routes[i].parts, log[k].parts)
          BY Zenon DEF Inv, Declared
        <4> DEFINE a == m_routes[i].parts
                   b == log[k].parts
                   c == m_routes'[at].parts
        <4>2. a \in Parts /\ b \in Parts /\ c \in Parts /\ SameRoute(a, b) /\ SameRoute(c, b) /\ SameRoute(c, p)
          BY <1>1, <1>3, <3>1, <4>1, Zenon DEF Extended
        <4> HIDE DEF a, b, c
        <4>3. SameRoute(b, c) /\ SameRoute(a, c) /\ SameRoute(a, p)
          BY <1>2, <4>2, SameIsEquivalence, Zenon
        <4> QED BY <1>1, <2>2, <4>3, Zenon DEF a
      <3> QED BY SMTT(40), Z3T(40), <1>1, <2>2, <3>1 DEF Extended, Declared
    <2> QED BY <2>1, <2>2, Zenon
  <1>6. n \in DOMAIN log' /\ log'[n].method = m /\ log'[n].handler = h /\ log'[n].parts = p
        /\ n \in Nat /\ \A k \in DOMAIN log : k \in Nat /\ k < n /\ log'[k] = log[k]
    <2>1. log \in Seq(Entry)
      BY Zenon DEF Inv, TypeOK, Entry
    <2>2. Len(log) \in Nat /\ DOMAIN log = 1 .. Len(log)
      BY <2>1, SeqIs, Zenon
    <2> QED BY <1>1, <2>2 DEF Extended
  <1>7. \A i \in DOMAIN m_routes : Declared(i) \subseteq DOMAIN log /\ Declared(i) # {} /\ MethodsAsDeclared(i)
    BY Zenon DEF Inv, Declared
  <1>8. TypeOK'
    BY <1>1, Zenon DEF Inv, TypeOK, Declare, Extended, Table, Entry
  <1>9. \A k \in DOMAIN log' : \E i \in DOMAIN m_routes' : k \in Declared(i)'
    <2>1. ASSUME NEW k \in DOMAIN log PROVE \E i \in DOMAIN m_routes' : k \in Declared(i)'
      <3>1. PICK i \in DOMAIN m_routes : k \in Declared(i)
        BY Zenon DEF Inv
      <3>2. i \in DOMAIN m_routes'
        BY <1>1, Zenon DEF Extended
      <3> QED BY <1>4, <1>5, <3>1, <3>2, Zenon
    <2>2. at \in DOMAIN m_routes' /\ DOMAIN log' = DOMAIN log \cup {n}
      BY <1>1, Zenon DEF Extended
    <2>3. n \in Declared(at)'
      BY <1>5, Zenon
    <2> QED BY <2>1, <2>2, <2>3, Zenon
  <1>10. ASSUME NEW i \in DOMAIN m_routes' PROVE Declared(i)' # {} /\ MethodsAsDeclared(i)'
    <2>1. CASE i # at
      <3>1. i \in DOMAIN m_routes /\ m_routes'[i] = m_routes[i] /\ Declared(i)' = Declared(i)
        BY <1>1, <1>4, <2>1, Zenon DEF Extended
      <3>2. /\ Declared(i) # {} /\ \A k \in Declared(i) : log'[k] = log[k]
        BY <1>6, <1>7, <3>1, Zenon
      <3>3. MethodsAsDeclared(i)
        BY <1>7, <3>1, Zenon
      <3>4. ASSUME NEW k \in Declared(i) PROVE log'[k].method \in DOMAIN m_routes'[i].methods
        BY <3>1, <3>2, <3>3, Zenon DEF MethodsAsDeclared
      <3>5. ASSUME NEW x \in DOMAIN m_routes'[i].methods
            PROVE  \E k \in Declared(i) : /\ log'[k].method = x /\ log'[k].handler = m_routes'[i].methods[x]
                                          /\ \A l \in Declared(i) : log'[l].method = x => l <= k
        BY <3>1, <3>2, <3>3, Zenon DEF MethodsAsDeclared
      <3> QED BY <3>1, <3>2, <3>4, <3>5, Zenon DEF MethodsAsDeclared
    <2>2. CASE i = at
      <3> DEFINE D == IF old THEN Declared(at) ELSE {}
                 ms == Before(at).methods
      <3>1. D \subseteq DOMAIN log /\ Declared(at)' = D \cup {n}
        BY <1>5, <1>7, Zenon
      <3>2. \A k \in D : log[k].method \in DOMAIN ms
        BY <1>7, Zenon DEF MethodsAsDeclared, Before
      <3>3. \A x \in DOMAIN ms : \E k \in D : /\ log[k].method = x /\ log[k].handler = ms[x]
                                              /\ \A l \in D : log[l].method = x => l <= k
        <4>1. CASE old
          BY <1>7, <4>1, Zenon DEF MethodsAsDeclared, Before
        <4>2. CASE ~old
          BY <4>2 DEF Before, NewRoute
        <4> QED BY <4>1, <4>2, Zenon
      <3> HIDE DEF D, old
      <3>4. /\ DOMAIN m_routes'[at].methods = DOMAIN ms \cup {m} /\ m_routes'[at].methods[m] = h
            /\ \A x \in DOMAIN ms : x # m => m_routes'[at].methods[x] = ms[x]
        BY <1>1, Zenon DEF Handles
      <3> HIDE DEF ms, m, h, n
      <3>5. ASSUME NEW k \in D \cup {n} PROVE log'[k].method \in DOMAIN m_routes'[at].methods
        BY <1>6, <3>1, <3>2, <3>4, Zenon
      <3>6. ASSUME NEW x \in DOMAIN m_routes'[at].methods
            PROVE  \E k \in D \cup {n} : /\ log'[k].method = x /\ log'[k].handler = m_routes'[at].methods[x]
                                         /\ \A l \in D \cup {n} : log'[l].method = x => l <= k
        <4>1. CASE x = m
          <5>1. \A l \in D \cup {n} : l <= n
            BY SMTT(40), Z3T(40), <1>6, <3>1
          <5> QED BY <1>6, <3>4, <4>1, <5>1, Zenon
        <4>2. CASE x # m
          <5>1. PICK k \in D : /\ log[k].method = x /\ log[k].handler = ms[x]
                               /\ \A l \in D : log[l].method = x => l <= k
            BY <3>3, <3>4, <4>2, Zenon
          <5>2. \A l \in D \cup {n} : log'[l].method = x => l \in D /\ log[l].method = x
            BY <1>6, <3>1, <4>2, Zenon
          <5> QED BY <1>6, <3>1, <3>4, <4>2, <5>1, <5>2, Zenon
        <4> QED BY <4>1, <4>2, Zenon
      <3> QED BY <2>2, <3>1, <3>5, <3>6, ZenonT(40) DEF MethodsAsDeclared
    <2> QED BY <2>1, <2>2, Zenon
  <1>11. ASSUME NEW i \in DOMAIN m_routes', NEW j \in DOMAIN m_routes', i < j
         PROVE  \E k \in Declared(i)' : \A l \in Declared(j)' : k < l
    <2>1. \A a, b \in DOMAIN m_routes : a < b => \E k \in Declared(a) : \A l \in Declared(b) : k < l
      BY Zenon DEF Inv
    <2>2. i \in DOMAIN m_routes
      BY SMTT(40), Z3T(40), <1>1, <1>11 DEF Extended
    <2>3. CASE j # at
      <3>1. j \in DOMAIN m_routes /\ Declared(j)' = Declared(j) /\ Declared(i) \subseteq Declared(i)'
        BY <1>1, <1>4, <1>5, <2>2, <2>3, Zenon DEF Extended
      <3>2. PICK k \in Declared(i) : \A l \in Declared(j) : k < l
        BY <1>11, <2>1, <2>2, <3>1, Zenon
      <3> QED BY <3>1, <3>2, Zenon
    <2>4. CASE j = at
      <3>1. i # at /\ Declared(i)' = Declared(i)
        <4>1. m_routes \in Seq(Table)
          BY Zenon DEF Inv, TypeOK, Table
        <4>2. i \in Nat
          BY SMTT(40), Z3T(40), <2>2, <4>1, SeqIs
        <4>3. i # at
          BY SMTT(40), Z3T(40), <1>11, <2>4, <4>2
        <4> QED BY <1>4, <2>2, <4>3, Zenon
      <3>2. PICK k \in Declared(i) : old => \A l \in Declared(at) : k < l
        BY <1>7, <1>11, <2>1, <2>2, <2>4, Zenon
      <3>3. k < n
        BY <1>6, <1>7, <2>2, Zenon
      <3> QED BY <1>5, <2>4, <3>1, <3>2, <3>3, Zenon
    <2> QED BY <2>3, <2>4, Zenon
  <1>12. TableWellFormed'
    <2>1. ASSUME NEW i \in DOMAIN m_routes', NEW j \in DOMAIN m_routes', i # j
          PROVE  ~SameRoute(m_routes'[i].parts, m_routes'[j].parts)
      <3> DEFINE a == m_routes'[i].parts
                 b == m_routes'[j].parts
      <3>1. a \in Parts /\ b \in Parts
        BY <1>3, Zenon
      <3>2. CASE i # at /\ j # at
        BY <1>1, <2>1, <3>2, Zenon DEF Inv, TableWellFormed, Extended
      <3>3. CASE i = at
        <4>1. ~SameRoute(b, p) /\ SameRoute(a, p)
          BY <1>1, <2>1, <3>3, Zenon DEF Extended
        <4> HIDE DEF a, b
        <4>2. SameRoute(a, b) => SameRoute(b, a) /\ SameRoute(b, p)
          BY <1>2, <3>1, <4>1, SameIsEquivalence, Zenon
        <4> QED BY <4>1, <4>2, Zenon DEF a, b
      <3>4. CASE j = at
        <4>1. ~SameRoute(a, p) /\ SameRoute(b, p)
          BY <1>1, <2>1, <3>4, Zenon DEF Extended
        <4> HIDE DEF a, b
        <4>2. SameRoute(a, b) => SameRoute(a, p)
          BY <1>2, <3>1, <4>1, SameIsEquivalence, Zenon
        <4> QED BY <4>1, <4>2, Zenon DEF a, b
      <3> QED BY <3>2, <3>3, <3>4, Zenon
    <2>2. ASSUME NEW i \in DOMAIN m_routes' PROVE Listing(m_routes'[i])
      <3>1. CASE i # at
        BY <1>1, <3>1, Zenon DEF Inv, TableWellFormed, Extended, Listing
      <3>2. CASE i = at
        <4>1. Before(at).all_methods \in Seq(Methods) /\ Listing(Before(at))
          <5>1. CASE old
            <6>1. m_routes \in Seq(Table)
              BY Zenon DEF Inv, TypeOK, Table
            <6>2. m_routes[at] \in Table
              BY <5>1, <6>1, SeqIs, Zenon
            <6>3. Before(at) = m_routes[at]
              BY <5>1, Zenon DEF Before
            <6> QED BY <5>1, <6>2, <6>3, Zenon DEF Table, Inv, TableWellFormed, Listing
          <5>2. CASE ~old
            <6>1. Before(at).all_methods = <<>> /\ Before(at).methods = <<>>
              BY <5>2, Zenon DEF Before, NewRoute
            <6> QED BY <6>1 DEF Listing, Range
          <5> QED BY <5>1, <5>2, Zenon
        <4>2. m \in Methods
          BY Zenon DEF Methods
        <4> QED BY <1>1, <3>2, <4>1, <4>2, ListingKept, Zenon
      <3> QED BY <3>1, <3>2, Zenon
    <2> QED BY <2>1, <2>2, Zenon DEF TableWellFormed, Listing
  <1>13. request' = <<>> /\ answer' = Nothing
    BY DEF Declare, Inv
  <1> QED BY <1>8, <1>9, <1>10, <1>11, <1>12, <1>13, Zenon DEF Inv

-----------------------------------------------------------------------------
(* The theorems *)

LEMMA InitInv == Init => Inv
  <1> SUFFICES ASSUME Init PROVE Inv
    OBVIOUS
  <1>1. m_routes = <<>> /\ log = <<>> /\ DOMAIN m_routes = {} /\ DOMAIN log = {}
    BY DEF Init
  <1>2. TypeOK
    <2>1. m_routes \in Seq(Table) /\ log \in Seq(Entry)
      BY <1>1
    <2> QED BY <2>1, Zenon DEF Init, TypeOK, Table, Entry
  <1>3. TableWellFormed
    BY <1>1, Zenon DEF TableWellFormed
  <1>4. request = <<>> /\ answer = Nothing
    BY DEF Init
  <1> QED BY <1>1, <1>2, <1>3, <1>4, Zenon DEF Inv

LEMMA NextInv == Inv /\ [Next]_vars => Inv'
  <1> SUFFICES ASSUME Inv, [Next]_vars PROVE Inv'
    OBVIOUS
  <1>1. ASSUME UNCHANGED <<m_routes, log>>
        PROVE  /\ TableWellFormed'
               /\ \A k \in DOMAIN log' : \E i \in DOMAIN m_routes' : k \in Declared(i)'
               /\ \A i \in DOMAIN m_routes' : Declared(i)' # {} /\ MethodsAsDeclared(i)'
               /\ \A i, j \in DOMAIN m_routes' : i < j => \E k \in Declared(i)' : \A l \in Declared(j)' : k < l
    <2>1. \A i : (Declared(i))' = Declared(i)
      BY <1>1, Zenon DEF Declared
    <2>2. \A i : MethodsAsDeclared(i) => MethodsAsDeclared(i)'
      BY <1>1, <2>1, Zenon DEF MethodsAsDeclared
    <2>3. TableWellFormed'
      BY <1>1, ZenonT(40) DEF Inv, TableWellFormed
    <2> QED BY <1>1, <2>1, <2>2, <2>3, Zenon DEF Inv
  <1>2. CASE StartServing
    BY <1>1, <1>2 DEF StartServing, Inv, TypeOK
  <1>3. ASSUME NEW r \in Requests, CreateSession(r) PROVE Inv'
    <2>1. UNCHANGED <<m_routes, serving, log>> /\ serving /\ request' = <<r>> /\ request'[1] = r
          /\ answer' = create_handler(m_routes, r.url, r.method)
      BY <1>3, Zenon DEF CreateSession
    <2>2. TypeOK'
      BY <2>1, Zenon DEF Inv, TypeOK
    <2>3. answer' = create_handler(m_routes', request'[1].url, request'[1].method) /\ request' # <<>>
      BY <2>1, Zenon
    <2> QED BY <1>1, <2>1, <2>2, <2>3, Zenon DEF Inv
  <1>4. CASE UNCHANGED vars
    <2>1. UNCHANGED <<m_routes, serving, request, answer, log>>
      BY <1>4, Zenon DEF vars
    <2> QED BY <1>1, <2>1, Zenon DEF Inv, TypeOK
  <1> QED BY <1>2, <1>3, <1>4, DeclareInv, Zenon DEF Next

\* Whatever is declared, in whatever order and however often, the table of
\* restful_router has every route once, in the order of the first declaration,
\* with each of its methods and the handler that was declared last for it.
THEOREM TableIsWhatWasDeclared == Spec => []Inv
  BY InitInv, NextInv, PTL DEF Spec

-----------------------------------------------------------------------------
(* The answers *)

\* The path of a URL is a URL without a query.
LEMMA PathIs ==
    ASSUME NEW url \in Seq(STRING)
    PROVE  PathOf(url) \in Seq(STRING) /\ PathOf(PathOf(url)) = PathOf(url) /\ QueryOf(PathOf(url)) = <<>>
  <1> DEFINE S(u) == {i \in DOMAIN u : u[i] = "?"} \cup {Len(u) + 1}
             lo == Min(S(url))
             n == lo - 1
             path == PathOf(url)
  <1>0. Len(url) \in Nat /\ DOMAIN url = 1 .. Len(url) /\ \A i \in 1 .. Len(url) : url[i] \in STRING
    BY SeqIs, Zenon
  <1>1. S(url) \subseteq Nat /\ S(url) # {} /\ Len(url) + 1 \in S(url) /\ 0 \notin S(url)
    BY <1>0
  <1>2. lo \in S(url) /\ \A i \in S(url) : lo <= i
    <2> HIDE DEF S
    <2> QED BY <1>1, Least, Zenon
  <1>4. path = SubSeq(url, 1, n)
    BY Zenon DEF PathOf
  <1> HIDE DEF lo, path
  <1>3. n \in 0 .. Len(url) /\ \A i \in 1 .. n : url[i] # "?"
    <2>1. lo \in 1 .. Len(url) + 1 /\ n \in 0 .. Len(url)
      BY SMTT(40), Z3T(40), <1>0, <1>1, <1>2
    <2>2. ASSUME NEW i \in 1 .. n PROVE url[i] # "?"
      <3>1. ~(lo <= i) /\ i \in DOMAIN url
        BY SMTT(40), Z3T(40), <1>0, <2>1
      <3>2. i \notin S(url)
        BY <1>2, <3>1, Zenon
      <3> QED BY <3>1, <3>2, Zenon
    <2> QED BY <1>0, <2>1, <2>2, Zenon
  <1> HIDE DEF n
  <1>5. path \in Seq(STRING) /\ Len(path) = n /\ \A i \in 1 .. n : path[i] = url[i]
    BY SMTT(40), Z3T(40), <1>0, <1>3, <1>4
  <1>6. DOMAIN path = 1 .. n
    BY <1>5
  <1>7. S(path) = {n + 1}
    BY <1>3, <1>5, <1>6, Zenon
  <1>8. Min(S(path)) = n + 1
    <2> HIDE DEF S
    <2>1. S(path) \subseteq Nat /\ S(path) # {}
      BY SMTT(40), Z3T(40), <1>3, <1>7
    <2>2. Min(S(path)) \in S(path)
      BY <2>1, Least, Zenon
    <2> QED BY <1>7, <2>2, Zenon
  <1>9. PathOf(path) = SubSeq(path, 1, n)
    <2>1. (n + 1) - 1 = n
      BY <1>3
    <2> QED BY <1>8, <2>1, Zenon DEF PathOf
  <1>10. PathOf(path) = path
    BY SMTT(40), Z3T(40), <1>3, <1>5, <1>6, <1>9
  <1>11. QueryOf(path) = SubSeq(path, n + 2, n)
    BY <1>5, <1>10, Zenon DEF QueryOf
  <1>12. SubSeq(path, n + 2, n) = <<>>
    BY SMTT(40), Z3T(40), <1>3, <1>5
  <1> QED BY <1>5, <1>10, <1>11, <1>12, Zenon DEF path

LEMMA PiecesAre ==
    ASSUME NEW url \in Seq(STRING), UnderBase(url)
    PROVE  Len(PiecesOf(url)) \in Nat /\ DOMAIN PiecesOf(url) = 1 .. Len(PiecesOf(url))
  <1> DEFINE all == splitAll(PathOf(url), "/")
             base == splitAll(base_url, "/")
             pieces == SubSeq(all, Len(base) + 1, Len(all))
  <1>1. Len(all) \in Nat /\ Len(base) \in Nat /\ DOMAIN all = 1 .. Len(all) /\ \E T : all \in Seq(T)
    BY RouterAssumption, PathIs, SplitIs, Zenon DEF splitAll, split
  <1>2. Len(all) > Len(base) /\ PiecesOf(url) = pieces
    BY Zenon DEF UnderBase, PiecesOf
  <1> HIDE DEF all, base
  <1>3. PICK T : all \in Seq(T)
    BY <1>1, Zenon
  <1>4. pieces \in Seq(T)
    BY SMTT(40), Z3T(40), <1>1, <1>2, <1>3
  <1> HIDE DEF pieces
  <1> QED BY <1>2, <1>4, SeqIs, Zenon

\* The declarations and the routes that match and have the method.
Hits(pieces, m) == {k \in DOMAIN log : PathMatched(log[k], pieces) /\ log[k].method = m}
Able(pieces, m) == {i \in DOMAIN m_routes : PathMatched(m_routes[i], pieces) /\ m \in DOMAIN m_routes[i].methods}

LEMMA Typed ==
    ASSUME Inv
    PROVE  /\ DOMAIN m_routes = 1 .. Len(m_routes) /\ Len(m_routes) \in Nat
           /\ DOMAIN log = 1 .. Len(log) /\ Len(log) \in Nat
           /\ \A i \in DOMAIN m_routes : m_routes[i].parts \in Parts
           /\ \A k \in DOMAIN log : log[k].parts \in Parts
  <1>1. m_routes \in Seq(Table) /\ log \in Seq(Entry)
    BY Zenon DEF Inv, TypeOK, Table, Entry
  <1>2. /\ DOMAIN m_routes = 1 .. Len(m_routes) /\ Len(m_routes) \in Nat
        /\ DOMAIN log = 1 .. Len(log) /\ Len(log) \in Nat
    BY <1>1, SeqIs, Zenon
  <1>3. (\A i \in DOMAIN m_routes : m_routes[i] \in Table) /\ \A k \in DOMAIN log : log[k] \in Entry
    BY <1>1, SeqIs, Zenon
  <1> QED BY <1>2, <1>3, Zenon DEF Table, Entry

LEMMA DeclaredMatch ==
    ASSUME Inv, NEW pieces, DOMAIN pieces = 1 .. Len(pieces), NEW i \in DOMAIN m_routes, NEW k \in Declared(i)
    PROVE  PathMatched(log[k], pieces) <=> PathMatched(m_routes[i], pieces)
  <1>1. k \in DOMAIN log /\ SameRoute(m_routes[i].parts, log[k].parts)
    BY Zenon DEF Declared
  <1>2. m_routes[i].parts \in Parts /\ log[k].parts \in Parts
    BY <1>1, Typed, Zenon
  <1> QED BY <1>1, <1>2, SameMatches, Zenon

LEMMA HitsAreAble ==
    ASSUME Inv, NEW pieces, DOMAIN pieces = 1 .. Len(pieces), NEW m
    PROVE  /\ \A k \in Hits(pieces, m) : \E i \in Able(pieces, m) : k \in Declared(i)
           /\ \A i \in Able(pieces, m) : \E k \in Hits(pieces, m) :
                /\ k \in Declared(i) /\ log[k].handler = m_routes[i].methods[m]
                /\ \A l \in Declared(i) : log[l].method = m => l <= k
  <1>1. ASSUME NEW k \in Hits(pieces, m) PROVE \E i \in Able(pieces, m) : k \in Declared(i)
    <2>1. k \in DOMAIN log /\ PathMatched(log[k], pieces) /\ log[k].method = m
      BY Zenon DEF Hits
    <2>2. PICK i \in DOMAIN m_routes : k \in Declared(i)
      BY <2>1, Zenon DEF Inv
    <2>3. PathMatched(m_routes[i], pieces)
      BY <2>1, <2>2, DeclaredMatch, Zenon
    <2>4. m \in DOMAIN m_routes[i].methods
      BY <2>1, <2>2, Zenon DEF Inv, MethodsAsDeclared
    <2> QED BY <2>2, <2>3, <2>4, Zenon DEF Able
  <1>2. ASSUME NEW i \in Able(pieces, m)
        PROVE  \E k \in Hits(pieces, m) : /\ k \in Declared(i) /\ log[k].handler = m_routes[i].methods[m]
                                          /\ \A l \in Declared(i) : log[l].method = m => l <= k
    <2>1. i \in DOMAIN m_routes /\ PathMatched(m_routes[i], pieces) /\ m \in DOMAIN m_routes[i].methods
      BY Zenon DEF Able
    <2>2. PICK k \in Declared(i) : /\ log[k].method = m /\ log[k].handler = m_routes[i].methods[m]
                                   /\ \A l \in Declared(i) : log[l].method = m => l <= k
      BY <2>1, Zenon DEF Inv, MethodsAsDeclared
    <2>3. PathMatched(log[k], pieces) /\ k \in DOMAIN log
      BY <2>1, <2>2, DeclaredMatch, Zenon DEF Declared
    <2> QED BY <2>2, <2>3, Zenon DEF Hits
  <1> QED BY <1>1, <1>2, Zenon

\* The declarations of the route of a declaration are those of a route of the
\* table, and the first of them comes the earlier the earlier the route is.
LEMMA FirstIs ==
    ASSUME Inv, NEW i \in DOMAIN m_routes, NEW k \in Declared(i)
    PROVE  {j \in DOMAIN log : SameRoute(log[j].parts, log[k].parts)} = Declared(i)
  <1> DEFINE a == m_routes[i].parts
             b == log[k].parts
  <1>1. a \in Parts /\ b \in Parts /\ SameRoute(a, b) /\ \A j \in DOMAIN log : log[j].parts \in Parts
    BY Typed, Zenon DEF Declared
  <1>2. Declared(i) = {j \in DOMAIN log : SameRoute(a, log[j].parts)}
    BY Zenon DEF Declared
  <1> HIDE DEF a, b
  <1>3. ASSUME NEW j \in DOMAIN log PROVE SameRoute(log[j].parts, b) <=> SameRoute(a, log[j].parts)
    <2> DEFINE c == log[j].parts
    <2>1. c \in Parts
      BY <1>1, Zenon
    <2> HIDE DEF c
    <2>2. SameRoute(c, b) <=> SameRoute(a, c)
      BY <1>1, <2>1, SameIsEquivalence, Zenon
    <2> QED BY <2>2, Zenon DEF c
  <1> QED BY <1>2, <1>3, Zenon DEF b

LEMMA FirstsInOrder ==
    ASSUME Inv, NEW i \in DOMAIN m_routes, NEW j \in DOMAIN m_routes
    PROVE  Min(Declared(i)) \in Nat /\ (i < j => Min(Declared(i)) < Min(Declared(j)))
  <1>a. DOMAIN log \subseteq Nat
    BY Typed
  <1>0. DOMAIN log \subseteq Nat /\ \A x \in DOMAIN m_routes : Declared(x) # {}
    BY <1>a, Zenon DEF Inv
  <1>1. \A x \in DOMAIN m_routes : Declared(x) \subseteq Nat /\ Declared(x) # {}
    BY <1>0, Zenon DEF Declared
  <1>2. \A x \in DOMAIN m_routes : Min(Declared(x)) \in Declared(x) /\ \A k \in Declared(x) : Min(Declared(x)) <= k
    BY <1>1, Least, Zenon
  <1>3. ASSUME i < j PROVE Min(Declared(i)) < Min(Declared(j))
    <2>1. PICK k \in Declared(i) : \A l \in Declared(j) : k < l
      BY <1>3, Zenon DEF Inv
    <2>2. Min(Declared(i)) <= k /\ k < Min(Declared(j)) /\ k \in Nat
      BY <1>1, <1>2, <2>1, Zenon
    <2> QED BY SMTT(40), Z3T(40), <1>1, <1>2, <2>2
  <1> QED BY <1>1, <1>2, <1>3, Zenon

\* The declaration Responsible() names, once the URL and the method are given.
FirstOf(k) == Min({j \in DOMAIN log : SameRoute(log[j].parts, log[k].parts)})
LatestOf(hits) == Max({k \in hits : FirstOf(k) = Min({FirstOf(l) : l \in hits})})

LEMMA LatestIs ==
    ASSUME Inv, NEW pieces, DOMAIN pieces = 1 .. Len(pieces), NEW m, Able(pieces, m) # {}
    PROVE  /\ Hits(pieces, m) # {} /\ LatestOf(Hits(pieces, m)) \in DOMAIN log
           /\ log[LatestOf(Hits(pieces, m))].handler = m_routes[Min(Able(pieces, m))].methods[m]
  <1> DEFINE hits == Hits(pieces, m)
             able == Able(pieces, m)
             firsts == {FirstOf(l) : l \in hits}
             last == {k \in hits : FirstOf(k) = Min(firsts)}
  <1>1. able \subseteq DOMAIN m_routes /\ hits \subseteq DOMAIN log /\ \A k \in hits : log[k].method = m
    BY Zenon DEF Able, Hits
  <1>2. DOMAIN m_routes \subseteq Nat /\ DOMAIN log \subseteq Nat /\ DOMAIN log \subseteq 0 .. Len(log) /\ Len(log) \in Nat
    BY Typed
  <1>3. PICK at \in able : at = Min(able) /\ \A i \in able : at <= i
    BY <1>1, <1>2, Least, Zenon
  <1>4. \A i \in DOMAIN m_routes : \A k \in Declared(i) : FirstOf(k) = Min(Declared(i))
    BY FirstIs, Zenon DEF FirstOf
  <1>5. PICK top \in hits : /\ top \in Declared(at) /\ log[top].handler = m_routes[at].methods[m]
                            /\ \A l \in Declared(at) : log[l].method = m => l <= top
    BY HitsAreAble, Zenon
  <1>6. \A k \in hits : \E i \in able : k \in Declared(i)
    BY HitsAreAble, Zenon
  <1> HIDE DEF hits, able
  <1>7. ASSUME NEW k \in hits
        PROVE  /\ FirstOf(k) \in Nat /\ FirstOf(top) <= FirstOf(k)
               /\ FirstOf(k) = FirstOf(top) => k \in Declared(at)
    <2>1. PICK i \in able : k \in Declared(i)
      BY <1>6, Zenon
    <2>2. /\ FirstOf(k) = Min(Declared(i)) /\ FirstOf(top) = Min(Declared(at))
          /\ i \in DOMAIN m_routes /\ at \in DOMAIN m_routes /\ at <= i /\ i \in Nat /\ at \in Nat
      BY <1>1, <1>2, <1>3, <1>4, <1>5, <2>1, Zenon
    <2>3. /\ Min(Declared(i)) \in Nat /\ Min(Declared(at)) \in Nat
          /\ at < i => Min(Declared(at)) < Min(Declared(i))
      BY <2>2, FirstsInOrder, Zenon
    <2>4. CASE at = i
      BY SMTT(40), Z3T(40), <2>1, <2>2, <2>3, <2>4
    <2>5. CASE at < i
      BY SMTT(40), Z3T(40), <2>2, <2>3, <2>5
    <2> QED BY SMTT(40), Z3T(40), <2>2, <2>4, <2>5
  <1>8. Min(firsts) = FirstOf(top)
    <2>1. firsts \subseteq Nat /\ FirstOf(top) \in firsts /\ \A n \in firsts : FirstOf(top) <= n
      BY <1>7, Zenon
    <2> HIDE DEF firsts
    <2> QED BY <2>1, MinIs, Zenon
  <1> HIDE DEF firsts
  <1>9. top \in last /\ last \subseteq 0 .. Len(log) /\ \A k \in last : k <= top
    BY <1>1, <1>2, <1>5, <1>7, <1>8, Zenon
  <1>10. Max(last) = top
    <2> HIDE DEF last
    <2> QED BY <1>2, <1>9, MaxIs, Zenon
  <1>11. LatestOf(hits) = Max(last)
    BY Zenon DEF LatestOf, last, firsts
  <1> QED BY <1>1, <1>3, <1>5, <1>10, <1>11, Zenon DEF hits, able

\* Responsible() is that declaration, or 0 where no route is able to answer.
LEMMA ResponsibleIs ==
    ASSUME Inv, request # <<>>, Ours, DOMAIN Pieces = 1 .. Len(Pieces)
    PROVE  LET able == Able(Pieces, request[1].method)
           IN  IF able = {} THEN Responsible(SameRoute) = 0
               ELSE /\ Responsible(SameRoute) # 0 /\ Responsible(SameRoute) \in DOMAIN log
                    /\ log[Responsible(SameRoute)].handler = m_routes[Min(able)].methods[request[1].method]
  <1> DEFINE m == request[1].method
             hits == Hits(Pieces, m)
             able == Able(Pieces, m)
  <1>1. Responsible(SameRoute) = IF hits = {} THEN 0 ELSE LatestOf(hits)
    BY Zenon DEF Responsible, Hits, LatestOf, FirstOf
  <1>2. (hits = {}) <=> (able = {})
    BY HitsAreAble, Zenon
  <1>3. 0 \notin DOMAIN log
    BY Typed
  <1>4. able # {} => LatestOf(hits) \in DOMAIN log /\ log[LatestOf(hits)].handler = m_routes[Min(able)].methods[m]
    BY LatestIs, Zenon
  <1> HIDE DEF hits, able
  <1>5. CASE able = {}
    BY <1>1, <1>2, <1>5, Zenon DEF able
  <1>6. CASE able # {}
    BY <1>1, <1>2, <1>3, <1>4, <1>6, Zenon DEF able
  <1> QED BY <1>5, <1>6, Zenon

\* The branches of create_handler().
Matching(pieces) == {i \in DOMAIN m_routes : PathMatched(m_routes[i], pieces)}
Answer(c, url, m) ==
    LET able == Able(PiecesOf(url), m)
        matched == Matching(PiecesOf(url))
    IN  IF ~UnderBase(url) THEN c = Nothing
        ELSE IF able # {}
        THEN /\ c.kind \in {"400", "500"} \/ (c.kind = "session" /\ c.session.handler = m_routes[Min(able)].methods[m].name)
             /\ DOMAIN Queries(QueryOf(url)) = {} => c.kind = "session"
        ELSE IF matched # {} THEN c.kind = "405" /\ c.allow = m_routes[Min(matched)].all_methods
        ELSE c = Nothing

LEMMA BoundHandler ==
    ASSUME NEW h, NEW route
    PROVE  make_session(h, route).handler = h.name
  BY Zenon DEF make_session, bind_captures

LEMMA HandlerIs ==
    ASSUME Inv, NEW url, NEW m
    PROVE  Answer(create_handler(m_routes, url, m), url, m)
  <1> DEFINE pieces == PiecesOf(url)
             able == Able(pieces, m)
             matched == Matching(pieces)
             queries == Queries(QueryOf(url))
             bad == {i \in DOMAIN queries : queries[i].status # ""}
             first(status) == \E i \in bad : queries[i].status = status /\ \A j \in bad : i <= j
             status == IF first("400") THEN "400" ELSE "500"
             at == IF able = {} THEN 0 ELSE Min(able)
             session == make_session(m_routes[at].methods[m],
                            [captures |-> Captured(m_routes[at], pieces),
                             queries |-> [i \in DOMAIN queries |-> queries[i].pair],
                             all_but_options_node_methods |-> m_routes[at].all_methods])
             c == create_handler(m_routes, url, m)
  <1>1. c = IF ~UnderBase(url) THEN Nothing
            ELSE IF at # 0
            THEN IF bad # {} THEN Thrown(status) ELSE Session(session)
            ELSE IF matched # {} THEN [Thrown("405") EXCEPT !.allow = m_routes[Min(matched)].all_methods]
            ELSE Nothing
    BY Zenon DEF create_handler, Answering, Able, Matching
  <1>2. able \subseteq DOMAIN m_routes /\ DOMAIN m_routes \subseteq Nat /\ 0 \notin DOMAIN m_routes
    BY Typed DEF Able
  <1>3. able # {} => at \in able /\ at # 0 /\ at = Min(able)
    <2> HIDE DEF able
    <2> QED BY <1>2, Least, Zenon
  <1>4. DOMAIN queries = {} => bad = {}
    OBVIOUS
  <1>5. status \in {"400", "500"} /\ session.handler = m_routes[at].methods[m].name
    <2>1. session.handler = m_routes[at].methods[m].name
      BY BoundHandler, Zenon
    <2> HIDE DEF session
    <2> QED BY <2>1, Zenon
  <1> HIDE DEF c, able, matched, bad, status, session
  <1>6. CASE ~UnderBase(url)
    BY <1>1, <1>6, Zenon DEF Answer, c
  <1>7. CASE UnderBase(url) /\ able # {}
    <2>1. c = IF bad # {} THEN Thrown(status) ELSE Session(session)
      BY <1>1, <1>3, <1>7, Zenon
    <2>2. c.kind \in {"400", "500"} \/ (c.kind = "session" /\ c.session.handler = m_routes[Min(able)].methods[m].name)
      BY <1>3, <1>5, <1>7, <2>1, Zenon DEF Thrown, Session
    <2>3. DOMAIN queries = {} => c.kind = "session"
      BY <1>4, <2>1, Zenon DEF Thrown, Session
    <2> HIDE DEF queries
    <2> QED BY <1>7, <2>2, <2>3, Zenon DEF Answer, c, able, queries
  <1>8. CASE UnderBase(url) /\ able = {} /\ matched # {}
    <2>1. c.kind = "405" /\ c.allow = m_routes[Min(matched)].all_methods
      BY <1>1, <1>8, Zenon DEF Thrown
    <2> QED BY <1>8, <2>1, Zenon DEF Answer, c, able, matched
  <1>9. CASE UnderBase(url) /\ able = {} /\ matched = {}
    <2>1. c = Nothing
      BY <1>1, <1>9, Zenon
    <2> QED BY <1>9, <2>1, Zenon DEF Answer, c, able, matched
  <1> QED BY <1>6, <1>7, <1>8, <1>9, Zenon

LEMMA Asked ==
    ASSUME Inv, request # <<>>
    PROVE  /\ request[1] \in Requests /\ request[1].url \in Seq(STRING)
           /\ Answer(answer, request[1].url, request[1].method)
           /\ Ours => DOMAIN Pieces = 1 .. Len(Pieces)
  <1>1. PICK r \in Requests : request = <<r>>
    BY Zenon DEF Inv, TypeOK
  <1>2. request[1] = r /\ r.url \in Seq(STRING)
    BY <1>1, RouterAssumption, Zenon
  <1>3. answer = create_handler(m_routes, request[1].url, request[1].method)
    BY Zenon DEF Inv
  <1>4. Answer(answer, request[1].url, request[1].method)
    BY <1>3, HandlerIs, Zenon
  <1>5. Ours => DOMAIN Pieces = 1 .. Len(Pieces)
    BY <1>2, PiecesAre, Zenon DEF Ours, Pieces
  <1> QED BY <1>2, <1>4, <1>5, Zenon

LEMMA AnswersAreRight == Inv => AnsweredAsDeclared
  <1> SUFFICES ASSUME Inv, request # <<>>, answer.kind \notin {"400", "500"}
               PROVE  LET at == Responsible(SameRoute)
                      IN  CASE at # 0 -> answer.kind = "session" /\ answer.session.handler = log[at].handler.name
                            [] at = 0 /\ Ours /\ (\E i \in DOMAIN log : PathMatched(log[i], Pieces)) -> answer.kind = "405"
                            [] OTHER -> answer = Nothing
    BY Zenon DEF AnsweredAsDeclared, AnsweredBy
  <1> DEFINE m == request[1].method
             able == Able(Pieces, m)
             matched == Matching(Pieces)
             at == Responsible(SameRoute)
  <1>1. Answer(answer, request[1].url, m) /\ (Ours => DOMAIN Pieces = 1 .. Len(Pieces))
    BY Asked, Zenon
  <1>2. IF ~Ours THEN answer = Nothing
        ELSE IF able # {}
        THEN answer.kind = "session" /\ answer.session.handler = m_routes[Min(able)].methods[m].name
        ELSE IF matched # {} THEN answer.kind = "405" ELSE answer = Nothing
    BY <1>1, Zenon DEF Answer, Ours, Pieces
  <1>3. ~Ours => at = 0
    BY Zenon DEF Responsible
  <1>4. Ours => IF able = {} THEN at = 0 ELSE at # 0 /\ log[at].handler = m_routes[Min(able)].methods[m]
    BY <1>1, ResponsibleIs, Zenon
  <1>5. Ours => ((matched # {}) <=> \E i \in DOMAIN log : PathMatched(log[i], Pieces))
    <2> SUFFICES ASSUME Ours PROVE (matched # {}) <=> \E i \in DOMAIN log : PathMatched(log[i], Pieces)
      OBVIOUS
    <2>1. ASSUME NEW i \in matched PROVE \E k \in DOMAIN log : PathMatched(log[k], Pieces)
      <3>1. i \in DOMAIN m_routes /\ PathMatched(m_routes[i], Pieces)
        BY Zenon DEF Matching
      <3>2. PICK k \in Declared(i) : TRUE
        BY <3>1, Zenon DEF Inv
      <3>3. k \in DOMAIN log /\ PathMatched(log[k], Pieces)
        BY <1>1, <3>1, DeclaredMatch, Zenon DEF Declared
      <3> QED BY <3>3, Zenon
    <2>2. ASSUME NEW k \in DOMAIN log, PathMatched(log[k], Pieces) PROVE \E i \in matched : TRUE
      <3>1. PICK i \in DOMAIN m_routes : k \in Declared(i)
        BY Zenon DEF Inv
      <3>2. PathMatched(m_routes[i], Pieces)
        BY <1>1, <2>2, <3>1, DeclaredMatch, Zenon
      <3> QED BY <3>2, Zenon DEF Matching
    <2> QED BY <2>1, <2>2, Zenon
  <1> HIDE DEF at, able, matched
  <1>6. CASE at # 0
    <2>1. Ours /\ able # {} /\ log[at].handler = m_routes[Min(able)].methods[m]
      BY <1>3, <1>4, <1>6, Zenon
    <2> QED BY <1>2, <1>6, <2>1, Zenon DEF at
  <1>7. CASE at = 0
    BY <1>2, <1>4, <1>5, <1>7, Zenon DEF at
  <1> QED BY <1>6, <1>7, Zenon

\* A request is answered by the handler declared for it: of the routes that
\* match and have the method, the one declared first, with the handler declared
\* last (create_route, set_method_handler and create_handler together); by 405
\* where only the method is missing, and by nothing where no route matches.  It
\* holds as long as no route is declared under two names of a capture.
THEOREM AnsweredByTheDeclared == Spec => []AnsweredAsDeclared
  BY TableIsWhatWasDeclared, AnswersAreRight, PTL

\* A URL is answered as its path is, and the path has no query to refuse.
LEMMA PathAsUrl ==
    ASSUME NEW url \in Seq(STRING)
    PROVE  /\ UnderBase(PathOf(url)) <=> UnderBase(url)
           /\ PiecesOf(PathOf(url)) = PiecesOf(url)
           /\ DOMAIN Queries(QueryOf(PathOf(url))) = {}
  <1>1. PathOf(PathOf(url)) = PathOf(url) /\ QueryOf(PathOf(url)) = <<>>
    BY PathIs, Zenon
  <1>2. /\ UnderBase(PathOf(url)) <=> UnderBase(url)
        /\ PiecesOf(PathOf(url)) = PiecesOf(url)
    BY <1>1, Zenon DEF UnderBase, PiecesOf
  <1>3. <<>> \in Seq(STRING)
    OBVIOUS
  <1>4. DOMAIN splitAll(<<>>, "&") = {}
    BY <1>3, SplitIs, Zenon DEF splitAll, split
  <1>5. DOMAIN Queries(<<>>) = DOMAIN splitAll(<<>>, "&")
    BY Zenon DEF Queries
  <1> QED BY <1>1, <1>2, <1>4, <1>5, Zenon

LEMMA ServedIs ==
    ASSUME Inv, NEW url \in Seq(STRING), UnderBase(url), NEW m
    PROVE  (create_handler(m_routes, PathOf(url), m).kind = "session") <=> (Able(PiecesOf(url), m) # {})
  <1> DEFINE c == create_handler(m_routes, PathOf(url), m)
             able == Able(PiecesOf(url), m)
             matched == Matching(PiecesOf(url))
  <1>1. Answer(c, PathOf(url), m)
    BY HandlerIs, Zenon
  <1> HIDE DEF c
  <1>2. IF able # {} THEN c.kind = "session"
        ELSE IF matched # {} THEN c.kind = "405" ELSE c = Nothing
    BY <1>1, PathAsUrl, Zenon DEF Answer
  <1> HIDE DEF able, matched
  <1>3. Nothing.kind = "nothing"
    BY Zenon DEF Nothing
  <1>4. (c.kind = "session") <=> (able # {})
    BY <1>2, <1>3, Zenon
  <1> QED BY <1>4, Zenon DEF c, able

LEMMA AllowsAreRight == Inv => AllowIsRight
  <1> DEFINE url == request[1].url
             served(m) == create_handler(m_routes, PathOf(url), m).kind = "session"
             matched == Matching(Pieces)
             allow == answer.allow
  <1> SUFFICES ASSUME Inv, answer.kind = "405"
               PROVE  /\ \A m \in Range(allow) : served(m)
                      /\ request[1].method \notin Range(allow)
                      /\ Cardinality(matched) = 1 => {m \in Methods : served(m)} \ {"OPTIONS"} = Range(allow)
    BY Zenon DEF AllowIsRight, Matching, Methods
  <1>1. Nothing.kind = "nothing"
    BY Zenon DEF Nothing
  <1>2. request # <<>>
    BY <1>1, Zenon DEF Inv
  <1>3. Answer(answer, url, request[1].method) /\ url \in Seq(STRING)
    BY <1>2, Asked, Zenon
  <1>4. /\ UnderBase(url) /\ Able(Pieces, request[1].method) = {} /\ matched # {}
        /\ allow = m_routes[Min(matched)].all_methods
    BY <1>1, <1>3, Zenon DEF Answer, Pieces
  <1> HIDE DEF url
  <1>5. \A m : served(m) <=> Able(Pieces, m) # {}
    BY <1>3, <1>4, ServedIs, Zenon DEF Pieces, url
  <1>6. matched \subseteq DOMAIN m_routes /\ DOMAIN m_routes = 1 .. Len(m_routes) /\ Len(m_routes) \in Nat
    BY Typed, Zenon DEF Matching
  <1>7. PICK top \in matched : top = Min(matched)
    <2>1. matched \subseteq Nat
      BY <1>6
    <2> QED BY <1>4, <2>1, Least, Zenon
  <1> DEFINE methods == DOMAIN m_routes[top].methods
  <1>8. top \in DOMAIN m_routes /\ PathMatched(m_routes[top], Pieces)
    BY <1>7, Zenon DEF Matching
  <1>9. Range(allow) = methods \ {"OPTIONS"} /\ methods \subseteq Methods
    <2>1. Range(allow) = methods \ {"OPTIONS"}
      BY <1>4, <1>7, <1>8, Zenon DEF Inv, TableWellFormed
    <2>2. m_routes \in Seq(Table)
      BY Zenon DEF Inv, TypeOK, Table
    <2>3. m_routes[top] \in Table
      BY <1>8, <2>2, SeqIs, Zenon
    <2>4. methods \subseteq Methods
      BY <2>3, Zenon DEF Table
    <2> QED BY <2>1, <2>4, Zenon
  <1>10. \A m \in methods : top \in Able(Pieces, m)
    BY <1>8, Zenon DEF Able
  <1>11. (\A m \in Range(allow) : served(m)) /\ request[1].method \notin Range(allow)
    <2> HIDE DEF served, allow, methods
    <2> QED BY <1>4, <1>5, <1>9, <1>10, Zenon
  <1>12. ASSUME Cardinality(matched) = 1 PROVE {m \in Methods : served(m)} \ {"OPTIONS"} = Range(allow)
    <2>1. IsFiniteSet(matched)
      <3>1. IsFiniteSet(1 .. Len(m_routes))
        BY SMTT(40), Z3T(40), <1>6, FS_Interval
      <3> HIDE DEF matched
      <3> QED BY <1>6, <3>1, FS_Subset, Zenon
    <2>2. matched = {top}
      <3> HIDE DEF matched
      <3>1. PICK x : matched = {x}
        BY <1>12, <2>1, FS_Singleton, Zenon
      <3> QED BY <1>7, <3>1, Zenon
    <2>3. \A m : Able(Pieces, m) # {} => m \in methods
      <3>1. \A m : Able(Pieces, m) \subseteq matched
        BY Zenon DEF Able, Matching
      <3> QED BY <2>2, <3>1, Zenon DEF Able
    <2> HIDE DEF served, allow, methods
    <2>4. \A m \in Methods : served(m) <=> m \in methods
      BY <1>5, <1>10, <2>3, Zenon
    <2> QED BY <1>9, <2>4, Zenon
  <1> QED BY <1>11, <1>12, Zenon

\* The Allow of a 405 is true: method_not_allowed_error carries the methods of
\* the first route that matches, each of which create_handler() would have
\* served on this URL; where only that route matches, it carries them all but
\* OPTIONS.
THEOREM AllowTellsTheMethods == Spec => []AllowIsRight
  BY TableIsWhatWasDeclared, AllowsAreRight, PTL
=============================================================================
