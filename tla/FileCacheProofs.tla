--------------------------- MODULE FileCacheProofs --------------------------
(***************************************************************************)
(* The operations of lru_cache keep it a cache, whatever its size, its     *)
(* keys and its values, and invent no entries.  With them, the static      *)
(* content plugin never serves a version that is older than the one it     *)
(* looked at, nor a body of another length than it announced, never writes *)
(* with its lock held, and evicts what was used longest ago: for any       *)
(* number of sessions, loops, files and versions, and any size of the      *)
(* cache.                                                                  *)
(***************************************************************************)
EXTENDS FileCache, FiniteSetTheorems, TLAPS

KeysOf(items) == {items[i].key : i \in DOMAIN items}
Distinct(items) == \A i, j \in DOMAIN items : items[i].key = items[j].key => i = j
Within(items, old) == \A i \in DOMAIN items : \E j \in DOMAIN old : items[i] = old[j]

-----------------------------------------------------------------------------
(* std::list *)

LEMMA FunctionIsSeq ==
    ASSUME NEW E, NEW n \in Nat, NEW f \in [1 .. n -> E]
    PROVE  f \in Seq(E) /\ Len(f) = n /\ DOMAIN f = 1 .. n
  OBVIOUS

LEMMA SeqIsFunction ==
    ASSUME NEW E, NEW q \in Seq(E)
    PROVE  Len(q) \in Nat /\ DOMAIN q = 1 .. Len(q) /\ \A i \in 1 .. Len(q) : q[i] \in E
  OBVIOUS

LEMMA EraseAtIs ==
    ASSUME NEW E, NEW q \in Seq(E), NEW at \in 1 .. Len(q)
    PROVE  /\ EraseAt(q, at) \in Seq(E)
           /\ DOMAIN EraseAt(q, at) = 1 .. Len(q) - 1 /\ Len(EraseAt(q, at)) = Len(q) - 1
           /\ \A i \in 1 .. Len(q) - 1 : EraseAt(q, at)[i] = IF i < at THEN q[i] ELSE q[i + 1]
  <1>1. Len(q) \in Nat /\ Len(q) - 1 \in Nat /\ \A i \in 1 .. Len(q) : q[i] \in E
    BY SeqIsFunction
  <1>2. \A i \in 1 .. Len(q) - 1 : i \in 1 .. Len(q) /\ i + 1 \in 1 .. Len(q)
    BY <1>1
  <1>3. EraseAt(q, at) \in [1 .. Len(q) - 1 -> E]
    BY <1>1, <1>2 DEF EraseAt
  <1>4. \A i \in 1 .. Len(q) - 1 : EraseAt(q, at)[i] = IF i < at THEN q[i] ELSE q[i + 1]
    BY DEF EraseAt
  <1> QED BY <1>1, <1>3, <1>4, FunctionIsSeq, Zenon

LEMMA PushFrontIs ==
    ASSUME NEW E, NEW q \in Seq(E), NEW e \in E
    PROVE  /\ PushFront(q, e) \in Seq(E)
           /\ DOMAIN PushFront(q, e) = 1 .. Len(q) + 1 /\ Len(PushFront(q, e)) = Len(q) + 1
           /\ PushFront(q, e)[1] = e
           /\ \A i \in 1 .. Len(q) : PushFront(q, e)[i + 1] = q[i]
  <1>1. Len(q) \in Nat /\ Len(q) + 1 \in Nat /\ \A i \in 1 .. Len(q) : q[i] \in E
    BY SeqIsFunction
  <1>2. \A i \in 1 .. Len(q) + 1 : i # 1 => i - 1 \in 1 .. Len(q)
    BY <1>1
  <1>3. PushFront(q, e) \in [1 .. Len(q) + 1 -> E]
    BY <1>1, <1>2 DEF PushFront
  <1>4. \A i \in 1 .. Len(q) : i + 1 \in 1 .. Len(q) + 1 /\ i + 1 # 1 /\ (i + 1) - 1 = i
    BY <1>1
  <1>5. 1 \in 1 .. Len(q) + 1
    BY <1>1
  <1>6. PushFront(q, e)[1] = e /\ \A i \in 1 .. Len(q) : PushFront(q, e)[i + 1] = q[i]
    BY <1>4, <1>5 DEF PushFront
  <1> QED BY <1>1, <1>3, <1>6, FunctionIsSeq

LEMMA EraseKeys ==
    ASSUME NEW E, NEW q \in Seq(E), NEW at \in 1 .. Len(q), Distinct(q)
    PROVE  /\ Distinct(EraseAt(q, at))
           /\ KeysOf(EraseAt(q, at)) = KeysOf(q) \ {q[at].key}
           /\ Within(EraseAt(q, at), q)
  <1> DEFINE r == EraseAt(q, at)
             from(i) == IF i < at THEN i ELSE i + 1
  <1>1. Len(q) \in Nat /\ DOMAIN q = 1 .. Len(q) /\ DOMAIN r = 1 .. Len(q) - 1
    BY SeqIsFunction, EraseAtIs
  <1>2. \A i \in DOMAIN r : from(i) \in DOMAIN q /\ from(i) # at /\ r[i] = q[from(i)]
    <2>1. \A i \in 1 .. Len(q) - 1 : r[i] = IF i < at THEN q[i] ELSE q[i + 1]
      BY EraseAtIs, Zenon
    <2> HIDE DEF r
    <2> QED BY <1>1, <2>1
  <1>3. \A i, j \in DOMAIN r : from(i) = from(j) => i = j
    BY <1>1
  <1>4. \A k \in DOMAIN q \ {at} : \E i \in DOMAIN r : from(i) = k
    <2> SUFFICES ASSUME NEW k \in DOMAIN q \ {at} PROVE \E i \in DOMAIN r : from(i) = k
      OBVIOUS
    <2>1. CASE k < at
      <3>1. k \in DOMAIN r
        BY <1>1, <2>1
      <3> QED BY <2>1, <3>1
    <2>2. CASE ~(k < at)
      <3>1. k - 1 \in DOMAIN r /\ ~(k - 1 < at) /\ (k - 1) + 1 = k
        BY <1>1, <2>2
      <3>2. from(k - 1) = k
        BY <3>1
      <3> HIDE DEF from
      <3> QED BY <3>1, <3>2
    <2> QED BY <2>1, <2>2, Zenon
  <1> HIDE DEF r, from
  <1>5. Distinct(r)
    BY <1>2, <1>3 DEF Distinct
  <1>6. KeysOf(r) = KeysOf(q) \ {q[at].key}
    <2>1. at \in DOMAIN q
      BY <1>1
    <2>2. ASSUME NEW i \in DOMAIN r PROVE r[i].key \in KeysOf(q) \ {q[at].key}
      BY <1>2, <2>1 DEF KeysOf, Distinct
    <2>3. ASSUME NEW k \in DOMAIN q, q[k].key # q[at].key PROVE q[k].key \in KeysOf(r)
      <3>1. k # at
        BY <2>3
      <3>2. PICK i \in DOMAIN r : from(i) = k
        BY <1>4, <3>1
      <3> QED BY <1>2, <3>2 DEF KeysOf
    <2> QED BY <2>2, <2>3 DEF KeysOf
  <1>7. Within(r, q)
    BY <1>2 DEF Within
  <1> QED BY <1>5, <1>6, <1>7 DEF r

LEMMA PushKeys ==
    ASSUME NEW E, NEW q \in Seq(E), NEW e \in E, Distinct(q), e.key \notin KeysOf(q)
    PROVE  /\ Distinct(PushFront(q, e))
           /\ KeysOf(PushFront(q, e)) = KeysOf(q) \cup {e.key}
           /\ \A i \in DOMAIN PushFront(q, e) : PushFront(q, e)[i] = e \/ \E j \in DOMAIN q : PushFront(q, e)[i] = q[j]
  <1> DEFINE r == PushFront(q, e)
  <1>1. Len(q) \in Nat /\ DOMAIN q = 1 .. Len(q) /\ DOMAIN r = 1 .. Len(q) + 1
    BY SeqIsFunction, PushFrontIs
  <1>2. r[1] = e /\ \A i \in 1 .. Len(q) : r[i + 1] = q[i]
    BY PushFrontIs
  <1> HIDE DEF r
  <1>3. 1 \in DOMAIN r /\ \A i \in DOMAIN q : i + 1 \in DOMAIN r
    BY <1>1
  <1>4. ASSUME NEW i \in DOMAIN r PROVE i = 1 \/ (i - 1 \in DOMAIN q /\ r[i] = q[i - 1])
    <2>1. i # 1 => i - 1 \in 1 .. Len(q) /\ (i - 1) + 1 = i
      BY <1>1
    <2>2. i # 1 => r[(i - 1) + 1] = q[i - 1]
      BY <1>2, <2>1, Zenon
    <2>3. i # 1 => r[i] = q[i - 1]
      BY <2>1, <2>2, Zenon
    <2>4. i # 1 => i - 1 \in DOMAIN q
      BY <1>1, <2>1
    <2> QED BY <2>3, <2>4, Zenon
  <1>5. \A i \in DOMAIN q : q[i].key \in KeysOf(q)
    BY DEF KeysOf
  <1>6. Distinct(r)
    <2> SUFFICES ASSUME NEW i \in DOMAIN r, NEW j \in DOMAIN r, r[i].key = r[j].key PROVE i = j
      BY DEF Distinct
    <2>1. CASE i # 1 /\ j # 1
      <3>1. i - 1 \in DOMAIN q /\ j - 1 \in DOMAIN q /\ q[i - 1].key = q[j - 1].key
        BY <1>4, <2>1
      <3>2. i - 1 = j - 1
        BY <3>1 DEF Distinct
      <3> QED BY <1>1, <3>2
    <2>2. CASE i = 1 \/ j = 1
      BY <1>2, <1>4, <1>5, <2>2
    <2> QED BY <2>1, <2>2, Zenon
  <1>7. KeysOf(r) = KeysOf(q) \cup {e.key}
    <2>1. \A i \in DOMAIN r : r[i].key \in KeysOf(q) \cup {e.key}
      BY <1>2, <1>4, <1>5
    <2>2. \A i \in DOMAIN q : q[i].key = r[i + 1].key
      BY <1>1, <1>2
    <2>3. KeysOf(q) \subseteq KeysOf(r) /\ e.key \in KeysOf(r)
      BY <1>2, <1>3, <2>2 DEF KeysOf
    <2>4. KeysOf(r) \subseteq KeysOf(q) \cup {e.key}
      <3>1. ASSUME NEW k \in KeysOf(r) PROVE k \in KeysOf(q) \cup {e.key}
        BY <2>1, Zenon DEF KeysOf
      <3> QED BY <3>1
    <2> QED BY <2>3, <2>4
  <1>8. \A i \in DOMAIN r : r[i] = e \/ \E j \in DOMAIN q : r[i] = q[j]
    BY <1>2, <1>4
  <1> QED BY <1>6, <1>7, <1>8 DEF r
-----------------------------------------------------------------------------
(* lru_cache *)

With(c, i, h) == [c EXCEPT !.items = i, !.hash = h]

LEMMA WithIs ==
    ASSUME NEW K, NEW V, NEW c, IsCache(c, K, V), NEW i, NEW h
    PROVE  With(c, i, h) = [items |-> i, hash |-> h, size |-> c.size]
  <1> DEFINE d == [c EXCEPT !.items = i, !.hash = h]
             e == [items |-> i, hash |-> h, size |-> c.size]
  <1>1. DOMAIN c = {"items", "hash", "size"}
    BY DEF IsCache
  <1>2. DOMAIN d = {"items", "hash", "size"} /\ d.items = i /\ d.hash = h /\ d.size = c.size
    BY <1>1
  <1>3. d = [x \in {"items", "hash", "size"} |-> d[x]]
    BY <1>1, Zenon
  <1>4. e = [x \in {"items", "hash", "size"} |-> e[x]]
    OBVIOUS
  <1>5. e.items = i /\ e.hash = h /\ e.size = c.size
    OBVIOUS
  <1> HIDE DEF d, e
  <1>6. \A x \in {"items", "hash", "size"} : d[x] = e[x]
    BY <1>2, <1>5
  <1>7. d = e
    BY <1>3, <1>4, <1>6
  <1> QED BY <1>7, Zenon DEF d, e, With

LEMMA WellFormedIs ==
    ASSUME NEW items, NEW hash, NEW max
    PROVE  WellFormed([items |-> items, hash |-> hash, size |-> max])
             <=> Distinct(items) /\ hash = KeysOf(items) /\ Len(items) <= max
  BY DEF WellFormed, Distinct, KeysOf

LEMMA Counted ==
    ASSUME NEW E, NEW q \in Seq(E), Distinct(q) PROVE Cardinality(KeysOf(q)) = Len(q)
  <1>1. Len(q) \in Nat /\ DOMAIN q = 1 .. Len(q)
    BY SeqIsFunction
  <1> DEFINE f == [i \in 1 .. Len(q) |-> q[i].key]
  <1>2. f \in Bijection(1 .. Len(q), KeysOf(q))
    BY <1>1 DEF Bijection, Injection, Surjection, IsInjective, Distinct, KeysOf
  <1>3. ExistsBijection(1 .. Len(q), KeysOf(q))
    BY <1>2 DEF ExistsBijection
  <1> QED BY <1>1, <1>3, FS_CountingElements

LEMMA CleanIsWellFormed ==
    ASSUME NEW K, NEW V, NEW c, IsCache(c, K, V), Distinct(c.items), c.hash = KeysOf(c.items)
    PROVE  /\ IsCache(clean_cache(c), K, V) /\ WellFormed(clean_cache(c))
           /\ Within(clean_cache(c).items, c.items) /\ clean_cache(c).size = c.size
  <1> DEFINE E == [key : K, value : V]
             q == c.items
  <1>1. /\ q \in Seq(E) /\ c.size \in Nat
        /\ c = [items |-> c.items, hash |-> c.hash, size |-> c.size] /\ c.hash \in SUBSET K
    BY DEF IsCache
  <1>2. Len(q) \in Nat /\ DOMAIN q = 1 .. Len(q) /\ \A i \in 1 .. Len(q) : q[i] \in E
    <2> HIDE DEF E, q
    <2> QED BY <1>1, SeqIsFunction
  <1>3. Cardinality(c.hash) = Len(q)
    <2> HIDE DEF E
    <2> QED BY <1>1, Counted
  <1>4. CASE Cardinality(c.hash) <= c.size
    BY <1>3, <1>4 DEF clean_cache, WellFormed, Within, Distinct, KeysOf
  <1>5. CASE ~(Cardinality(c.hash) <= c.size)
    <2> DEFINE r == [i \in 1 .. c.size |-> q[i]]
               h == {q[i].key : i \in 1 .. c.size}
    <2>1. \A i \in 1 .. c.size : i \in 1 .. Len(q)
      BY <1>1, <1>2, <1>3, <1>5
    <2>2. r \in [1 .. c.size -> E]
      <3> HIDE DEF E, q
      <3> QED BY <1>2, <2>1
    <2>3. r \in Seq(E) /\ Len(r) = c.size /\ DOMAIN r = 1 .. c.size
      <3> HIDE DEF E, r
      <3> QED BY <1>1, <2>2, FunctionIsSeq
    <2>4. \A i \in 1 .. c.size : r[i] = q[i]
      OBVIOUS
    <2>5. h \subseteq K
      BY <1>2, <2>1
    <2>6. clean_cache(c) = [items |-> r, hash |-> h, size |-> c.size]
      BY <1>1, <1>5, Zenon DEF clean_cache
    <2>7. Within(r, q)
      <3> HIDE DEF r
      <3> QED BY <1>2, <2>1, <2>3, <2>4, ZenonT(30) DEF Within
    <2>8. Distinct(r)
      <3> HIDE DEF r
      <3> QED BY <1>2, <2>1, <2>3, <2>4 DEF Distinct
    <2>9. h = KeysOf(r)
      <3> HIDE DEF r
      <3> QED BY <2>3, <2>4 DEF KeysOf
    <2> HIDE DEF r, h
    <2>10. IsCache(clean_cache(c), K, V)
      BY SMTT(40), Z3T(40), <1>1, <2>3, <2>5, <2>6 DEF IsCache
    <2>11. WellFormed(clean_cache(c))
      <3>1. Len(r) <= c.size
        BY <1>1, <2>3
      <3> QED BY <2>6, <2>8, <2>9, <3>1 DEF WellFormed, Distinct, KeysOf
    <2> QED BY <2>6, <2>7, <2>10, <2>11
  <1> QED BY <1>4, <1>5

LEMMA PositionIs ==
    ASSUME NEW c, WellFormed(c), NEW key, exists(c, key)
    PROVE  Position(c, key) \in DOMAIN c.items /\ c.items[Position(c, key)].key = key
  <1>1. \E i \in DOMAIN c.items : c.items[i].key = key
    BY DEF WellFormed, exists
  <1> QED BY <1>1 DEF Position

\* put() keeps a cache a cache: at most m_cache_size entries, each with its
\* place in the list and in the hash; nothing but the new entry is added.
THEOREM PutKeepsCache ==
    ASSUME NEW K, NEW V, NEW c, IsCache(c, K, V), WellFormed(c), NEW key \in K, NEW val \in V
    PROVE  /\ IsCache(put(c, key, val), K, V) /\ WellFormed(put(c, key, val))
           /\ \A i \in DOMAIN put(c, key, val).items :
                 \/ put(c, key, val).items[i] = Item(key, val)
                 \/ \E j \in DOMAIN c.items : put(c, key, val).items[i] = c.items[j]
  <1> DEFINE E == [key : K, value : V]
             q == c.items
             r == IF exists(c, key) THEN EraseAt(q, Position(c, key)) ELSE q
             d == [items |-> PushFront(r, Item(key, val)), hash |-> c.hash \cup {key}, size |-> c.size]
  <1>1. /\ q \in Seq(E) /\ c.size \in Nat /\ c.hash \in SUBSET K
        /\ c = [items |-> q, hash |-> c.hash, size |-> c.size]
    BY DEF IsCache
  <1>2. Distinct(q) /\ c.hash = KeysOf(q) /\ DOMAIN q = 1 .. Len(q)
    <2> HIDE DEF E
    <2> QED BY <1>1, SeqIsFunction DEF WellFormed, Distinct, KeysOf
  <1>3. Item(key, val) \in E /\ Item(key, val).key = key
    BY DEF Item
  <1>4. r \in Seq(E) /\ Distinct(r) /\ KeysOf(r) = KeysOf(q) \ {key} /\ Within(r, q)
    <2>1. CASE exists(c, key)
      <3>1. Position(c, key) \in 1 .. Len(q) /\ q[Position(c, key)].key = key
        BY <1>2, <2>1, PositionIs, Zenon
      <3> HIDE DEF E
      <3> QED BY <1>1, <1>2, <2>1, <3>1, EraseAtIs, EraseKeys
    <2>2. CASE ~exists(c, key)
      BY <1>1, <1>2, <2>2 DEF exists, Within
    <2> QED BY <2>1, <2>2, Zenon
  <1>5. /\ PushFront(r, Item(key, val)) \in Seq(E)
        /\ Distinct(PushFront(r, Item(key, val)))
        /\ KeysOf(PushFront(r, Item(key, val))) = KeysOf(r) \cup {key}
        /\ \A i \in DOMAIN PushFront(r, Item(key, val)) :
              PushFront(r, Item(key, val))[i] = Item(key, val)
              \/ \E j \in DOMAIN r : PushFront(r, Item(key, val))[i] = r[j]
    <2> DEFINE e == Item(key, val)
    <2>1. e.key \notin KeysOf(r) /\ e.key = key /\ e \in E
      BY <1>3, <1>4, Zenon
    <2> HIDE DEF E, r, e
    <2>2. PushFront(r, e) \in Seq(E)
      BY <1>4, <2>1, PushFrontIs, Zenon
    <2>3. /\ Distinct(PushFront(r, e)) /\ KeysOf(PushFront(r, e)) = KeysOf(r) \cup {e.key}
          /\ \A i \in DOMAIN PushFront(r, e) :
                PushFront(r, e)[i] = e \/ \E j \in DOMAIN r : PushFront(r, e)[i] = r[j]
      BY <1>4, <2>1, PushKeys
    <2> QED BY <2>1, <2>2, <2>3, Zenon DEF e
  <1>6. put(c, key, val) = clean_cache(d)
    <2>1. put(c, key, val) = clean_cache(With(c, PushFront(r, Item(key, val)), c.hash \cup {key}))
      BY Zenon DEF put, With
    <2>2. With(c, PushFront(r, Item(key, val)), c.hash \cup {key}) = d
      <3> HIDE DEF r
      <3> QED BY WithIs, Zenon
    <2> QED BY <2>1, <2>2, Zenon
  <1>7. IsCache(d, K, V) /\ Distinct(d.items) /\ d.hash = KeysOf(d.items)
    <2> HIDE DEF r
    <2> QED BY <1>1, <1>2, <1>4, <1>5 DEF IsCache
  <1>8. /\ IsCache(clean_cache(d), K, V) /\ WellFormed(clean_cache(d)) /\ Within(clean_cache(d).items, d.items)
    <2> HIDE DEF d
    <2> QED BY <1>7, CleanIsWellFormed, Zenon
  <1>9. ASSUME NEW i \in DOMAIN clean_cache(d).items
        PROVE  \/ clean_cache(d).items[i] = Item(key, val)
               \/ \E j \in DOMAIN c.items : clean_cache(d).items[i] = c.items[j]
    <2>1. PICK k \in DOMAIN d.items : clean_cache(d).items[i] = d.items[k]
      BY <1>8, <1>9, Zenon DEF Within
    <2>2. d.items = PushFront(r, Item(key, val))
      OBVIOUS
    <2> HIDE DEF d, r
    <2> QED BY <1>4, <1>5, <2>1, <2>2 DEF Within
  <1> HIDE DEF d
  <1> QED BY <1>6, <1>8, <1>9

\* A lookup moves an entry of the cache to the front, and changes nothing else.
THEOREM ValueKeepsCache ==
    ASSUME NEW K, NEW V, NEW c, IsCache(c, K, V), WellFormed(c), NEW key \in K
    PROVE  /\ IsCache(value(c, key), K, V) /\ WellFormed(value(c, key))
           /\ Within(value(c, key).items, c.items)
           /\ value(c, key).hash = c.hash
  <1> DEFINE E == [key : K, value : V]
             q == c.items
             at == Position(c, key)
             d == [items |-> PushFront(EraseAt(q, at), q[at]), hash |-> c.hash, size |-> c.size]
  <1>1. /\ q \in Seq(E) /\ c.size \in Nat /\ c.hash \in SUBSET K
        /\ c = [items |-> q, hash |-> c.hash, size |-> c.size]
    BY DEF IsCache
  <1>2. Distinct(q) /\ c.hash = KeysOf(q) /\ DOMAIN q = 1 .. Len(q) /\ Len(q) \in Nat /\ Len(q) <= c.size
    <2> HIDE DEF E
    <2> QED BY <1>1, SeqIsFunction DEF WellFormed, Distinct, KeysOf
  <1>3. CASE ~exists(c, key)
    BY <1>3, Zenon DEF value, Within
  <1>4. CASE exists(c, key)
    <2>1. at \in 1 .. Len(q) /\ q[at].key = key
      BY <1>2, <1>4, PositionIs, Zenon
    <2>2. q[at] \in E
      <3> HIDE DEF E
      <3> QED BY <1>1, <2>1, SeqIsFunction
    <2> DEFINE r == EraseAt(q, at)
    <2> HIDE DEF E, at
    <2>3. /\ r \in Seq(E) /\ Len(r) = Len(q) - 1 /\ Distinct(r) /\ Within(r, q)
          /\ KeysOf(r) = KeysOf(q) \ {q[at].key}
      BY <1>1, <1>2, <2>1, EraseAtIs, EraseKeys, Zenon
    <2> HIDE DEF r
    <2>4. /\ PushFront(r, q[at]) \in Seq(E) /\ Len(PushFront(r, q[at])) = Len(r) + 1
          /\ Distinct(PushFront(r, q[at])) /\ KeysOf(PushFront(r, q[at])) = KeysOf(r) \cup {q[at].key}
          /\ \A i \in DOMAIN PushFront(r, q[at]) :
                PushFront(r, q[at])[i] = q[at] \/ \E j \in DOMAIN r : PushFront(r, q[at])[i] = r[j]
      <3> DEFINE e == q[at]
      <3>1. e \in E /\ e.key \notin KeysOf(r) /\ r \in Seq(E) /\ Distinct(r)
        BY <2>2, <2>3
      <3> HIDE DEF e
      <3>2. PushFront(r, e) \in Seq(E) /\ Len(PushFront(r, e)) = Len(r) + 1
        BY <3>1, PushFrontIs
      <3>3. /\ Distinct(PushFront(r, e)) /\ KeysOf(PushFront(r, e)) = KeysOf(r) \cup {e.key}
            /\ \A i \in DOMAIN PushFront(r, e) :
                  PushFront(r, e)[i] = e \/ \E j \in DOMAIN r : PushFront(r, e)[i] = r[j]
        BY <3>1, PushKeys
      <3> QED BY <3>2, <3>3, Zenon DEF e
    <2>5. value(c, key) = d
      BY <1>1, <1>4, Zenon DEF value, Use, at
    <2>6. Len(PushFront(r, q[at])) <= c.size
      BY SMTT(40), Z3T(40), <1>1, <1>2, <2>3, <2>4
    <2>7. KeysOf(PushFront(r, q[at])) = c.hash
      <3>1. q[at].key \in KeysOf(q)
        BY <1>2, <2>1 DEF KeysOf
      <3> QED BY <1>2, <2>3, <2>4, <3>1
    <2>8. Within(PushFront(r, q[at]), q)
      BY <1>2, <2>1, <2>3, <2>4, ZenonT(30) DEF Within
    <2>9. d = [items |-> PushFront(r, q[at]), hash |-> c.hash, size |-> c.size]
      BY DEF r
    <2>10. IsCache(d, K, V)
      BY <1>1, <2>4, <2>9 DEF IsCache, E
    <2>11. WellFormed(d)
      BY <2>4, <2>6, <2>7, <2>9, WellFormedIs, Zenon
    <2> QED BY <2>5, <2>8, <2>9, <2>10, <2>11
  <1> QED BY <1>3, <1>4, Zenon

\* Erasing an entry through its iterator, as the timer of the static content
\* plugin does, keeps the list and the hash together.
THEOREM EraseKeepsCache ==
    ASSUME NEW K, NEW V, NEW c, IsCache(c, K, V), WellFormed(c), NEW at \in 1 .. Len(c.items)
    PROVE  /\ IsCache(erase(c, at), K, V) /\ WellFormed(erase(c, at))
           /\ Within(erase(c, at).items, c.items)
  <1> DEFINE E == [key : K, value : V]
             q == c.items
             d == [items |-> EraseAt(q, at), hash |-> c.hash \ {q[at].key}, size |-> c.size]
  <1>1. /\ q \in Seq(E) /\ c.size \in Nat /\ c.hash \in SUBSET K
        /\ c = [items |-> q, hash |-> c.hash, size |-> c.size]
    BY DEF IsCache
  <1>2. Distinct(q) /\ c.hash = KeysOf(q) /\ Len(q) \in Nat /\ Len(q) <= c.size
    <2> HIDE DEF E
    <2> QED BY <1>1, SeqIsFunction DEF WellFormed, Distinct, KeysOf
  <1>3. /\ EraseAt(q, at) \in Seq(E) /\ Len(EraseAt(q, at)) = Len(q) - 1 /\ Distinct(EraseAt(q, at))
        /\ Within(EraseAt(q, at), q) /\ KeysOf(EraseAt(q, at)) = KeysOf(q) \ {q[at].key}
    <2> HIDE DEF E
    <2> QED BY <1>1, <1>2, EraseAtIs, EraseKeys
  <1>4. erase(c, at) = d
    <2>1. erase(c, at) = With(c, EraseAt(q, at), c.hash \ {q[at].key})
      BY Zenon DEF erase, With
    <2>2. With(c, EraseAt(q, at), c.hash \ {q[at].key}) = d
      BY WithIs, Zenon
    <2> QED BY <2>1, <2>2, Zenon
  <1>5. IsCache(d, K, V)
    BY <1>1, <1>3 DEF IsCache
  <1>6. WellFormed(d)
    <2>1. Len(EraseAt(q, at)) <= c.size
      BY <1>1, <1>2, <1>3
    <2>2. c.hash \ {q[at].key} = KeysOf(EraseAt(q, at))
      BY <1>2, <1>3
    <2> QED BY <1>3, <2>1, <2>2, WellFormedIs, Zenon
  <1> QED BY <1>3, <1>4, <1>5, <1>6

\* set_cache_size() evicts what no longer has room.
THEOREM ResizeKeepsCache ==
    ASSUME NEW K, NEW V, NEW c, IsCache(c, K, V), WellFormed(c), NEW n \in Nat
    PROVE  /\ IsCache(cache_size(c, n), K, V) /\ WellFormed(cache_size(c, n))
           /\ Within(cache_size(c, n).items, c.items) /\ cache_size(c, n).size = n
  <1> DEFINE d == [items |-> c.items, hash |-> c.hash, size |-> n]
  <1>1. c = [items |-> c.items, hash |-> c.hash, size |-> c.size]
    BY DEF IsCache
  <1>2. cache_size(c, n) = clean_cache(d)
    BY SMTT(40), Z3T(40), <1>1 DEF cache_size
  <1>3. IsCache(d, K, V) /\ Distinct(d.items) /\ d.hash = KeysOf(d.items)
    BY DEF IsCache, WellFormed, Distinct, KeysOf
  <1>4. d.items = c.items /\ d.size = n
    OBVIOUS
  <1> HIDE DEF d
  <1> QED BY <1>2, <1>3, <1>4, CleanIsWellFormed

-----------------------------------------------------------------------------
(* The static content plugin *)

\* Only the versions that a file gets change what is on the disk.
LEMMA StillMapped ==
    ASSUME NEW q \in Seq(Sizes), NEW r \in Seq(Sizes), Len(q) <= Len(r), \A i \in 1 .. Len(q) : r[i] = q[i]
    PROVE  /\ \A n \in Nat : EmptyBy(q, n) => EmptyBy(r, n)
           /\ \A m \in Maps : MapOf(q, m) => MapOf(r, m)
  <1>0. Len(q) \in Nat /\ Len(r) \in Nat
    OBVIOUS
  <1>1. \A n \in Nat : EmptyBy(q, n) => EmptyBy(r, n)
    <2>1. \A v \in 1 .. Len(q) : v \in 1 .. Len(r)
      BY <1>0
    <2> QED BY <2>1 DEF EmptyBy
  <1>2. ASSUME NEW m \in Maps, MapOf(q, m) PROVE MapOf(r, m)
    <2>1. m.version \in Nat /\ m.time \in Nat
      BY DEF Maps
    <2>2. CASE m.version # 0
      <3>1. m.version \in m.time .. Len(q) /\ m.size = q[m.version]
        BY <1>2, <2>2 DEF MapOf
      <3>2. m.version \in 1 .. Len(q) /\ m.version \in m.time .. Len(r)
        BY <1>0, <2>1, <2>2, <3>1
      <3> QED BY <2>2, <3>1, <3>2 DEF MapOf
    <2>3. CASE m.version = 0
      BY <1>1, <1>2, <2>1, <2>3 DEF MapOf
    <2> QED BY <2>2, <2>3
  <1> QED BY <1>1, <1>2

LEMMA InitInv == ASSUME Init PROVE Inv
  <1>1. PICK load \in Loads :
          /\ disk = load.disk /\ loop = load.loop /\ target = load.target /\ cache = Empty(load.room)
          /\ pc = [s \in Sessions |-> IF s \in load.asking THEN "idle" ELSE "done"]
    BY DEF Init
  <1>2. /\ load.disk \in [Paths -> [present : BOOLEAN, sizes : Seq(Sizes)]]
        /\ load.loop \in [Sessions -> Loops]
        /\ load.target \in [Sessions -> [inside : BOOLEAN, path : Paths, head : BOOLEAN]]
        /\ load.room \in Nat
        /\ \A p \in Paths : load.disk[p].present => load.disk[p].sizes # <<>>
    BY FileCacheAssumption, Zenon
  <1>3. IsCache(cache, Paths, Maps) /\ WellFormed(cache) /\ cache.items = <<>>
    BY SMTT(40), Z3T(40), <1>1, <1>2 DEF Empty, IsCache, WellFormed
  <1>4. TypeOK
    BY SMTT(40), Z3T(40), <1>1, <1>2, <1>3 DEF Init, TypeOK
  <1>5. CacheInv /\ LockNotHeldAcrossYield
    BY SMTT(40), Z3T(40), <1>3, FileCacheAssumption DEF Init, CacheInv, LockNotHeldAcrossYield
  <1>6. ASSUME NEW s \in Sessions PROVE SessionInv(s)
    BY <1>1 DEF Init, SessionInv
  <1> QED BY <1>4, <1>5, <1>6, Zenon DEF Inv

Grown(q, r) == Len(q) <= Len(r) /\ \A i \in 1 .. Len(q) : r[i] = q[i]

LEMMA SameIsGrown == ASSUME NEW S, NEW q \in Seq(S) PROVE Grown(q, q)
  BY DEF Grown

LEMMA AppendIsGrown ==
    ASSUME NEW S, NEW q \in Seq(S), NEW n \in S
    PROVE  Grown(q, Append(q, n)) /\ Append(q, n) \in Seq(S) /\ Append(q, n) # <<>>
  <1>1. Append(q, n) \in Seq(S) /\ Len(Append(q, n)) = Len(q) + 1 /\ Len(q) \in Nat
    OBVIOUS
  <1>2. \A i \in 1 .. Len(q) : Append(q, n)[i] = q[i]
    OBVIOUS
  <1>3. Append(q, n) # <<>>
    BY <1>1
  <1>4. Len(q) <= Len(Append(q, n))
    BY <1>1
  <1> QED BY <1>1, <1>2, <1>3, <1>4, Zenon DEF Grown

LEMMA GoneIs ==
    ASSUME NEW S, NEW f \in [present : BOOLEAN, sizes : S]
    PROVE  [f EXCEPT !.present = FALSE] = [present |-> FALSE, sizes |-> f.sizes]
  <1> DEFINE d == [f EXCEPT !.present = FALSE]
             e == [present |-> FALSE, sizes |-> f.sizes]
  <1>1. DOMAIN f = {"present", "sizes"}
    OBVIOUS
  <1>2. d = [x \in {"present", "sizes"} |-> d[x]] /\ d["present"] = FALSE /\ d["sizes"] = f.sizes
    BY <1>1, Zenon
  <1>3. e = [x \in {"present", "sizes"} |-> e[x]] /\ e["present"] = FALSE /\ e["sizes"] = f.sizes
    OBVIOUS
  <1> HIDE DEF d, e
  <1>4. \A x \in {"present", "sizes"} : d[x] = e[x]
    BY <1>2, <1>3, Zenon
  <1>5. d = e
    BY <1>2, <1>3, <1>4, Zenon
  <1> QED BY <1>5 DEF d, e

\* What a session knows survives steps that do not change it, and new versions.
LEMMA Keeps ==
    ASSUME TypeOK, NEW t \in Sessions, SessionInv(t), TypeOK',
           pc'[t] = pc[t], target' = target, size'[t] = size[t], time'[t] = time[t],
           file'[t] = file[t], announced'[t] = announced[t], sent'[t] = sent[t],
           Grown(disk[target[t].path].sizes, disk'[target[t].path].sizes)
    PROVE  SessionInv(t)'
  <1> DEFINE q == disk[target[t].path].sizes
             r == disk'[target[t].path].sizes
  <1>1. target[t].path \in Paths
    BY Zenon DEF TypeOK
  <1>2. q \in Seq(Sizes) /\ r \in Seq(Sizes)
    <2>1. /\ disk \in [Paths -> [present : BOOLEAN, sizes : Seq(Sizes)]]
          /\ disk' \in [Paths -> [present : BOOLEAN, sizes : Seq(Sizes)]]
      BY Zenon DEF TypeOK
    <2> QED BY <1>1, <2>1
  <1>3. Len(q) <= Len(r) /\ \A i \in 1 .. Len(q) : r[i] = q[i]
    BY DEF Grown
  <1>4. time[t] \in Nat /\ Len(q) \in Nat /\ Len(r) \in Nat
    <2>1. time \in [Sessions -> Nat]
      BY Zenon DEF TypeOK
    <2> HIDE DEF q, r
    <2> QED BY <1>2, <2>1
  <1>5. /\ \A n \in Nat : EmptyBy(q, n) => EmptyBy(r, n)
        /\ \A m \in Maps : MapOf(q, m) => MapOf(r, m)
    <2> HIDE DEF q, r
    <2> QED BY <1>2, <1>3, StillMapped, Zenon
  <1>6. EmptyBy(q, Len(q)) => EmptyBy(r, Len(r))
    <2> HIDE DEF q, r
    <2>1. EmptyBy(r, Len(q)) => EmptyBy(r, Len(r))
      BY SMTT(40), Z3T(40), <1>3, <1>4 DEF EmptyBy
    <2> QED BY <1>4, <1>5, <2>1, Zenon
  <1>7. time[t] \in 1 .. Len(q) => time[t] \in 1 .. Len(r)
    <2> HIDE DEF q, r
    <2> QED BY <1>3, <1>4
  <1> QED BY <1>4, <1>5, <1>6, <1>7, Zenon DEF SessionInv

-----------------------------------------------------------------------------
(* Steps that are not of a session *)

LEMMA DiskInv ==
    ASSUME Inv, NEW p \in Paths, Remove(p) \/ \E n \in Sizes : Replace(p, n) PROVE Inv'
  <1>0. TypeOK /\ UNCHANGED <<session, running, plugin, ticker>>
    BY Zenon DEF Inv, Remove, Replace
  <1> DEFINE Files == [present : BOOLEAN, sizes : Seq(Sizes)]
             Good(f) == f \in Files /\ (f.present => f.sizes # <<>>)
  <1>1. disk \in [Paths -> Files] /\ \A o \in Paths : Good(disk[o])
    BY <1>0, Zenon DEF TypeOK
  <1>2. /\ disk' \in [Paths -> Files] /\ \A o \in Paths : Good(disk'[o])
        /\ \A o \in Paths : Grown(disk[o].sizes, disk'[o].sizes)
    <2>1. PICK f \in Files : /\ disk' = [disk EXCEPT ![p] = f]
                             /\ Good(f) /\ Grown(disk[p].sizes, f.sizes)
      <3>1. CASE Remove(p)
        <4> DEFINE f == [present |-> FALSE, sizes |-> disk[p].sizes]
        <4>1. disk[p] \in Files /\ disk[p].sizes \in Seq(Sizes)
          BY <1>1
        <4>2. f \in Files /\ Good(f) /\ Grown(disk[p].sizes, f.sizes)
          BY <4>1, SameIsGrown
        <4>3. disk' = [disk EXCEPT ![p] = f]
          BY <3>1, <4>1, GoneIs, Zenon DEF Remove
        <4> QED BY <4>2, <4>3, Zenon
      <3>2. ASSUME NEW n \in Sizes, Replace(p, n)
            PROVE  \E f \in Files : disk' = [disk EXCEPT ![p] = f] /\ Good(f) /\ Grown(disk[p].sizes, f.sizes)
        <4> DEFINE r == Append(disk[p].sizes, n)
                   f == [present |-> TRUE, sizes |-> r]
        <4>1. disk[p].sizes \in Seq(Sizes)
          BY <1>1
        <4>2. r \in Seq(Sizes) /\ r # <<>> /\ Grown(disk[p].sizes, r)
          BY <4>1, AppendIsGrown, Zenon
        <4>3. disk' = [disk EXCEPT ![p] = f]
          BY <3>2 DEF Replace
        <4> HIDE DEF r
        <4>4. f \in Files /\ f.sizes = r
          BY <4>2
        <4> HIDE DEF f
        <4> QED BY <4>2, <4>3, <4>4, Zenon
      <3> QED BY <3>1, <3>2
    <2>2. disk' \in [Paths -> Files] /\ disk'[p] = f /\ \A o \in Paths \ {p} : disk'[o] = disk[o]
      BY <1>1, <2>1
    <2>3. \A o \in Paths : Grown(disk[o].sizes, disk[o].sizes)
      BY <1>1, SameIsGrown
    <2> HIDE DEF Good
    <2> QED BY <1>1, <2>1, <2>2, <2>3, Zenon
  <1>3. TypeOK'
    BY <1>0, <1>2, Zenon DEF TypeOK, session, plugin, ticker
  <1>4. CacheInv'
    <2> SUFFICES ASSUME NEW i \in DOMAIN cache.items PROVE MapOf(disk'[cache.items[i].key].sizes, cache.items[i].value)
      BY <1>0 DEF CacheInv, plugin
    <2>1. cache.items[i].key \in Paths /\ cache.items[i].value \in Maps
      <3> DEFINE E == [key : Paths, value : Maps]
      <3>1. cache.items \in Seq(E)
        BY <1>0 DEF TypeOK, IsCache
      <3>2. cache.items[i] \in E
        <4> HIDE DEF E
        <4> QED BY <3>1
      <3> QED BY <3>2
    <2>2. MapOf(disk[cache.items[i].key].sizes, cache.items[i].value)
      BY Zenon DEF Inv, CacheInv
    <2>3. disk[cache.items[i].key].sizes \in Seq(Sizes) /\ disk'[cache.items[i].key].sizes \in Seq(Sizes)
      BY <1>1, <1>2, <2>1, Zenon
    <2>4. Grown(disk[cache.items[i].key].sizes, disk'[cache.items[i].key].sizes)
      BY <1>2, <2>1
    <2> DEFINE q == disk[cache.items[i].key].sizes
               r == disk'[cache.items[i].key].sizes
    <2>5. \A m \in Maps : MapOf(q, m) => MapOf(r, m)
      <3>1. q \in Seq(Sizes) /\ r \in Seq(Sizes) /\ Grown(q, r)
        BY <2>3, <2>4, Zenon
      <3> HIDE DEF q, r
      <3> QED BY <3>1, StillMapped, Zenon DEF Grown
    <2> QED BY <2>1, <2>2, <2>5, Zenon
  <1>5. LockNotHeldAcrossYield'
    BY <1>0, Zenon DEF Inv, LockNotHeldAcrossYield, Runs, plugin, session
  <1>6. ASSUME NEW t \in Sessions PROVE SessionInv(t)'
    <2>1. target[t].path \in Paths
      BY <1>0 DEF TypeOK
    <2>2. UNCHANGED <<pc, target, size, time, file, announced, sent>>
      BY <1>0 DEF session
    <2>3. SessionInv(t)
      BY DEF Inv
    <2> QED BY <1>0, <1>2, <1>3, <2>1, <2>2, <2>3, Keeps, Zenon
  <1> QED BY <1>3, <1>4, <1>5, <1>6 DEF Inv

LEMMA SameSessions ==
    ASSUME Inv, UNCHANGED <<disk, session>>, TypeOK' PROVE \A t \in Sessions : SessionInv(t)'
  <1> SUFFICES ASSUME NEW t \in Sessions PROVE SessionInv(t)'
    OBVIOUS
  <1>1. TypeOK /\ SessionInv(t) /\ UNCHANGED <<disk, pc, target, size, time, file, announced, sent>>
    BY Zenon DEF Inv, session
  <1>2. disk[target[t].path].sizes \in Seq(Sizes)
    BY <1>1 DEF TypeOK
  <1> QED BY <1>1, <1>2, Keeps, SameIsGrown

LEMMA TimerInv ==
    ASSUME Inv, TimerStep \/ StoreQuit \/ DestroyStep PROVE Inv'
  <1>0. TypeOK /\ CacheInv /\ LockNotHeldAcrossYield /\ UNCHANGED <<disk, session, running>>
    BY Zenon DEF Inv, TimerStep, StoreQuit, DestroyStep, TimerCheck, TimerSleep, TimerTimeout, TimerLock, Sweep, TimerUnlock,
       Notify, Join
  <1>1. cache' = cache \/ \E at \in 1 .. Len(cache.items) : cache' = erase(cache, at)
    <2>1. CASE Sweep
      <3>1. it \in Nat \ {0} /\ Len(cache.items) \in Nat
        BY SMTT(40), Z3T(40), <1>0 DEF TypeOK, IsCache
      <3>2. it \in 1 .. Len(cache.items)
        BY <2>1, <3>1 DEF Sweep
      <3> QED BY <2>1, <3>2, Zenon DEF Sweep
    <2>2. CASE cache' = cache
      BY <2>2
    <2> QED BY <2>1, <2>2, Zenon
         DEF TimerStep, StoreQuit, DestroyStep, TimerCheck, TimerSleep, TimerTimeout, TimerLock, TimerUnlock, Notify, Join, plugin
  <1>2. /\ IsCache(cache', Paths, Maps) /\ WellFormed(cache')
        /\ Within(cache'.items, cache.items)
    <2>1. IsCache(cache, Paths, Maps) /\ WellFormed(cache)
      BY <1>0 DEF TypeOK
    <2>2. CASE cache' = cache
      BY <2>1, <2>2 DEF Within
    <2>3. ASSUME NEW at \in 1 .. Len(cache.items), cache' = erase(cache, at)
          PROVE  IsCache(cache', Paths, Maps) /\ WellFormed(cache') /\ Within(cache'.items, cache.items)
      BY <2>1, <2>3, EraseKeepsCache, Zenon
    <2> QED BY <1>1, <2>2, <2>3, Zenon
  <1>3. it' \in Nat \ {0} /\ timer' \in {"check", "enter", "asleep", "lock", "sweep", "exit"}
        /\ mutex' \in {mutex, NoSession, "timer"}
    BY SMTT(40), Z3T(40), <1>0 DEF TypeOK, TimerStep, StoreQuit, DestroyStep, TimerCheck, TimerSleep, TimerTimeout, TimerLock, Sweep, TimerUnlock,
       Notify, Join, plugin
  <1>4. TypeOK'
    <2>1. mutex' \in Sessions \cup {NoSession, "timer"}
      BY <1>0, <1>3, Zenon DEF TypeOK
    <2> QED BY <1>0, <1>2, <1>3, <2>1, Zenon DEF TypeOK, session
  <1>5. CacheInv'
    BY <1>0, <1>2, Zenon DEF CacheInv, Within
  <1>6. LockNotHeldAcrossYield'
    BY <1>0, <1>3, FileCacheAssumption, Zenon DEF LockNotHeldAcrossYield, Runs, session
  <1> QED BY SMTT(40), Z3T(40), <1>0, <1>4, <1>5, <1>6, SameSessions DEF Inv

-----------------------------------------------------------------------------
(* Steps of a session: what it leaves alone, and the three parts of Inv *)

Places == {"idle", "resolve", "size", "time", "lock", "lookup", "unlock", "head", "head_yield",
           "body", "body_yield", "end", "done"}

OnlyOf(s) ==
    /\ UNCHANGED <<disk, target, loop, timer, it>>
    /\ \A t \in Sessions \ {s} : /\ pc'[t] = pc[t] /\ size'[t] = size[t] /\ time'[t] = time[t] /\ file'[t] = file[t]
                                 /\ announced'[t] = announced[t] /\ sent'[t] = sent[t]

Typed ==
    /\ pc \in [Sessions -> Places] /\ size \in [Sessions -> Nat] /\ time \in [Sessions -> Nat]
    /\ file \in [Sessions -> Maps \cup {NoMap}] /\ announced \in [Sessions -> Nat]
    /\ sent \in [Sessions -> [version : Nat, size : Nat]]
    /\ running \in [Loops -> Sessions \cup {NoSession}]

LEMMA TypeOKIsTyped == TypeOK => Typed
  BY Zenon DEF TypeOK, Typed, Places

LEMMA StepInv ==
    ASSUME Inv, NEW s \in Sessions, OnlyOf(s), Typed', mutex' \in {mutex, s, NoSession},
           IsCache(cache', Paths, Maps), WellFormed(cache'), CacheInv', LockNotHeldAcrossYield', SessionInv(s)'
    PROVE  Inv'
  <1>0. TypeOK
    BY DEF Inv
  <1>1. TypeOK'
    <2>1. mutex' \in Sessions \cup {NoSession, "timer"}
      BY <1>0, Zenon DEF TypeOK
    <2> QED BY <1>0, <2>1, Zenon DEF TypeOK, Typed, Places, OnlyOf
  <1>2. ASSUME NEW t \in Sessions PROVE SessionInv(t)'
    <2>1. CASE t = s
      BY <2>1
    <2>2. CASE t # s
      <3>1. disk[target[t].path].sizes \in Seq(Sizes)
        BY <1>0, Zenon DEF TypeOK
      <3>2. Grown(disk[target[t].path].sizes, disk'[target[t].path].sizes)
        BY <3>1, SameIsGrown DEF OnlyOf
      <3>3. SessionInv(t)
        BY DEF Inv
      <3> QED BY <1>0, <1>1, <2>2, <3>2, <3>3, Keeps, Zenon DEF OnlyOf
    <2> QED BY SMTT(40), Z3T(40), <2>1, <2>2
  <1> QED BY SMTT(40), Z3T(40), <1>1, <1>2 DEF Inv

\* The mutex stays with the session that has it: a loop runs one session.
LEMMA LockKept ==
    ASSUME Inv, NEW s \in Sessions, mutex' = mutex, loop' = loop, NEW where, pc' = [pc EXCEPT ![s] = where],
           Runs(s) \/ running[loop[s]] = NoSession,
           pc[s] \notin {"lookup", "unlock"},
           running' = running \/ \E v : running' = [running EXCEPT ![loop[s]] = v]
    PROVE  LockNotHeldAcrossYield'
  <1> SUFFICES ASSUME mutex \in Sessions PROVE running'[loop[mutex]] = mutex /\ pc'[mutex] \in {"lookup", "unlock"}
    BY DEF LockNotHeldAcrossYield, Runs
  <1>1. Runs(mutex) /\ pc[mutex] \in {"lookup", "unlock"} /\ mutex # s
    BY Zenon DEF Inv, LockNotHeldAcrossYield
  <1>2. loop \in [Sessions -> Loops] /\ running \in [Loops -> Sessions \cup {NoSession}] /\ pc \in [Sessions -> Places]
    BY Zenon DEF Inv, TypeOK, Places
  <1>3. loop[mutex] # loop[s]
    BY SMTT(40), Z3T(40), <1>1, FileCacheAssumption DEF Runs
  <1>4. loop[mutex] \in Loops /\ pc'[mutex] = pc[mutex]
    BY SMTT(40), Z3T(40), <1>1, <1>2
  <1>5. running'[loop[mutex]] = running[loop[mutex]]
    BY <1>2, <1>3, <1>4
  <1> QED BY <1>1, <1>4, <1>5, Zenon DEF Runs

LEMMA SameCache ==
    ASSUME Inv, UNCHANGED <<disk, cache>>
    PROVE  IsCache(cache', Paths, Maps) /\ WellFormed(cache') /\ CacheInv'
  BY Zenon DEF Inv, TypeOK, CacheInv

LEMMA Leaves ==
    ASSUME Inv, NEW s \in Sessions, Leave(s), UNCHANGED <<disk, timer, it>>,
           running' = running \/ running' = [running EXCEPT ![loop[s]] = NoSession]
    PROVE  OnlyOf(s) /\ Typed' /\ SessionInv(s)'
  <1>0. Typed /\ loop \in [Sessions -> Loops]
    BY TypeOKIsTyped, Zenon DEF Inv, TypeOK
  <1>1. /\ pc' = [pc EXCEPT ![s] = "done"] /\ file' = [file EXCEPT ![s] = NoMap] /\ UNCHANGED <<target, loop>>
        /\ size' = [size EXCEPT ![s] = 0] /\ time' = [time EXCEPT ![s] = 0] /\ announced' = [announced EXCEPT ![s] = 0]
        /\ sent' = [sent EXCEPT ![s] = [version |-> 0, size |-> 0]]
    BY SMTT(40), Z3T(40) DEF Leave, Goto
  <1>2. OnlyOf(s)
    BY SMTT(40), Z3T(40), <1>0, <1>1 DEF OnlyOf, Typed
  <1>3. pc'[s] = "done" /\ file'[s] = NoMap
    BY <1>0, <1>1 DEF Typed
  <1>4. running' \in [Loops -> Sessions \cup {NoSession}]
    BY <1>0, Zenon DEF Typed
  <1>5. Typed'
    <2>1. pc' \in [Sessions -> Places] /\ file' \in [Sessions -> Maps \cup {NoMap}]
      BY <1>0, <1>1, Zenon DEF Typed, Places
    <2>2. size' \in [Sessions -> Nat] /\ time' \in [Sessions -> Nat] /\ announced' \in [Sessions -> Nat]
      BY <1>0, <1>1, Zenon DEF Typed
    <2>3. sent' \in [Sessions -> [version : Nat, size : Nat]]
      BY <1>0, <1>1, Zenon DEF Typed
    <2> QED BY <1>4, <2>1, <2>2, <2>3, Zenon DEF Typed
  <1>6. SessionInv(s)'
    BY <1>3, Zenon DEF SessionInv
  <1> QED BY <1>2, <1>5, <1>6

\* End() outside the lock.
LEMMA EndInv ==
    ASSUME Inv, NEW s \in Sessions, Leave(s), UNCHANGED <<disk, plugin, ticker>>,
           pc[s] \notin {"lookup", "unlock"},
           \/ Runs(s) /\ running' = [running EXCEPT ![loop[s]] = NoSession]
           \/ running[loop[s]] = NoSession /\ running' = running
    PROVE  Inv'
  <1>1. UNCHANGED <<timer, it, cache, mutex, loop>> /\ pc' = [pc EXCEPT ![s] = "done"]
    BY DEF plugin, ticker, Leave, Goto
  <1>2. LockNotHeldAcrossYield'
    BY <1>1, LockKept, Zenon
  <1> QED BY <1>1, <1>2, Leaves, SameCache, StepInv, Zenon

LEMMA PlainMove ==
    ASSUME Inv, NEW s \in Sessions, NEW where \in Places, pc' = [pc EXCEPT ![s] = where],
           UNCHANGED <<disk, target, loop, size, time, file, announced, sent, cache, timer, it>>,
           running' \in [Loops -> Sessions \cup {NoSession}], mutex' \in {mutex, s, NoSession},
           LockNotHeldAcrossYield', SessionInv(s)'
    PROVE  Inv'
  <1>0. Typed
    BY TypeOKIsTyped, Zenon DEF Inv
  <1>1. OnlyOf(s)
    BY <1>0, Zenon DEF OnlyOf, Typed
  <1>2. Typed'
    BY <1>0 DEF Typed
  <1> QED BY <1>1, <1>2, SameCache, StepInv, Zenon

LEMMA Moved ==
    ASSUME TypeOK, NEW s \in Sessions, NEW where, pc' = [pc EXCEPT ![s] = where]
    PROVE  pc'[s] = where
  BY Zenon DEF TypeOK

LEMMA RunInv ==
    ASSUME Inv, NEW s \in Sessions, Run(s) PROVE Inv'
  <1>0. TypeOK /\ SessionInv(s)
    BY DEF Inv
  <1>1. /\ UNCHANGED <<disk, target, loop, size, time, file, announced, sent, cache, timer, it, mutex>>
        /\ pc[s] \in {"idle", "head_yield", "body_yield"}
        /\ running[loop[s]] = NoSession /\ running' = [running EXCEPT ![loop[s]] = s]
    BY DEF Run, plugin, ticker
  <1>2. PICK where : /\ pc' = [pc EXCEPT ![s] = where]
                     /\ \/ pc[s] = "idle" /\ where = "resolve"
                        \/ pc[s] = "head_yield" /\ where = "body"
                        \/ pc[s] = "body_yield" /\ where = "end"
    BY <1>1, Zenon DEF Run, Goto
  <1>3. pc'[s] = where /\ where \in Places
    BY <1>0, <1>2, Moved, Zenon DEF Places
  <1>4. running' \in [Loops -> Sessions \cup {NoSession}]
    BY <1>0, <1>1 DEF TypeOK
  <1>5. LockNotHeldAcrossYield'
    BY <1>1, <1>2, LockKept, Zenon
  <1>6. SessionInv(s)'
    BY <1>0, <1>1, <1>2, <1>3, Zenon DEF SessionInv
  <1> QED BY <1>1, <1>2, <1>3, <1>4, <1>5, <1>6, PlainMove, Zenon

LEMMA ResolveInv ==
    ASSUME Inv, NEW s \in Sessions, Resolve(s) PROVE Inv'
  <1>0. TypeOK /\ SessionInv(s) /\ Runs(s) /\ pc[s] = "resolve" /\ UNCHANGED <<disk, plugin, ticker>>
    BY DEF Inv, Resolve
  <1>1. CASE End(s)
    BY <1>0, <1>1, EndInv, Zenon DEF End
  <1>2. CASE pc' = [pc EXCEPT ![s] = "size"] /\ UNCHANGED <<target, loop, size, time, file, announced, sent, running>>
    <2>1. pc'[s] = "size" /\ "size" \in Places /\ UNCHANGED <<mutex, cache, timer, it>>
      BY <1>0, <1>2, Moved, Zenon DEF Places, plugin, ticker
    <2>2. running' \in [Loops -> Sessions \cup {NoSession}]
      BY <1>0, <1>2 DEF TypeOK
    <2>3. LockNotHeldAcrossYield'
      BY <1>0, <1>2, <2>1, LockKept, Zenon
    <2>4. SessionInv(s)'
      BY <1>0, <1>2, <2>1, Zenon DEF SessionInv
    <2> QED BY <1>0, <1>2, <2>1, <2>2, <2>3, <2>4, PlainMove, Zenon
  <1> QED BY <1>1, <1>2, Zenon DEF Resolve, Goto

\* The version that is there.
LEMMA Present ==
    ASSUME TypeOK, NEW s \in Sessions, disk[target[s].path].present
    PROVE  LET q == disk[target[s].path].sizes
           IN  /\ q \in Seq(Sizes) /\ Len(q) \in 1 .. Len(q) /\ q[Len(q)] \in Nat /\ Len(q) \in Nat
               /\ Version(target[s].path) = Len(q) /\ Size(target[s].path) = q[Len(q)]
               /\ q[Len(q)] = 0 => EmptyBy(q, Len(q))
  <1> DEFINE q == disk[target[s].path].sizes
  <1>1. q \in Seq(Sizes) /\ q # <<>>
    <2>1. target[s].path \in Paths
      BY Zenon DEF TypeOK
    <2> QED BY <2>1, Zenon DEF TypeOK
  <1>2. Version(target[s].path) = Len(q) /\ Size(target[s].path) = q[Len(q)]
    BY DEF Version, Size
  <1> HIDE DEF q
  <1>3. Len(q) \in 1 .. Len(q) /\ q[Len(q)] \in Sizes /\ Len(q) \in Nat
    BY <1>1
  <1>4. q[Len(q)] \in Nat
    BY <1>3, FileCacheAssumption, Zenon
  <1>5. q[Len(q)] = 0 => EmptyBy(q, Len(q))
    BY SMTT(40), Z3T(40), <1>3 DEF EmptyBy
  <1> QED BY <1>1, <1>2, <1>3, <1>4, <1>5, Zenon DEF q

LEMMA FileSizeInv ==
    ASSUME Inv, NEW s \in Sessions, FileSize(s) PROVE Inv'
  <1>0. TypeOK /\ SessionInv(s) /\ Runs(s) /\ pc[s] = "size" /\ UNCHANGED <<disk, plugin, ticker>>
    BY Zenon DEF Inv, FileSize
  <1>1. CASE End(s)
    BY <1>0, <1>1, EndInv, Zenon DEF End
  <1>2. CASE /\ disk[target[s].path].present /\ size' = [size EXCEPT ![s] = Size(target[s].path)]
             /\ pc' = [pc EXCEPT ![s] = "time"] /\ UNCHANGED <<target, loop, time, file, announced, sent, running>>
    <2>1. pc'[s] = "time" /\ "time" \in Places /\ UNCHANGED <<mutex, cache, timer, it>>
      BY <1>0, <1>2, Moved, Zenon DEF Places, plugin, ticker
    <2>2. running' \in [Loops -> Sessions \cup {NoSession}]
      BY <1>0, <1>2 DEF TypeOK
    <2>3. LockNotHeldAcrossYield'
      BY <1>0, <1>2, <2>1, LockKept, Zenon
    <2>4. Size(target[s].path) \in Nat /\ size'[s] = Size(target[s].path)
          /\ (size'[s] = 0 => EmptyBy(disk[target[s].path].sizes, Len(disk[target[s].path].sizes)))
      <3>1. size \in [Sessions -> Nat]
        BY <1>0, Zenon DEF TypeOK
      <3> QED BY <1>0, <1>2, <3>1, Present, Zenon
    <2>5. SessionInv(s)'
      BY <1>0, <1>2, <2>1, <2>4, Zenon DEF SessionInv
    <2>6. Typed
      BY <1>0, TypeOKIsTyped
    <2>7. OnlyOf(s) /\ Typed'
      BY <1>2, <2>1, <2>2, <2>4, <2>6, <1>0, Zenon DEF OnlyOf, Typed
    <2> QED BY <1>0, <2>1, <2>3, <2>5, <2>7, SameCache, StepInv, Zenon
  <1> QED BY <1>1, <1>2, ZenonT(40) DEF FileSize, Goto

LEMMA LastWriteTimeInv ==
    ASSUME Inv, NEW s \in Sessions, LastWriteTime(s) PROVE Inv'
  <1>0. TypeOK /\ SessionInv(s) /\ Runs(s) /\ pc[s] = "time" /\ UNCHANGED <<disk, plugin, ticker>>
    BY DEF Inv, LastWriteTime
  <1>1. CASE End(s)
    BY <1>0, <1>1, EndInv, Zenon DEF End
  <1>2. CASE /\ disk[target[s].path].present /\ time' = [time EXCEPT ![s] = Version(target[s].path)]
             /\ pc' = [pc EXCEPT ![s] = "lock"] /\ UNCHANGED <<target, loop, size, file, announced, sent, running>>
    <2>1. pc'[s] = "lock" /\ "lock" \in Places /\ UNCHANGED <<mutex, cache, timer, it>>
      BY <1>0, <1>2, Moved, Zenon DEF Places, plugin, ticker
    <2>2. running' \in [Loops -> Sessions \cup {NoSession}]
      BY <1>0, <1>2 DEF TypeOK
    <2>3. LockNotHeldAcrossYield'
      BY <1>0, <1>2, <2>1, LockKept, Zenon
    <2>4. /\ Version(target[s].path) \in Nat /\ time'[s] = Len(disk[target[s].path].sizes)
          /\ time'[s] \in 1 .. Len(disk[target[s].path].sizes)
      <3>1. time \in [Sessions -> Nat]
        BY <1>0, Zenon DEF TypeOK
      <3> QED BY <1>0, <1>2, <3>1, Present, Zenon
    <2>5. SessionInv(s)'
      BY <1>0, <1>2, <2>1, <2>4, Zenon DEF SessionInv
    <2>6. Typed
      BY <1>0, TypeOKIsTyped
    <2>7. OnlyOf(s) /\ Typed'
      BY <1>2, <2>1, <2>2, <2>4, <2>6, <1>0, Zenon DEF OnlyOf, Typed
    <2> QED BY <1>0, <2>1, <2>3, <2>5, <2>7, SameCache, StepInv, Zenon
  <1> QED BY <1>1, <1>2, Zenon DEF LastWriteTime, Goto

LEMMA LockInv ==
    ASSUME Inv, NEW s \in Sessions, Lock(s) PROVE Inv'
  <1>0. TypeOK /\ SessionInv(s) /\ Runs(s) /\ pc[s] = "lock"
    BY Zenon DEF Inv, Lock
  <1>1. /\ UNCHANGED <<disk, target, loop, size, time, file, announced, sent, cache, timer, it, running>>
        /\ mutex' = s /\ pc' = [pc EXCEPT ![s] = "lookup"]
    BY DEF Lock, Goto, ticker
  <1>2. pc'[s] = "lookup" /\ "lookup" \in Places
    BY <1>0, <1>1, Moved, Zenon DEF Places
  <1>3. running' \in [Loops -> Sessions \cup {NoSession}]
    BY <1>0, <1>1, Zenon DEF TypeOK
  <1>4. LockNotHeldAcrossYield'
    BY SMTT(40), Z3T(40), <1>0, <1>1, <1>2 DEF LockNotHeldAcrossYield, Runs
  <1>5. SessionInv(s)'
    BY <1>0, <1>1, <1>2, Zenon DEF SessionInv
  <1> QED BY <1>1, <1>2, <1>3, <1>4, <1>5, PlainMove, Zenon

LEMMA UnlockInv ==
    ASSUME Inv, NEW s \in Sessions, Unlock(s) PROVE Inv'
  <1>0. TypeOK /\ SessionInv(s) /\ pc[s] = "unlock"
    BY Zenon DEF Inv, Unlock
  <1>1. /\ UNCHANGED <<disk, target, loop, size, time, file, announced, sent, cache, timer, it, running>>
        /\ mutex' = NoSession /\ pc' = [pc EXCEPT ![s] = "head"]
    BY DEF Unlock, Goto, ticker
  <1>2. pc'[s] = "head" /\ "head" \in Places
    BY <1>0, <1>1, Moved, Zenon DEF Places
  <1>3. running' \in [Loops -> Sessions \cup {NoSession}]
    BY <1>0, <1>1, Zenon DEF TypeOK
  <1>4. LockNotHeldAcrossYield'
    BY <1>1, FileCacheAssumption DEF LockNotHeldAcrossYield
  <1>5. SessionInv(s)'
    BY <1>0, <1>1, <1>2, Zenon DEF SessionInv
  <1> QED BY <1>1, <1>2, <1>3, <1>4, <1>5, PlainMove, Zenon

LEMMA MapSize == \A m \in Maps : m.size \in Nat /\ m.version \in Nat /\ m.time \in Nat
  BY Zenon DEF Maps

LEMMA WriteHeadInv ==
    ASSUME Inv, NEW s \in Sessions, WriteHead(s) PROVE Inv'
  <1>0. TypeOK /\ SessionInv(s) /\ Runs(s) /\ pc[s] = "head" /\ file[s] \in Maps
    BY Zenon DEF Inv, WriteHead, SessionInv
  <1>1. /\ UNCHANGED <<disk, target, loop, size, time, file, sent, cache, mutex, timer, it>>
        /\ announced' = [announced EXCEPT ![s] = file[s].size]
    BY Zenon DEF WriteHead, Write, plugin, ticker
  <1>2. PICK where : /\ pc' = [pc EXCEPT ![s] = where]
                     /\ where \in IF target[s].head THEN {"end", "body_yield"} ELSE {"body", "head_yield"}
    BY Zenon DEF WriteHead, Write, Goto
  <1>3. running' = running \/ running' = [running EXCEPT ![loop[s]] = NoSession]
    BY Zenon DEF WriteHead, Write
  <1>4. Typed /\ loop[s] \in Loops
    BY <1>0, TypeOKIsTyped, Zenon DEF TypeOK
  <1>5. pc'[s] = where /\ announced'[s] = file[s].size /\ where \in Places
    BY <1>1, <1>2, <1>4, Zenon DEF Typed, Places
  <1>6. OnlyOf(s)
    BY <1>1, <1>2, <1>4, Zenon DEF OnlyOf, Typed
  <1>7. Typed'
    <2>1. running' \in [Loops -> Sessions \cup {NoSession}]
      BY <1>3, <1>4, Zenon DEF Typed
    <2>2. announced' \in [Sessions -> Nat] /\ pc' \in [Sessions -> Places]
      BY SMTT(40), Z3T(40), <1>0, <1>1, <1>2, <1>4, <1>5, MapSize DEF Typed
    <2> QED BY <1>1, <1>4, <2>1, <2>2, Zenon DEF Typed
  <1>8. LockNotHeldAcrossYield'
    BY <1>0, <1>1, <1>2, <1>3, LockKept, Zenon
  <1>9. SessionInv(s)'
    BY <1>0, <1>1, <1>2, <1>5, Zenon DEF SessionInv
  <1> QED BY <1>1, <1>6, <1>7, <1>8, <1>9, SameCache, StepInv, Zenon

LEMMA WriteBodyInv ==
    ASSUME Inv, NEW s \in Sessions, WriteBody(s) PROVE Inv'
  <1>0. TypeOK /\ SessionInv(s) /\ Runs(s) /\ pc[s] = "body" /\ file[s] \in Maps
    BY Zenon DEF Inv, WriteBody, SessionInv
  <1>1. /\ UNCHANGED <<disk, target, loop, size, time, file, announced, cache, mutex, timer, it>>
        /\ sent' = [sent EXCEPT ![s] = [version |-> file[s].version, size |-> file[s].size]]
    BY Zenon DEF WriteBody, Write, BodyMap, plugin, ticker
  <1>2. PICK where : pc' = [pc EXCEPT ![s] = where] /\ where \in {"end", "body_yield"}
    BY Zenon DEF WriteBody, Write, Goto
  <1>3. running' = running \/ running' = [running EXCEPT ![loop[s]] = NoSession]
    BY Zenon DEF WriteBody, Write
  <1>4. Typed /\ loop[s] \in Loops
    BY <1>0, TypeOKIsTyped, Zenon DEF TypeOK
  <1>5. pc'[s] = where /\ sent'[s] = [version |-> file[s].version, size |-> file[s].size] /\ where \in Places
    BY <1>1, <1>2, <1>4, Zenon DEF Typed, Places
  <1>6. OnlyOf(s)
    BY <1>1, <1>2, <1>4, Zenon DEF OnlyOf, Typed
  <1>7. Typed'
    <2>1. running' \in [Loops -> Sessions \cup {NoSession}]
      BY SMTT(40), Z3T(40), <1>3, <1>4 DEF Typed
    <2>2. sent' \in [Sessions -> [version : Nat, size : Nat]] /\ pc' \in [Sessions -> Places]
      BY <1>0, <1>1, <1>2, <1>4, <1>5, MapSize DEF Typed
    <2> QED BY <1>1, <1>4, <2>1, <2>2, Zenon DEF Typed
  <1>8. LockNotHeldAcrossYield'
    BY <1>0, <1>1, <1>2, <1>3, LockKept, Zenon
  <1>9. SessionInv(s)'
    BY <1>0, <1>1, <1>2, <1>5, Zenon DEF SessionInv
  <1> QED BY <1>1, <1>6, <1>7, <1>8, <1>9, SameCache, StepInv, Zenon

LEMMA ReturnInv ==
    ASSUME Inv, NEW s \in Sessions, Return(s) \/ HangUp(s) PROVE Inv'
  BY EndInv, Zenon DEF Return, HangUp, End

-----------------------------------------------------------------------------
(* LookUp: value(), and if need be a new mapping and put() *)

\* What the cache has for a path is a mapping of the file.
LEMMA HitIsMapped ==
    ASSUME TypeOK, CacheInv, NEW path \in Paths, Lookup(cache, path) # <<>>
    PROVE  Lookup(cache, path)[1] \in Maps /\ MapOf(disk[path].sizes, Lookup(cache, path)[1])
  <1> DEFINE i == Position(cache, path)
             E == [key : Paths, value : Maps]
  <1>1. exists(cache, path) /\ Lookup(cache, path) = <<cache.items[i].value>>
    BY Zenon DEF Lookup
  <1>2. WellFormed(cache) /\ cache.items \in Seq(E)
    BY DEF TypeOK, IsCache
  <1>3. i \in DOMAIN cache.items /\ cache.items[i].key = path
    BY <1>1, <1>2, PositionIs, Zenon
  <1> HIDE DEF i
  <1>4. cache.items[i] \in E
    <2> HIDE DEF E
    <2> QED BY SMTT(40), Z3T(40), <1>2, <1>3
  <1>5. MapOf(disk[path].sizes, cache.items[i].value)
    BY <1>3 DEF CacheInv
  <1>6. Lookup(cache, path)[1] = cache.items[i].value
    BY SMTT(40), Z3T(40), <1>1
  <1> QED BY <1>4, <1>5, <1>6

LEMMA NewIsMapped ==
    ASSUME TypeOK, NEW s \in Sessions, SessionInv(s), pc[s] = "lookup", CanMap(s), NEW at \in Addresses
    PROVE  /\ NewMap(s, at) \in Maps /\ MapOf(disk[target[s].path].sizes, NewMap(s, at))
           /\ NewMap(s, at).time = time[s]
  <1> DEFINE q == disk[target[s].path].sizes
             m == NewMap(s, at)
  <1>1. time[s] \in Nat /\ size[s] \in Nat /\ time[s] \in 1 .. Len(q) /\ (size[s] = 0 => EmptyBy(q, time[s]))
    BY Zenon DEF TypeOK, SessionInv
  <1>2. CASE size[s] = 0
    <2>1. m = [at |-> at, time |-> time[s], version |-> 0, size |-> 0]
      BY <1>2, Zenon DEF NewMap
    <2> HIDE DEF m, q
    <2>2. m \in Maps /\ m.version = 0 /\ m.size = 0 /\ m.time = time[s]
      BY <1>1, <2>1, Zenon DEF Maps
    <2>3. MapOf(q, m)
      BY <1>1, <1>2, <2>2, Zenon DEF MapOf
    <2> QED BY <2>2, <2>3, Zenon DEF m, q
  <1>3. CASE size[s] # 0
    <2>0. disk[target[s].path].present
      BY <1>3 DEF CanMap
    <2>1. /\ Len(q) \in Nat /\ q[Len(q)] \in Nat
          /\ Version(target[s].path) = Len(q) /\ Size(target[s].path) = q[Len(q)]
      BY <2>0, Present, Zenon
    <2>2. m = [at |-> at, time |-> time[s], version |-> Len(q), size |-> q[Len(q)]]
      BY <1>3, <2>1, Zenon DEF NewMap
    <2> HIDE DEF m, q
    <2>3. m \in Maps /\ m.version = Len(q) /\ m.size = q[Len(q)] /\ m.time = time[s]
      BY <1>1, <2>1, <2>2, Zenon DEF Maps
    <2>4. MapOf(q, m)
      BY <1>1, <2>1, <2>3 DEF MapOf
    <2> QED BY <2>3, <2>4, Zenon DEF m, q
  <1> QED BY <1>2, <1>3

\* value() and put() keep what the entries are mappings of.
LEMMA CacheKept ==
    ASSUME TypeOK, CacheInv, NEW path \in Paths, NEW m \in Maps
    PROVE  LET used == value(cache, path)
               new == put(used, path, m)
           IN  /\ IsCache(used, Paths, Maps) /\ WellFormed(used)
               /\ \A i \in DOMAIN used.items : MapOf(disk[used.items[i].key].sizes, used.items[i].value)
               /\ IsCache(new, Paths, Maps) /\ WellFormed(new)
               /\ MapOf(disk[path].sizes, m) =>
                    \A i \in DOMAIN new.items : MapOf(disk[new.items[i].key].sizes, new.items[i].value)
  <1> DEFINE used == value(cache, path)
             new == put(used, path, m)
  <1>1. IsCache(cache, Paths, Maps) /\ WellFormed(cache)
    BY Zenon DEF TypeOK
  <1>2. IsCache(used, Paths, Maps) /\ WellFormed(used) /\ Within(used.items, cache.items)
    BY <1>1, ValueKeepsCache
  <1>3. \A i \in DOMAIN used.items : MapOf(disk[used.items[i].key].sizes, used.items[i].value)
    <2> HIDE DEF used
    <2> QED BY <1>2, Zenon DEF CacheInv, Within
  <1>4. /\ IsCache(new, Paths, Maps) /\ WellFormed(new)
        /\ \A i \in DOMAIN new.items : new.items[i] = Item(path, m) \/ \E j \in DOMAIN used.items : new.items[i] = used.items[j]
    <2> HIDE DEF used
    <2> QED BY <1>2, PutKeepsCache
  <1>5. ASSUME MapOf(disk[path].sizes, m), NEW i \in DOMAIN new.items
        PROVE  MapOf(disk[new.items[i].key].sizes, new.items[i].value)
    <2>1. Item(path, m).key = path /\ Item(path, m).value = m
      BY Zenon DEF Item
    <2> HIDE DEF used, new
    <2> QED BY <1>3, <1>4, <1>5, <2>1, Zenon
  <1> QED BY <1>2, <1>3, <1>4, <1>5, Zenon

LEMMA LookUpInv ==
    ASSUME Inv, NEW s \in Sessions, LookUp(s) PROVE Inv'
  <1> DEFINE path == target[s].path
             used == value(cache, path)
             hit == Lookup(cache, path)
  <1>0. TypeOK /\ CacheInv /\ SessionInv(s) /\ Runs(s) /\ pc[s] = "lookup" /\ UNCHANGED <<disk, timer, it>>
    BY Zenon DEF Inv, LookUp, ticker
  <1>1. path \in Paths /\ Typed
    BY <1>0, TypeOKIsTyped, Zenon DEF TypeOK
  \* the session got a mapping
  <1>2. ASSUME NEW m \in Maps, MapOf(disk[path].sizes, m), m.time = time[s], file' = [file EXCEPT ![s] = m],
               IsCache(cache', Paths, Maps), WellFormed(cache'), CacheInv', pc' = [pc EXCEPT ![s] = "unlock"],
               UNCHANGED <<target, loop, size, time, announced, sent, running, mutex>>
        PROVE  Inv'
    <2>1. pc'[s] = "unlock" /\ file'[s] = m
      BY <1>1, <1>2, Zenon DEF Typed
    <2>2. OnlyOf(s)
      BY <1>0, <1>1, <1>2, Zenon DEF OnlyOf, Typed
    <2>3. Typed'
      <3>1. pc' \in [Sessions -> Places] /\ file' \in [Sessions -> Maps \cup {NoMap}]
        BY <1>1, <1>2, Zenon DEF Typed, Places
      <3> QED BY <1>1, <1>2, <3>1, Zenon DEF Typed
    <2>4. LockNotHeldAcrossYield'
      <3>1. \A t \in Sessions : pc[t] \in {"lookup", "unlock"} => pc'[t] \in {"lookup", "unlock"}
        BY <1>1, <1>2, Zenon DEF Typed
      <3> QED BY <1>2, <3>1, Zenon DEF Inv, LockNotHeldAcrossYield, Runs
    <2>5. SessionInv(s)'
      <3>1. time'[s] = time[s] /\ target' = target /\ disk' = disk
        BY <1>0, <1>2, Zenon
      <3> QED BY <1>2, <2>1, <3>1, Zenon DEF SessionInv
    <2> QED BY <1>2, <2>2, <2>3, <2>4, <2>5, StepInv, Zenon
  <1>3. CASE /\ hit # <<>> /\ Current(hit[1], s)
             /\ cache' = used /\ file' = [file EXCEPT ![s] = hit[1]] /\ pc' = [pc EXCEPT ![s] = "unlock"]
             /\ UNCHANGED <<target, loop, size, time, announced, sent, running, mutex>>
    <2>1. hit[1] \in Maps /\ MapOf(disk[path].sizes, hit[1]) /\ hit[1].time = time[s]
      BY <1>0, <1>1, <1>3, HitIsMapped, Zenon DEF Current
    <2>2. IsCache(cache', Paths, Maps) /\ WellFormed(cache') /\ CacheInv'
      BY <1>0, <1>1, <1>3, <2>1, CacheKept, Zenon DEF CacheInv
    <2> HIDE DEF hit, path, used
    <2> QED BY <1>2, <1>3, <2>1, <2>2, Zenon
  <1>4. CASE /\ CanMap(s) /\ FreeAddresses # {}
             /\ LET m == NewMap(s, CHOOSE at \in FreeAddresses : TRUE)
                IN  file' = [file EXCEPT ![s] = m] /\ cache' = put(used, path, m)
             /\ pc' = [pc EXCEPT ![s] = "unlock"]
             /\ UNCHANGED <<target, loop, size, time, announced, sent, running, mutex>>
    <2> DEFINE m == NewMap(s, CHOOSE at \in FreeAddresses : TRUE)
    <2>1. (CHOOSE at \in FreeAddresses : TRUE) \in Addresses
      BY <1>4, Zenon DEF FreeAddresses
    <2>2. m \in Maps /\ MapOf(disk[path].sizes, m) /\ m.time = time[s]
      BY <1>0, <1>4, <2>1, NewIsMapped, Zenon
    <2>3. file' = [file EXCEPT ![s] = m] /\ cache' = put(used, path, m)
      BY <1>4
    <2> HIDE DEF m
    <2>4. IsCache(cache', Paths, Maps) /\ WellFormed(cache') /\ CacheInv'
      BY <1>0, <1>1, <2>2, <2>3, CacheKept, Zenon DEF CacheInv
    <2> HIDE DEF path, used
    <2> QED BY <1>2, <1>4, <2>2, <2>3, <2>4, Zenon
  <1>5. CASE cache' = used /\ mutex' = NoSession /\ End(s)
    <2>1. IsCache(cache', Paths, Maps) /\ WellFormed(cache') /\ CacheInv'
      <3>1. IsCache(used, Paths, Maps) /\ WellFormed(used) /\ Within(used.items, cache.items)
        BY <1>0, <1>1, ValueKeepsCache, Zenon DEF TypeOK
      <3> HIDE DEF used
      <3> QED BY <1>0, <1>5, <3>1, Zenon DEF CacheInv, Within
    <2>2. LockNotHeldAcrossYield'
      BY <1>5, FileCacheAssumption DEF LockNotHeldAcrossYield
    <2>3. OnlyOf(s) /\ Typed' /\ SessionInv(s)'
      BY <1>0, <1>5, Leaves, Zenon DEF End
    <2> QED BY <1>5, <2>1, <2>2, <2>3, StepInv, Zenon
  <1> QED BY <1>3, <1>4, <1>5 DEF LookUp, Goto

-----------------------------------------------------------------------------
(* The theorems *)

LEMMA NextInv == Inv /\ [Next]_vars => Inv'
  <1> SUFFICES ASSUME Inv, [Next]_vars PROVE Inv'
    OBVIOUS
  <1>1. ASSUME NEW s \in Sessions, Step(s) \/ HangUp(s) PROVE Inv'
    BY <1>1, RunInv, ResolveInv, FileSizeInv, LastWriteTimeInv, LockInv, LookUpInv, UnlockInv, WriteHeadInv,
       WriteBodyInv, ReturnInv, Zenon DEF Step
  <1>2. CASE TimerStep \/ StoreQuit \/ DestroyStep
    BY <1>2, TimerInv, Zenon
  <1>3. ASSUME NEW p \in Written, Remove(p) \/ \E n \in Sizes : Replace(p, n) PROVE Inv'
    BY <1>3, DiskInv, FileCacheAssumption, Zenon
  <1>4. CASE UNCHANGED vars
    <2>1. UNCHANGED <<disk, session, running, plugin, ticker>>
      BY <1>4 DEF vars
    <2> QED BY <2>1, Zenon DEF Inv, TypeOK, CacheInv, LockNotHeldAcrossYield, SessionInv, Runs, session, plugin, ticker
  <1> QED BY <1>1, <1>2, <1>3, <1>4, Zenon DEF Next

\* However sessions, the timer and whoever writes the files interleave, the
\* cache of the plugin stays a cache, and every mapping in it, or held by a
\* session, is of a version of its file that is no older than its time.
THEOREM PluginKeepsInv == Spec => []Inv
  BY InitInv, NextInv, PTL DEF Spec

\* No session holds the mutex of the cache while it waits to write.
THEOREM CacheLockNotHeldAcrossYield == Spec => []LockNotHeldAcrossYield
  <1>1. Inv => LockNotHeldAcrossYield
    BY DEF Inv
  <1> QED BY <1>1, PluginKeepsInv, PTL

\* A session never serves a version older than the one it asked the time of.
THEOREM ServesNothingStale == Spec => []NotStale
  <1>1. ASSUME Inv PROVE NotStale
    <2> SUFFICES ASSUME NEW s \in Sessions, file[s] # NoMap
                 PROVE  IF file[s].version # 0 THEN file[s].version >= time[s]
                        ELSE \E v \in 1 .. time[s] : disk[target[s].path].sizes[v] = 0
      BY DEF NotStale
    <2> DEFINE q == disk[target[s].path].sizes
    <2>1. SessionInv(s) /\ TypeOK
      BY <1>1, Zenon DEF Inv
    <2>2. q \in Seq(Sizes) /\ pc[s] \in Places
      BY <2>1, Zenon DEF TypeOK, Places
    <2>3. file[s] \in Maps /\ MapOf(q, file[s]) /\ file[s].time = time[s]
      BY <2>1, <2>2, Zenon DEF SessionInv, Places
    <2> HIDE DEF q
    <2>4. file[s].version \in Nat /\ time[s] \in Nat /\ Len(q) \in Nat
      BY SMTT(40), Z3T(40), <2>2, <2>3, MapSize
    <2>5. CASE file[s].version # 0
      BY SMTT(40), Z3T(40), <2>3, <2>4, <2>5 DEF MapOf
    <2>6. CASE file[s].version = 0
      <3>1. EmptyBy(q, time[s])
        BY <2>3, <2>6, Zenon DEF MapOf
      <3>2. \E v \in 1 .. time[s] : q[v] = 0
        BY SMTT(40), Z3T(40), <2>4, <3>1 DEF EmptyBy
      <3> QED BY <2>6, <3>2, Zenon DEF q
    <2> QED BY <2>5, <2>6, Zenon
  <1> QED BY <1>1, PluginKeepsInv, PTL

\* The body has the length that was announced, and is one version of the file.
THEOREM SendsWhatItAnnounced == Spec => []AnnouncedIsSent
  <1>1. ASSUME Inv PROVE AnnouncedIsSent
    <2> SUFFICES ASSUME NEW s \in Sessions, pc[s] \in {"body_yield", "end"}, ~target[s].head
                 PROVE  /\ sent[s].size = announced[s]
                        /\ sent[s].version # 0 => disk[target[s].path].sizes[sent[s].version] = announced[s]
      BY Zenon DEF AnnouncedIsSent
    <2> DEFINE q == disk[target[s].path].sizes
    <2>1. /\ announced[s] = file[s].size /\ MapOf(q, file[s])
          /\ sent[s] = [version |-> file[s].version, size |-> file[s].size]
      BY <1>1, Zenon DEF Inv, SessionInv
    <2> HIDE DEF q
    <2>2. sent[s].version = file[s].version /\ sent[s].size = file[s].size
      BY SMTT(40), Z3T(40), <2>1
    <2>3. sent[s].version # 0 => q[sent[s].version] = announced[s]
      BY <2>1, <2>2, Zenon DEF MapOf
    <2> QED BY <2>1, <2>2, <2>3, Zenon DEF q
  <1> QED BY <1>1, PluginKeepsInv, PTL

-----------------------------------------------------------------------------
(* The order of the entries *)

\* The order in which keys were used, after one more use of a key.
After(order, key, K) == {r \in order : key \notin {r[1], r[2]}} \cup {<<key, k>> : k \in K \ {key}}

LEMMA AfterTwice == ASSUME NEW R, NEW key, NEW K PROVE After(After(R, key, K), key, K) = After(R, key, K)
  BY Zenon DEF After

LEMMA EraseOrdered ==
    ASSUME NEW E, NEW q \in Seq(E), NEW at \in 1 .. Len(q), NEW R, Ordered(q, R)
    PROVE  Ordered(EraseAt(q, at), R)
  <1> DEFINE e == EraseAt(q, at)
             from(i) == IF i < at THEN i ELSE i + 1
  <1>1. Len(q) \in Nat /\ DOMAIN q = 1 .. Len(q) /\ DOMAIN e = 1 .. Len(q) - 1
    BY SeqIsFunction, EraseAtIs, Zenon
  <1>2. \A i \in DOMAIN e : from(i) \in DOMAIN q /\ e[i] = q[from(i)]
    <2>1. \A i \in 1 .. Len(q) - 1 : e[i] = IF i < at THEN q[i] ELSE q[i + 1]
      BY EraseAtIs, Zenon
    <2> HIDE DEF e
    <2>2. \A i \in DOMAIN e : from(i) \in DOMAIN q
      BY <1>1
    <2>3. \A i \in DOMAIN e : e[i] = q[from(i)]
      BY <1>1, <2>1
    <2> QED BY <2>2, <2>3, Zenon
  <1> HIDE DEF e
  <1>3. \A i, j \in DOMAIN e : i < j => from(i) < from(j)
    BY <1>1
  <1> HIDE DEF from
  <1> QED BY <1>2, <1>3, Zenon DEF Ordered, e

LEMMA PushOrdered ==
    ASSUME NEW K, NEW V, NEW q \in Seq([key : K, value : V]), NEW e \in [key : K, value : V],
           e.key \notin KeysOf(q), NEW R, Ordered(q, R)
    PROVE  Ordered(PushFront(q, e), After(R, e.key, K))
  <1> DEFINE E == [key : K, value : V]
             p == PushFront(q, e)
  <1>0. \A i \in 1 .. Len(q) : q[i].key \in K /\ q[i].key # e.key
    <2>1. DOMAIN q = 1 .. Len(q) /\ \A i \in 1 .. Len(q) : q[i] \in E
      <3> HIDE DEF E
      <3> QED BY SeqIsFunction, Zenon DEF E
    <2> QED BY <2>1, Zenon DEF KeysOf
  <1>5. q \in Seq(E) /\ e \in E
    OBVIOUS
  <1> HIDE DEF E
  <1>1. Len(q) \in Nat /\ DOMAIN q = 1 .. Len(q) /\ DOMAIN p = 1 .. Len(q) + 1 /\ p[1] = e
        /\ \A i \in 1 .. Len(q) : p[i + 1] = q[i]
    BY SMTT(40), Z3T(40), <1>5, SeqIsFunction, PushFrontIs
  <1> HIDE DEF p
  <1> SUFFICES ASSUME NEW i \in DOMAIN p, NEW j \in DOMAIN p, i < j
               PROVE  <<p[i].key, p[j].key>> \in After(R, e.key, K)
    BY DEF Ordered, p
  <1>2. j - 1 \in 1 .. Len(q) /\ p[j] = q[j - 1]
    <2>1. j - 1 \in 1 .. Len(q) /\ (j - 1) + 1 = j
      BY <1>1
    <2> QED BY SMTT(40), Z3T(40), <1>1, <2>1
  <1>3. CASE i = 1
    BY <1>0, <1>1, <1>2, <1>3, ZenonT(40) DEF After
  <1>4. CASE i # 1
    <2>1. i - 1 \in 1 .. Len(q) /\ (i - 1) + 1 = i /\ i - 1 < j - 1
      BY SMTT(40), Z3T(40), <1>1, <1>4
    <2>2. p[i] = q[i - 1]
      BY <1>1, <2>1, Zenon
    <2>3. <<p[i].key, p[j].key>> \in R
      BY <1>1, <1>2, <2>1, <2>2, Zenon DEF Ordered
    <2>4. p[i].key # e.key /\ p[j].key # e.key
      BY <1>0, <1>2, <2>1, <2>2, Zenon
    <2> QED BY <2>3, <2>4, Zenon DEF After
  <1> QED BY <1>3, <1>4

LEMMA CleanOrdered ==
    ASSUME NEW K, NEW V, NEW c, IsCache(c, K, V), Distinct(c.items), c.hash = KeysOf(c.items),
           NEW R, Ordered(c.items, R)
    PROVE  Ordered(clean_cache(c).items, R)
  <1> DEFINE E == [key : K, value : V]
             q == c.items
             r == [i \in 1 .. c.size |-> q[i]]
  <1>1. q \in Seq(E) /\ c.size \in Nat /\ c = [items |-> c.items, hash |-> c.hash, size |-> c.size]
    BY Zenon DEF IsCache
  <1>2. Len(q) \in Nat /\ DOMAIN q = 1 .. Len(q) /\ Cardinality(c.hash) = Len(q)
    <2> HIDE DEF E
    <2> QED BY <1>1, SeqIsFunction, Counted
  <1>3. CASE Cardinality(c.hash) <= c.size
    BY <1>3, Zenon DEF clean_cache
  <1>4. CASE ~(Cardinality(c.hash) <= c.size)
    <2>1. \A i \in 1 .. c.size : i \in 1 .. Len(q)
      BY SMTT(40), Z3T(40), <1>1, <1>2, <1>4
    <2>2. Ordered(r, R)
      BY <1>2, <2>1, Zenon DEF Ordered
    <2>3. clean_cache(c).items = r
      BY <1>1, <1>4 DEF clean_cache
    <2> QED BY <2>2, <2>3, Zenon
  <1> QED BY <1>3, <1>4, Zenon

\* The list without the entry of a key, if it has one: put() and value() put
\* an entry in front of it.
Rest(c, key) == IF exists(c, key) THEN EraseAt(c.items, Position(c, key)) ELSE c.items
Listed(q, E, keys, order) == q \in Seq(E) /\ Distinct(q) /\ KeysOf(q) = keys /\ Ordered(q, order)

LEMMA FrontOrdered ==
    ASSUME NEW K, NEW V, NEW c, IsCache(c, K, V), WellFormed(c), NEW e \in [key : K, value : V],
           NEW R, Ordered(c.items, R)
    PROVE  Listed(PushFront(Rest(c, e.key), e), [key : K, value : V], c.hash \cup {e.key}, After(R, e.key, K))
  <1> DEFINE E == [key : K, value : V]
             q == c.items
             key == e.key
             r == Rest(c, key)
  <1>1. q \in Seq(E) /\ e \in E /\ key \in K
    BY Zenon DEF IsCache
  <1>2. Distinct(q) /\ c.hash = KeysOf(q) /\ DOMAIN q = 1 .. Len(q)
    <2> HIDE DEF E
    <2> QED BY <1>1, SeqIsFunction DEF WellFormed, Distinct, KeysOf
  <1>3. r \in Seq(E) /\ Distinct(r) /\ KeysOf(r) = KeysOf(q) \ {key} /\ Ordered(r, R)
    <2> HIDE DEF E
    <2>1. CASE exists(c, key)
      <3>1. Position(c, key) \in 1 .. Len(q) /\ q[Position(c, key)].key = key
        BY <1>2, <2>1, PositionIs, Zenon
      <3> DEFINE at == Position(c, key)
      <3>2. r = EraseAt(q, at)
        BY <2>1, Zenon DEF Rest
      <3>3. at \in 1 .. Len(q) /\ q[at].key = key /\ Ordered(q, R)
        BY <3>1, Zenon
      <3> HIDE DEF at, q, key
      <3>4. EraseAt(q, at) \in Seq(E)
        BY <1>1, <3>3, EraseAtIs, Zenon
      <3>5. Distinct(EraseAt(q, at)) /\ KeysOf(EraseAt(q, at)) = KeysOf(q) \ {q[at].key}
        BY <1>1, <1>2, <3>3, EraseKeys, Zenon
      <3>6. Ordered(EraseAt(q, at), R)
        BY <1>1, <3>3, EraseOrdered, Zenon
      <3> QED BY <3>2, <3>3, <3>4, <3>5, <3>6, Zenon
    <2>2. CASE ~exists(c, key)
      BY <1>1, <1>2, <2>2, Zenon DEF exists, Rest
    <2> QED BY <2>1, <2>2, Zenon
  <1>4. e.key \notin KeysOf(r) /\ KeysOf(r) \cup {e.key} = c.hash \cup {e.key}
    BY <1>2, <1>3, Zenon
  <1>5. Ordered(PushFront(r, e), After(R, e.key, K))
    BY <1>3, <1>4, PushOrdered, Zenon
  <1> HIDE DEF E, r
  <1>6. PushFront(r, e) \in Seq(E)
    BY <1>1, <1>3, PushFrontIs, Zenon
  <1>7. Distinct(PushFront(r, e)) /\ KeysOf(PushFront(r, e)) = KeysOf(r) \cup {e.key}
    <2>1. r \in Seq(E) /\ e \in E /\ Distinct(r) /\ e.key \notin KeysOf(r)
      BY <1>1, <1>3, <1>4, Zenon
    <2> HIDE DEF key
    <2> QED BY ONLY <2>1, PushKeys, SMTT(40), Z3T(40)
  <1> QED BY <1>4, <1>5, <1>6, <1>7, Zenon DEF Listed, E, r

LEMMA PutOrdered ==
    ASSUME NEW K, NEW V, NEW c, IsCache(c, K, V), WellFormed(c), NEW key \in K, NEW val \in V,
           NEW R, Ordered(c.items, R)
    PROVE  Ordered(put(c, key, val).items, After(R, key, K))
  <1> DEFINE e == Item(key, val)
             r == Rest(c, e.key)
             d == [items |-> PushFront(r, e), hash |-> c.hash \cup {e.key}, size |-> c.size]
  <1>1. e \in [key : K, value : V] /\ e.key = key
    BY Zenon DEF Item
  <1>2. /\ c.size \in Nat /\ c.hash \in SUBSET K
        /\ c = [items |-> c.items, hash |-> c.hash, size |-> c.size]
    BY DEF IsCache
  <1>3. put(c, key, val) = clean_cache(d)
    <2>1. put(c, key, val) = clean_cache(With(c, PushFront(r, e), c.hash \cup {e.key}))
      <3>1. r = IF exists(c, key) THEN EraseAt(c.items, Position(c, key)) ELSE c.items
        BY <1>1, Zenon DEF Rest
      <3> HIDE DEF r
      <3> QED BY <1>1, <3>1, Zenon DEF put, With
    <2>2. With(c, PushFront(r, e), c.hash \cup {e.key}) = d
      <3> HIDE DEF r
      <3> QED BY <1>2, WithIs, Zenon
    <2> QED BY <2>1, <2>2, Zenon
  <1> HIDE DEF e
  <1>4. /\ PushFront(r, e) \in Seq([key : K, value : V]) /\ Distinct(PushFront(r, e))
        /\ KeysOf(PushFront(r, e)) = c.hash \cup {e.key}
        /\ Ordered(PushFront(r, e), After(R, e.key, K))
    <2>1. Listed(PushFront(r, e), [key : K, value : V], c.hash \cup {e.key}, After(R, e.key, K))
      BY <1>1, FrontOrdered, Zenon
    <2> QED BY <2>1, Zenon DEF Listed
  <1> HIDE DEF r
  <1>5. IsCache(d, K, V) /\ Distinct(d.items) /\ d.hash = KeysOf(d.items) /\ Ordered(d.items, After(R, e.key, K))
    BY <1>1, <1>2, <1>4, Zenon DEF IsCache
  <1> HIDE DEF d
  <1> QED BY <1>1, <1>3, <1>5, CleanOrdered, Zenon

LEMMA ValueOrdered ==
    ASSUME NEW K, NEW V, NEW c, IsCache(c, K, V), WellFormed(c), NEW key \in K, exists(c, key),
           NEW R, Ordered(c.items, R)
    PROVE  Ordered(value(c, key).items, After(R, key, K))
  <1> DEFINE at == Position(c, key)
             e == c.items[at]
             r == Rest(c, e.key)
  <1>1. at \in DOMAIN c.items /\ e.key = key
    BY PositionIs, Zenon
  <1>2. e \in [key : K, value : V]
    <2> DEFINE E == [key : K, value : V]
    <2>1. c.items \in Seq(E)
      BY Zenon DEF IsCache
    <2> HIDE DEF E, at
    <2>2. e \in E
      BY <1>1, <2>1
    <2> QED BY <2>2, Zenon DEF E
  <1>3. r = EraseAt(c.items, at)
    BY <1>1, Zenon DEF Rest
  <1>4. c = [items |-> c.items, hash |-> c.hash, size |-> c.size]
    BY DEF IsCache
  <1>5. value(c, key).items = PushFront(r, e)
    <2>1. value(c, key) = [c EXCEPT !.items = PushFront(EraseAt(c.items, at), e)]
      BY Zenon DEF value, Use
    <2> HIDE DEF r, e, at
    <2> QED BY <1>3, <1>4, <2>1
  <1> HIDE DEF e
  <1>6. Ordered(PushFront(r, e), After(R, e.key, K))
    BY <1>2, FrontOrdered, Zenon DEF Listed
  <1> QED BY <1>1, <1>5, <1>6, Zenon

LEMMA LookUpOrdered ==
    ASSUME Inv, InOrderOfUse, NEW s \in Sessions, LookUp(s) PROVE InOrderOfUse'
  <1> DEFINE path == target[s].path
             used == value(cache, path)
             hit == Lookup(cache, path)
             once == After(recent, path, Paths)
  <1>0. TypeOK /\ SessionInv(s) /\ pc[s] = "lookup" /\ path \in Paths
    BY Zenon DEF Inv, LookUp, TypeOK
  <1>1. IsCache(cache, Paths, Maps) /\ WellFormed(cache) /\ Ordered(cache.items, recent)
    BY <1>0, Zenon DEF TypeOK, InOrderOfUse
  <1>2. IsCache(used, Paths, Maps) /\ WellFormed(used)
    BY <1>0, <1>1, ValueKeepsCache, Zenon
  <1>3. hit # <<>> <=> exists(cache, path)
    BY Zenon DEF Lookup
  <1>4. hit # <<>> => Ordered(used.items, once)
    BY <1>0, <1>1, <1>3, ValueOrdered, Zenon
  <1>5. hit = <<>> => used = cache
    BY <1>3, Zenon DEF value
  <1>6. recent' = IF hit = <<>> /\ ~CanMap(s) THEN recent ELSE once
    BY Zenon DEF LookUp, Served, After
  <1> HIDE DEF hit, used, once
  <1>7. CASE hit # <<>> /\ cache' = used
    BY <1>4, <1>6, <1>7, Zenon DEF InOrderOfUse
  <1>8. CASE CanMap(s) /\ FreeAddresses # {} /\ cache' = put(used, path, NewMap(s, CHOOSE at \in FreeAddresses : TRUE))
    <2> DEFINE m == NewMap(s, CHOOSE at \in FreeAddresses : TRUE)
    <2>1. (CHOOSE at \in FreeAddresses : TRUE) \in Addresses
      BY <1>8, Zenon DEF FreeAddresses
    <2>2. m \in Maps
      BY <1>0, <1>8, <2>1, NewIsMapped, Zenon
    <2>3. cache' = put(used, path, m) /\ recent' = once
      BY <1>6, <1>8, Zenon
    <2> HIDE DEF m, path
    <2>4. CASE hit = <<>>
      <3>1. Ordered(used.items, recent)
        BY <1>1, <1>5, <2>4, Zenon
      <3>2. Ordered(put(used, path, m).items, After(recent, path, Paths))
        BY <1>0, <1>2, <2>2, <3>1, PutOrdered, Zenon
      <3> QED BY <2>3, <3>2, Zenon DEF InOrderOfUse, once
    <2>5. CASE hit # <<>>
      <3>1. Ordered(put(used, path, m).items, After(once, path, Paths))
        BY <1>0, <1>2, <1>4, <2>2, <2>5, PutOrdered, Zenon
      <3>2. After(once, path, Paths) = once
        BY AfterTwice, Zenon DEF once
      <3> QED BY <2>3, <3>1, <3>2, Zenon DEF InOrderOfUse
    <2> QED BY <2>4, <2>5, Zenon
  <1>9. CASE hit = <<>> /\ ~CanMap(s) /\ cache' = used
    BY <1>1, <1>5, <1>6, <1>9, Zenon DEF InOrderOfUse
  <1> QED BY <1>7, <1>8, <1>9, Zenon DEF LookUp, hit, used

LEMMA SweepOrdered ==
    ASSUME Inv, InOrderOfUse, Sweep PROVE InOrderOfUse'
  <1> DEFINE E == [key : Paths, value : Maps]
  <1>1. /\ cache.items \in Seq(E) /\ it \in Nat \ {0} /\ it <= Len(cache.items)
        /\ recent' = recent /\ (cache' = cache \/ cache' = erase(cache, it))
        /\ cache = [items |-> cache.items, hash |-> cache.hash, size |-> cache.size]
    BY DEF Inv, TypeOK, IsCache, Sweep
  <1>2. erase(cache, it).items = EraseAt(cache.items, it)
    BY <1>1, Zenon DEF erase
  <1> HIDE DEF E
  <1>3. it \in 1 .. Len(cache.items)
    BY SMTT(40), Z3T(40), <1>1, SeqIsFunction
  <1>4. Ordered(EraseAt(cache.items, it), recent)
    BY <1>1, <1>3, EraseOrdered DEF InOrderOfUse
  <1> QED BY <1>1, <1>2, <1>4, Zenon DEF InOrderOfUse

\* The cache of the plugin keeps its entries in the order in which their files
\* were last served, whatever the sessions, the timer and the disk do: the one
\* clean_cache() evicts is the one that was not asked for the longest.
THEOREM EvictsLeastRecentlyUsed == Spec => []InOrderOfUse
  <1>1. Init => InOrderOfUse
    <2>1. \A max : Empty(max).items = <<>>
      BY DEF Empty
    <2>2. Ordered(<<>>, recent)
      BY DEF Ordered
    <2>3. ASSUME Init PROVE cache.items = <<>>
      BY <2>1, <2>3, Zenon DEF Init
    <2> QED BY <2>2, <2>3, Zenon DEF InOrderOfUse
  <1>2. ASSUME UNCHANGED <<cache, recent>>, InOrderOfUse PROVE InOrderOfUse'
    BY <1>2, Zenon DEF InOrderOfUse
  <1>3. ASSUME Inv, InOrderOfUse, [Next]_vars PROVE InOrderOfUse'
    <2>1. ASSUME NEW s \in Sessions, Step(s) \/ HangUp(s) PROVE InOrderOfUse'
      <3>1. LookUp(s) \/ UNCHANGED <<cache, recent>>
        BY <2>1, Zenon DEF Step, HangUp, Run, Resolve, FileSize, LastWriteTime, Lock, Unlock, WriteHead, WriteBody,
           Return, plugin
      <3> QED BY <1>2, <1>3, <3>1, LookUpOrdered, Zenon
    <2>2. CASE TimerStep \/ StoreQuit \/ DestroyStep
      <3>1. Sweep \/ UNCHANGED <<cache, recent>>
        BY <2>2, Zenon DEF TimerStep, TimerCheck, TimerSleep, TimerTimeout, TimerLock, TimerUnlock, StoreQuit,
           DestroyStep, Notify, Join, plugin
      <3> QED BY <1>2, <1>3, <3>1, SweepOrdered, Zenon
    <2>3. ASSUME NEW p \in Written, Remove(p) \/ \E n \in Sizes : Replace(p, n) PROVE InOrderOfUse'
      BY <1>2, <1>3, <2>3, Zenon DEF Remove, Replace, plugin
    <2>4. CASE UNCHANGED vars
      BY <1>2, <1>3, <2>4, Zenon DEF vars, plugin
    <2> QED BY <1>3, <2>1, <2>2, <2>3, <2>4, Zenon DEF Next
  <1> QED BY <1>1, <1>3, PluginKeepsInv, PTL DEF Spec
=============================================================================
