------------------------------- MODULE LruCache -------------------------------
(***************************************************************************)
(* lru_cache of utils.h.  A cache is a record: items is m_cache_items, the *)
(* most recently used first, hash the keys of m_cache_hash, and size       *)
(* m_cache_size.  The iterator the hash holds for a key is the position of *)
(* the key in the list.                                                    *)
(***************************************************************************)
EXTENDS Integers, Sequences, FiniteSets

Item(key, value) == [key |-> key, value |-> value]
Empty(size) == [items |-> <<>>, hash |-> {}, size |-> size]
exists(c, key) == key \in c.hash
Position(c, key) == CHOOSE i \in DOMAIN c.items : c.items[i].key = key

\* std::list::erase and emplace_front
EraseAt(items, at) ==
    [i \in 1 .. Len(items) - 1 |-> IF i < at THEN items[i] ELSE items[i + 1]]
PushFront(items, item) ==
    [i \in 1 .. Len(items) + 1 |-> IF i = 1 THEN item ELSE items[i - 1]]

\* The last entries go, from the list and from the hash.
clean_cache(c) ==
    IF Cardinality(c.hash) <= c.size THEN c
    ELSE [c EXCEPT !.items = [i \in 1 .. c.size |-> c.items[i]],
                   !.hash = {c.items[i].key : i \in 1 .. c.size}]

put(c, key, value) ==
    clean_cache([c EXCEPT !.items = PushFront(IF exists(c, key) THEN EraseAt(@, Position(c, key)) ELSE @,
                                              Item(key, value)),
                          !.hash = @ \cup {key}])

\* Mutant: a lookup is no use.
UseNot(c, key) == c

\* splice: the entry moves to the front.
Use(c, key) ==
    [c EXCEPT !.items = PushFront(EraseAt(@, Position(c, key)), @[Position(c, key)])]

\* value() and reference() return the entry, if there is one, and use it.
Lookup(c, key) == IF exists(c, key) THEN <<c.items[Position(c, key)].value>> ELSE <<>>
value(c, key) == IF exists(c, key) THEN Use(c, key) ELSE c

cache_size(c, size) == clean_cache([c EXCEPT !.size = size])
clear(c) == [c EXCEPT !.items = <<>>, !.hash = {}]
erase(c, at) == [c EXCEPT !.items = EraseAt(@, at), !.hash = @ \ {c.items[at].key}]

IsCache(c, K, V) == c \in [items : Seq([key : K, value : V]), hash : SUBSET K, size : Nat]

\* Every entry is in the list once and in the hash, nothing else is, and there
\* are no more of them than the cache may hold.
WellFormed(c) ==
    /\ \A i, j \in DOMAIN c.items : c.items[i].key = c.items[j].key => i = j
    /\ c.hash = {c.items[i].key : i \in DOMAIN c.items}
    /\ Len(c.items) <= c.size
=============================================================================
