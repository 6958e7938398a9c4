----------------------------- MODULE HashTable ------------------------------
(* The open-addressing table of core/hashtable.c (names of tmpfs, the        *)
(* registry): linear probing, tombstones, growth at a load of 3/4.           *)
EXTENDS Integers, FiniteSets

CONSTANTS
  Keys, Values,
  Hash,             \* key -> natural number
  InitialCapacity,  \* 16 in the code
  MaxCapacity       \* bound on the growth

VARIABLES
  entries,    \* index -> [key, value]
  count,      \* used entries, the tombstones included
  contents    \* what callers have stored: key -> value

vars == <<entries, count, contents>>

NoKey == "no key"
NIL == "null"
TOMB == "tomb"
Empty == [key |-> NoKey, value |-> NIL]
Tombstone == [key |-> NoKey, value |-> TOMB]
Capacity(tbl) == Cardinality(DOMAIN tbl)

ht_init == entries = [i \in {} |-> Empty] /\ count = 0
Init == ht_init /\ contents = [k \in Keys |-> NIL]

\* The k-th index a search for key looks at.
Probe(tbl, key, k) == (Hash[key] + k) % Capacity(tbl)

\* The index with the key, or else the first tombstone before the first empty
\* entry, or else that entry.
find_entry(tbl, key) ==
  LET steps == 0 .. Capacity(tbl) - 1
      at(k) == tbl[Probe(tbl, key, k)]
      first(S) == CHOOSE k \in S : \A j \in S : k <= j
      end == first({k \in steps : at(k) = Empty})
      hits == {k \in 0 .. end : at(k).key = key}
      tombs == {k \in 0 .. end : at(k) = Tombstone}
  IN Probe(tbl, key, IF hits # {} THEN first(hits) ELSE IF tombs # {} THEN first(tombs) ELSE end)

\* The entries with a key move to a larger table, in the order of the old one.
ht_resize(tbl, new_cap) ==
  LET moved[i \in 0 .. Capacity(tbl)] ==
        IF i = 0 THEN [j \in 0 .. new_cap - 1 |-> Empty]
        ELSE IF tbl[i - 1].key = NoKey THEN moved[i - 1]
        ELSE [moved[i - 1] EXCEPT ![find_entry(moved[i - 1], tbl[i - 1].key)] = tbl[i - 1]]
  IN moved[Capacity(tbl)]

Live(tbl) == {i \in DOMAIN tbl : tbl[i].key # NoKey}

\* A test of the load that lets the last entry be taken.
NeedsRoom_Full(n, cap) == n + 1 > cap
NeedsRoom(n, cap) == (n + 1) * 4 > cap * 3

ht_set(key, value, overwrite) ==
  LET cap == Capacity(entries)
      grow == NeedsRoom(count, cap)
      new_cap == IF cap = 0 THEN InitialCapacity ELSE cap * 2
      tbl == IF grow THEN ht_resize(entries, new_cap) ELSE entries
      n == IF grow THEN Cardinality(Live(tbl)) ELSE count
      i == find_entry(tbl, key)
      exists == tbl[i].key # NoKey /\ ~overwrite
  IN /\ grow => new_cap <= MaxCapacity
     /\ entries' = IF exists THEN tbl ELSE [tbl EXCEPT ![i] = [key |-> key, value |-> value]]
     /\ count' = IF ~exists /\ tbl[i] = Empty THEN n + 1 ELSE n
     /\ contents' = IF exists THEN contents ELSE [contents EXCEPT ![key] = value]

ht_get(key) ==
  IF count = 0 THEN NIL
  ELSE LET e == entries[find_entry(entries, key)] IN IF e.key = NoKey THEN NIL ELSE e.value

ht_del(key) ==
  /\ count > 0
  /\ LET i == find_entry(entries, key)
     IN entries' = IF entries[i].key = NoKey THEN entries ELSE [entries EXCEPT ![i] = Tombstone]
  /\ contents' = [contents EXCEPT ![key] = NIL]
  /\ UNCHANGED count

Next ==
  \/ \E key \in Keys, value \in Values, overwrite \in BOOLEAN : ht_set(key, value, overwrite)
  \/ \E key \in Keys : ht_del(key)

\* A search ends: an entry that is neither used nor a tombstone is always left
\* (count includes tombstones).  What callers stored is what they find, through
\* any sequence of collisions, deletions and growth.
TableIsMap ==
  /\ entries # <<>> => \E i \in DOMAIN entries : entries[i] = Empty
  /\ count = Cardinality({i \in DOMAIN entries : entries[i] # Empty})
  /\ \A key \in Keys : ht_get(key) = contents[key]
=============================================================================
