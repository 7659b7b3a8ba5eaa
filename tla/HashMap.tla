------------------------------ MODULE HashMap -------------------------------
(* The open-addressing hash map of util/hash_map.c: Robin Hood hashing with
   linear probing and backward-shift deletion.  A slot with psl 0 is empty.
   The hash function is any function, chosen at the start.                    *)
EXTENDS Naturals, FiniteSets

CONSTANTS Keys, Values, None,
  Hashes,      \* values of hash_u64
  MinCapacity  \* NXP_HASH_MAP_MIN_CAPACITY

VARIABLES
  hash,     \* hash_u64
  entries,  \* slots 0..capacity-1
  count,
  reply     \* the last call: what it did, its key, the value it returned

hm_vars == <<hash, entries, count, reply>>

Empty == [key |-> None, value |-> None, psl |-> 0]
Table(capacity) == [i \in 0..(capacity - 1) |-> Empty]
Slots(t) == Cardinality(DOMAIN t)
After(t, i) == (i + 1) % Slots(t)

HashInit ==
  /\ hash \in [Keys -> Hashes]
  /\ entries = Table(MinCapacity) /\ count = 0 /\ reply = <<>>

\* The poorer of the two gets the slot.
Swaps(resident, e) == resident.psl < e.psl

\* Put e into table t from slot i on.  own is the entry of the caller of put,
\* Empty while a table is rebuilt.
RECURSIVE Place(_, _, _, _)
Place(t, i, e, own) ==
  IF t[i].psl = 0 THEN [t EXCEPT ![i] = e]
  ELSE IF t[i].key = own.key THEN [t EXCEPT ![i].value = own.value]
  ELSE IF Swaps(t[i], e)
       THEN Place([t EXCEPT ![i] = e], After(t, i), [t[i] EXCEPT !.psl = @ + 1], own)
       ELSE Place(t, After(t, i), [e EXCEPT !.psl = @ + 1], own)

Entry(k, v) == [key |-> k, value |-> v, psl |-> 1]

\* The entries of t from slot i on are inserted in a table twice the size.
RECURSIVE Rebuilt(_, _, _)
Rebuilt(t, i, new) ==
  IF i = Slots(t) THEN new
  ELSE Rebuilt(t, i + 1, IF t[i].psl = 0 THEN new
                         ELSE Place(new, hash[t[i].key] % Slots(new), Entry(t[i].key, t[i].value), Empty))
hash_map_resize(t) == Rebuilt(t, 0, Table(2 * Slots(t)))

Occupied(t) == {i \in DOMAIN t : t[i].psl > 0}

\* Mutant: the search ends at an entry as far from home as the key would be.
ends_too_early(t, i, psl) == t[i].psl <= psl
SearchEnds(t, i, psl) == t[i].psl = 0 \/ t[i].psl < psl

\* The slot of a key, or None.
RECURSIVE Find(_, _, _, _)
Find(t, i, psl, k) ==
  IF SearchEnds(t, i, psl) THEN None
  ELSE IF t[i].key = k THEN i ELSE Find(t, After(t, i), psl + 1, k)

Lookup(k) == Find(entries, hash[k] % Slots(entries), 1, k)
nxp_hash_map_get(k) == IF Lookup(k) = None THEN None ELSE entries[Lookup(k)].value

AtLoadLimit(n, capacity) == n * 100 >= capacity * 75

\* The count goes up when put ends at an empty slot.  The resize may fail for
\* want of memory; put returns early then.
nxp_hash_map_put(k, v) ==
  LET full == AtLoadLimit(count, Slots(entries))
      t    == IF full THEN hash_map_resize(entries) ELSE entries
      after == Place(t, hash[k] % Slots(t), Entry(k, v), Entry(k, v))
      added == Cardinality(Occupied(after)) - Cardinality(Occupied(t))
  IN  /\ \/ /\ entries' = after /\ count' = count + added
            /\ reply' = <<"put", k, IF added = 1 THEN None ELSE nxp_hash_map_get(k)>>
         \/ full /\ reply' = <<"full", k, None>> /\ UNCHANGED <<entries, count>>
      /\ UNCHANGED hash

MovedBack(e) == [e EXCEPT !.psl = @ - 1]

\* Backward shift: entries move up until one is at home or a slot is empty.
RECURSIVE Shifted(_, _)
Shifted(t, i) ==
  IF t[After(t, i)].psl <= 1 THEN [t EXCEPT ![i] = Empty]
  ELSE Shifted([t EXCEPT ![i] = MovedBack(t[After(t, i)])], After(t, i))

nxp_hash_map_remove(k) ==
  /\ \/ Lookup(k) = None /\ UNCHANGED <<entries, count>>
     \/ Lookup(k) # None /\ entries' = Shifted(entries, Lookup(k)) /\ count' = count - 1
  /\ reply' = <<"remove", k, nxp_hash_map_get(k)>>
  /\ UNCHANGED hash

HashNext == \E k \in Keys : nxp_hash_map_remove(k) \/ \E v \in Values : nxp_hash_map_put(k, v)

-----------------------------------------------------------------------------
=============================================================================
