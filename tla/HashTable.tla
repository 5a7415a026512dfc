----------------------------- MODULE HashTable -----------------------------
(***************************************************************************)
(* The chained hash table of src/hashtable.c.  A table is an array of      *)
(* buckets; the first entry of a chain lives in the array itself, the      *)
(* others in malloc'ed nodes linked by next.  Only the order of a chain    *)
(* matters to the code, so a bucket is the sequence of its entries: a      *)
(* bucket whose data.name is NULL is the empty sequence.                   *)
(*                                                                         *)
(* hash_fnv1a is the constant Hash: nothing the table promises depends on  *)
(* which function of the key it is.                                        *)
(***************************************************************************)
EXTENDS Integers, Sequences, FiniteSetsExt

CONSTANTS
  Name,   \* the C strings used as keys
  Hash    \* hash_fnv1a, before the reduction modulo the capacity

ASSUME HashAssumption == Hash \in [Name -> Nat]

\* (size_t)-1, what hashtable_get answers when no entry has the key.
NotFound == -1

\* calloc leaves every bucket with a NULL name.
hashtable_create(capacity) ==
  [capacity |-> capacity, data |-> [b \in 0 .. capacity - 1 |-> <<>>]]

\* hash_fnv1a(key) % ht->capacity: undefined when the table has no bucket.
HashKey(ht, key) == Hash[key] % ht.capacity

\* The positions of a chain where strcmp finds the key, and the first of
\* them, where both loops stop.
Matches(chain, key) == {k \in 1 .. Len(chain) : chain[k].name = key}
FirstMatch(chain, key) == Min(Matches(chain, key))

\* Faulty: the place in the chain for the id stored there.
GetsPosition(ht, key) ==
  LET chain == ht.data[HashKey(ht, key)]
  IN  IF Matches(chain, key) = {} THEN NotFound ELSE FirstMatch(chain, key) + 1

\* Faulty: the entries after the first are not looked at.
GetsFromHead(ht, key) ==
  LET chain == ht.data[HashKey(ht, key)]
  IN  IF 1 \in Matches(chain, key) THEN chain[1].id ELSE NotFound

hashtable_get(ht, key) ==
  LET chain == ht.data[HashKey(ht, key)]
  IN  IF Matches(chain, key) = {} THEN NotFound
                                  ELSE chain[FirstMatch(chain, key)].id

\* Faulty: a key in the chain is not noticed.
AlwaysAppends(chain, value) == Append(chain, value)

\* Faulty: a collision replaces the bucket.
ReplacesChain(chain, value) == << value >>

\* A key already in the chain has its entry overwritten in place, a new key
\* goes to the end of the chain (the bucket itself when it is empty).
ChainInsert(chain, value) ==
  IF Matches(chain, value.name) = {}
  THEN Append(chain, value)
  ELSE [chain EXCEPT ![FirstMatch(chain, value.name)] = value]

hashtable_insert(ht, value) ==
  [ht EXCEPT !.data[HashKey(ht, value.name)] = ChainInsert(@, value)]

-----------------------------------------------------------------------------

hash_t(Ids) == [name : Name, id : Ids]

\* The tables of a capacity, with ids from a set.
Tables(capacity, Ids) ==
  [capacity : {capacity}, data : [0 .. capacity - 1 -> Seq(hash_t(Ids))]]

\* Every entry is in the bucket its key hashes to, and no key has two.
WellFormed(ht) ==
  \A b \in 0 .. ht.capacity - 1 :
    \A k \in 1 .. Len(ht.data[b]) :
      /\ HashKey(ht, ht.data[b][k].name) = b
      /\ \A l \in 1 .. Len(ht.data[b]) :
           ht.data[b][k].name = ht.data[b][l].name => k = l
=============================================================================
