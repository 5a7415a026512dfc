----------------------------- MODULE NameTable -----------------------------
(***************************************************************************)
(* One hash table in use: the calls hashtable_insert and hashtable_get in  *)
(* any order on a table of fixed capacity, as reflect.c makes them on      *)
(* type_hash_table and on the field_table of each type.  The table is      *)
(* shown to implement NameMap.                                             *)
(***************************************************************************)
EXTENDS HashTable

CONSTANTS
  Id,         \* the type or field ids stored
  Capacity    \* the capacity the table is created with

ASSUME TableAssumption ==
  /\ Capacity \in Nat \ {0}
  /\ Id \subseteq Nat

VARIABLES
  ht,
  call   \* the last call made, for NameMap to compare

vars == <<ht, call>>

Init ==
  /\ ht = hashtable_create(Capacity)
  /\ call = <<>>

Insert(n, i) ==
  /\ ht' = hashtable_insert(ht, [name |-> n, id |-> i])
  /\ call' = <<"put", n, i>>

Get(n) ==
  /\ call' = <<"find", n, hashtable_get(ht, n)>>
  /\ UNCHANGED ht

Next == \E n \in Name : Get(n) \/ \E i \in Id : Insert(n, i)

Spec == Init /\ [][Next]_vars

-----------------------------------------------------------------------------

\* The table has its type: Capacity chains of entries, and a lookup
\* answers an id or NotFound.
TypeOK ==
  /\ ht \in Tables(Capacity, Id)
  /\ \/ call = <<>>
     \/ call \in {"put"} \X Name \X Id
     \/ call \in {"find"} \X Name \X (Id \cup {NotFound})

\* A key is stored once, in its own bucket: the loops of hashtable_get and
\* hashtable_insert, which stop at the first match, then speak of the same
\* entry (hashtable.c:47-55 and 70-86).
TableWellFormed == WellFormed(ht)

\* The map a table stands for.
Contents == [n \in Name |-> hashtable_get(ht, n)]

Map == INSTANCE NameMap WITH map <- Contents, NoId <- NotFound

\* The table implements the map of names to ids: a lookup answers the id
\* most recently inserted under that very name, whatever collisions there
\* are, and inserting a name changes the answer for no other.  A call shows in
\* both, so that no insertion may pass for a step that does nothing.
ImplementsNameMap == Map!Spec
=============================================================================
