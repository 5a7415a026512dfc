-------------------------- MODULE NameTableProofs --------------------------
(***************************************************************************)
(* NameTable keeps its table well formed and implements NameMap, for every *)
(* set of names and ids, every hash function and every capacity.           *)
(***************************************************************************)
EXTENDS NameTable, DataProofs

\* The inductive invariant: the type of the variables and the shape of the
\* table.  Without the shape a second match could answer for a key.
TableInv == TypeOK /\ TableWellFormed

LEMMA TableInvInit == Init => TableInv
BY TableAssumption, TableCreated DEF Init, TableInv, TypeOK, TableWellFormed

LEMMA TableInvNext == TableInv /\ [Next]_vars => TableInv'
<1> SUFFICES ASSUME TableInv, [Next]_vars
             PROVE  TableInv'
  OBVIOUS
<1> USE TableAssumption DEF TableInv, TypeOK, TableWellFormed
<1>1. ASSUME NEW n \in Name, Get(n)
      PROVE  TableInv'
  BY <1>1, TableAnswers DEF Get
<1>2. ASSUME NEW n \in Name, NEW i \in Id, Insert(n, i)
      PROVE  TableInv'
  <2>1. [name |-> n, id |-> i] \in hash_t(Id)
    BY DEF hash_t
  <2> QED
    BY <1>2, <2>1, TableInserted DEF Insert
<1>3. CASE UNCHANGED vars
  BY <1>3 DEF vars
<1> QED
  BY <1>1, <1>2, <1>3 DEF Next

\* At every moment each key of the table is stored once and in the bucket it
\* hashes to, so both loops of hashtable.c stop at the only entry there is.
THEOREM TableStaysWellFormed == Spec => [](TypeOK /\ TableWellFormed)
BY TableInvInit, TableInvNext, PTL DEF Spec, TableInv

\* A lookup answers an id or NotFound, and the table has its buckets.
THEOREM TypeCorrect == Spec => []TypeOK
BY TableStaysWellFormed, PTL

LEMMA MapInit == Init => Map!Init
BY TableAssumption, TableCreated DEF Init, Map!Init, Contents

LEMMA MapStep == TableInv /\ [Next]_vars => [Map!Next]_Map!vars
<1> SUFFICES ASSUME TableInv, [Next]_vars
             PROVE  [Map!Next]_Map!vars
  OBVIOUS
<1>1. ASSUME NEW n \in Name, Get(n)
      PROVE  Map!Find(n)
  BY <1>1 DEF Get, Map!Find, Contents
<1>2. ASSUME NEW n \in Name, NEW i \in Id, Insert(n, i)
      PROVE  Map!Put(n, i)
  <2>1. [name |-> n, id |-> i] \in hash_t(Id)
    BY DEF hash_t
  <2>2. ht \in Tables(Capacity, Id) /\ WellFormed(ht)
    BY DEF TableInv, TypeOK, TableWellFormed
  <2>3. ht' = hashtable_insert(ht, [name |-> n, id |-> i])
    BY <1>2 DEF Insert
  <2>4. \A m \in Name : hashtable_get(ht', m) = IF m = n THEN i ELSE hashtable_get(ht, m)
    BY <2>1, <2>2, <2>3, TableInserted, TableAssumption
  <2>5. Contents' = [Contents EXCEPT ![n] = i]
    BY <2>4 DEF Contents
  <2> QED
    BY <1>2, <2>5 DEF Insert, Map!Put
<1>3. CASE UNCHANGED vars
  BY <1>3 DEF vars, Map!vars, Contents
<1> QED
  BY <1>1, <1>2, <1>3 DEF Next, Map!Next

\* The chained table implements the map: a lookup answers the id last
\* inserted under its key, for every hash function and capacity.
THEOREM TableImplementsMap == Spec => ImplementsNameMap
<1>1. Init /\ [][Next]_vars => []TableInv
  BY TableInvInit, TableInvNext, PTL
<1> QED
  BY <1>1, MapInit, MapStep, PTL DEF Spec, ImplementsNameMap, Map!Spec
=============================================================================
