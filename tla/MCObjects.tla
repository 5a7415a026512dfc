----------------------------- MODULE MCObjects -----------------------------
(***************************************************************************)
(* Objects on a small instance: a struct of two fields whose names         *)
(* collide, a union of two fields at one offset, void, which has neither   *)
(* size nor fields, and memory for two objects side by side or an object   *)
(* among plain data.                                                       *)
(***************************************************************************)
EXTENDS Objects, TLC

CONSTANTS a, b, S, U, void

MCHash == a :> 1 @@ b :> 5

\* The slot of a type with two fields, as the loader builds it.
Slot(size, offsets) ==
  [size |-> size,
   fields |-> 0 :> [name |-> a, offset |-> offsets[1]]
              @@ 1 :> [name |-> b, offset |-> offsets[2]],
   field_table |->
     hashtable_insert(
       hashtable_insert(hashtable_create(4), [name |-> a, id |-> 0]),
       [name |-> b, id |-> 1])]

\* A base type has no field_table.
NoFields == [size |-> 0, fields |-> <<>>, field_table |-> NULL]

MCTypeSlot ==
  S :> Slot(2, << 0, 1 >>) @@ U :> Slot(1, << 0, 0 >>) @@ void :> NoFields

\* Nothing tells two values or two allocators apart.
MCSymmetry == Permutations(Value) \cup Permutations(Allocator)
=============================================================================
