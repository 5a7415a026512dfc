------------------------------ MODULE MCLoader ------------------------------
(***************************************************************************)
(* Loader on a small instance: every file of at most three types made of   *)
(* one base type, one record and one enum in every order, so that          *)
(*   - a field points back, forward, to its own type, or to no type;       *)
(*   - a field of record type is kept or dropped by the writer;            *)
(*   - two fields share a name, a field has none, a type has no field;     *)
(*   - an alias takes the name of another type, or another type takes it;  *)
(* each with two word sizes, borrowing or copying its names.  The enum has *)
(* a negative enumerator: with a word size of four it cannot be written.   *)
(***************************************************************************)
EXTENDS Loader, TLC

CONSTANTS i, s, e, x, u, empty

MCName == {i, s, e, x, u, empty}

\* Names of different lengths, two pairs of them in collision.
MCNameLen == i :> 3 @@ s :> 2 @@ e :> 1 @@ x :> 4 @@ u :> 5 @@ empty :> 0
MCHash == i :> 0 @@ s :> 12 @@ e :> 1 @@ x :> 12 @@ u :> 2 @@ empty :> 13

MCStrings == << s, x, i, empty, u, e >>

\* More values than a file has bytes.
MCWord == 4 :> 256 @@ 8 :> 512

MCFieldInfo ==
  [name : MCName, is_const : BOOLEAN, ptr_depth : {0, 2}, offset : {0, 5},
   arr_size : {0, 5}, type_ptr : 0 .. 3]

Field(name, type, struct, const, pdepth, offset, arrsize) ==
  [name |-> name, type |-> type, struct |-> struct, const |-> const,
   pdepth |-> pdepth, offset |-> offset, arrsize |-> arrsize]

Number == Field(x, i, FALSE, TRUE, 0, 0, 5)
Link == Field(e, s, TRUE, FALSE, 2, 5, 0)   \* a pointer to the record itself
Same == Field(x, e, FALSE, FALSE, 0, 5, 0)   \* the name of Number again
Unnamed == Field(empty, i, FALSE, FALSE, 0, 5, 0)
Opaque == Field(x, u, TRUE, FALSE, 2, 5, 0)  \* a record that is in no file

BaseTypes ==
  {[type |-> "base", name |-> i, size |-> 4, fields |-> << >>, aliases |-> << >>]}

Records ==
  {[type |-> "struct", name |-> s, size |-> 8, fields |-> f, aliases |-> al] :
     f \in {<< Number, Link >>, << Same, Number >>, << Unnamed, Opaque >>},
     al \in {<< >>, << e >>, << u, i >>}}
  \cup
  {[type |-> "union", name |-> s, size |-> 8, fields |-> f, aliases |-> << u >>] :
     f \in {<< Opaque >>, << Link, Unnamed >>}}

Enums ==
  {[type |-> "enum", name |-> e, size |-> 4, fields |-> f, aliases |-> al] :
     f \in {<< >>, << [name |-> x, value |-> 9], [name |-> i, value |-> -1] >>},
     al \in {<< >>, << u, s >>}}

MCTypeMaps ==
  {m \in BoundedSeq(BaseTypes \cup Records \cup Enums, 3) :
     \A j, k \in DOMAIN m : m[j].name = m[k].name => j = k}
=============================================================================
