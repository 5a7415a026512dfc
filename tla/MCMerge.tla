------------------------------ MODULE MCMerge ------------------------------
(***************************************************************************)
(* Merge on a small instance: directories of up to three files, each       *)
(* readable or not, that define the same names differently: a type that    *)
(* changed its fields, a typedef one unit has and another has not, an      *)
(* unnamed field, a record with no field, a unit for another word size.    *)
(***************************************************************************)
EXTENDS Merge, TLC

CONSTANTS int, E, S, E_t, x, empty

MCNameLen == int :> 3 @@ E :> 1 @@ S :> 1 @@ E_t :> 3 @@ x :> 1 @@ empty :> 0

MCWord == 4 :> 2^10 @@ 8 :> 2^12

Base(name) ==
  [type |-> "base", name |-> name, size |-> 4, fields |-> << >>, aliases |-> << >>]

Enum(aliases) ==
  [type |-> "enum", name |-> E, size |-> 4, aliases |-> aliases,
   fields |-> << [name |-> x, value |-> 1] >>]

Field(name, type, struct, offset) ==
  [name |-> name, type |-> type, struct |-> struct, const |-> FALSE, pdepth |-> 0,
   offset |-> offset, arrsize |-> 0]

Record(type, aliases, fields) ==
  [type |-> type, name |-> S, size |-> 8, aliases |-> aliases, fields |-> fields]

File(width, types, readable) ==
  [arch |-> width, types |-> types, lines |-> serialize(width, types), readable |-> readable]
Unit(types) == File(8, types, TRUE)

\* The enum and its typedef come from a header both units include.
HeaderOnly == Unit(<< Base(int), Enum(<< E_t >>) >>)
FieldOfEnum ==
  Unit(<< Base(int), Base(E_t), Record("struct", << S >>, << Field(x, E, FALSE, 0) >>),
          Enum(<< E_t >>) >>)
NewTypes == << Base(int), Record("struct", << S, x >>, << Field(empty, empty, TRUE, 0),
                                                       Field(x, int, FALSE, 4) >>) >>
NewFields == Unit(NewTypes)
NoFields == Unit(<< Record("union", << >>, << >>), Base(int) >>)
OtherArch == File(4, << Base(int), Enum(<< E_t >>) >>, TRUE)
Unreadable == File(8, NewTypes, FALSE)

MCDirectories ==
  BoundedSeq({HeaderOnly, FieldOfEnum, NewFields, NoFields, OtherArch, Unreadable}, 3)

\* Two units with the header, the newer one with a field of the typedef.
MCTwoUnits == {<< HeaderOnly, FieldOfEnum >>}
=============================================================================
