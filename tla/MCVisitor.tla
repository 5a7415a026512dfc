----------------------------- MODULE MCVisitor -----------------------------
(***************************************************************************)
(* Visitor on small units: a record Q, a record R that embeds it within a  *)
(* nested record, an enum E that is defined before R or in it, and a union *)
(* that goes by a typedef name.  Definitions and typedefs stand in every   *)
(* order that C allows, typedefs of Q twice.                               *)
(***************************************************************************)
EXTENDS Visitor

CONSTANTS
  int, sc, fn,              \* int, signed char, and a type of functions
  Q, R, N, A, B, U, E,      \* tags; A and B have no name, U has none but Ut
  q, n, x, y, e, p, a, b, call,  \* fields
  Qt, Et, Ut, intt, one, empty

MCNameLen ==
  [name \in {int, sc, fn, Q, R, N, E, q, n, x, y, e, p, a, b, call,
             Qt, Et, Ut, intt, one, empty} |-> 1]

MCWord == 4 :> 2^10 @@ 8 :> 2^12

MCBuiltin == int :> 4

Field(name, base, layers, alias, offset) ==
  [name |-> name, base |-> base, layers |-> layers, alias |-> alias, offset |-> offset,
   const |-> FALSE]

Tag(type, name, typedef, size, fields) ==
  [type |-> type, name |-> name, typedef |-> typedef, size |-> size, fields |-> fields]

\* struct R { enum E e;
\*            struct N { int a; Qt q; struct { void (*call)(void); }; } n;
\*            struct { int a; } b;
\*            struct R **p[2]; };
\* The enum may be declared as Et, the int as intt.
Tags(enumAlias) ==
  Q :> Tag("struct", Q, empty, 16,
           << Field(x, int, << 3 >>, empty, 0), Field(y, sc, << >>, empty, 12) >>)
  @@ A :> Tag("struct", empty, empty, 8, << Field(call, fn, << Pointer >>, empty, 0) >>)
  @@ N :> Tag("struct", N, empty, 32,
              << Field(a, int, << >>, intt, 0), Field(q, Q, << >>, Qt, 4),
                 Field(empty, A, << >>, empty, 24) >>)
  @@ B :> Tag("struct", empty, empty, 4, << Field(a, int, << >>, empty, 0) >>)
  @@ R :> Tag("struct", R, empty, 64,
              << Field(e, E, << >>, enumAlias, 0), Field(n, N, << >>, empty, 8),
                 Field(b, B, << >>, empty, 40),
                 Field(p, R, << 2, Pointer, Pointer >>, empty, 48) >>)
  @@ U :> Tag("union", empty, Ut, 4, << Field(a, int, << >>, intt, 0) >>)
  @@ E :> Tag("enum", E, empty, 4, << [name |-> one, value |-> 1] >>)

Defined(kind, tag)  == [kind |-> kind, tag |-> tag, complete |-> TRUE]
Declared(kind, tag) == [kind |-> kind, tag |-> tag, complete |-> FALSE]
Typedef(name, tag)  == [kind |-> "typedef", name |-> name, tag |-> tag]

\* What stands together, by the name of the block.
Block(inline) ==
  [Q   |-> << Defined("record", Q) >>,
   Qt  |-> << Typedef(Qt, Q) >>,
   Qt2 |-> << Typedef(Qt, Q) >>,
   E   |-> IF inline THEN << >> ELSE << Defined("enum", E) >>,
   Et  |-> << Typedef(Et, E) >>,
   R   |-> << Defined("record", R) >>
           \o (IF inline THEN << Defined("enum", E) >> ELSE << >>)
           \o << Defined("record", N), Defined("record", A), Defined("record", B) >>]

\* A type is complete before something embeds it, a typedef there before it
\* is used.
Legal(order, inline) ==
  LET Place(block) == SelectInSeq(order, LAMBDA d : d = block)
      Before(first, second) == Place(first) < Place(second)
  IN  /\ Before("Q", "R") /\ Before("Qt", "R") /\ Before("E", "Et")
      /\ inline => Before("R", "Et")
      /\ ~inline => Before("Et", "R")

MCUnits ==
  UNION { LET blocks == Block(inline)
          IN  { [arch  |-> 8,
                 tags  |-> Tags(IF inline THEN empty ELSE Et),
                 decls |-> << Typedef(intt, int), Declared("record", Q) >>
                           \o FlattenSeq([k \in DOMAIN order |-> blocks[order[k]]])
                           \o << Defined("record", U), Typedef(Ut, U) >>] :
                order \in {o \in SetToSeqs(DOMAIN blocks) : Legal(o, inline)} } :
          inline \in BOOLEAN }
=============================================================================
