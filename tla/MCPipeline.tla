------------------------------ MODULE MCPipeline ------------------------------
(***************************************************************************)
(* Pipeline on two small sources, each with two versions.  The first       *)
(* defines a record that it embeds in another, then changes it and drops   *)
(* its typedef.  The second knows that record only by a forward            *)
(* declaration, and has an enum with a negative enumerator within a record *)
(* and a union that goes by a typedef name; or it has an older copy of the *)
(* first record and neither enum nor union.                                *)
(***************************************************************************)
EXTENDS Pipeline

CONSTANTS
  s1, s2,                        \* the sources
  int, sc,                       \* int, signed char
  Q, G, A, P, E, U,              \* tags; A and U have no name
  q, x, y, e, l,                 \* fields
  one, minus, Qt, Pt, Ut, intt, empty

Dots == {<<q, x>>, <<q, y>>}
Plain == {int, sc, Q, G, P, E, q, x, y, e, l, one, minus, Qt, Pt, Ut, intt, empty}
MCName == Plain \cup Dots
MCNameLen == [n \in MCName |-> IF n \in Dots THEN 3 ELSE IF n = empty THEN 0 ELSE 1]

\* Any function will do; this one has collisions in every table.
MCHash == [n \in MCName |-> IF n \in {x, y, G, U, E, Pt} THEN 1 ELSE 2]

\* More values than a table has bytes.
MCWord == 4 :> 2^11 @@ 8 :> 2^12
MCBuiltin == int :> 4

Field(name, base, layers, alias, offset) ==
  [name |-> name, base |-> base, layers |-> layers, alias |-> alias, offset |-> offset,
   const |-> FALSE]
Tag(type, name, typedef, size, fields) ==
  [type |-> type, name |-> name, typedef |-> typedef, size |-> size, fields |-> fields]
Defined(kind, tag) == [kind |-> kind, tag |-> tag, complete |-> TRUE]
Typedef(name, base) == [kind |-> "typedef", name |-> name, tag |-> base]

\* struct G { Q q; struct { intt y; }; struct G *l; };
Around(w, size) ==
  A :> Tag("struct", empty, empty, 4, << Field(y, int, << >>, intt, 0) >>)
  @@ G :> Tag("struct", G, empty, size + 4 + w,
              << Field(q, Q, << >>, Qt, 0), Field(empty, A, << >>, empty, size),
                 Field(l, G, << 0 >>, empty, size + 4) >>)

\* typedef int intt; typedef struct Q { int x[3]; intt y; } Qt;
OldQ == Q :> Tag("struct", Q, empty, 16,
                 << Field(x, int, << 3 >>, empty, 0), Field(y, int, << >>, intt, 12) >>)
OldQDecls == << Typedef(intt, int), Defined("record", Q), Typedef(Qt, Q) >>
RDecls == << Defined("record", G), Defined("record", A) >>

First(w) == [arch |-> w, tags |-> OldQ @@ Around(w, 16), decls |-> OldQDecls \o RDecls]

\* struct Q { signed char y; int *x; };
Changed(w) ==
  [arch |-> w,
   tags |-> Q :> Tag("struct", Q, empty, 2 * w,
                     << Field(y, sc, << >>, empty, 0), Field(x, int, << 0 >>, empty, w) >>)
            @@ Around(w, 2 * w),
   decls |-> << Defined("record", Q) >> \o RDecls]

\* typedef struct P { struct Q *q; enum E { one = 1, minus = -1 } e; } Pt;
\* typedef union { int x; struct Q **l[2]; } Ut;
Second(w) ==
  [arch |-> w,
   tags |-> P :> Tag("struct", P, empty, 2 * w,
                     << Field(q, Q, << 0 >>, empty, 0), Field(e, E, << >>, empty, w) >>)
            @@ E :> Tag("enum", E, empty, 4,
                        << [name |-> one, value |-> 1], [name |-> minus, value |-> -1] >>)
            @@ U :> Tag("union", empty, Ut, 2 * w,
                        << Field(x, int, << >>, empty, 0), Field(l, Q, << 2, 0, 0 >>, empty, 0) >>)
            @@ Q :> Tag("struct", Q, empty, 0, << >>),
   decls |-> << [Defined("record", Q) EXCEPT !.complete = FALSE], Defined("record", P),
                Defined("enum", E), Typedef(Pt, P), Defined("record", U), Typedef(Ut, U) >>]

\* struct P { Qt q; };
Copy(w) ==
  [arch |-> w,
   tags |-> OldQ @@ P :> Tag("struct", P, empty, 16, << Field(q, Q, << >>, Qt, 0) >>),
   decls |-> OldQDecls \o << Defined("record", P) >>]

\* For four bytes only one version of each.
MCCompilations ==
  8 :> {[source |-> s1, unit |-> First(8)], [source |-> s1, unit |-> Changed(8)],
        [source |-> s2, unit |-> Second(8)], [source |-> s2, unit |-> Copy(8)]}
  @@ 4 :> {[source |-> s1, unit |-> First(4)], [source |-> s2, unit |-> Second(4)]}
=============================================================================
