------------------------------ MODULE Reflection ------------------------------
(***************************************************************************)
(* What ReflectC promises as a whole (README.md): a program finds, under   *)
(* its name, each struct, union, enum and base type of the C sources it    *)
(* was built from, with its size and all its fields, nested ones included, *)
(* or its enumerators.  The descriptions are defined on the C declarations *)
(* themselves, by paths through nested records, without the visitor, the   *)
(* files or the tables of the implementation.                              *)
(***************************************************************************)
EXTENDS Integers, SequencesExt

CONSTANTS
  Compilations,  \* the sources with the units they may be compiled as
  Builtin,       \* the base types every unit knows, by size
  EmptyName,     \* ""
  Outputs,       \* the tables a merge writes
  Nothing        \* what a program knows before it has loaded a table

VARIABLES
  declared,  \* the last saved compilation of each source, the newest last
  tables,    \* output -> what was declared when it was written
  known      \* name -> description, for the running program

vars == <<declared, tables, known>>

-----------------------------------------------------------------------------
\* The description of a type

IsTag(unit, base) == base \in DOMAIN unit.tags
IsRecord(unit, base) == IsTag(unit, base) /\ unit.tags[base].type # "enum"

\* An unnamed tag goes by its typedef name.
TypeName(unit, base) ==
  IF ~IsTag(unit, base) THEN base
  ELSE LET tag == unit.tags[base] IN IF tag.name = EmptyName THEN tag.typedef ELSE tag.name

\* The ways from a record to a field of its own or of a record within it.
Paths(unit, record) ==
  LET Members(tag) == ToSet(unit.tags[tag].fields)
      Within(path) == LET f == Last(path)
                      IN  IF f.layers = <<>> /\ IsRecord(unit, f.base) THEN Members(f.base)
                                                                      ELSE {}
      upTo[n \in 1 .. Cardinality(DOMAIN unit.tags)] ==
        IF n = 1 THEN {<< f >> : f \in Members(record)}
        ELSE upTo[n - 1] \cup
             UNION {{Append(path, f) : f \in Within(path)} : path \in upTo[n - 1]}
  IN  upTo[Cardinality(DOMAIN unit.tags)]

\* A field goes by the names on the way to it, but for those left empty.
FieldAt(unit, path) ==
  LET f == Last(path)
      around == SelectSeq(Front(path), LAMBDA g : g.name # EmptyName)
      names == Append([k \in DOMAIN around |-> around[k].name], f.name)
  IN  [name      |-> IF around = <<>> THEN f.name ELSE names,
       type      |-> TypeName(unit, f.base),
       is_record |-> IsRecord(unit, f.base),
       offset    |-> FoldLeft(LAMBDA sum, g : sum + g.offset, 0, path),
       ptr_depth |-> Len(SelectSeq(f.layers, LAMBDA layer : layer = 0)),
       arr_size  |-> FoldLeft(LAMBDA n, layer : IF layer = 0 THEN n ELSE layer * Max({n, 1}),
                              0, f.layers),
       is_const  |-> f.const]

Defined(unit) ==
  {d.tag : d \in {d \in ToSet(unit.decls) :
                    d.kind # "typedef" /\ d.complete /\ TypeName(unit, d.tag) # EmptyName}}

Typedefs(unit, tag) ==
  {d.name : d \in {d \in ToSet(unit.decls) : d.kind = "typedef" /\ d.tag = tag}}

TagType(unit, tag) ==
  LET def == unit.tags[tag]
  IN  [name |-> TypeName(unit, tag), typedefs |-> Typedefs(unit, tag),
       variant |-> def.type, size |-> def.size,
       fields |-> IF IsRecord(unit, tag) THEN {FieldAt(unit, p) : p \in Paths(unit, tag)}
                                         ELSE ToSet(def.fields)]

\* The base types of a unit: those built in, those of its fields and the
\* typedef names these are declared with.  The size of others is not known.
BaseTypes(unit) ==
  LET fields == {f \in UNION {ToSet(unit.tags[tag].fields) :
                               tag \in {t \in Defined(unit) : IsRecord(unit, t)}} :
                   ~IsTag(unit, f.base)}
      Size(base) == IF base \in DOMAIN Builtin THEN Builtin[base] ELSE 0
      FieldSize(f) == FoldRight(LAMBDA layer, size : IF layer = 0 THEN unit.arch ELSE layer * size,
                                f.layers, Size(f.base))
      sizes == {<<n, Builtin[n]>> : n \in DOMAIN Builtin}
               \cup {<<f.base, Size(f.base)>> : f \in fields}
               \cup {<<f.alias, FieldSize(f)>> : f \in {f \in fields : f.alias # EmptyName}}
  IN  {[name |-> p[1], typedefs |-> {}, variant |-> "base", size |-> p[2], fields |-> {}] :
         p \in sizes}

Types(unit) == {TagType(unit, tag) : tag \in Defined(unit)} \cup BaseTypes(unit)

\* What is known of some compilations: of each name the newest description,
\* under its name and its typedef names.  A field whose record is described
\* nowhere is left out.
Newest(compilations) ==
  LET types == [k \in DOMAIN compilations |-> Types(compilations[k].unit)]
      Describes(k, name) == \E d \in types[k] : d.name = name
      names == {d.name : d \in UNION {types[k] : k \in DOMAIN types}}
      newest == {CHOOSE d \in types[Max({k \in DOMAIN types : Describes(k, name)})] :
                   d.name = name : name \in names}
      Found(d) == [name |-> d.name, variant |-> d.variant, size |-> d.size,
                   fields |-> IF d.variant = "enum" THEN d.fields ELSE
                     {[name |-> f.name, type |-> f.type, offset |-> f.offset,
                       ptr_depth |-> f.ptr_depth, arr_size |-> f.arr_size,
                       is_const |-> f.is_const] :
                        f \in {f \in d.fields : f.is_record => f.type \in names}}]
  IN  [n \in names \cup UNION {d.typedefs : d \in newest} |->
         Found(CHOOSE d \in newest : n \in {d.name} \cup d.typedefs)]

-----------------------------------------------------------------------------

Init ==
  /\ declared = <<>>
  /\ tables = [o \in Outputs |-> <<>>]
  /\ known = Nothing

\* A source has been compiled (again): what it was before is forgotten.
Declare ==
  /\ \E c \in Compilations :
       LET old == {k \in DOMAIN declared : declared[k].source = c.source}
       IN  declared' =
             Append(IF old = {} THEN declared ELSE RemoveAt(declared, CHOOSE k \in old : TRUE), c)
  /\ UNCHANGED <<tables, known>>

\* A table has been written.
Publish ==
  /\ declared # <<>>
  /\ \E o \in Outputs : tables' = [tables EXCEPT ![o] = declared]
  /\ UNCHANGED <<declared, known>>

\* A program has loaded a table.
Load ==
  /\ known = Nothing
  /\ \E o \in Outputs :
       /\ tables[o] # <<>>
       /\ known' = Newest(tables[o])
  /\ UNCHANGED <<declared, tables>>

\* The program has ended.
Exit ==
  /\ known' = Nothing
  /\ UNCHANGED <<declared, tables>>

Next == Declare \/ Publish \/ Load \/ Exit

Spec == Init /\ [][Next]_vars
=============================================================================
