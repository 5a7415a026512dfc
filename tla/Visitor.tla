------------------------------- MODULE Visitor -------------------------------
(***************************************************************************)
(* The clang plugin on one translation unit: ReflectClangVisitor collects  *)
(* records, enums, base types and typedef names from the declarations it   *)
(* is shown, and ReflectClangConsumer has them written when the traversal  *)
(* is over.                                                                *)
(*                                                                         *)
(* Clang is external: a unit is the sequence of the declarations it shows, *)
(* a record before what is declared inside it, for each tag what the code  *)
(* asks of its definition, and the size of a pointer on the target, which  *)
(* the consumer passes on.                                                 *)
(* TypeID is left out: nothing reads it.                                   *)
(***************************************************************************)
EXTENDS ReflectionDat

CONSTANTS
  Units,      \* each with its arch, its decls and its tags
  Builtin     \* RegisterBaseTypes: the base types known from the start, by size

\* What C and clang grant: the kind of a declaration is that of its tag, and
\* a tag is defined once.
ASSUME UnitsAssumption ==
  \A u \in Units :
    /\ Len(u.decls) \in Nat /\ DOMAIN u.decls = 1 .. Len(u.decls)
    /\ \A tag \in DOMAIN u.tags :
         /\ u.tags[tag].type \in {"struct", "union", "enum"}
         /\ u.tags[tag].size \in Nat
         /\ Len(u.tags[tag].fields) \in Nat
         /\ DOMAIN u.tags[tag].fields = 1 .. Len(u.tags[tag].fields)
    /\ \A i \in DOMAIN u.decls :
         u.decls[i].kind \in {"record", "enum"} =>
           /\ u.decls[i].tag \in DOMAIN u.tags
           /\ u.decls[i].kind = "enum" <=> u.tags[u.decls[i].tag].type = "enum"
           /\ \A j \in DOMAIN u.decls :
                /\ u.decls[j].kind \in {"record", "enum"}
                /\ u.decls[i].complete /\ u.decls[j].complete
                /\ u.decls[i].tag = u.decls[j].tag
                => i = j

\* C and clang on records: a field has a name without dots, or the empty one,
\* and a place; no record is nested in itself, so of any records there is one
\* that has none of them for a field.
ASSUME FieldsAssumption ==
  \A u \in Units :
    LET records == {tag \in DOMAIN u.tags : u.tags[tag].type # "enum"}
    IN  /\ IsFiniteSet(records)
        /\ \A tag \in records : \A k \in DOMAIN u.tags[tag].fields :
             /\ u.tags[tag].fields[k].name \in DOMAIN NameLen \ Seq(DOMAIN NameLen)
             /\ u.tags[tag].fields[k].offset \in Nat
        /\ \A some \in SUBSET records \ {{}} :
             \E tag \in some : \A k \in DOMAIN u.tags[tag].fields :
               u.tags[tag].fields[k].layers = <<>> =>
                 u.tags[tag].fields[k].base \notin some

ASSUME BuiltinAssumption ==
  /\ IsFiniteSet(DOMAIN Builtin)
  /\ \A n \in DOMAIN Builtin : Builtin[n] \in Nat

VARIABLES
  unit, next,       \* the unit, and the declaration shown next
  Results,          \* the records and ...
  EnumResults,      \* ... the enums visited, in order
  BaseTypes,        \* name -> variant and size
  PendingAliases,   \* tag -> typedef names not handed to its type yet
  output            \* the types written, <<>> before that

vars == <<unit, next, Results, EnumResults, BaseTypes, PendingAliases, output>>

-----------------------------------------------------------------------------
\* CreateFieldInfo

\* The layers of a declared type from the outside in: a pointer, or an array
\* of so many elements.
Pointer == 0

\* How many of the first layers are of some kinds.
Leading(layers, kinds) ==
  Max({n \in 0 .. Len(layers) : \A k \in 1 .. n : layers[k] \in kinds})

\* The elements of an array of arrays.
Elements(layers) == FoldLeft(LAMBDA product, n : product * n, 1, layers)

\* The name of a tag, or the typedef name an unnamed one goes by.
TagName(tag) == LET def == unit.tags[tag]
                IN  IF def.name = EmptyName THEN def.typedef ELSE def.name

IsTag(base) == base \in DOMAIN unit.tags
IsRecord(base) == IsTag(base) /\ unit.tags[base].type # "enum"

\* The canonical name of what is left when arrays and then pointers are
\* peeled off.  Clang makes one up for an enum that has none, and for what
\* has layers left.
CleanName(base, layers) ==
  IF layers # <<>> THEN <<base, layers>>
  ELSE IF ~IsTag(base) THEN base
  ELSE IF TagName(base) = EmptyName /\ ~IsRecord(base) THEN << "unnamed", base >>
  ELSE TagName(base)

CreateFieldInfo(f, name, offset) ==
  LET arrays   == Leading(f.layers, Nat \ {Pointer})
      inner    == SubSeq(f.layers, arrays + 1, Len(f.layers))
      pointers == Leading(inner, {Pointer})
      rest     == SubSeq(inner, pointers + 1, Len(inner))
      elements == Elements(SubSeq(f.layers, 1, arrays))
  IN  [name |-> name, type |-> CleanName(f.base, rest), offset |-> offset,
       pdepth |-> pointers, arrsize |-> IF elements > 1 THEN elements ELSE 0,
       const |-> f.const, struct |-> rest = <<>> /\ IsRecord(f.base), alias |-> f.alias]

-----------------------------------------------------------------------------
\* The fields of a record

\* The dotted name of a field: the names on the way to it.
Dotted(prefix, name) == IF prefix = <<>> THEN name ELSE Append(prefix, name)

\* A field that is itself a record has its fields flattened after it.
Embeds(f) == f.layers = <<>> /\ IsRecord(f.base)

\* Faulty: the offset of the record around it is forgotten.
NestedOffsetAlone(baseOffset, f) == f.offset

\* Where the fields of a nested record are counted from.
NestedOffset(baseOffset, f) == baseOffset + f.offset

\* A nested record without name adds nothing to the prefix.
NestedPrefix(prefix, f) == IF f.name = EmptyName THEN prefix ELSE Append(prefix, f.name)

Records == {tag \in DOMAIN unit.tags : IsRecord(tag)}

\* Where a record is reached: which, under what prefix, and at what offset.
Places == Records \X Seq(DOMAIN NameLen) \X Nat

\* The fields of a record, each followed by those nested in it.
AllFields(record) ==
  LET fields[place \in Places] ==
        LET prefix == place[2]
            baseOffset == place[3]
        IN  FlattenSeq([k \in DOMAIN unit.tags[place[1]].fields |->
              LET f == unit.tags[place[1]].fields[k]
              IN  << CreateFieldInfo(f, Dotted(prefix, f.name), baseOffset + f.offset) >>
                  \o IF Embeds(f)
                     THEN fields[<< f.base, NestedPrefix(prefix, f), NestedOffset(baseOffset, f) >>]
                     ELSE <<>>])
  IN  fields[<< record, <<>>, 0 >>]

\* Those of its own, without the nested ones.
OwnFields(record) ==
  [k \in DOMAIN unit.tags[record].fields |->
     LET f == unit.tags[record].fields[k] IN CreateFieldInfo(f, f.name, f.offset)]

-----------------------------------------------------------------------------
\* BaseTypes

\* std::unordered_map::emplace leaves a key that is there alone.
Emplace(types, name, variant, size) ==
  IF name \in DOMAIN types THEN types
  ELSE Set(types, name, [variant |-> variant, size |-> size])

\* Faulty: an unknown type is only warned about.
RegisterAliasOnly(types, fi) ==
  IF fi.struct \/ fi.alias \in {EmptyName, fi.type} \/ fi.type \notin DOMAIN types
  THEN types
  ELSE Emplace(types, fi.alias, "base", types[fi.type].size)

\* The type of a field becomes a base type when it is not known; the typedef
\* it was declared with becomes one, too, of the same size.
RegisterFieldType(types, fi) ==
  IF fi.struct THEN types
  ELSE LET known == Emplace(types, fi.type, "base", 0)
       IN  IF fi.alias \in {EmptyName, fi.type} THEN known
           ELSE Emplace(known, fi.alias, "base", known[fi.type].size)

\* The types of the fields of a record, one after the other.
RegisterFieldTypes(types, fields) ==
  LET known[k \in 0 .. Len(fields)] ==
        IF k = 0 THEN types ELSE RegisterFieldType(known[k - 1], fields[k])
  IN  known[Len(fields)]

-----------------------------------------------------------------------------
\* Aliases

AddAlias(aliases, alias) ==
  IF Contains(aliases, alias) THEN aliases ELSE Append(aliases, alias)

AddMissing(aliases, more) ==
  LET all[k \in 0 .. Len(more)] ==
        IF k = 0 THEN aliases ELSE AddAlias(all[k - 1], more[k])
  IN  all[Len(more)]

Pending(tag) == IF tag \in DOMAIN PendingAliases THEN PendingAliases[tag] ELSE <<>>

\* MergePendingAliasesFor: the aliases of a type that is visited, and what
\* stays pending.
TakePending(tag) ==
  PendingAliases' = [t \in DOMAIN PendingAliases \ {tag} |-> PendingAliases[t]]

\* MergePendingAliases, for one list of types.
Merged(types) ==
  [k \in DOMAIN types |-> [types[k] EXCEPT !.aliases = AddMissing(@, Pending(types[k].tag))]]

-----------------------------------------------------------------------------
\* What is written of a type: the tag is known to the visitor only.

Entry(d) == [type |-> d.type, name |-> d.name, size |-> d.size,
             fields |-> d.fields, aliases |-> d.aliases]

\* The entries of BaseTypes that stand for base types.  The order is that of
\* an unordered_map: one is as good as another.
BaseEntries ==
  LET names == SetToSeq({n \in DOMAIN BaseTypes : BaseTypes[n].variant = "base"})
  IN  [k \in DOMAIN names |->
         [type |-> "base", name |-> names[k], size |-> BaseTypes[names[k]].size,
          fields |-> <<>>, aliases |-> <<>>]]

Entries(types) == [k \in DOMAIN types |-> Entry(types[k])]

\* Faulty: base types are written after enums.
BasesWrittenLast(records, enums) == Entries(records) \o Entries(enums) \o BaseEntries

TextOrder(records, enums) == BaseEntries \o Entries(records) \o Entries(enums)

-----------------------------------------------------------------------------

Init ==
  /\ unit \in Units
  /\ next = 1
  /\ Results = <<>>
  /\ EnumResults = <<>>
  /\ BaseTypes = [n \in DOMAIN Builtin |-> [variant |-> "base", size |-> Builtin[n]]]
  /\ PendingAliases = <<>>
  /\ output = <<>>

decl == unit.decls[next]

\* The next declaration is of a kind, and is done with.
Shown(kind) ==
  /\ next <= Len(unit.decls)
  /\ decl.kind = kind
  /\ next' = next + 1
  /\ UNCHANGED <<unit, output>>

\* Only a definition is taken in, and only one that has a name to go by.
Wanted == decl.complete /\ TagName(decl.tag) # EmptyName

SkipTag ==
  /\ \E kind \in {"record", "enum"} : Shown(kind)
  /\ ~Wanted
  /\ UNCHANGED <<Results, EnumResults, BaseTypes, PendingAliases>>

VisitRecordDecl ==
  LET tag == decl.tag
      def == unit.tags[tag]
  IN  /\ Shown("record")
      /\ Wanted
      /\ Results' = Append(Results,
           [tag |-> tag, type |-> def.type, name |-> TagName(tag), size |-> def.size,
            fields |-> AllFields(tag), aliases |-> AddMissing(<<>>, Pending(tag))])
      /\ BaseTypes' = Emplace(RegisterFieldTypes(BaseTypes, OwnFields(tag)),
                              TagName(tag), def.type, def.size)
      /\ TakePending(tag)
      /\ UNCHANGED EnumResults

VisitEnumDecl ==
  LET tag == decl.tag
      def == unit.tags[tag]
  IN  /\ Shown("enum")
      /\ Wanted
      /\ EnumResults' = Append(EnumResults,
           [tag |-> tag, type |-> "enum", name |-> TagName(tag), size |-> def.size,
            fields |-> def.fields, aliases |-> AddMissing(<<>>, Pending(tag))])
      /\ BaseTypes' = Emplace(BaseTypes, TagName(tag), "enum", def.size)
      /\ TakePending(tag)
      /\ UNCHANGED Results

\* Faulty: a typedef of any type is pending.
RecordsAnyTypedef ==
  /\ Shown("typedef")
  /\ PendingAliases' =
       Set(PendingAliases, decl.tag, Append(Pending(decl.tag), decl.name))
  /\ UNCHANGED <<Results, EnumResults, BaseTypes>>

\* A typedef of anything but a tag is passed over.
VisitTypedefDecl ==
  /\ Shown("typedef")
  /\ PendingAliases' =
       IF ~IsTag(decl.tag) THEN PendingAliases
       ELSE Set(PendingAliases, decl.tag, Append(Pending(decl.tag), decl.name))
  /\ UNCHANGED <<Results, EnumResults, BaseTypes>>

\* Faulty: the aliases still pending are not merged.
WritesUnmerged ==
  /\ next > Len(unit.decls)
  /\ output = <<>>
  /\ PendingAliases' = <<>>
  /\ output' = TextOrder(Results, EnumResults)
  /\ UNCHANGED <<unit, next, BaseTypes, Results, EnumResults>>

\* The traversal is over: what is pending still is merged, all is written.
HandleTranslationUnit ==
  /\ next > Len(unit.decls)
  /\ output = <<>>
  /\ Results' = Merged(Results)
  /\ EnumResults' = Merged(EnumResults)
  /\ PendingAliases' = <<>>
  /\ output' = TextOrder(Results', EnumResults')
  /\ UNCHANGED <<unit, next, BaseTypes>>

Next ==
  \/ SkipTag \/ VisitRecordDecl \/ VisitEnumDecl \/ VisitTypedefDecl
  \/ HandleTranslationUnit

Spec == Init /\ [][Next]_vars

-----------------------------------------------------------------------------

Finished == output # <<>>

Visited == Results \o EnumResults

\* The variables have their types.
TypeOK ==
  /\ next \in 1 .. Len(unit.decls) + 1
  /\ \A k \in DOMAIN Results : Results[k].type \in {"struct", "union"}
  /\ \A k \in DOMAIN EnumResults : EnumResults[k].type = "enum"
  /\ \A n \in DOMAIN BaseTypes :
       BaseTypes[n] \in [variant : {"base", "struct", "union", "enum"}, size : Nat]
  /\ DOMAIN PendingAliases \subseteq DOMAIN unit.tags

\* The typedef names a unit gives to a tag.
TypedefsOf(tag) ==
  {d.name : d \in {d \in ToSet(unit.decls) : d.kind = "typedef" /\ d.tag = tag}}

\* Every typedef name of a type that is written is one of its aliases, once,
\* and no name of another type is: wherever the typedefs stand among the
\* declarations and the definition of the tag, and however often they are
\* repeated (ReflectVisitor.cpp:115-152, ReflectVisitor.hpp:54-64).
AliasesReachTheirTypes ==
  Finished =>
    \A k \in DOMAIN Visited :
      LET aliases == Visited[k].aliases
      IN  /\ ToSet(aliases) = TypedefsOf(Visited[k].tag)
          /\ \A i, j \in DOMAIN aliases : aliases[i] = aliases[j] => i = j

\* The name of a tag means that tag to whoever reads the file: the last
\* entry of the name is the tag's, even when a field made a base type of the
\* name before the tag was visited (ReflectVisitor.cpp:48-51, 81, 110).
TagsKeepTheirNames ==
  Finished =>
    \A k \in DOMAIN Visited :
      LET named == {i \in DOMAIN output : output[i].name = Visited[k].name}
      IN  output[Max(named)] = Entry(Visited[k])

\* A field of a record as it is in another that has the record under a name and
\* at an offset.
AsNames(name) == IF name \in Seq(DOMAIN NameLen) THEN name ELSE << name >>
FieldUnder(g, name, offset) ==
  [g EXCEPT !.name = << name >> \o AsNames(g.name), !.offset = @ + offset]

\* A record within a record: its fields are found there, as they are in its
\* own entry, under dotted names and at the place where they are in memory
\* (ReflectVisitor.cpp:67-74, 154-179).
EmbeddedRecordsAgree ==
  \A r, q \in ToSet(Results) :
    \A f \in ToSet(unit.tags[r.tag].fields) :
      Embeds(f) /\ f.base = q.tag /\ f.name # EmptyName =>
        \A g \in ToSet(q.fields) : FieldUnder(g, f.name, f.offset) \in ToSet(r.fields)

\* The fields that merge.py will keep of the entry of a type, each with the
\* type it will refer to.
KeptFields(d) == ToSet(Written(output, d))
Known(f) == f.type \in TypeNames(output)

\* The types of all fields that stand in records with a name are in the file:
\* base types are registered by the record that has the field, and by no
\* other on the way (ReflectVisitor.cpp:47-63).
FieldTypesKnown ==
  Finished =>
    \A r \in ToSet(Results) :
      \A f \in ToSet(OwnFields(r.tag)) : Kept(output, f) => Known(f)

\* "Iterate through the fields of a struct. Nested fields are also included"
\* (README.md:99-103), and the loop prints field->type_ptr->name: every field
\* that a loop will visit has a type in the file.
IteratedFieldsHaveTypes ==
  Finished => \A r \in ToSet(Results) : \A f \in KeptFields(r) : Known(f)
=============================================================================
