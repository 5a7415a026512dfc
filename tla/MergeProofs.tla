---------------------------- MODULE MergeProofs ----------------------------
(***************************************************************************)
(* Proofs about the parser of merge.py, for every set of directories: that *)
(* everything a table will refer to by name is in the string volume, once, *)
(* and noted there at its place; and that the map has the newest           *)
(* definition of each name, whole.                                         *)
(*                                                                         *)
(* StringsInPlace speaks of the end of the merge only.  What carries it    *)
(* there is MergeInv: what is at hand refers to strings of the volume from *)
(* the line that names it on, the volume grows only at its end, and before *)
(* the first arch line, which starts the volume, there is nothing yet.     *)
(*                                                                         *)
(* NewestDefinitions needs to know of each line what it was written from.  *)
(* That is the second invariant, AtStart \/ InUnit: the place in the file  *)
(* is at a line of some definition, what is at hand is what the lines of   *)
(* this one say so far, and the map is that of the definitions before it.  *)
(***************************************************************************)
EXTENDS Merge, DataProofs

\* The strings a table may refer to.
Stored == {global_string_volume[k].name : k \in DOMAIN global_string_volume}

\* A field that is named refers to a stored string by its name.
FieldStored(f, strings) == "name" \in DOMAIN f => f.name \in strings

\* The object at hand: what is there of it refers to stored strings.
DataStored(d, strings) ==
  /\ "type" \in DOMAIN d =>
       /\ d.type \in {"base", "struct", "union", "enum"}
       /\ d.type # "base" => {"fields", "aliases"} \subseteq DOMAIN d
  /\ "name" \in DOMAIN d => d.name \in strings
  /\ "aliases" \in DOMAIN d => IsList(d.aliases) /\ ToSet(d.aliases) \subseteq strings
  /\ "fields" \in DOMAIN d =>
       /\ IsList(d.fields)
       /\ \A k \in DOMAIN d.fields :
            "name" \in DOMAIN d.fields[k] /\ FieldStored(d.fields[k], strings)

MapStored ==
  /\ IsList(type_name_map)
  /\ \A k \in DOMAIN type_name_map :
       /\ {"type", "name"} \subseteq DOMAIN type_name_map[k]
       /\ DataStored(type_name_map[k], Stored)

\* The volume: each string once, at its place if the files are of one arch.
VolumeInPlace ==
  /\ global_string_volume \in Seq([name : DOMAIN NameLen, offset : Nat])
  /\ \A j, k \in DOMAIN global_string_volume :
       global_string_volume[j].name = global_string_volume[k].name => j = k
  /\ OneArch => global_string_volume = Noted(arch, StringsOf(global_string_volume))

\* Where the loops are.
PlaceInv ==
  /\ files \in Directories
  /\ file \in 1 .. Len(files) + 1
  /\ line \in Nat \ {0}
  /\ is_in_field_mode \in BOOLEAN

\* The arch is that of a file that was begun; before, nothing was read.
ArchInv ==
  \/ /\ arch \in DOMAIN Word
     /\ \E k \in 1 .. Len(files) : files[k].readable /\ files[k].arch = arch
  \/ /\ arch = -1
     /\ line = 1
     /\ current_data = Empty /\ current_field_data = Empty /\ is_in_field_mode = FALSE
     /\ type_name_map = <<>> /\ global_string_volume = <<>>

MergeInv ==
  /\ PlaceInv
  /\ ArchInv
  /\ DataStored(current_data, Stored)
  /\ FieldStored(current_field_data, Stored)
  /\ MapStored
  /\ VolumeInPlace

-----------------------------------------------------------------------------
\* Dicts.

\* type_name_map[d["name"]] = d adds the object or has it take the place of
\* another.
LEMMA PutFacts ==
  ASSUME NEW m, IsList(m), NEW d
  PROVE  /\ IsList(Put(m, d))
         /\ \A k \in DOMAIN Put(m, d) : Put(m, d)[k] = d \/ \E j \in DOMAIN m : Put(m, d)[k] = m[j]
<1>1. CASE d.name \notin TypeNames(m)
  <2>1. Put(m, d) = Append(m, d)
    BY <1>1 DEF Put
  <2> QED
    BY <2>1, ListAppended
<1>2. CASE d.name \in TypeNames(m)
  <2> DEFINE at == SelectInSeq(m, LAMBDA e : e.name = d.name)
             t == [m EXCEPT ![at] = d]
  <2>1. Put(m, d) = t
    BY <1>2 DEF Put
  <2> HIDE DEF at
  <2>2. DOMAIN t = DOMAIN m /\ \A k \in DOMAIN m : t[k] = d \/ t[k] = m[k]
    OBVIOUS
  <2>3. Len(m) \in Nat /\ DOMAIN m = 1 .. Len(m)
    BY ListFacts
  <2>4. t \in [1 .. Len(m) -> {t[k] : k \in DOMAIN t}]
    BY <2>2, <2>3
  <2> HIDE DEF t
  <2>5. IsList(t)
    <3> DEFINE T == {t[k] : k \in DOMAIN t}
    <3> HIDE DEF T
    <3>1. t \in [1 .. Len(m) -> T]
      BY <2>4 DEF T
    <3>2. t \in Seq(T)
      BY <2>3, <3>1
    <3> QED
      BY <3>2, SequencesAreLists
  <2> QED
    BY <2>1, <2>2, <2>5
<1> QED
  BY <1>1, <1>2

\* What refers to strings of a volume refers to strings of a larger one.
LEMMA StoredIsMonotone ==
  ASSUME NEW A, NEW B, A \subseteq B
  PROVE  /\ \A d : DataStored(d, A) => DataStored(d, B)
         /\ \A f : FieldStored(f, A) => FieldStored(f, B)
BY DEF DataStored, FieldStored

-----------------------------------------------------------------------------
\* The text of a unit.

\* A list of lists, each of lines that name things by strings.
IsText(lines) ==
  /\ IsList(lines)
  /\ \A k \in DOMAIN lines :
       /\ lines[k].command # "arch"
       /\ lines[k].command \in {"name", "alias", "ek", "type"} => lines[k].arg \in DOMAIN NameLen

FieldWidth(d) == IF d.type = "enum" THEN 3 ELSE 8

FieldLists(d) == [k \in DOMAIN d.fields |-> FieldLines(d, d.fields[k])]

\* How many lines of a type come before its fields, and up to the k-th field.
HeadLen(d) == Len(Aliases(d)) + 3
FieldPlace(d, k) == HeadLen(d) + Before(FieldLists(d), k)

LEMMA EntryFacts ==
  ASSUME NEW d, IsEntry(d)
  PROVE  /\ IsList(Aliases(d)) /\ \A k \in DOMAIN Aliases(d) : Aliases(d)[k] \in DOMAIN NameLen
         /\ IsList(d.fields) /\ DOMAIN d.fields = 1 .. Len(d.fields) /\ Len(d.fields) \in Nat
         /\ \A k \in DOMAIN d.fields :
              /\ d.fields[k].name \in DOMAIN NameLen
              /\ d.type # "enum" => d.fields[k].type \in DOMAIN NameLen
<1>1. IsList(d.aliases) /\ IsList(d.fields)
  BY SequencesAreLists DEF IsEntry
<1>2. \A k \in DOMAIN d.aliases : d.aliases[k] \in DOMAIN NameLen
  BY <1>1, ListFacts DEF IsEntry
<1> DEFINE places == {k \in DOMAIN d.aliases : d.aliases[k] # d.name}
<1>3. Aliases(d) = Selected(d.aliases, places)
  BY DEF Aliases
<1> HIDE DEF places
<1>4. IsList(Aliases(d)) /\ \A k \in DOMAIN Aliases(d) : Aliases(d)[k] \in DOMAIN NameLen
  BY <1>1, <1>2, <1>3, SelectedFacts
<1>5. DOMAIN d.fields = 1 .. Len(d.fields) /\ Len(d.fields) \in Nat
  BY <1>1, ListFacts
<1>6. \A k \in DOMAIN d.fields : d.fields[k] \in ToSet(d.fields)
  BY DEF ToSet
<1> QED
  BY <1>1, <1>4, <1>5, <1>6 DEF IsEntry

\* The lines of a field.
LEMMA FieldLinesFacts ==
  ASSUME NEW d, IsEntry(d), NEW k \in DOMAIN d.fields
  PROVE  /\ IsText(FieldLines(d, d.fields[k]))
         /\ Len(FieldLines(d, d.fields[k])) = FieldWidth(d)
<1> DEFINE f == d.fields[k]
<1>1. f.name \in DOMAIN NameLen /\ (d.type # "enum" => f.type \in DOMAIN NameLen)
  BY EntryFacts
<1> HIDE DEF f
<1>2. CASE d.type = "enum"
  <2> DEFINE a == Line("enumerator", "")
             b == Line("ek", f.name)
             c == Line("ev", f.value)
             t == << a, b, c >>
  <2>1. FieldLines(d, f) = t
    BY <1>2 DEF FieldLines
  <2>2. /\ a.command = "enumerator" /\ b.command = "ek" /\ b.arg = f.name
        /\ c.command = "ev"
    BY DEF Line
  <2> HIDE DEF a, b, c
  <2> DEFINE S == {a, b, c}
  <2>3. t \in Seq(S) /\ Len(t) = 3
    OBVIOUS
  <2> HIDE DEF t, S
  <2>4. \A j \in DOMAIN t : t[j] \in S
    BY <2>3, SequenceElements
  <2>5. \A j \in DOMAIN t : t[j] = a \/ t[j] = b \/ t[j] = c
    BY <2>4 DEF S
  <2>6. IsText(t)
    BY <1>1, <2>2, <2>3, <2>5, SequencesAreLists DEF IsText
  <2> QED
    BY <1>2, <2>1, <2>3, <2>6 DEF f, FieldWidth
<1>3. CASE d.type # "enum"
  <2> DEFINE l1 == Line("field", "")
             l2 == Line("name", f.name)
             l3 == Line("type", f.type)
             l4 == Line("offset", f.offset)
             l5 == Line("pdepth", f.pdepth)
             l6 == Line("arrsize", f.arrsize)
             l7 == Line("const", f.const)
             l8 == Line("isstruct", f.struct)
             t == << l1, l2, l3, l4, l5, l6, l7, l8 >>
  <2>1. FieldLines(d, f) = t
    BY <1>3, Zenon DEF FieldLines
  <2>2. /\ l1.command = "field" /\ l2.command = "name" /\ l3.command = "type"
        /\ l4.command = "offset" /\ l5.command = "pdepth" /\ l6.command = "arrsize"
        /\ l7.command = "const" /\ l8.command = "isstruct"
        /\ l2.arg = f.name /\ l3.arg = f.type
    BY DEF Line
  <2> HIDE DEF l1, l2, l3, l4, l5, l6, l7, l8
  <2> DEFINE S == {l1, l2, l3, l4, l5, l6, l7, l8}
  <2>3. t \in Seq(S) /\ Len(t) = 8
    OBVIOUS
  <2> HIDE DEF t, S
  <2>4. \A j \in DOMAIN t : t[j] \in S
    BY <2>3, SequenceElements
  <2>5. \A j \in DOMAIN t : t[j] \in {l1, l2, l3, l4, l5, l6, l7, l8}
    BY <2>4 DEF S
  <2>6. IsText(t)
    BY <1>1, <1>3, <2>2, <2>3, <2>5, SequencesAreLists DEF IsText
  <2> QED
    BY <1>3, <2>1, <2>3, <2>6 DEF f, FieldWidth
<1> QED
  BY <1>2, <1>3

LEMMA FieldListsFacts ==
  ASSUME NEW d, IsEntry(d)
  PROVE  /\ IsList(FieldLists(d)) /\ AreLists(FieldLists(d))
         /\ Len(FieldLists(d)) = Len(d.fields)
         /\ \A k \in 1 .. Len(d.fields) :
              /\ FieldLists(d)[k] = FieldLines(d, d.fields[k])
              /\ IsText(FieldLists(d)[k])
              /\ Len(FieldLists(d)[k]) = FieldWidth(d)
<1> DEFINE n == Len(d.fields)
           lists == FieldLists(d)
<1>1. n \in Nat /\ DOMAIN d.fields = 1 .. n
  BY EntryFacts
<1>2. lists = [k \in 1 .. n |-> lists[k]]
  BY <1>1 DEF FieldLists
<1>3. \A k \in 1 .. n : /\ lists[k] = FieldLines(d, d.fields[k])
                        /\ IsText(lists[k])
                        /\ Len(lists[k]) = FieldWidth(d)
  BY <1>1, FieldLinesFacts DEF FieldLists
<1> HIDE DEF lists
<1>4. IsList(lists) /\ Len(lists) = n /\ DOMAIN lists = 1 .. n
  BY <1>1, <1>2, FunctionsAreLists
<1>5. AreLists(lists)
  BY <1>3, <1>4 DEF AreLists, IsText
<1> QED
  BY <1>3, <1>4, <1>5 DEF lists

\* Text after text is text.
LEMMA TextsJoined ==
  ASSUME NEW s, NEW t, IsText(s), IsText(t)
  PROVE  IsText(s \o t)
<1> DEFINE both == s \o t
<1>1. IsList(s) /\ IsList(t)
  BY DEF IsText
<1>2. /\ IsList(both) /\ Len(both) = Len(s) + Len(t)
      /\ \A k \in 1 .. Len(s) : both[k] = s[k]
      /\ \A k \in 1 .. Len(t) : both[Len(s) + k] = t[k]
  BY <1>1, ListsJoined
<1>3. /\ Len(s) \in Nat /\ DOMAIN s = 1 .. Len(s)
      /\ Len(t) \in Nat /\ DOMAIN t = 1 .. Len(t)
  BY <1>1, ListFacts
<1> HIDE DEF both
<1>4. DOMAIN both = 1 .. Len(s) + Len(t)
  BY <1>2, ListFacts
<1>5. \A k \in DOMAIN both : (\E i \in DOMAIN s : both[k] = s[i]) \/ (\E i \in DOMAIN t : both[k] = t[i])
  <2> SUFFICES ASSUME NEW k \in DOMAIN both
               PROVE  (\E i \in DOMAIN s : both[k] = s[i]) \/ (\E i \in DOMAIN t : both[k] = t[i])
    OBVIOUS
  <2>1. CASE k \in 1 .. Len(s)
    BY <1>2, <1>3, <2>1
  <2>2. CASE k \notin 1 .. Len(s)
    <3> DEFINE i == k - Len(s)
    <3>1. i \in 1 .. Len(t) /\ Len(s) + i = k
      BY <1>3, <1>4, <2>2
    <3> HIDE DEF i
    <3>2. both[k] = t[i]
      BY <1>2, <3>1
    <3> QED
      BY <1>3, <3>1, <3>2
  <2> QED
    BY <2>1, <2>2
<1>6. IsText(both)
  BY <1>2, <1>5 DEF IsText
<1> QED
  BY <1>6 DEF both

LEMMA TextsFlattened ==
  ASSUME NEW lists, AreLists(lists), \A i \in DOMAIN lists : IsText(lists[i])
  PROVE  IsText(FlattenSeq(lists))
<1> DEFINE flat == FlattenSeq(lists)
<1>1. IsList(flat)
  BY FlatPlaces
<1>2. \A k \in DOMAIN flat : \E i \in DOMAIN lists : \E j \in DOMAIN lists[i] : flat[k] = lists[i][j]
  BY FlatPlaces
<1> HIDE DEF flat
<1>3. IsText(flat)
  BY <1>1, <1>2 DEF IsText
<1> QED
  BY <1>3 DEF flat

\* One line is text.
LEMMA LineIsText ==
  ASSUME NEW l, l.command # "arch",
         l.command \in {"name", "alias", "ek", "type"} => l.arg \in DOMAIN NameLen
  PROVE  IsText(<< l >>) /\ Len(<< l >>) = 1 /\ << l >>[1] = l
<1> DEFINE t == << l >>
<1>1. t \in Seq({l}) /\ Len(t) = 1 /\ t[1] = l /\ DOMAIN t = 1 .. 1
  OBVIOUS
<1> HIDE DEF t
<1>2. IsText(t)
  BY <1>1, SequencesAreLists DEF IsText
<1> QED
  BY <1>1, <1>2 DEF t

\* The lines of a type.
TypeLen(d) == FieldPlace(d, Len(d.fields))

LEMMA PlacesInType ==
  ASSUME NEW d, IsEntry(d)
  PROVE  /\ Len(Aliases(d)) \in Nat
         /\ HeadLen(d) \in Nat /\ HeadLen(d) >= 3
         /\ FieldWidth(d) \in {3, 8}
         /\ FieldPlace(d, 0) = HeadLen(d)
         /\ \A k \in 0 .. Len(d.fields) : FieldPlace(d, k) \in Nat /\ FieldPlace(d, k) >= HeadLen(d)
         /\ \A k \in 1 .. Len(d.fields) : FieldPlace(d, k) = FieldPlace(d, k - 1) + FieldWidth(d)
<1> DEFINE n == Len(d.fields)
           lists == FieldLists(d)
           h == HeadLen(d)
<1>1. IsList(Aliases(d)) /\ n \in Nat
  BY EntryFacts
<1>2. Len(Aliases(d)) \in Nat
  BY <1>1, ListFacts
<1>3. h \in Nat /\ h >= 3
  BY <1>2 DEF HeadLen
<1>4. FieldWidth(d) \in {3, 8}
  BY DEF FieldWidth
<1>5. AreLists(lists) /\ Len(lists) = n /\ \A k \in 1 .. n : Len(lists[k]) = FieldWidth(d)
  BY FieldListsFacts
<1>6. \A k : FieldPlace(d, k) = h + Before(lists, k)
  BY DEF FieldPlace
<1> HIDE DEF n, lists, h
<1>7. /\ Before(lists, 0) = 0
      /\ \A k \in 0 .. n : Before(lists, k) \in Nat
      /\ \A k \in 1 .. n : Before(lists, k) = Before(lists, k - 1) + Len(lists[k])
  BY <1>5, BeforeGrows
<1>8. FieldPlace(d, 0) = h
  BY <1>3, <1>6, <1>7
<1>9. \A k \in 0 .. n : FieldPlace(d, k) \in Nat /\ FieldPlace(d, k) >= h
  BY <1>3, <1>6, <1>7
<1>10. ASSUME NEW k \in 1 .. n
       PROVE  FieldPlace(d, k) = FieldPlace(d, k - 1) + FieldWidth(d)
  <2>1. k - 1 \in 0 .. n
    BY <1>1
  <2>2. Before(lists, k - 1) \in Nat /\ Before(lists, k) = Before(lists, k - 1) + FieldWidth(d)
    BY <1>5, <1>7, <2>1
  <2> QED
    BY <1>3, <1>4, <1>6, <2>2
<1> QED
  BY <1>2, <1>3, <1>4, <1>8, <1>9, <1>10 DEF n, h

LEMMA TypeLinesFacts ==
  ASSUME NEW d, IsEntry(d)
  PROVE  /\ IsText(TypeLines(d))
         /\ Len(TypeLines(d)) = TypeLen(d)
         /\ TypeLines(d)[1].command = d.type
         /\ TypeLines(d)[2] = Line("name", d.name)
         /\ \A k \in 1 .. Len(Aliases(d)) : TypeLines(d)[2 + k] = Line("alias", Aliases(d)[k])
         /\ TypeLines(d)[HeadLen(d)] = Line("size", d.size)
         /\ \A j \in 1 .. Len(d.fields) : \A r \in 1 .. FieldWidth(d) :
              TypeLines(d)[FieldPlace(d, j - 1) + r] = FieldLines(d, d.fields[j])[r]
<1> DEFINE l1 == Line(d.type, "")
           l2 == Line("name", d.name)
           l3 == Line("size", d.size)
           a == << l1, l2 >>
           b == [k \in DOMAIN Aliases(d) |-> Line("alias", Aliases(d)[k])]
           c == << l3 >>
           e == FlattenSeq(FieldLists(d))
           ab == a \o b
           abc == ab \o c
           all == abc \o e
           m == Len(Aliases(d))
<1>1. TypeLines(d) = all
  BY DEF TypeLines, FieldLists
<1>2. m \in Nat /\ DOMAIN Aliases(d) = 1 .. m
  BY EntryFacts, ListFacts
<1>3. /\ l1.command = d.type /\ l2.command = "name" /\ l2.arg = d.name
      /\ l3.command = "size"
  BY DEF Line
<1>4. d.type \notin {"arch", "name", "alias", "ek", "type"} /\ d.name \in DOMAIN NameLen
  BY DEF IsEntry
<1> HIDE DEF l1, l2, l3
<1>5. IsText(a) /\ Len(a) = 2 /\ a[1] = l1 /\ a[2] = l2
  <2> DEFINE S == {l1, l2}
  <2>1. a \in Seq(S) /\ Len(a) = 2 /\ a[1] = l1 /\ a[2] = l2
    OBVIOUS
  <2> HIDE DEF a, S
  <2>2. IsList(a) /\ \A k \in DOMAIN a : a[k] \in S
    BY <2>1, SequenceElements, SequencesAreLists
  <2>3. \A k \in DOMAIN a : a[k] = l1 \/ a[k] = l2
    BY <2>2 DEF S
  <2> QED
    BY <1>3, <1>4, <2>1, <2>2, <2>3 DEF IsText
<1>6. /\ IsText(b) /\ Len(b) = m
      /\ \A k \in 1 .. m : b[k] = Line("alias", Aliases(d)[k])
  <2>1. b = [k \in 1 .. m |-> b[k]] /\ \A k \in 1 .. m : b[k] = Line("alias", Aliases(d)[k])
    BY <1>2
  <2> HIDE DEF b, m
  <2>2. IsList(b) /\ Len(b) = m /\ DOMAIN b = 1 .. m
    BY <1>2, <2>1, FunctionsAreLists
  <2>3. \A k \in 1 .. m : b[k].command = "alias" /\ b[k].arg = Aliases(d)[k]
    BY <2>1 DEF Line
  <2>4. \A k \in 1 .. m : Aliases(d)[k] \in DOMAIN NameLen
    BY <1>2, EntryFacts
  <2> QED
    BY <2>1, <2>2, <2>3, <2>4 DEF IsText
<1>7. IsText(c) /\ Len(c) = 1 /\ c[1] = l3
  BY <1>3, LineIsText
<1>8. IsText(e) /\ Len(e) = Before(FieldLists(d), Len(d.fields))
  <2>1. /\ AreLists(FieldLists(d)) /\ Len(FieldLists(d)) = Len(d.fields)
        /\ \A k \in 1 .. Len(d.fields) : IsText(FieldLists(d)[k])
        /\ IsList(FieldLists(d))
    BY FieldListsFacts
  <2>2. DOMAIN FieldLists(d) = 1 .. Len(d.fields)
    BY <2>1, ListFacts
  <2>3. IsText(e)
    BY <2>1, <2>2, TextsFlattened
  <2> QED
    BY <2>1, <2>3, FlatPlaces
<1> HIDE DEF a, b, c, e
<1>9. /\ IsText(ab) /\ Len(ab) = 2 + m
      /\ ab[1] = l1 /\ ab[2] = l2
      /\ \A k \in 1 .. m : ab[2 + k] = b[k]
  <2>1. IsList(a) /\ IsList(b)
    BY <1>5, <1>6 DEF IsText
  <2>2. IsText(ab)
    BY <1>5, <1>6, TextsJoined
  <2>3. /\ Len(ab) = Len(a) + Len(b)
        /\ \A k \in 1 .. Len(a) : ab[k] = a[k]
        /\ \A k \in 1 .. Len(b) : ab[Len(a) + k] = b[k]
    BY <2>1, ListsJoined
  <2> HIDE DEF ab
  <2> QED
    BY <1>5, <1>6, <2>2, <2>3
<1> HIDE DEF ab
<1>10. /\ IsText(abc) /\ Len(abc) = 3 + m
       /\ \A k \in 1 .. 2 + m : abc[k] = ab[k]
       /\ abc[3 + m] = l3
  <2>1. IsList(ab) /\ IsList(c)
    BY <1>7, <1>9 DEF IsText
  <2>2. IsText(abc)
    BY <1>7, <1>9, TextsJoined
  <2>3. /\ Len(abc) = Len(ab) + Len(c)
        /\ \A k \in 1 .. Len(ab) : abc[k] = ab[k]
        /\ \A k \in 1 .. Len(c) : abc[Len(ab) + k] = c[k]
    BY <2>1, ListsJoined
  <2> HIDE DEF abc
  <2>4. abc[Len(ab) + 1] = c[1]
    BY <1>7, <2>3
  <2>5. Len(ab) + 1 = 3 + m /\ Len(ab) + Len(c) = 3 + m
    BY <1>2, <1>7, <1>9
  <2> QED
    BY <1>7, <1>9, <2>2, <2>3, <2>4, <2>5
<1> HIDE DEF abc
<1>11. /\ IsText(all) /\ Len(all) = 3 + m + Len(e)
       /\ \A k \in 1 .. 3 + m : all[k] = abc[k]
       /\ \A k \in 1 .. Len(e) : all[3 + m + k] = e[k]
  <2>1. IsList(abc) /\ IsList(e)
    BY <1>8, <1>10 DEF IsText
  <2>2. IsText(all)
    BY <1>8, <1>10, TextsJoined
  <2>3. /\ Len(all) = Len(abc) + Len(e)
        /\ \A k \in 1 .. Len(abc) : all[k] = abc[k]
        /\ \A k \in 1 .. Len(e) : all[Len(abc) + k] = e[k]
    BY <2>1, ListsJoined
  <2> HIDE DEF all
  <2> QED
    BY <1>10, <2>2, <2>3
<1> HIDE DEF all
<1>12. HeadLen(d) = 3 + m
  BY <1>2 DEF HeadLen
<1>13. Len(all) = TypeLen(d)
  BY <1>8, <1>11, <1>12 DEF TypeLen, FieldPlace
<1>14. all[1] = l1 /\ all[2] = l2 /\ all[HeadLen(d)] = l3
  <2>1. 1 \in 1 .. 2 + m /\ 2 \in 1 .. 2 + m /\ 1 \in 1 .. 3 + m /\ 2 \in 1 .. 3 + m
        /\ 3 + m \in 1 .. 3 + m
    BY <1>2
  <2>2. all[1] = abc[1] /\ all[2] = abc[2] /\ all[3 + m] = abc[3 + m]
        /\ abc[1] = ab[1] /\ abc[2] = ab[2]
    BY <1>10, <1>11, <2>1
  <2> QED
    BY <1>9, <1>10, <1>12, <2>2
<1>15. ASSUME NEW k \in 1 .. m
       PROVE  all[2 + k] = Line("alias", Aliases(d)[k])
  <2> DEFINE i == 2 + k
  <2>1. i \in 1 .. 2 + m /\ i \in 1 .. 3 + m
    BY <1>2
  <2>2. ab[i] = b[k]
    BY <1>9
  <2> HIDE DEF i
  <2>3. all[i] = abc[i] /\ abc[i] = ab[i]
    BY <1>10, <1>11, <2>1
  <2> QED
    BY <1>6, <2>2, <2>3 DEF i
<1>16. ASSUME NEW j \in 1 .. Len(d.fields), NEW r \in 1 .. FieldWidth(d)
       PROVE  all[FieldPlace(d, j - 1) + r] = FieldLines(d, d.fields[j])[r]
  <2> DEFINE lists == FieldLists(d)
             p == Before(lists, j - 1)
             q == p + r
  <2>1. /\ AreLists(lists) /\ Len(lists) = Len(d.fields)
        /\ lists[j] = FieldLines(d, d.fields[j])
        /\ Len(lists[j]) = FieldWidth(d)
    BY FieldListsFacts
  <2>2. Len(d.fields) \in Nat /\ FieldWidth(d) \in Nat
    BY EntryFacts DEF FieldWidth
  <2>3. FieldPlace(d, j - 1) = 3 + m + p
    BY <1>12 DEF FieldPlace
  <2> HIDE DEF lists
  <2>4. e[q] = lists[j][r]
    <3>1. e = FlattenSeq(lists)
      BY DEF e, lists
    <3>2. \A i \in 1 .. Len(lists) : \A k \in 1 .. Len(lists[i]) :
            FlattenSeq(lists)[Before(lists, i - 1) + k] = lists[i][k]
      BY <2>1, FlatPlaces
    <3> QED
      BY <2>1, <3>1, <3>2
  <2>5. p \in Nat /\ q \in 1 .. Len(e)
    <3>1. j - 1 \in 0 .. Len(lists) /\ j \in 0 .. Len(lists) /\ Len(lists) \in 0 .. Len(lists) /\ j \in 1 .. Len(lists)
      BY <2>1, <2>2
    <3>2. p \in Nat /\ Before(lists, j) = p + FieldWidth(d)
      <4>1. Before(lists, j) = Before(lists, j - 1) + Len(lists[j])
        BY <2>1, <3>1, BeforeGrows
      <4>2. \A i \in 0 .. Len(lists) : Before(lists, i) \in Nat
        BY <2>1, BeforeGrows
      <4> QED
        BY <2>1, <3>1, <4>1, <4>2
    <3>3. Before(lists, j) <= Len(e)
      <4>1. Len(e) = Before(lists, Len(lists))
        BY <1>8, <2>1 DEF lists
      <4>2. \A i \in 0 .. Len(lists) : \A k \in 0 .. i : Before(lists, k) <= Before(lists, i)
        BY <2>1, BeforeAscends
      <4>3. j \in 0 .. Len(lists)
        BY <3>1
      <4> QED
        BY <2>1, <2>2, <3>1, <4>1, <4>2
    <3>4. Len(e) \in Nat
      BY <1>8, ListFacts DEF IsText
    <3> HIDE DEF p
    <3> QED
      BY <2>2, <3>2, <3>3, <3>4
  <2> HIDE DEF q
  <2>6. all[3 + m + q] = e[q]
    BY <1>11, <2>5
  <2>7. 3 + m + q = FieldPlace(d, j - 1) + r
    BY <1>2, <2>2, <2>3, <2>5 DEF q
  <2> QED
    BY <2>1, <2>4, <2>6, <2>7
<1> QED
  BY <1>1, <1>3, <1>11, <1>13, <1>14, <1>15, <1>16 DEF m, l2, l3

\* The lines of a unit.
IsUnit(u) ==
  /\ u.arch \in DOMAIN Word
  /\ u.types \in Seq(ToSet(u.types))
  /\ \A d \in ToSet(u.types) : IsEntry(d)
  /\ u.lines = serialize(u.arch, u.types)

TypeLists(u) == [i \in DOMAIN u.types |-> TypeLines(u.types[i])]

\* How many lines there are up to the i-th type.
TypePlace(u, i) == 1 + Before(TypeLists(u), i)

LEMMA TypeListsFacts ==
  ASSUME NEW u, IsUnit(u)
  PROVE  /\ IsList(u.types) /\ Len(u.types) \in Nat /\ DOMAIN u.types = 1 .. Len(u.types)
         /\ AreLists(TypeLists(u)) /\ Len(TypeLists(u)) = Len(u.types)
         /\ \A i \in 1 .. Len(u.types) :
              /\ IsEntry(u.types[i])
              /\ TypeLists(u)[i] = TypeLines(u.types[i])
              /\ IsText(TypeLists(u)[i])
              /\ Len(TypeLists(u)[i]) = TypeLen(u.types[i])
<1> DEFINE n == Len(u.types)
           lists == TypeLists(u)
<1>1. IsList(u.types) /\ n \in Nat /\ DOMAIN u.types = 1 .. n
  BY SequencesAreLists, ListFacts DEF IsUnit
<1>2. \A i \in 1 .. n : IsEntry(u.types[i])
  <2>1. \A i \in 1 .. n : u.types[i] \in ToSet(u.types)
    BY <1>1 DEF ToSet
  <2> QED
    BY <2>1 DEF IsUnit
<1>3. lists = [i \in 1 .. n |-> lists[i]]
  BY <1>1 DEF TypeLists
<1>4. \A i \in 1 .. n : lists[i] = TypeLines(u.types[i])
  BY <1>1 DEF TypeLists
<1>5. \A i \in 1 .. n : IsText(lists[i]) /\ Len(lists[i]) = TypeLen(u.types[i])
  BY <1>2, <1>4, TypeLinesFacts
<1> HIDE DEF lists
<1>6. IsList(lists) /\ Len(lists) = n /\ DOMAIN lists = 1 .. n
  BY <1>1, <1>3, FunctionsAreLists
<1>7. AreLists(lists)
  BY <1>5, <1>6 DEF AreLists, IsText
<1> QED
  BY <1>1, <1>2, <1>4, <1>5, <1>6, <1>7 DEF lists

LEMMA PlacesInUnit ==
  ASSUME NEW u, IsUnit(u)
  PROVE  /\ TypePlace(u, 0) = 1
         /\ \A i \in 0 .. Len(u.types) : TypePlace(u, i) \in Nat /\ TypePlace(u, i) >= 1
         /\ \A i \in 1 .. Len(u.types) : TypePlace(u, i) = TypePlace(u, i - 1) + TypeLen(u.types[i])
         /\ \A i \in 0 .. Len(u.types) : TypePlace(u, i) <= TypePlace(u, Len(u.types))
<1> DEFINE n == Len(u.types)
           lists == TypeLists(u)
<1>1. /\ AreLists(lists) /\ Len(lists) = n /\ n \in Nat
      /\ \A i \in 1 .. n : Len(lists[i]) = TypeLen(u.types[i])
  BY TypeListsFacts
<1>2. \A i : TypePlace(u, i) = 1 + Before(lists, i)
  BY DEF TypePlace
<1> HIDE DEF lists, n
<1>3. /\ Before(lists, 0) = 0
      /\ \A i \in 0 .. n : Before(lists, i) \in Nat
      /\ \A i \in 1 .. n : Before(lists, i) = Before(lists, i - 1) + Len(lists[i])
  BY <1>1, BeforeGrows
<1>4. TypePlace(u, 0) = 1
  BY <1>2, <1>3
<1>5. \A i \in 0 .. n : TypePlace(u, i) \in Nat /\ TypePlace(u, i) >= 1
  BY <1>2, <1>3
<1>6. ASSUME NEW i \in 1 .. n
      PROVE  TypePlace(u, i) = TypePlace(u, i - 1) + TypeLen(u.types[i])
  <2>1. i - 1 \in 0 .. n /\ i \in 0 .. n
    BY <1>1
  <2>2. /\ Before(lists, i - 1) \in Nat /\ Before(lists, i) \in Nat
        /\ Before(lists, i) = Before(lists, i - 1) + TypeLen(u.types[i])
    BY <1>1, <1>3, <2>1
  <2>3. TypePlace(u, i) = 1 + Before(lists, i) /\ TypePlace(u, i - 1) = 1 + Before(lists, i - 1)
    BY <1>2
  <2>4. Len(lists[i]) \in Nat /\ Len(lists[i]) = TypeLen(u.types[i])
    BY <1>1, ListFacts DEF AreLists
  <2> QED
    BY <2>2, <2>3, <2>4
<1>7. \A i \in 0 .. n : TypePlace(u, i) <= TypePlace(u, n)
  <2>1. \A i \in 0 .. n : Before(lists, i) <= Before(lists, n)
    BY <1>1, BeforeAscends
  <2>2. Before(lists, n) \in Nat
    BY <1>1, <1>3
  <2> QED
    BY <1>2, <1>3, <2>1, <2>2
<1> QED
  BY <1>4, <1>5, <1>6, <1>7 DEF n

LEMMA UnitLines ==
  ASSUME NEW u, IsUnit(u)
  PROVE  /\ Len(u.lines) = TypePlace(u, Len(u.types))
         /\ u.lines[1] = Line("arch", u.arch)
         /\ \A i \in 1 .. Len(u.types) : \A k \in 1 .. TypeLen(u.types[i]) :
              u.lines[TypePlace(u, i - 1) + k] = TypeLines(u.types[i])[k]
         /\ \A k \in 2 .. Len(u.lines) :
              /\ u.lines[k].command # "arch"
              /\ u.lines[k].command \in {"name", "alias", "ek", "type"} =>
                   u.lines[k].arg \in DOMAIN NameLen
<1> DEFINE l == Line("arch", u.arch)
           n == Len(u.types)
           lists == TypeLists(u)
           a == << l >>
           b == FlattenSeq(lists)
           all == a \o b
<1>1. u.lines = all
  BY DEF IsUnit, serialize, TypeLists
<1>2. /\ AreLists(lists) /\ Len(lists) = n /\ n \in Nat
      /\ \A i \in 1 .. n : /\ IsText(lists[i])
                           /\ Len(lists[i]) = TypeLen(u.types[i])
                           /\ lists[i] = TypeLines(u.types[i])
  BY TypeListsFacts
<1> HIDE DEF l, lists
<1>3. IsList(a) /\ Len(a) = 1 /\ a[1] = l
  <2>1. a \in Seq({l}) /\ Len(a) = 1 /\ a[1] = l
    OBVIOUS
  <2> HIDE DEF a
  <2> QED
    BY <2>1, SequencesAreLists
<1>4. IsText(b) /\ Len(b) = Before(lists, n)
  <2>1. DOMAIN lists = 1 .. n
    BY <1>2, ListFacts DEF AreLists
  <2> QED
    BY <1>2, <2>1, FlatPlaces, TextsFlattened
<1>5. \A i \in 1 .. n : \A k \in 1 .. Len(lists[i]) : b[Before(lists, i - 1) + k] = lists[i][k]
  BY <1>2, FlatPlaces
<1> HIDE DEF a, b
<1>6. /\ Len(all) = 1 + Len(b)
      /\ all[1] = l
      /\ \A k \in 1 .. Len(b) : all[1 + k] = b[k]
  <2>1. IsList(a) /\ IsList(b)
    BY <1>3, <1>4 DEF IsText
  <2>2. /\ Len(all) = Len(a) + Len(b)
        /\ \A k \in 1 .. Len(a) : all[k] = a[k]
        /\ \A k \in 1 .. Len(b) : all[Len(a) + k] = b[k]
    BY <2>1, ListsJoined
  <2> HIDE DEF all
  <2> QED
    BY <1>3, <2>2
<1> HIDE DEF all
<1>7. Len(all) = TypePlace(u, n)
  BY <1>4, <1>6 DEF TypePlace, lists
<1>8. ASSUME NEW i \in 1 .. n, NEW k \in 1 .. TypeLen(u.types[i])
      PROVE  all[TypePlace(u, i - 1) + k] = TypeLines(u.types[i])[k]
  <2> DEFINE p == Before(lists, i - 1)
             q == p + k
             m == TypeLen(u.types[i])
  <2>1. b[q] = lists[i][k]
    BY <1>2, <1>5
  <2>2. p \in Nat /\ Before(lists, i) = p + m /\ Before(lists, i) <= Len(b) /\ Len(b) \in Nat /\ m \in Nat
    <3>1. i - 1 \in 0 .. n /\ i \in 0 .. n /\ n \in 0 .. n
      BY <1>2
    <3>2. /\ \A j \in 0 .. n : Before(lists, j) \in Nat
          /\ \A j \in 1 .. n : Before(lists, j) = Before(lists, j - 1) + Len(lists[j])
      BY <1>2, BeforeGrows
    <3>3. \A j \in 0 .. n : \A h \in 0 .. j : Before(lists, h) <= Before(lists, j)
      BY <1>2, BeforeAscends
    <3>4. Before(lists, i) <= Before(lists, n)
      BY <3>1, <3>3
    <3>5. m \in Nat
      BY <1>2, ListFacts DEF IsText
    <3> QED
      BY <1>2, <1>4, <3>1, <3>2, <3>4, <3>5
  <2> HIDE DEF p
  <2>3. q \in 1 .. Len(b)
    BY <2>2
  <2> HIDE DEF q
  <2>4. all[1 + q] = b[q]
    BY <1>6, <2>3
  <2>5. 1 + q = TypePlace(u, i - 1) + k
    BY <2>2 DEF TypePlace, q, p, lists
  <2> QED
    BY <1>2, <2>1, <2>4, <2>5
<1>9. ASSUME NEW k \in 2 .. Len(all)
      PROVE  /\ all[k].command # "arch"
             /\ all[k].command \in {"name", "alias", "ek", "type"} =>
                  all[k].arg \in DOMAIN NameLen
  <2> DEFINE i == k - 1
  <2>1. Len(b) \in Nat /\ DOMAIN b = 1 .. Len(b)
    BY <1>4, ListFacts DEF IsText
  <2>2. i \in 1 .. Len(b) /\ 1 + i = k
    BY <1>6, <2>1
  <2> HIDE DEF i
  <2>3. all[k] = b[i]
    BY <1>6, <2>2
  <2> QED
    BY <1>4, <2>1, <2>2, <2>3 DEF IsText
<1> QED
  BY <1>1, <1>6, <1>7, <1>8, <1>9 DEF n, l

\* What the parser may rely on: a file that can be read begins with its arch
\* line, the only one, and what names something in it is a name.
LEMMA DirectoryFacts ==
  ASSUME NEW directory \in Directories
  PROVE  /\ Len(directory) \in Nat /\ DOMAIN directory = 1 .. Len(directory)
         /\ \A j \in 1 .. Len(directory) : directory[j].readable => IsUnit(directory[j])
<1>1. directory \in Seq(ToSet(directory))
  BY DirectoriesAssumption
<1>2. Len(directory) \in Nat /\ DOMAIN directory = 1 .. Len(directory)
  BY <1>1
<1>3. \A j \in DOMAIN directory : directory[j].readable => IsUnit(directory[j])
  BY DirectoriesAssumption DEF IsUnit
<1> QED
  BY <1>2, <1>3

LEMMA UnitText ==
  ASSUME NEW u, IsUnit(u)
  PROVE  /\ Len(u.lines) \in Nat
         /\ u.arch \in DOMAIN Word
         /\ \A i \in 1 .. Len(u.lines) :
              /\ u.lines[i].command = "arch" <=> i = 1
              /\ u.lines[i].command = "arch" => u.lines[i].arg = u.arch
              /\ u.lines[i].command \in {"name", "alias", "ek", "type"} =>
                   u.lines[i].arg \in DOMAIN NameLen
<1>1. Len(u.types) \in Nat
  BY TypeListsFacts
<1>2. Len(u.lines) \in Nat
  BY <1>1, UnitLines, PlacesInUnit
<1>3. ASSUME NEW i \in 1 .. Len(u.lines)
      PROVE  /\ u.lines[i].command = "arch" <=> i = 1
             /\ u.lines[i].command = "arch" => u.lines[i].arg = u.arch
             /\ u.lines[i].command \in {"name", "alias", "ek", "type"} =>
                  u.lines[i].arg \in DOMAIN NameLen
  <2>1. CASE i = 1
    <3>1. u.lines[1] = Line("arch", u.arch)
      BY UnitLines
    <3>2. u.lines[1].command = "arch" /\ u.lines[1].arg = u.arch
      BY <3>1 DEF Line
    <3> QED
      BY <2>1, <3>2
  <2>2. CASE i # 1
    <3>1. i \in 2 .. Len(u.lines)
      BY <1>2, <2>2
    <3> QED
      BY <2>2, <3>1, UnitLines
  <2> QED
    BY <2>1, <2>2
<1> QED
  BY <1>2, <1>3 DEF IsUnit

-----------------------------------------------------------------------------
\* The string volume.

\* The strings of a volume take a number of bytes.
LEMMA StringsHaveBytes ==
  ASSUME NEW w \in Nat, NEW strings \in Seq(DOMAIN NameLen)
  PROVE  Bytes(w, StringCells(strings)) \in Nat
<1> DEFINE cells == StringCells(strings)
           n == Len(strings)
           step == [k \in 1 .. n |-> [x \in Nat |-> x + Width(w, cells[k])]]
           bytes == CHOOSE f : f = [k \in 0 .. Len(cells) |->
                      IF k = 0 THEN 0 ELSE f[k - 1] + Width(w, cells[k])]
<1>1. n \in Nat /\ DOMAIN strings = 1 .. n
  OBVIOUS
<1>2. Len(cells) = n
  BY <1>1 DEF StringCells
<1>3. \A k \in 1 .. n : Width(w, cells[k]) \in Nat
  <2> SUFFICES ASSUME NEW k \in 1 .. n PROVE Width(w, cells[k]) \in Nat
    OBVIOUS
  <2>1. cells[k] = [kind |-> "str", val |-> strings[k]] /\ strings[k] \in DOMAIN NameLen
    BY <1>1 DEF StringCells
  <2>2. Width(w, cells[k]) = NameLen[strings[k]] + 1
    BY <2>1 DEF Width
  <2> QED
    BY <2>1, <2>2, NameAssumption
<1> HIDE DEF cells, n
<1>4. step \in [1 .. n -> [Nat -> Nat]]
  BY <1>3
<1>5. PICK f : IsLoop(f, n, Nat, 0, step)
  <2> HIDE DEF step
  <2> QED
    BY <1>1, <1>4, LoopIsDefined
<1>6. \A k \in 1 .. n : f[k - 1] \in Nat /\ f[k] = f[k - 1] + Width(w, cells[k])
  <2> SUFFICES ASSUME NEW k \in 1 .. n
               PROVE  f[k - 1] \in Nat /\ f[k] = f[k - 1] + Width(w, cells[k])
    OBVIOUS
  <2>1. k - 1 \in 0 .. n
    BY <1>1
  <2>2. f[k - 1] \in Nat /\ f[k] = step[k][f[k - 1]]
    BY <1>5, <2>1 DEF IsLoop
  <2> QED
    BY <2>2
<1>7. f = [k \in 0 .. Len(cells) |-> IF k = 0 THEN 0 ELSE f[k - 1] + Width(w, cells[k])]
  BY <1>1, <1>2, <1>5, <1>6 DEF IsLoop
<1>8. bytes = [k \in 0 .. Len(cells) |->
                 IF k = 0 THEN 0 ELSE bytes[k - 1] + Width(w, cells[k])]
  BY <1>7
<1>9. Bytes(w, cells) = bytes[n]
  BY <1>2 DEF Bytes
<1> HIDE DEF bytes
<1>10. 0 .. n \subseteq {k \in 0 .. n : bytes[k] \in Nat}
  <2> DEFINE S == {k \in 0 .. n : bytes[k] \in Nat}
  <2>1. 0 \in S
    BY <1>1, <1>2, <1>8
  <2>2. ASSUME NEW k \in 1 .. n, k - 1 \in S
        PROVE  k \in S
    <3>1. bytes[k] = bytes[k - 1] + Width(w, cells[k])
      BY <1>1, <1>2, <1>8
    <3> QED
      BY <1>1, <1>3, <2>2, <3>1
  <2> HIDE DEF S
  <2>3. 0 .. n \subseteq S
    BY <1>1, <2>1, <2>2, LoopInvariant
  <2> QED
    BY <2>3 DEF S
<1> QED
  BY <1>1, <1>9, <1>10 DEF cells

LEMMA StringsAppended ==
  ASSUME NEW volume, IsList(volume), NEW e
  PROVE  StringsOf(Append(volume, e)) = Append(StringsOf(volume), e.name)
<1> DEFINE S == {volume[k] : k \in DOMAIN volume} \cup {e}
           new == Append(volume, e)
<1>1. /\ Len(volume) \in Nat
      /\ DOMAIN volume = 1 .. Len(volume)
      /\ DOMAIN new = 1 .. Len(volume) + 1
      /\ new[Len(volume) + 1] = e
      /\ \A k \in 1 .. Len(volume) : new[k] = volume[k]
  BY ListFacts, ListAppended
<1> HIDE DEF new
<1> DEFINE strings == StringsOf(volume)
           T == {strings[k] : k \in DOMAIN strings} \cup {e.name}
<1>2. DOMAIN strings = 1 .. Len(volume) /\ \A k \in DOMAIN strings : strings[k] = volume[k].name
  BY <1>1 DEF StringsOf
<1>3. IsList(strings) /\ Len(strings) = Len(volume)
  <2> DEFINE U == {volume[k].name : k \in DOMAIN volume}
  <2>1. strings \in [1 .. Len(volume) -> U]
    BY <1>1 DEF StringsOf
  <2> HIDE DEF U
  <2>2. strings \in Seq(U)
    BY <1>1, <2>1
  <2> QED
    BY <1>1, <2>1, <2>2, SequencesAreLists
<1> HIDE DEF strings
<1> DEFINE longer == Append(strings, e.name)
<1>4. /\ DOMAIN longer = 1 .. Len(volume) + 1
      /\ longer[Len(volume) + 1] = e.name
      /\ \A k \in 1 .. Len(volume) : longer[k] = strings[k]
      /\ longer = [k \in DOMAIN longer |-> longer[k]]
  <2>1. IsList(longer)
    BY <1>3, ListAppended
  <2>2. longer = [k \in DOMAIN longer |-> longer[k]]
    <3> HIDE DEF longer
    <3> QED
      BY <2>1 DEF IsList
  <2> QED
    BY <1>1, <1>2, <1>3, <2>2, ListAppended, ListFacts
<1> HIDE DEF longer
<1>5. StringsOf(new) = [k \in 1 .. Len(volume) + 1 |-> new[k].name]
  BY <1>1 DEF StringsOf
<1>6. \A k \in 1 .. Len(volume) + 1 : longer[k] = new[k].name
  BY <1>1, <1>2, <1>4
<1>7. longer = StringsOf(new)
  BY <1>4, <1>5, <1>6
<1> QED
  BY <1>7 DEF longer, new, strings

\* A string is noted where the ones before it end, whatever comes after it.
LEMMA NotedAppended ==
  ASSUME NEW w, NEW S, NEW strings \in Seq(S), NEW s \in S
  PROVE  Noted(w, Append(strings, s)) =
           Append(Noted(w, strings),
                  [name |-> s, offset |-> w * 2 + Bytes(w, StringCells(strings))])
<1> DEFINE longer == Append(strings, s)
           n == Len(strings)
           e == [name |-> s, offset |-> w * 2 + Bytes(w, StringCells(strings))]
           noted == Noted(w, strings)
           both == Append(noted, e)
<1>1. /\ n \in Nat
      /\ DOMAIN strings = 1 .. n
      /\ longer \in Seq(S)
      /\ DOMAIN longer = 1 .. n + 1 /\ Len(longer) = n + 1
      /\ longer[n + 1] = s
      /\ \A k \in 1 .. n : longer[k] = strings[k]
  OBVIOUS
<1>2. \A k \in 1 .. n + 1 : SubSeq(longer, 1, k - 1) = SubSeq(strings, 1, k - 1)
  <2> SUFFICES ASSUME NEW k \in 1 .. n + 1
               PROVE  SubSeq(longer, 1, k - 1) = SubSeq(strings, 1, k - 1)
    OBVIOUS
  <2> HIDE DEF longer
  <2> QED
    BY <1>1
<1>3. SubSeq(strings, 1, n) = strings
  BY <1>1
<1>4. IsList(noted) /\ Len(noted) = n
  <2>1. DOMAIN noted = 1 .. n /\ noted = [k \in 1 .. n |-> noted[k]]
    BY <1>1 DEF Noted
  <2> DEFINE T == {noted[k] : k \in DOMAIN noted}
  <2>2. \A k \in 1 .. n : noted[k] \in T
    BY <2>1
  <2> HIDE DEF noted, T
  <2>3. noted \in Seq(T) /\ Len(noted) = n
    BY <1>1, <2>1, <2>2
  <2> QED
    BY <2>3, SequencesAreLists
<1>5. /\ DOMAIN both = 1 .. n + 1
      /\ both[n + 1] = e
      /\ \A k \in 1 .. n : both[k] = noted[k]
      /\ both = [k \in 1 .. n + 1 |-> both[k]]
  <2> HIDE DEF noted, e
  <2>1. IsList(both)
    BY <1>4, ListAppended
  <2>2. Len(both) = n + 1 /\ DOMAIN both = 1 .. n + 1
    BY <1>1, <1>4, <2>1, ListAppended, ListFacts
  <2>3. both = [k \in DOMAIN both |-> both[k]]
    <3> HIDE DEF both
    <3> QED
      BY <2>1 DEF IsList
  <2> QED
    BY <1>1, <1>4, <2>2, <2>3, ListAppended, ListFacts
<1>6. \A k \in 1 .. n : noted[k] =
        [name |-> strings[k],
         offset |-> w * 2 + Bytes(w, StringCells(SubSeq(strings, 1, k - 1)))]
  BY <1>1 DEF Noted
<1>7. Noted(w, longer) = [k \in 1 .. n + 1 |->
        [name |-> longer[k],
         offset |-> w * 2 + Bytes(w, StringCells(SubSeq(longer, 1, k - 1)))]]
  BY <1>1 DEF Noted
<1> HIDE DEF both, noted, longer
<1>8. \A k \in 1 .. n + 1 : both[k] =
        [name |-> longer[k],
         offset |-> w * 2 + Bytes(w, StringCells(SubSeq(longer, 1, k - 1)))]
  <2> SUFFICES ASSUME NEW k \in 1 .. n + 1
               PROVE  both[k] = [name |-> longer[k],
                        offset |-> w * 2 + Bytes(w, StringCells(SubSeq(longer, 1, k - 1)))]
    OBVIOUS
  <2>1. CASE k = n + 1
    <3>1. SubSeq(longer, 1, k - 1) = strings
      BY <1>1, <1>2, <1>3, <2>1
    <3> QED
      BY <1>1, <1>5, <2>1, <3>1
  <2>2. CASE k # n + 1
    <3>1. k \in 1 .. n
      BY <1>1, <2>2
    <3>2. SubSeq(longer, 1, k - 1) = SubSeq(strings, 1, k - 1)
      BY <1>2
    <3> QED
      BY <1>1, <1>5, <1>6, <3>1, <3>2
  <2> QED
    BY <2>1, <2>2
<1>9. Noted(w, longer) = both
  BY <1>5, <1>7, <1>8
<1> QED
  BY <1>9 DEF longer, both, noted

\* AddString stores a string and keeps the volume in place.
LEMMA StringAdded ==
  ASSUME VolumeInPlace, arch \in DOMAIN Word, arch' = arch, files' = files,
         NEW s \in DOMAIN NameLen, AddString(s)
  PROVE  VolumeInPlace' /\ Stored' = Stored \cup {s}
<1> DEFINE volume == global_string_volume
           entry == [name |-> s, offset |-> Bytes(arch, StringCells(StringsOf(volume))) + arch * 2]
           Entries == [name : DOMAIN NameLen, offset : Nat]
           names == StringsOf(volume)
<1>1. volume \in Seq(Entries) /\ IsList(volume)
  BY SequencesAreLists DEF VolumeInPlace
<1>2. Len(volume) \in Nat /\ DOMAIN volume = 1 .. Len(volume)
  BY <1>1
<1>3. OneArch' = OneArch
  BY DEF OneArch
<1>4. CASE \E k \in DOMAIN volume : volume[k].name = s
  <2>1. volume' = volume
    BY <1>4 DEF AddString
  <2>2. Stored' = Stored /\ s \in Stored
    BY <1>4, <2>1 DEF Stored
  <2>3. VolumeInPlace'
    BY <1>3, <2>1 DEF VolumeInPlace
  <2> QED
    BY <2>2, <2>3
<1>5. CASE ~ \E k \in DOMAIN volume : volume[k].name = s
  <2>1. volume' = Append(volume, entry)
    BY <1>5 DEF AddString
  <2>2. names \in Seq(DOMAIN NameLen)
    <3>1. \A k \in 1 .. Len(volume) : volume[k] \in Entries
      <4> HIDE DEF Entries
      <4> QED
        BY <1>1
    <3>2. names = [k \in 1 .. Len(volume) |-> volume[k].name]
      BY <1>2 DEF StringsOf
    <3>3. names \in [1 .. Len(volume) -> DOMAIN NameLen]
      BY <3>1, <3>2
    <3> QED
      BY <1>2, <3>3
  <2> HIDE DEF names
  <2>3. arch \in Nat
    BY WordAssumption
  <2>4. Bytes(arch, StringCells(names)) \in Nat
    BY <2>2, <2>3, StringsHaveBytes
  <2>5. entry \in Entries
    BY <2>3, <2>4 DEF names
  <2>6. entry.name = s
    OBVIOUS
  <2> HIDE DEF entry, Entries
  <2>7. volume' \in Seq(Entries)
    BY <1>1, <2>1, <2>5
  <2>8. /\ DOMAIN volume' = 1 .. Len(volume) + 1
        /\ volume'[Len(volume) + 1] = entry
        /\ \A k \in 1 .. Len(volume) : volume'[k] = volume[k]
    BY <1>1, <1>2, <2>1, ListAppended
  <2>9. \A j, k \in DOMAIN volume' : volume'[j].name = volume'[k].name => j = k
    <3> SUFFICES ASSUME NEW j \in DOMAIN volume', NEW k \in DOMAIN volume',
                        volume'[j].name = volume'[k].name
                 PROVE  j = k
      OBVIOUS
    <3>1. CASE j \in 1 .. Len(volume) /\ k \in 1 .. Len(volume)
      BY <1>2, <2>8, <3>1 DEF VolumeInPlace
    <3>2. CASE j = Len(volume) + 1 /\ k \in 1 .. Len(volume)
      BY <1>2, <1>5, <2>6, <2>8, <3>2
    <3>3. CASE k = Len(volume) + 1 /\ j \in 1 .. Len(volume)
      BY <1>2, <1>5, <2>6, <2>8, <3>3
    <3> QED
      BY <1>2, <2>8, <3>1, <3>2, <3>3
  <2>10. ASSUME OneArch
         PROVE  volume' = Noted(arch, StringsOf(volume'))
    <3>1. StringsOf(volume') = Append(names, s)
      BY <1>1, <2>1, <2>6, StringsAppended DEF names
    <3>2. Noted(arch, Append(names, s)) =
            Append(Noted(arch, names),
                   [name |-> s, offset |-> arch * 2 + Bytes(arch, StringCells(names))])
      BY <2>2, NotedAppended
    <3>3. entry = [name |-> s, offset |-> arch * 2 + Bytes(arch, StringCells(names))]
      BY <2>3, <2>4 DEF entry, names
    <3>4. volume = Noted(arch, names)
      BY <2>10 DEF VolumeInPlace, names
    <3> QED
      BY <2>1, <3>1, <3>2, <3>3, <3>4
  <2>11. Stored' = Stored \cup {s}
    BY <1>2, <2>6, <2>8 DEF Stored
  <2>12. VolumeInPlace'
    BY <1>3, <2>7, <2>9, <2>10 DEF VolumeInPlace, Entries
  <2> QED
    BY <2>11, <2>12
<1> QED
  BY <1>4, <1>5

-----------------------------------------------------------------------------
\* The object at hand.

\* Init establishes the invariant.
LEMMA MergeInit == Init => MergeInv
<1> SUFFICES ASSUME Init PROVE MergeInv
  OBVIOUS
<1> USE DEF Init
<1>1. IsList(<<>>)
  BY NothingIsList
<1>2. PlaceInv
  <2>1. files \in Directories /\ Len(files) \in Nat
    BY DirectoryFacts
  <2>2. file \in 1 .. Len(files) + 1 /\ line \in Nat \ {0}
    BY <2>1
  <2>3. is_in_field_mode \in BOOLEAN
    OBVIOUS
  <2> QED
    BY <2>1, <2>2, <2>3 DEF PlaceInv
<1>3. ArchInv
  BY DEF ArchInv
<1>4. DataStored(current_data, Stored) /\ FieldStored(current_field_data, Stored)
  BY DEF DataStored, FieldStored, Empty
<1>5. MapStored
  BY <1>1 DEF MapStored
<1>6. VolumeInPlace
  <2>1. StringsOf(<<>>) = <<>>
    BY DEF StringsOf
  <2>2. Noted(arch, <<>>) = <<>>
    BY DEF Noted
  <2> QED
    BY <2>1, <2>2 DEF VolumeInPlace
<1> QED
  BY <1>2, <1>3, <1>4, <1>5, <1>6 DEF MergeInv

\* The object refers to stored strings after its field is flushed, too.
LEMMA FlushedDataIsStored ==
  ASSUME DataStored(current_data, Stored), FieldStored(current_field_data, Stored)
  PROVE  DataStored(FlushedData, Stored)
<1>1. CASE is_in_field_mode /\ "name" \in Keys(current_field_data)
  <2> DEFINE f == current_field_data
             before == IF "fields" \in Keys(current_data) THEN current_data["fields"] ELSE <<>>
             fields == Append(before, f)
             d == Set(current_data, "fields", fields)
  <2>1. FlushedData = d
    BY <1>1 DEF FlushedData, Appended
  <2>2. "name" \in DOMAIN f /\ f.name \in Stored
    BY <1>1 DEF FieldStored, Keys
  <2>3. /\ IsList(before)
        /\ \A k \in DOMAIN before :
             "name" \in DOMAIN before[k] /\ FieldStored(before[k], Stored)
    <3>1. IsList(<<>>)
      BY NothingIsList
    <3> QED
      BY <3>1 DEF DataStored, Keys
  <2> HIDE DEF before, f
  <2>4. /\ IsList(fields)
        /\ \A k \in DOMAIN fields :
             "name" \in DOMAIN fields[k] /\ FieldStored(fields[k], Stored)
    <3>1. DOMAIN fields = DOMAIN before \cup {Len(before) + 1}
      BY <2>3, ListAppended
    <3>2. \A k \in DOMAIN before : fields[k] = before[k]
      BY <2>3, ListAppended
    <3>3. IsList(fields) /\ fields[Len(before) + 1] = f
      BY <2>3, ListAppended
    <3> HIDE DEF fields
    <3> QED
      BY <2>2, <2>3, <3>1, <3>2, <3>3 DEF FieldStored
  <2> HIDE DEF fields
  <2>5. /\ DOMAIN d = DOMAIN current_data \cup {"fields"}
        /\ d["fields"] = fields
        /\ \A k \in DOMAIN current_data : k # "fields" => d[k] = current_data[k]
    BY DEF Set, Keys
  <2> HIDE DEF d
  <2>6. DataStored(d, Stored)
    BY <2>4, <2>5 DEF DataStored
  <2> QED
    BY <2>1, <2>6
<1>2. CASE ~ (is_in_field_mode /\ "name" \in Keys(current_field_data))
  BY <1>2 DEF FlushedData
<1> QED
  BY <1>1, <1>2

\* And so does the map after the object is flushed to it.
LEMMA FlushedMapIsStored ==
  ASSUME MergeInv
  PROVE  /\ IsList(FlushedMap)
         /\ \A k \in DOMAIN FlushedMap :
              /\ {"type", "name"} \subseteq DOMAIN FlushedMap[k]
              /\ DataStored(FlushedMap[k], Stored)
<1>1. DataStored(FlushedData, Stored)
  BY FlushedDataIsStored DEF MergeInv
<1>2. CASE {"type", "name"} \subseteq Keys(FlushedData)
  <2>1. FlushedMap = Put(type_name_map, FlushedData)
    BY <1>2 DEF FlushedMap
  <2>2. IsList(type_name_map)
    BY DEF MergeInv, MapStored
  <2> DEFINE d == FlushedData
             m == Put(type_name_map, d)
  <2> HIDE DEF d
  <2>3. IsList(m)
    BY <2>2, PutFacts
  <2>4. \A k \in DOMAIN m : m[k] = d \/ \E j \in DOMAIN type_name_map : m[k] = type_name_map[j]
    BY <2>2, PutFacts
  <2> HIDE DEF m
  <2>5. {"type", "name"} \subseteq DOMAIN d /\ DataStored(d, Stored)
    BY <1>1, <1>2 DEF d, Keys
  <2>6. \A k \in DOMAIN m :
          {"type", "name"} \subseteq DOMAIN m[k] /\ DataStored(m[k], Stored)
    BY <2>4, <2>5 DEF MergeInv, MapStored
  <2> QED
    BY <2>1, <2>3, <2>6 DEF m, d
<1>3. CASE ~ ({"type", "name"} \subseteq Keys(FlushedData))
  BY <1>3 DEF FlushedMap, MergeInv, MapStored
<1> QED
  BY <1>2, <1>3

-----------------------------------------------------------------------------
\* The steps.

\* The line at hand.
LEMMA LineFacts ==
  ASSUME MergeInv, NEW commands, Read(commands)
  PROVE  /\ file \in 1 .. Len(files)
         /\ files[file].readable
         /\ files[file].arch \in DOMAIN Word
         /\ command \in commands
         /\ command = "arch" <=> line = 1
         /\ command = "arch" => arg = files[file].arch
         /\ command \in {"name", "alias", "ek", "type"} => arg \in DOMAIN NameLen
         /\ line' \in Nat \ {0}
         /\ files' = files /\ file' = file
<1>1. files \in Directories /\ Len(files) \in Nat
  BY DirectoryFacts DEF MergeInv, PlaceInv
<1>2. file \in 1 .. Len(files) /\ files[file].readable
  BY <1>1 DEF MergeInv, PlaceInv, Read
<1> DEFINE text == files[file].lines
<1>3. /\ Len(text) \in Nat
      /\ files[file].arch \in DOMAIN Word
      /\ \A i \in 1 .. Len(text) :
           /\ text[i].command = "arch" <=> i = 1
           /\ text[i].command = "arch" => text[i].arg = files[file].arch
           /\ text[i].command \in {"name", "alias", "ek", "type"} =>
                text[i].arg \in DOMAIN NameLen
  <2>1. IsUnit(files[file])
    BY <1>1, <1>2, DirectoryFacts
  <2> QED
    BY <2>1, UnitText
<1>4. line \in 1 .. Len(text) /\ line' \in Nat \ {0}
  BY <1>3 DEF MergeInv, PlaceInv, Read
<1> HIDE DEF text
<1> QED
  BY <1>2, <1>3, <1>4 DEF Read, command, arg, text

\* After an arch line the place and the arch of a file stay known.
LEMMA ReadKeepsPlace ==
  ASSUME MergeInv, NEW commands, Read(commands), "arch" \notin commands,
         arch' = arch, is_in_field_mode' \in BOOLEAN
  PROVE  /\ arch \in DOMAIN Word
         /\ files' = files
         /\ PlaceInv'
         /\ ArchInv'
<1>1. /\ line # 1 /\ line' \in Nat \ {0}
      /\ files' = files /\ file' = file
  BY LineFacts
<1>2. arch \in DOMAIN Word /\ \E k \in 1 .. Len(files) : files[k].readable /\ files[k].arch = arch
  BY <1>1 DEF MergeInv, ArchInv
<1>3. PlaceInv'
  BY <1>1 DEF MergeInv, PlaceInv
<1>4. ArchInv'
  BY <1>1, <1>2 DEF ArchInv
<1> QED
  BY <1>1, <1>2, <1>3, <1>4

\* Steps that add no string.
LEMMA VolumeKept ==
  ASSUME VolumeInPlace, UNCHANGED <<files, global_string_volume, arch>>
  PROVE  VolumeInPlace' /\ Stored' = Stored
BY DEF VolumeInPlace, Stored, OneArch

LEMMA MapKept ==
  ASSUME MapStored, type_name_map' = type_name_map, Stored \subseteq Stored'
  PROVE  MapStored'
BY StoredIsMonotone DEF MapStored

LEMMA MapFlushed ==
  ASSUME MergeInv, type_name_map' = FlushedMap, Stored' = Stored
  PROVE  MapStored'
<1> DEFINE m == FlushedMap
<1>1. /\ IsList(m)
      /\ \A k \in DOMAIN m :
           {"type", "name"} \subseteq DOMAIN m[k] /\ DataStored(m[k], Stored)
  BY FlushedMapIsStored
<1> HIDE DEF m
<1>2. type_name_map' = m
  BY DEF m
<1> QED
  BY <1>1, <1>2 DEF MapStored

\* An arch line is the first of its file.
LEMMA ReadArchStep == MergeInv /\ ReadArch => MergeInv'
<1> SUFFICES ASSUME MergeInv, ReadArch PROVE MergeInv'
  OBVIOUS
<1>1. Read({"arch"}) /\ UNCHANGED <<object, type_name_map>>
  BY DEF ReadArch
<1>2. /\ file \in 1 .. Len(files)
      /\ files[file].readable
      /\ files[file].arch \in DOMAIN Word
      /\ arg = files[file].arch
      /\ line' \in Nat \ {0}
      /\ files' = files /\ file' = file
  BY <1>1, LineFacts
<1>3. arch' = files[file].arch
  BY <1>2 DEF ReadArch
<1>4. global_string_volume' = global_string_volume
  BY DEF ReadArch, MergeInv, ArchInv
<1>5. Stored' = Stored
  BY <1>4 DEF Stored
<1>6. PlaceInv'
  BY <1>1, <1>2 DEF MergeInv, PlaceInv, object
<1>7. ArchInv'
  BY <1>2, <1>3 DEF ArchInv
<1>8. DataStored(current_data, Stored)' /\ FieldStored(current_field_data, Stored)'
  <2>1. current_data' = current_data /\ current_field_data' = current_field_data
    BY <1>1 DEF object
  <2> QED
    BY <1>5, <2>1 DEF MergeInv
<1>9. MapStored'
  BY <1>1, <1>5, MapKept DEF MergeInv
<1>10. VolumeInPlace'
  <2>1. ASSUME OneArch'
        PROVE  global_string_volume' = Noted(arch', StringsOf(global_string_volume'))
    <3>1. OneArch
      BY <1>2, <2>1 DEF OneArch
    <3>2. CASE arch = -1
      <4>1. global_string_volume' = <<>>
        BY <1>4, <3>2, WordAssumption DEF MergeInv, ArchInv
      <4>2. StringsOf(<<>>) = <<>>
        BY DEF StringsOf
      <4>3. Noted(arch', <<>>) = <<>>
        BY DEF Noted
      <4> QED
        BY <4>1, <4>2, <4>3
    <3>3. CASE arch # -1
      <4>1. PICK k \in 1 .. Len(files) : files[k].readable /\ files[k].arch = arch
        BY <3>3 DEF MergeInv, ArchInv
      <4>2. arch' = arch
        BY <1>2, <1>3, <3>1, <4>1 DEF OneArch
      <4> QED
        BY <1>4, <3>1, <4>2 DEF MergeInv, VolumeInPlace
    <3> QED
      BY <3>2, <3>3
  <2> QED
    BY <1>4, <2>1 DEF MergeInv, VolumeInPlace
<1> QED
  BY <1>6, <1>7, <1>8, <1>9, <1>10 DEF MergeInv

LEMMA ReadObjectStep == MergeInv /\ ReadObject => MergeInv'
<1> SUFFICES ASSUME MergeInv, ReadObject PROVE MergeInv'
  OBVIOUS
<1> DEFINE commands == {"base", "enum", "struct", "union"}
<1>1. Read(commands) /\ UNCHANGED <<global_string_volume, arch>>
  BY DEF ReadObject
<1>2. /\ PlaceInv' /\ ArchInv' /\ files' = files
  <2>1. is_in_field_mode' \in BOOLEAN /\ "arch" \notin commands
    BY DEF ReadObject
  <2> HIDE DEF commands
  <2> QED
    BY <1>1, <2>1, ReadKeepsPlace
<1>3. command \in commands
  BY <1>1 DEF Read, command
<1>4. VolumeInPlace' /\ Stored' = Stored
  BY <1>1, <1>2, VolumeKept DEF MergeInv
<1>5. MapStored'
  BY <1>4, MapFlushed DEF ReadObject
<1>6. DataStored(current_data', Stored')
  <2>1. IsList(<<>>) /\ ToSet(<<>>) = {}
    BY NothingIsList DEF ToSet
  <2>2. CASE command = "base"
    <3>1. current_data' = [type |-> "base"]
      BY <2>2 DEF ReadObject
    <3> QED
      BY <3>1 DEF DataStored
  <2>3. CASE command # "base"
    <3>1. current_data' = [type |-> command, fields |-> <<>>, aliases |-> <<>>]
      BY <2>3 DEF ReadObject
    <3>2. /\ DOMAIN current_data' = {"type", "fields", "aliases"}
          /\ current_data'.type = command
          /\ current_data'.fields = <<>> /\ current_data'.aliases = <<>>
      BY <3>1
    <3> QED
      BY <1>3, <2>1, <3>2 DEF DataStored
  <2> QED
    BY <2>2, <2>3
<1>7. FieldStored(current_field_data', Stored')
  <2>1. current_field_data' = Empty \/ current_field_data' = current_field_data
    BY DEF ReadObject
  <2> QED
    BY <1>4, <2>1 DEF FieldStored, Empty, MergeInv
<1> QED
  BY <1>2, <1>4, <1>5, <1>6, <1>7 DEF MergeInv

LEMMA ReadFieldStep == MergeInv /\ ReadField => MergeInv'
<1> SUFFICES ASSUME MergeInv, ReadField PROVE MergeInv'
  OBVIOUS
<1> DEFINE commands == {"field", "enumerator"}
<1>1. Read(commands) /\ UNCHANGED <<type_name_map, global_string_volume, arch>>
  BY DEF ReadField
<1>2. /\ PlaceInv' /\ ArchInv' /\ files' = files
  <2>1. is_in_field_mode' \in BOOLEAN /\ "arch" \notin commands
    BY DEF ReadField
  <2> HIDE DEF commands
  <2> QED
    BY <1>1, <2>1, ReadKeepsPlace
<1>3. VolumeInPlace' /\ Stored' = Stored
  BY <1>1, <1>2, VolumeKept DEF MergeInv
<1>4. MapStored'
  BY <1>1, <1>3, MapKept DEF MergeInv
<1>5. DataStored(current_data', Stored')
  BY <1>3, FlushedDataIsStored DEF ReadField, MergeInv
<1>6. FieldStored(current_field_data', Stored')
  <2>1. current_field_data' = Empty \/ current_field_data' = current_field_data
    BY DEF ReadField
  <2> QED
    BY <1>3, <2>1 DEF FieldStored, Empty, MergeInv
<1> QED
  BY <1>2, <1>3, <1>4, <1>5, <1>6 DEF MergeInv

\* A column of the object or of the field, stored if it is the name.
LEMMA ColumnSet ==
  ASSUME NEW d, NEW strings, NEW key, NEW v, key = "name" => v \in strings
  PROVE  /\ key \notin {"type", "fields", "aliases"} /\ DataStored(d, strings) =>
              DataStored(Set(d, key, v), strings)
         /\ FieldStored(d, strings) => FieldStored(Set(d, key, v), strings)
<1> DEFINE s == Set(d, key, v)
<1>1. /\ DOMAIN s = DOMAIN d \cup {key}
      /\ s[key] = v
      /\ \A k \in DOMAIN d : k # key => s[k] = d[k]
  BY DEF Set, Keys
<1> HIDE DEF s
<1>2. ASSUME key \notin {"type", "fields", "aliases"}, DataStored(d, strings)
      PROVE  DataStored(s, strings)
  <2>1. \A k \in {"type", "fields", "aliases"} :
          (k \in DOMAIN s <=> k \in DOMAIN d) /\ (k \in DOMAIN d => s[k] = d[k])
    BY <1>1, <1>2
  <2>2. "name" \in DOMAIN s => s.name \in strings
    BY <1>1, <1>2 DEF DataStored
  <2> QED
    BY <1>2, <2>1, <2>2 DEF DataStored
<1>3. ASSUME FieldStored(d, strings)
      PROVE  FieldStored(s, strings)
  BY <1>1, <1>3 DEF FieldStored
<1> QED
  BY <1>2, <1>3 DEF s

\* What is the same in every step that adds the string of its line.
LEMMA StringStep ==
  ASSUME MergeInv, NEW commands, commands \subseteq {"name", "alias", "ek", "type"},
         Read(commands), AddString(arg), UNCHANGED <<type_name_map, arch>>,
         is_in_field_mode' \in BOOLEAN
  PROVE  /\ PlaceInv' /\ ArchInv' /\ MapStored' /\ VolumeInPlace'
         /\ Stored' = Stored \cup {arg}
         /\ DataStored(current_data, Stored')
         /\ FieldStored(current_field_data, Stored')
<1>1. "arch" \notin commands
  OBVIOUS
<1>2. arch \in DOMAIN Word /\ files' = files /\ PlaceInv' /\ ArchInv'
  BY <1>1, ReadKeepsPlace
<1>3. arg \in DOMAIN NameLen
  BY LineFacts
<1>4. VolumeInPlace' /\ Stored' = Stored \cup {arg}
  BY <1>2, <1>3, StringAdded DEF MergeInv
<1>5. MapStored'
  BY <1>4, MapKept DEF MergeInv
<1>6. DataStored(current_data, Stored') /\ FieldStored(current_field_data, Stored')
  BY <1>4, StoredIsMonotone DEF MergeInv
<1> QED
  BY <1>2, <1>4, <1>5, <1>6

LEMMA ReadNameStep == MergeInv /\ ReadName => MergeInv'
<1> SUFFICES ASSUME MergeInv, ReadName PROVE MergeInv'
  OBVIOUS
<1> DEFINE commands == {"name"}
<1>1. /\ Read(commands) /\ AddString(arg) /\ UNCHANGED <<type_name_map, arch>>
      /\ is_in_field_mode' \in BOOLEAN
      /\ commands \subseteq {"name", "alias", "ek", "type"}
  BY DEF ReadName, MergeInv, PlaceInv
<1> HIDE DEF commands
<1>2. /\ PlaceInv' /\ ArchInv' /\ MapStored' /\ VolumeInPlace'
      /\ arg \in Stored'
      /\ DataStored(current_data, Stored') /\ FieldStored(current_field_data, Stored')
  BY <1>1, StringStep
<1>3. CASE is_in_field_mode
  <2>1. /\ current_field_data' = Set(current_field_data, "name", arg)
        /\ current_data' = current_data
    BY <1>3 DEF ReadName
  <2>2. FieldStored(current_field_data', Stored')
    BY <1>2, <2>1, ColumnSet
  <2> QED
    BY <1>2, <2>1, <2>2 DEF MergeInv
<1>4. CASE ~is_in_field_mode
  <2>1. /\ current_data' = Set(current_data, "name", arg)
        /\ current_field_data' = current_field_data
    BY <1>4 DEF ReadName
  <2>2. DataStored(current_data', Stored')
    BY <1>2, <2>1, ColumnSet
  <2> QED
    BY <1>2, <2>1, <2>2 DEF MergeInv
<1> QED
  BY <1>3, <1>4

LEMMA ReadStringStep == MergeInv /\ ReadString => MergeInv'
<1> SUFFICES ASSUME MergeInv, ReadString PROVE MergeInv'
  OBVIOUS
<1> DEFINE commands == {"ek", "type"}
           key == IF command = "ek" THEN "name" ELSE "type"
<1>1. /\ Read(commands) /\ AddString(arg) /\ UNCHANGED <<type_name_map, arch>>
      /\ is_in_field_mode' \in BOOLEAN
      /\ commands \subseteq {"name", "alias", "ek", "type"}
      /\ current_data' = current_data
      /\ current_field_data' = Set(current_field_data, key, arg)
  BY DEF ReadString, MergeInv, PlaceInv
<1> HIDE DEF commands, key
<1>2. /\ PlaceInv' /\ ArchInv' /\ MapStored' /\ VolumeInPlace'
      /\ arg \in Stored'
      /\ DataStored(current_data, Stored') /\ FieldStored(current_field_data, Stored')
  BY <1>1, StringStep
<1>3. FieldStored(current_field_data', Stored')
  BY <1>1, <1>2, ColumnSet
<1> QED
  BY <1>1, <1>2, <1>3 DEF MergeInv

LEMMA ReadAliasStep == MergeInv /\ ReadAlias => MergeInv'
<1> SUFFICES ASSUME MergeInv, ReadAlias PROVE MergeInv'
  OBVIOUS
<1> DEFINE commands == {"alias"}
           before == IF "aliases" \in Keys(current_data) THEN current_data["aliases"] ELSE <<>>
           aliases == Append(before, arg)
           d == Set(current_data, "aliases", aliases)
<1>1. /\ Read(commands) /\ AddString(arg) /\ UNCHANGED <<type_name_map, arch>>
      /\ is_in_field_mode' \in BOOLEAN
      /\ commands \subseteq {"name", "alias", "ek", "type"}
      /\ current_data' = d
      /\ current_field_data' = current_field_data
  BY DEF ReadAlias, MergeInv, PlaceInv, Appended
<1> HIDE DEF commands, d
<1>2. /\ PlaceInv' /\ ArchInv' /\ MapStored' /\ VolumeInPlace'
      /\ arg \in Stored'
      /\ DataStored(current_data, Stored') /\ FieldStored(current_field_data, Stored')
  BY <1>1, StringStep
<1>3. IsList(before) /\ \A k \in DOMAIN before : before[k] \in Stored'
  BY <1>2, NothingIsList DEF DataStored, Keys, ToSet
<1> HIDE DEF before
<1>4. IsList(aliases) /\ ToSet(aliases) \subseteq Stored'
  <2>1. /\ IsList(aliases)
        /\ DOMAIN aliases = DOMAIN before \cup {Len(before) + 1}
        /\ aliases[Len(before) + 1] = arg
        /\ \A k \in DOMAIN before : aliases[k] = before[k]
    BY <1>3, ListAppended
  <2> HIDE DEF aliases
  <2> QED
    BY <1>2, <1>3, <2>1 DEF ToSet
<1> HIDE DEF aliases
<1>5. /\ DOMAIN d = DOMAIN current_data \cup {"aliases"}
      /\ d["aliases"] = aliases
      /\ \A k \in DOMAIN current_data : k # "aliases" => d[k] = current_data[k]
  BY DEF d, Set, Keys
<1>6. DataStored(d, Stored')
  BY <1>2, <1>4, <1>5 DEF DataStored
<1> QED
  BY <1>1, <1>2, <1>6 DEF MergeInv

LEMMA ReadSizeStep == MergeInv /\ ReadSize => MergeInv'
<1> SUFFICES ASSUME MergeInv, ReadSize PROVE MergeInv'
  OBVIOUS
<1>1. /\ Read({"size"})
      /\ current_data' = Set(current_data, "size", arg)
      /\ UNCHANGED <<current_field_data, is_in_field_mode, type_name_map,
                     global_string_volume, arch>>
  BY DEF ReadSize
<1>2. PlaceInv' /\ ArchInv' /\ files' = files
  BY <1>1, ReadKeepsPlace DEF MergeInv, PlaceInv
<1>3. VolumeInPlace' /\ Stored' = Stored
  BY <1>1, <1>2, VolumeKept DEF MergeInv
<1>4. MapStored'
  BY <1>1, <1>3, MapKept DEF MergeInv
<1>5. DataStored(current_data', Stored')
  BY <1>1, <1>3, ColumnSet DEF MergeInv
<1> QED
  BY <1>1, <1>2, <1>3, <1>4, <1>5 DEF MergeInv

LEMMA ReadColumnStep == MergeInv /\ ReadColumn => MergeInv'
<1> SUFFICES ASSUME MergeInv, ReadColumn PROVE MergeInv'
  OBVIOUS
<1> DEFINE commands == {"ev", "offset", "pdepth", "arrsize", "const", "isstruct"}
           key == CASE command = "ev"       -> "value"
                    [] command = "isstruct" -> "struct"
                    [] OTHER                -> command
<1>1. /\ Read(commands)
      /\ current_field_data' = Set(current_field_data, key, arg)
      /\ UNCHANGED <<current_data, is_in_field_mode, type_name_map,
                     global_string_volume, arch>>
  BY DEF ReadColumn
<1>2. command \in commands
  BY <1>1 DEF Read, command
<1>3. key # "name"
  BY <1>2
<1>4. "arch" \notin commands /\ is_in_field_mode' \in BOOLEAN
  BY <1>1 DEF MergeInv, PlaceInv
<1> HIDE DEF commands, key
<1>5. PlaceInv' /\ ArchInv' /\ files' = files
  BY <1>1, <1>4, ReadKeepsPlace
<1>6. VolumeInPlace' /\ Stored' = Stored
  BY <1>1, <1>5, VolumeKept DEF MergeInv
<1>7. MapStored'
  BY <1>1, <1>6, MapKept DEF MergeInv
<1>8. FieldStored(current_field_data', Stored')
  BY <1>1, <1>3, <1>6, ColumnSet DEF MergeInv
<1> QED
  BY <1>1, <1>5, <1>6, <1>7, <1>8 DEF MergeInv

\* A file that ends before any arch line leaves nothing behind.
LEMMA EndFileStep == MergeInv /\ EndFile => MergeInv'
<1> SUFFICES ASSUME MergeInv, EndFile PROVE MergeInv'
  OBVIOUS
<1>1. /\ type_name_map' = FlushedMap
      /\ current_data' = Empty /\ current_field_data' = Empty
      /\ is_in_field_mode' = FALSE
      /\ file' = file + 1 /\ line' = 1
      /\ UNCHANGED <<files, global_string_volume, arch>>
  BY DEF EndFile
<1>2. PlaceInv'
  <2>1. Len(files) \in Nat
    BY DirectoryFacts DEF MergeInv, PlaceInv
  <2>2. file' \in 1 .. Len(files) + 1
    <3>1. file \in 1 .. Len(files) + 1 /\ file <= Len(files) /\ file' = file + 1
      BY <1>1 DEF EndFile, MergeInv, PlaceInv
    <3> QED
      BY <2>1, <3>1
  <2>3. line' \in Nat \ {0}
    BY <1>1
  <2>4. is_in_field_mode' \in BOOLEAN
    BY <1>1, Zenon
  <2> QED
    BY <1>1, <2>2, <2>3, <2>4 DEF MergeInv, PlaceInv
<1>3. ArchInv'
  <2>1. CASE arch = -1
    <3>1. current_data = Empty /\ is_in_field_mode = FALSE /\ type_name_map = <<>>
          /\ global_string_volume = <<>>
      BY <2>1, WordAssumption DEF MergeInv, ArchInv
    <3>2. FlushedData = Empty
      BY <3>1 DEF FlushedData
    <3>3. FlushedMap = <<>>
      BY <3>1, <3>2 DEF FlushedMap, Keys, Empty
    <3> QED
      BY <1>1, <2>1, <3>1, <3>3 DEF ArchInv
  <2>2. CASE arch # -1
    BY <1>1, <2>2 DEF MergeInv, ArchInv
  <2> QED
    BY <2>1, <2>2
<1>4. VolumeInPlace' /\ Stored' = Stored
  BY <1>1, VolumeKept DEF MergeInv
<1>5. MapStored'
  BY <1>1, <1>4, MapFlushed
<1>6. DataStored(Empty, Stored') /\ FieldStored(Empty, Stored')
  BY DEF DataStored, FieldStored, Empty
<1> QED
  BY <1>1, <1>2, <1>3, <1>4, <1>5, <1>6 DEF MergeInv

LEMMA SkipFileStep == MergeInv /\ SkipFile => MergeInv'
<1> SUFFICES ASSUME MergeInv, SkipFile PROVE MergeInv'
  OBVIOUS
<1>1. /\ file' = file + 1
      /\ UNCHANGED <<files, line, object, type_name_map, global_string_volume, arch>>
  BY DEF SkipFile
<1>2. PlaceInv'
  <2>1. Len(files) \in Nat
    BY DirectoryFacts DEF MergeInv, PlaceInv
  <2> QED
    BY <1>1, <2>1 DEF SkipFile, MergeInv, PlaceInv, object
<1>3. ArchInv'
  BY <1>1 DEF MergeInv, ArchInv, object
<1>4. VolumeInPlace' /\ Stored' = Stored
  BY <1>1, VolumeKept DEF MergeInv
<1>5. MapStored'
  BY <1>1, <1>4, MapKept DEF MergeInv
<1> QED
  BY <1>1, <1>2, <1>3, <1>4, <1>5 DEF MergeInv, object

-----------------------------------------------------------------------------
\* Reading definitions back.

IsDict(d) == d = [k \in DOMAIN d |-> d[k]]

\* A map of the first n of some definitions: it has the last one of each of
\* their names, in the order of the first ones.
MapIs(m, defs, n) ==
  /\ IsList(m)
  /\ \A i \in 1 .. n : \E k \in DOMAIN m : m[k].name = defs[i].name
  /\ \A k \in DOMAIN m : \E i \in 1 .. n :
       m[k] = Parsed(defs[i]) /\ \A h \in i + 1 .. n : defs[h].name # defs[i].name
  /\ \A j, k \in DOMAIN m : j < k =>
       \E i \in 1 .. n :
         defs[i].name = m[j].name /\ \A h \in 1 .. i : defs[h].name # m[k].name

\* The definitions of each file, and how many the files before this one have.
DefLists == [k \in DOMAIN files |-> IF files[k].readable THEN files[k].types ELSE <<>>]
Earlier == Before(DefLists, file - 1)

\* The key a column of a field is kept under.
KeyOf(c) ==
  CASE c = "ek"       -> "name"
    [] c = "ev"       -> "value"
    [] c = "isstruct" -> "struct"
    [] OTHER          -> c

\* A field of which the first r lines are read.
FieldRead(d, f, r, dict) ==
  LET lines == FieldLines(d, f)
  IN  /\ IsDict(dict)
      /\ DOMAIN dict = {KeyOf(lines[i].command) : i \in 2 .. r}
      /\ \A i \in 2 .. r : dict[KeyOf(lines[i].command)] = lines[i].arg

\* An object of which some columns, the first a aliases and the first j
\* fields are read.
ObjectRead(d, columns, a, j, dict) ==
  /\ IsDict(dict)
  /\ DOMAIN dict = {"type"} \cup columns
                     \cup (IF d.type = "base" THEN {} ELSE {"aliases", "fields"})
  /\ dict.type = d.type
  /\ \A k \in columns : dict[k] = d[k]
  /\ d.type # "base" =>
       /\ IsList(dict.aliases) /\ Len(dict.aliases) = a
       /\ \A k \in 1 .. a : dict.aliases[k] = Aliases(d)[k]
       /\ IsList(dict.fields) /\ Len(dict.fields) = j
       /\ \A k \in 1 .. j : dict.fields[k] = Columns(d, d.fields[k])

\* What there is of an object after n of its lines up to its size.
HeadRead(d, n) ==
  \/ n = 1 /\ ObjectRead(d, {}, 0, 0, current_data)
  \/ n \in 2 .. HeadLen(d) - 1 /\ ObjectRead(d, {"name"}, n - 2, 0, current_data)
  \/ n = HeadLen(d) /\ ObjectRead(d, {"name", "size"}, Len(Aliases(d)), 0, current_data)

\* The parser is in the definition d, whose lines begin after the line start.
InHead(d, start) ==
  /\ is_in_field_mode = FALSE
  /\ current_field_data = Empty
  /\ \E n \in 1 .. HeadLen(d) : line = start + n + 1 /\ HeadRead(d, n)

InField(d, start) ==
  /\ is_in_field_mode = TRUE
  /\ \E j \in 1 .. Len(d.fields) : \E r \in 1 .. FieldWidth(d) :
       /\ line = start + FieldPlace(d, j - 1) + r + 1
       /\ ObjectRead(d, {"name", "size"}, Len(Aliases(d)), j - 1, current_data)
       /\ FieldRead(d, d.fields[j], r, current_field_data)

\* Nothing is at hand.
AtStart ==
  /\ line = 1 \/ (line = 2 /\ file <= Len(files) /\ files[file].readable)
  /\ current_data = Empty
  /\ current_field_data = Empty
  /\ is_in_field_mode = FALSE
  /\ MapIs(type_name_map, Definitions, Earlier)

InUnit ==
  /\ file <= Len(files)
  /\ files[file].readable
  /\ \E i \in 1 .. Len(files[file].types) :
       /\ MapIs(type_name_map, Definitions, Earlier + i - 1)
       /\ \/ InHead(files[file].types[i], TypePlace(files[file], i - 1))
          \/ InField(files[file].types[i], TypePlace(files[file], i - 1))

\* The lines of a field: what begins it, and the column each of the others has.
LEMMA EnumeratorLines ==
  ASSUME NEW d, d.type = "enum", NEW f
  PROVE  LET lines == FieldLines(d, f)
         IN  /\ lines[1].command = "enumerator"
             /\ lines[2].command = "ek" /\ lines[2].arg = f.name
             /\ lines[3].command = "ev" /\ lines[3].arg = f.value
<1> DEFINE l1 == Line("enumerator", "")
           l2 == Line("ek", f.name)
           l3 == Line("ev", f.value)
           t == << l1, l2, l3 >>
<1>1. FieldLines(d, f) = t
  BY Zenon DEF FieldLines
<1>2. /\ l1.command = "enumerator" /\ l2.command = "ek" /\ l2.arg = f.name
      /\ l3.command = "ev" /\ l3.arg = f.value
  BY Zenon DEF Line
<1> HIDE DEF l1, l2, l3
<1>3. t[1] = l1 /\ t[2] = l2 /\ t[3] = l3
  OBVIOUS
<1> HIDE DEF t
<1> QED
  BY <1>1, <1>2, <1>3

LEMMA MemberLines ==
  ASSUME NEW d, d.type # "enum", NEW f
  PROVE  LET lines == FieldLines(d, f)
         IN  /\ lines[1].command = "field"
             /\ lines[2].command = "name" /\ lines[2].arg = f.name
             /\ lines[3].command = "type" /\ lines[3].arg = f.type
             /\ lines[4].command = "offset" /\ lines[4].arg = f.offset
             /\ lines[5].command = "pdepth" /\ lines[5].arg = f.pdepth
             /\ lines[6].command = "arrsize" /\ lines[6].arg = f.arrsize
             /\ lines[7].command = "const" /\ lines[7].arg = f.const
             /\ lines[8].command = "isstruct" /\ lines[8].arg = f.struct
<1> DEFINE l1 == Line("field", "")
           l2 == Line("name", f.name)
           l3 == Line("type", f.type)
           l4 == Line("offset", f.offset)
           l5 == Line("pdepth", f.pdepth)
           l6 == Line("arrsize", f.arrsize)
           l7 == Line("const", f.const)
           l8 == Line("isstruct", f.struct)
           t == << l1, l2, l3, l4, l5, l6, l7, l8 >>
<1>1. FieldLines(d, f) = t
  BY Zenon DEF FieldLines
<1>2. l1.command = "field"
  BY Zenon DEF Line
<1> HIDE DEF l1
<1>3. /\ l2.command = "name" /\ l3.command = "type"
      /\ l4.command = "offset" /\ l5.command = "pdepth" /\ l6.command = "arrsize"
      /\ l7.command = "const" /\ l8.command = "isstruct"
      /\ l2.arg = f.name /\ l3.arg = f.type /\ l4.arg = f.offset /\ l5.arg = f.pdepth
      /\ l6.arg = f.arrsize /\ l7.arg = f.const /\ l8.arg = f.struct
  BY DEF Line
<1> HIDE DEF l2, l3, l4, l5, l6, l7, l8
<1>4. /\ t[1] = l1 /\ t[2] = l2 /\ t[3] = l3 /\ t[4] = l4
      /\ t[5] = l5 /\ t[6] = l6 /\ t[7] = l7 /\ t[8] = l8
  OBVIOUS
<1> HIDE DEF t
<1> QED
  BY <1>1, <1>2, <1>3, <1>4

\* The key of the r-th line of a field.
ColumnKey(d, r) ==
  IF d.type = "enum" THEN IF r = 2 THEN "name" ELSE "value"
  ELSE CASE r = 2 -> "name"
         [] r = 3 -> "type"
         [] r = 4 -> "offset"
         [] r = 5 -> "pdepth"
         [] r = 6 -> "arrsize"
         [] r = 7 -> "const"
         [] OTHER -> "struct"

LEMMA ColumnKeys ==
  ASSUME NEW d, NEW f, NEW r \in 2 .. FieldWidth(d)
  PROVE  /\ KeyOf(FieldLines(d, f)[r].command) = ColumnKey(d, r)
         /\ FieldLines(d, f)[r].command \in
              {"name", "ek", "type", "ev", "offset", "pdepth", "arrsize", "const", "isstruct"}
<1> DEFINE lines == FieldLines(d, f)
<1>1. CASE d.type = "enum"
  <2>1. r = 2 \/ r = 3
    BY <1>1 DEF FieldWidth
  <2>2. lines[2].command = "ek" /\ lines[3].command = "ev"
    BY <1>1, EnumeratorLines
  <2> HIDE DEF lines
  <2> QED
    BY <1>1, <2>1, <2>2 DEF KeyOf, ColumnKey, lines
<1>2. CASE d.type # "enum"
  <2>1. r \in 2 .. 8
    BY <1>2 DEF FieldWidth
  <2>2. /\ lines[2].command = "name" /\ lines[3].command = "type"
        /\ lines[4].command = "offset" /\ lines[5].command = "pdepth"
        /\ lines[6].command = "arrsize" /\ lines[7].command = "const"
        /\ lines[8].command = "isstruct"
    BY <1>2, MemberLines
  <2> HIDE DEF lines
  <2>3. r = 2 \/ r = 3 \/ r = 4 \/ r = 5 \/ r = 6 \/ r = 7 \/ r = 8
    BY <2>1
  <2> QED
    BY <1>2, <2>2, <2>3 DEF KeyOf, ColumnKey, lines
<1> QED
  BY <1>1, <1>2

LEMMA ColumnKeysDiffer ==
  ASSUME NEW d, NEW i \in 2 .. FieldWidth(d), NEW j \in 2 .. FieldWidth(d),
         ColumnKey(d, i) = ColumnKey(d, j)
  PROVE  i = j
<1>1. CASE d.type = "enum"
  BY <1>1 DEF FieldWidth, ColumnKey
<1>2. CASE d.type # "enum"
  BY <1>2 DEF FieldWidth, ColumnKey
<1> QED
  BY <1>1, <1>2

\* Reading one more column of a field.
LEMMA ColumnRead ==
  ASSUME NEW d, NEW f, NEW r \in 2 .. FieldWidth(d), NEW dict, FieldRead(d, f, r - 1, dict)
  PROVE  FieldRead(d, f, r, Set(dict, KeyOf(FieldLines(d, f)[r].command), FieldLines(d, f)[r].arg))
<1> DEFINE lines == FieldLines(d, f)
           key(i) == KeyOf(lines[i].command)
           c == key(r)
           v == lines[r].arg
           new == Set(dict, c, v)
<1>1. FieldWidth(d) \in {3, 8}
  BY DEF FieldWidth
<1>2. /\ DOMAIN dict = {key(i) : i \in 2 .. r - 1}
      /\ \A i \in 2 .. r - 1 : dict[key(i)] = lines[i].arg
  BY DEF FieldRead
<1>3. \A i, j \in 2 .. FieldWidth(d) : key(i) = key(j) => i = j
  BY ColumnKeys, ColumnKeysDiffer
<1> HIDE DEF lines
<1>4. 2 .. r = (2 .. r - 1) \cup {r} /\ 2 .. r \subseteq 2 .. FieldWidth(d)
  BY <1>1
<1> HIDE DEF key, c, v
<1>5. /\ DOMAIN new = DOMAIN dict \cup {c}
      /\ new[c] = v
      /\ \A k \in DOMAIN dict : k # c => new[k] = dict[k]
  BY DEF Set
<1>6. IsDict(new) /\ c = key(r) /\ v = lines[r].arg
  BY DEF IsDict, Set, c, v
<1> HIDE DEF new
<1>7. DOMAIN new = {key(i) : i \in 2 .. r}
  BY <1>2, <1>4, <1>5, <1>6
<1>8. ASSUME NEW i \in 2 .. r
      PROVE  new[key(i)] = lines[i].arg
  <2>1. CASE i = r
    BY <1>5, <1>6, <2>1
  <2>2. CASE i # r
    <3>1. i \in 2 .. r - 1 /\ key(i) \in DOMAIN dict
      BY <1>2, <1>4, <2>2
    <3>2. key(i) # c
      BY <1>3, <1>4, <1>6, <2>2
    <3> QED
      BY <1>2, <1>5, <3>1, <3>2
  <2> QED
    BY <2>1, <2>2
<1> QED
  BY <1>6, <1>7, <1>8 DEF FieldRead, new, key, lines, c, v

\* A field of which all lines are read.
LEMMA FieldIsRead ==
  ASSUME NEW d, NEW f, NEW dict, FieldRead(d, f, FieldWidth(d), dict)
  PROVE  dict = Columns(d, f) /\ "name" \in DOMAIN dict
<1> DEFINE lines == FieldLines(d, f)
           key(i) == KeyOf(lines[i].command)
<1>1. /\ IsDict(dict)
      /\ DOMAIN dict = {key(i) : i \in 2 .. FieldWidth(d)}
      /\ \A i \in 2 .. FieldWidth(d) : dict[key(i)] = lines[i].arg
  BY DEF FieldRead
<1>2. \A i \in 2 .. FieldWidth(d) : key(i) = ColumnKey(d, i)
  BY ColumnKeys
<1> HIDE DEF key
<1>3. CASE d.type = "enum"
  <2>1. 2 .. FieldWidth(d) = {2, 3}
    BY <1>3 DEF FieldWidth
  <2>2. key(2) = "name" /\ key(3) = "value"
    BY <1>2, <1>3, <2>1 DEF ColumnKey
  <2>3. lines[2].arg = f.name /\ lines[3].arg = f.value
    BY <1>3, EnumeratorLines
  <2> HIDE DEF lines
  <2>4. /\ DOMAIN dict = {"name", "value"}
        /\ dict["name"] = f.name /\ dict["value"] = f.value
    BY <1>1, <2>1, <2>2, <2>3
  <2>5. dict = [k \in {"name", "value"} |-> dict[k]]
    BY <1>1, <2>4 DEF IsDict
  <2>6. dict = [name |-> f.name, value |-> f.value]
    BY <2>4, <2>5
  <2> QED
    BY <1>3, <2>4, <2>6 DEF Columns
<1>4. CASE d.type # "enum"
  <2> DEFINE columns == {"name", "type", "offset", "pdepth", "arrsize", "const", "struct"}
  <2>1. 2 .. FieldWidth(d) = {2, 3, 4, 5, 6, 7, 8}
    BY <1>4 DEF FieldWidth
  <2>2. /\ key(2) = "name" /\ key(3) = "type" /\ key(4) = "offset" /\ key(5) = "pdepth"
        /\ key(6) = "arrsize" /\ key(7) = "const" /\ key(8) = "struct"
    BY <1>2, <1>4, <2>1 DEF ColumnKey
  <2>3. /\ lines[2].arg = f.name /\ lines[3].arg = f.type /\ lines[4].arg = f.offset
        /\ lines[5].arg = f.pdepth /\ lines[6].arg = f.arrsize /\ lines[7].arg = f.const
        /\ lines[8].arg = f.struct
    BY <1>4, MemberLines
  <2> HIDE DEF lines
  <2>4. DOMAIN dict = columns
    <3>1. DOMAIN dict = {key(i) : i \in {2, 3, 4, 5, 6, 7, 8}}
      BY <1>1, <2>1
    <3> QED
      BY <2>2, <3>1
  <2>5. /\ dict["name"] = f.name /\ dict["type"] = f.type /\ dict["offset"] = f.offset
        /\ dict["pdepth"] = f.pdepth /\ dict["arrsize"] = f.arrsize
        /\ dict["const"] = f.const /\ dict["struct"] = f.struct
    BY <1>1, <2>1, <2>2, <2>3
  <2>6. dict = [k \in columns |-> dict[k]]
    BY <1>1, <2>4 DEF IsDict
  <2>7. dict = [name |-> f.name, type |-> f.type, offset |-> f.offset, pdepth |-> f.pdepth,
                arrsize |-> f.arrsize, const |-> f.const, struct |-> f.struct]
    BY <2>5, <2>6
  <2> QED
    BY <1>4, <2>4, <2>7 DEF Columns
<1> QED
  BY <1>3, <1>4

\* An object of which everything is read.
LEMMA ObjectIsRead ==
  ASSUME NEW d, IsEntry(d), NEW dict,
         ObjectRead(d, {"name", "size"}, Len(Aliases(d)), Len(d.fields), dict)
  PROVE  dict = Parsed(d) /\ {"type", "name"} \subseteq DOMAIN dict
<1>1. /\ IsDict(dict)
      /\ dict.type = d.type /\ dict["name"] = d["name"] /\ dict["size"] = d["size"]
  BY DEF ObjectRead
<1>2. CASE d.type = "base"
  <2>1. DOMAIN dict = {"type", "name", "size"}
    BY <1>2 DEF ObjectRead
  <2>2. dict = [k \in {"type", "name", "size"} |-> dict[k]]
    BY <1>1, <2>1 DEF IsDict
  <2>3. dict = [type |-> d.type, name |-> d.name, size |-> d.size]
    BY <1>1, <2>2
  <2> QED
    BY <1>2, <2>1, <2>3 DEF Parsed
<1>3. CASE d.type # "base"
  <2> DEFINE aliases == Aliases(d)
             fields == [k \in DOMAIN d.fields |-> Columns(d, d.fields[k])]
             keys == {"type", "name", "size", "aliases", "fields"}
  <2>1. DOMAIN dict = keys
    BY <1>3 DEF ObjectRead
  <2>2. /\ IsList(dict.aliases) /\ Len(dict.aliases) = Len(aliases)
        /\ \A k \in 1 .. Len(aliases) : dict.aliases[k] = aliases[k]
        /\ IsList(dict.fields) /\ Len(dict.fields) = Len(d.fields)
        /\ \A k \in 1 .. Len(d.fields) : dict.fields[k] = Columns(d, d.fields[k])
    BY <1>3 DEF ObjectRead
  <2>3. IsList(aliases) /\ DOMAIN d.fields = 1 .. Len(d.fields)
    BY EntryFacts
  <2>4. dict.aliases = aliases
    <3> DEFINE read == dict.aliases
    <3>1. IsList(read) /\ Len(read) = Len(aliases) /\ \A k \in 1 .. Len(read) : read[k] = aliases[k]
      BY <2>2
    <3> HIDE DEF aliases, read
    <3>2. read = aliases
      BY <2>3, <3>1, SameLists
    <3> QED
      BY <3>2 DEF read
  <2>5. dict.fields = fields
    <3>1. dict.fields = [k \in 1 .. Len(d.fields) |-> dict.fields[k]]
      BY <2>2 DEF IsList
    <3>2. fields = [k \in 1 .. Len(d.fields) |-> Columns(d, d.fields[k])]
      BY <2>3
    <3> QED
      BY <2>2, <3>1, <3>2
  <2>6. dict = [k \in keys |-> dict[k]]
    BY <1>1, <2>1 DEF IsDict
  <2> HIDE DEF aliases, fields
  <2>7. dict = [type |-> d.type, name |-> d.name, size |-> d.size, aliases |-> aliases,
                fields |-> fields]
    BY <1>1, <2>4, <2>5, <2>6
  <2> QED
    BY <1>3, <2>1, <2>7 DEF Parsed, aliases, fields
<1> QED
  BY <1>2, <1>3

\* The next definition is put into the map: where there is one of its name, or
\* at the end.
LEMMA PutKeepsMap ==
  ASSUME NEW m, NEW defs, NEW n \in Nat \ {0}, MapIs(m, defs, n - 1),
         NEW d, d = Parsed(defs[n])
  PROVE  MapIs(Put(m, d), defs, n)
<1> DEFINE new == Put(m, d)
           first == 1 .. n - 1
<1>0. IsList(m)
  BY DEF MapIs
<1>1. /\ \A i \in first : \E k \in DOMAIN m : m[k].name = defs[i].name
      /\ \A k \in DOMAIN m : \E i \in first :
           m[k] = Parsed(defs[i]) /\ \A h \in i + 1 .. n - 1 : defs[h].name # defs[i].name
      /\ \A j, k \in DOMAIN m : j < k =>
           \E i \in first :
             defs[i].name = m[j].name /\ \A h \in 1 .. i : defs[h].name # m[k].name
  BY DEF MapIs
<1>2. 1 .. n = first \cup {n} /\ n \notin first
  OBVIOUS
<1>3. \A e : Parsed(e).name = e.name
  BY DEF Parsed
<1>4. d.name = defs[n].name
  BY <1>3
<1>5. \A k \in DOMAIN m : \E i \in first : m[k].name = defs[i].name
  BY <1>1, <1>3
<1>6. Len(m) \in Nat /\ DOMAIN m = 1 .. Len(m)
  BY <1>0, ListFacts
<1>7. CASE d.name \notin TypeNames(m)
  <2> DEFINE last == Len(m) + 1
  <2>1. new = Append(m, d)
    BY <1>7 DEF Put
  <2>2. /\ IsList(new) /\ DOMAIN new = DOMAIN m \cup {last}
        /\ new[last] = d
        /\ \A k \in DOMAIN m : new[k] = m[k]
    BY <1>0, <2>1, ListAppended
  <2>3. \A k \in DOMAIN m : m[k].name # d.name
    BY <1>7 DEF TypeNames
  <2>4. \A k \in DOMAIN m : k < last
    BY <1>6
  <2> HIDE DEF new, last
  <2>5. \A i \in 1 .. n : \E k \in DOMAIN new : new[k].name = defs[i].name
    BY <1>1, <1>2, <1>4, <2>2
  <2>6. ASSUME NEW k \in DOMAIN new
        PROVE  \E i \in 1 .. n :
                 new[k] = Parsed(defs[i]) /\ \A h \in i + 1 .. n : defs[h].name # defs[i].name
    <3>1. CASE k = last
      <4>1. new[k] = Parsed(defs[n]) /\ n \in 1 .. n /\ n + 1 .. n = {}
        BY <1>2, <2>2, <3>1
      <4> QED
        BY <4>1
    <3>2. CASE k # last
      <4>1. k \in DOMAIN m /\ new[k] = m[k]
        BY <2>2, <3>2
      <4>2. PICK i \in first : m[k] = Parsed(defs[i])
                               /\ \A h \in i + 1 .. n - 1 : defs[h].name # defs[i].name
        BY <1>1, <4>1
      <4>3. defs[i].name # defs[n].name
        BY <1>3, <1>4, <2>3, <4>1, <4>2
      <4>4. \A h \in i + 1 .. n : h = n \/ h \in i + 1 .. n - 1
        OBVIOUS
      <4>5. \A h \in i + 1 .. n : defs[h].name # defs[i].name
        BY <4>2, <4>3, <4>4
      <4> QED
        BY <1>2, <4>1, <4>2, <4>5
    <3> QED
      BY <3>1, <3>2
  <2>7. ASSUME NEW j \in DOMAIN new, NEW k \in DOMAIN new, j < k
        PROVE  \E i \in 1 .. n :
                 defs[i].name = new[j].name /\ \A h \in 1 .. i : defs[h].name # new[k].name
    <3>1. j \in DOMAIN m
      BY <1>6, <2>2, <2>4, <2>7 DEF last
    <3>2. CASE k = last
      <4>1. PICK i \in first : m[j].name = defs[i].name
        BY <1>5, <3>1
      <4>2. \A h \in 1 .. i : h \in first
        OBVIOUS
      <4>3. \A h \in first : defs[h].name # d.name
        BY <1>1, <2>3
      <4> QED
        BY <1>2, <2>2, <3>1, <3>2, <4>1, <4>2, <4>3
    <3>3. CASE k # last
      <4>1. k \in DOMAIN m
        BY <2>2, <3>3
      <4>2. PICK i \in first : defs[i].name = m[j].name
                               /\ \A h \in 1 .. i : defs[h].name # m[k].name
        BY <1>1, <2>7, <3>1, <4>1
      <4> QED
        BY <1>2, <2>2, <3>1, <4>1, <4>2
    <3> QED
      BY <3>2, <3>3
  <2>8. MapIs(new, defs, n)
    BY <2>2, <2>5, <2>6, <2>7 DEF MapIs
  <2> QED
    BY <2>8 DEF new
<1>8. CASE d.name \in TypeNames(m)
  <2> DEFINE places == {i \in 1 .. Len(m) : m[i].name = d.name}
             at == Min(places)
             t == [m EXCEPT ![at] = d]
  <2>1. PICK here \in DOMAIN m : m[here].name = d.name
    BY <1>8 DEF TypeNames
  <2>2. SelectInSeq(m, LAMBDA e : e.name = d.name) = at
    BY <1>6, <2>1 DEF SelectInSeq
  <2>3. new = t
    BY <1>8, <2>2 DEF Put
  <2>4. at \in DOMAIN m /\ m[at].name = d.name
    <3>1. places \subseteq Nat /\ places # {}
      BY <1>6, <2>1
    <3> HIDE DEF places
    <3>2. at \in places
      BY <3>1, LeastNumber
    <3> HIDE DEF at
    <3> QED
      BY <1>6, <3>2 DEF places
  <2> HIDE DEF places, at
  <2>5. /\ DOMAIN t = DOMAIN m /\ t[at] = d
        /\ \A k \in DOMAIN m : k # at => t[k] = m[k]
        /\ t = [k \in DOMAIN m |-> t[k]]
    BY <2>4
  <2> HIDE DEF t
  <2>6. IsList(t)
    BY <1>6, <2>5, FunctionsAreLists
  <2>7. \A k \in DOMAIN m : t[k].name = m[k].name
    BY <2>4, <2>5
  <2>8. \A i \in 1 .. n : \E k \in DOMAIN t : t[k].name = defs[i].name
    BY <1>1, <1>2, <1>4, <2>4, <2>5, <2>7
  <2>9. ASSUME NEW k \in DOMAIN t, k # at
        PROVE  m[k].name # d.name
    <3>1. k \in DOMAIN m
      BY <2>5
    <3>2. k < at \/ at < k
      BY <1>6, <2>4, <2>9, <3>1
    <3>3. CASE k < at
      <4>1. PICK i \in first : defs[i].name = m[k].name
                               /\ \A h \in 1 .. i : defs[h].name # m[at].name
        BY <1>1, <2>4, <3>1, <3>3
      <4>2. i \in 1 .. i
        OBVIOUS
      <4> QED
        BY <2>4, <4>1, <4>2
    <3>4. CASE at < k
      <4>1. PICK i \in first : defs[i].name = m[at].name
                               /\ \A h \in 1 .. i : defs[h].name # m[k].name
        BY <1>1, <2>4, <3>1, <3>4
      <4>2. i \in 1 .. i
        OBVIOUS
      <4> QED
        BY <2>4, <4>1, <4>2
    <3> QED
      BY <3>2, <3>3, <3>4
  <2>10. ASSUME NEW k \in DOMAIN t
         PROVE  \E i \in 1 .. n :
                  t[k] = Parsed(defs[i]) /\ \A h \in i + 1 .. n : defs[h].name # defs[i].name
    <3>1. CASE k = at
      <4>1. t[k] = Parsed(defs[n]) /\ n \in 1 .. n /\ n + 1 .. n = {}
        BY <1>2, <2>5, <3>1
      <4> QED
        BY <4>1
    <3>2. CASE k # at
      <4>1. k \in DOMAIN m /\ t[k] = m[k]
        BY <2>5, <3>2
      <4>2. PICK i \in first : m[k] = Parsed(defs[i])
                               /\ \A h \in i + 1 .. n - 1 : defs[h].name # defs[i].name
        BY <1>1, <4>1
      <4>3. defs[i].name # defs[n].name
        BY <1>3, <1>4, <2>9, <3>2, <4>1, <4>2
      <4>4. \A h \in i + 1 .. n : h = n \/ h \in i + 1 .. n - 1
        OBVIOUS
      <4>5. \A h \in i + 1 .. n : defs[h].name # defs[i].name
        BY <4>2, <4>3, <4>4
      <4> QED
        BY <1>2, <4>1, <4>2, <4>5
    <3> QED
      BY <3>1, <3>2
  <2>11. \A j, k \in DOMAIN t : j < k =>
           \E i \in 1 .. n :
             defs[i].name = t[j].name /\ \A h \in 1 .. i : defs[h].name # t[k].name
    BY <1>1, <1>2, <2>5, <2>7
  <2>12. MapIs(new, defs, n)
    BY <2>3, <2>6, <2>8, <2>10, <2>11 DEF MapIs
  <2> QED
    BY <2>12
<1> QED
  BY <1>7, <1>8

-----------------------------------------------------------------------------
\* What each line does.

LEMMA UnitAtHand ==
  ASSUME MergeInv, file <= Len(files), files[file].readable
  PROVE  /\ file \in 1 .. Len(files) /\ Len(files) \in Nat
         /\ IsUnit(files[file])
<1>1. files \in Directories /\ file \in 1 .. Len(files) + 1
  BY DEF MergeInv, PlaceInv
<1>2. Len(files) \in Nat
  BY <1>1, DirectoryFacts
<1>3. file \in 1 .. Len(files)
  BY <1>1, <1>2
<1> QED
  BY <1>1, <1>2, <1>3, DirectoryFacts

\* A line is read by the one action its command is for.
LEMMA LineRead ==
  ASSUME Next, file <= Len(files), files[file].readable, ~ (line > Len(files[file].lines))
  PROVE  /\ files' = files /\ file' = file /\ line' = line + 1
         /\ command = "arch" =>
              UNCHANGED <<current_data, current_field_data, is_in_field_mode, type_name_map>>
         /\ command \in {"base", "enum", "struct", "union"} =>
              /\ type_name_map' = FlushedMap
              /\ current_data' = IF command = "base" THEN [type |-> "base"]
                                 ELSE [type |-> command, fields |-> <<>>, aliases |-> <<>>]
              /\ current_field_data' = IF is_in_field_mode THEN Empty ELSE current_field_data
              /\ is_in_field_mode' = FALSE
         /\ command \in {"field", "enumerator"} =>
              /\ current_data' = FlushedData
              /\ current_field_data' = IF is_in_field_mode THEN Empty ELSE current_field_data
              /\ is_in_field_mode' = TRUE
              /\ type_name_map' = type_name_map
         /\ command = "name" /\ is_in_field_mode =>
              /\ current_field_data' = Set(current_field_data, "name", arg)
              /\ UNCHANGED <<current_data, is_in_field_mode, type_name_map>>
         /\ command = "name" /\ ~is_in_field_mode =>
              /\ current_data' = Set(current_data, "name", arg)
              /\ UNCHANGED <<current_field_data, is_in_field_mode, type_name_map>>
         /\ command = "alias" =>
              /\ current_data' = Appended(current_data, "aliases", arg)
              /\ UNCHANGED <<current_field_data, is_in_field_mode, type_name_map>>
         /\ command = "size" =>
              /\ current_data' = Set(current_data, "size", arg)
              /\ UNCHANGED <<current_field_data, is_in_field_mode, type_name_map>>
         /\ command \in {"ek", "type", "ev", "offset", "pdepth", "arrsize", "const", "isstruct"} =>
              /\ current_field_data' = Set(current_field_data, KeyOf(command), arg)
              /\ UNCHANGED <<current_data, is_in_field_mode, type_name_map>>
<1> USE DEF Read, command
<1>1. CASE ReadArch
  BY <1>1 DEF ReadArch, object
<1>2. CASE ReadObject
  BY <1>2 DEF ReadObject
<1>3. CASE ReadField
  BY <1>3 DEF ReadField
<1>4. CASE ReadName
  BY <1>4 DEF ReadName
<1>5. CASE ReadAlias
  BY <1>5 DEF ReadAlias
<1>6. CASE ReadSize
  BY <1>6 DEF ReadSize
<1>7. CASE ReadString
  BY <1>7 DEF ReadString, KeyOf
<1>8. CASE ReadColumn
  BY <1>8 DEF ReadColumn, KeyOf
<1>9. CASE EndFile
  BY <1>9 DEF EndFile
<1>10. CASE SkipFile
  BY <1>10 DEF SkipFile
<1> QED
  BY <1>1, <1>2, <1>3, <1>4, <1>5, <1>6, <1>7, <1>8, <1>9, <1>10 DEF Next

\* After the last line comes the end of the file.
LEMMA NoLineRead ==
  ASSUME Next, file <= Len(files) => (files[file].readable => ~ (line <= Len(files[file].lines)))
  PROVE  EndFile \/ SkipFile
BY DEF Next, ReadArch, ReadObject, ReadField, ReadName, ReadAlias, ReadSize, ReadString,
       ReadColumn, Read

LEMMA TypeLenFacts ==
  ASSUME NEW d, IsEntry(d)
  PROVE  TypeLen(d) \in Nat /\ HeadLen(d) <= TypeLen(d)
<1> DEFINE n == Len(d.fields)
<1>1. n \in Nat
  BY EntryFacts
<1>2. TypeLen(d) = FieldPlace(d, n)
  BY DEF TypeLen
<1>3. \A k \in 0 .. n : FieldPlace(d, k) \in Nat /\ FieldPlace(d, k) >= HeadLen(d)
  BY PlacesInType
<1>4. HeadLen(d) \in Nat
  BY PlacesInType
<1> HIDE DEF n
<1> QED
  BY <1>1, <1>2, <1>3, <1>4

LEMMA UnitLineAt ==
  ASSUME NEW u, IsUnit(u), NEW i \in 1 .. Len(u.types), NEW k \in 1 .. TypeLen(u.types[i])
  PROVE  /\ TypePlace(u, i - 1) \in Nat
         /\ Len(u.lines) \in Nat
         /\ TypePlace(u, i - 1) + k <= Len(u.lines)
         /\ u.lines[TypePlace(u, i - 1) + k] = TypeLines(u.types[i])[k]
<1> DEFINE m == Len(u.types)
           d == u.types[i]
           place(j) == TypePlace(u, j)
<1>1. m \in Nat /\ IsEntry(d)
  BY TypeListsFacts
<1>2. TypeLen(d) \in Nat
  BY <1>1, TypeLenFacts
<1>3. i - 1 \in 0 .. m /\ i \in 0 .. m /\ m \in 0 .. m
  BY <1>1
<1>4. \A j \in 0 .. m : place(j) \in Nat /\ place(j) <= place(m)
  BY PlacesInUnit
<1>5. place(i) = place(i - 1) + TypeLen(d)
  BY PlacesInUnit
<1>6. Len(u.lines) = place(m)
  BY UnitLines
<1>7. u.lines[place(i - 1) + k] = TypeLines(d)[k]
  BY UnitLines
<1> HIDE DEF place, m
<1>8. place(i - 1) \in Nat /\ place(m) \in Nat /\ place(i) <= place(m)
  BY <1>3, <1>4
<1>9. place(i - 1) + k <= place(m)
  BY <1>2, <1>5, <1>8
<1> QED
  BY <1>6, <1>7, <1>8, <1>9 DEF place

\* The line at hand when the parser is at the k-th line of a definition.
LEMMA LineAt ==
  ASSUME MergeInv, file <= Len(files), files[file].readable,
         NEW i \in 1 .. Len(files[file].types),
         NEW k \in 1 .. TypeLen(files[file].types[i]),
         line = TypePlace(files[file], i - 1) + k
  PROVE  /\ ~ (line > Len(files[file].lines))
         /\ command = TypeLines(files[file].types[i])[k].command
         /\ arg = TypeLines(files[file].types[i])[k].arg
<1> DEFINE u == files[file]
           start == TypePlace(u, i - 1)
           d == u.types[i]
           l == TypeLines(d)[k]
<1>1. IsUnit(u)
  BY UnitAtHand
<1>2. /\ start \in Nat /\ Len(u.lines) \in Nat /\ start + k <= Len(u.lines)
      /\ u.lines[start + k] = l
  BY <1>1, UnitLineAt
<1>3. line = start + k
  OBVIOUS
<1> DEFINE lines == u.lines
           n == Len(lines)
<1> HIDE DEF start, l, lines, n
<1>4. n \in Nat /\ line <= n /\ line \in Int
  BY <1>2, <1>3 DEF n, lines
<1>5. ~ (line > n)
  BY <1>4
<1>6. lines[line] = l
  BY <1>2, <1>3 DEF lines
<1> QED
  BY <1>5, <1>6 DEF command, arg, l, n, lines

\* As long as the directory is the same, so are its definitions.
LEMMA DefinitionsKept ==
  ASSUME files' = files
  PROVE  /\ Definitions' = Definitions /\ DefLists' = DefLists
         /\ file' = file => Earlier' = Earlier
BY DEF Definitions, DefLists, Earlier

\* The place of the definitions of a file among all of them.
LEMMA DefinitionPlaces ==
  ASSUME MergeInv
  PROVE  /\ IsList(Definitions)
         /\ Len(Definitions) = Before(DefLists, Len(files))
         /\ Before(DefLists, 0) = 0
         /\ \A k \in 0 .. Len(files) : Before(DefLists, k) \in Nat
         /\ file <= Len(files) =>
              /\ Earlier \in Nat
              /\ files[file].readable =>
                   /\ Before(DefLists, file) = Earlier + Len(files[file].types)
                   /\ \A i \in 1 .. Len(files[file].types) :
                        Definitions[Earlier + i] = files[file].types[i]
              /\ ~files[file].readable => Before(DefLists, file) = Earlier
<1> DEFINE n == Len(files)
           lists == DefLists
<1>1. /\ files \in Directories /\ file \in 1 .. n + 1
      /\ n \in Nat /\ DOMAIN files = 1 .. n
      /\ \A k \in 1 .. n : files[k].readable => IsUnit(files[k])
  BY DirectoryFacts DEF MergeInv, PlaceInv
<1>2. lists = [k \in 1 .. n |-> lists[k]]
  BY <1>1 DEF DefLists
<1>3. \A k \in 1 .. n : lists[k] = IF files[k].readable THEN files[k].types ELSE <<>>
  BY <1>1 DEF DefLists
<1>4. Definitions = FlattenSeq(lists)
  BY DEF Definitions, DefLists
<1> HIDE DEF lists
<1>5. IsList(lists) /\ Len(lists) = n /\ DOMAIN lists = 1 .. n
  BY <1>1, <1>2, FunctionsAreLists
<1>6. AreLists(lists)
  <2>1. \A k \in 1 .. n : IsList(lists[k])
    BY <1>1, <1>3, TypeListsFacts, NothingIsList
  <2> QED
    BY <1>5, <2>1 DEF AreLists
<1>7. /\ IsList(Definitions)
      /\ Len(Definitions) = Before(lists, n)
      /\ \A k \in 1 .. n : \A i \in 1 .. Len(lists[k]) :
           Definitions[Before(lists, k - 1) + i] = lists[k][i]
  BY <1>4, <1>5, <1>6, FlatPlaces
<1>8. /\ Before(lists, 0) = 0
      /\ \A k \in 0 .. n : Before(lists, k) \in Nat
      /\ \A k \in 1 .. n : Before(lists, k) = Before(lists, k - 1) + Len(lists[k])
  BY <1>5, <1>6, BeforeGrows
<1>9. ASSUME file <= n
      PROVE  /\ Before(lists, file - 1) \in Nat
             /\ files[file].readable =>
                  /\ Before(lists, file) = Before(lists, file - 1) + Len(files[file].types)
                  /\ \A i \in 1 .. Len(files[file].types) :
                       Definitions[Before(lists, file - 1) + i] = files[file].types[i]
             /\ ~files[file].readable => Before(lists, file) = Before(lists, file - 1)
  <2>1. file \in 1 .. n /\ file - 1 \in 0 .. n
    BY <1>1, <1>9
  <2>2. Before(lists, file - 1) \in Nat /\ Before(lists, file) = Before(lists, file - 1) + Len(lists[file])
    BY <1>8, <2>1
  <2>3. CASE files[file].readable
    <3>1. lists[file] = files[file].types
      BY <1>3, <2>1, <2>3
    <3>2. \A i \in 1 .. Len(lists[file]) :
            Definitions[Before(lists, file - 1) + i] = lists[file][i]
      BY <1>7, <2>1
    <3> QED
      BY <2>2, <2>3, <3>1, <3>2
  <2>4. CASE ~files[file].readable
    <3>1. Len(lists[file]) = 0
      BY <1>3, <2>1, <2>4
    <3> QED
      BY <2>2, <2>4, <3>1
  <2> QED
    BY <2>3, <2>4
<1> QED
  BY <1>7, <1>8, <1>9 DEF lists, Earlier

-----------------------------------------------------------------------------
\* Where each step leads.

AtFile == file <= Len(files) /\ files[file].readable

\* No field is being read that the next object or field could keep.
NoFieldLeft == is_in_field_mode = TRUE \/ current_field_data = Empty

\* The file begins with its arch line.
LEMMA StartStep ==
  ASSUME MergeInv, Next, AtFile, AtStart, line = 1
  PROVE  AtStart'
<1> DEFINE u == files[file]
<1>1. IsUnit(u)
  BY UnitAtHand DEF AtFile
<1>2. u.lines[1] = Line("arch", u.arch) /\ Len(u.lines) \in Nat /\ Len(u.lines) >= 1
  <2>1. Len(u.types) \in 0 .. Len(u.types)
    BY <1>1, TypeListsFacts
  <2>2. u.lines[1] = Line("arch", u.arch) /\ Len(u.lines) = TypePlace(u, Len(u.types))
    BY <1>1, UnitLines
  <2>3. \A i \in 0 .. Len(u.types) : TypePlace(u, i) \in Nat /\ TypePlace(u, i) >= 1
    BY <1>1, PlacesInUnit
  <2> QED
    BY <2>1, <2>2, <2>3
<1>3. ~ (line > Len(files[file].lines)) /\ command = "arch"
  BY <1>2 DEF command, Line
<1>4. /\ files' = files /\ file' = file /\ line' = 2
      /\ UNCHANGED <<current_data, current_field_data, is_in_field_mode, type_name_map>>
  BY <1>3, LineRead DEF AtFile
<1>5. Definitions' = Definitions /\ Earlier' = Earlier
  BY <1>4, DefinitionsKept
<1> QED
  BY <1>4, <1>5 DEF AtStart, AtFile

\* With nothing at hand there is nothing to flush.
LEMMA NothingFlushed ==
  ASSUME AtStart
  PROVE  FlushedMap = type_name_map /\ NoFieldLeft
<1>1. FlushedData = <<>>
  BY DEF AtStart, FlushedData, Empty
<1>2. Keys(<<>>) = {}
  BY DEF Keys
<1> QED
  BY <1>1, <1>2 DEF FlushedMap, NoFieldLeft, AtStart

\* At the first line of a definition the one before it goes to the map.
LEMMA ObjectBegins ==
  ASSUME MergeInv, Next, AtFile, NoFieldLeft,
         NEW i \in 1 .. Len(files[file].types), line = TypePlace(files[file], i - 1) + 1,
         MapIs(FlushedMap, Definitions, Earlier + i - 1)
  PROVE  InUnit'
<1> DEFINE u == files[file]
           d == u.types[i]
           start == TypePlace(u, i - 1)
<1>1. IsUnit(u) /\ IsEntry(d)
  BY UnitAtHand, TypeListsFacts DEF AtFile
<1>2. HeadLen(d) \in Nat /\ HeadLen(d) >= 3 /\ TypeLen(d) \in Nat /\ HeadLen(d) <= TypeLen(d)
  BY <1>1, PlacesInType, TypeLenFacts
<1>3. TypeLines(d)[1].command = d.type
  BY <1>1, TypeLinesFacts
<1>4. ~ (line > Len(files[file].lines)) /\ command = d.type
  <2>1. 1 \in 1 .. TypeLen(d)
    BY <1>2
  <2> QED
    BY <1>3, <2>1, LineAt DEF AtFile
<1>5. d.type \in {"base", "enum", "struct", "union"}
  BY <1>1 DEF IsEntry
<1>6. /\ files' = files /\ file' = file /\ line' = line + 1
      /\ type_name_map' = FlushedMap
      /\ current_data' = IF d.type = "base" THEN [type |-> "base"]
                         ELSE [type |-> d.type, fields |-> <<>>, aliases |-> <<>>]
      /\ current_field_data' = IF is_in_field_mode THEN Empty ELSE current_field_data
      /\ is_in_field_mode' = FALSE
  BY <1>4, <1>5, LineRead DEF AtFile
<1>7. current_field_data' = Empty
  BY <1>6 DEF NoFieldLeft
<1>8. ObjectRead(d, {}, 0, 0, current_data')
  <2>1. CASE d.type = "base"
    <3>1. current_data' = [type |-> "base"]
      BY <1>6, <2>1
    <3>2. IsDict(current_data') /\ DOMAIN current_data' = {"type"} /\ current_data'.type = d.type
      BY <2>1, <3>1 DEF IsDict
    <3> QED
      BY <2>1, <3>2 DEF ObjectRead
  <2>2. CASE d.type # "base"
    <3>1. current_data' = [type |-> d.type, fields |-> <<>>, aliases |-> <<>>]
      BY <1>6, <2>2
    <3>2. /\ IsDict(current_data')
          /\ DOMAIN current_data' = {"type", "aliases", "fields"}
          /\ current_data'.type = d.type
          /\ current_data'.aliases = <<>> /\ current_data'.fields = <<>>
      BY <3>1 DEF IsDict
    <3>3. IsList(<<>>) /\ Len(<<>>) = 0
      BY NothingIsList
    <3>4. 1 .. 0 = {}
      OBVIOUS
    <3> QED
      BY <2>2, <3>2, <3>3, <3>4 DEF ObjectRead
  <2> QED
    BY <2>1, <2>2
<1>9. InHead(d, start)'
  <2>1. line' = start + 1 + 1 /\ 1 \in 1 .. HeadLen(d) /\ HeadLen(d)' = HeadLen(d)
    BY <1>2, <1>6 DEF HeadLen
  <2>2. d' = d /\ start' = start
    BY <1>6
  <2> HIDE DEF d, start
  <2>3. HeadRead(d, 1)'
    BY <1>8, <2>2 DEF HeadRead
  <2> QED
    BY <1>6, <1>7, <2>1, <2>2, <2>3 DEF InHead
<1>10. MapIs(type_name_map, Definitions, Earlier + i - 1)'
  BY <1>6, DefinitionsKept
<1> QED
  BY <1>6, <1>9, <1>10 DEF InUnit, AtFile

\* At the end of a file its last definition goes to the map.
LEMMA FileEnds ==
  ASSUME MergeInv, Next, AtFile,
         line = TypePlace(files[file], Len(files[file].types)) + 1,
         MapIs(FlushedMap, Definitions, Earlier + Len(files[file].types))
  PROVE  AtStart'
<1> DEFINE u == files[file]
           m == Len(u.types)
<1>1. IsUnit(u) /\ file \in 1 .. Len(files) /\ Len(files) \in Nat
  BY UnitAtHand DEF AtFile
<1>2. Len(u.lines) = TypePlace(u, m) /\ TypePlace(u, m) \in Nat
  <2>1. m \in 0 .. m
    BY <1>1, TypeListsFacts
  <2>2. \A i \in 0 .. m : TypePlace(u, i) \in Nat
    BY <1>1, PlacesInUnit
  <2> QED
    BY <1>1, <2>1, <2>2, UnitLines
<1>3. ~ (line <= Len(files[file].lines))
  BY <1>2
<1>4. EndFile
  BY <1>3, NoLineRead DEF AtFile, SkipFile
<1>5. /\ files' = files /\ file' = file + 1 /\ line' = 1
      /\ type_name_map' = FlushedMap
      /\ current_data' = Empty /\ current_field_data' = Empty /\ is_in_field_mode' = FALSE
  BY <1>4 DEF EndFile
<1>6. Definitions' = Definitions /\ Earlier' = Earlier + m
  <2>1. Definitions' = Definitions /\ DefLists' = DefLists
    BY <1>5, DefinitionsKept
  <2>2. file' - 1 = file
    BY <1>1, <1>5
  <2>3. Earlier' = Before(DefLists, file)
    BY <2>1, <2>2 DEF Earlier
  <2> QED
    BY <2>1, <2>3, DefinitionPlaces DEF AtFile
<1> QED
  BY <1>5, <1>6 DEF AtStart

\* A file that cannot be read has no definitions.
LEMMA FileSkipped ==
  ASSUME MergeInv, Next, ~AtFile, AtStart
  PROVE  AtStart'
<1>1. SkipFile
  BY NoLineRead DEF AtFile, EndFile
<1>2. /\ files' = files /\ file' = file + 1 /\ line' = line /\ file <= Len(files)
      /\ ~files[file].readable
      /\ UNCHANGED <<current_data, current_field_data, is_in_field_mode, type_name_map>>
  BY <1>1 DEF SkipFile, object
<1>3. file \in Nat
  BY DEF MergeInv, PlaceInv
<1>4. Definitions' = Definitions /\ Earlier' = Earlier
  <2>1. Definitions' = Definitions /\ DefLists' = DefLists
    BY <1>2, DefinitionsKept
  <2>2. file' - 1 = file
    BY <1>2, <1>3
  <2>3. Earlier' = Before(DefLists, file)
    BY <2>1, <2>2 DEF Earlier
  <2> QED
    BY <1>2, <2>1, <2>3, DefinitionPlaces
<1>5. line = 1
  BY DEF AtStart, AtFile
<1> QED
  BY <1>2, <1>4, <1>5 DEF AtStart

\* A complete definition is put into the map.
LEMMA DefinitionFlushed ==
  ASSUME MergeInv, AtFile, NEW i \in 1 .. Len(files[file].types),
         NEW d, d = files[file].types[i],
         ObjectRead(d, {"name", "size"}, Len(Aliases(d)), Len(d.fields), FlushedData),
         MapIs(type_name_map, Definitions, Earlier + i - 1)
  PROVE  MapIs(FlushedMap, Definitions, Earlier + i)
<1> DEFINE n == Earlier + i
<1>1. IsEntry(d)
  BY UnitAtHand, TypeListsFacts DEF AtFile
<1>2. Earlier \in Nat /\ Definitions[n] = d
  BY DefinitionPlaces DEF AtFile
<1>3. n \in Nat \ {0} /\ Earlier + i - 1 = n - 1
  BY <1>2
<1>4. FlushedData = Parsed(d) /\ {"type", "name"} \subseteq DOMAIN FlushedData
  BY <1>1, ObjectIsRead
<1>5. FlushedMap = Put(type_name_map, Parsed(d))
  BY <1>4 DEF FlushedMap, Keys
<1> HIDE DEF n
<1>6. MapIs(Put(type_name_map, Parsed(d)), Definitions, n)
  BY <1>2, <1>3, PutKeepsMap
<1> QED
  BY <1>5, <1>6 DEF n

\* The definition at hand, and the place its lines begin after.
LEMMA EntryAtHand ==
  ASSUME MergeInv, AtFile, NEW i \in 1 .. Len(files[file].types)
  PROVE  /\ IsEntry(files[file].types[i])
         /\ TypePlace(files[file], i - 1) \in Nat
         /\ TypePlace(files[file], i) =
              TypePlace(files[file], i - 1) + TypeLen(files[file].types[i])
<1> DEFINE u == files[file]
           m == Len(u.types)
           place(h) == TypePlace(u, h)
<1>1. IsUnit(u)
  BY UnitAtHand DEF AtFile
<1> HIDE DEF u
<1>2. m \in Nat /\ IsEntry(u.types[i])
  BY <1>1, TypeListsFacts DEF u
<1>3. i - 1 \in 0 .. m
  BY <1>2 DEF u
<1>4. \A h \in 0 .. m : place(h) \in Nat
  BY <1>1, PlacesInUnit
<1>5. \A h \in 1 .. m : place(h) = place(h - 1) + TypeLen(u.types[h])
  BY <1>1, PlacesInUnit
<1> HIDE DEF place
<1>6. place(i - 1) \in Nat /\ place(i) = place(i - 1) + TypeLen(u.types[i])
  BY <1>3, <1>4, <1>5 DEF u
<1> QED
  BY <1>2, <1>6 DEF place, u

\* What comes after a complete definition.
LEMMA DefinitionEnds ==
  ASSUME MergeInv, Next, AtFile, NoFieldLeft, NEW i \in 1 .. Len(files[file].types),
         line = TypePlace(files[file], i) + 1,
         MapIs(FlushedMap, Definitions, Earlier + i)
  PROVE  AtStart' \/ InUnit'
<1> DEFINE m == Len(files[file].types)
<1>1. m \in Nat
  BY UnitAtHand, TypeListsFacts DEF AtFile
<1>2. CASE i = m
  BY <1>2, FileEnds
<1>3. CASE i # m
  <2> DEFINE k == i + 1
  <2>1. k \in 1 .. m /\ k - 1 = i
    BY <1>1, <1>3
  <2>2. Earlier \in Nat
    BY DefinitionPlaces DEF AtFile
  <2>3. Earlier + k - 1 = Earlier + i
    BY <2>1, <2>2
  <2> HIDE DEF k
  <2>4. MapIs(FlushedMap, Definitions, Earlier + k - 1)
    BY <2>3
  <2>5. line = TypePlace(files[file], k - 1) + 1
    BY <2>1
  <2> QED
    BY <2>1, <2>4, <2>5, ObjectBegins
<1> QED
  BY <1>2, <1>3

\* Reading one more column, alias or field of an object.
LEMMA ObjectColumn ==
  ASSUME NEW d, NEW columns, NEW a, NEW j, NEW dict, ObjectRead(d, columns, a, j, dict),
         NEW key \in {"name", "size"}
  PROVE  ObjectRead(d, columns \cup {key}, a, j, Set(dict, key, d[key]))
<1> DEFINE new == Set(dict, key, d[key])
<1>1. /\ DOMAIN new = DOMAIN dict \cup {key} /\ new[key] = d[key]
      /\ \A k \in DOMAIN dict : k # key => new[k] = dict[k]
      /\ IsDict(new)
  BY DEF Set, IsDict
<1> HIDE DEF new
<1>2. /\ \A k \in {"type", "aliases", "fields"} : k \in DOMAIN dict => new[k] = dict[k]
      /\ \A k \in columns \cup {key} : new[k] = d[k]
  BY <1>1 DEF ObjectRead
<1>3. /\ DOMAIN new = {"type"} \cup (columns \cup {key})
                         \cup (IF d.type = "base" THEN {} ELSE {"aliases", "fields"})
      /\ new.type = d.type
  BY <1>1, <1>2 DEF ObjectRead
<1>4. ASSUME d.type # "base"
      PROVE  new.aliases = dict.aliases /\ new.fields = dict.fields
  BY <1>2, <1>4 DEF ObjectRead
<1>5. ObjectRead(d, columns \cup {key}, a, j, new)
  BY <1>1, <1>2, <1>3, <1>4 DEF ObjectRead
<1> QED
  BY <1>5 DEF new

LEMMA ObjectAlias ==
  ASSUME NEW d, d.type # "base", NEW columns, "aliases" \notin columns,
         NEW a \in Nat \ {0}, NEW j, NEW dict, ObjectRead(d, columns, a - 1, j, dict)
  PROVE  ObjectRead(d, columns, a, j, Appended(dict, "aliases", Aliases(d)[a]))
<1> DEFINE old == dict.aliases
           v == Append(old, Aliases(d)[a])
           new == Set(dict, "aliases", v)
<1>1. /\ "aliases" \in DOMAIN dict
      /\ IsList(old) /\ Len(old) = a - 1
      /\ \A k \in 1 .. a - 1 : old[k] = Aliases(d)[k]
  BY DEF ObjectRead
<1>2. Appended(dict, "aliases", Aliases(d)[a]) = new
  BY <1>1 DEF Appended, Keys
<1> HIDE DEF old
<1>3. /\ IsList(v) /\ Len(v) = a
      /\ \A k \in 1 .. a : v[k] = Aliases(d)[k]
  <2>1. /\ IsList(v) /\ Len(v) = Len(old) + 1
        /\ v[Len(old) + 1] = Aliases(d)[a]
        /\ \A k \in DOMAIN old : v[k] = old[k]
    BY <1>1, ListAppended
  <2>2. DOMAIN old = 1 .. a - 1
    BY <1>1, ListFacts
  <2> HIDE DEF v
  <2> QED
    BY <1>1, <2>1, <2>2
<1> HIDE DEF v
<1>4. /\ DOMAIN new = DOMAIN dict /\ new["aliases"] = v
      /\ \A k \in DOMAIN dict : k # "aliases" => new[k] = dict[k]
      /\ IsDict(new)
  BY <1>1 DEF Set, IsDict
<1> HIDE DEF new
<1>5. /\ new.type = dict.type /\ new.fields = dict.fields
      /\ \A k \in columns : new[k] = dict[k]
  BY <1>4 DEF ObjectRead
<1>6. ObjectRead(d, columns, a, j, new)
  BY <1>3, <1>4, <1>5 DEF ObjectRead
<1> QED
  BY <1>2, <1>6

LEMMA ObjectField ==
  ASSUME NEW d, d.type # "base", NEW columns, "fields" \notin columns,
         NEW a, NEW j \in Nat \ {0}, NEW dict, ObjectRead(d, columns, a, j - 1, dict)
  PROVE  ObjectRead(d, columns, a, j, Appended(dict, "fields", Columns(d, d.fields[j])))
<1> DEFINE old == dict.fields
           c == Columns(d, d.fields[j])
           v == Append(old, c)
           new == Set(dict, "fields", v)
<1>1. /\ "fields" \in DOMAIN dict
      /\ IsList(old) /\ Len(old) = j - 1
      /\ \A k \in 1 .. j - 1 : old[k] = Columns(d, d.fields[k])
  BY DEF ObjectRead
<1>2. Appended(dict, "fields", c) = new
  BY <1>1 DEF Appended, Keys
<1> HIDE DEF old
<1>3. /\ IsList(v) /\ Len(v) = j
      /\ \A k \in 1 .. j : v[k] = Columns(d, d.fields[k])
  <2> HIDE DEF c
  <2>1. /\ IsList(v) /\ Len(v) = Len(old) + 1
        /\ v[Len(old) + 1] = c
        /\ \A k \in DOMAIN old : v[k] = old[k]
    BY <1>1, ListAppended
  <2>2. DOMAIN old = 1 .. j - 1
    BY <1>1, ListFacts
  <2> HIDE DEF v
  <2>3. \A k \in 1 .. j : k = j \/ k \in 1 .. j - 1
    OBVIOUS
  <2>4. v[j] = Columns(d, d.fields[j])
    BY <1>1, <2>1 DEF c
  <2> QED
    BY <1>1, <2>1, <2>2, <2>3, <2>4
<1> HIDE DEF v, c
<1>4. /\ DOMAIN new = DOMAIN dict /\ new["fields"] = v
      /\ \A k \in DOMAIN dict : k # "fields" => new[k] = dict[k]
      /\ IsDict(new)
  BY <1>1 DEF Set, IsDict
<1> HIDE DEF new
<1>5. /\ new.type = dict.type /\ new.aliases = dict.aliases
      /\ \A k \in columns : new[k] = dict[k]
  BY <1>4 DEF ObjectRead
<1>6. ObjectRead(d, columns, a, j, new)
  BY <1>3, <1>4, <1>5 DEF ObjectRead
<1> QED
  BY <1>2, <1>6 DEF c

\* A base type has neither aliases nor fields.
LEMMA BaseIsPlain ==
  ASSUME NEW d, IsEntry(d), d.type = "base"
  PROVE  Len(Aliases(d)) = 0 /\ Len(d.fields) = 0
<1>1. d.aliases = <<>> /\ d.fields = <<>>
  BY DEF IsEntry
<1> DEFINE none == d.aliases
           places == {k \in DOMAIN d.aliases : d.aliases[k] # d.name}
<1>2. IsList(none) /\ Len(none) = 0
  BY <1>1, NothingIsList
<1>3. Aliases(d) = Selected(none, places)
  BY DEF Aliases
<1> HIDE DEF none, places
<1>4. Len(Selected(none, places)) <= Len(none) /\ IsList(Selected(none, places))
  BY <1>2, SelectedFacts
<1>5. Len(Aliases(d)) \in Nat /\ Len(Aliases(d)) <= 0
  BY <1>2, <1>3, <1>4, ListFacts
<1> QED
  BY <1>1, <1>5

\* The lines of a field are among those of its type.
LEMMA FieldPlacesAscend ==
  ASSUME NEW d, IsEntry(d)
  PROVE  \A k \in 0 .. Len(d.fields) : FieldPlace(d, k) <= TypeLen(d)
<1> DEFINE n == Len(d.fields)
           lists == FieldLists(d)
           h == HeadLen(d)
<1>1. AreLists(lists) /\ Len(lists) = n /\ n \in Nat
  BY FieldListsFacts, EntryFacts
<1>2. h \in Nat
  BY PlacesInType
<1>3. /\ \A k \in 0 .. n : Before(lists, k) <= Before(lists, n)
      /\ \A k \in 0 .. n : Before(lists, k) \in Nat
  BY <1>1, BeforeAscends, BeforeGrows
<1>4. \A k : FieldPlace(d, k) = h + Before(lists, k)
  BY DEF FieldPlace
<1>5. TypeLen(d) = h + Before(lists, n)
  BY DEF TypeLen, FieldPlace
<1>6. n \in 0 .. n
  BY <1>1
<1> HIDE DEF n, lists, h
<1>7. \A k \in 0 .. n : FieldPlace(d, k) <= TypeLen(d)
  BY <1>1, <1>2, <1>3, <1>4, <1>5, <1>6
<1> QED
  BY <1>7 DEF n

LEMMA FieldLineAt ==
  ASSUME NEW d, IsEntry(d), NEW j \in 1 .. Len(d.fields), NEW r \in 1 .. FieldWidth(d)
  PROVE  /\ FieldPlace(d, j - 1) \in Nat
         /\ FieldPlace(d, j - 1) + r \in 1 .. TypeLen(d)
         /\ TypeLines(d)[FieldPlace(d, j - 1) + r] = FieldLines(d, d.fields[j])[r]
<1> DEFINE n == Len(d.fields)
           w == FieldWidth(d)
           place(k) == FieldPlace(d, k)
<1>1. n \in Nat /\ w \in {3, 8}
  BY EntryFacts, PlacesInType
<1>2. j - 1 \in 0 .. n /\ j \in 0 .. n
  BY <1>1
<1>3. \A k \in 0 .. n : place(k) \in Nat
  BY PlacesInType
<1>4. place(j) = place(j - 1) + w
  BY PlacesInType
<1>5. \A k \in 0 .. n : place(k) <= TypeLen(d)
  BY FieldPlacesAscend
<1>6. TypeLen(d) \in Nat
  BY TypeLenFacts
<1>7. TypeLines(d)[place(j - 1) + r] = FieldLines(d, d.fields[j])[r]
  BY TypeLinesFacts
<1> HIDE DEF place, n, w
<1>8. place(j - 1) \in Nat /\ place(j) <= TypeLen(d)
  BY <1>2, <1>3, <1>5
<1>9. r \in 1 .. w
  BY DEF w
<1>10. place(j - 1) + r \in 1 .. TypeLen(d)
  BY <1>1, <1>4, <1>6, <1>8, <1>9
<1> QED
  BY <1>7, <1>8, <1>10 DEF place

\* The first line of a field.
LEMMA FirstLineOfField ==
  ASSUME NEW d, NEW f
  PROVE  FieldLines(d, f)[1].command \in {"field", "enumerator"}
<1>1. CASE d.type = "enum"
  BY <1>1, EnumeratorLines
<1>2. CASE d.type # "enum"
  BY <1>2, MemberLines
<1> QED
  BY <1>1, <1>2

LEMMA FirstLineAt ==
  ASSUME NEW d, IsEntry(d), NEW j \in 1 .. Len(d.fields)
  PROVE  /\ FieldPlace(d, j - 1) \in Nat
         /\ FieldPlace(d, j - 1) + 1 \in 1 .. TypeLen(d)
         /\ TypeLines(d)[FieldPlace(d, j - 1) + 1] = FieldLines(d, d.fields[j])[1]
<1>1. 1 \in 1 .. FieldWidth(d)
  BY DEF FieldWidth
<1> QED
  BY <1>1, FieldLineAt

LEMMA FieldBegins ==
  ASSUME MergeInv, Next, AtFile, NoFieldLeft, NEW i \in 1 .. Len(files[file].types),
         NEW d, d = files[file].types[i], NEW j \in 1 .. Len(d.fields),
         line = TypePlace(files[file], i - 1) + FieldPlace(d, j - 1) + 1,
         ObjectRead(d, {"name", "size"}, Len(Aliases(d)), j - 1, FlushedData),
         MapIs(type_name_map, Definitions, Earlier + i - 1)
  PROVE  InUnit'
<1> DEFINE start == TypePlace(files[file], i - 1)
           f == d.fields[j]
           p == FieldPlace(d, j - 1)
           k == p + 1
<1>1. IsEntry(d) /\ start \in Nat
  BY EntryAtHand
<1>2. p \in Nat /\ k \in 1 .. TypeLen(d) /\ TypeLines(d)[k] = FieldLines(d, f)[1]
  BY <1>1, FirstLineAt
<1>3. FieldLines(d, f)[1].command \in {"field", "enumerator"}
  BY FirstLineOfField
<1>4. line = start + k
  <2> HIDE DEF start, p
  <2>1. line = start + p + 1
    BY DEF start, p
  <2>2. \A x, y \in Nat : x + y + 1 = x + (y + 1)
    OBVIOUS
  <2>3. p \in Nat
    BY <1>2
  <2> QED
    BY <1>1, <2>1, <2>2, <2>3, Zenon
<1> HIDE DEF k, f
<1>5. ~ (line > Len(files[file].lines)) /\ command \in {"field", "enumerator"}
  BY <1>2, <1>3, <1>4, LineAt DEF AtFile
<1>6. /\ files' = files /\ file' = file /\ line' = line + 1
      /\ current_data' = FlushedData
      /\ current_field_data' = IF is_in_field_mode THEN Empty ELSE current_field_data
      /\ is_in_field_mode' = TRUE
      /\ type_name_map' = type_name_map
  BY <1>5, LineRead DEF AtFile
<1>7. current_field_data' = Empty
  BY <1>6 DEF NoFieldLeft
<1>8. FieldRead(d, f, 1, Empty)
  <2>1. 2 .. 1 = {} /\ DOMAIN Empty = {} /\ IsDict(Empty)
    BY DEF Empty, IsDict
  <2> QED
    BY <2>1 DEF FieldRead
<1>9. InField(d, start)'
  <2>1. line' = start + p + 1 + 1
    BY <1>1, <1>2, <1>4, <1>6 DEF k
  <2>2. start' = start
    BY <1>6
  <2> HIDE DEF start
  <2>3. FieldRead(d, d.fields[j], 1, current_field_data')
    BY <1>7, <1>8 DEF f
  <2>4. 1 \in 1 .. FieldWidth(d)
    BY DEF FieldWidth
  <2>5. ObjectRead(d, {"name", "size"}, Len(Aliases(d)), j - 1, current_data')
    BY <1>6
  <2>6. line' = start + FieldPlace(d, j - 1) + 1 + 1
    BY <2>1
  <2> QED
    BY <1>6, <2>2, <2>3, <2>4, <2>5, <2>6 DEF InField
<1>10. MapIs(type_name_map, Definitions, Earlier + i - 1)'
  BY <1>6, DefinitionsKept
<1> QED
  BY <1>6, <1>9, <1>10 DEF InUnit, AtFile

\* A complete field is added to its object.
LEMMA FieldFlushed ==
  ASSUME NEW d, IsEntry(d), NEW j \in 1 .. Len(d.fields), is_in_field_mode = TRUE,
         ObjectRead(d, {"name", "size"}, Len(Aliases(d)), j - 1, current_data),
         FieldRead(d, d.fields[j], FieldWidth(d), current_field_data)
  PROVE  ObjectRead(d, {"name", "size"}, Len(Aliases(d)), j, FlushedData)
<1> DEFINE c == Columns(d, d.fields[j])
           columns == {"name", "size"}
<1>1. current_field_data = c /\ "name" \in DOMAIN current_field_data
  BY FieldIsRead
<1>2. FlushedData = Appended(current_data, "fields", c)
  BY <1>1 DEF FlushedData, Keys
<1>3. Len(d.fields) \in Nat
  BY EntryFacts
<1>4. j \in Nat \ {0}
  BY <1>3
<1>5. d.type # "base"
  BY <1>3, BaseIsPlain
<1>6. "fields" \notin columns
  OBVIOUS
<1> HIDE DEF columns
<1>7. ObjectRead(d, columns, Len(Aliases(d)), j, Appended(current_data, "fields", c))
  BY <1>4, <1>5, <1>6, ObjectField DEF columns
<1> QED
  BY <1>2, <1>7 DEF columns

\* The parser is in the i-th definition of a file, and those before it are in
\* the map.
AtDefinition(i, d) ==
  /\ AtFile
  /\ i \in 1 .. Len(files[file].types)
  /\ d = files[file].types[i]
  /\ MapIs(type_name_map, Definitions, Earlier + i - 1)

\* Between its first line and its size an object gets its name and aliases.
LEMMA HeadStep ==
  ASSUME MergeInv, Next, NEW i, NEW d, AtDefinition(i, d),
         InHead(d, TypePlace(files[file], i - 1))
  PROVE  AtStart' \/ InUnit'
<1> DEFINE start == TypePlace(files[file], i - 1)
           h == HeadLen(d)
           a == Len(Aliases(d))
<1>1. IsEntry(d) /\ start \in Nat /\ TypePlace(files[file], i) = start + TypeLen(d)
  BY EntryAtHand DEF AtDefinition
<1>2. is_in_field_mode = FALSE /\ current_field_data = Empty
  BY DEF InHead
<1>3. PICK n \in 1 .. h : line = start + n + 1 /\ HeadRead(d, n)
  BY DEF InHead
<1>4. /\ a \in Nat /\ h = a + 3 /\ h \in Nat
      /\ TypeLen(d) \in Nat /\ h <= TypeLen(d)
  <2>1. a \in Nat /\ h \in Nat
    BY <1>1, PlacesInType
  <2>2. TypeLen(d) \in Nat /\ h <= TypeLen(d)
    BY <1>1, TypeLenFacts
  <2> QED
    BY <2>1, <2>2 DEF HeadLen
<1> DEFINE k == n + 1
<1>5. n \in Nat /\ k \in Nat /\ line = start + k
  <2> HIDE DEF start, h
  <2> QED
    BY <1>1, <1>3, <1>4
<1>6. ASSUME n < h
      PROVE  /\ ~ (line > Len(files[file].lines))
             /\ command = TypeLines(d)[k].command
             /\ arg = TypeLines(d)[k].arg
  <2>1. k \in 1 .. TypeLen(d)
    <3> HIDE DEF h
    <3> QED
      BY <1>4, <1>5, <1>6
  <2> HIDE DEF k
  <2> QED
    BY <1>5, <2>1, LineAt DEF AtDefinition, AtFile
<1>7. ASSUME k \in 1 .. h, files' = files, file' = file, line' = line + 1,
             UNCHANGED <<current_field_data, is_in_field_mode, type_name_map>>,
             HeadRead(d, k)'
      PROVE  InUnit'
  <2>1. start' = start /\ h' = h
    BY <1>7 DEF HeadLen
  <2>2. line' = start + k + 1
    BY <1>5, <1>7
  <2>3. InHead(d, start)'
    <3> HIDE DEF start, k
    <3> QED
      BY <1>2, <1>7, <2>1, <2>2 DEF InHead
  <2>4. MapIs(type_name_map, Definitions, Earlier + i - 1)'
    BY <1>7, DefinitionsKept DEF AtDefinition
  <2> QED
    BY <1>7, <2>3, <2>4 DEF InUnit, AtDefinition, AtFile
<1> HIDE DEF start, h, a, k
<1>8. CASE n = 1
  <2>1. TypeLines(d)[2] = Line("name", d.name) /\ k = 2
    BY <1>1, <1>8, TypeLinesFacts DEF k
  <2>2. TypeLines(d)[k].command = "name" /\ TypeLines(d)[k].arg = d.name
    BY <2>1 DEF Line
  <2>3. n < h /\ 2 \in 2 .. h - 1 /\ k \in 1 .. h
    BY <1>4, <1>8, <2>1
  <2>4. ~ (line > Len(files[file].lines)) /\ command = "name" /\ arg = d.name
    BY <1>6, <2>2, <2>3
  <2>5. /\ files' = files /\ file' = file /\ line' = line + 1
        /\ current_data' = Set(current_data, "name", d.name)
        /\ UNCHANGED <<current_field_data, is_in_field_mode, type_name_map>>
    BY <1>2, <2>4, LineRead DEF AtDefinition, AtFile
  <2>6. ObjectRead(d, {}, 0, 0, current_data)
    BY <1>3, <1>4, <1>8 DEF HeadRead, h
  <2>7. ObjectRead(d, {"name"}, 0, 0, current_data')
    <3> DEFINE key == "name"
               none == {}
    <3>1. key \in {"name", "size"} /\ none \cup {key} = {"name"} /\ d[key] = d.name
      OBVIOUS
    <3>2. ObjectRead(d, none, 0, 0, current_data)
      BY <2>6
    <3> HIDE DEF key, none
    <3>3. ObjectRead(d, none \cup {key}, 0, 0, Set(current_data, key, d[key]))
      BY <3>1, <3>2, ObjectColumn
    <3> QED
      BY <2>5, <3>1, <3>3 DEF key
  <2>8. HeadRead(d, k)'
    BY <2>1, <2>3, <2>7 DEF HeadRead, h
  <2> QED
    BY <1>7, <2>3, <2>5, <2>8
<1>9. CASE n \in 2 .. h - 2
  <2> DEFINE b == n - 1
  <2>1. b \in 1 .. a /\ b \in Nat \ {0} /\ k = 2 + b /\ b - 1 = n - 2 /\ k - 2 = b
    BY <1>4, <1>9 DEF k
  <2>2. n < h /\ n \in 2 .. h - 1 /\ k \in 2 .. h - 1 /\ k \in 1 .. h /\ n # 1 /\ n # h
    BY <1>4, <1>9 DEF k
  <2> HIDE DEF b
  <2>3. TypeLines(d)[k] = Line("alias", Aliases(d)[b])
    BY <1>1, <2>1, TypeLinesFacts DEF a
  <2>4. TypeLines(d)[k].command = "alias" /\ TypeLines(d)[k].arg = Aliases(d)[b]
    BY <2>3 DEF Line
  <2>5. ~ (line > Len(files[file].lines)) /\ command = "alias" /\ arg = Aliases(d)[b]
    BY <1>6, <2>2, <2>4
  <2>6. /\ files' = files /\ file' = file /\ line' = line + 1
        /\ current_data' = Appended(current_data, "aliases", Aliases(d)[b])
        /\ UNCHANGED <<current_field_data, is_in_field_mode, type_name_map>>
    BY <2>5, LineRead DEF AtDefinition, AtFile
  <2>7. ObjectRead(d, {"name"}, b - 1, 0, current_data)
    BY <1>3, <2>1, <2>2 DEF HeadRead, h
  <2>8. d.type # "base"
    BY <1>1, <2>1, BaseIsPlain DEF a
  <2>9. ObjectRead(d, {"name"}, b, 0, current_data')
    <3> DEFINE columns == {"name"}
    <3>1. "aliases" \notin columns
      OBVIOUS
    <3>2. ObjectRead(d, columns, b - 1, 0, current_data)
      BY <2>7
    <3> HIDE DEF columns
    <3>3. ObjectRead(d, columns, b, 0, Appended(current_data, "aliases", Aliases(d)[b]))
      BY <2>1, <2>8, <3>1, <3>2, ObjectAlias
    <3> QED
      BY <2>6, <3>3 DEF columns
  <2>10. HeadRead(d, k)'
    BY <2>1, <2>2, <2>9 DEF HeadRead, h
  <2> QED
    BY <1>7, <2>2, <2>6, <2>10
<1>10. CASE n = h - 1
  <2>1. k = h /\ n < h /\ n \in 2 .. h - 1 /\ k \in 1 .. h /\ n - 2 = a /\ n # 1 /\ n # h
    BY <1>4, <1>10 DEF k
  <2>2. TypeLines(d)[k] = Line("size", d.size)
    BY <1>1, <2>1, TypeLinesFacts DEF h
  <2>3. TypeLines(d)[k].command = "size" /\ TypeLines(d)[k].arg = d.size
    BY <2>2 DEF Line
  <2>4. ~ (line > Len(files[file].lines)) /\ command = "size" /\ arg = d.size
    BY <1>6, <2>1, <2>3
  <2>5. /\ files' = files /\ file' = file /\ line' = line + 1
        /\ current_data' = Set(current_data, "size", d.size)
        /\ UNCHANGED <<current_field_data, is_in_field_mode, type_name_map>>
    BY <2>4, LineRead DEF AtDefinition, AtFile
  <2>6. ObjectRead(d, {"name"}, a, 0, current_data)
    BY <1>3, <2>1 DEF HeadRead, h
  <2>7. ObjectRead(d, {"name", "size"}, a, 0, current_data')
    <3> DEFINE key == "size"
               columns == {"name"}
    <3>1. key \in {"name", "size"} /\ columns \cup {key} = {"name", "size"} /\ d[key] = d.size
      OBVIOUS
    <3>2. ObjectRead(d, columns, a, 0, current_data)
      BY <2>6
    <3> HIDE DEF key, columns
    <3>3. ObjectRead(d, columns \cup {key}, a, 0, Set(current_data, key, d[key]))
      BY <3>1, <3>2, ObjectColumn
    <3> QED
      BY <2>5, <3>1, <3>3 DEF key
  <2>8. HeadRead(d, k)'
    BY <2>1, <2>7 DEF HeadRead, h, a
  <2> QED
    BY <1>7, <2>1, <2>5, <2>8
<1>11. CASE n = h
  <2>1. ObjectRead(d, {"name", "size"}, a, 0, current_data)
    <3>1. n # 1 /\ n \notin 2 .. h - 1
      BY <1>4, <1>11
    <3> QED
      BY <1>3, <3>1 DEF HeadRead, h, a
  <2>2. FlushedData = current_data /\ NoFieldLeft
    BY <1>2 DEF FlushedData, NoFieldLeft
  <2>3. Len(d.fields) \in Nat /\ FieldPlace(d, 0) = h
    BY <1>1, EntryFacts, PlacesInType DEF h
  <2>4. CASE Len(d.fields) = 0
    <3>1. TypeLen(d) = h
      BY <2>3, <2>4 DEF TypeLen
    <3>2. ObjectRead(d, {"name", "size"}, Len(Aliases(d)), Len(d.fields), FlushedData)
      BY <2>1, <2>2, <2>4 DEF a
    <3>3. MapIs(FlushedMap, Definitions, Earlier + i)
      BY <3>2, DefinitionFlushed DEF AtDefinition
    <3>4. line = TypePlace(files[file], i) + 1
      BY <1>1, <1>3, <1>11, <3>1
    <3> QED
      BY <2>2, <3>3, <3>4, DefinitionEnds DEF AtDefinition
  <2>5. CASE Len(d.fields) # 0
    <3> DEFINE j == 1
    <3>1. j \in 1 .. Len(d.fields) /\ j - 1 = 0
      BY <2>3, <2>5
    <3>2. line = start + FieldPlace(d, j - 1) + 1
      BY <1>3, <1>11, <2>3
    <3> HIDE DEF j
    <3>3. ObjectRead(d, {"name", "size"}, Len(Aliases(d)), j - 1, FlushedData)
      BY <2>1, <2>2, <3>1 DEF a
    <3> QED
      BY <2>2, <3>1, <3>2, <3>3, FieldBegins DEF AtDefinition, start
  <2> QED
    BY <2>4, <2>5
<1> QED
  <2>1. n = 1 \/ n \in 2 .. h - 2 \/ n = h - 1 \/ n = h
    BY <1>3, <1>4 DEF h
  <2> QED
    BY <2>1, <1>8, <1>9, <1>10, <1>11

\* In a field one column after the other is read.
LEMMA FieldStep ==
  ASSUME MergeInv, Next, NEW i, NEW d, AtDefinition(i, d),
         InField(d, TypePlace(files[file], i - 1))
  PROVE  AtStart' \/ InUnit'
<1> DEFINE start == TypePlace(files[file], i - 1)
           columns == {"name", "size"}
           a == Len(Aliases(d))
           w == FieldWidth(d)
           m == Len(d.fields)
           place(k) == FieldPlace(d, k)
<1>1. IsEntry(d) /\ start \in Nat /\ TypePlace(files[file], i) = start + TypeLen(d)
  BY EntryAtHand DEF AtDefinition
<1>2. is_in_field_mode = TRUE /\ NoFieldLeft
  BY DEF InField, NoFieldLeft
<1>3. PICK j \in 1 .. m : \E r \in 1 .. w :
        /\ line = start + place(j - 1) + r + 1
        /\ ObjectRead(d, columns, a, j - 1, current_data)
        /\ FieldRead(d, d.fields[j], r, current_field_data)
  BY DEF InField
<1>4. PICK r \in 1 .. w :
        /\ line = start + place(j - 1) + r + 1
        /\ ObjectRead(d, columns, a, j - 1, current_data)
        /\ FieldRead(d, d.fields[j], r, current_field_data)
  BY <1>3
<1>5. m \in Nat /\ w \in {3, 8} /\ place(j - 1) \in Nat /\ place(j) = place(j - 1) + w
  <2>1. m \in Nat /\ w \in {3, 8}
    BY <1>1, EntryFacts, PlacesInType
  <2>2. 1 \in 1 .. w
    BY <2>1
  <2>3. place(j - 1) \in Nat
    BY <1>1, <2>2, FieldLineAt
  <2>4. place(j) = place(j - 1) + w
    BY <1>1, PlacesInType
  <2> QED
    BY <2>1, <2>3, <2>4
<1>6. CASE r = w
  <2>1. ObjectRead(d, columns, a, j, FlushedData)
    BY <1>1, <1>2, <1>4, <1>6, FieldFlushed
  <2>2. line = start + place(j) + 1
    <3> HIDE DEF start, place, w
    <3> QED
      BY <1>1, <1>4, <1>5, <1>6
  <2>3. CASE j = m
    <3>1. MapIs(FlushedMap, Definitions, Earlier + i)
      BY <2>1, <2>3, DefinitionFlushed DEF AtDefinition
    <3>2. line = TypePlace(files[file], i) + 1
      BY <1>1, <2>2, <2>3 DEF TypeLen
    <3> QED
      BY <1>2, <3>1, <3>2, DefinitionEnds DEF AtDefinition
  <2>4. CASE j # m
    <3> DEFINE next == j + 1
    <3>1. next \in 1 .. m /\ next - 1 = j
      BY <1>5, <2>4
    <3> HIDE DEF next
    <3>2. line = start + place(next - 1) + 1
      BY <2>2, <3>1
    <3>3. ObjectRead(d, columns, a, next - 1, FlushedData)
      BY <2>1, <3>1
    <3> QED
      BY <1>2, <3>1, <3>2, <3>3, FieldBegins DEF AtDefinition
  <2> QED
    BY <2>3, <2>4
<1>7. CASE r # w
  <2> DEFINE s == r + 1
             f == d.fields[j]
             l == FieldLines(d, f)[s]
             k == place(j - 1) + s
  <2>1. s \in 2 .. w /\ s \in 1 .. w /\ s - 1 = r
    BY <1>5, <1>7
  <2>2. line = start + k
    <3>1. \A x, y, z \in Nat : x + y + z + 1 = x + (y + (z + 1))
      OBVIOUS
    <3>2. r \in Nat
      BY <1>5
    <3> HIDE DEF start, place
    <3> QED
      BY <1>1, <1>4, <1>5, <3>1, <3>2, Zenon
  <2>3. k \in 1 .. TypeLen(d) /\ TypeLines(d)[k] = l
    <3> HIDE DEF s
    <3> QED
      BY <1>1, <2>1, FieldLineAt
  <2> HIDE DEF k
  <2>4. ~ (line > Len(files[file].lines)) /\ command = l.command /\ arg = l.arg
    BY <2>2, <2>3, LineAt DEF AtDefinition, AtFile
  <2> HIDE DEF s
  <2>5. l.command \in {"name", "ek", "type", "ev", "offset", "pdepth", "arrsize", "const", "isstruct"}
    BY <2>1, ColumnKeys
  <2>6. /\ files' = files /\ file' = file /\ line' = line + 1
        /\ current_field_data' = Set(current_field_data, KeyOf(l.command), l.arg)
        /\ UNCHANGED <<current_data, is_in_field_mode, type_name_map>>
    <3>1. CASE command = "name"
      <4>1. KeyOf(l.command) = "name"
        BY <2>4, <3>1 DEF KeyOf
      <4> QED
        BY <1>2, <2>4, <3>1, <4>1, LineRead DEF AtDefinition, AtFile
    <3>2. CASE command # "name"
      <4> HIDE DEF l
      <4> QED
        BY <2>4, <2>5, <3>2, LineRead DEF AtDefinition, AtFile
    <3> QED
      BY <3>1, <3>2
  <2>7. FieldRead(d, f, s, current_field_data')
    <3>1. FieldRead(d, f, s - 1, current_field_data)
      BY <1>4, <2>1
    <3> HIDE DEF f
    <3>2. FieldRead(d, f, s, Set(current_field_data, KeyOf(l.command), l.arg))
      BY <2>1, <3>1, ColumnRead
    <3> QED
      BY <2>6, <3>2
  <2>8. line' = start + place(j - 1) + s + 1
    <3> HIDE DEF start, place
    <3> QED
      BY <1>1, <1>4, <1>5, <2>1, <2>2, <2>6 DEF s
  <2>9. InField(d, start)'
    <3>1. start' = start
      BY <2>6
    <3> HIDE DEF start
    <3> QED
      BY <1>2, <1>4, <2>1, <2>6, <2>7, <2>8, <3>1 DEF InField
  <2>10. MapIs(type_name_map, Definitions, Earlier + i - 1)'
    BY <2>6, DefinitionsKept DEF AtDefinition
  <2> QED
    BY <2>6, <2>9, <2>10 DEF InUnit, AtDefinition, AtFile
<1> QED
  BY <1>6, <1>7

\* At the end all definitions are in the map.
LEMMA NewestAtEnd ==
  ASSUME MergeInv, AtStart \/ InUnit
  PROVE  NewestDefinitions
<1> SUFFICES ASSUME Done PROVE NewestDefinitions
  BY DEF NewestDefinitions
<1> DEFINE n == Len(Definitions)
           m == type_name_map
           defined(name) == {i \in DOMAIN Definitions : Definitions[i].name = name}
<1>1. file - 1 = Len(files)
  <2>1. files \in Directories /\ file \in 1 .. Len(files) + 1
    BY DEF MergeInv, PlaceInv
  <2>2. Len(files) \in Nat
    BY <2>1, DirectoryFacts
  <2> QED
    BY <2>1, <2>2 DEF Done
<1>2. Len(files) \in Nat
  BY DirectoryFacts DEF MergeInv, PlaceInv
<1>3. Earlier = n /\ IsList(Definitions)
  BY <1>1, DefinitionPlaces DEF Earlier
<1>4. n \in Nat /\ DOMAIN Definitions = 1 .. n
  BY <1>3, ListFacts
<1>5. MapIs(m, Definitions, n)
  <2>1. ~ (file <= Len(files))
    BY <1>1, <1>2 DEF MergeInv, PlaceInv
  <2> QED
    BY <1>3, <2>1 DEF AtStart, InUnit
<1>6. \A d : Parsed(d).name = d.name
  BY DEF Parsed
<1> HIDE DEF n, m
<1>7. /\ \A i \in 1 .. n : \E k \in DOMAIN m : m[k].name = Definitions[i].name
      /\ \A k \in DOMAIN m : \E i \in 1 .. n :
           /\ m[k] = Parsed(Definitions[i])
           /\ \A h \in i + 1 .. n : Definitions[h].name # Definitions[i].name
      /\ \A j, k \in DOMAIN m : j < k =>
           \E i \in 1 .. n :
             /\ Definitions[i].name = m[j].name
             /\ \A h \in 1 .. i : Definitions[h].name # m[k].name
  BY <1>5 DEF MapIs
<1>8. TypeNames(m) = TypeNames(Definitions)
  <2>1. ASSUME NEW k \in DOMAIN m
        PROVE  \E i \in DOMAIN Definitions : m[k].name = Definitions[i].name
    <3>1. PICK i \in 1 .. n : m[k] = Parsed(Definitions[i])
      BY <1>7
    <3>2. m[k].name = Definitions[i].name
      BY <1>6, <3>1
    <3> QED
      BY <1>4, <3>2
  <2>2. ASSUME NEW i \in DOMAIN Definitions
        PROVE  \E k \in DOMAIN m : m[k].name = Definitions[i].name
    BY <1>4, <1>7
  <2>3. \A name : name \in TypeNames(m) <=> name \in TypeNames(Definitions)
    BY <2>1, <2>2, Zenon DEF TypeNames
  <2> QED
    BY <2>3
<1>9. ASSUME NEW k \in DOMAIN m
      PROVE  m[k] = Parsed(Definitions[Max(defined(m[k].name))])
  <2> DEFINE S == defined(m[k].name)
  <2>1. PICK i \in 1 .. n : /\ m[k] = Parsed(Definitions[i])
                            /\ \A h \in i + 1 .. n : Definitions[h].name # Definitions[i].name
    BY <1>7
  <2>2. m[k].name = Definitions[i].name
    BY <1>6, <2>1
  <2>3. i \in S /\ S \subseteq 0 .. n /\ S # {}
    BY <1>4, <2>2
  <2>4. \A x \in S : x <= i
    <3> SUFFICES ASSUME NEW x \in S, x > i PROVE FALSE
      BY <1>4
    <3>1. x \in 1 .. n /\ Definitions[x].name = Definitions[i].name
      BY <1>4, <2>2
    <3>2. x \in i + 1 .. n
      BY <1>4, <3>1
    <3> QED
      BY <2>1, <3>1, <3>2
  <2> DEFINE newest == Max(S)
  <2> HIDE DEF S
  <2>5. newest \in S /\ \A x \in S : x <= newest
    BY <1>4, <2>3, GreatestNumber
  <2> HIDE DEF newest
  <2>6. newest \in 0 .. n /\ newest <= i /\ i <= newest
    BY <2>3, <2>4, <2>5
  <2>7. newest = i
    BY <1>4, <2>6
  <2> QED
    BY <2>1, <2>7 DEF newest, S
<1>10. ASSUME NEW j \in DOMAIN m, NEW k \in DOMAIN m, j < k
       PROVE  Min(defined(m[j].name)) < Min(defined(m[k].name))
  <2> DEFINE S == defined(m[j].name)
             T == defined(m[k].name)
             s == Min(S)
             t == Min(T)
  <2>1. PICK i \in 1 .. n : /\ Definitions[i].name = m[j].name
                            /\ \A h \in 1 .. i : Definitions[h].name # m[k].name
    BY <1>7, <1>10
  <2>2. i \in S /\ S \subseteq 1 .. n
    BY <1>4, <2>1
  <2>3. T # {} /\ T \subseteq 1 .. n
    <3>1. PICK h \in 1 .. n : m[k] = Parsed(Definitions[h])
      BY <1>7
    <3>2. h \in T
      BY <1>4, <1>6, <3>1
    <3> QED
      BY <1>4, <3>2
  <2>4. \A x \in T : ~ (x \in 1 .. i)
    BY <2>1
  <2> HIDE DEF S, T
  <2>5. S \subseteq Nat /\ S # {} /\ T \subseteq Nat /\ T # {}
    BY <1>4, <2>2, <2>3
  <2>6. s \in S /\ \A x \in S : s <= x
    BY <2>5, LeastNumber
  <2>7. t \in T
    BY <2>5, LeastNumber
  <2> HIDE DEF s, t
  <2>8. s <= i /\ t \in 1 .. n /\ s \in 1 .. n /\ ~ (t \in 1 .. i)
    BY <2>2, <2>3, <2>4, <2>6, <2>7
  <2>9. s < t
    BY <1>4, <2>8
  <2> QED
    BY <2>9 DEF s, t, S, T
<1> QED
  BY <1>8, <1>9, <1>10 DEF NewestDefinitions, m

-----------------------------------------------------------------------------
\* The theorems.

\* MergeInv holds in every state of the merge, whatever the directory is.
THEOREM MergeInvariant == Spec => []MergeInv
<1>1. Init => MergeInv
  BY MergeInit
<1>2. MergeInv /\ [Next]_vars => MergeInv'
  <2> SUFFICES ASSUME MergeInv, [Next]_vars PROVE MergeInv'
    OBVIOUS
  <2>1. CASE ReadArch
    BY <2>1, ReadArchStep
  <2>2. CASE ReadObject
    BY <2>2, ReadObjectStep
  <2>3. CASE ReadField
    BY <2>3, ReadFieldStep
  <2>4. CASE ReadName
    BY <2>4, ReadNameStep
  <2>5. CASE ReadAlias
    BY <2>5, ReadAliasStep
  <2>6. CASE ReadSize
    BY <2>6, ReadSizeStep
  <2>7. CASE ReadString
    BY <2>7, ReadStringStep
  <2>8. CASE ReadColumn
    BY <2>8, ReadColumnStep
  <2>9. CASE EndFile
    BY <2>9, EndFileStep
  <2>10. CASE SkipFile
    BY <2>10, SkipFileStep
  <2>11. CASE UNCHANGED vars
    <3>1. UNCHANGED <<files, file, line, current_data, current_field_data,
                      is_in_field_mode, type_name_map, global_string_volume, arch>>
      BY <2>11 DEF vars, object
    <3>2. VolumeInPlace' /\ Stored' = Stored
      BY <3>1, VolumeKept DEF MergeInv
    <3>3. MapStored'
      BY <3>1, <3>2, MapKept DEF MergeInv
    <3>4. PlaceInv' /\ ArchInv'
      BY <3>1 DEF MergeInv, PlaceInv, ArchInv
    <3> QED
      BY <3>1, <3>2, <3>3, <3>4 DEF MergeInv
  <2> QED
    BY <2>1, <2>2, <2>3, <2>4, <2>5, <2>6, <2>7, <2>8, <2>9, <2>10, <2>11 DEF Next
<1> QED
  BY <1>1, <1>2, PTL DEF Spec

\* The variables of the parser have their types: the map has objects of the
\* four kinds only, and the offset of every string is a number.
THEOREM TypeCorrect == Spec => []TypeOK
<1>1. MergeInv => TypeOK
  <2> SUFFICES ASSUME MergeInv PROVE TypeOK
    OBVIOUS
  <2>1. arch \in {-1, 4, 8}
    BY WordAssumption DEF MergeInv, ArchInv
  <2>2. \A k \in DOMAIN type_name_map :
          type_name_map[k].type \in {"base", "struct", "union", "enum"}
    BY DEF MergeInv, MapStored, DataStored
  <2>3. \A k \in DOMAIN global_string_volume : global_string_volume[k].offset \in Nat
    <3> DEFINE Entries == [name : DOMAIN NameLen, offset : Nat]
    <3>1. \A e \in Entries : e.offset \in Nat
      OBVIOUS
    <3>2. global_string_volume \in Seq(Entries)
      BY DEF MergeInv, VolumeInPlace
    <3> HIDE DEF Entries
    <3>3. \A k \in DOMAIN global_string_volume : global_string_volume[k] \in Entries
      BY <3>2
    <3> QED
      BY <3>1, <3>3
  <2> QED
    BY <2>1, <2>2, <2>3 DEF TypeOK, MergeInv, PlaceInv
<1> QED
  BY <1>1, MergeInvariant, PTL

\* Whatever files the directory has, writing the table of their types finds
\* every name, alias and field name in the string volume, where each is once
\* and, for files of one arch, at the offset it was noted with.
THEOREM StringsAreStored == Spec => []StringsInPlace
<1>1. MergeInv => StringsInPlace
  <2> SUFFICES ASSUME MergeInv PROVE StringsInPlace
    OBVIOUS
  <2> DEFINE volume == global_string_volume
             strings == StringsOf(volume)
  <2>1. IsList(volume) /\ MapStored
    BY SequencesAreLists DEF MergeInv, VolumeInPlace
  <2>2. /\ Len(volume) \in Nat /\ DOMAIN volume = 1 .. Len(volume)
    BY <2>1, ListFacts
  <2>3. /\ DOMAIN strings = 1 .. Len(volume) /\ Len(strings) = Len(volume)
        /\ \A k \in 1 .. Len(volume) : strings[k] = volume[k].name
    BY <2>2 DEF StringsOf
  <2> HIDE DEF strings
  <2>4. \A s \in Stored : Contains(strings, s) /\ s \in ToSet(strings)
    BY <2>2, <2>3 DEF Stored, Contains, ToSet
  <2>5. ASSUME NEW k \in DOMAIN type_name_map
        PROVE  LET d == type_name_map[k]
               IN  /\ Contains(strings, d.name)
                   /\ d.type # "base" =>
                        /\ ToSet(d.aliases) \subseteq ToSet(strings)
                        /\ \A j \in DOMAIN d.fields : Contains(strings, d.fields[j].name)
    <3> DEFINE d == type_name_map[k]
    <3>1. {"type", "name"} \subseteq DOMAIN d /\ DataStored(d, Stored)
      BY <2>1 DEF MapStored
    <3> HIDE DEF d
    <3>2. Contains(strings, d.name)
      BY <2>4, <3>1 DEF DataStored
    <3>3. ASSUME d.type # "base"
          PROVE  /\ ToSet(d.aliases) \subseteq ToSet(strings)
                 /\ \A j \in DOMAIN d.fields : Contains(strings, d.fields[j].name)
      BY <2>4, <3>1, <3>3 DEF DataStored, FieldStored
    <3> QED
      BY <3>2, <3>3 DEF d
  <2>6. \A j, k \in DOMAIN strings : strings[j] = strings[k] => j = k
    BY <2>2, <2>3 DEF MergeInv, VolumeInPlace
  <2>7. OneArch => volume = Noted(arch, strings)
    BY DEF MergeInv, VolumeInPlace, strings
  <2> QED
    BY <2>5, <2>6, <2>7 DEF StringsInPlace, strings
<1> QED
  BY <1>1, MergeInvariant, PTL

\* The map follows the text line by line: it has what the files before this one
\* and the definitions before this one say, and what is at hand is the lines
\* of this one that were read.
THEOREM DefinitionsAreRead == Spec => [](AtStart \/ InUnit)
<1>1. Init => AtStart
  <2> SUFFICES ASSUME Init PROVE AtStart
    OBVIOUS
  <2>1. MergeInv
    BY MergeInit
  <2>2. Earlier = 0
    <3>1. file - 1 = 0
      BY DEF Init
    <3>2. Before(DefLists, 0) = 0
      BY <2>1, DefinitionPlaces
    <3> QED
      BY <3>1, <3>2 DEF Earlier
  <2>3. MapIs(<<>>, Definitions, 0)
    <3>1. IsList(<<>>)
      BY NothingIsList
    <3>2. 1 .. 0 = {} /\ DOMAIN <<>> = {}
      OBVIOUS
    <3> QED
      BY <3>1, <3>2 DEF MapIs
  <2> QED
    BY <2>2, <2>3 DEF Init, AtStart
<1>2. MergeInv /\ (AtStart \/ InUnit) /\ [Next]_vars => (AtStart \/ InUnit)'
  <2> SUFFICES ASSUME MergeInv, AtStart \/ InUnit, [Next]_vars PROVE (AtStart \/ InUnit)'
    OBVIOUS
  <2>1. CASE Next /\ AtStart /\ AtFile /\ line = 1
    BY <2>1, StartStep
  <2>2. CASE Next /\ AtStart /\ AtFile /\ line = 2
    <3> DEFINE m == Len(files[file].types)
               i == 1
    <3>1. IsUnit(files[file])
      BY <2>2, UnitAtHand DEF AtFile
    <3>2. m \in Nat /\ TypePlace(files[file], 0) = 1
      BY <3>1, TypeListsFacts, PlacesInUnit
    <3>3. FlushedMap = type_name_map /\ NoFieldLeft
      BY <2>2, NothingFlushed
    <3>4. MapIs(FlushedMap, Definitions, Earlier) /\ Earlier \in Nat
      BY <2>2, <3>3, DefinitionPlaces DEF AtStart, AtFile
    <3>5. CASE m = 0
      <4>1. Earlier + m = Earlier /\ line = TypePlace(files[file], m) + 1
        BY <2>2, <3>2, <3>4, <3>5
      <4>2. AtStart'
        BY <2>2, <3>4, <4>1, FileEnds
      <4> QED
        BY <4>2
    <3>6. CASE m # 0
      <4>1. /\ i \in 1 .. m /\ Earlier + i - 1 = Earlier
            /\ line = TypePlace(files[file], i - 1) + 1
        BY <2>2, <3>2, <3>4, <3>6
      <4> HIDE DEF i
      <4>2. InUnit'
        BY <2>2, <3>3, <3>4, <4>1, ObjectBegins
      <4> QED
        BY <4>2
    <3> QED
      BY <3>5, <3>6
  <2>3. CASE Next /\ AtStart /\ ~AtFile
    BY <2>3, FileSkipped
  <2>4. CASE Next /\ InUnit
    <3>1. AtFile
      BY <2>4 DEF InUnit, AtFile
    <3>2. PICK i \in 1 .. Len(files[file].types) :
            /\ MapIs(type_name_map, Definitions, Earlier + i - 1)
            /\ \/ InHead(files[file].types[i], TypePlace(files[file], i - 1))
               \/ InField(files[file].types[i], TypePlace(files[file], i - 1))
      BY <2>4 DEF InUnit
    <3> DEFINE d == files[file].types[i]
    <3>3. AtDefinition(i, d)
      BY <3>1, <3>2 DEF AtDefinition
    <3> HIDE DEF d
    <3>4. InHead(d, TypePlace(files[file], i - 1)) \/ InField(d, TypePlace(files[file], i - 1))
      BY <3>2 DEF d
    <3>5. AtStart' \/ InUnit'
      BY <2>4, <3>3, <3>4, HeadStep, FieldStep
    <3> QED
      BY <3>5
  <2>5. CASE UNCHANGED vars
    <3>1. UNCHANGED <<files, file, line, current_data, current_field_data,
                      is_in_field_mode, type_name_map>>
      BY <2>5 DEF vars, object
    <3>2. AtStart' = AtStart
      BY <3>1 DEF AtStart, Definitions, DefLists, Earlier
    <3>3. InUnit' = InUnit
      BY <3>1 DEF InUnit, InHead, InField, HeadRead, Definitions, DefLists, Earlier
    <3> QED
      BY <3>2, <3>3
  <2>6. AtStart => ~AtFile \/ line = 1 \/ line = 2
    BY DEF AtStart
  <2> QED
    BY <2>1, <2>2, <2>3, <2>4, <2>5, <2>6
<1> QED
  BY <1>1, <1>2, MergeInvariant, PTL DEF Spec

\* Whatever files the directory has, the merge ends with the newest definition
\* of each name, complete, and with no other, in the order of the oldest ones.
THEOREM NewestAreKept == Spec => []NewestDefinitions
<1>1. MergeInv /\ (AtStart \/ InUnit) => NewestDefinitions
  BY NewestAtEnd
<1> QED
  BY <1>1, MergeInvariant, DefinitionsAreRead, PTL

=============================================================================
