---------------------------- MODULE LoaderProofs ----------------------------
(***************************************************************************)
(* Theorems about Loader: what write_reflection_dat wrote is what          *)
(* reflect_load_bytes leaves in the registry, for every map of types that  *)
(* the script can write, either word size and any hash function.           *)
(*                                                                         *)
(* First the file: where each of its cells starts, and that a reader that  *)
(* is at the start of some cells reads just these (Place, Readable).  Then *)
(* the invariant LoaderInv, which says where in the file the reader is     *)
(* before each step and what of the map the slots hold by then; the steps  *)
(* in terms of the map instead of bytes (BaseStep, FieldedStep, ...), that *)
(* each keeps the invariant, and NamesInv for the table of names.  Last    *)
(* the theorems, and that each step is one of the registry's.              *)
(***************************************************************************)
EXTENDS Loader, DataProofs

-----------------------------------------------------------------------------
\* Places in a file.

\* Where the first k cells end.
Place(a, cells, k) == Bytes(a, SubSeq(cells, 1, k))

\* The bytes of some cells are what a run of sums over their widths comes to.
LEMMA BytesRun ==
  ASSUME NEW a, NEW cells, NEW n \in Nat, Len(cells) = n,
         NEW f, f[0] = 0, \A k \in 1 .. n : f[k] = f[k - 1] + Width(a, cells[k])
  PROVE  Bytes(a, cells) = f[n]
<1> DEFINE bytes == CHOOSE g : g = [k \in 0 .. Len(cells) |->
                      IF k = 0 THEN 0 ELSE g[k - 1] + Width(a, cells[k])]
           h == [k \in 0 .. n |-> f[k]]
<1>1. h = [k \in 0 .. Len(cells) |-> IF k = 0 THEN 0 ELSE h[k - 1] + Width(a, cells[k])]
  <2>1. \A k \in 1 .. n : h[k] = h[k - 1] + Width(a, cells[k])
    OBVIOUS
  <2> QED
    BY <2>1
<1>2. bytes = [k \in 0 .. n |-> IF k = 0 THEN 0 ELSE bytes[k - 1] + Width(a, cells[k])]
  BY <1>1
<1>3. Bytes(a, cells) = bytes[n]
  BY DEF Bytes
<1> HIDE DEF bytes
<1> DEFINE S == {k \in 0 .. n : bytes[k] = f[k]}
<1>4. 0 \in S
  BY <1>2
<1>5. ASSUME NEW k \in 1 .. n, k - 1 \in S
      PROVE  k \in S
  <2>1. bytes[k] = bytes[k - 1] + Width(a, cells[k])
    BY <1>2
  <2>2. f[k] = f[k - 1] + Width(a, cells[k])
    OBVIOUS
  <2>3. bytes[k - 1] = f[k - 1]
    BY <1>5
  <2> QED
    BY <2>1, <2>2, <2>3
<1> HIDE DEF S
<1>6. 0 .. n \subseteq S
  BY <1>4, <1>5, LoopInvariant
<1> QED
  BY <1>3, <1>6 DEF S

\* Cells whose strings have a length.
IsCell(c) == c.kind \in {"size", "u32", "u8"} \/ (c.kind = "str" /\ c.val \in DOMAIN NameLen)

IsCells(cells) == IsList(cells) /\ \A k \in DOMAIN cells : IsCell(cells[k])

LEMMA CellsHaveWidth ==
  ASSUME NEW a \in {4, 8}, NEW c, IsCell(c)
  PROVE  Width(a, c) \in Nat \ {0}
<1>1. CASE c.kind = "str"
  BY <1>1, NameAssumption DEF IsCell, Width
<1>2. CASE c.kind # "str"
  BY <1>2 DEF IsCell, Width
<1> QED
  BY <1>1, <1>2

LEMMA PlaceGrows ==
  ASSUME NEW a \in {4, 8}, NEW cells, IsCells(cells)
  PROVE  /\ Place(a, cells, 0) = 0
         /\ \A k \in 0 .. Len(cells) : Place(a, cells, k) \in Nat
         /\ \A k \in 1 .. Len(cells) :
              Place(a, cells, k) = Place(a, cells, k - 1) + Width(a, cells[k])
<1> DEFINE n == Len(cells)
           step == [k \in 1 .. n |-> [x \in Nat |-> x + Width(a, cells[k])]]
<1>1. n \in Nat /\ DOMAIN cells = 1 .. n
  BY ListFacts DEF IsCells
<1>2. \A k \in 1 .. n : Width(a, cells[k]) \in Nat
  BY <1>1, CellsHaveWidth DEF IsCells
<1>3. step \in [1 .. n -> [Nat -> Nat]]
  BY <1>2
<1>4. PICK f : IsLoop(f, n, Nat, 0, step)
  <2> HIDE DEF step
  <2> QED
    BY <1>1, <1>3, LoopIsDefined
<1>5. \A k \in 1 .. n : f[k - 1] \in Nat /\ f[k] = f[k - 1] + Width(a, cells[k])
  <2> SUFFICES ASSUME NEW k \in 1 .. n
               PROVE  f[k - 1] \in Nat /\ f[k] = f[k - 1] + Width(a, cells[k])
    OBVIOUS
  <2>1. k - 1 \in 0 .. n
    BY <1>1
  <2>2. f[k - 1] \in Nat /\ f[k] = step[k][f[k - 1]]
    BY <1>4, <2>1 DEF IsLoop
  <2> QED
    BY <2>2
<1>6. ASSUME NEW k \in 0 .. n
      PROVE  Place(a, cells, k) = f[k]
  <2> DEFINE part == SubSeq(cells, 1, k)
  <2>1. Len(part) = k /\ \A j \in 1 .. k : part[j] = cells[j]
    BY <1>1 DEF IsCells, IsList
  <2>2. \A j \in 1 .. k : f[j] = f[j - 1] + Width(a, part[j])
    BY <1>1, <1>5, <2>1
  <2>3. f[0] = 0
    BY <1>4 DEF IsLoop
  <2> HIDE DEF part
  <2>4. Bytes(a, part) = f[k]
    BY <1>1, <2>1, <2>2, <2>3, BytesRun
  <2> QED
    BY <2>4 DEF Place, part
<1>7. f[0] = 0 /\ \A k \in 0 .. n : f[k] \in Nat
  BY <1>1, <1>4 DEF IsLoop
<1> HIDE DEF step
<1>8. \A k \in 1 .. n : k - 1 \in 0 .. n /\ k \in 0 .. n
  BY <1>1
<1>9. 0 \in 0 .. n
  BY <1>1
<1> QED
  BY <1>5, <1>6, <1>7, <1>8, <1>9

\* No two cells start at the same place.
LEMMA PlacesAscend ==
  ASSUME NEW a \in {4, 8}, NEW cells, IsCells(cells)
  PROVE  \A k \in 0 .. Len(cells) : \A j \in 0 .. k - 1 : Place(a, cells, j) < Place(a, cells, k)
<1> DEFINE n == Len(cells)
           S == {k \in 0 .. n : \A j \in 0 .. k - 1 : Place(a, cells, j) < Place(a, cells, k)}
<1>1. n \in Nat /\ DOMAIN cells = 1 .. n
  BY ListFacts DEF IsCells
<1>2. 0 \in S
  BY <1>1
<1>3. ASSUME NEW k \in 1 .. n, k - 1 \in S
      PROVE  k \in S
  <2>1. Width(a, cells[k]) \in Nat \ {0}
    BY <1>1, CellsHaveWidth DEF IsCells
  <2>2. /\ Place(a, cells, k) = Place(a, cells, k - 1) + Width(a, cells[k])
        /\ Place(a, cells, k - 1) \in Nat
    BY <1>1, PlaceGrows, SMTT(30)
  <2>3. ASSUME NEW j \in 0 .. k - 1
        PROVE  Place(a, cells, j) < Place(a, cells, k)
    <3>1. CASE j = k - 1
      BY <2>1, <2>2, <3>1
    <3>2. CASE j # k - 1
      <4>1. j \in 0 .. (k - 1) - 1 /\ j \in 0 .. n
        BY <1>1, <3>2
      <4>2. Place(a, cells, j) < Place(a, cells, k - 1) /\ Place(a, cells, j) \in Nat
        BY <1>3, <4>1, PlaceGrows
      <4> QED
        BY <2>1, <2>2, <4>2
    <3> QED
      BY <3>1, <3>2
  <2> QED
    BY <1>1, <2>3
<1> HIDE DEF S
<1>4. 0 .. n \subseteq S
  BY <1>1, <1>2, <1>3, LoopInvariant
<1> QED
  BY <1>4 DEF S

-----------------------------------------------------------------------------
\* Reading.

\* A file holds cells where they start.
Holds(a, file, cells) ==
  \A k \in DOMAIN cells : /\ Place(a, cells, k - 1) \in DOMAIN file
                          /\ file[Place(a, cells, k - 1)] = cells[k]

\* The places where cells start.
CellPlaces(a, cells) == {Place(a, cells, k - 1) : k \in DOMAIN cells}

LEMMA FileHoldsCells ==
  ASSUME NEW a \in {4, 8}, NEW volume, NEW m, IsCells(FileCells(a, volume, m))
  PROVE  /\ Holds(a, write_reflection_dat(a, volume, m), FileCells(a, volume, m))
         /\ DOMAIN write_reflection_dat(a, volume, m) = CellPlaces(a, FileCells(a, volume, m))
<1> DEFINE cells == FileCells(a, volume, m)
           starts == Starts(a, cells)
           file == [o \in Range(starts) |-> cells[CHOOSE k \in DOMAIN cells : starts[k] = o]]
<1>1. write_reflection_dat(a, volume, m) = file
  BY DEF write_reflection_dat
<1>2. IsCells(cells)
  OBVIOUS
<1> HIDE DEF cells
<1>3. DOMAIN cells = 1 .. Len(cells) /\ Len(cells) \in Nat
  BY <1>2, ListFacts DEF IsCells
<1>4. /\ DOMAIN starts = DOMAIN cells
      /\ \A k \in DOMAIN cells : starts[k] = Place(a, cells, k - 1)
  BY DEF Starts, Place
<1>5. Range(starts) = {Place(a, cells, k - 1) : k \in DOMAIN cells}
  BY <1>4 DEF Range
<1>6. ASSUME NEW j \in DOMAIN cells, NEW k \in DOMAIN cells, starts[j] = starts[k]
      PROVE  j = k
  <2>1. Place(a, cells, j - 1) = Place(a, cells, k - 1)
    BY <1>4, <1>6
  <2>2. /\ j - 1 \in 0 .. Len(cells) /\ k - 1 \in 0 .. Len(cells)
        /\ Place(a, cells, j - 1) \in Nat
    <3>1. j - 1 \in 0 .. Len(cells) /\ k - 1 \in 0 .. Len(cells)
      BY <1>3
    <3> QED
      BY <1>2, <3>1, PlaceGrows
  <2>3. j - 1 < k - 1 => j - 1 \in 0 .. (k - 1) - 1
    BY <1>3
  <2>4. k - 1 < j - 1 => k - 1 \in 0 .. (j - 1) - 1
    BY <1>3
  <2>5. ~ (j - 1 < k - 1)
    BY <1>2, <2>1, <2>2, <2>3, PlacesAscend
  <2>6. ~ (k - 1 < j - 1)
    BY <1>2, <2>1, <2>2, <2>4, PlacesAscend
  <2> QED
    BY <1>3, <2>5, <2>6
<1> HIDE DEF starts
<1>7. ASSUME NEW k \in DOMAIN cells
      PROVE  /\ Place(a, cells, k - 1) \in DOMAIN file
             /\ file[Place(a, cells, k - 1)] = cells[k]
  <2> DEFINE o == starts[k]
             j == CHOOSE i \in DOMAIN cells : starts[i] = o
  <2>1. j \in DOMAIN cells /\ starts[j] = o
    OBVIOUS
  <2> HIDE DEF j
  <2>2. j = k
    BY <1>6, <2>1
  <2>3. o \in Range(starts)
    BY <1>4 DEF Range
  <2>4. file[o] = cells[j]
    BY <2>3 DEF j
  <2> QED
    BY <1>4, <2>2, <2>3, <2>4
<1>8. DOMAIN file = {Place(a, cells, k - 1) : k \in DOMAIN cells}
  BY <1>5
<1> HIDE DEF file
<1>9. Holds(a, file, cells)
  BY <1>7 DEF Holds
<1> QED
  BY <1>1, <1>8, <1>9 DEF cells, CellPlaces

\* Reads of as many cells of the kinds that are next.
AreNext(cells, p, kinds) ==
  /\ IsList(kinds)
  /\ p \in Nat
  /\ \A j \in 1 .. Len(kinds) :
       /\ kinds[j] \in {"size", "u32", "u8"}
       /\ p + j \in DOMAIN cells
       /\ cells[p + j].kind = kinds[j]

LEMMA CellsPassed ==
  ASSUME NEW a \in {4, 8}, NEW cells, IsCells(cells), NEW p, NEW kinds, AreNext(cells, p, kinds),
         NEW k \in 0 .. Len(kinds), p \in 0 .. Len(cells)
  PROVE  ReadOffset(a, Place(a, cells, p), SubSeq(kinds, 1, k)) = Place(a, cells, p + k)
<1> DEFINE read == SubSeq(kinds, 1, k)
           passed == [j \in DOMAIN read |-> [kind |-> read[j], val |-> 0]]
           f == [j \in 0 .. k |-> Place(a, cells, p + j) - Place(a, cells, p)]
<1>1. Len(kinds) \in Nat /\ DOMAIN kinds = 1 .. Len(kinds) /\ p \in Nat
  BY ListFacts DEF AreNext
<1>2. DOMAIN read = 1 .. k /\ \A j \in 1 .. k : read[j] = kinds[j]
  BY <1>1 DEF AreNext, IsList
<1>3. DOMAIN cells = 1 .. Len(cells) /\ Len(cells) \in Nat
  BY ListFacts DEF IsCells
<1>4. p + k \in 0 .. Len(cells)
  <2>1. CASE k = 0
    BY <1>1, <2>1
  <2>2. CASE k # 0
    <3>1. k \in 1 .. Len(kinds)
      BY <1>1, <2>2
    <3> QED
      BY <1>1, <1>3, <3>1 DEF AreNext
  <2> QED
    BY <2>1, <2>2
<1> HIDE DEF read
<1>5. Len(passed) = k
  <2>1. passed = [j \in 1 .. k |-> passed[j]]
    BY <1>2
  <2> HIDE DEF passed
  <2> QED
    BY <1>1, <2>1, FunctionsAreLists
<1>6. ASSUME NEW j \in 1 .. k
      PROVE  f[j] = f[j - 1] + Width(a, passed[j])
  <2>1. /\ p + j \in 1 .. Len(cells)
        /\ p + (j - 1) \in 0 .. Len(cells)
        /\ (p + j) - 1 = p + (j - 1)
        /\ p \in 0 .. Len(cells)
    BY <1>1, <1>4
  <2> DEFINE q == p + j
  <2>2. Place(a, cells, q) = Place(a, cells, q - 1) + Width(a, cells[q])
    <3> HIDE DEF q
    <3> QED
      BY <2>1, PlaceGrows DEF q
  <2>3. /\ Place(a, cells, p) \in Nat
        /\ Place(a, cells, q) \in Nat
        /\ Place(a, cells, q - 1) \in Nat
    <3>1. q \in 0 .. Len(cells) /\ q - 1 \in 0 .. Len(cells)
      BY <1>3, <2>1
    <3> HIDE DEF q
    <3> QED
      BY <2>1, <3>1, PlaceGrows
  <2>4. Width(a, passed[j]) = Width(a, cells[q])
    <3>1. /\ cells[q].kind = kinds[j]
          /\ kinds[j] \in {"size", "u32", "u8"}
      BY <1>1 DEF AreNext
    <3>2. passed[j].kind = kinds[j]
      BY <1>2
    <3> HIDE DEF q, passed
    <3> QED
      BY <3>1, <3>2 DEF Width
  <2>5. Width(a, cells[q]) \in Nat
    BY <1>3, <2>1, CellsHaveWidth DEF IsCells
  <2>6. f[j] = Place(a, cells, q) - Place(a, cells, p)
    OBVIOUS
  <2>7. f[j - 1] = Place(a, cells, q - 1) - Place(a, cells, p)
    <3>1. j - 1 \in 0 .. k
      BY <1>1
    <3> QED
      BY <2>1, <3>1
  <2> HIDE DEF q, f, passed
  <2> QED
    BY <2>2, <2>3, <2>4, <2>5, <2>6, <2>7
<1>7. f[0] = 0
  <2>1. Place(a, cells, p) \in Nat
    BY PlaceGrows
  <2>2. 0 \in 0 .. k /\ p + 0 = p
    BY <1>1
  <2> QED
    BY <2>1, <2>2
<1>8. f[k] = Place(a, cells, p + k) - Place(a, cells, p)
  BY <1>1
<1> HIDE DEF f, passed
<1>9. Bytes(a, passed) = f[k]
  <2>1. k \in Nat
    BY <1>1
  <2> QED
    BY <1>5, <1>6, <1>7, <2>1, BytesRun, SMTT(30)
<1>10. Place(a, cells, p + k) \in Nat /\ Place(a, cells, p) \in Nat
  BY <1>4, PlaceGrows
<1>11. ReadOffset(a, Place(a, cells, p), read) = Place(a, cells, p) + Bytes(a, passed)
  BY DEF ReadOffset, passed
<1> QED
  BY <1>8, <1>9, <1>10, <1>11 DEF read

\* The reader finds the values and stops where the next cell starts.
LEMMA CellsRead ==
  ASSUME NEW a \in {4, 8}, NEW cells, IsCells(cells), NEW file, Holds(a, file, cells),
         NEW p, p \in 0 .. Len(cells), NEW kinds, AreNext(cells, p, kinds)
  PROVE  /\ Readable(a, file, Place(a, cells, p), kinds)
         /\ ReadOffset(a, Place(a, cells, p), kinds) = Place(a, cells, p + Len(kinds))
         /\ \A j \in 1 .. Len(kinds) :
              ReadCells(a, file, Place(a, cells, p), kinds)[j] = Unsigned(a, cells[p + j])
         /\ p + Len(kinds) \in 0 .. Len(cells)
<1>1. Len(kinds) \in Nat /\ DOMAIN kinds = 1 .. Len(kinds) /\ p \in Nat
  BY ListFacts DEF AreNext
<1>2. ASSUME NEW j \in 1 .. Len(kinds)
      PROVE  /\ CellAt(a, Place(a, cells, p), kinds, j) \in DOMAIN file
             /\ file[CellAt(a, Place(a, cells, p), kinds, j)] = cells[p + j]
  <2>1. j - 1 \in 0 .. Len(kinds) /\ p + (j - 1) = (p + j) - 1
    BY <1>1
  <2> DEFINE i == j - 1
             q == p + j
  <2>2. ReadOffset(a, Place(a, cells, p), SubSeq(kinds, 1, i)) = Place(a, cells, p + i)
    <3> HIDE DEF i
    <3> QED
      BY <2>1, CellsPassed DEF i
  <2>3. CellAt(a, Place(a, cells, p), kinds, j) = Place(a, cells, q - 1)
    BY <2>1, <2>2 DEF CellAt
  <2>4. q \in DOMAIN cells
    BY DEF AreNext
  <2> HIDE DEF q, i
  <2> QED
    BY <2>3, <2>4 DEF Holds, q
<1>3. Readable(a, file, Place(a, cells, p), kinds)
  BY <1>1, <1>2 DEF Readable, AreNext
<1>4. SubSeq(kinds, 1, Len(kinds)) = kinds
  BY <1>1 DEF AreNext, IsList
<1>5. ASSUME NEW k, k = Len(kinds)
      PROVE  ReadOffset(a, Place(a, cells, p), kinds) = Place(a, cells, p + k)
  <2>1. k \in 0 .. Len(kinds) /\ SubSeq(kinds, 1, k) = kinds
    BY <1>1, <1>4, <1>5
  <2>2. ReadOffset(a, Place(a, cells, p), SubSeq(kinds, 1, k)) = Place(a, cells, p + k)
    BY <2>1, CellsPassed
  <2> QED
    BY <2>1, <2>2
<1>6. ReadOffset(a, Place(a, cells, p), kinds) = Place(a, cells, p + Len(kinds))
  BY <1>5
<1>7. \A j \in 1 .. Len(kinds) :
        ReadCells(a, file, Place(a, cells, p), kinds)[j] = Unsigned(a, cells[p + j])
  BY <1>1, <1>2 DEF ReadCells
<1>8. p + Len(kinds) \in 0 .. Len(cells)
  <2>1. DOMAIN cells = 1 .. Len(cells) /\ Len(cells) \in Nat
    BY ListFacts DEF IsCells
  <2>2. CASE Len(kinds) = 0
    BY <1>1, <2>2
  <2>3. CASE Len(kinds) # 0
    <3>1. Len(kinds) \in 1 .. Len(kinds)
      BY <1>1, <2>3
    <3>2. p + Len(kinds) \in DOMAIN cells
      BY <3>1 DEF AreNext
    <3> QED
      BY <2>1, <3>2
  <2> QED
    BY <2>2, <2>3
<1> QED
  BY <1>3, <1>6, <1>7, <1>8

-----------------------------------------------------------------------------
\* The types of a map.

LEMMA MapFacts ==
  ASSUME NEW m \in TypeMaps
  PROVE  /\ IsList(m) /\ Len(m) \in Nat /\ DOMAIN m = 1 .. Len(m)
         /\ Len(m) <= MaxTypes
         /\ \A i \in 1 .. Len(m) : IsType(m[i], Len(m))
<1>1. /\ m \in Seq(ToSet(m)) /\ Len(m) <= MaxTypes
      /\ \A i \in DOMAIN m : IsType(m[i], Len(m))
  BY LoaderAssumption
<1>2. IsList(m)
  BY <1>1, SequencesAreLists
<1> QED
  BY <1>1, <1>2, ListFacts

\* Numbering keeps the types and gives each the number of its place as id.
LEMMA NumberedFacts ==
  ASSUME NEW m \in TypeMaps
  PROVE  /\ IsList(Numbered(m)) /\ Len(Numbered(m)) = Len(m)
         /\ DOMAIN Numbered(m) = 1 .. Len(m)
         /\ \A i \in 1 .. Len(m) :
              /\ Numbered(m)[i].id = i
              /\ Numbered(m)[i].type = m[i].type
              /\ Numbered(m)[i].name = m[i].name
              /\ Numbered(m)[i].size = m[i].size
              /\ m[i].type # "base" => /\ Numbered(m)[i].fields = m[i].fields
                                       /\ Numbered(m)[i].aliases = m[i].aliases
<1> DEFINE all == [i \in DOMAIN m |-> Set(m[i], "id", i)]
           named == {i \in DOMAIN m : m[i].name # EmptyName}
<1>1. DOMAIN m = 1 .. Len(m) /\ Len(m) \in Nat /\ \A i \in 1 .. Len(m) : IsType(m[i], Len(m))
  BY MapFacts
<1>2. IsList(all) /\ Len(all) = Len(m) /\ DOMAIN all = 1 .. Len(m)
  <2>1. all = [i \in 1 .. Len(m) |-> all[i]]
    BY <1>1
  <2> HIDE DEF all
  <2> QED
    BY <1>1, <2>1, FunctionsAreLists
<1>3. DOMAIN all \subseteq named
  BY <1>1, <1>2 DEF IsType
<1>4. Numbered(m) = Selected(all, named)
  BY DEF Numbered
<1>5. \A i \in 1 .. Len(m) : all[i] = Set(m[i], "id", i)
  BY <1>1
<1> HIDE DEF all, named
<1>6. Numbered(m) = all
  BY <1>2, <1>3, <1>4, SelectedFacts
<1>7. ASSUME NEW i \in 1 .. Len(m)
      PROVE  /\ all[i].id = i
             /\ all[i].type = m[i].type
             /\ all[i].name = m[i].name
             /\ all[i].size = m[i].size
             /\ m[i].type # "base" => /\ all[i].fields = m[i].fields
                                      /\ all[i].aliases = m[i].aliases
  <2>1. all[i] = [k \in DOMAIN m[i] \cup {"id"} |-> IF k = "id" THEN i ELSE m[i][k]]
    BY <1>5 DEF Set
  <2>2. IsType(m[i], Len(m))
    BY <1>1
  <2>3. {"type", "name", "size"} \subseteq DOMAIN m[i]
    BY <2>2 DEF IsType
  <2>4. m[i].type # "base" => {"fields", "aliases"} \subseteq DOMAIN m[i]
    BY <2>2 DEF IsType
  <2> QED
    BY <2>1, <2>3, <2>4
<1> QED
  BY <1>2, <1>6, <1>7

\* The names of the types and fields of a map are strings of the volume.
Met(name) == \E k \in 1 .. Len(Strings) : Strings[k] = name

LEMMA StringFacts ==
  /\ IsList(Strings) /\ Len(Strings) \in Nat /\ DOMAIN Strings = 1 .. Len(Strings)
  /\ \A k \in 1 .. Len(Strings) : Strings[k] \in Name /\ Strings[k] \in DOMAIN NameLen
  /\ \A name \in ToSet(Strings) : Met(name) /\ name \in Name
<1>1. Strings \in Seq(Name) /\ Name \subseteq DOMAIN NameLen
  BY LoaderAssumption
<1>2. IsList(Strings) /\ Len(Strings) \in Nat /\ DOMAIN Strings = 1 .. Len(Strings)
  BY <1>1, SequencesAreLists, ListFacts
<1>3. \A k \in 1 .. Len(Strings) : Strings[k] \in Name
  BY <1>1
<1> QED
  BY <1>1, <1>2, <1>3 DEF ToSet, Met

LEMMA TypeFacts ==
  ASSUME NEW m \in TypeMaps, NEW i \in 1 .. Len(m)
  PROVE  /\ Numbered(m)[i].id = i
         /\ Numbered(m)[i].type \in {"base", "struct", "union", "enum"}
         /\ Numbered(m)[i].name \in Name /\ Met(Numbered(m)[i].name)
         /\ Numbered(m)[i].size \in Size /\ Numbered(m)[i].size \in Nat
         /\ Numbered(m)[i].type # "base" =>
              /\ IsList(Numbered(m)[i].aliases)
              /\ \A k \in 1 .. Len(Numbered(m)[i].aliases) :
                   /\ Numbered(m)[i].aliases[k] \in Name
                   /\ Met(Numbered(m)[i].aliases[k])
<1> DEFINE d == Numbered(m)[i]
<1>1. IsType(m[i], Len(m))
  BY MapFacts
<1>2. /\ d.id = i /\ d.type = m[i].type /\ d.name = m[i].name /\ d.size = m[i].size
      /\ m[i].type # "base" => d.aliases = m[i].aliases
  BY NumberedFacts
<1>3. /\ d.type \in {"base", "struct", "union", "enum"}
      /\ d.name \in ToSet(Strings)
      /\ d.size \in Size
      /\ d.type # "base" => d.aliases \in Seq(ToSet(Strings))
  <2>1. DOMAIN object_types = {"base", "struct", "union", "enum"}
    BY DEF object_types
  <2> QED
    BY <1>1, <1>2, <2>1 DEF IsType
<1>4. ASSUME d.type # "base"
      PROVE  /\ IsList(d.aliases)
             /\ \A k \in 1 .. Len(d.aliases) : d.aliases[k] \in Name /\ Met(d.aliases[k])
  <2>1. d.aliases \in Seq(ToSet(Strings))
    BY <1>3, <1>4
  <2> HIDE DEF d
  <2>2. \A k \in 1 .. Len(d.aliases) : d.aliases[k] \in ToSet(Strings)
    BY <2>1
  <2> QED
    BY <2>1, <2>2, SequencesAreLists, StringFacts
<1> QED
  BY <1>2, <1>3, <1>4, StringFacts, LoaderAssumption

\* A reference leads to a type of that name, or to none.
LEMMA RefFacts ==
  ASSUME NEW m \in TypeMaps, NEW name
  PROVE  /\ RefId(Numbered(m), name) \in 0 .. Len(m)
         /\ name \notin TypeNames(Numbered(m)) => RefId(Numbered(m), name) = 0
         /\ name \in TypeNames(Numbered(m)) =>
              /\ RefId(Numbered(m), name) \in 1 .. Len(m)
              /\ Numbered(m)[RefId(Numbered(m), name)].name = name
<1> DEFINE types == Numbered(m)
           places == {i \in 1 .. Len(types) : types[i].name = name}
<1>1. /\ Len(types) = Len(m) /\ Len(m) \in Nat
      /\ DOMAIN types = 1 .. Len(m)
      /\ \A i \in 1 .. Len(m) : types[i].id = i
  BY NumberedFacts, MapFacts
<1>2. CASE name \notin TypeNames(types)
  BY <1>1, <1>2 DEF RefId
<1>3. CASE name \in TypeNames(types)
  <2>1. places # {}
    BY <1>1, <1>3 DEF TypeNames
  <2>2. SelectInSeq(types, LAMBDA d : d.name = name) = Min(places)
    BY <2>1 DEF SelectInSeq
  <2>3. RefId(types, name) = types[Min(places)].id
    BY <1>3, <2>2 DEF RefId
  <2>4. places \subseteq 1 .. Len(m) /\ \A i \in places : types[i].name = name
    BY <1>1
  <2> HIDE DEF places, types
  <2>5. Min(places) \in places
    <3>1. places \subseteq Nat
      BY <1>1, <2>4
    <3> QED
      BY <2>1, <3>1, LeastNumber
  <2>6. RefId(types, name) = Min(places) /\ Min(places) \in 1 .. Len(m)
    BY <1>1, <2>3, <2>4, <2>5
  <2>7. types[Min(places)].name = name
    BY <2>4, <2>5
  <2> QED
    BY <1>1, <1>3, <2>6, <2>7 DEF types
<1> QED
  BY <1>2, <1>3

\* What is written of the fields of a type are fields of it.
Fields(m, i) == Written(Numbered(m), Numbered(m)[i])

\* What the loader makes of a field of a record or union.
Info(m, f) ==
  [name |-> f.name, is_const |-> f.const, ptr_depth |-> f.pdepth, offset |-> f.offset,
   arr_size |-> f.arrsize, type_ptr |-> RefId(Numbered(m), f.type)]

LEMMA FieldFacts ==
  ASSUME NEW m \in TypeMaps, NEW i \in 1 .. Len(m), Numbered(m)[i].type # "base"
  PROVE  /\ IsList(Fields(m, i)) /\ Len(Fields(m, i)) \in 0 .. MaxFields
         /\ \A k \in 1 .. Len(Fields(m, i)) :
              /\ Fields(m, i)[k].name \in Name /\ Met(Fields(m, i)[k].name)
              /\ Numbered(m)[i].type = "enum" =>
                   /\ Fields(m, i)[k].value \in Int
                   /\ \A a \in Arch : Fields(m, i)[k].value % Word[a] \in Value
              /\ Numbered(m)[i].type # "enum" =>
                   /\ Fields(m, i)[k].const \in BOOLEAN
                   /\ Fields(m, i)[k].pdepth \in Nat
                   /\ Fields(m, i)[k].offset \in Nat
                   /\ Fields(m, i)[k].arrsize \in Nat
                   /\ Info(m, Fields(m, i)[k]) \in FieldInfo
<1> DEFINE d == Numbered(m)[i]
           n == Len(m)
           fields == Fields(m, i)
<1>1. IsType(m[i], n) /\ n \in Nat
  BY MapFacts
<1>2. d.type = m[i].type /\ d.fields = m[i].fields
  BY NumberedFacts
<1>3. /\ d.fields \in Seq(ToSet(d.fields)) /\ Len(d.fields) <= MaxFields
      /\ \A k \in DOMAIN d.fields : IsField(d, d.fields[k], n)
  <2>1. /\ m[i].fields \in Seq(ToSet(m[i].fields)) /\ Len(m[i].fields) <= MaxFields
        /\ \A k \in DOMAIN m[i].fields : IsField(m[i], m[i].fields[k], n)
    BY <1>1, <1>2 DEF IsType
  <2>2. \A f : IsField(m[i], f, n) => IsField(d, f, n)
    BY <1>2 DEF IsField
  <2> QED
    BY <1>2, <2>1, <2>2
<1>4. IsList(d.fields) /\ Len(d.fields) \in Nat
  BY <1>3, SequencesAreLists, ListFacts
<1> HIDE DEF n
<1>5. /\ IsList(fields) /\ Len(fields) <= Len(d.fields)
      /\ \A k \in DOMAIN fields : \E j \in DOMAIN d.fields : fields[k] = d.fields[j]
  <2>1. CASE d.type = "enum"
    <3>1. fields = d.fields
      BY <2>1 DEF Fields, Written
    <3> QED
      BY <1>4, <3>1
  <2>2. CASE d.type # "enum"
    <3> DEFINE kept == {k \in DOMAIN d.fields : Kept(Numbered(m), d.fields[k])}
               all == d.fields
    <3>1. fields = Selected(all, kept)
      BY <2>2 DEF Fields, Written
    <3> HIDE DEF kept, all
    <3>2. IsList(all)
      BY <1>4 DEF all
    <3>3. /\ IsList(fields) /\ Len(fields) <= Len(all)
          /\ \A k \in DOMAIN fields : \E j \in DOMAIN all : fields[k] = all[j]
      BY <3>1, <3>2, SelectedFacts
    <3> QED
      BY <3>3 DEF all
  <2> QED
    BY <2>1, <2>2
<1> HIDE DEF fields
<1>6. \A k \in DOMAIN fields : IsField(d, fields[k], n)
  BY <1>3, <1>5
<1>7. DOMAIN fields = 1 .. Len(fields) /\ Len(fields) \in 0 .. MaxFields
  <2>1. DOMAIN fields = 1 .. Len(fields) /\ Len(fields) \in Nat
    BY <1>5, ListFacts
  <2> QED
    BY <1>3, <1>4, <1>5, <2>1, LoaderAssumption
<1>8. ASSUME NEW k \in 1 .. Len(fields)
      PROVE  /\ fields[k].name \in Name /\ Met(fields[k].name)
             /\ d.type = "enum" => /\ fields[k].value \in Int
                                   /\ \A a \in Arch : fields[k].value % Word[a] \in Value
             /\ d.type # "enum" => /\ fields[k].const \in BOOLEAN
                                   /\ fields[k].pdepth \in Nat
                                   /\ fields[k].offset \in Nat
                                   /\ fields[k].arrsize \in Nat
                                   /\ Info(m, fields[k]) \in FieldInfo
  <2> DEFINE f == fields[k]
  <2>1. IsField(d, f, n)
    BY <1>6, <1>7
  <2> HIDE DEF f, d
  <2>2. f.name \in Name /\ Met(f.name)
    BY <2>1, StringFacts DEF IsField
  <2>3. ASSUME d.type # "enum"
        PROVE  Info(m, f) \in FieldInfo
    <3>1. RefId(Numbered(m), f.type) \in 0 .. n
      BY RefFacts DEF n
    <3> QED
      BY <2>1, <2>3, <3>1 DEF IsField, Info
  <2> QED
    BY <2>1, <2>2, <2>3 DEF IsField, f
<1> QED
  BY <1>5, <1>7, <1>8 DEF fields

-----------------------------------------------------------------------------
\* The cells of a file.

LEMMA ShortLists ==
  /\ \A c : IsList(<< c >>) /\ Len(<< c >>) = 1 /\ << c >>[1] = c
  /\ \A c, d : IsList(<< c, d >>) /\ Len(<< c, d >>) = 2
  /\ \A c, d, e, f : IsList(<< c, d, e, f >>) /\ Len(<< c, d, e, f >>) = 4
  /\ \A c, d, e, f, g, h :
       IsList(<< c, d, e, f, g, h >>) /\ Len(<< c, d, e, f, g, h >>) = 6
<1>1. \A c : << c >> \in Seq({c}) /\ Len(<< c >>) = 1
  OBVIOUS
<1>2. \A c, d : << c, d >> \in Seq({c, d}) /\ Len(<< c, d >>) = 2
  OBVIOUS
<1>3. \A c, d, e, f : << c, d, e, f >> \in Seq({c, d, e, f}) /\ Len(<< c, d, e, f >>) = 4
  OBVIOUS
<1>4. \A c, d, e, f, g, h :
        << c, d, e, f, g, h >> \in Seq({c, d, e, f, g, h}) /\ Len(<< c, d, e, f, g, h >>) = 6
  OBVIOUS
<1> QED
  BY <1>1, <1>2, <1>3, <1>4, SequencesAreLists

\* Lists of cells joined are a list of cells, each in its place.
AreJoined(s, t, all) ==
  /\ IsCells(all)
  /\ Len(all) = Len(s) + Len(t)
  /\ \A k \in 1 .. Len(s) : all[k] = s[k]
  /\ \A k \in 1 .. Len(t) : all[Len(s) + k] = t[k]

LEMMA CellsJoined ==
  ASSUME NEW s, NEW t, IsCells(s), IsCells(t)
  PROVE  AreJoined(s, t, s \o t)
<1> DEFINE st == s \o t
<1>1. /\ IsList(st) /\ Len(st) = Len(s) + Len(t)
      /\ \A k \in 1 .. Len(s) : st[k] = s[k]
      /\ \A k \in 1 .. Len(t) : st[Len(s) + k] = t[k]
  BY ListsJoined DEF IsCells
<1>2. /\ Len(s) \in Nat /\ DOMAIN s = 1 .. Len(s)
      /\ Len(t) \in Nat /\ DOMAIN t = 1 .. Len(t)
  BY ListFacts DEF IsCells
<1> HIDE DEF st
<1>3. DOMAIN st = 1 .. Len(s) + Len(t)
  BY <1>1, ListFacts
<1>4. ASSUME NEW k \in DOMAIN st
      PROVE  IsCell(st[k])
  <2>1. CASE k <= Len(s)
    <3>1. k \in 1 .. Len(s)
      BY <1>2, <1>3, <2>1
    <3> QED
      BY <1>1, <1>2, <3>1 DEF IsCells
  <2>2. CASE ~ (k <= Len(s))
    <3> DEFINE j == k - Len(s)
    <3>1. j \in 1 .. Len(t) /\ k = Len(s) + j
      BY <1>2, <1>3, <2>2
    <3> HIDE DEF j
    <3>2. st[k] = t[j]
      BY <1>1, <3>1
    <3> QED
      BY <1>2, <3>1, <3>2 DEF IsCells
  <2> QED
    BY <2>1, <2>2
<1> QED
  BY <1>1, <1>4 DEF IsCells, st, AreJoined

\* The same for many lists.
AreFlattened(lists, all) ==
  /\ IsCells(all)
  /\ AreLists(lists)
  /\ Len(all) = Before(lists, Len(lists))
  /\ \A i \in 1 .. Len(lists) : \A k \in 1 .. Len(lists[i]) :
       all[Before(lists, i - 1) + k] = lists[i][k]

LEMMA CellsFlattened ==
  ASSUME NEW lists, IsList(lists), \A i \in DOMAIN lists : IsCells(lists[i])
  PROVE  AreFlattened(lists, FlattenSeq(lists))
<1> DEFINE flat == FlattenSeq(lists)
<1>1. AreLists(lists)
  BY DEF AreLists, IsCells
<1>2. /\ IsList(flat)
      /\ Len(flat) = Before(lists, Len(lists))
      /\ \A i \in 1 .. Len(lists) : \A k \in 1 .. Len(lists[i]) :
           flat[Before(lists, i - 1) + k] = lists[i][k]
      /\ \A k \in DOMAIN flat :
           \E i \in DOMAIN lists : \E j \in DOMAIN lists[i] : flat[k] = lists[i][j]
  BY <1>1, FlatPlaces
<1> HIDE DEF flat
<1>3. IsCells(flat)
  BY <1>2 DEF IsCells
<1> QED
  BY <1>1, <1>2, <1>3 DEF flat, AreFlattened

\* The cells of the fields of a type, and of the types.
Volume(a) == Noted(a, Strings)

FieldLists(a, m, i) ==
  [k \in DOMAIN Fields(m, i) |->
     FieldCells(Volume(a), Numbered(m), Numbered(m)[i], Fields(m, i)[k])]

TypeLists(a, m) ==
  [i \in DOMAIN Numbered(m) |-> TypeCells(Volume(a), Numbered(m), Numbered(m)[i])]

LEMMA FieldCellsFacts ==
  ASSUME NEW volume, NEW types, NEW d, NEW f
  PROVE  /\ IsCells(FieldCells(volume, types, d, f))
         /\ Len(FieldCells(volume, types, d, f)) = IF d.type = "enum" THEN 2 ELSE 6
<1> DEFINE cells == FieldCells(volume, types, d, f)
<1>1. \A v : IsCell(SizeCell(v)) /\ IsCell(U32Cell(v)) /\ IsCell(BoolCell(v))
  BY DEF IsCell, SizeCell, U32Cell, U8Cell, BoolCell
<1>2. CASE d.type = "enum"
  <2> DEFINE c1 == SizeCell(StringOffset(volume, f.name))
             c2 == SizeCell(f.value)
  <2>1. cells = << c1, c2 >>
    BY <1>2 DEF FieldCells
  <2>2. IsCell(c1) /\ IsCell(c2)
    BY <1>1
  <2> HIDE DEF cells, c1, c2
  <2>3. IsList(cells) /\ Len(cells) = 2
    BY <2>1, ShortLists
  <2>4. \A k \in DOMAIN cells : IsCell(cells[k])
    BY <2>1, <2>2
  <2> QED
    BY <1>2, <2>3, <2>4 DEF IsCells, cells
<1>3. CASE d.type # "enum"
  <2> DEFINE c1 == SizeCell(StringOffset(volume, f.name))
             c2 == BoolCell(f.const)
             c3 == U32Cell(f.pdepth)
             c4 == SizeCell(f.offset)
             c5 == SizeCell(f.arrsize)
             c6 == SizeCell(RefId(types, f.type))
  <2>1. cells = << c1, c2, c3, c4, c5, c6 >>
    BY <1>3 DEF FieldCells
  <2>2. IsCell(c1) /\ IsCell(c2) /\ IsCell(c3) /\ IsCell(c4) /\ IsCell(c5) /\ IsCell(c6)
    BY <1>1
  <2> HIDE DEF cells, c1, c2, c3, c4, c5, c6
  <2>3. IsList(cells) /\ Len(cells) = 6
    BY <2>1, ShortLists
  <2>4. \A k \in DOMAIN cells : IsCell(cells[k])
    BY <2>1, <2>2
  <2> QED
    BY <1>3, <2>3, <2>4 DEF IsCells, cells
<1> QED
  BY <1>2, <1>3

LEMMA FieldListsFacts ==
  ASSUME NEW a, NEW m \in TypeMaps, NEW i \in 1 .. Len(m), Numbered(m)[i].type # "base"
  PROVE  /\ AreLists(FieldLists(a, m, i)) /\ Len(FieldLists(a, m, i)) = Len(Fields(m, i))
         /\ AreFlattened(FieldLists(a, m, i), FlattenSeq(FieldLists(a, m, i)))
         /\ \A k \in 1 .. Len(Fields(m, i)) :
              /\ FieldLists(a, m, i)[k] =
                   FieldCells(Volume(a), Numbered(m), Numbered(m)[i], Fields(m, i)[k])
              /\ Len(FieldLists(a, m, i)[k]) = IF Numbered(m)[i].type = "enum" THEN 2 ELSE 6
<1> DEFINE lists == FieldLists(a, m, i)
           n == Len(Fields(m, i))
<1>1. n \in Nat /\ DOMAIN Fields(m, i) = 1 .. n
  BY FieldFacts, ListFacts
<1>2. lists = [k \in 1 .. n |-> FieldCells(Volume(a), Numbered(m), Numbered(m)[i], Fields(m, i)[k])]
  BY <1>1 DEF FieldLists
<1>3. IsList(lists) /\ Len(lists) = n /\ DOMAIN lists = 1 .. n
  <2>1. lists = [k \in 1 .. n |-> lists[k]]
    BY <1>2
  <2> HIDE DEF lists, n
  <2> QED
    BY <1>1, <2>1, FunctionsAreLists
<1>4. ASSUME NEW k \in 1 .. n
      PROVE  /\ lists[k] = FieldCells(Volume(a), Numbered(m), Numbered(m)[i], Fields(m, i)[k])
             /\ IsCells(lists[k])
             /\ Len(lists[k]) = IF Numbered(m)[i].type = "enum" THEN 2 ELSE 6
  <2> DEFINE cells == FieldCells(Volume(a), Numbered(m), Numbered(m)[i], Fields(m, i)[k])
  <2>1. IsCells(cells)
    BY FieldCellsFacts
  <2>2. Len(cells) = IF Numbered(m)[i].type = "enum" THEN 2 ELSE 6
    BY FieldCellsFacts
  <2>3. lists[k] = cells
    BY <1>2
  <2> HIDE DEF cells, lists
  <2> QED
    BY <2>1, <2>2, <2>3 DEF cells
<1> HIDE DEF lists, n
<1>5. AreFlattened(lists, FlattenSeq(lists))
  BY <1>3, <1>4, CellsFlattened
<1>6. AreLists(lists)
  BY <1>5 DEF AreFlattened
<1> QED
  BY <1>3, <1>4, <1>5, <1>6 DEF lists, n

\* The aliases of a type.
LEMMA AliasCellsFacts ==
  ASSUME NEW volume, NEW d, IsList(d.aliases)
  PROVE  /\ IsCells(AliasCells(volume, d))
         /\ Len(AliasCells(volume, d)) = 1 + Len(d.aliases)
         /\ AliasCells(volume, d)[1] = SizeCell(Len(d.aliases))
         /\ \A k \in 1 .. Len(d.aliases) :
              AliasCells(volume, d)[1 + k] = SizeCell(StringOffset(volume, d.aliases[k]))
<1> DEFINE n == Len(d.aliases)
           count == << SizeCell(n) >>
           names == [k \in DOMAIN d.aliases |-> SizeCell(StringOffset(volume, d.aliases[k]))]
<1>1. n \in Nat /\ DOMAIN d.aliases = 1 .. n
  BY ListFacts
<1>2. \A v : IsCell(SizeCell(v))
  BY DEF IsCell, SizeCell
<1>3. IsCells(count) /\ Len(count) = 1 /\ count[1] = SizeCell(n)
  <2> DEFINE c == SizeCell(n)
  <2> HIDE DEF c
  <2>1. IsList(<< c >>) /\ Len(<< c >>) = 1 /\ << c >>[1] = c /\ DOMAIN << c >> = 1 .. 1
    BY ShortLists
  <2>2. IsCell(c)
    BY <1>2 DEF c
  <2>3. IsCells(<< c >>)
    BY <2>1, <2>2 DEF IsCells
  <2> QED
    BY <2>1, <2>3 DEF c
<1>4. /\ IsCells(names) /\ Len(names) = n
      /\ \A k \in 1 .. n : names[k] = SizeCell(StringOffset(volume, d.aliases[k]))
  <2>1. \A k \in 1 .. n : names[k] = SizeCell(StringOffset(volume, d.aliases[k])) /\ IsCell(names[k])
    BY <1>1, <1>2
  <2>2. names = [k \in 1 .. n |-> names[k]]
    BY <1>1
  <2> HIDE DEF names
  <2>3. IsList(names) /\ Len(names) = n /\ DOMAIN names = 1 .. n
    BY <1>1, <2>2, FunctionsAreLists
  <2> QED
    BY <2>1, <2>3 DEF IsCells
<1>5. AliasCells(volume, d) = count \o names
  BY DEF AliasCells
<1> HIDE DEF count, names
<1> DEFINE all == count \o names
<1>6. AreJoined(count, names, all)
  BY <1>3, <1>4, CellsJoined
<1>7. AliasCells(volume, d) = all
  BY <1>5
<1> HIDE DEF all
<1>8. /\ IsCells(all)
      /\ Len(all) = 1 + n
      /\ \A k \in 1 .. 1 : all[k] = count[k]
      /\ \A k \in 1 .. n : all[1 + k] = names[k]
  BY <1>3, <1>4, <1>6 DEF AreJoined
<1>9. all[1] = SizeCell(n)
  BY <1>3, <1>8
<1> QED
  BY <1>4, <1>7, <1>8, <1>9

\* The cells of a type: the head; unless it is a base type, the number of
\* fields, the fields, the number of aliases and the aliases.
IsHead(a, m, i, list) ==
  /\ list[1] = SizeCell(i)
  /\ list[2] = U8Cell(object_types[Numbered(m)[i].type])
  /\ list[3] = SizeCell(StringOffset(Volume(a), Numbered(m)[i].name))
  /\ list[4] = SizeCell(Numbered(m)[i].size)

HasFields(a, m, i, list) ==
  LET all == Before(FieldLists(a, m, i), Len(Fields(m, i)))
      aliases == Numbered(m)[i].aliases
  IN  /\ Len(list) = (5 + all) + (1 + Len(aliases))
      /\ list[5] = SizeCell(Len(Fields(m, i)))
      /\ \A k \in 1 .. Len(Fields(m, i)) : \A j \in 1 .. Len(FieldLists(a, m, i)[k]) :
           list[5 + (Before(FieldLists(a, m, i), k - 1) + j)] = FieldLists(a, m, i)[k][j]
      /\ list[(5 + all) + 1] = SizeCell(Len(aliases))
      /\ \A k \in 1 .. Len(aliases) :
           list[(5 + all) + (1 + k)] = SizeCell(StringOffset(Volume(a), aliases[k]))

LEMMA TypeCellsFacts ==
  ASSUME NEW a, NEW m \in TypeMaps, NEW i \in 1 .. Len(m)
  PROVE  /\ IsCells(TypeLists(a, m)[i])
         /\ IsHead(a, m, i, TypeLists(a, m)[i])
         /\ Numbered(m)[i].type = "base" => Len(TypeLists(a, m)[i]) = 4
         /\ Numbered(m)[i].type # "base" => HasFields(a, m, i, TypeLists(a, m)[i])
<1> DEFINE d == Numbered(m)[i]
           volume == Volume(a)
           c1 == SizeCell(d.id)
           c2 == U8Cell(object_types[d.type])
           c3 == SizeCell(StringOffset(volume, d.name))
           c4 == SizeCell(d.size)
           head == HeadCells(volume, d)
           cells == TypeLists(a, m)[i]
<1>1. head = << c1, c2, c3, c4 >>
  BY DEF HeadCells
<1>2. IsCell(c1) /\ IsCell(c2) /\ IsCell(c3) /\ IsCell(c4)
  BY DEF IsCell, SizeCell, U8Cell
<1>3. cells = TypeCells(volume, Numbered(m), d)
  BY NumberedFacts DEF TypeLists
<1>4. d.id = i
  BY TypeFacts
<1> HIDE DEF c1, c2, c3, c4, head
<1>5. /\ IsCells(head) /\ Len(head) = 4
      /\ head[1] = c1 /\ head[2] = c2 /\ head[3] = c3 /\ head[4] = c4
  <2>1. IsList(head) /\ Len(head) = 4
    BY <1>1, ShortLists
  <2>2. \A k \in DOMAIN head : IsCell(head[k])
    BY <1>1, <1>2
  <2> QED
    BY <1>1, <2>1, <2>2 DEF IsCells
<1> DEFINE n == Len(Fields(m, i))
           all == Before(FieldLists(a, m, i), n)
           aliases == d.aliases
<1>6. CASE d.type = "base"
  <2>1. cells = head
    BY <1>3, <1>6 DEF TypeCells, head
  <2>2. IsHead(a, m, i, cells)
    BY <1>4, <1>5, <2>1 DEF c1, c2, c3, c4, IsHead
  <2> QED
    BY <1>5, <1>6, <2>1, <2>2
<1>7. CASE d.type # "base"
  <2> DEFINE count == << SizeCell(n) >>
             fields == FlattenSeq(FieldLists(a, m, i))
             names == AliasCells(volume, d)
  <2>1. IsCells(count) /\ Len(count) = 1 /\ count[1] = SizeCell(n)
    <3> DEFINE c == SizeCell(n)
    <3>1. IsCell(c)
      BY DEF IsCell, SizeCell
    <3> HIDE DEF c
    <3>2. IsList(<< c >>) /\ Len(<< c >>) = 1 /\ << c >>[1] = c /\ DOMAIN << c >> = 1 .. 1
      BY ShortLists
    <3>3. IsCells(<< c >>)
      BY <3>1, <3>2 DEF IsCells
    <3> QED
      BY <3>2, <3>3 DEF c
  <2>2. /\ IsCells(fields) /\ Len(fields) = all
        /\ \A k \in 1 .. n : \A j \in 1 .. Len(FieldLists(a, m, i)[k]) :
             fields[Before(FieldLists(a, m, i), k - 1) + j] = FieldLists(a, m, i)[k][j]
    <3>1. AreFlattened(FieldLists(a, m, i), fields)
      BY <1>7, FieldListsFacts
    <3>2. Len(FieldLists(a, m, i)) = n
      BY <1>7, FieldListsFacts
    <3> HIDE DEF fields, n
    <3> QED
      BY <3>1, <3>2 DEF AreFlattened
  <2>3. /\ IsCells(names) /\ Len(names) = 1 + Len(aliases)
        /\ names[1] = SizeCell(Len(aliases))
        /\ \A k \in 1 .. Len(aliases) : names[1 + k] = SizeCell(StringOffset(volume, aliases[k]))
    <3>1. IsList(d.aliases)
      BY <1>7, TypeFacts
    <3> HIDE DEF d, volume
    <3>2. IsCells(names)
      BY <3>1, AliasCellsFacts
    <3>3. Len(names) = 1 + Len(aliases)
      BY <3>1, AliasCellsFacts
    <3>4. names[1] = SizeCell(Len(aliases))
      BY <3>1, AliasCellsFacts
    <3>5. \A k \in 1 .. Len(aliases) : names[1 + k] = SizeCell(StringOffset(volume, aliases[k]))
      BY <3>1, AliasCellsFacts
    <3> QED
      BY <3>2, <3>3, <3>4, <3>5
  <2>4. cells = ((head \o count) \o fields) \o names
    <3>1. AllFieldCells(volume, Numbered(m), d) = fields
      BY DEF AllFieldCells, FieldLists, Fields
    <3>2. CountCells(Numbered(m), d) = count
      BY DEF CountCells, Fields
    <3> QED
      BY <1>3, <1>7, <3>1, <3>2 DEF TypeCells, head
  <2>5. all \in Nat /\ Len(aliases) \in Nat /\ n \in Nat
    <3>1. n \in Nat
      BY <1>7, FieldFacts
    <3>2. AreLists(FieldLists(a, m, i))
      BY <1>7, FieldListsFacts
    <3>3. Len(FieldLists(a, m, i)) = n
      BY <1>7, FieldListsFacts
    <3>4. n \in 0 .. Len(FieldLists(a, m, i))
      BY <3>1, <3>3
    <3>5. all \in Nat
      BY <3>2, <3>4, BeforeGrows
    <3>6. IsList(aliases)
      BY <1>7, TypeFacts
    <3> QED
      BY <3>1, <3>5, <3>6, ListFacts
  <2>6. \A k \in 1 .. n : \A j \in 1 .. Len(FieldLists(a, m, i)[k]) :
          Before(FieldLists(a, m, i), k - 1) + j \in 1 .. all
    <3> SUFFICES ASSUME NEW k \in 1 .. n, NEW j \in 1 .. Len(FieldLists(a, m, i)[k])
                 PROVE  Before(FieldLists(a, m, i), k - 1) + j \in 1 .. all
      OBVIOUS
    <3> DEFINE lists == FieldLists(a, m, i)
    <3>0. AreLists(lists)
      BY <1>7, FieldListsFacts
    <3>1. AreLists(lists) /\ Len(lists) = n
      BY <1>7, <3>0, FieldListsFacts
    <3>2. k - 1 \in 0 .. n /\ k \in 0 .. n /\ n \in 0 .. n
      BY <2>5
    <3> HIDE DEF lists, n
    <3>3. /\ Before(lists, k) = Before(lists, k - 1) + Len(lists[k])
          /\ Before(lists, k - 1) \in Nat
          /\ Before(lists, k) \in Nat
      BY <3>1, <3>2, BeforeGrows
    <3>4. Before(lists, k) <= Before(lists, n)
      BY <3>1, <3>2, BeforeAscends
    <3>5. Len(lists[k]) \in Nat
      BY <1>7, FieldListsFacts DEF lists, n
    <3>6. all = Before(lists, n)
      BY DEF lists
    <3>7. j \in 1 .. Len(lists[k])
      BY DEF lists
    <3> HIDE DEF all
    <3>8. Before(lists, k - 1) + j \in 1 .. all
      BY <2>5, <3>3, <3>4, <3>5, <3>6, <3>7, SMTT(30)
    <3> QED
      BY <3>8 DEF lists
  <2> HIDE DEF count, fields, names, all, aliases, n, cells
  <2> DEFINE s == head \o count
             t == s \o fields
  <2>21. AreJoined(head, count, s)
    BY <1>5, <2>1, CellsJoined
  <2> HIDE DEF s
  <2>7. /\ IsCells(s) /\ Len(s) = 5
        /\ \A k \in 1 .. 4 : s[k] = head[k]
        /\ \A k \in 1 .. 1 : s[4 + k] = count[k]
    BY <1>5, <2>1, <2>21 DEF AreJoined
  <2>8. s[5] = SizeCell(n)
    <3>1. 1 \in 1 .. 1
      OBVIOUS
    <3>2. s[4 + 1] = count[1]
      BY <2>7, <3>1
    <3> QED
      BY <2>1, <3>2
  <2>22. AreJoined(s, fields, t)
    BY <2>2, <2>7, CellsJoined
  <2> HIDE DEF t
  <2>9. /\ IsCells(t) /\ Len(t) = 5 + all
        /\ \A k \in 1 .. 5 : t[k] = s[k]
        /\ \A k \in 1 .. all : t[5 + k] = fields[k]
    BY <2>2, <2>7, <2>22 DEF AreJoined
  <2>10. cells = t \o names
    BY <2>4 DEF s, t
  <2>23. AreJoined(t, names, cells)
    BY <2>3, <2>9, <2>10, CellsJoined
  <2>11. /\ IsCells(cells) /\ Len(cells) = (5 + all) + (1 + Len(aliases))
         /\ \A k \in 1 .. 5 + all : cells[k] = t[k]
         /\ \A k \in 1 .. 1 + Len(aliases) : cells[(5 + all) + k] = names[k]
    BY <2>3, <2>9, <2>23 DEF AreJoined
  <2>12. \A k \in 1 .. 5 : cells[k] = s[k]
    BY <2>5, <2>9, <2>11
  <2>13. \A k \in 1 .. 4 : cells[k] = head[k]
    BY <2>7, <2>12
  <2>14. cells[1] = c1 /\ cells[2] = c2 /\ cells[3] = c3 /\ cells[4] = c4
    BY <1>5, <2>13
  <2>15. cells[5] = SizeCell(n)
    BY <2>8, <2>12
  <2>16. \A k \in 1 .. all : cells[5 + k] = fields[k]
    BY <2>5, <2>9, <2>11
  <2>17. ASSUME NEW k \in 1 .. n, NEW j \in 1 .. Len(FieldLists(a, m, i)[k])
         PROVE  cells[5 + (Before(FieldLists(a, m, i), k - 1) + j)] = FieldLists(a, m, i)[k][j]
    <3> DEFINE p == Before(FieldLists(a, m, i), k - 1) + j
    <3>1. p \in 1 .. all /\ fields[p] = FieldLists(a, m, i)[k][j]
      BY <2>2, <2>6
    <3> HIDE DEF p
    <3>2. cells[5 + p] = fields[p]
      BY <2>16, <3>1
    <3> QED
      BY <3>1, <3>2 DEF p
  <2>18. cells[(5 + all) + 1] = SizeCell(Len(aliases))
    <3>1. 1 \in 1 .. 1 + Len(aliases)
      BY <2>5
    <3> QED
      BY <2>3, <2>11, <3>1
  <2>19. ASSUME NEW k \in 1 .. Len(aliases)
         PROVE  cells[(5 + all) + (1 + k)] = SizeCell(StringOffset(volume, aliases[k]))
    <3>1. 1 + k \in 1 .. 1 + Len(aliases)
      BY <2>5
    <3> QED
      BY <2>3, <2>11, <3>1
  <2> USE DEF cells, all, aliases, n
  <2>20. HasFields(a, m, i, cells)
    BY <2>11, <2>15, <2>17, <2>18, <2>19 DEF HasFields
  <2>24. IsHead(a, m, i, cells)
    BY <1>4, <2>14 DEF c1, c2, c3, c4, IsHead
  <2> QED
    BY <1>7, <2>11, <2>20, <2>24
<1> QED
  BY <1>6, <1>7

\* The cells of the file of a map, and the number of them before those of the
\* type after the i-th.
Cells(a, m) == FileCells(a, Volume(a), m)

TypePlace(a, m, i) == (3 + Len(Strings)) + Before(TypeLists(a, m), i)

LEMMA TypePlaces ==
  ASSUME NEW a, NEW m \in TypeMaps
  PROVE  /\ TypePlace(a, m, 0) = 3 + Len(Strings)
         /\ \A i \in 0 .. Len(m) : TypePlace(a, m, i) \in Nat
         /\ \A i \in 1 .. Len(m) :
              TypePlace(a, m, i) = TypePlace(a, m, i - 1) + Len(TypeLists(a, m)[i])
         /\ AreFlattened(TypeLists(a, m), FlattenSeq(TypeLists(a, m)))
         /\ Len(TypeLists(a, m)) = Len(m)
<1> DEFINE lists == TypeLists(a, m)
<1>1. DOMAIN Numbered(m) = 1 .. Len(m) /\ Len(m) \in Nat
  BY NumberedFacts, MapFacts
<1>2. IsList(lists) /\ Len(lists) = Len(m) /\ DOMAIN lists = 1 .. Len(m)
  <2>1. lists = [i \in 1 .. Len(m) |-> lists[i]]
    BY <1>1 DEF TypeLists
  <2> HIDE DEF lists
  <2> QED
    BY <1>1, <2>1, FunctionsAreLists
<1>3. \A i \in DOMAIN lists : IsCells(lists[i])
  BY <1>2, TypeCellsFacts
<1> HIDE DEF lists
<1>4. AreFlattened(lists, FlattenSeq(lists))
  BY <1>2, <1>3, CellsFlattened
<1>5. AreLists(lists)
  BY <1>4 DEF AreFlattened
<1>6. /\ Before(lists, 0) = 0
      /\ \A i \in 0 .. Len(m) : Before(lists, i) \in Nat
      /\ \A i \in 1 .. Len(m) : Before(lists, i) = Before(lists, i - 1) + Len(lists[i])
  BY <1>2, <1>5, BeforeGrows
<1>7. Len(Strings) \in Nat
  BY StringFacts
<1>8. \A i : TypePlace(a, m, i) = (3 + Len(Strings)) + Before(lists, i)
  BY DEF TypePlace, lists
<1>9. \A i \in 1 .. Len(m) : i \in 0 .. Len(m) /\ i - 1 \in 0 .. Len(m) /\ Len(lists[i]) \in Nat
  BY <1>1, <1>2, <1>3, ListFacts DEF IsCells
<1>10. TypePlace(a, m, 0) = 3 + Len(Strings)
  BY <1>6, <1>7, <1>8
<1>11. \A i \in 0 .. Len(m) : TypePlace(a, m, i) \in Nat
  BY <1>6, <1>7, <1>8
<1>12. \A i \in 1 .. Len(m) : TypePlace(a, m, i) = TypePlace(a, m, i - 1) + Len(lists[i])
  BY <1>6, <1>7, <1>8, <1>9, SMTT(30)
<1> QED
  BY <1>2, <1>4, <1>10, <1>11, <1>12 DEF lists

\* The header, the strings, the number of types, and the types.
IsLaidOut(a, m, cells) ==
  /\ IsCells(cells)
  /\ cells[1] = SizeCell(a * 2)
  /\ cells[2] = SizeCell(a * 2 + Bytes(a, StringCells(Strings)))
  /\ \A k \in 1 .. Len(Strings) : cells[2 + k] = [kind |-> "str", val |-> Strings[k]]
  /\ cells[3 + Len(Strings)] = SizeCell(Len(m))
  /\ Len(cells) = TypePlace(a, m, Len(m))
  /\ \A i \in 1 .. Len(m) : \A k \in 1 .. Len(TypeLists(a, m)[i]) :
       cells[TypePlace(a, m, i - 1) + k] = TypeLists(a, m)[i][k]

LEMMA FileLayout ==
  ASSUME NEW a, NEW m \in TypeMaps
  PROVE  IsLaidOut(a, m, Cells(a, m))
<1> DEFINE ns == Len(Strings)
           c1 == SizeCell(a * 2)
           c2 == SizeCell(a * 2 + Bytes(a, StringCells(Strings)))
           c3 == SizeCell(Len(m))
           header == << c1, c2 >>
           strings == StringCells(Strings)
           count == << c3 >>
           flat == FlattenSeq(TypeLists(a, m))
           table == count \o flat
           start == header \o strings
           cells == start \o table
<1>1. ns \in Nat /\ DOMAIN Strings = 1 .. ns /\ IsList(Strings)
      /\ \A k \in 1 .. ns : Strings[k] \in DOMAIN NameLen
  BY StringFacts
<1>2. Cells(a, m) = cells
  <2>1. StringsOf(Volume(a)) = Strings
    <3>1. StringsOf(Volume(a)) = [k \in 1 .. ns |-> Strings[k]]
      BY <1>1 DEF StringsOf, Volume, Noted
    <3>2. Strings = [k \in 1 .. ns |-> Strings[k]]
      BY <1>1 DEF IsList
    <3> QED
      BY <3>1, <3>2
  <2>2. TableCells(Volume(a), Numbered(m)) = table
    <3>1. Len(Numbered(m)) = Len(m)
      BY NumberedFacts
    <3> QED
      BY <3>1 DEF TableCells, TypeLists
  <2> QED
    BY <2>1, <2>2 DEF Cells, FileCells
<1>3. IsCell(c1) /\ IsCell(c2) /\ IsCell(c3)
  BY DEF IsCell, SizeCell
<1> HIDE DEF c1, c2, c3
<1>4. IsCells(header) /\ Len(header) = 2 /\ header[1] = c1 /\ header[2] = c2
  <2>1. IsList(header) /\ Len(header) = 2 /\ DOMAIN header = 1 .. 2
    BY ShortLists
  <2> QED
    BY <1>3, <2>1 DEF IsCells
<1>5. IsCells(count) /\ Len(count) = 1 /\ count[1] = c3
  <2>1. IsList(count) /\ Len(count) = 1 /\ DOMAIN count = 1 .. 1
    BY ShortLists
  <2> QED
    BY <1>3, <2>1 DEF IsCells
<1>6. /\ IsCells(strings) /\ Len(strings) = ns
      /\ \A k \in 1 .. ns : strings[k] = [kind |-> "str", val |-> Strings[k]]
  <2>1. \A k \in 1 .. ns : /\ strings[k] = [kind |-> "str", val |-> Strings[k]]
                           /\ IsCell(strings[k])
    BY <1>1 DEF StringCells, IsCell
  <2>2. strings = [k \in 1 .. ns |-> strings[k]]
    BY <1>1 DEF StringCells
  <2> HIDE DEF strings, ns
  <2>3. IsList(strings) /\ Len(strings) = ns /\ DOMAIN strings = 1 .. ns
    BY <1>1, <2>2, FunctionsAreLists
  <2> QED
    BY <2>1, <2>3 DEF IsCells
<1>7. AreFlattened(TypeLists(a, m), flat)
  BY TypePlaces
<1>8. /\ IsCells(flat)
      /\ Len(flat) = Before(TypeLists(a, m), Len(m))
      /\ \A i \in 1 .. Len(m) : \A k \in 1 .. Len(TypeLists(a, m)[i]) :
           flat[Before(TypeLists(a, m), i - 1) + k] = TypeLists(a, m)[i][k]
  <2>1. Len(TypeLists(a, m)) = Len(m)
    BY TypePlaces
  <2> HIDE DEF flat
  <2> QED
    BY <1>7, <2>1 DEF AreFlattened
<1> HIDE DEF header, strings, count, flat
<1>9. AreJoined(count, flat, table)
  BY <1>5, <1>8, CellsJoined
<1> HIDE DEF table
<1>10. /\ IsCells(table) /\ Len(table) = 1 + Len(flat)
       /\ \A k \in 1 .. 1 : table[k] = count[k]
       /\ \A k \in 1 .. Len(flat) : table[1 + k] = flat[k]
  BY <1>5, <1>9 DEF AreJoined
<1>11. AreJoined(header, strings, start)
  BY <1>4, <1>6, CellsJoined
<1> HIDE DEF start
<1>12. /\ IsCells(start) /\ Len(start) = 2 + ns
       /\ \A k \in 1 .. 2 : start[k] = header[k]
       /\ \A k \in 1 .. ns : start[2 + k] = strings[k]
  BY <1>4, <1>6, <1>11 DEF AreJoined
<1>13. AreJoined(start, table, cells)
  BY <1>10, <1>12, CellsJoined
<1> HIDE DEF cells, ns
<1>14. /\ IsCells(cells) /\ Len(cells) = (2 + ns) + (1 + Len(flat))
       /\ \A k \in 1 .. 2 + ns : cells[k] = start[k]
       /\ \A k \in 1 .. 1 + Len(flat) : cells[(2 + ns) + k] = table[k]
  BY <1>10, <1>12, <1>13 DEF AreJoined
<1>15. Len(flat) \in Nat /\ DOMAIN flat = 1 .. Len(flat)
  BY <1>8, ListFacts DEF IsCells
<1>16. cells[1] = c1
  <2>1. cells[1] = start[1] /\ start[1] = header[1]
    BY <1>1, <1>12, <1>14
  <2> QED
    BY <1>4, <2>1
<1>17. cells[2] = c2
  <2>1. cells[2] = start[2] /\ start[2] = header[2]
    BY <1>1, <1>12, <1>14
  <2> QED
    BY <1>4, <2>1
<1>18. ASSUME NEW k \in 1 .. ns
       PROVE  cells[2 + k] = [kind |-> "str", val |-> Strings[k]]
  <2>1. 2 + k \in 1 .. 2 + ns
    BY <1>1
  <2>2. cells[2 + k] = start[2 + k] /\ start[2 + k] = strings[k]
    BY <1>12, <1>14, <2>1
  <2> QED
    BY <1>6, <2>2
<1>19. cells[3 + ns] = c3
  <2>1. 1 \in 1 .. 1 + Len(flat) /\ 1 \in 1 .. 1 /\ (2 + ns) + 1 = 3 + ns
    BY <1>1, <1>15
  <2>2. cells[(2 + ns) + 1] = table[1] /\ table[1] = count[1]
    BY <1>10, <1>14, <2>1
  <2> QED
    BY <1>5, <2>1, <2>2
<1>20. Len(cells) = TypePlace(a, m, Len(m))
  BY <1>1, <1>8, <1>14, <1>15 DEF TypePlace, ns
<1>21. ASSUME NEW i \in 1 .. Len(m), NEW k \in 1 .. Len(TypeLists(a, m)[i])
       PROVE  cells[TypePlace(a, m, i - 1) + k] = TypeLists(a, m)[i][k]
  <2> DEFINE lists == TypeLists(a, m)
             p == Before(lists, i - 1) + k
  <2>1. flat[p] = lists[i][k]
    BY <1>8
  <2>2. p \in 1 .. Len(flat) /\ Before(lists, i - 1) \in Nat
    <3>1. AreLists(lists)
      BY <1>7 DEF AreFlattened
    <3>2. Len(lists) = Len(m) /\ Len(m) \in Nat
      BY TypePlaces, MapFacts
    <3> HIDE DEF lists
    <3>3. i \in 0 .. Len(m) /\ i - 1 \in 0 .. Len(m) /\ Len(m) \in 0 .. Len(m)
      BY <3>2
    <3>4. /\ Before(lists, i) = Before(lists, i - 1) + Len(lists[i])
          /\ Before(lists, i - 1) \in Nat
          /\ Before(lists, i) \in Nat
      BY <3>1, <3>2, <3>3, BeforeGrows
    <3>5. Before(lists, i) <= Before(lists, Len(m))
      BY <3>1, <3>2, <3>3, BeforeAscends
    <3>6. Len(lists[i]) \in Nat
      BY <3>1, <3>2, ListFacts DEF AreLists
    <3>7. Len(flat) = Before(lists, Len(m)) /\ k \in 1 .. Len(lists[i])
      BY <1>8 DEF lists
    <3> QED
      BY <1>15, <3>4, <3>5, <3>6, <3>7
  <2>3. TypePlace(a, m, i - 1) + k = (2 + ns) + (1 + p)
    BY <1>1, <2>2 DEF TypePlace, ns
  <2> HIDE DEF p
  <2>4. 1 + p \in 1 .. 1 + Len(flat)
    BY <1>15, <2>2
  <2>5. cells[(2 + ns) + (1 + p)] = table[1 + p] /\ table[1 + p] = flat[p]
    BY <1>10, <1>14, <2>2, <2>4
  <2> QED
    BY <2>1, <2>3, <2>5
<1>22. IsLaidOut(a, m, cells)
  BY <1>14, <1>16, <1>17, <1>18, <1>19, <1>20, <1>21 DEF IsLaidOut, ns, c1, c2, c3
<1> QED
  BY <1>2, <1>22
-----------------------------------------------------------------------------
\* Strings in a file.

\* The first k strings end where the cells of the header and theirs do.
LEMMA StringBytes ==
  ASSUME NEW a \in {4, 8}, NEW m \in TypeMaps, NEW k \in 0 .. Len(Strings),
         NEW s, Len(s) = k, DOMAIN s = 1 .. k, \A j \in 1 .. k : s[j] = Strings[j]
  PROVE  a * 2 + Bytes(a, StringCells(s)) = Place(a, Cells(a, m), 2 + k)
<1> DEFINE ns == Len(Strings)
           cells == Cells(a, m)
           scells == StringCells(s)
           place(j) == Place(a, cells, j)
           f == [j \in 0 .. k |-> place(2 + j) - place(2)]
<1>1. IsLaidOut(a, m, cells)
  BY FileLayout
<1>2. ns \in Nat /\ k \in Nat
  BY StringFacts
<1>3. TypePlace(a, m, Len(m)) \in Nat /\ TypePlace(a, m, Len(m)) >= 3 + ns
  <2>1. Len(m) \in Nat
    BY MapFacts
  <2>2. AreLists(TypeLists(a, m)) /\ Len(TypeLists(a, m)) = Len(m)
    BY TypePlaces DEF AreFlattened
  <2>3. Before(TypeLists(a, m), Len(m)) \in Nat
    BY <2>1, <2>2, BeforeGrows
  <2> QED
    BY <1>2, <2>3 DEF TypePlace
<1>4. IsCells(cells) /\ Len(cells) \in Nat /\ Len(cells) >= 3 + ns
  BY <1>1, <1>3 DEF IsLaidOut
<1>5. cells[1].kind = "size" /\ cells[2].kind = "size"
      /\ \A j \in 1 .. ns : cells[2 + j] = [kind |-> "str", val |-> Strings[j]]
  BY <1>1 DEF IsLaidOut, SizeCell
<1> HIDE DEF cells
<1>6. /\ place(0) = 0
      /\ \A j \in 0 .. Len(cells) : place(j) \in Nat
      /\ \A j \in 1 .. Len(cells) : place(j) = place(j - 1) + Width(a, cells[j])
  BY <1>4, PlaceGrows
<1>7. place(2) = a * 2
  <2>1. Width(a, cells[1]) = a /\ Width(a, cells[2]) = a
    BY <1>5 DEF Width
  <2>2. 1 \in 1 .. Len(cells) /\ 2 \in 1 .. Len(cells)
    BY <1>2, <1>4
  <2> HIDE DEF place
  <2>3. place(1) = place(1 - 1) + a /\ place(2) = place(2 - 1) + a
    BY <1>6, <2>1, <2>2
  <2>4. 1 - 1 = 0 /\ 2 - 1 = 1
    OBVIOUS
  <2> QED
    BY <1>6, <2>3, <2>4
<1>8. Len(scells) = k
  <2>1. scells = [j \in 1 .. k |-> scells[j]]
    BY DEF StringCells
  <2> HIDE DEF scells
  <2> QED
    BY <1>2, <2>1, FunctionsAreLists
<1>9. ASSUME NEW j \in 1 .. k
      PROVE  f[j] = f[j - 1] + Width(a, scells[j])
  <2>1. scells[j] = cells[2 + j]
    BY <1>2, <1>5 DEF StringCells
  <2>2. 2 + j \in 1 .. Len(cells) /\ (2 + j) - 1 = 2 + (j - 1)
    BY <1>2, <1>4
  <2> HIDE DEF place, scells
  <2>3. place(2 + j) = place(2 + (j - 1)) + Width(a, cells[2 + j])
    BY <1>6, <2>2
  <2>4. f[j] = place(2 + j) - place(2) /\ f[j - 1] = place(2 + (j - 1)) - place(2)
    BY <1>2
  <2>5. Width(a, cells[2 + j]) \in Nat
    BY <1>4, <2>2, CellsHaveWidth, ListFacts DEF IsCells
  <2>6. 2 + (j - 1) \in 0 .. Len(cells) /\ 2 \in 0 .. Len(cells)
    BY <1>2, <1>4
  <2>7. place(2) \in Nat /\ place(2 + (j - 1)) \in Nat
    BY <1>6, <2>6
  <2> HIDE DEF f
  <2> QED
    BY <2>1, <2>3, <2>4, <2>5, <2>7
<1>10. f[0] = 0 /\ f[k] = place(2 + k) - place(2) /\ place(2 + k) \in Nat /\ place(2) \in Nat
  <2>1. 2 \in 0 .. Len(cells) /\ 2 + k \in 0 .. Len(cells)
    BY <1>2, <1>4
  <2> HIDE DEF place
  <2>2. place(2) \in Nat /\ place(2 + k) \in Nat
    BY <1>6, <2>1
  <2>3. f[0] = place(2 + 0) - place(2) /\ 2 + 0 = 2
    BY <1>2
  <2>4. f[k] = place(2 + k) - place(2)
    BY <1>2
  <2> QED
    BY <2>2, <2>3, <2>4
<1> HIDE DEF f, place, scells
<1>11. Bytes(a, scells) = f[k]
  BY <1>2, <1>8, <1>9, <1>10, BytesRun, SMTT(30)
<1>12. a * 2 + Bytes(a, scells) = place(2 + k)
  BY <1>7, <1>10, <1>11
<1> QED
  BY <1>12 DEF place, scells, cells

\* A string that was met is noted where it is in the file.
LEMMA StringPlace ==
  ASSUME NEW a \in {4, 8}, NEW m \in TypeMaps, NEW name, Met(name)
  PROVE  \E k \in 1 .. Len(Strings) :
           /\ Strings[k] = name
           /\ StringOffset(Volume(a), name) = Place(a, Cells(a, m), 1 + k)
<1> DEFINE ns == Len(Strings)
           volume == Volume(a)
           places == {k \in 1 .. ns : Strings[k] = name}
           k == Min(places)
           s == SubSeq(Strings, 1, k - 1)
<1>1. ns \in Nat /\ DOMAIN Strings = 1 .. ns /\ IsList(Strings)
  BY StringFacts
<1>2. IsList(volume) /\ Len(volume) = ns /\ DOMAIN volume = 1 .. ns
  <2>1. volume = [j \in 1 .. ns |-> volume[j]]
    BY <1>1 DEF Volume, Noted
  <2> HIDE DEF volume, ns
  <2> QED
    BY <1>1, <2>1, FunctionsAreLists
<1>3. \A j \in 1 .. ns : /\ volume[j].name = Strings[j]
                         /\ volume[j].offset =
                              a * 2 + Bytes(a, StringCells(SubSeq(Strings, 1, j - 1)))
  BY <1>1 DEF Volume, Noted
<1> HIDE DEF volume
<1>4. places # {} /\ places \subseteq 1 .. ns /\ \A j \in places : Strings[j] = name
  BY DEF Met
<1>5. SelectInSeq(volume, LAMBDA v : v.name = name) = k
  <2>1. {j \in 1 .. Len(volume) : volume[j].name = name} = places
    BY <1>2, <1>3
  <2> HIDE DEF places
  <2> QED
    BY <1>4, <2>1 DEF SelectInSeq
<1> HIDE DEF places
<1>6. k \in places
  <2>1. places \subseteq Nat
    BY <1>1, <1>4
  <2> QED
    BY <1>4, <2>1, LeastNumber
<1>7. k \in 1 .. ns /\ Strings[k] = name
  BY <1>4, <1>6
<1> HIDE DEF k
<1>8. k - 1 \in 0 .. ns /\ k - 1 \in Nat /\ 2 + (k - 1) = 1 + k
  BY <1>1, <1>7
<1>9. Len(s) = k - 1 /\ DOMAIN s = 1 .. k - 1 /\ \A j \in 1 .. k - 1 : s[j] = Strings[j]
  <2>1. s = [j \in 1 .. k - 1 |-> s[j]]
    BY <1>8
  <2>2. \A j \in 1 .. k - 1 : s[j] = Strings[j]
    BY <1>8
  <2> HIDE DEF s
  <2>3. Len(s) = k - 1 /\ DOMAIN s = 1 .. k - 1
    BY <1>8, <2>1, FunctionsAreLists
  <2> QED
    BY <2>2, <2>3
<1> HIDE DEF s
<1>10. a * 2 + Bytes(a, StringCells(s)) = Place(a, Cells(a, m), 2 + (k - 1))
  BY <1>8, <1>9, StringBytes
<1>11. StringOffset(volume, name) = volume[k].offset
  BY <1>5 DEF StringOffset
<1>12. volume[k].offset = a * 2 + Bytes(a, StringCells(s))
  BY <1>3, <1>7 DEF s
<1>13. StringOffset(Volume(a), name) = Place(a, Cells(a, m), 1 + k)
  BY <1>8, <1>10, <1>11, <1>12 DEF volume
<1> QED
  BY <1>7, <1>13

\* The file of a map.
File(a, m) == write_reflection_dat(a, Volume(a), m)

LEMMA FileHolds ==
  ASSUME NEW a \in {4, 8}, NEW m \in TypeMaps
  PROVE  /\ Holds(a, File(a, m), Cells(a, m))
         /\ DOMAIN File(a, m) = CellPlaces(a, Cells(a, m))
         /\ IsCells(Cells(a, m))
         /\ Len(Cells(a, m)) = TypePlace(a, m, Len(m))
         /\ Len(Cells(a, m)) \in Nat
         /\ DOMAIN Cells(a, m) = 1 .. Len(Cells(a, m))
         /\ Len(Cells(a, m)) >= 3 + Len(Strings)
<1>1. IsCells(Cells(a, m)) /\ Len(Cells(a, m)) = TypePlace(a, m, Len(m))
  BY FileLayout DEF IsLaidOut
<1>2. Len(Cells(a, m)) \in Nat /\ DOMAIN Cells(a, m) = 1 .. Len(Cells(a, m))
  BY <1>1, ListFacts DEF IsCells
<1>3. Len(m) \in Nat /\ Len(m) \in 0 .. Len(m) /\ 0 \in 0 .. Len(m)
  BY MapFacts
<1>4. AreLists(TypeLists(a, m)) /\ Len(TypeLists(a, m)) = Len(m)
  BY TypePlaces DEF AreFlattened
<1>5. Before(TypeLists(a, m), Len(m)) \in Nat
  BY <1>3, <1>4, BeforeGrows
<1>6. Len(Cells(a, m)) >= 3 + Len(Strings)
  BY <1>1, <1>5, StringFacts DEF TypePlace
<1>7. Holds(a, File(a, m), Cells(a, m))
  BY <1>1, FileHoldsCells DEF Cells, File
<1>8. DOMAIN File(a, m) = CellPlaces(a, Cells(a, m))
  BY <1>1, FileHoldsCells DEF Cells, File
<1> QED
  BY <1>1, <1>2, <1>6, <1>7, <1>8

\* A string that was met is read where it was noted.
LEMMA StringRead ==
  ASSUME NEW a \in {4, 8}, NEW m \in TypeMaps, NEW name, Met(name)
  PROVE  /\ read_c_string(File(a, m), StringOffset(Volume(a), name)) = name
         /\ StringOffset(Volume(a), name) \in Nat
<1>1. PICK k \in 1 .. Len(Strings) :
        /\ Strings[k] = name
        /\ StringOffset(Volume(a), name) = Place(a, Cells(a, m), 1 + k)
  BY StringPlace
<1>2. /\ Holds(a, File(a, m), Cells(a, m)) /\ IsCells(Cells(a, m))
      /\ Len(Cells(a, m)) \in Nat /\ Len(Cells(a, m)) >= 3 + Len(Strings)
      /\ DOMAIN Cells(a, m) = 1 .. Len(Cells(a, m)) /\ Len(Strings) \in Nat
  BY FileHolds, StringFacts
<1>3. Cells(a, m)[2 + k] = [kind |-> "str", val |-> Strings[k]]
  BY FileLayout DEF IsLaidOut
<1>4. 2 + k \in DOMAIN Cells(a, m) /\ (2 + k) - 1 = 1 + k /\ 1 + k \in 0 .. Len(Cells(a, m))
  BY <1>2
<1>5. File(a, m)[Place(a, Cells(a, m), 1 + k)] = Cells(a, m)[2 + k]
  BY <1>2, <1>4 DEF Holds
<1>6. Place(a, Cells(a, m), 1 + k) \in Nat
  BY <1>2, <1>4, PlaceGrows
<1> QED
  BY <1>1, <1>3, <1>5, <1>6 DEF read_c_string

\* The header leads to the number of types and past it to the first of them.
LEMMA HeaderRead ==
  ASSUME NEW a \in {4, 8}, NEW m \in TypeMaps
  PROVE  LET file == File(a, m)
         IN  /\ file[file[a].val].val = Len(m)
             /\ file[a].val + a = Place(a, Cells(a, m), TypePlace(a, m, 0))
<1> DEFINE file == File(a, m)
           cells == Cells(a, m)
           place(j) == Place(a, cells, j)
           ns == Len(Strings)
<1>1. /\ Holds(a, file, cells) /\ IsCells(cells)
      /\ Len(cells) \in Nat /\ Len(cells) >= 3 + ns
      /\ DOMAIN cells = 1 .. Len(cells) /\ ns \in Nat
  BY FileHolds, StringFacts
<1>2. /\ cells[1] = SizeCell(a * 2)
      /\ cells[2] = SizeCell(a * 2 + Bytes(a, StringCells(Strings)))
      /\ cells[3 + ns] = SizeCell(Len(m))
  BY FileLayout DEF IsLaidOut
<1>3. a * 2 + Bytes(a, StringCells(Strings)) = place(2 + ns)
  <2>1. ns \in 0 .. Len(Strings) /\ DOMAIN Strings = 1 .. ns
    BY <1>1, StringFacts
  <2> QED
    BY <2>1, StringBytes
<1>4. TypePlace(a, m, 0) = 3 + ns
  BY TypePlaces
<1> HIDE DEF cells, file
<1>5. /\ place(0) = 0
      /\ \A j \in 1 .. Len(cells) : place(j) = place(j - 1) + Width(a, cells[j])
      /\ \A j \in DOMAIN cells : file[place(j - 1)] = cells[j]
  <2>1. \A j \in DOMAIN cells : file[place(j - 1)] = cells[j]
    BY <1>1 DEF Holds
  <2>2. place(0) = 0
    BY <1>1, PlaceGrows, ZenonT(30)
  <2>3. \A j \in 1 .. Len(cells) : place(j) = place(j - 1) + Width(a, cells[j])
    BY <1>1, PlaceGrows, ZenonT(30)
  <2> QED
    BY <2>1, <2>2, <2>3
<1> HIDE DEF place
<1>6. 1 \in 1 .. Len(cells) /\ 2 \in 1 .. Len(cells) /\ 3 + ns \in 1 .. Len(cells)
  BY <1>1
<1>7. place(1 - 1) + Width(a, cells[1]) = place(1) /\ 1 - 1 = 0 /\ 2 - 1 = 1 /\ (3 + ns) - 1 = 2 + ns
  BY <1>1, <1>5, <1>6
<1>8. Width(a, cells[1]) = a
  BY <1>2 DEF Width, SizeCell
<1>9. place(1) = a
  BY <1>5, <1>7, <1>8
<1>10. file[place(2 - 1)] = cells[2] /\ file[place((3 + ns) - 1)] = cells[3 + ns]
  BY <1>1, <1>5, <1>6
<1>11. file[a].val = place(2 + ns)
  BY <1>2, <1>3, <1>7, <1>9, <1>10 DEF SizeCell
<1>12. file[place(2 + ns)].val = Len(m)
  BY <1>2, <1>7, <1>10 DEF SizeCell
<1>13. place(3 + ns) = place(2 + ns) + a
  <2>1. place(3 + ns) = place((3 + ns) - 1) + Width(a, cells[3 + ns])
    BY <1>5, <1>6
  <2>2. Width(a, cells[3 + ns]) = a
    BY <1>2 DEF Width, SizeCell
  <2> QED
    BY <1>7, <2>1, <2>2
<1> QED
  BY <1>4, <1>11, <1>12, <1>13 DEF place, file, cells

\* A number that can be written is read as it is.
LEMMA NumberRead ==
  ASSUME NEW a \in {4, 8}, NEW m \in TypeMaps, Writable(a, Volume(a), m),
         NEW k \in 1 .. Len(Cells(a, m)), NEW v \in Nat, Cells(a, m)[k] = SizeCell(v)
  PROVE  Unsigned(a, Cells(a, m)[k]) = v
<1> DEFINE cells == Cells(a, m)
           W == Word[a]
<1>1. W \in Nat /\ W > 1
  BY WordAssumption
<1>2. Packs(a, cells[k])
  <2>1. cells[k] \in ToSet(cells)
    BY FileHolds DEF ToSet
  <2> QED
    BY <2>1 DEF Writable, Cells
<1>3. IF a = 8 THEN v \in -(Word[8] \div 2) .. Word[8] \div 2 - 1 ELSE v \in 0 .. Word[4] - 1
  BY <1>2 DEF Packs, SizeCell
<1>4. Unsigned(a, cells[k]) = v % W
  BY DEF Unsigned, SizeCell
<1> HIDE DEF W, cells
<1>5. v < W
  <2>1. CASE a = 8
    <3>1. v <= W \div 2 - 1 /\ W \div 2 \in Int
      BY <1>1, <1>3, <2>1 DEF W
    <3>2. W \div 2 <= W
      BY <1>1
    <3> QED
      BY <1>1, <3>1, <3>2
  <2>2. CASE a = 4
    BY <1>1, <1>3, <2>2 DEF W
  <2> QED
    BY <2>1, <2>2
<1>6. v % W = v
  BY <1>1, <1>5
<1> QED
  BY <1>4, <1>6 DEF cells
-----------------------------------------------------------------------------
\* What the reader finds of a type.

\* Where the fields and the aliases of a type end that have been read.
FieldPlace(a, m, i, k) == (TypePlace(a, m, i - 1) + 5) + Before(FieldLists(a, m, i), k)

AliasPlace(a, m, i, k) == (FieldPlace(a, m, i, Len(Fields(m, i))) + 1) + k

FieldWidth(m, i) == IF Numbered(m)[i].type = "enum" THEN 2 ELSE 6

\* One type comes after the other.
LEMMA TypeFollows ==
  ASSUME NEW a \in {4, 8}, NEW m \in TypeMaps, NEW i \in 1 .. Len(m)
  PROVE  /\ TypePlace(a, m, i - 1) \in Nat
         /\ TypePlace(a, m, i) = TypePlace(a, m, i - 1) + Len(TypeLists(a, m)[i])
         /\ TypePlace(a, m, i) <= Len(Cells(a, m))
         /\ Len(TypeLists(a, m)[i]) \in Nat
         /\ \A k \in 1 .. Len(TypeLists(a, m)[i]) :
              Cells(a, m)[TypePlace(a, m, i - 1) + k] = TypeLists(a, m)[i][k]
<1> DEFINE lists == TypeLists(a, m)
<1>1. /\ i \in 0 .. Len(m) /\ i - 1 \in 0 .. Len(m) /\ Len(m) \in 0 .. Len(m)
      /\ Len(m) \in Nat
  BY MapFacts
<1>2. /\ TypePlace(a, m, i - 1) \in Nat
      /\ TypePlace(a, m, i) = TypePlace(a, m, i - 1) + Len(lists[i])
  BY <1>1, TypePlaces
<1>3. AreLists(lists) /\ Len(lists) = Len(m)
  BY TypePlaces DEF AreFlattened
<1>4. Len(lists[i]) \in Nat
  BY <1>1, <1>3, ListFacts DEF AreLists
<1> HIDE DEF lists
<1>5. Before(lists, i) <= Before(lists, Len(m))
  BY <1>1, <1>3, BeforeAscends
<1>6. TypePlace(a, m, i) <= TypePlace(a, m, Len(m))
  <2>1. Before(lists, i) \in Nat /\ Before(lists, Len(m)) \in Nat
    BY <1>1, <1>3, BeforeGrows
  <2> QED
    BY <1>5, <2>1, StringFacts DEF TypePlace, lists
<1>7. Len(Cells(a, m)) = TypePlace(a, m, Len(m))
  BY FileHolds
<1>8. ASSUME NEW k \in 1 .. Len(TypeLists(a, m)[i])
      PROVE  Cells(a, m)[TypePlace(a, m, i - 1) + k] = TypeLists(a, m)[i][k]
  <2>1. IsLaidOut(a, m, Cells(a, m))
    BY FileLayout
  <2>2. \A j \in 1 .. Len(m) : \A l \in 1 .. Len(TypeLists(a, m)[j]) :
          Cells(a, m)[TypePlace(a, m, j - 1) + l] = TypeLists(a, m)[j][l]
    BY <2>1 DEF IsLaidOut
  <2> QED
    BY <2>2
<1> QED
  BY <1>2, <1>4, <1>6, <1>7, <1>8 DEF lists

\* The head of a type.
LEMMA HeadInFile ==
  ASSUME NEW a \in {4, 8}, NEW m \in TypeMaps, NEW i \in 1 .. Len(m)
  PROVE  LET p == TypePlace(a, m, i - 1)
             cells == Cells(a, m)
             d == Numbered(m)[i]
         IN  /\ p \in Nat /\ p + 4 <= Len(cells)
             /\ cells[p + 1] = SizeCell(i)
             /\ cells[p + 2] = U8Cell(object_types[d.type])
             /\ cells[p + 3] = SizeCell(StringOffset(Volume(a), d.name))
             /\ cells[p + 4] = SizeCell(d.size)
             /\ d.type = "base" => TypePlace(a, m, i) = p + 4
             /\ d.type # "base" => /\ p + 5 <= Len(cells)
                                   /\ cells[p + 5] = SizeCell(Len(Fields(m, i)))
                                   /\ FieldPlace(a, m, i, 0) = p + 5
<1> DEFINE p == TypePlace(a, m, i - 1)
           cells == Cells(a, m)
           d == Numbered(m)[i]
           list == TypeLists(a, m)[i]
           all == Before(FieldLists(a, m, i), Len(Fields(m, i)))
<1>1. /\ p \in Nat /\ TypePlace(a, m, i) = p + Len(list) /\ TypePlace(a, m, i) <= Len(cells)
      /\ \A k \in 1 .. Len(list) : cells[p + k] = list[k]
      /\ Len(list) \in Nat /\ Len(cells) \in Nat
  BY TypeFollows, FileHolds
<1>2. /\ list[1] = SizeCell(i)
      /\ list[2] = U8Cell(object_types[d.type])
      /\ list[3] = SizeCell(StringOffset(Volume(a), d.name))
      /\ list[4] = SizeCell(d.size)
  <2>1. IsHead(a, m, i, list)
    BY TypeCellsFacts
  <2> QED
    BY <2>1 DEF IsHead
<1>3. d.type = "base" => Len(list) = 4
  BY TypeCellsFacts
<1>4. ASSUME d.type # "base"
      PROVE  /\ Len(list) >= 5 /\ list[5] = SizeCell(Len(Fields(m, i)))
             /\ FieldPlace(a, m, i, 0) = p + 5
  <2>1. Len(list) = (5 + all) + (1 + Len(d.aliases)) /\ list[5] = SizeCell(Len(Fields(m, i)))
    <3>1. HasFields(a, m, i, list)
      BY <1>4, TypeCellsFacts
    <3> QED
      BY <3>1 DEF HasFields
  <2>2. Len(d.aliases) \in Nat
    BY <1>4, TypeFacts, ListFacts
  <2>3. AreLists(FieldLists(a, m, i)) /\ Len(FieldLists(a, m, i)) = Len(Fields(m, i))
    BY <1>4, FieldListsFacts
  <2>4. Len(Fields(m, i)) \in 0 .. MaxFields
    BY <1>4, FieldFacts
  <2>5. Before(FieldLists(a, m, i), 0) = 0 /\ all \in Nat
    <3>1. Len(Fields(m, i)) \in 0 .. Len(Fields(m, i))
      BY <2>4, LoaderAssumption
    <3> QED
      BY <2>3, <3>1, BeforeGrows
  <2>6. FieldPlace(a, m, i, 0) = (p + 5) + 0
    BY <2>5 DEF FieldPlace
  <2> HIDE DEF all, list, p
  <2>7. Len(list) = (5 + all) + (1 + Len(d.aliases)) /\ p \in Nat
    BY <1>1, <2>1
  <2>8. \A x, y \in Nat : (5 + x) + (1 + y) >= 5
    OBVIOUS
  <2>9. Len(list) >= 5
    BY <2>2, <2>5, <2>7, <2>8
  <2> QED
    BY <2>1, <2>6, <2>7, <2>9 DEF list
<1> HIDE DEF p, cells, d, list
<1>5. Len(list) >= 4
  BY <1>3, <1>4
<1>6. 1 \in 1 .. Len(list) /\ 2 \in 1 .. Len(list) /\ 3 \in 1 .. Len(list) /\ 4 \in 1 .. Len(list)
  BY <1>1, <1>5
<1>7. cells[p + 1] = list[1] /\ cells[p + 2] = list[2] /\ cells[p + 3] = list[3] /\ cells[p + 4] = list[4]
  BY <1>1, <1>6
<1>8. p \in Nat /\ p + 4 <= Len(cells)
  BY <1>1, <1>5
<1>9. d.type = "base" => TypePlace(a, m, i) = p + 4
  BY <1>1, <1>3
<1>10. d.type # "base" => p + 5 <= Len(cells) /\ cells[p + 5] = list[5]
  <2>1. d.type # "base" => 5 \in 1 .. Len(list)
    BY <1>1, <1>4
  <2> QED
    BY <1>1, <2>1
<1> QED
  BY <1>2, <1>4, <1>7, <1>8, <1>9, <1>10 DEF p, cells, d

\* Its fields.
IsFieldAt(a, m, i, k, p) ==
  LET field == FieldCells(Volume(a), Numbered(m), Numbered(m)[i], Fields(m, i)[k])
  IN  /\ p \in Nat /\ p + FieldWidth(m, i) <= Len(Cells(a, m))
      /\ FieldPlace(a, m, i, k) = p + FieldWidth(m, i)
      /\ \A j \in 1 .. FieldWidth(m, i) : Cells(a, m)[p + j] = field[j]

LEMMA FieldInFile ==
  ASSUME NEW a \in {4, 8}, NEW m \in TypeMaps, NEW i \in 1 .. Len(m),
         Numbered(m)[i].type # "base", NEW k \in 1 .. Len(Fields(m, i))
  PROVE  IsFieldAt(a, m, i, k, FieldPlace(a, m, i, k - 1))
<1> DEFINE p == FieldPlace(a, m, i, k - 1)
           field == FieldCells(Volume(a), Numbered(m), Numbered(m)[i], Fields(m, i)[k])
           q == TypePlace(a, m, i - 1)
           cells == Cells(a, m)
           list == TypeLists(a, m)[i]
           lists == FieldLists(a, m, i)
           n == Len(Fields(m, i))
           w == FieldWidth(m, i)
<1>1. /\ q \in Nat /\ TypePlace(a, m, i) = q + Len(list) /\ TypePlace(a, m, i) <= Len(cells)
      /\ \A j \in 1 .. Len(list) : cells[q + j] = list[j]
      /\ Len(list) \in Nat /\ Len(cells) \in Nat
  BY TypeFollows, FileHolds, ZenonT(30)
<1>2. n \in Nat
  BY FieldFacts, LoaderAssumption
<1>3. HasFields(a, m, i, list)
  BY TypeCellsFacts
<1>4. Len(Numbered(m)[i].aliases) \in Nat
  BY TypeFacts, ListFacts
<1>5. AreLists(lists) /\ Len(lists) = n /\ lists[k] = field /\ Len(lists[k]) = w
  BY FieldListsFacts DEF FieldWidth
<1>6. w \in Nat
  BY DEF FieldWidth
<1> HIDE DEF lists, n, list, cells, q, field, w
<1>7. k \in 0 .. n /\ k - 1 \in 0 .. n /\ n \in 0 .. n /\ k \in 1 .. n
  BY <1>2 DEF n
<1>8. /\ Before(lists, k - 1) \in Nat /\ Before(lists, k) \in Nat /\ Before(lists, n) \in Nat
      /\ Before(lists, k) = Before(lists, k - 1) + w
  BY <1>5, <1>7, BeforeGrows
<1>9. Before(lists, k) <= Before(lists, n)
  BY <1>5, <1>7, BeforeAscends
<1>10. p = (q + 5) + Before(lists, k - 1) /\ FieldPlace(a, m, i, k) = (q + 5) + Before(lists, k)
  BY DEF FieldPlace, q, lists
<1>11. Len(list) = (5 + Before(lists, n)) + (1 + Len(Numbered(m)[i].aliases))
  BY <1>3 DEF HasFields, lists, n
<1>12. \A j \in 1 .. w : list[5 + (Before(lists, k - 1) + j)] = field[j]
  BY <1>3, <1>5 DEF HasFields, lists
<1> HIDE DEF p
<1> DEFINE b == Before(lists, k - 1)
           c == Before(lists, k)
           e == Before(lists, n)
           l == Len(list)
           r == Len(Numbered(m)[i].aliases)
<1>13. /\ b \in Nat /\ c \in Nat /\ e \in Nat /\ l \in Nat /\ r \in Nat /\ q \in Nat /\ w \in Nat
       /\ c = b + w /\ c <= e /\ p = (q + 5) + b /\ FieldPlace(a, m, i, k) = (q + 5) + c
       /\ l = (5 + e) + (1 + r) /\ q + l <= Len(cells) /\ Len(cells) \in Nat
  BY <1>1, <1>4, <1>6, <1>8, <1>9, <1>10, <1>11
<1> HIDE DEF b, c, e, l, r
<1>14. p \in Nat /\ FieldPlace(a, m, i, k) = p + w
  BY <1>13
<1>16. p + w <= Len(cells)
  BY <1>13
<1>15. ASSUME NEW j \in 1 .. w
       PROVE  cells[p + j] = field[j]
  <2>1. 5 + (b + j) \in 1 .. l /\ q + (5 + (b + j)) = p + j
    <3>1. j \in Nat /\ 1 <= j /\ j <= w
      BY <1>13
    <3>2. b + j <= e
      BY <1>13, <3>1
    <3>3. 5 + (b + j) \in Nat /\ 1 <= 5 + (b + j) /\ 5 + (b + j) <= l
      BY <1>13, <3>1, <3>2
    <3>4. q + (5 + (b + j)) = p + j
      BY <1>13, <3>1
    <3> QED
      BY <1>13, <3>3, <3>4
  <2>2. cells[q + (5 + (b + j))] = list[5 + (b + j)]
    BY <1>1, <2>1 DEF l
  <2> QED
    BY <1>12, <2>1, <2>2 DEF b
<1> QED
  BY <1>14, <1>15, <1>16 DEF IsFieldAt, p, field, w, cells

\* Its aliases, and the end of it.
LEMMA AliasInFile ==
  ASSUME NEW a \in {4, 8}, NEW m \in TypeMaps, NEW i \in 1 .. Len(m),
         Numbered(m)[i].type # "base"
  PROVE  LET p == FieldPlace(a, m, i, Len(Fields(m, i)))
             cells == Cells(a, m)
             aliases == Numbered(m)[i].aliases
         IN  /\ p \in Nat
             /\ cells[p + 1] = SizeCell(Len(aliases))
             /\ \A k \in 1 .. Len(aliases) :
                  cells[(p + 1) + k] = SizeCell(StringOffset(Volume(a), aliases[k]))
             /\ TypePlace(a, m, i) = (p + 1) + Len(aliases)
             /\ (p + 1) + Len(aliases) <= Len(cells)
<1> DEFINE p == FieldPlace(a, m, i, Len(Fields(m, i)))
           q == TypePlace(a, m, i - 1)
           cells == Cells(a, m)
           list == TypeLists(a, m)[i]
           lists == FieldLists(a, m, i)
           n == Len(Fields(m, i))
           all == Before(lists, n)
           aliases == Numbered(m)[i].aliases
<1>1. /\ q \in Nat /\ TypePlace(a, m, i) = q + Len(list) /\ TypePlace(a, m, i) <= Len(cells)
      /\ \A j \in 1 .. Len(list) : cells[q + j] = list[j]
      /\ Len(list) \in Nat /\ Len(cells) \in Nat
  BY TypeFollows, FileHolds, ZenonT(30)
<1>2. n \in Nat
  BY FieldFacts, LoaderAssumption
<1>3. /\ Len(list) = (5 + all) + (1 + Len(aliases))
      /\ list[(5 + all) + 1] = SizeCell(Len(aliases))
      /\ \A k \in 1 .. Len(aliases) :
           list[(5 + all) + (1 + k)] = SizeCell(StringOffset(Volume(a), aliases[k]))
  <2>1. HasFields(a, m, i, list)
    BY TypeCellsFacts
  <2> QED
    BY <2>1 DEF HasFields
<1>4. Len(aliases) \in Nat
  BY TypeFacts, ListFacts
<1>5. all \in Nat
  <2>1. AreLists(lists) /\ Len(lists) = n
    BY FieldListsFacts
  <2>2. n \in 0 .. n
    BY <1>2
  <2> HIDE DEF lists, n
  <2> QED
    BY <2>1, <2>2, BeforeGrows
<1>6. p = (q + 5) + all
  BY DEF FieldPlace
<1> HIDE DEF p, q, cells, list, all, aliases, n, lists
<1>7. cells[p + 1] = SizeCell(Len(aliases))
  <2>1. (5 + all) + 1 \in 1 .. Len(list) /\ q + ((5 + all) + 1) = p + 1
    BY <1>1, <1>3, <1>4, <1>5, <1>6
  <2> QED
    BY <1>1, <1>3, <2>1
<1>8. ASSUME NEW k \in 1 .. Len(aliases)
      PROVE  cells[(p + 1) + k] = SizeCell(StringOffset(Volume(a), aliases[k]))
  <2>1. (5 + all) + (1 + k) \in 1 .. Len(list) /\ q + ((5 + all) + (1 + k)) = (p + 1) + k
    BY <1>1, <1>3, <1>4, <1>5, <1>6
  <2>2. cells[q + ((5 + all) + (1 + k))] = list[(5 + all) + (1 + k)]
    BY <1>1, <2>1
  <2> QED
    BY <1>3, <2>1, <2>2
<1>9. TypePlace(a, m, i) = (p + 1) + Len(aliases) /\ p \in Nat
  <2> DEFINE t == TypePlace(a, m, i)
             l == Len(list)
             c == Len(aliases)
  <2>1. /\ q \in Nat /\ l \in Nat /\ c \in Nat /\ all \in Nat
        /\ t = q + l /\ l = (5 + all) + (1 + c) /\ p = (q + 5) + all
    BY <1>1, <1>3, <1>4, <1>5, <1>6
  <2> HIDE DEF t, l, c
  <2>2. t = (p + 1) + c /\ p \in Nat
    BY <2>1
  <2> QED
    BY <2>2 DEF t, c
<1> QED
  BY <1>1, <1>7, <1>8, <1>9 DEF p, cells, aliases

\* A read of cells of these kinds, from one place in the file to another.
IsRead(a, m, p, kinds, q) ==
  /\ Readable(a, File(a, m), Place(a, Cells(a, m), p), kinds)
  /\ ReadOffset(a, Place(a, Cells(a, m), p), kinds) = Place(a, Cells(a, m), q)

\* The values it yields.
ValuesAt(a, m, p, kinds) == ReadCells(a, File(a, m), Place(a, Cells(a, m), p), kinds)

AreValues(a, m, p, n, v) == \A j \in 1 .. n : v[j] = Unsigned(a, Cells(a, m)[p + j])

LEMMA NextAreRead ==
  ASSUME NEW a \in {4, 8}, NEW m \in TypeMaps, NEW p \in Nat, NEW kinds,
         AreNext(Cells(a, m), p, kinds), p <= Len(Cells(a, m))
  PROVE  /\ IsRead(a, m, p, kinds, p + Len(kinds))
         /\ AreValues(a, m, p, Len(kinds), ValuesAt(a, m, p, kinds))
<1> DEFINE cells == Cells(a, m)
           file == File(a, m)
<1>1. Holds(a, file, cells) /\ IsCells(cells) /\ p \in 0 .. Len(cells)
  BY FileHolds
<1>2. AreNext(cells, p, kinds)
  OBVIOUS
<1> HIDE DEF cells, file
<1>3. Readable(a, file, Place(a, cells, p), kinds)
  BY <1>1, <1>2, CellsRead
<1>4. ReadOffset(a, Place(a, cells, p), kinds) = Place(a, cells, p + Len(kinds))
  BY <1>1, <1>2, CellsRead
<1>5. \A j \in 1 .. Len(kinds) :
        ReadCells(a, file, Place(a, cells, p), kinds)[j] = Unsigned(a, cells[p + j])
  BY <1>1, <1>2, CellsRead
<1>6. IsRead(a, m, p, kinds, p + Len(kinds))
  BY <1>3, <1>4 DEF IsRead, cells, file
<1> QED
  BY <1>5, <1>6 DEF ValuesAt, AreValues, cells, file

\* The head of a type, with or without the number of its fields.
TypeKinds == HeadKinds \o << "size" >>

LEMMA KindsFacts ==
  /\ IsList(HeadKinds) /\ Len(HeadKinds) = 4
  /\ HeadKinds[1] = "size" /\ HeadKinds[2] = "u8"
  /\ HeadKinds[3] = "size" /\ HeadKinds[4] = "size"
  /\ IsList(TypeKinds) /\ Len(TypeKinds) = 5
  /\ TypeKinds[1] = "size" /\ TypeKinds[2] = "u8"
  /\ TypeKinds[3] = "size" /\ TypeKinds[4] = "size" /\ TypeKinds[5] = "size"
<1> DEFINE s == "size"
           u == "u8"
           one == << s >>
<1>1. HeadKinds = << s, u, s, s >> /\ TypeKinds = HeadKinds \o one
  BY DEF HeadKinds, TypeKinds
<1> HIDE DEF s, u
<1>2. IsList(HeadKinds) /\ Len(HeadKinds) = 4
  BY <1>1, ShortLists
<1>3. HeadKinds[1] = s /\ HeadKinds[2] = u /\ HeadKinds[3] = s /\ HeadKinds[4] = s
  BY <1>1
<1>4. IsList(one) /\ Len(one) = 1 /\ one[1] = s
  BY ShortLists
<1> HIDE DEF one
<1>5. /\ IsList(HeadKinds \o one) /\ Len(HeadKinds \o one) = 4 + 1
      /\ \A k \in 1 .. 4 : (HeadKinds \o one)[k] = HeadKinds[k]
      /\ \A k \in 1 .. 1 : (HeadKinds \o one)[4 + k] = one[k]
  <2> DEFINE h == HeadKinds
  <2> HIDE DEF h
  <2>1. IsList(h) /\ Len(h) = 4
    BY <1>2 DEF h
  <2>2. IsList(h \o one)
    BY <1>4, <2>1, ListsJoined
  <2>3. Len(h \o one) = Len(h) + Len(one)
    BY <1>4, <2>1, ListsJoined
  <2>4. \A k \in 1 .. Len(h) : (h \o one)[k] = h[k]
    BY <1>4, <2>1, ListsJoined
  <2>5. \A k \in 1 .. Len(one) : (h \o one)[Len(h) + k] = one[k]
    <3>1. ASSUME NEW x, NEW y, IsList(x), IsList(y)
          PROVE  \A k \in 1 .. Len(y) : (x \o y)[Len(x) + k] = y[k]
      BY <3>1, ListsJoined
    <3>2. IsList(h) /\ IsList(one)
      BY <1>4, <2>1
    <3> QED
      BY <3>1, <3>2, Zenon
  <2> QED
    BY <1>4, <2>1, <2>2, <2>3, <2>4, <2>5 DEF h
<1>6. IsList(TypeKinds) /\ Len(TypeKinds) = 5
  BY <1>1, <1>5
<1>7. /\ TypeKinds[1] = s /\ TypeKinds[2] = u /\ TypeKinds[3] = s /\ TypeKinds[4] = s
      /\ TypeKinds[5] = s
  <2>1. 1 \in 1 .. 4 /\ 2 \in 1 .. 4 /\ 3 \in 1 .. 4 /\ 4 \in 1 .. 4 /\ 1 \in 1 .. 1 /\ 4 + 1 = 5
    OBVIOUS
  <2> DEFINE t == HeadKinds \o one
  <2>2. t = TypeKinds
    BY <1>1
  <2> HIDE DEF t
  <2>3. t[1] = HeadKinds[1] /\ t[2] = HeadKinds[2] /\ t[3] = HeadKinds[3] /\ t[4] = HeadKinds[4]
    BY <1>5, <2>1 DEF t
  <2>4. t[4 + 1] = one[1]
    BY <1>5, <2>1 DEF t
  <2> QED
    BY <1>3, <1>4, <2>1, <2>2, <2>3, <2>4
<1> QED
  BY <1>2, <1>3, <1>6, <1>7 DEF s, u

\* What the head of a type says.
IsHeadRead(a, m, i, v) ==
  /\ v[1] = i
  /\ v[2] = object_types[Numbered(m)[i].type]
  /\ read_c_string(File(a, m), v[3]) = Numbered(m)[i].name
  /\ v[4] = Numbered(m)[i].size

LEMMA HeadRead ==
  ASSUME NEW a \in {4, 8}, NEW m \in TypeMaps, Writable(a, Volume(a), m),
         NEW i \in 1 .. Len(m)
  PROVE  LET p == TypePlace(a, m, i - 1)
         IN  /\ p \in Nat
             /\ IsRead(a, m, p, HeadKinds, p + 4)
             /\ IsHeadRead(a, m, i, ValuesAt(a, m, p, HeadKinds))
             /\ Numbered(m)[i].type # "base" =>
                  /\ IsRead(a, m, p, TypeKinds, p + 5)
                  /\ IsHeadRead(a, m, i, ValuesAt(a, m, p, TypeKinds))
                  /\ ValuesAt(a, m, p, TypeKinds)[5] = Len(Fields(m, i))
<1> DEFINE p == TypePlace(a, m, i - 1)
           cells == Cells(a, m)
           d == Numbered(m)[i]
           name == StringOffset(Volume(a), d.name)
           type == object_types[d.type]
           n == Len(Fields(m, i))
<1>1. /\ p \in Nat /\ p + 4 <= Len(cells)
      /\ cells[p + 1] = SizeCell(i) /\ cells[p + 2] = U8Cell(type)
      /\ cells[p + 3] = SizeCell(name) /\ cells[p + 4] = SizeCell(d.size)
  BY HeadInFile, ZenonT(30)
<1>2. d.type # "base" => p + 5 <= Len(cells) /\ cells[p + 5] = SizeCell(n)
  BY HeadInFile
<1>3. /\ i \in Nat /\ d.size \in Nat
      /\ read_c_string(File(a, m), name) = d.name /\ name \in Nat
  BY MapFacts, TypeFacts, StringRead
<1>4. d.type # "base" => n \in Nat
  BY FieldFacts, LoaderAssumption
<1>5. DOMAIN cells = 1 .. Len(cells) /\ Len(cells) \in Nat
  BY FileHolds
<1> HIDE DEF p, d, name, type, n, cells
<1>6. /\ p + 1 \in 1 .. Len(cells) /\ p + 2 \in 1 .. Len(cells)
      /\ p + 3 \in 1 .. Len(cells) /\ p + 4 \in 1 .. Len(cells)
      /\ d.type # "base" => p + 5 \in 1 .. Len(cells)
  <2> DEFINE l == Len(cells)
  <2>1. p \in Nat /\ l \in Nat /\ p + 4 <= l /\ (d.type # "base" => p + 5 <= l)
    BY <1>1, <1>2, <1>5
  <2> HIDE DEF l
  <2>2. p + 1 \in 1 .. l /\ p + 2 \in 1 .. l /\ p + 3 \in 1 .. l /\ p + 4 \in 1 .. l
    BY <2>1
  <2>3. d.type # "base" => p + 5 \in 1 .. l
    BY <2>1
  <2> QED
    BY <2>2, <2>3 DEF l
<1> USE DEF cells
<1>7. Unsigned(a, cells[p + 1]) = i
  BY <1>1, <1>3, <1>6, NumberRead
<1>8. Unsigned(a, cells[p + 2]) = type
  BY <1>1 DEF Unsigned, U8Cell
<1>9. Unsigned(a, cells[p + 3]) = name
  BY <1>1, <1>3, <1>6, NumberRead
<1>10. Unsigned(a, cells[p + 4]) = d.size
  BY <1>1, <1>3, <1>6, NumberRead
<1>11. d.type # "base" => Unsigned(a, cells[p + 5]) = n
  BY <1>2, <1>4, <1>6, NumberRead
<1>12. /\ cells[p + 1].kind = "size" /\ cells[p + 2].kind = "u8"
       /\ cells[p + 3].kind = "size" /\ cells[p + 4].kind = "size"
       /\ d.type # "base" => cells[p + 5].kind = "size"
  BY <1>1, <1>2 DEF SizeCell, U8Cell
<1> HIDE DEF cells
<1>13. \A j \in 1 .. 4 : j = 1 \/ j = 2 \/ j = 3 \/ j = 4
  OBVIOUS
<1>14. \A j \in 1 .. 5 : j = 1 \/ j = 2 \/ j = 3 \/ j = 4 \/ j = 5
  OBVIOUS
<1>15. AreNext(cells, p, HeadKinds)
  <2>1. ASSUME NEW j \in 1 .. 4
        PROVE  /\ HeadKinds[j] \in {"size", "u32", "u8"}
               /\ p + j \in DOMAIN cells
               /\ cells[p + j].kind = HeadKinds[j]
    BY <1>5, <1>6, <1>12, <1>13, KindsFacts
  <2> QED
    BY <1>1, <2>1, KindsFacts DEF AreNext
<1>16. ASSUME d.type # "base"
       PROVE  AreNext(cells, p, TypeKinds)
  <2>1. ASSUME NEW j \in 1 .. 5
        PROVE  /\ TypeKinds[j] \in {"size", "u32", "u8"}
               /\ p + j \in DOMAIN cells
               /\ cells[p + j].kind = TypeKinds[j]
    BY <1>5, <1>6, <1>12, <1>14, <1>16, KindsFacts
  <2> QED
    BY <1>1, <2>1, KindsFacts DEF AreNext
<1>17. p <= Len(cells)
  BY <1>1, <1>5
<1>18. /\ IsRead(a, m, p, HeadKinds, p + 4)
       /\ \A j \in 1 .. 4 : ValuesAt(a, m, p, HeadKinds)[j] = Unsigned(a, cells[p + j])
  <2> DEFINE k == HeadKinds
  <2> HIDE DEF k
  <2>1. AreNext(Cells(a, m), p, k) /\ p \in Nat /\ p <= Len(Cells(a, m)) /\ Len(k) = 4
    BY <1>1, <1>15, <1>17, KindsFacts DEF cells, k
  <2>2. IsRead(a, m, p, k, p + Len(k))
    BY <2>1, NextAreRead
  <2>3. AreValues(a, m, p, Len(k), ValuesAt(a, m, p, k))
    BY <2>1, NextAreRead
  <2> QED
    BY <2>1, <2>2, <2>3 DEF k, cells, AreValues
<1>19. ASSUME d.type # "base"
       PROVE  /\ IsRead(a, m, p, TypeKinds, p + 5)
              /\ \A j \in 1 .. 5 : ValuesAt(a, m, p, TypeKinds)[j] = Unsigned(a, cells[p + j])
  <2> DEFINE k == TypeKinds
  <2> HIDE DEF k
  <2>1. AreNext(Cells(a, m), p, k) /\ p \in Nat /\ p <= Len(Cells(a, m)) /\ Len(k) = 5
    BY <1>1, <1>16, <1>17, <1>19, KindsFacts DEF cells, k
  <2>2. IsRead(a, m, p, k, p + Len(k))
    BY <2>1, NextAreRead
  <2>3. AreValues(a, m, p, Len(k), ValuesAt(a, m, p, k))
    BY <2>1, NextAreRead
  <2> QED
    BY <2>1, <2>2, <2>3 DEF k, cells, AreValues
<1>20. ASSUME NEW v, \A j \in 1 .. 4 : v[j] = Unsigned(a, cells[p + j])
       PROVE  IsHeadRead(a, m, i, v)
  <2>1. v[1] = i /\ v[2] = type /\ v[3] = name /\ v[4] = d.size
    BY <1>7, <1>8, <1>9, <1>10, <1>20
  <2> QED
    BY <1>3, <2>1 DEF IsHeadRead, d, type
<1>21. IsHeadRead(a, m, i, ValuesAt(a, m, p, HeadKinds))
  BY <1>18, <1>20
<1>22. ASSUME d.type # "base"
       PROVE  /\ IsHeadRead(a, m, i, ValuesAt(a, m, p, TypeKinds))
              /\ ValuesAt(a, m, p, TypeKinds)[5] = n
  <2> DEFINE v == ValuesAt(a, m, p, TypeKinds)
  <2>1. \A j \in 1 .. 5 : v[j] = Unsigned(a, cells[p + j])
    BY <1>19, <1>22
  <2> HIDE DEF v
  <2>2. \A j \in 1 .. 4 : v[j] = Unsigned(a, cells[p + j])
    BY <2>1
  <2>3. v[5] = n
    BY <1>11, <1>22, <2>1
  <2>4. IsHeadRead(a, m, i, v)
    BY <1>20, <2>2
  <2> QED
    BY <2>3, <2>4 DEF v
<1> QED
  BY <1>1, <1>18, <1>19, <1>21, <1>22 DEF p, d, n

\* The fields of a record or union.
FieldKinds == << "size", "u8", "u32", "size", "size", "size" >>

IsFieldRead(a, m, f, v) ==
  /\ read_c_string(File(a, m), v[1]) = f.name
  /\ v[2] = IF f.const THEN 1 ELSE 0
  /\ v[3] = f.pdepth
  /\ v[4] = f.offset
  /\ v[5] = f.arrsize
  /\ v[6] = RefId(Numbered(m), f.type)

LEMMA FieldRead ==
  ASSUME NEW a \in {4, 8}, NEW m \in TypeMaps, Writable(a, Volume(a), m),
         NEW i \in 1 .. Len(m), Numbered(m)[i].type \in {"struct", "union"},
         NEW k \in 1 .. Len(Fields(m, i))
  PROVE  LET p == FieldPlace(a, m, i, k - 1)
         IN  /\ IsRead(a, m, p, FieldKinds, FieldPlace(a, m, i, k))
             /\ IsFieldRead(a, m, Fields(m, i)[k], ValuesAt(a, m, p, FieldKinds))
<1> DEFINE p == FieldPlace(a, m, i, k - 1)
           v == ValuesAt(a, m, p, FieldKinds)
           f == Fields(m, i)[k]
           cells == Cells(a, m)
           field == FieldCells(Volume(a), Numbered(m), Numbered(m)[i], f)
           name == StringOffset(Volume(a), f.name)
           const == IF f.const THEN 1 ELSE 0
           ref == RefId(Numbered(m), f.type)
           l == Len(cells)
<1>1. Numbered(m)[i].type # "base" /\ Numbered(m)[i].type # "enum" /\ FieldWidth(m, i) = 6
  BY DEF FieldWidth
<1>2. /\ p \in Nat /\ p + 6 <= l /\ FieldPlace(a, m, i, k) = p + 6
      /\ \A j \in 1 .. 6 : cells[p + j] = field[j]
  <2>1. IsFieldAt(a, m, i, k, p)
    BY <1>1, FieldInFile
  <2> HIDE DEF p
  <2> QED
    BY <1>1, <2>1 DEF IsFieldAt
<1>3. /\ field[1] = SizeCell(name) /\ field[2] = BoolCell(f.const)
      /\ field[3] = U32Cell(f.pdepth) /\ field[4] = SizeCell(f.offset)
      /\ field[5] = SizeCell(f.arrsize) /\ field[6] = SizeCell(ref)
  BY <1>1 DEF FieldCells
<1>4. /\ Met(f.name) /\ f.offset \in Nat /\ f.arrsize \in Nat
  BY <1>1, FieldFacts
<1>5. read_c_string(File(a, m), name) = f.name /\ name \in Nat
  BY <1>4, StringRead
<1>6. ref \in Nat
  BY RefFacts, MapFacts
<1>7. DOMAIN cells = 1 .. l /\ l \in Nat
  BY FileHolds
<1> HIDE DEF p, f, field, name, const, ref, l, cells
<1>8. /\ p + 1 \in 1 .. l /\ p + 2 \in 1 .. l /\ p + 3 \in 1 .. l
      /\ p + 4 \in 1 .. l /\ p + 5 \in 1 .. l /\ p + 6 \in 1 .. l
  <2>1. \A j \in 1 .. 6 : p + j \in 1 .. l
    BY <1>2, <1>7
  <2> QED
    BY <2>1
<1>9. /\ cells[p + 1] = SizeCell(name) /\ cells[p + 2] = BoolCell(f.const)
      /\ cells[p + 3] = U32Cell(f.pdepth) /\ cells[p + 4] = SizeCell(f.offset)
      /\ cells[p + 5] = SizeCell(f.arrsize) /\ cells[p + 6] = SizeCell(ref)
  BY <1>2, <1>3
<1>10. Unsigned(a, cells[p + 1]) = name
  BY <1>5, <1>8, <1>9, NumberRead, SMTT(30) DEF cells, l
<1>11. Unsigned(a, cells[p + 2]) = const
  BY <1>9 DEF Unsigned, BoolCell, U8Cell, const
<1>12. Unsigned(a, cells[p + 3]) = f.pdepth
  BY <1>9 DEF Unsigned, U32Cell
<1>13. Unsigned(a, cells[p + 4]) = f.offset
  <2> DEFINE o == f.offset
  <2>1. o \in Nat /\ cells[p + 4] = SizeCell(o)
    BY <1>4, <1>9
  <2> HIDE DEF o
  <2>2. Unsigned(a, cells[p + 4]) = o
    BY <1>8, <2>1, NumberRead DEF cells, l
  <2> QED
    BY <2>2 DEF o
<1>14. Unsigned(a, cells[p + 5]) = f.arrsize
  <2> DEFINE o == f.arrsize
  <2>1. o \in Nat /\ cells[p + 5] = SizeCell(o)
    BY <1>4, <1>9
  <2> HIDE DEF o
  <2>2. Unsigned(a, cells[p + 5]) = o
    BY <1>8, <2>1, NumberRead DEF cells, l
  <2> QED
    BY <2>2 DEF o
<1>15. Unsigned(a, cells[p + 6]) = ref
  BY <1>6, <1>8, <1>9, NumberRead, SMTT(30) DEF cells, l
<1>16. /\ cells[p + 1].kind = "size" /\ cells[p + 2].kind = "u8" /\ cells[p + 3].kind = "u32"
       /\ cells[p + 4].kind = "size" /\ cells[p + 5].kind = "size" /\ cells[p + 6].kind = "size"
  BY <1>9 DEF SizeCell, BoolCell, U8Cell, U32Cell
<1> DEFINE kinds == FieldKinds
<1>17. /\ IsList(kinds) /\ Len(kinds) = 6
       /\ kinds[1] = "size" /\ kinds[2] = "u8" /\ kinds[3] = "u32"
       /\ kinds[4] = "size" /\ kinds[5] = "size" /\ kinds[6] = "size"
  <2> DEFINE s == "size"
             u == "u8"
             w == "u32"
  <2>1. kinds = << s, u, w, s, s, s >>
    BY DEF FieldKinds
  <2> HIDE DEF s, u, w, kinds
  <2>2. IsList(kinds) /\ Len(kinds) = 6
    BY <2>1, ShortLists
  <2>3. /\ kinds[1] = s /\ kinds[2] = u /\ kinds[3] = w
        /\ kinds[4] = s /\ kinds[5] = s /\ kinds[6] = s
    BY <2>1
  <2> QED
    BY <2>2, <2>3 DEF s, u, w
<1> HIDE DEF kinds
<1>18. \A j \in 1 .. 6 : j = 1 \/ j = 2 \/ j = 3 \/ j = 4 \/ j = 5 \/ j = 6
  OBVIOUS
<1>19. AreNext(cells, p, kinds)
  <2>1. ASSUME NEW j \in 1 .. 6
        PROVE  /\ kinds[j] \in {"size", "u32", "u8"}
               /\ p + j \in DOMAIN cells
               /\ cells[p + j].kind = kinds[j]
    BY <1>7, <1>8, <1>16, <1>17, <1>18
  <2> QED
    BY <1>2, <1>17, <2>1 DEF AreNext
<1>20. p <= l
  BY <1>2, <1>7
<1>21. IsRead(a, m, p, kinds, p + Len(kinds))
  BY <1>2, <1>19, <1>20, NextAreRead DEF cells, l
<1>22. AreValues(a, m, p, Len(kinds), ValuesAt(a, m, p, kinds))
  BY <1>2, <1>19, <1>20, NextAreRead DEF cells, l
<1>23. \A j \in 1 .. 6 : v[j] = Unsigned(a, cells[p + j])
  BY <1>17, <1>22 DEF AreValues, kinds, cells
<1> HIDE DEF v
<1>24. /\ v[1] = name /\ v[2] = const /\ v[3] = f.pdepth
       /\ v[4] = f.offset /\ v[5] = f.arrsize /\ v[6] = ref
  BY <1>10, <1>11, <1>12, <1>13, <1>14, <1>15, <1>23
<1>25. IsRead(a, m, p, FieldKinds, FieldPlace(a, m, i, k))
  BY <1>2, <1>17, <1>21 DEF kinds
<1>26. IsFieldRead(a, m, f, v)
  BY <1>5, <1>24 DEF IsFieldRead, const, ref
<1> QED
  BY <1>25, <1>26 DEF v, p, f

\* The enumerators of an enum: a negative value is read without its sign.
EnumeratorKinds == << "size", "size" >>

LEMMA EnumeratorRead ==
  ASSUME NEW a \in {4, 8}, NEW m \in TypeMaps, Writable(a, Volume(a), m),
         NEW i \in 1 .. Len(m), Numbered(m)[i].type = "enum",
         NEW k \in 1 .. Len(Fields(m, i))
  PROVE  LET p == FieldPlace(a, m, i, k - 1)
             v == ValuesAt(a, m, p, EnumeratorKinds)
             f == Fields(m, i)[k]
         IN  /\ p \in Nat
             /\ IsRead(a, m, p, EnumeratorKinds, FieldPlace(a, m, i, k))
             /\ read_c_string(File(a, m), v[1]) = f.name
             /\ v[2] = f.value % Word[a]
<1> DEFINE p == FieldPlace(a, m, i, k - 1)
           v == ValuesAt(a, m, p, EnumeratorKinds)
           f == Fields(m, i)[k]
           cells == Cells(a, m)
           field == FieldCells(Volume(a), Numbered(m), Numbered(m)[i], f)
           name == StringOffset(Volume(a), f.name)
           l == Len(cells)
<1>1. Numbered(m)[i].type # "base" /\ FieldWidth(m, i) = 2
  BY DEF FieldWidth
<1>2. /\ p \in Nat /\ p + 2 <= l /\ FieldPlace(a, m, i, k) = p + 2
      /\ \A j \in 1 .. 2 : cells[p + j] = field[j]
  <2>1. IsFieldAt(a, m, i, k, p)
    BY <1>1, FieldInFile
  <2> HIDE DEF p
  <2> QED
    BY <1>1, <2>1 DEF IsFieldAt
<1>3. field[1] = SizeCell(name) /\ field[2] = SizeCell(f.value)
  BY DEF FieldCells
<1>4. Met(f.name)
  BY <1>1, FieldFacts
<1>5. read_c_string(File(a, m), name) = f.name /\ name \in Nat
  BY <1>4, StringRead
<1>6. DOMAIN cells = 1 .. l /\ l \in Nat
  BY FileHolds
<1> HIDE DEF p, f, field, name, l, cells
<1>7. p + 1 \in 1 .. l /\ p + 2 \in 1 .. l
  BY <1>2, <1>6
<1>8. cells[p + 1] = SizeCell(name) /\ cells[p + 2] = SizeCell(f.value)
  BY <1>2, <1>3
<1>9. Unsigned(a, cells[p + 1]) = name
  BY <1>5, <1>7, <1>8, NumberRead DEF cells, l
<1>10. Unsigned(a, cells[p + 2]) = f.value % Word[a]
  BY <1>8 DEF Unsigned, SizeCell
<1>11. cells[p + 1].kind = "size" /\ cells[p + 2].kind = "size"
  BY <1>8 DEF SizeCell
<1> DEFINE kinds == EnumeratorKinds
<1>12. IsList(kinds) /\ Len(kinds) = 2 /\ kinds[1] = "size" /\ kinds[2] = "size"
  <2> DEFINE s == "size"
  <2>1. kinds = << s, s >>
    BY DEF EnumeratorKinds
  <2> HIDE DEF s, kinds
  <2>2. IsList(kinds) /\ Len(kinds) = 2
    BY <2>1, ShortLists
  <2> QED
    BY <2>1, <2>2 DEF s
<1> HIDE DEF kinds
<1>13. \A j \in 1 .. 2 : j = 1 \/ j = 2
  OBVIOUS
<1>14. AreNext(cells, p, kinds)
  <2>1. ASSUME NEW j \in 1 .. 2
        PROVE  /\ kinds[j] \in {"size", "u32", "u8"}
               /\ p + j \in DOMAIN cells
               /\ cells[p + j].kind = kinds[j]
    BY <1>6, <1>7, <1>11, <1>12, <1>13
  <2> QED
    BY <1>2, <1>12, <2>1 DEF AreNext
<1>15. p <= l
  BY <1>2, <1>6
<1>16. IsRead(a, m, p, kinds, p + Len(kinds))
  BY <1>2, <1>14, <1>15, NextAreRead DEF cells, l
<1>17. AreValues(a, m, p, Len(kinds), ValuesAt(a, m, p, kinds))
  BY <1>2, <1>14, <1>15, NextAreRead DEF cells, l
<1>18. \A j \in 1 .. 2 : v[j] = Unsigned(a, cells[p + j])
  BY <1>12, <1>17 DEF AreValues, kinds, cells
<1> HIDE DEF v
<1>19. v[1] = name /\ v[2] = f.value % Word[a]
  BY <1>9, <1>10, <1>18
<1>20. IsRead(a, m, p, EnumeratorKinds, FieldPlace(a, m, i, k))
  BY <1>2, <1>12, <1>16 DEF kinds
<1> QED
  BY <1>2, <1>5, <1>19, <1>20 DEF v, p, f

\* A single number.
LEMMA OneRead ==
  ASSUME NEW a \in {4, 8}, NEW m \in TypeMaps, Writable(a, Volume(a), m),
         NEW p \in Nat, p + 1 <= Len(Cells(a, m)),
         NEW x \in Nat, Cells(a, m)[p + 1] = SizeCell(x)
  PROVE  /\ IsRead(a, m, p, << "size" >>, p + 1)
         /\ ValuesAt(a, m, p, << "size" >>)[1] = x
<1> DEFINE cells == Cells(a, m)
           s == "size"
           kinds == << s >>
           l == Len(cells)
<1>1. DOMAIN cells = 1 .. l /\ l \in Nat
  BY FileHolds
<1>2. cells[p + 1].kind = s
  BY DEF SizeCell
<1> HIDE DEF cells, l, s
<1>3. p + 1 \in 1 .. l /\ p <= l
  BY <1>1 DEF cells, l
<1>4. Unsigned(a, cells[p + 1]) = x
  BY <1>3, NumberRead DEF cells, l
<1>5. IsList(kinds) /\ Len(kinds) = 1 /\ kinds[1] = s
  BY ShortLists
<1> HIDE DEF kinds
<1>6. AreNext(cells, p, kinds)
  <2>1. ASSUME NEW j \in 1 .. 1
        PROVE  /\ kinds[j] \in {"size", "u32", "u8"}
               /\ p + j \in DOMAIN cells
               /\ cells[p + j].kind = kinds[j]
    <3>1. j = 1
      OBVIOUS
    <3> QED
      BY <1>1, <1>2, <1>3, <1>5, <3>1 DEF s
  <2> QED
    BY <1>5, <2>1 DEF AreNext
<1>7. IsRead(a, m, p, kinds, p + Len(kinds))
  BY <1>3, <1>6, NextAreRead DEF cells, l
<1>8. AreValues(a, m, p, Len(kinds), ValuesAt(a, m, p, kinds))
  BY <1>3, <1>6, NextAreRead DEF cells, l
<1>9. \A j \in 1 .. 1 : ValuesAt(a, m, p, kinds)[j] = Unsigned(a, cells[p + j])
  BY <1>5, <1>8 DEF AreValues, cells
<1>10. ValuesAt(a, m, p, kinds)[1] = x
  BY <1>4, <1>9
<1> QED
  BY <1>5, <1>7, <1>10 DEF kinds, s

\* The number of aliases, and each of them.
LEMMA AliasRead ==
  ASSUME NEW a \in {4, 8}, NEW m \in TypeMaps, Writable(a, Volume(a), m),
         NEW i \in 1 .. Len(m), Numbered(m)[i].type # "base"
  PROVE  LET p == FieldPlace(a, m, i, Len(Fields(m, i)))
             aliases == Numbered(m)[i].aliases
         IN  /\ IsRead(a, m, p, << "size" >>, AliasPlace(a, m, i, 0))
             /\ ValuesAt(a, m, p, << "size" >>)[1] = Len(aliases)
             /\ \A k \in 1 .. Len(aliases) :
                  LET q == AliasPlace(a, m, i, k - 1)
                  IN  /\ IsRead(a, m, q, << "size" >>, AliasPlace(a, m, i, k))
                      /\ read_c_string(File(a, m), ValuesAt(a, m, q, << "size" >>)[1])
                           = aliases[k]
             /\ TypePlace(a, m, i) = AliasPlace(a, m, i, Len(aliases))
<1> DEFINE p == FieldPlace(a, m, i, Len(Fields(m, i)))
           cells == Cells(a, m)
           aliases == Numbered(m)[i].aliases
           n == Len(aliases)
           l == Len(cells)
<1>1. /\ p \in Nat
      /\ cells[p + 1] = SizeCell(n)
      /\ \A k \in 1 .. n : cells[(p + 1) + k] = SizeCell(StringOffset(Volume(a), aliases[k]))
      /\ TypePlace(a, m, i) = (p + 1) + n
      /\ (p + 1) + n <= l
  BY AliasInFile
<1>2. n \in Nat /\ l \in Nat
  BY TypeFacts, ListFacts, FileHolds
<1>3. \A k \in 1 .. n : Met(aliases[k])
  BY TypeFacts
<1>4. \A k : AliasPlace(a, m, i, k) = (p + 1) + k
  BY DEF AliasPlace
<1> HIDE DEF p, aliases, n, l, cells
<1>5. p + 1 <= l /\ AliasPlace(a, m, i, 0) = p + 1
  BY <1>1, <1>2, <1>4
<1>6. IsRead(a, m, p, << "size" >>, p + 1) /\ ValuesAt(a, m, p, << "size" >>)[1] = n
  BY <1>1, <1>2, <1>5, OneRead DEF cells, l
<1>7. ASSUME NEW k \in 1 .. n
      PROVE  LET q == AliasPlace(a, m, i, k - 1)
             IN  /\ IsRead(a, m, q, << "size" >>, AliasPlace(a, m, i, k))
                 /\ read_c_string(File(a, m), ValuesAt(a, m, q, << "size" >>)[1]) = aliases[k]
  <2> DEFINE q == AliasPlace(a, m, i, k - 1)
             o == StringOffset(Volume(a), aliases[k])
  <2>1. q = (p + 1) + (k - 1) /\ AliasPlace(a, m, i, k) = (p + 1) + k
    BY <1>4
  <2>2. cells[(p + 1) + k] = SizeCell(o)
    BY <1>1
  <2>3. read_c_string(File(a, m), o) = aliases[k] /\ o \in Nat
    BY <1>3, StringRead
  <2> HIDE DEF q, o
  <2>4. q \in Nat /\ q + 1 = (p + 1) + k /\ q + 1 <= l
    BY <1>1, <1>2, <2>1
  <2>5. IsRead(a, m, q, << "size" >>, q + 1) /\ ValuesAt(a, m, q, << "size" >>)[1] = o
    BY <2>2, <2>3, <2>4, OneRead DEF cells, l
  <2> QED
    BY <2>1, <2>3, <2>4, <2>5 DEF q
<1>8. TypePlace(a, m, i) = AliasPlace(a, m, i, n)
  BY <1>1, <1>4
<1> QED
  BY <1>5, <1>6, <1>7, <1>8 DEF p, aliases, n
-----------------------------------------------------------------------------
\* The inductive invariant.  Between two steps of a load everything is
\* determined by how far the loop has come in the file of the source.

\* The type the loop is at, and what is left of it.
Current == Len(source) - loop.types

Aliases(i) == Numbered(source)[i].aliases

FieldsStored(i) ==
  IF pc = "fields" THEN Len(Fields(source, i)) - loop.items ELSE Len(Fields(source, i))

AliasesAdded(i) ==
  IF pc = "fields" THEN 0
  ELSE IF pc = "aliases" THEN Len(Aliases(i)) - loop.items ELSE Len(Aliases(i))

ReaderPlace ==
  IF pc = "fields" THEN FieldPlace(arch, source, Current, FieldsStored(Current))
  ELSE IF pc = "aliases" THEN AliasPlace(arch, source, Current, AliasesAdded(Current))
  ELSE TypePlace(arch, source, Current)

\* What does not depend on the file.
FrameInv ==
  /\ arch \in Arch
  /\ pc \in {"idle", "types", "fields", "aliases", "done"}
  /\ reader = [offset |-> reader.offset, copy |-> reader.copy]
  /\ reader.copy \in BOOLEAN
  /\ loop = [types |-> loop.types, id |-> loop.id, items |-> loop.items]
  /\ loop.id \in 0 .. MaxTypes
  /\ copies \subseteq Name

IdleInv ==
  pc = "idle" => /\ R!Init
                 /\ source = <<>>
                 /\ reader.offset = 0
                 /\ loop.types = 0 /\ loop.items = 0
                 /\ copies = {}

\* The file being read, and where in it the reader is.
PlaceInv ==
  pc # "idle" =>
    /\ is_init = TRUE
    /\ source \in TypeMaps
    /\ Writable(arch, Volume(arch), source)
    /\ data = File(arch, source) \/ (pc = "done" /\ reader.copy /\ data = NoData)
    /\ loop.types \in 0 .. Len(source)
    /\ pc = "done" => loop.types = 0
    /\ loop.items \in Nat
    /\ pc \in {"fields", "aliases"} =>
         /\ Current \in 1 .. Len(source)
         /\ Numbered(source)[Current].type # "base"
         /\ loop.id = Current
    /\ pc = "fields" => loop.items \in 0 .. Len(Fields(source, Current))
    /\ pc = "aliases" => loop.items \in 0 .. Len(Aliases(Current))
    /\ reader.offset = Place(arch, Cells(arch, source), ReaderPlace)

\* The slot of a type of which so many fields have been stored.
Element(a, m, i, k) ==
  LET f == Fields(m, i)[k]
  IN  IF Numbered(m)[i].type = "enum" THEN [name |-> f.name, value |-> f.value % Word[a]]
      ELSE Info(m, f)

IsFilled(a, m, i, k, slot) ==
  LET d == Numbered(m)[i]
      n == Len(Fields(m, i))
  IN  IF d.type = "base"
      THEN slot = [id |-> i, name |-> d.name, size |-> d.size, variant |-> 1,
                   field_count |-> 0, fields |-> R!Malloc(0), field_table |-> Garbage]
      ELSE /\ slot = [id |-> i, name |-> d.name, size |-> d.size,
                      variant |-> object_types[d.type], field_count |-> k,
                      fields |-> [j \in 0 .. n - 1 |->
                                    IF j < k THEN Element(a, m, i, j + 1) ELSE Garbage],
                      field_table |-> slot.field_table]
           /\ slot.field_table \in Tables(2 * n, 0 .. n - 1)
           /\ WellFormed(slot.field_table)

\* The table after so many types, with so many fields of the last of them.
SlotsAre(a, m, count, k, table) ==
  /\ DOMAIN table = 0 .. Len(m)
  /\ \A t \in 0 .. Len(m) :
       IF t \in 1 .. count
       THEN IsFilled(a, m, t, IF t = count THEN k ELSE Len(Fields(m, t)), table[t])
       ELSE table[t] = R!RawSlot

SlotsInv ==
  pc # "idle" => SlotsAre(arch, source, Current, FieldsStored(Current), type_table)

LoaderInv == FrameInv /\ IdleInv /\ PlaceInv /\ SlotsInv

\* The types among the first that lay claim to a name, when so many aliases of
\* the last of them were added.
ClaimedBy(m, count, k, name) ==
  {t \in 1 .. count :
     \/ Numbered(m)[t].name = name
     \/ /\ Numbered(m)[t].type # "base"
        /\ \E j \in 1 .. (IF t = count THEN k ELSE Len(Numbered(m)[t].aliases)) :
             Numbered(m)[t].aliases[j] = name}

\* A hash table finds the last of them.
NamesAre(m, count, k, ht) ==
  /\ ht \in Tables(2 * Len(m), 1 .. Len(m))
  /\ WellFormed(ht)
  /\ Len(m) # 0 =>
       \A name \in Name :
         LET claimed == ClaimedBy(m, count, k, name)
             t == hashtable_get(ht, name)
         IN  \/ claimed = {} /\ t = NotFound
             \/ t \in claimed /\ \A u \in claimed : u <= t

NamesInv ==
  pc # "idle" => NamesAre(source, Current, AliasesAdded(Current), type_hash_table)

\* The strings of the first types are in a set: their names, and those of
\* their fields and aliases, of the last type k fields and l aliases.
StringsIn(m, count, k, l, set) ==
  \A t \in 1 .. count :
    /\ Numbered(m)[t].name \in set
    /\ Numbered(m)[t].type # "base" =>
         /\ \A j \in 1 .. (IF t = count THEN k ELSE Len(Fields(m, t))) :
              Fields(m, t)[j].name \in set
         /\ \A j \in 1 .. (IF t = count THEN l ELSE Len(Numbered(m)[t].aliases)) :
              Numbered(m)[t].aliases[j] \in set

\* A load with copy has copied every string that it has read.
CopiesInv ==
  pc # "idle" /\ reader.copy =>
    StringsIn(source, Current, FieldsStored(Current), AliasesAdded(Current), copies)
-----------------------------------------------------------------------------
\* What each step does, in terms of the source.

\* The hash tables of Registry are those of HashTable.
LEMMA SameTables ==
  /\ \A c : R!hashtable_create(c) = hashtable_create(c)
  /\ \A ht, key : R!hashtable_get(ht, key) = hashtable_get(ht, key)
  /\ \A ht, e : R!hashtable_insert(ht, e) = hashtable_insert(ht, e)
  /\ \A c, Ids : R!Tables(c, Ids) = Tables(c, Ids)
  /\ R!NotFound = NotFound
<1>1. \A ht, key : R!HashKey(ht, key) = HashKey(ht, key)
  BY DEF HashKey, R!HashKey
<1>2. \A chain, key : R!Matches(chain, key) = Matches(chain, key)
  BY DEF Matches, R!Matches
<1>3. \A chain, key : R!FirstMatch(chain, key) = FirstMatch(chain, key)
  BY <1>2 DEF FirstMatch, R!FirstMatch, Min, R!Min
<1>4. \A chain, e : R!ChainInsert(chain, e) = ChainInsert(chain, e)
  BY <1>2, <1>3 DEF ChainInsert, R!ChainInsert
<1>5. R!NotFound = NotFound
  BY DEF NotFound, R!NotFound
<1>6. \A c : R!hashtable_create(c) = hashtable_create(c)
  BY DEF hashtable_create, R!hashtable_create
<1>7. \A ht, key : R!hashtable_get(ht, key) = hashtable_get(ht, key)
  BY <1>1, <1>2, <1>3, <1>5 DEF hashtable_get, R!hashtable_get
<1>8. \A ht, e : R!hashtable_insert(ht, e) = hashtable_insert(ht, e)
  BY <1>1, <1>4 DEF hashtable_insert, R!hashtable_insert
<1>9. \A c, Ids : R!Tables(c, Ids) = Tables(c, Ids)
  <2>1. \A Ids : R!hash_t(Ids) = hash_t(Ids)
    BY DEF hash_t, R!hash_t
  <2> QED
    BY <2>1 DEF Tables, R!Tables
<1> QED
  BY <1>5, <1>6, <1>7, <1>8, <1>9

\* The second value does not depend on whether a fifth is read.
LEMMA SameSecond ==
  ASSUME NEW a, NEW file, NEW o
  PROVE  ReadCells(a, file, o, TypeKinds)[2] = ReadCells(a, file, o, HeadKinds)[2]
<1>1. SubSeq(TypeKinds, 1, 1) = SubSeq(HeadKinds, 1, 1)
  <2>1. SubSeq(TypeKinds, 1, 1) = [k \in 1 .. 1 |-> TypeKinds[k]]
    OBVIOUS
  <2>2. SubSeq(HeadKinds, 1, 1) = [k \in 1 .. 1 |-> HeadKinds[k]]
    OBVIOUS
  <2>3. \A k \in 1 .. 1 : TypeKinds[k] = HeadKinds[k]
    BY KindsFacts
  <2> QED
    BY <2>1, <2>2, <2>3
<1>2. CellAt(a, o, TypeKinds, 2) = CellAt(a, o, HeadKinds, 2)
  <2>1. 2 - 1 = 1
    OBVIOUS
  <2> QED
    BY <1>1, <2>1 DEF CellAt
<1>3. 2 \in DOMAIN TypeKinds /\ 2 \in DOMAIN HeadKinds
  BY KindsFacts, ListFacts
<1> QED
  BY <1>2, <1>3 DEF ReadCells

\* The invariant at the start of a type.
LEMMA AtType ==
  ASSUME LoaderInv, pc = "types", loop.types > 0
  PROVE  /\ arch \in {4, 8} /\ source \in TypeMaps /\ Len(source) \in Nat
         /\ Current + 1 \in 1 .. Len(source) /\ Current \in Nat
         /\ data = File(arch, source)
         /\ loop.types \in 1 .. Len(source)
         /\ reader.offset = Place(arch, Cells(arch, source), TypePlace(arch, source, Current))
         /\ type_table[Current + 1] = R!RawSlot
         /\ Writable(arch, Volume(arch), source)
<1>1. /\ arch \in {4, 8} /\ source \in TypeMaps /\ data = File(arch, source)
      /\ Writable(arch, Volume(arch), source)
      /\ loop.types \in 0 .. Len(source)
  BY LoaderAssumption, WordAssumption DEF LoaderInv, FrameInv, PlaceInv
<1>2. Len(source) \in Nat
  BY <1>1, MapFacts
<1>3. /\ Current + 1 \in 1 .. Len(source) /\ Current \in Nat
      /\ loop.types \in 1 .. Len(source)
  BY <1>1, <1>2 DEF Current
<1>4. reader.offset = Place(arch, Cells(arch, source), TypePlace(arch, source, Current))
  BY DEF LoaderInv, PlaceInv, ReaderPlace
<1>5. type_table[Current + 1] = R!RawSlot
  <2>1. Current + 1 \in 0 .. Len(source) /\ ~ (Current + 1 \in 1 .. Current)
    BY <1>2, <1>3
  <2> DEFINE i == Current + 1
  <2>2. i \in 0 .. Len(source) /\ ~ (i \in 1 .. Current)
    BY <2>1
  <2> HIDE DEF i
  <2>3. type_table[i] = R!RawSlot
    BY <2>2 DEF LoaderInv, SlotsInv, SlotsAre
  <2> QED
    BY <2>3 DEF i
<1> QED
  BY <1>1, <1>2, <1>3, <1>4, <1>5

\* A base type is read.
BaseStep ==
  LET i == Current + 1
      d == Numbered(source)[i]
  IN  /\ pc = "types" /\ loop.types > 0
      /\ d.type = "base"
      /\ type_table' = [type_table EXCEPT ![i] =
           [id |-> i, name |-> d.name, size |-> d.size, variant |-> 1, field_count |-> 0,
            fields |-> R!Malloc(0), field_table |-> Garbage]]
      /\ type_hash_table' = hashtable_insert(type_hash_table, [name |-> d.name, id |-> i])
      /\ reader' = [offset |-> Place(arch, Cells(arch, source), TypePlace(arch, source, i)),
                    copy |-> reader.copy]
      /\ copies' = IF reader.copy THEN copies \cup {d.name} ELSE copies
      /\ loop' = [types |-> loop.types - 1, id |-> loop.id, items |-> loop.items]
      /\ UNCHANGED <<is_init, arch, data, pc, source>>

LEMMA LoadBaseStep == LoaderInv /\ LoadBase => BaseStep
<1> SUFFICES ASSUME LoaderInv, LoadBase PROVE BaseStep
  OBVIOUS
<1> DEFINE i == Current + 1
           d == Numbered(source)[i]
           v == Values(HeadKinds)
           p == TypePlace(arch, source, Current)
<1>1. /\ arch \in {4, 8} /\ source \in TypeMaps
      /\ i \in 1 .. Len(source) /\ Current \in Nat
      /\ data = File(arch, source)
      /\ reader.offset = Place(arch, Cells(arch, source), p)
      /\ type_table[i] = R!RawSlot
      /\ Writable(arch, Volume(arch), source)
  BY AtType DEF LoadBase
<1>2. i - 1 = Current
  BY <1>1
<1> HIDE DEF i
<1>3. /\ IsRead(arch, source, p, HeadKinds, p + 4)
      /\ IsHeadRead(arch, source, i, ValuesAt(arch, source, p, HeadKinds))
  BY <1>1, <1>2, HeadRead
<1>4. v = ValuesAt(arch, source, p, HeadKinds)
  BY <1>1 DEF Values, ValuesAt
<1>5. ReadOffset(arch, reader.offset, HeadKinds) = Place(arch, Cells(arch, source), p + 4)
  BY <1>1, <1>3 DEF IsRead
<1>6. v[1] = i /\ v[2] = object_types[d.type] /\ String(v[3]) = d.name /\ v[4] = d.size
  BY <1>1, <1>3, <1>4 DEF IsHeadRead, String
<1>7. d.type = "base"
  <2>1. v[2] = 1
    BY DEF LoadBase, R!Base
  <2>2. d.type \in {"base", "struct", "union", "enum"}
    BY <1>1, TypeFacts
  <2> QED
    BY <1>6, <2>1, <2>2 DEF object_types
<1>8. TypePlace(arch, source, i) = p + 4
  BY <1>1, <1>2, <1>7, HeadInFile
<1> HIDE DEF v, d, p
<1>9. type_table' = [type_table EXCEPT ![i] =
        [id |-> i, name |-> d.name, size |-> d.size, variant |-> 1, field_count |-> 0,
         fields |-> R!Malloc(0), field_table |-> Garbage]]
  <2>1. type_table' = [type_table EXCEPT ![i] =
          [id |-> i, name |-> d.name, size |-> d.size, variant |-> 1, field_count |-> 0,
           fields |-> R!Malloc(0), field_table |-> type_table[i].field_table]]
    BY <1>6 DEF LoadBase, R!add_base_type_info, R!Base, v
  <2>2. type_table[i].field_table = Garbage
    BY <1>1 DEF R!RawSlot
  <2> QED
    BY <2>1, <2>2
<1>10. type_hash_table' = hashtable_insert(type_hash_table, [name |-> d.name, id |-> i])
  BY <1>6, SameTables DEF LoadBase, R!add_base_type_info, R!RegisterName, v
<1>11. reader' = [offset |-> Place(arch, Cells(arch, source), TypePlace(arch, source, i)),
                  copy |-> reader.copy]
  <2>1. reader' = [reader EXCEPT !.offset = ReadOffset(arch, reader.offset, HeadKinds)]
    BY DEF LoadBase, Reads
  <2>2. reader = [offset |-> reader.offset, copy |-> reader.copy]
    BY DEF LoaderInv, FrameInv
  <2> QED
    BY <1>5, <1>8, <2>1, <2>2
<1>12. copies' = IF reader.copy THEN copies \cup {d.name} ELSE copies
  BY <1>6 DEF LoadBase, CopyString, v
<1>13. loop' = [types |-> loop.types - 1, id |-> loop.id, items |-> loop.items]
  BY DEF LoadBase, LoaderInv, FrameInv
<1>14. pc = "types" /\ loop.types > 0 /\ UNCHANGED <<is_init, arch, data, pc, source>>
  BY DEF LoadBase
<1> QED
  BY <1>7, <1>9, <1>10, <1>11, <1>12, <1>13, <1>14 DEF BaseStep, i, d

\* The head of a record, union or enum is read.
FieldedStep ==
  LET i == Current + 1
      d == Numbered(source)[i]
      n == Len(Fields(source, i))
  IN  /\ pc = "types" /\ loop.types > 0
      /\ d.type # "base"
      /\ type_table' = [type_table EXCEPT ![i] =
           [id |-> i, name |-> d.name, size |-> d.size, variant |-> object_types[d.type],
            field_count |-> 0, fields |-> R!Malloc(n), field_table |-> hashtable_create(n * 2)]]
      /\ type_hash_table' = hashtable_insert(type_hash_table, [name |-> d.name, id |-> i])
      /\ reader' = [offset |-> Place(arch, Cells(arch, source), FieldPlace(arch, source, i, 0)),
                    copy |-> reader.copy]
      /\ copies' = IF reader.copy THEN copies \cup {d.name} ELSE copies
      /\ loop' = [types |-> loop.types - 1, id |-> i, items |-> n]
      /\ pc' = "fields"
      /\ UNCHANGED <<is_init, arch, data, source>>

LEMMA LoadFieldedStep == LoaderInv /\ LoadFielded => FieldedStep
<1> SUFFICES ASSUME LoaderInv, LoadFielded PROVE FieldedStep
  OBVIOUS
<1> DEFINE i == Current + 1
           d == Numbered(source)[i]
           n == Len(Fields(source, i))
           kinds == TypeKinds
           v == Values(kinds)
           p == TypePlace(arch, source, Current)
<1>1. /\ arch \in {4, 8} /\ source \in TypeMaps
      /\ i \in 1 .. Len(source) /\ Current \in Nat
      /\ data = File(arch, source)
      /\ reader.offset = Place(arch, Cells(arch, source), p)
      /\ Writable(arch, Volume(arch), source)
  BY AtType DEF LoadFielded
<1>2. i - 1 = Current
  BY <1>1
<1> HIDE DEF i
<1>3. Reads(kinds)
  BY DEF LoadFielded, TypeKinds
<1>4. \/ /\ v[2] \in {2, 3}
         /\ R!AddTypeWithFields(String(v[3]), v[1], v[4], v[2], v[5])
      \/ /\ v[2] = 4
         /\ R!AddTypeWithFields(String(v[3]), v[1], v[4], 4, v[5])
  BY DEF LoadFielded, TypeKinds, R!Struct, R!Union, R!Enum, R!add_struct_type_info,
         R!add_enum_type_info
<1>5. CopyString(String(v[3])) /\ loop' = [types |-> loop.types - 1, id |-> v[1], items |-> v[5]]
  BY DEF LoadFielded, TypeKinds
<1>6. v = ValuesAt(arch, source, p, kinds)
  BY <1>1 DEF Values, ValuesAt
<1>7. IsHeadRead(arch, source, i, ValuesAt(arch, source, p, HeadKinds))
  BY <1>1, <1>2, HeadRead
<1>8. d.type # "base"
  <2>1. v[2] = ValuesAt(arch, source, p, HeadKinds)[2]
    BY <1>6, SameSecond DEF ValuesAt
  <2>2. v[2] = object_types[d.type]
    BY <1>7, <2>1 DEF IsHeadRead
  <2>3. v[2] # 1
    BY <1>4
  <2> QED
    BY <2>2, <2>3 DEF object_types
<1>9. /\ IsRead(arch, source, p, kinds, p + 5)
      /\ IsHeadRead(arch, source, i, ValuesAt(arch, source, p, kinds))
      /\ ValuesAt(arch, source, p, kinds)[5] = n
  BY <1>1, <1>2, <1>8, HeadRead
<1>10. ReadOffset(arch, reader.offset, kinds) = Place(arch, Cells(arch, source), p + 5)
  BY <1>1, <1>9 DEF IsRead
<1>11. /\ v[1] = i /\ v[2] = object_types[d.type] /\ String(v[3]) = d.name /\ v[4] = d.size
       /\ v[5] = n
  BY <1>1, <1>6, <1>9 DEF IsHeadRead, String
<1>12. FieldPlace(arch, source, i, 0) = p + 5
  BY <1>1, <1>2, <1>8, HeadInFile
<1> HIDE DEF v, d, p, n, kinds
<1>13. R!AddTypeWithFields(d.name, i, d.size, object_types[d.type], n)
  BY <1>4, <1>11
<1>14. type_table' = [type_table EXCEPT ![i] =
         [id |-> i, name |-> d.name, size |-> d.size, variant |-> object_types[d.type],
          field_count |-> 0, fields |-> R!Malloc(n), field_table |-> hashtable_create(n * 2)]]
  BY <1>13, SameTables DEF R!AddTypeWithFields
<1>15. type_hash_table' = hashtable_insert(type_hash_table, [name |-> d.name, id |-> i])
  BY <1>13, SameTables DEF R!AddTypeWithFields, R!RegisterName
<1>16. reader' = [offset |-> Place(arch, Cells(arch, source), FieldPlace(arch, source, i, 0)),
                  copy |-> reader.copy]
  <2>1. reader' = [reader EXCEPT !.offset = ReadOffset(arch, reader.offset, kinds)]
    BY <1>3 DEF Reads
  <2>2. reader = [offset |-> reader.offset, copy |-> reader.copy]
    BY DEF LoaderInv, FrameInv
  <2> QED
    BY <1>10, <1>12, <2>1, <2>2
<1>17. copies' = IF reader.copy THEN copies \cup {d.name} ELSE copies
  BY <1>5, <1>11 DEF CopyString
<1>18. loop' = [types |-> loop.types - 1, id |-> i, items |-> n]
  BY <1>5, <1>11
<1>19. /\ pc = "types" /\ loop.types > 0 /\ pc' = "fields"
       /\ UNCHANGED <<is_init, arch, data, source>>
  BY DEF LoadFielded
<1> QED
  BY <1>8, <1>14, <1>15, <1>16, <1>17, <1>18, <1>19 DEF FieldedStep, i, d, n

\* The invariant among the fields of a type.
LEMMA AtFields ==
  ASSUME LoaderInv, pc = "fields"
  PROVE  /\ arch \in {4, 8} /\ arch \in Arch /\ source \in TypeMaps /\ Len(source) \in Nat
         /\ Current \in 1 .. Len(source) /\ loop.id = Current
         /\ Numbered(source)[Current].type # "base"
         /\ data = File(arch, source)
         /\ Writable(arch, Volume(arch), source)
         /\ Len(Fields(source, Current)) \in Nat
         /\ loop.items \in 0 .. Len(Fields(source, Current))
         /\ FieldsStored(Current) = Len(Fields(source, Current)) - loop.items
         /\ reader.offset = Place(arch, Cells(arch, source),
                                  FieldPlace(arch, source, Current, FieldsStored(Current)))
         /\ IsFilled(arch, source, Current, FieldsStored(Current), type_table[Current])
<1>1. /\ arch \in {4, 8} /\ arch \in Arch /\ source \in TypeMaps /\ data = File(arch, source)
      /\ Writable(arch, Volume(arch), source)
      /\ Current \in 1 .. Len(source) /\ loop.id = Current
      /\ Numbered(source)[Current].type # "base"
      /\ loop.items \in 0 .. Len(Fields(source, Current))
  BY LoaderAssumption, WordAssumption DEF LoaderInv, FrameInv, PlaceInv
<1>2. Len(source) \in Nat
  BY <1>1, MapFacts
<1>3. Len(Fields(source, Current)) \in Nat
  BY <1>1, FieldFacts, LoaderAssumption
<1>4. FieldsStored(Current) = Len(Fields(source, Current)) - loop.items
  BY DEF FieldsStored
<1>5. reader.offset = Place(arch, Cells(arch, source),
                            FieldPlace(arch, source, Current, FieldsStored(Current)))
  BY DEF LoaderInv, PlaceInv, ReaderPlace
<1>6. IsFilled(arch, source, Current, FieldsStored(Current), type_table[Current])
  <2>1. Current \in 0 .. Len(source) /\ Current \in 1 .. Current
    BY <1>1, <1>2
  <2> DEFINE i == Current
  <2>2. i \in 0 .. Len(source) /\ i \in 1 .. Current
    BY <2>1
  <2> HIDE DEF i
  <2>3. IsFilled(arch, source, i, FieldsStored(i), type_table[i])
    BY <2>2 DEF LoaderInv, SlotsInv, SlotsAre, i
  <2> QED
    BY <2>3 DEF i
<1> QED
  BY <1>1, <1>2, <1>3, <1>4, <1>5, <1>6

\* A slot with one more field.
WithField(slot, k, e) ==
  [slot EXCEPT !.fields[k] = e,
               !.field_table = hashtable_insert(slot.field_table, [name |-> e.name, id |-> k]),
               !.field_count = k + 1]

\* A field is read.
ElementStep ==
  LET i == Current
      k == FieldsStored(i)
      e == Element(arch, source, i, k + 1)
  IN  /\ pc = "fields" /\ loop.items > 0
      /\ type_table' = [type_table EXCEPT ![i] = WithField(type_table[i], k, e)]
      /\ reader' = [offset |-> Place(arch, Cells(arch, source), FieldPlace(arch, source, i, k + 1)),
                    copy |-> reader.copy]
      /\ copies' = IF reader.copy THEN copies \cup {e.name} ELSE copies
      /\ loop' = [types |-> loop.types, id |-> loop.id, items |-> loop.items - 1]
      /\ UNCHANGED <<type_hash_table, is_init, arch, data, pc, source>>

\* Storing a field in a slot of the invariant.
LEMMA FieldAppended ==
  ASSUME NEW i \in 1 .. Len(source), NEW k, NEW e, IsFilled(arch, source, i, k, type_table[i]),
         Numbered(source)[i].type # "base"
  PROVE  R!AppendField(type_table[i], e) = WithField(type_table[i], k, e)
<1> DEFINE slot == type_table[i]
           table == slot.field_table
<1>1. slot.field_count = k
  BY DEF IsFilled
<1>2. R!hashtable_insert(table, [name |-> e.name, id |-> k])
        = hashtable_insert(table, [name |-> e.name, id |-> k])
  BY SameTables
<1> HIDE DEF slot
<1>3. R!AppendField(slot, e) = WithField(slot, k, e)
  BY <1>1, <1>2 DEF R!AppendField, WithField
<1> QED
  BY <1>3 DEF slot

LEMMA LoadFieldStep == LoaderInv /\ LoadField => ElementStep /\ Numbered(source)[Current].type # "enum"
<1> SUFFICES ASSUME LoaderInv, LoadField
             PROVE  ElementStep /\ Numbered(source)[Current].type # "enum"
  OBVIOUS
<1> DEFINE i == Current
           k == FieldsStored(i)
           n == Len(Fields(source, i))
           d == Numbered(source)[i]
           f == Fields(source, i)[k + 1]
           e == Element(arch, source, i, k + 1)
           kinds == FieldKinds
           v == Values(kinds)
           info == [name |-> String(v[1]), is_const |-> v[2] = 1, ptr_depth |-> v[3],
                    offset |-> v[4], arr_size |-> v[5], type_ptr |-> v[6]]
           p == FieldPlace(arch, source, i, k)
<1>1. /\ arch \in {4, 8} /\ arch \in Arch /\ source \in TypeMaps
      /\ i \in 1 .. Len(source) /\ loop.id = i /\ d.type # "base"
      /\ data = File(arch, source)
      /\ Writable(arch, Volume(arch), source)
      /\ n \in Nat /\ loop.items \in 0 .. n
      /\ k = n - loop.items
      /\ reader.offset = Place(arch, Cells(arch, source), p)
      /\ IsFilled(arch, source, i, k, type_table[i])
  BY AtFields DEF LoadField
<1>2. loop.items > 0 /\ pc = "fields" /\ type_table[i].variant \in {2, 3}
  BY <1>1 DEF LoadField, R!Struct, R!Union
<1>3. d.type \in {"struct", "union"}
  <2>1. type_table[i].variant = object_types[d.type]
    BY <1>1 DEF IsFilled
  <2>2. d.type \in {"base", "struct", "union", "enum"}
    BY <1>1, TypeFacts
  <2> QED
    BY <1>1, <1>2, <2>1, <2>2 DEF object_types
<1>4. k + 1 \in 1 .. n /\ (k + 1) - 1 = k
  BY <1>1, <1>2
<1>5. /\ f.const \in BOOLEAN
  BY <1>1, <1>3, <1>4, FieldFacts
<1> DEFINE j == k + 1
<1>6. j \in 1 .. n /\ j - 1 = k
  BY <1>4
<1> HIDE DEF j, i, k
<1>7. /\ IsRead(arch, source, p, kinds, FieldPlace(arch, source, i, j))
      /\ IsFieldRead(arch, source, Fields(source, i)[j], ValuesAt(arch, source, p, kinds))
  BY <1>1, <1>3, <1>6, FieldRead
<1>8. v = ValuesAt(arch, source, p, kinds)
  BY <1>1 DEF Values, ValuesAt
<1>9. /\ Reads(kinds) /\ R!add_struct_field_type(i, info) /\ CopyString(info.name)
  BY <1>1 DEF LoadField, FieldKinds
<1> HIDE DEF v, kinds, p
<1>10. /\ String(v[1]) = f.name /\ v[2] = (IF f.const THEN 1 ELSE 0) /\ v[3] = f.pdepth
       /\ v[4] = f.offset /\ v[5] = f.arrsize
       /\ v[6] = RefId(Numbered(source), f.type)
  BY <1>1, <1>7, <1>8 DEF String, j, IsFieldRead
<1> HIDE DEF f
<1>11. info = Info(source, f)
  <2>1. (v[2] = 1) = f.const
    BY <1>5, <1>10
  <2> QED
    BY <1>10, <2>1 DEF Info
<1>12. e = info
  BY <1>3, <1>11 DEF Element, f, d
<1> HIDE DEF e, info
<1>13. type_table' = [type_table EXCEPT ![i] = R!AppendField(type_table[i], e)]
       /\ UNCHANGED type_hash_table
  BY <1>9, <1>12 DEF R!add_struct_field_type
<1>14. R!AppendField(type_table[i], e) = WithField(type_table[i], k, e)
  BY <1>1, FieldAppended
<1>15. type_table' = [type_table EXCEPT ![i] = WithField(type_table[i], k, e)]
  BY <1>13, <1>14
<1>16. reader' = [offset |-> Place(arch, Cells(arch, source), FieldPlace(arch, source, i, k + 1)),
                  copy |-> reader.copy]
  <2>1. reader' = [reader EXCEPT !.offset = ReadOffset(arch, reader.offset, kinds)]
    BY <1>9 DEF Reads
  <2>2. reader = [offset |-> reader.offset, copy |-> reader.copy]
    BY DEF LoaderInv, FrameInv
  <2>3. ReadOffset(arch, reader.offset, kinds)
          = Place(arch, Cells(arch, source), FieldPlace(arch, source, i, j))
    BY <1>1, <1>7 DEF IsRead
  <2> QED
    BY <2>1, <2>2, <2>3 DEF j
<1>17. copies' = IF reader.copy THEN copies \cup {e.name} ELSE copies
  BY <1>9, <1>12 DEF CopyString
<1>18. loop' = [types |-> loop.types, id |-> loop.id, items |-> loop.items - 1]
  BY DEF LoadField, LoaderInv, FrameInv
<1>19. UNCHANGED <<is_init, arch, data, pc, source>>
  BY DEF LoadField
<1>20. ElementStep
  BY <1>2, <1>13, <1>15, <1>16, <1>17, <1>18, <1>19 DEF ElementStep, i, k, e
<1> QED
  BY <1>3, <1>20 DEF i

LEMMA LoadEnumeratorStep ==
  LoaderInv /\ LoadEnumerator => ElementStep /\ Numbered(source)[Current].type = "enum"
<1> SUFFICES ASSUME LoaderInv, LoadEnumerator
             PROVE  ElementStep /\ Numbered(source)[Current].type = "enum"
  OBVIOUS
<1> DEFINE i == Current
           k == FieldsStored(i)
           n == Len(Fields(source, i))
           d == Numbered(source)[i]
           f == Fields(source, i)[k + 1]
           e == Element(arch, source, i, k + 1)
           kinds == EnumeratorKinds
           v == Values(kinds)
           p == FieldPlace(arch, source, i, k)
           j == k + 1
<1>1. /\ arch \in {4, 8} /\ arch \in Arch /\ source \in TypeMaps
      /\ i \in 1 .. Len(source) /\ loop.id = i /\ d.type # "base"
      /\ data = File(arch, source)
      /\ Writable(arch, Volume(arch), source)
      /\ n \in Nat /\ loop.items \in 0 .. n
      /\ k = n - loop.items
      /\ reader.offset = Place(arch, Cells(arch, source), p)
      /\ IsFilled(arch, source, i, k, type_table[i])
  BY AtFields DEF LoadEnumerator
<1>2. loop.items > 0 /\ pc = "fields" /\ type_table[i].variant = 4
  BY <1>1 DEF LoadEnumerator, R!Enum
<1>3. d.type = "enum"
  <2>1. type_table[i].variant = object_types[d.type]
    BY <1>1 DEF IsFilled
  <2>2. d.type \in {"base", "struct", "union", "enum"}
    BY <1>1, TypeFacts
  <2> QED
    BY <1>1, <1>2, <2>1, <2>2 DEF object_types
<1>4. j \in 1 .. n /\ j - 1 = k
  BY <1>1, <1>2
<1> HIDE DEF j, i, k
<1>5. /\ IsRead(arch, source, p, kinds, FieldPlace(arch, source, i, j))
      /\ read_c_string(File(arch, source), ValuesAt(arch, source, p, kinds)[1])
           = Fields(source, i)[j].name
      /\ ValuesAt(arch, source, p, kinds)[2] = Fields(source, i)[j].value % Word[arch]
  BY <1>1, <1>3, <1>4, EnumeratorRead, SMTT(30)
<1>6. v = ValuesAt(arch, source, p, kinds)
  BY <1>1 DEF Values, ValuesAt
<1>7. /\ Reads(kinds) /\ R!add_enum_field_type(i, String(v[1]), v[2]) /\ CopyString(String(v[1]))
  BY <1>1 DEF LoadEnumerator, EnumeratorKinds
<1> HIDE DEF v, kinds, p
<1>8. String(v[1]) = f.name /\ v[2] = f.value % Word[arch]
  BY <1>1, <1>5, <1>6 DEF String, j
<1>9. e = [name |-> f.name, value |-> f.value % Word[arch]]
  BY <1>3 DEF Element, d
<1> HIDE DEF e, f
<1>10. type_table' = [type_table EXCEPT ![i] = R!AppendField(type_table[i], e)]
       /\ UNCHANGED type_hash_table
  BY <1>7, <1>8, <1>9 DEF R!add_enum_field_type
<1>11. R!AppendField(type_table[i], e) = WithField(type_table[i], k, e)
  BY <1>1, FieldAppended
<1>12. type_table' = [type_table EXCEPT ![i] = WithField(type_table[i], k, e)]
  BY <1>10, <1>11
<1>13. reader' = [offset |-> Place(arch, Cells(arch, source), FieldPlace(arch, source, i, k + 1)),
                  copy |-> reader.copy]
  <2>1. reader' = [reader EXCEPT !.offset = ReadOffset(arch, reader.offset, kinds)]
    BY <1>7 DEF Reads
  <2>2. reader = [offset |-> reader.offset, copy |-> reader.copy]
    BY DEF LoaderInv, FrameInv
  <2>3. ReadOffset(arch, reader.offset, kinds)
          = Place(arch, Cells(arch, source), FieldPlace(arch, source, i, j))
    BY <1>1, <1>5 DEF IsRead
  <2> QED
    BY <2>1, <2>2, <2>3 DEF j
<1>14. copies' = IF reader.copy THEN copies \cup {e.name} ELSE copies
  BY <1>7, <1>8, <1>9 DEF CopyString
<1>15. loop' = [types |-> loop.types, id |-> loop.id, items |-> loop.items - 1]
  BY DEF LoadEnumerator, LoaderInv, FrameInv
<1>16. UNCHANGED <<is_init, arch, data, pc, source>>
  BY DEF LoadEnumerator
<1>17. ElementStep
  BY <1>2, <1>10, <1>12, <1>13, <1>14, <1>15, <1>16 DEF ElementStep, i, k, e
<1> QED
  BY <1>3, <1>17 DEF i

\* The number of aliases is read.
AliasCountStep ==
  /\ pc = "fields" /\ loop.items = 0
  /\ reader' = [offset |-> Place(arch, Cells(arch, source), AliasPlace(arch, source, Current, 0)),
                copy |-> reader.copy]
  /\ loop' = [types |-> loop.types, id |-> loop.id, items |-> Len(Aliases(Current))]
  /\ pc' = "aliases"
  /\ UNCHANGED <<registry, arch, data, copies, source>>

LEMMA ReadAliasCountStep == LoaderInv /\ ReadAliasCount => AliasCountStep
<1> SUFFICES ASSUME LoaderInv, ReadAliasCount PROVE AliasCountStep
  OBVIOUS
<1> DEFINE i == Current
           n == Len(Fields(source, i))
           kinds == << "size" >>
           v == Values(kinds)
           p == FieldPlace(arch, source, i, n)
<1>1. /\ arch \in {4, 8} /\ source \in TypeMaps
      /\ i \in 1 .. Len(source) /\ Numbered(source)[i].type # "base"
      /\ data = File(arch, source)
      /\ Writable(arch, Volume(arch), source)
      /\ n \in Nat /\ FieldsStored(i) = n - loop.items
      /\ reader.offset = Place(arch, Cells(arch, source),
                               FieldPlace(arch, source, i, FieldsStored(i)))
  BY AtFields DEF ReadAliasCount
<1>2. pc = "fields" /\ loop.items = 0
  BY DEF ReadAliasCount
<1>3. FieldsStored(i) = n
  BY <1>1, <1>2
<1>4. reader.offset = Place(arch, Cells(arch, source), p)
  BY <1>1, <1>3
<1> HIDE DEF i
<1>5. /\ IsRead(arch, source, p, kinds, AliasPlace(arch, source, i, 0))
      /\ ValuesAt(arch, source, p, kinds)[1] = Len(Aliases(i))
  BY <1>1, AliasRead DEF Aliases
<1>6. v = ValuesAt(arch, source, p, kinds)
  BY <1>1, <1>4 DEF Values, ValuesAt
<1>7. Reads(kinds) /\ loop' = [loop EXCEPT !.items = v[1]]
  BY DEF ReadAliasCount
<1> HIDE DEF v, kinds, p
<1>8. reader' = [offset |-> Place(arch, Cells(arch, source), AliasPlace(arch, source, i, 0)),
                 copy |-> reader.copy]
  <2>1. reader' = [reader EXCEPT !.offset = ReadOffset(arch, reader.offset, kinds)]
    BY <1>7 DEF Reads
  <2>2. reader = [offset |-> reader.offset, copy |-> reader.copy]
    BY DEF LoaderInv, FrameInv
  <2>3. ReadOffset(arch, reader.offset, kinds)
          = Place(arch, Cells(arch, source), AliasPlace(arch, source, i, 0))
    BY <1>4, <1>5 DEF IsRead
  <2> QED
    BY <2>1, <2>2, <2>3
<1>9. loop' = [types |-> loop.types, id |-> loop.id, items |-> Len(Aliases(i))]
  BY <1>5, <1>6, <1>7 DEF LoaderInv, FrameInv
<1> QED
  BY <1>2, <1>8, <1>9 DEF AliasCountStep, ReadAliasCount, i

\* The invariant among the aliases of a type.
LEMMA AtAliases ==
  ASSUME LoaderInv, pc = "aliases"
  PROVE  /\ arch \in {4, 8} /\ source \in TypeMaps /\ Len(source) \in Nat
         /\ Current \in 1 .. Len(source) /\ loop.id = Current
         /\ Numbered(source)[Current].type # "base"
         /\ data = File(arch, source)
         /\ Writable(arch, Volume(arch), source)
         /\ Len(Aliases(Current)) \in Nat
         /\ loop.items \in 0 .. Len(Aliases(Current))
         /\ AliasesAdded(Current) = Len(Aliases(Current)) - loop.items
         /\ reader.offset = Place(arch, Cells(arch, source),
                                  AliasPlace(arch, source, Current, AliasesAdded(Current)))
<1>1. /\ arch \in {4, 8} /\ source \in TypeMaps /\ data = File(arch, source)
      /\ Writable(arch, Volume(arch), source)
      /\ Current \in 1 .. Len(source) /\ loop.id = Current
      /\ Numbered(source)[Current].type # "base"
      /\ loop.items \in 0 .. Len(Aliases(Current))
  BY LoaderAssumption, WordAssumption DEF LoaderInv, FrameInv, PlaceInv
<1>2. Len(source) \in Nat
  BY <1>1, MapFacts
<1>3. Len(Aliases(Current)) \in Nat
  BY <1>1, TypeFacts, ListFacts DEF Aliases
<1>4. AliasesAdded(Current) = Len(Aliases(Current)) - loop.items
  BY DEF AliasesAdded
<1>5. reader.offset = Place(arch, Cells(arch, source),
                            AliasPlace(arch, source, Current, AliasesAdded(Current)))
  BY DEF LoaderInv, PlaceInv, ReaderPlace
<1> QED
  BY <1>1, <1>2, <1>3, <1>4, <1>5

\* An alias is read.
AliasStep ==
  LET i == Current
      k == AliasesAdded(i)
      alias == Aliases(i)[k + 1]
  IN  /\ pc = "aliases" /\ loop.items > 0
      /\ type_hash_table' = hashtable_insert(type_hash_table, [name |-> alias, id |-> i])
      /\ reader' = [offset |-> Place(arch, Cells(arch, source), AliasPlace(arch, source, i, k + 1)),
                    copy |-> reader.copy]
      /\ copies' = IF reader.copy THEN copies \cup {alias} ELSE copies
      /\ loop' = [types |-> loop.types, id |-> loop.id, items |-> loop.items - 1]
      /\ UNCHANGED <<type_table, is_init, arch, data, pc, source>>

LEMMA LoadAliasStep == LoaderInv /\ LoadAlias => AliasStep
<1> SUFFICES ASSUME LoaderInv, LoadAlias PROVE AliasStep
  OBVIOUS
<1> DEFINE i == Current
           k == AliasesAdded(i)
           n == Len(Aliases(i))
           j == k + 1
           alias == Aliases(i)[j]
           kinds == << "size" >>
           v == Values(kinds)
           p == AliasPlace(arch, source, i, k)
<1>1. /\ arch \in {4, 8} /\ source \in TypeMaps
      /\ i \in 1 .. Len(source) /\ loop.id = i /\ Numbered(source)[i].type # "base"
      /\ data = File(arch, source)
      /\ Writable(arch, Volume(arch), source)
      /\ n \in Nat /\ loop.items \in 0 .. n
      /\ k = n - loop.items
      /\ reader.offset = Place(arch, Cells(arch, source), p)
  BY AtAliases DEF LoadAlias
<1>2. pc = "aliases" /\ loop.items > 0
  BY DEF LoadAlias
<1>3. j \in 1 .. n /\ j - 1 = k
  BY <1>1, <1>2
<1> HIDE DEF j, i, k
<1>4. /\ IsRead(arch, source, p, kinds, AliasPlace(arch, source, i, j))
      /\ read_c_string(File(arch, source), ValuesAt(arch, source, p, kinds)[1]) = alias
  <2>1. \A l \in 1 .. n :
          /\ IsRead(arch, source, AliasPlace(arch, source, i, l - 1), kinds,
                    AliasPlace(arch, source, i, l))
          /\ read_c_string(File(arch, source),
                           ValuesAt(arch, source, AliasPlace(arch, source, i, l - 1), kinds)[1])
               = Aliases(i)[l]
    BY <1>1, AliasRead DEF Aliases
  <2> HIDE DEF n, kinds
  <2> QED
    BY <1>3, <2>1
<1>5. v = ValuesAt(arch, source, p, kinds)
  BY <1>1 DEF Values, ValuesAt
<1>6. Reads(kinds) /\ R!add_type_alias(i, String(v[1])) /\ CopyString(String(v[1]))
  BY <1>1 DEF LoadAlias
<1> HIDE DEF v, kinds, p, alias
<1>7. String(v[1]) = alias
  BY <1>1, <1>4, <1>5 DEF String
<1>8. /\ type_hash_table' = hashtable_insert(type_hash_table, [name |-> alias, id |-> i])
      /\ UNCHANGED type_table
  BY <1>6, <1>7, SameTables DEF R!add_type_alias, R!RegisterName
<1>9. reader' = [offset |-> Place(arch, Cells(arch, source), AliasPlace(arch, source, i, k + 1)),
                 copy |-> reader.copy]
  <2>1. reader' = [reader EXCEPT !.offset = ReadOffset(arch, reader.offset, kinds)]
    BY <1>6 DEF Reads
  <2>2. reader = [offset |-> reader.offset, copy |-> reader.copy]
    BY DEF LoaderInv, FrameInv
  <2>3. ReadOffset(arch, reader.offset, kinds)
          = Place(arch, Cells(arch, source), AliasPlace(arch, source, i, j))
    BY <1>1, <1>4 DEF IsRead
  <2> QED
    BY <2>1, <2>2, <2>3 DEF j
<1>10. copies' = IF reader.copy THEN copies \cup {alias} ELSE copies
  BY <1>6, <1>7 DEF CopyString
<1>11. loop' = [types |-> loop.types, id |-> loop.id, items |-> loop.items - 1]
  BY DEF LoadAlias, LoaderInv, FrameInv
<1>12. UNCHANGED <<is_init, arch, data, pc, source>>
  BY DEF LoadAlias
<1> QED
  BY <1>2, <1>8, <1>9, <1>10, <1>11, <1>12 DEF AliasStep, i, k, alias, j
-----------------------------------------------------------------------------
\* How the slots change.

\* One type more.
LEMMA SlotAdded ==
  ASSUME NEW a, NEW m \in TypeMaps, NEW c \in Nat, c + 1 \in 1 .. Len(m),
         NEW table, SlotsAre(a, m, c, Len(Fields(m, c)), table),
         NEW k, NEW slot, IsFilled(a, m, c + 1, k, slot)
  PROVE  SlotsAre(a, m, c + 1, k, [table EXCEPT ![c + 1] = slot])
<1> DEFINE i == c + 1
           new == [table EXCEPT ![i] = slot]
           n == Len(m)
<1>1. n \in Nat
  BY MapFacts
<1> HIDE DEF n
<1>2. i \in 1 .. n /\ i \in 0 .. n /\ c \in Nat /\ i = c + 1
  BY <1>1 DEF n
<1>3. /\ DOMAIN table = 0 .. n
      /\ \A t \in 0 .. n :
           IF t \in 1 .. c
           THEN IsFilled(a, m, t, IF t = c THEN Len(Fields(m, c)) ELSE Len(Fields(m, t)), table[t])
           ELSE table[t] = R!RawSlot
  BY DEF SlotsAre, n
<1>4. IsFilled(a, m, i, k, slot)
  OBVIOUS
<1> HIDE DEF i
<1>5. DOMAIN new = 0 .. n /\ new[i] = slot /\ \A t \in 0 .. n : t # i => new[t] = table[t]
  BY <1>2, <1>3
<1> HIDE DEF new
<1>6. ASSUME NEW t \in 0 .. n
      PROVE  IF t \in 1 .. i
             THEN IsFilled(a, m, t, IF t = i THEN k ELSE Len(Fields(m, t)), new[t])
             ELSE new[t] = R!RawSlot
  <2>1. CASE t = i
    BY <1>2, <1>4, <1>5, <2>1
  <2>2. CASE t # i /\ t \in 1 .. i
    <3>1. t \in 1 .. c
      BY <1>2, <2>2
    <3>2. IsFilled(a, m, t, Len(Fields(m, t)), table[t])
      BY <1>3, <3>1
    <3> QED
      BY <1>5, <2>2, <3>2
  <2>3. CASE ~ (t \in 1 .. i)
    <3>1. t # i /\ ~ (t \in 1 .. c)
      BY <1>2, <2>3
    <3> QED
      BY <1>3, <1>5, <2>3, <3>1
  <2> QED
    BY <2>1, <2>2, <2>3
<1>7. SlotsAre(a, m, i, k, new)
  BY <1>5, <1>6 DEF SlotsAre, n
<1> QED
  BY <1>7 DEF new, i

\* Another number of fields in the last type.
LEMMA SlotChanged ==
  ASSUME NEW a, NEW m \in TypeMaps, NEW c \in 1 .. Len(m), NEW l,
         NEW table, SlotsAre(a, m, c, l, table),
         NEW k, NEW slot, IsFilled(a, m, c, k, slot)
  PROVE  SlotsAre(a, m, c, k, [table EXCEPT ![c] = slot])
<1> DEFINE new == [table EXCEPT ![c] = slot]
           n == Len(m)
<1>1. n \in Nat
  BY MapFacts
<1>2. c \in 0 .. n /\ c \in 1 .. c
  BY <1>1
<1>3. /\ DOMAIN table = 0 .. n
      /\ \A t \in 0 .. n :
           IF t \in 1 .. c
           THEN IsFilled(a, m, t, IF t = c THEN l ELSE Len(Fields(m, t)), table[t])
           ELSE table[t] = R!RawSlot
  BY DEF SlotsAre
<1> HIDE DEF n
<1>4. DOMAIN new = 0 .. n /\ new[c] = slot /\ \A t \in 0 .. n : t # c => new[t] = table[t]
  BY <1>2, <1>3
<1> HIDE DEF new
<1>5. ASSUME NEW t \in 0 .. n
      PROVE  IF t \in 1 .. c
             THEN IsFilled(a, m, t, IF t = c THEN k ELSE Len(Fields(m, t)), new[t])
             ELSE new[t] = R!RawSlot
  <2>1. CASE t = c
    BY <1>2, <1>4, <2>1
  <2>2. CASE t # c
    BY <1>3, <1>4, <2>2
  <2> QED
    BY <2>1, <2>2
<1>6. SlotsAre(a, m, c, k, new)
  BY <1>4, <1>5 DEF SlotsAre, n
<1> QED
  BY <1>6 DEF new

\* A type with fields starts with none of them.
LEMMA FilledAtFirst ==
  ASSUME NEW a, NEW m \in TypeMaps, NEW i \in 1 .. Len(m), Numbered(m)[i].type # "base"
  PROVE  LET d == Numbered(m)[i]
             n == Len(Fields(m, i))
         IN  IsFilled(a, m, i, 0,
               [id |-> i, name |-> d.name, size |-> d.size, variant |-> object_types[d.type],
                field_count |-> 0, fields |-> R!Malloc(n), field_table |-> hashtable_create(n * 2)])
<1> DEFINE d == Numbered(m)[i]
           n == Len(Fields(m, i))
           table == hashtable_create(n * 2)
<1>1. n \in Nat /\ d.type # "base"
  BY FieldFacts, LoaderAssumption
<1>2. table \in Tables(2 * n, 0 .. n - 1) /\ WellFormed(table)
  <2>1. 2 * n \in Nat /\ n * 2 = 2 * n
    BY <1>1
  <2> DEFINE c == 2 * n
             ids == 0 .. n - 1
  <2>2. c \in Nat /\ table = hashtable_create(c)
    BY <2>1
  <2> HIDE DEF c, ids, n
  <2>3. hashtable_create(c) \in Tables(c, ids) /\ WellFormed(hashtable_create(c))
    BY <2>2, TableCreated
  <2> QED
    BY <2>2, <2>3 DEF c, ids
<1>3. R!Malloc(n) = [j \in 0 .. n - 1 |-> IF j < 0 THEN Element(a, m, i, j + 1) ELSE Garbage]
  <2>1. \A j \in 0 .. n - 1 : ~ (j < 0)
    BY <1>1
  <2> QED
    BY <2>1 DEF R!Malloc
<1> HIDE DEF table
<1> QED
  BY <1>1, <1>2, <1>3 DEF IsFilled, table

\* Storing the next one.
LEMMA FilledFurther ==
  ASSUME NEW a \in Arch, NEW m \in TypeMaps, NEW i \in 1 .. Len(m), Numbered(m)[i].type # "base",
         NEW k, k \in 0 .. Len(Fields(m, i)) - 1, NEW slot, IsFilled(a, m, i, k, slot)
  PROVE  /\ IsFilled(a, m, i, k + 1, WithField(slot, k, Element(a, m, i, k + 1)))
         /\ Element(a, m, i, k + 1).name = Fields(m, i)[k + 1].name
         /\ Element(a, m, i, k + 1).name \in Name
<1> DEFINE d == Numbered(m)[i]
           n == Len(Fields(m, i))
           e == Element(a, m, i, k + 1)
           table == slot.field_table
           new == WithField(slot, k, e)
           Array(l) == [j \in 0 .. n - 1 |-> IF j < l THEN Element(a, m, i, j + 1) ELSE Garbage]
           entry == [name |-> e.name, id |-> k]
<1>1. n \in Nat /\ d.type # "base"
  BY FieldFacts, LoaderAssumption
<1>2. k + 1 \in 1 .. n
  BY <1>1
<1>3. Fields(m, i)[k + 1].name \in Name
  BY <1>2, FieldFacts
<1>4. e.name = Fields(m, i)[k + 1].name
  BY DEF Element, Info
<1>5. /\ slot = [id |-> i, name |-> d.name, size |-> d.size, variant |-> object_types[d.type],
                 field_count |-> k, fields |-> Array(k), field_table |-> table]
      /\ table \in Tables(2 * n, 0 .. n - 1)
      /\ WellFormed(table)
  BY <1>1 DEF IsFilled
<1> HIDE DEF table, Array, e, d
<1>6. hashtable_insert(table, entry) \in Tables(2 * n, 0 .. n - 1)
      /\ WellFormed(hashtable_insert(table, entry))
  <2> DEFINE c == 2 * n
             ids == 0 .. n - 1
  <2>1. c \in Nat \ {0} /\ entry \in hash_t(ids)
    BY <1>1, <1>2, <1>3, <1>4 DEF hash_t
  <2> HIDE DEF c, ids, entry
  <2>2. hashtable_insert(table, entry) \in Tables(c, ids)
        /\ WellFormed(hashtable_insert(table, entry))
    BY <1>5, <2>1, TableInserted DEF c, ids
  <2> QED
    BY <2>2 DEF c, ids
<1>7. [Array(k) EXCEPT ![k] = e] = Array(k + 1)
  <2>1. [Array(k) EXCEPT ![k] = e] = [j \in 0 .. n - 1 |-> IF j = k THEN e ELSE Array(k)[j]]
    BY DEF Array
  <2>2. ASSUME NEW j \in 0 .. n - 1
        PROVE  (IF j = k THEN e ELSE Array(k)[j])
                 = IF j < k + 1 THEN Element(a, m, i, j + 1) ELSE Garbage
    <3>1. CASE j = k
      BY <1>1, <3>1 DEF e
    <3>2. CASE j # k
      <4>1. j < k + 1 <=> j < k
        BY <1>1, <3>2
      <4> QED
        BY <3>2, <4>1 DEF Array
    <3> QED
      BY <3>1, <3>2
  <2> QED
    BY <2>1, <2>2 DEF Array
<1>8. new = [id |-> i, name |-> d.name, size |-> d.size, variant |-> object_types[d.type],
             field_count |-> k + 1, fields |-> Array(k + 1),
             field_table |-> hashtable_insert(table, entry)]
  <2> DEFINE v == object_types[d.type]
             f == Array(k)
             g == hashtable_insert(table, entry)
  <2>1. slot = [id |-> i, name |-> d.name, size |-> d.size, variant |-> v,
                field_count |-> k, fields |-> f, field_table |-> table]
    BY <1>5
  <2>2. new = [slot EXCEPT !.fields[k] = e, !.field_table = g, !.field_count = k + 1]
    BY DEF WithField, table
  <2> HIDE DEF v, f, g, new
  <2>3. new = [id |-> i, name |-> d.name, size |-> d.size, variant |-> v,
               field_count |-> k + 1, fields |-> [f EXCEPT ![k] = e], field_table |-> g]
    BY <2>1, <2>2
  <2> QED
    BY <1>7, <2>3 DEF v, f, g
<1> HIDE DEF entry, new
<1>9. IsFilled(a, m, i, k + 1, new)
  BY <1>1, <1>6, <1>8 DEF IsFilled, Array, d
<1> QED
  BY <1>3, <1>4, <1>9 DEF new, e
-----------------------------------------------------------------------------
\* The steps preserve the invariant.

LEMMA BaseKeeps == LoaderInv /\ BaseStep => LoaderInv'
<1> SUFFICES ASSUME LoaderInv, BaseStep PROVE LoaderInv'
  OBVIOUS
<1> DEFINE i == Current + 1
           d == Numbered(source)[i]
<1>1. /\ pc = "types" /\ loop.types > 0 /\ d.type = "base"
      /\ type_table' = [type_table EXCEPT ![i] =
           [id |-> i, name |-> d.name, size |-> d.size, variant |-> 1, field_count |-> 0,
            fields |-> R!Malloc(0), field_table |-> Garbage]]
      /\ reader' = [offset |-> Place(arch, Cells(arch, source), TypePlace(arch, source, i)),
                    copy |-> reader.copy]
      /\ copies' = IF reader.copy THEN copies \cup {d.name} ELSE copies
      /\ loop' = [types |-> loop.types - 1, id |-> loop.id, items |-> loop.items]
      /\ UNCHANGED <<is_init, arch, data, pc, source>>
  BY DEF BaseStep
<1>2. /\ arch \in {4, 8} /\ source \in TypeMaps /\ Len(source) \in Nat
      /\ i \in 1 .. Len(source) /\ Current \in Nat
      /\ loop.types \in 1 .. Len(source)
      /\ data = File(arch, source)
  BY <1>1, AtType
<1>3. Current' = i
  BY <1>1, <1>2 DEF Current
<1> HIDE DEF i
<1>4. d.name \in Name
  BY <1>2, TypeFacts
<1>5. FrameInv'
  BY <1>1, <1>4 DEF LoaderInv, FrameInv
<1>6. IdleInv'
  BY <1>1 DEF IdleInv
<1>7. PlaceInv'
  <2>1. ReaderPlace' = TypePlace(arch, source, i)
    BY <1>1, <1>3 DEF ReaderPlace
  <2>2. reader'.offset = Place(arch', Cells(arch', source'), ReaderPlace')
    BY <1>1, <2>1
  <2>3. loop'.types \in 0 .. Len(source') /\ loop'.items \in Nat
    BY <1>1, <1>2 DEF LoaderInv, PlaceInv
  <2>4. /\ is_init' = TRUE /\ source' \in TypeMaps
        /\ Writable(arch', Volume(arch'), source') /\ data' = File(arch', source')
    BY <1>1, <1>2 DEF LoaderInv, PlaceInv
  <2> QED
    BY <1>1, <2>2, <2>3, <2>4 DEF PlaceInv
<1>8. SlotsInv'
  <2> DEFINE slot == [id |-> i, name |-> d.name, size |-> d.size, variant |-> 1,
                      field_count |-> 0, fields |-> R!Malloc(0), field_table |-> Garbage]
             k == Len(Fields(source, i))
  <2>1. SlotsAre(arch, source, Current, Len(Fields(source, Current)), type_table)
    BY <1>1 DEF LoaderInv, SlotsInv, FieldsStored
  <2>2. IsFilled(arch, source, i, k, slot)
    BY <1>1 DEF IsFilled
  <2>3. FieldsStored(Current)' = k
    BY <1>1, <1>3 DEF FieldsStored
  <2>4. type_table' = [type_table EXCEPT ![i] = slot]
    BY <1>1
  <2> HIDE DEF slot, k
  <2>5. SlotsAre(arch, source, i, k, [type_table EXCEPT ![i] = slot])
    BY <1>2, <2>1, <2>2, SlotAdded DEF i
  <2> QED
    BY <1>1, <1>3, <2>3, <2>4, <2>5 DEF SlotsInv
<1> QED
  BY <1>5, <1>6, <1>7, <1>8 DEF LoaderInv

LEMMA FieldedKeeps == LoaderInv /\ FieldedStep => LoaderInv'
<1> SUFFICES ASSUME LoaderInv, FieldedStep PROVE LoaderInv'
  OBVIOUS
<1> DEFINE i == Current + 1
           d == Numbered(source)[i]
           n == Len(Fields(source, i))
           slot == [id |-> i, name |-> d.name, size |-> d.size, variant |-> object_types[d.type],
                    field_count |-> 0, fields |-> R!Malloc(n),
                    field_table |-> hashtable_create(n * 2)]
<1>1. /\ pc = "types" /\ loop.types > 0 /\ d.type # "base"
      /\ type_table' = [type_table EXCEPT ![i] = slot]
      /\ reader' = [offset |-> Place(arch, Cells(arch, source), FieldPlace(arch, source, i, 0)),
                    copy |-> reader.copy]
      /\ copies' = IF reader.copy THEN copies \cup {d.name} ELSE copies
      /\ loop' = [types |-> loop.types - 1, id |-> i, items |-> n]
      /\ pc' = "fields"
      /\ UNCHANGED <<is_init, arch, data, source>>
  BY DEF FieldedStep
<1>2. /\ arch \in {4, 8} /\ source \in TypeMaps /\ Len(source) \in Nat
      /\ i \in 1 .. Len(source) /\ Current \in Nat
      /\ loop.types \in 1 .. Len(source)
      /\ data = File(arch, source)
  BY <1>1, AtType
<1>3. Current' = i
  BY <1>1, <1>2 DEF Current
<1> HIDE DEF i
<1>4. d.name \in Name /\ n \in Nat
  BY <1>1, <1>2, TypeFacts, FieldFacts, LoaderAssumption
<1>5. IsFilled(arch, source, i, 0, slot)
  BY <1>1, <1>2, FilledAtFirst
<1>6. i \in 0 .. MaxTypes
  BY <1>2, MapFacts, LoaderAssumption
<1>7. FieldsStored(Current)' = 0
  BY <1>1, <1>3, <1>4 DEF FieldsStored
<1> HIDE DEF slot
<1>8. FrameInv'
  BY <1>1, <1>4, <1>6 DEF LoaderInv, FrameInv
<1>9. IdleInv'
  BY <1>1 DEF IdleInv
<1>10. PlaceInv'
  <2>1. ReaderPlace' = FieldPlace(arch, source, i, 0)
    BY <1>1, <1>3, <1>7 DEF ReaderPlace
  <2>2. reader'.offset = Place(arch', Cells(arch', source'), ReaderPlace')
    BY <1>1, <2>1
  <2>3. /\ loop'.types \in 0 .. Len(source') /\ loop'.items \in Nat
        /\ loop'.items \in 0 .. Len(Fields(source', Current'))
        /\ loop'.id = Current'
    BY <1>1, <1>2, <1>3, <1>4
  <2>4. /\ is_init' = TRUE /\ source' \in TypeMaps
        /\ Writable(arch', Volume(arch'), source') /\ data' = File(arch', source')
    BY <1>1, <1>2 DEF LoaderInv, PlaceInv
  <2>5. Current' \in 1 .. Len(source') /\ Numbered(source')[Current'].type # "base"
    BY <1>1, <1>2, <1>3
  <2> QED
    BY <1>1, <2>2, <2>3, <2>4, <2>5 DEF PlaceInv
<1>11. SlotsInv'
  <2>1. SlotsAre(arch, source, Current, Len(Fields(source, Current)), type_table)
    BY <1>1 DEF LoaderInv, SlotsInv, FieldsStored
  <2>2. SlotsAre(arch, source, i, 0, [type_table EXCEPT ![i] = slot])
    BY <1>2, <1>5, <2>1, SlotAdded DEF i
  <2> QED
    BY <1>1, <1>3, <1>7, <2>2 DEF SlotsInv
<1> QED
  BY <1>8, <1>9, <1>10, <1>11 DEF LoaderInv

LEMMA ElementKeeps == LoaderInv /\ ElementStep => LoaderInv'
<1> SUFFICES ASSUME LoaderInv, ElementStep PROVE LoaderInv'
  OBVIOUS
<1> DEFINE i == Current
           k == FieldsStored(i)
           e == Element(arch, source, i, k + 1)
           n == Len(Fields(source, i))
           slot == WithField(type_table[i], k, e)
<1>1. /\ pc = "fields" /\ loop.items > 0
      /\ type_table' = [type_table EXCEPT ![i] = slot]
      /\ reader' = [offset |-> Place(arch, Cells(arch, source), FieldPlace(arch, source, i, k + 1)),
                    copy |-> reader.copy]
      /\ copies' = IF reader.copy THEN copies \cup {e.name} ELSE copies
      /\ loop' = [types |-> loop.types, id |-> loop.id, items |-> loop.items - 1]
      /\ UNCHANGED <<is_init, arch, data, pc, source>>
  BY DEF ElementStep
<1>2. /\ arch \in {4, 8} /\ arch \in Arch /\ source \in TypeMaps
      /\ i \in 1 .. Len(source) /\ loop.id = i /\ Numbered(source)[i].type # "base"
      /\ data = File(arch, source)
      /\ n \in Nat /\ loop.items \in 0 .. n
      /\ k = n - loop.items
      /\ IsFilled(arch, source, i, k, type_table[i])
  BY <1>1, AtFields
<1>3. Current' = i
  BY <1>1 DEF Current
<1>4. k \in 0 .. n - 1
  BY <1>1, <1>2
<1>5. FieldsStored(Current)' = k + 1
  BY <1>1, <1>2, <1>3 DEF FieldsStored
<1> HIDE DEF i, k
<1>6. IsFilled(arch, source, i, k + 1, slot) /\ e.name \in Name
  BY <1>2, <1>4, FilledFurther
<1> HIDE DEF slot, e
<1>7. FrameInv'
  BY <1>1, <1>6 DEF LoaderInv, FrameInv
<1>8. IdleInv'
  BY <1>1 DEF IdleInv
<1>9. PlaceInv'
  <2>1. ReaderPlace' = FieldPlace(arch, source, i, k + 1)
    BY <1>1, <1>3, <1>5 DEF ReaderPlace
  <2>2. reader'.offset = Place(arch', Cells(arch', source'), ReaderPlace')
    BY <1>1, <2>1
  <2>3. /\ loop'.types \in 0 .. Len(source') /\ loop'.items \in Nat
        /\ loop'.items \in 0 .. Len(Fields(source', Current'))
        /\ loop'.id = Current'
    BY <1>1, <1>2, <1>3 DEF LoaderInv, PlaceInv
  <2>4. /\ is_init' = TRUE /\ source' \in TypeMaps
        /\ Writable(arch', Volume(arch'), source') /\ data' = File(arch', source')
    BY <1>1, <1>2 DEF LoaderInv, PlaceInv
  <2>5. Current' \in 1 .. Len(source') /\ Numbered(source')[Current'].type # "base"
    BY <1>1, <1>2, <1>3
  <2> QED
    BY <1>1, <2>2, <2>3, <2>4, <2>5 DEF PlaceInv
<1>10. SlotsInv'
  <2>1. SlotsAre(arch, source, i, k, type_table)
    BY <1>1 DEF LoaderInv, SlotsInv, i, k
  <2>2. SlotsAre(arch, source, i, k + 1, [type_table EXCEPT ![i] = slot])
    BY <1>2, <1>6, <2>1, SlotChanged
  <2> QED
    BY <1>1, <1>3, <1>5, <2>2 DEF SlotsInv
<1> QED
  BY <1>7, <1>8, <1>9, <1>10 DEF LoaderInv

LEMMA AliasCountKeeps == LoaderInv /\ AliasCountStep => LoaderInv'
<1> SUFFICES ASSUME LoaderInv, AliasCountStep PROVE LoaderInv'
  OBVIOUS
<1> DEFINE i == Current
           n == Len(Aliases(i))
<1>1. /\ pc = "fields" /\ loop.items = 0
      /\ reader' = [offset |-> Place(arch, Cells(arch, source), AliasPlace(arch, source, i, 0)),
                    copy |-> reader.copy]
      /\ loop' = [types |-> loop.types, id |-> loop.id, items |-> n]
      /\ pc' = "aliases"
      /\ UNCHANGED <<registry, arch, data, copies, source>>
  BY DEF AliasCountStep
<1>2. /\ arch \in {4, 8} /\ source \in TypeMaps
      /\ i \in 1 .. Len(source) /\ loop.id = i /\ Numbered(source)[i].type # "base"
      /\ data = File(arch, source)
      /\ Len(Fields(source, i)) \in Nat
      /\ FieldsStored(i) = Len(Fields(source, i)) - loop.items
  BY <1>1, AtFields
<1>3. n \in Nat
  BY <1>2, TypeFacts, ListFacts DEF Aliases
<1>4. Current' = i
  BY <1>1 DEF Current
<1>5. AliasesAdded(Current)' = 0
  BY <1>1, <1>3, <1>4 DEF AliasesAdded, Aliases
<1>6. FieldsStored(Current)' = FieldsStored(i)
  BY <1>1, <1>2, <1>4 DEF FieldsStored
<1>7. Aliases(Current)' = Aliases(i)
  BY <1>1, <1>4 DEF Aliases
<1>8. FrameInv'
  BY <1>1 DEF LoaderInv, FrameInv
<1>9. IdleInv'
  BY <1>1 DEF IdleInv
<1>10. PlaceInv'
  <2>1. ReaderPlace' = AliasPlace(arch, source, i, 0)
    BY <1>1, <1>4, <1>5 DEF ReaderPlace
  <2>2. reader'.offset = Place(arch', Cells(arch', source'), ReaderPlace')
    BY <1>1, <2>1
  <2>3. /\ loop'.types \in 0 .. Len(source') /\ loop'.items \in Nat
        /\ loop'.items \in 0 .. Len(Aliases(Current)')
        /\ loop'.id = Current'
    BY <1>1, <1>2, <1>3, <1>4, <1>7 DEF LoaderInv, PlaceInv
  <2>4. /\ is_init' = TRUE /\ source' \in TypeMaps
        /\ Writable(arch', Volume(arch'), source') /\ data' = File(arch', source')
    BY <1>1, <1>2 DEF LoaderInv, PlaceInv, registry
  <2>5. Current' \in 1 .. Len(source') /\ Numbered(source')[Current'].type # "base"
    BY <1>1, <1>2, <1>4
  <2> QED
    BY <1>1, <2>2, <2>3, <2>4, <2>5 DEF PlaceInv
<1>11. SlotsInv'
  BY <1>1, <1>4, <1>6 DEF LoaderInv, SlotsInv, registry
<1> QED
  BY <1>8, <1>9, <1>10, <1>11 DEF LoaderInv

LEMMA AliasKeeps == LoaderInv /\ AliasStep => LoaderInv'
<1> SUFFICES ASSUME LoaderInv, AliasStep PROVE LoaderInv'
  OBVIOUS
<1> DEFINE i == Current
           k == AliasesAdded(i)
           n == Len(Aliases(i))
           alias == Aliases(i)[k + 1]
<1>1. /\ pc = "aliases" /\ loop.items > 0
      /\ reader' = [offset |-> Place(arch, Cells(arch, source), AliasPlace(arch, source, i, k + 1)),
                    copy |-> reader.copy]
      /\ copies' = IF reader.copy THEN copies \cup {alias} ELSE copies
      /\ loop' = [types |-> loop.types, id |-> loop.id, items |-> loop.items - 1]
      /\ UNCHANGED <<type_table, is_init, arch, data, pc, source>>
  BY DEF AliasStep
<1>2. /\ arch \in {4, 8} /\ source \in TypeMaps
      /\ i \in 1 .. Len(source) /\ loop.id = i /\ Numbered(source)[i].type # "base"
      /\ data = File(arch, source)
      /\ n \in Nat /\ loop.items \in 0 .. n
      /\ k = n - loop.items
  BY <1>1, AtAliases
<1>3. Current' = i /\ Aliases(Current)' = Aliases(i)
  BY <1>1 DEF Current, Aliases
<1>4. k + 1 \in 1 .. n
  BY <1>1, <1>2
<1>5. alias \in Name
  <2> DEFINE j == k + 1
  <2>1. j \in 1 .. n
    BY <1>4
  <2> HIDE DEF j, i
  <2>2. Aliases(i)[j] \in Name
    BY <1>2, <2>1, TypeFacts DEF Aliases
  <2> QED
    BY <2>2 DEF j
<1>6. AliasesAdded(Current)' = k + 1
  BY <1>1, <1>2, <1>3 DEF AliasesAdded, Aliases
<1>7. FieldsStored(Current)' = FieldsStored(i)
  BY <1>1, <1>3 DEF FieldsStored
<1>8. FrameInv'
  BY <1>1, <1>5 DEF LoaderInv, FrameInv
<1>9. IdleInv'
  BY <1>1 DEF IdleInv
<1>10. PlaceInv'
  <2>1. ReaderPlace' = AliasPlace(arch, source, i, k + 1)
    BY <1>1, <1>3, <1>6 DEF ReaderPlace
  <2>2. reader'.offset = Place(arch', Cells(arch', source'), ReaderPlace')
    BY <1>1, <2>1
  <2>3. /\ loop'.types \in 0 .. Len(source') /\ loop'.items \in Nat
        /\ loop'.items \in 0 .. Len(Aliases(Current)')
        /\ loop'.id = Current'
    BY <1>1, <1>2, <1>3 DEF LoaderInv, PlaceInv
  <2>4. /\ is_init' = TRUE /\ source' \in TypeMaps
        /\ Writable(arch', Volume(arch'), source') /\ data' = File(arch', source')
    BY <1>1, <1>2 DEF LoaderInv, PlaceInv
  <2>5. Current' \in 1 .. Len(source') /\ Numbered(source')[Current'].type # "base"
    BY <1>1, <1>2, <1>3
  <2> QED
    BY <1>1, <2>2, <2>3, <2>4, <2>5 DEF PlaceInv
<1>11. SlotsInv'
  BY <1>1, <1>3, <1>7 DEF LoaderInv, SlotsInv
<1> QED
  BY <1>8, <1>9, <1>10, <1>11 DEF LoaderInv

\* A load begins.
BeginStep(m, copy) ==
  /\ pc = "idle"
  /\ m \in TypeMaps /\ copy \in BOOLEAN
  /\ Writable(arch, Volume(arch), m)
  /\ ~is_init /\ is_init' = TRUE
  /\ type_table' = [t \in 0 .. Len(m) |-> R!RawSlot]
  /\ type_hash_table' = hashtable_create(Len(m) * 2)
  /\ data' = File(arch, m)
  /\ reader' = [offset |-> Place(arch, Cells(arch, m), TypePlace(arch, m, 0)), copy |-> copy]
  /\ loop' = [types |-> Len(m), id |-> loop.id, items |-> loop.items]
  /\ pc' = "types"
  /\ source' = m
  /\ UNCHANGED <<arch, copies>>

LEMMA BeginLoadStep ==
  LoaderInv /\ BeginLoad => \E m \in TypeMaps, copy \in BOOLEAN : BeginStep(m, copy)
<1> SUFFICES ASSUME LoaderInv, BeginLoad
             PROVE  \E m \in TypeMaps, copy \in BOOLEAN : BeginStep(m, copy)
  OBVIOUS
<1>1. pc = "idle" /\ arch \in {4, 8}
  BY LoaderAssumption, WordAssumption DEF BeginLoad, LoaderInv, FrameInv
<1>2. PICK m \in TypeMaps, copy \in BOOLEAN :
        /\ Writable(arch, Volume(arch), m)
        /\ reflect_load_bytes(File(arch, m), copy)
        /\ source' = m
  BY DEF BeginLoad, reflect_load, File, Volume
<1> DEFINE file == File(arch, m)
<1>3. TypeCount(file) = Len(m)
      /\ TableOffset(file) + arch = Place(arch, Cells(arch, m), TypePlace(arch, m, 0))
  BY <1>1, HeaderRead DEF TypeCount, TableOffset
<1> DEFINE n == TypeCount(file)
           o == TableOffset(file) + arch
<1>4. /\ data' = file
      /\ R!AllocateTables(n)
      /\ reader' = [offset |-> o, copy |-> copy]
      /\ loop' = [loop EXCEPT !.types = n]
      /\ pc' = "types"
      /\ UNCHANGED <<arch, copies>>
  BY <1>2 DEF reflect_load_bytes
<1> HIDE DEF n, o, file
<1>5. loop' = [types |-> n, id |-> loop.id, items |-> loop.items]
  BY <1>4 DEF LoaderInv, FrameInv
<1>6. /\ ~is_init /\ is_init' = TRUE
      /\ type_table' = [t \in 0 .. n |-> R!RawSlot]
      /\ type_hash_table' = hashtable_create(n * 2)
  <2>1. R!hashtable_create(n * 2) = hashtable_create(n * 2)
    BY SameTables
  <2> QED
    BY <1>4, <2>1 DEF R!AllocateTables
<1>7. n = Len(m) /\ o = Place(arch, Cells(arch, m), TypePlace(arch, m, 0))
  BY <1>3 DEF n, o
<1>8. BeginStep(m, copy)
  BY <1>1, <1>2, <1>4, <1>5, <1>6, <1>7 DEF BeginStep, file
<1> QED
  BY <1>8

LEMMA BeginKeeps ==
  ASSUME LoaderInv, NEW m \in TypeMaps, NEW copy \in BOOLEAN, BeginStep(m, copy)
  PROVE  LoaderInv'
<1>1. /\ pc = "idle" /\ is_init' = TRUE
      /\ Writable(arch, Volume(arch), m)
      /\ type_table' = [t \in 0 .. Len(m) |-> R!RawSlot]
      /\ data' = File(arch, m)
      /\ reader' = [offset |-> Place(arch, Cells(arch, m), TypePlace(arch, m, 0)), copy |-> copy]
      /\ loop' = [types |-> Len(m), id |-> loop.id, items |-> loop.items]
      /\ pc' = "types"
      /\ source' = m
      /\ UNCHANGED <<arch, copies>>
  BY DEF BeginStep
<1>2. Len(m) \in Nat
  BY MapFacts
<1>3. Current' = 0
  BY <1>1, <1>2 DEF Current
<1>4. copies = {} /\ loop.items = 0
  BY <1>1 DEF LoaderInv, IdleInv
<1>5. FrameInv'
  BY <1>1, <1>4 DEF LoaderInv, FrameInv
<1>6. IdleInv'
  BY <1>1 DEF IdleInv
<1>7. PlaceInv'
  <2>1. ReaderPlace' = TypePlace(arch, m, 0)
    BY <1>1, <1>3 DEF ReaderPlace
  <2>2. reader'.offset = Place(arch', Cells(arch', source'), ReaderPlace')
    BY <1>1, <2>1
  <2>3. loop'.types \in 0 .. Len(source') /\ loop'.items \in Nat
    BY <1>1, <1>2, <1>4
  <2>4. /\ is_init' = TRUE /\ source' \in TypeMaps
        /\ Writable(arch', Volume(arch'), source') /\ data' = File(arch', source')
    BY <1>1
  <2> QED
    BY <1>1, <2>2, <2>3, <2>4 DEF PlaceInv
<1>8. SlotsInv'
  <2> DEFINE k == FieldsStored(Current)'
             table == [t \in 0 .. Len(m) |-> R!RawSlot]
             n == Len(m)
  <2>1. \A t \in 0 .. n : ~ (t \in 1 .. 0)
    BY <1>2
  <2>2. DOMAIN table = 0 .. n /\ \A t \in 0 .. n : table[t] = R!RawSlot
    OBVIOUS
  <2> HIDE DEF table, n, k
  <2>3. SlotsAre(arch, m, 0, k, table)
    BY <2>1, <2>2 DEF SlotsAre, n
  <2>4. arch' = arch /\ source' = m /\ Current' = 0 /\ FieldsStored(Current)' = k
        /\ type_table' = table
    BY <1>1, <1>3 DEF k, table
  <2> QED
    BY <2>3, <2>4 DEF SlotsInv
<1> QED
  BY <1>5, <1>6, <1>7, <1>8 DEF LoaderInv

LEMMA NextTypeKeeps == LoaderInv /\ NextType => LoaderInv'
<1> SUFFICES ASSUME LoaderInv, NextType PROVE LoaderInv'
  OBVIOUS
<1> DEFINE i == Current
           n == Len(Aliases(i))
<1>1. /\ pc = "aliases" /\ loop.items = 0 /\ pc' = "types"
      /\ UNCHANGED <<type_table, is_init, arch, data, reader, loop, copies, source>>
  BY DEF NextType, registry
<1>2. /\ arch \in {4, 8} /\ source \in TypeMaps
      /\ i \in 1 .. Len(source) /\ Numbered(source)[i].type # "base"
      /\ data = File(arch, source)
      /\ Writable(arch, Volume(arch), source)
      /\ n \in Nat /\ AliasesAdded(i) = n - loop.items
      /\ reader.offset = Place(arch, Cells(arch, source), AliasPlace(arch, source, i, AliasesAdded(i)))
  BY <1>1, AtAliases
<1>3. Current' = i
  BY <1>1 DEF Current
<1>4. AliasesAdded(i) = n
  BY <1>1, <1>2
<1>5. TypePlace(arch, source, i) = AliasPlace(arch, source, i, n)
  BY <1>2, AliasRead DEF Aliases
<1>6. ReaderPlace' = TypePlace(arch, source, i)
  BY <1>1, <1>3 DEF ReaderPlace
<1>7. FieldsStored(Current)' = FieldsStored(i)
  BY <1>1, <1>3 DEF FieldsStored
<1>8. FrameInv'
  BY <1>1 DEF LoaderInv, FrameInv
<1>9. IdleInv'
  BY <1>1 DEF IdleInv
<1>10. PlaceInv'
  <2>1. reader'.offset = Place(arch', Cells(arch', source'), ReaderPlace')
    BY <1>1, <1>2, <1>4, <1>5, <1>6
  <2> QED
    BY <1>1, <2>1 DEF LoaderInv, PlaceInv
<1>11. SlotsInv'
  BY <1>1, <1>3, <1>7 DEF LoaderInv, SlotsInv
<1> QED
  BY <1>8, <1>9, <1>10, <1>11 DEF LoaderInv

LEMMA ReturnKeeps == LoaderInv /\ Return => LoaderInv'
<1> SUFFICES ASSUME LoaderInv, Return PROVE LoaderInv'
  OBVIOUS
<1>1. /\ pc = "types" /\ loop.types = 0 /\ pc' = "done"
      /\ UNCHANGED <<type_table, is_init, arch, data, reader, loop, copies, source>>
  BY DEF Return, registry
<1>2. /\ Current' = Current /\ ReaderPlace' = ReaderPlace
      /\ FieldsStored(Current)' = FieldsStored(Current)
  BY <1>1 DEF Current, ReaderPlace, FieldsStored
<1>3. FrameInv'
  BY <1>1 DEF LoaderInv, FrameInv
<1>4. IdleInv'
  BY <1>1 DEF IdleInv
<1>5. PlaceInv'
  BY <1>1, <1>2 DEF LoaderInv, PlaceInv
<1>6. SlotsInv'
  BY <1>1, <1>2 DEF LoaderInv, SlotsInv
<1> QED
  BY <1>3, <1>4, <1>5, <1>6 DEF LoaderInv

LEMMA FreeBufferKeeps == LoaderInv /\ FreeBuffer => LoaderInv'
<1> SUFFICES ASSUME LoaderInv, FreeBuffer PROVE LoaderInv'
  OBVIOUS
<1>1. /\ pc = "done" /\ reader.copy /\ data' = NoData
      /\ UNCHANGED <<type_table, is_init, arch, reader, loop, pc, copies, source>>
  BY DEF FreeBuffer, registry
<1>2. /\ Current' = Current /\ ReaderPlace' = ReaderPlace
      /\ FieldsStored(Current)' = FieldsStored(Current)
  BY <1>1 DEF Current, ReaderPlace, FieldsStored
<1>3. FrameInv'
  BY <1>1 DEF LoaderInv, FrameInv
<1>4. IdleInv'
  BY <1>1 DEF IdleInv
<1>5. PlaceInv'
  BY <1>1, <1>2 DEF LoaderInv, PlaceInv, NoData
<1>6. SlotsInv'
  BY <1>1, <1>2 DEF LoaderInv, SlotsInv
<1> QED
  BY <1>3, <1>4, <1>5, <1>6 DEF LoaderInv

LEMMA StutterKeeps == LoaderInv /\ UNCHANGED vars => LoaderInv'
<1> SUFFICES ASSUME LoaderInv, UNCHANGED vars PROVE LoaderInv'
  OBVIOUS
<1>1. UNCHANGED <<type_table, type_hash_table, is_init, arch, data, reader, loop, pc, copies, source>>
  BY DEF vars, registry
<1>2. /\ Current' = Current /\ ReaderPlace' = ReaderPlace
      /\ FieldsStored(Current)' = FieldsStored(Current)
  BY <1>1 DEF Current, ReaderPlace, FieldsStored, AliasesAdded, Aliases
<1>3. FrameInv'
  BY <1>1 DEF LoaderInv, FrameInv
<1>4. IdleInv'
  BY <1>1 DEF LoaderInv, IdleInv, R!Init
<1>5. PlaceInv'
  BY <1>1, <1>2 DEF LoaderInv, PlaceInv, Aliases
<1>6. SlotsInv'
  BY <1>1, <1>2 DEF LoaderInv, SlotsInv
<1> QED
  BY <1>3, <1>4, <1>5, <1>6 DEF LoaderInv

LEMMA StartsRight == Init => LoaderInv
<1> SUFFICES ASSUME Init PROVE LoaderInv
  OBVIOUS
<1>1. FrameInv
  BY LoaderAssumption DEF Init, FrameInv
<1>2. IdleInv
  BY DEF Init, IdleInv
<1> QED
  BY <1>1, <1>2 DEF Init, LoaderInv, PlaceInv, SlotsInv
-----------------------------------------------------------------------------
\* How the names change.

LEMMA ClaimedInRange ==
  \A m, count, k, name : ClaimedBy(m, count, k, name) \subseteq 1 .. count
  BY DEF ClaimedBy

\* From c types and k aliases to i types and l aliases the one claim added is
\* that of i to a name.
AddsClaim(m, c, k, i, l, name) ==
  \A n \in Name : ClaimedBy(m, i, l, n) = IF n = name THEN ClaimedBy(m, c, k, n) \cup {i}
                                          ELSE ClaimedBy(m, c, k, n)

\* One claim more, by the last of the types.
LEMMA NameClaimed ==
  ASSUME NEW m \in TypeMaps, NEW c \in 0 .. Len(m), NEW k, NEW ht, NamesAre(m, c, k, ht),
         NEW i \in 1 .. Len(m), c <= i, NEW l, NEW name \in Name,
         AddsClaim(m, c, k, i, l, name)
  PROVE  NamesAre(m, i, l, hashtable_insert(ht, [name |-> name, id |-> i]))
<1> DEFINE new == hashtable_insert(ht, [name |-> name, id |-> i])
           size == 2 * Len(m)
           ids == 1 .. Len(m)
           entry == [name |-> name, id |-> i]
<1>1. Len(m) \in Nat /\ Len(m) # 0
  BY MapFacts
<1>2. size \in Nat \ {0} /\ entry \in hash_t(ids)
  BY <1>1 DEF hash_t
<1>3. ht \in Tables(size, ids) /\ WellFormed(ht)
  BY DEF NamesAre
<1>4. entry.name = name /\ entry.id = i
  OBVIOUS
<1> HIDE DEF size, ids, entry
<1>5. /\ hashtable_insert(ht, entry) \in Tables(size, ids)
      /\ WellFormed(hashtable_insert(ht, entry))
      /\ \A n \in Name : hashtable_get(hashtable_insert(ht, entry), n) =
                           IF n = entry.name THEN entry.id ELSE hashtable_get(ht, n)
  BY <1>2, <1>3, TableInserted
<1>6. /\ new \in Tables(size, ids) /\ WellFormed(new)
      /\ \A n \in Name : hashtable_get(new, n) = IF n = name THEN i ELSE hashtable_get(ht, n)
  BY <1>4, <1>5 DEF entry
<1> HIDE DEF new
<1>7. ASSUME NEW n \in Name
      PROVE  LET claimed == ClaimedBy(m, i, l, n)
                 t == hashtable_get(new, n)
             IN  \/ claimed = {} /\ t = NotFound
                 \/ t \in claimed /\ \A u \in claimed : u <= t
  <2>1. CASE n = name
    <3>1. ClaimedBy(m, i, l, n) = ClaimedBy(m, c, k, n) \cup {i} /\ hashtable_get(new, n) = i
      BY <1>6, <2>1 DEF AddsClaim
    <3>2. ClaimedBy(m, c, k, n) \subseteq 1 .. c
      BY ClaimedInRange
    <3>3. \A u \in ClaimedBy(m, c, k, n) : u <= i
      BY <1>1, <3>2
    <3> QED
      BY <1>1, <3>1, <3>3
  <2>2. CASE n # name
    <3>1. ClaimedBy(m, i, l, n) = ClaimedBy(m, c, k, n)
          /\ hashtable_get(new, n) = hashtable_get(ht, n)
      BY <1>6, <2>2 DEF AddsClaim
    <3>2. LET claimed == ClaimedBy(m, c, k, n)
              t == hashtable_get(ht, n)
          IN  \/ claimed = {} /\ t = NotFound
              \/ t \in claimed /\ \A u \in claimed : u <= t
      BY <1>1 DEF NamesAre
    <3> QED
      BY <3>1, <3>2
  <2> QED
    BY <2>1, <2>2
<1>8. NamesAre(m, i, l, new)
  BY <1>6, <1>7 DEF NamesAre, size, ids
<1> QED
  BY <1>8 DEF new

\* A type is registered under its name.
LEMMA TypeClaims ==
  ASSUME NEW m \in TypeMaps, NEW c \in Nat, NEW i \in 1 .. Len(m), i = c + 1, NEW k,
         Numbered(m)[i].type # "base" => k = 0
  PROVE  AddsClaim(m, c, Len(Numbered(m)[c].aliases), i, k, Numbered(m)[i].name)
<1> SUFFICES ASSUME NEW name \in Name
             PROVE  ClaimedBy(m, i, k, name) =
                      IF name = Numbered(m)[i].name
                      THEN ClaimedBy(m, c, Len(Numbered(m)[c].aliases), name) \cup {i}
                      ELSE ClaimedBy(m, c, Len(Numbered(m)[c].aliases), name)
  BY DEF AddsClaim
<1> DEFINE By(t, n) == \/ Numbered(m)[t].name = name
                       \/ /\ Numbered(m)[t].type # "base"
                          /\ \E j \in 1 .. n : Numbered(m)[t].aliases[j] = name
           A(t) == Len(Numbered(m)[t].aliases)
<1>1. ClaimedBy(m, i, k, name) = {t \in 1 .. i : By(t, IF t = i THEN k ELSE A(t))}
  BY DEF ClaimedBy
<1>2. ClaimedBy(m, c, A(c), name) = {t \in 1 .. c : By(t, A(t))}
  BY DEF ClaimedBy
<1>3. By(i, k) <=> name = Numbered(m)[i].name
  <2>1. Numbered(m)[i].type # "base" => 1 .. k = {}
    OBVIOUS
  <2> QED
    BY <2>1
<1>4. 1 .. i = 1 .. c \cup {i} /\ ~ (i \in 1 .. c) /\ i \in 1 .. i
  OBVIOUS
<1> HIDE DEF By, A
<1>5. {t \in 1 .. i : By(t, IF t = i THEN k ELSE A(t))}
        = {t \in 1 .. c : By(t, A(t))} \cup {t \in {i} : By(t, k)}
  BY <1>4
<1>6. ClaimedBy(m, i, k, name) =
        IF name = Numbered(m)[i].name THEN ClaimedBy(m, c, A(c), name) \cup {i}
        ELSE ClaimedBy(m, c, A(c), name)
  BY <1>1, <1>2, <1>3, <1>5
<1> QED
  BY <1>6 DEF A

\* An alias is registered.
LEMMA AliasClaims ==
  ASSUME NEW m \in TypeMaps, NEW c \in 1 .. Len(m), Numbered(m)[c].type # "base",
         NEW k \in Nat, NEW l, l = k + 1
  PROVE  AddsClaim(m, c, k, c, l, Numbered(m)[c].aliases[l])
<1> SUFFICES ASSUME NEW name \in Name
             PROVE  ClaimedBy(m, c, l, name) =
                      IF name = Numbered(m)[c].aliases[l] THEN ClaimedBy(m, c, k, name) \cup {c}
                      ELSE ClaimedBy(m, c, k, name)
  BY DEF AddsClaim
<1> DEFINE By(t, n) == \/ Numbered(m)[t].name = name
                       \/ /\ Numbered(m)[t].type # "base"
                          /\ \E j \in 1 .. n : Numbered(m)[t].aliases[j] = name
           A(t) == Len(Numbered(m)[t].aliases)
<1>1. ClaimedBy(m, c, l, name) = {t \in 1 .. c : By(t, IF t = c THEN l ELSE A(t))}
  BY DEF ClaimedBy
<1>2. ClaimedBy(m, c, k, name) = {t \in 1 .. c : By(t, IF t = c THEN k ELSE A(t))}
  BY DEF ClaimedBy
<1>3. 1 .. l = 1 .. k \cup {l}
  OBVIOUS
<1>4. By(c, l) <=> By(c, k) \/ name = Numbered(m)[c].aliases[l]
  BY <1>3
<1>5. c \in 1 .. c
  BY MapFacts
<1> HIDE DEF By, A
<1> QED
  BY <1>1, <1>2, <1>4, <1>5

LEMMA BeginNames ==
  ASSUME LoaderInv, NEW m \in TypeMaps, NEW copy \in BOOLEAN, BeginStep(m, copy)
  PROVE  NamesInv'
<1>1. /\ type_hash_table' = hashtable_create(Len(m) * 2)
      /\ loop' = [types |-> Len(m), id |-> loop.id, items |-> loop.items]
      /\ source' = m
  BY DEF BeginStep
<1>2. Len(m) \in Nat
  BY MapFacts
<1>3. Current' = 0
  BY <1>1, <1>2 DEF Current
<1> DEFINE k == AliasesAdded(Current)'
           size == 2 * Len(m)
           ids == 1 .. Len(m)
           ht == hashtable_create(size)
<1>4. size \in Nat /\ Len(m) * 2 = size /\ (Len(m) # 0 => size # 0)
  BY <1>2
<1>5. \A name : ClaimedBy(m, 0, k, name) = {}
  BY ClaimedInRange
<1> HIDE DEF k, ids, size
<1>6. /\ ht \in Tables(size, ids) /\ WellFormed(ht)
      /\ size # 0 => \A name \in Name : hashtable_get(ht, name) = NotFound
  BY <1>4, TableCreated
<1> HIDE DEF ht
<1>7. NamesAre(m, 0, k, ht)
  BY <1>4, <1>5, <1>6 DEF NamesAre, size, ids
<1>8. source' = m /\ Current' = 0 /\ AliasesAdded(Current)' = k /\ type_hash_table' = ht
  BY <1>1, <1>3, <1>4 DEF k, ht
<1> QED
  BY <1>7, <1>8 DEF NamesInv

\* A type comes with its name, its aliases follow.
LEMMA TypesNamed ==
  ASSUME LoaderInv, NamesInv, BaseStep \/ FieldedStep
  PROVE  NamesInv'
<1> DEFINE i == Current + 1
           d == Numbered(source)[i]
           k == AliasesAdded(Current)'
           name == d.name
           l == Len(Numbered(source)[Current].aliases)
<1>1. /\ pc = "types" /\ loop.types > 0
      /\ type_hash_table' = hashtable_insert(type_hash_table, [name |-> name, id |-> i])
      /\ loop'.types = loop.types - 1
      /\ d.type # "base" => pc' = "fields"
      /\ source' = source
  BY DEF BaseStep, FieldedStep
<1>2. /\ source \in TypeMaps /\ Len(source) \in Nat
      /\ i \in 1 .. Len(source) /\ Current \in Nat
      /\ loop.types \in 1 .. Len(source)
  BY <1>1, AtType
<1>3. Current' = i
  BY <1>1, <1>2 DEF Current
<1>4. d.type # "base" => k = 0
  BY <1>1 DEF AliasesAdded
<1>5. NamesAre(source, Current, l, type_hash_table)
  BY <1>1 DEF NamesInv, AliasesAdded, Aliases
<1>6. name \in Name
  <2> HIDE DEF i
  <2> QED
    BY <1>2, TypeFacts
<1> DEFINE c == Current
<1>7. c \in 0 .. Len(source) /\ c \in Nat /\ c <= i /\ i = c + 1
  BY <1>2
<1>8. AddsClaim(source, c, l, i, k, name)
  <2> HIDE DEF k, c, i
  <2>1. AddsClaim(source, c, Len(Numbered(source)[c].aliases), i, k, Numbered(source)[i].name)
    BY <1>2, <1>4, <1>7, TypeClaims
  <2> QED
    BY <2>1 DEF c
<1> HIDE DEF i, k, l, name
<1>10. NamesAre(source, i, k, hashtable_insert(type_hash_table, [name |-> name, id |-> i]))
  BY <1>2, <1>5, <1>6, <1>7, <1>8, NameClaimed
<1>11. source' = source /\ Current' = i /\ AliasesAdded(Current)' = k
       /\ type_hash_table' = hashtable_insert(type_hash_table, [name |-> name, id |-> i])
  BY <1>1, <1>3 DEF k
<1> QED
  BY <1>10, <1>11 DEF NamesInv

LEMMA AliasNames ==
  ASSUME LoaderInv, NamesInv, AliasStep
  PROVE  NamesInv'
<1> DEFINE i == Current
           k == AliasesAdded(i)
           j == k + 1
           name == Aliases(i)[j]
           n == Len(Aliases(i))
<1>1. /\ pc = "aliases" /\ loop.items > 0 /\ pc' = pc
      /\ type_hash_table' = hashtable_insert(type_hash_table, [name |-> name, id |-> i])
      /\ loop' = [types |-> loop.types, id |-> loop.id, items |-> loop.items - 1]
      /\ source' = source
  BY DEF AliasStep
<1>2. /\ source \in TypeMaps /\ Len(source) \in Nat
      /\ i \in 1 .. Len(source) /\ Numbered(source)[i].type # "base"
      /\ n \in Nat /\ loop.items \in 0 .. n
      /\ k = n - loop.items
  BY <1>1, AtAliases
<1>3. Current' = i /\ Aliases(Current)' = Aliases(i)
  BY <1>1 DEF Current, Aliases
<1>4. k \in Nat /\ j \in 1 .. n
  BY <1>1, <1>2
<1>5. AliasesAdded(Current)' = j
  BY <1>1, <1>2, <1>3 DEF AliasesAdded, Aliases
<1>6. NamesAre(source, i, k, type_hash_table)
  BY <1>1 DEF NamesInv
<1>7. name \in Name
  <2> HIDE DEF j, i
  <2> QED
    BY <1>2, <1>4, TypeFacts DEF Aliases
<1> HIDE DEF i, k
<1>8. AddsClaim(source, i, k, i, j, name)
  BY <1>2, <1>4, AliasClaims DEF Aliases
<1>9. i \in 0 .. Len(source) /\ i <= i
  BY <1>2
<1> HIDE DEF name, j
<1>10. NamesAre(source, i, j, hashtable_insert(type_hash_table, [name |-> name, id |-> i]))
  BY <1>2, <1>6, <1>7, <1>8, <1>9, NameClaimed
<1> QED
  BY <1>1, <1>3, <1>5, <1>10 DEF NamesInv

\* The other steps add no name.
LEMMA SameNames ==
  ASSUME LoaderInv, NamesInv,
         ElementStep \/ AliasCountStep \/ NextType \/ Return \/ FreeBuffer \/ UNCHANGED vars
  PROVE  NamesInv'
<1>1. /\ source' = source /\ Current' = Current
      /\ type_hash_table' = type_hash_table
  BY DEF ElementStep, AliasCountStep, NextType, Return, FreeBuffer, vars, registry, Current
<1>2. CASE ElementStep
  <2>1. AliasesAdded(Current)' = AliasesAdded(Current) /\ pc # "idle"
    BY <1>2 DEF ElementStep, AliasesAdded
  <2> QED
    BY <1>1, <2>1 DEF NamesInv
<1>3. CASE AliasCountStep
  <2>1. pc = "fields" /\ source \in TypeMaps /\ Current \in 1 .. Len(source)
        /\ Numbered(source)[Current].type # "base"
    BY <1>3, AtFields DEF AliasCountStep
  <2>2. Len(Aliases(Current)) \in Nat
    BY <2>1, TypeFacts, ListFacts DEF Aliases
  <2>3. AliasesAdded(Current)' = 0 /\ AliasesAdded(Current) = 0
    BY <1>1, <1>3, <2>1, <2>2 DEF AliasCountStep, AliasesAdded, Aliases
  <2> QED
    BY <1>1, <2>1, <2>3 DEF NamesInv
<1>4. CASE NextType
  <2>1. pc = "aliases" /\ loop.items = 0 /\ pc' = "types"
    BY <1>4 DEF NextType
  <2>2. Len(Aliases(Current)) \in Nat
        /\ AliasesAdded(Current) = Len(Aliases(Current)) - loop.items
    BY <2>1, AtAliases
  <2>3. AliasesAdded(Current)' = AliasesAdded(Current)
    BY <1>1, <2>1, <2>2 DEF AliasesAdded, Aliases
  <2> QED
    BY <1>1, <2>1, <2>3 DEF NamesInv
<1>5. CASE Return \/ FreeBuffer
  <2>1. pc \in {"types", "done"} /\ pc' = "done"
    BY <1>5 DEF Return, FreeBuffer
  <2>2. AliasesAdded(Current)' = AliasesAdded(Current)
    BY <1>1, <2>1 DEF AliasesAdded, Aliases
  <2> QED
    BY <1>1, <2>1, <2>2 DEF NamesInv
<1>6. CASE UNCHANGED vars
  <2>1. pc' = pc /\ loop' = loop
    BY <1>6 DEF vars
  <2>2. AliasesAdded(Current)' = AliasesAdded(Current)
    BY <1>1, <2>1 DEF AliasesAdded, Aliases
  <2> QED
    BY <1>1, <2>1, <2>2 DEF NamesInv
<1> QED
  BY <1>2, <1>3, <1>4, <1>5, <1>6 DEF AliasCountStep, ElementStep
-----------------------------------------------------------------------------
\* How the copies grow.

\* A type is read: its name is copied, its fields and aliases follow.
LEMMA TypeCopied ==
  ASSUME NEW m, NEW c \in Nat, NEW i, i = c + 1, NEW set, NEW k, NEW l,
         StringsIn(m, c, Len(Fields(m, c)), Len(Numbered(m)[c].aliases), set),
         Numbered(m)[i].type # "base" => (k = 0 /\ l = 0)
  PROVE  StringsIn(m, i, k, l, set \cup {Numbered(m)[i].name})
<1> SUFFICES ASSUME NEW t \in 1 .. i
             PROVE  /\ Numbered(m)[t].name \in set \cup {Numbered(m)[i].name}
                    /\ Numbered(m)[t].type # "base" =>
                         /\ \A j \in 1 .. (IF t = i THEN k ELSE Len(Fields(m, t))) :
                              Fields(m, t)[j].name \in set \cup {Numbered(m)[i].name}
                         /\ \A j \in 1 .. (IF t = i THEN l ELSE Len(Numbered(m)[t].aliases)) :
                              Numbered(m)[t].aliases[j] \in set \cup {Numbered(m)[i].name}
  BY DEF StringsIn
<1>1. CASE t = i
  <2>1. 1 .. 0 = {}
    OBVIOUS
  <2> QED
    BY <1>1, <2>1
<1>2. CASE t # i
  <2>1. t \in 1 .. c
    BY <1>2
  <2> QED
    BY <1>2, <2>1 DEF StringsIn
<1> QED
  BY <1>1, <1>2

\* One more field.
LEMMA FieldCopied ==
  ASSUME NEW m, NEW c, NEW set, NEW k \in Nat, NEW h, h = k + 1, NEW l,
         StringsIn(m, c, k, l, set)
  PROVE  StringsIn(m, c, h, l, set \cup {Fields(m, c)[h].name})
<1>1. 1 .. h = 1 .. k \cup {h}
  OBVIOUS
<1> QED
  BY <1>1 DEF StringsIn

\* One more alias.
LEMMA AliasCopied ==
  ASSUME NEW m, NEW c, NEW set, NEW k, NEW l \in Nat, NEW h, h = l + 1,
         StringsIn(m, c, k, l, set)
  PROVE  StringsIn(m, c, k, h, set \cup {Numbered(m)[c].aliases[h]})
<1>1. 1 .. h = 1 .. l \cup {h}
  OBVIOUS
<1> QED
  BY <1>1 DEF StringsIn

LEMMA BeginCopies ==
  ASSUME LoaderInv, NEW m \in TypeMaps, NEW copy \in BOOLEAN, BeginStep(m, copy)
  PROVE  CopiesInv'
<1>1. Len(m) \in Nat /\ source' = m /\ loop'.types = Len(m)
  BY MapFacts DEF BeginStep
<1>2. Current' = 0
  BY <1>1 DEF Current
<1>3. 1 .. 0 = {}
  OBVIOUS
<1> QED
  BY <1>2, <1>3 DEF CopiesInv, StringsIn

LEMMA TypesCopied ==
  ASSUME LoaderInv, CopiesInv, BaseStep \/ FieldedStep
  PROVE  CopiesInv'
<1> SUFFICES ASSUME reader'.copy
             PROVE  StringsIn(source, Current, FieldsStored(Current), AliasesAdded(Current), copies)'
  BY DEF CopiesInv
<1> DEFINE c == Current
           i == Current + 1
           d == Numbered(source)[i]
           k == FieldsStored(Current)'
           l == AliasesAdded(Current)'
<1>1. /\ pc = "types" /\ loop.types > 0
      /\ loop'.types = loop.types - 1
      /\ reader.copy
      /\ copies' = copies \cup {d.name}
      /\ d.type # "base" => pc' = "fields" /\ loop'.items = Len(Fields(source, i))
      /\ source' = source
  BY DEF BaseStep, FieldedStep
<1>2. /\ source \in TypeMaps /\ Len(source) \in Nat
      /\ i \in 1 .. Len(source) /\ c \in Nat
      /\ loop.types \in 1 .. Len(source)
  BY <1>1, AtType
<1>3. Current' = i
  BY <1>1, <1>2 DEF Current
<1>4. d.type # "base" => (k = 0 /\ l = 0)
  <2> SUFFICES ASSUME d.type # "base" PROVE k = 0 /\ l = 0
    OBVIOUS
  <2> HIDE DEF i
  <2>1. Len(Fields(source, i)) \in Nat
    BY <1>2, FieldFacts, LoaderAssumption
  <2> QED
    BY <1>1, <1>3, <2>1 DEF FieldsStored, AliasesAdded
<1>5. StringsIn(source, c, Len(Fields(source, c)), Len(Numbered(source)[c].aliases), copies)
  BY <1>1 DEF CopiesInv, FieldsStored, AliasesAdded, Aliases
<1>6. i = c + 1
  OBVIOUS
<1> HIDE DEF c, i, k, l
<1>7. StringsIn(source, i, k, l, copies \cup {d.name})
  BY <1>2, <1>4, <1>5, <1>6, TypeCopied
<1> QED
  BY <1>1, <1>3, <1>7 DEF k, l

LEMMA ElementCopied ==
  ASSUME LoaderInv, CopiesInv, ElementStep
  PROVE  CopiesInv'
<1> SUFFICES ASSUME reader'.copy
             PROVE  StringsIn(source, Current, FieldsStored(Current), AliasesAdded(Current), copies)'
  BY DEF CopiesInv
<1> DEFINE i == Current
           k == FieldsStored(i)
           h == k + 1
           l == AliasesAdded(i)
           e == Element(arch, source, i, h)
           n == Len(Fields(source, i))
<1>1. /\ pc = "fields" /\ loop.items > 0 /\ reader.copy
      /\ copies' = copies \cup {e.name}
      /\ loop' = [types |-> loop.types, id |-> loop.id, items |-> loop.items - 1]
      /\ UNCHANGED <<pc, source>>
  BY DEF ElementStep
<1>2. n \in Nat /\ loop.items \in 0 .. n /\ k = n - loop.items
  BY <1>1, AtFields
<1>3. Current' = i /\ l = 0 /\ AliasesAdded(Current)' = l
  BY <1>1 DEF Current, AliasesAdded
<1>4. k \in Nat /\ FieldsStored(Current)' = h
  BY <1>1, <1>2, <1>3 DEF FieldsStored
<1>5. e.name = Fields(source, i)[h].name
  BY DEF Element, Info
<1>6. StringsIn(source, i, k, l, copies) /\ h = k + 1
  BY <1>1 DEF CopiesInv
<1> HIDE DEF i, k, h, l
<1>7. StringsIn(source, i, h, l, copies \cup {Fields(source, i)[h].name})
  BY <1>4, <1>6, FieldCopied
<1> QED
  BY <1>1, <1>3, <1>4, <1>5, <1>7

LEMMA AliasIsCopied ==
  ASSUME LoaderInv, CopiesInv, AliasStep
  PROVE  CopiesInv'
<1> SUFFICES ASSUME reader'.copy
             PROVE  StringsIn(source, Current, FieldsStored(Current), AliasesAdded(Current), copies)'
  BY DEF CopiesInv
<1> DEFINE i == Current
           k == FieldsStored(i)
           l == AliasesAdded(i)
           h == l + 1
           n == Len(Aliases(i))
<1>1. /\ pc = "aliases" /\ loop.items > 0 /\ reader.copy
      /\ copies' = copies \cup {Aliases(i)[h]}
      /\ loop' = [types |-> loop.types, id |-> loop.id, items |-> loop.items - 1]
      /\ UNCHANGED <<pc, source>>
  BY DEF AliasStep
<1>2. n \in Nat /\ loop.items \in 0 .. n /\ l = n - loop.items
  BY <1>1, AtAliases
<1>3. Current' = i /\ Aliases(Current)' = Aliases(i)
      /\ FieldsStored(Current)' = k
  BY <1>1 DEF Current, Aliases, FieldsStored
<1>4. AliasesAdded(Current)' = h
  BY <1>1, <1>2, <1>3 DEF AliasesAdded, Aliases
<1>5. StringsIn(source, i, k, l, copies) /\ h = l + 1
  BY <1>1 DEF CopiesInv
<1> HIDE DEF i, k, h, l, n
<1>6. l \in Nat
  BY <1>2
<1>7. StringsIn(source, i, k, h, copies \cup {Numbered(source)[i].aliases[h]})
  BY <1>5, <1>6, AliasCopied
<1> QED
  BY <1>1, <1>3, <1>4, <1>7 DEF Aliases

\* The other steps read no string.
LEMMA SameCopies ==
  ASSUME LoaderInv, CopiesInv,
         AliasCountStep \/ NextType \/ Return \/ FreeBuffer \/ UNCHANGED vars
  PROVE  CopiesInv'
<1>1. /\ source' = source /\ copies' = copies /\ Current' = Current
      /\ reader'.copy = reader.copy
  BY DEF AliasCountStep, NextType, Return, FreeBuffer, vars, registry, Current
<1> SUFFICES pc' # "idle" => /\ pc # "idle"
                             /\ FieldsStored(Current)' = FieldsStored(Current)
                             /\ AliasesAdded(Current)' = AliasesAdded(Current)
  BY <1>1 DEF CopiesInv
<1>2. CASE AliasCountStep
  <2>1. /\ pc = "fields" /\ loop.items = 0 /\ source \in TypeMaps
        /\ Current \in 1 .. Len(source) /\ Numbered(source)[Current].type # "base"
        /\ Len(Fields(source, Current)) \in Nat
    BY <1>2, AtFields DEF AliasCountStep
  <2>2. Len(Aliases(Current)) \in Nat
    BY <2>1, TypeFacts, ListFacts DEF Aliases
  <2>3. AliasesAdded(Current)' = 0 /\ AliasesAdded(Current) = 0
    BY <1>1, <1>2, <2>1, <2>2 DEF AliasCountStep, AliasesAdded, Aliases
  <2>4. FieldsStored(Current)' = FieldsStored(Current)
    BY <1>1, <1>2, <2>1 DEF AliasCountStep, FieldsStored
  <2> QED
    BY <2>1, <2>3, <2>4
<1>3. CASE NextType
  <2>1. pc = "aliases" /\ loop.items = 0 /\ pc' = "types"
    BY <1>3 DEF NextType
  <2>2. Len(Aliases(Current)) \in Nat
        /\ AliasesAdded(Current) = Len(Aliases(Current)) - loop.items
    BY <2>1, AtAliases
  <2> QED
    BY <1>1, <2>1, <2>2 DEF AliasesAdded, Aliases, FieldsStored
<1>4. CASE Return \/ FreeBuffer
  <2>1. pc \in {"types", "done"} /\ pc' = "done"
    BY <1>4 DEF Return, FreeBuffer
  <2> QED
    BY <1>1, <2>1 DEF AliasesAdded, Aliases, FieldsStored
<1>5. CASE UNCHANGED vars
  <2>1. pc' = pc /\ loop' = loop
    BY <1>5 DEF vars
  <2> QED
    BY <1>1, <2>1 DEF AliasesAdded, Aliases, FieldsStored
<1> QED
  BY <1>2, <1>3, <1>4, <1>5
-----------------------------------------------------------------------------
\* The theorems.

\* Every step of the loader is one of those described above.
LEMMA LoaderSteps ==
  LoaderInv /\ [Next]_vars =>
    \/ \E m \in TypeMaps, copy \in BOOLEAN : BeginStep(m, copy)
    \/ BaseStep \/ FieldedStep
    \/ ElementStep
    \/ AliasCountStep \/ AliasStep \/ NextType \/ Return \/ FreeBuffer
    \/ UNCHANGED vars
  BY BeginLoadStep, LoadBaseStep, LoadFieldedStep, LoadFieldStep, LoadEnumeratorStep,
     ReadAliasCountStep, LoadAliasStep
  DEF Next, LoadStep, ReloadIgnored

\* At every moment the registry, the reader and the loop are those of the
\* place the load has come to in the file of its source.
THEOREM Reading == Spec => [](LoaderInv /\ NamesInv)
<1>1. Init => LoaderInv /\ NamesInv
  BY StartsRight DEF Init, NamesInv
<1>2. LoaderInv /\ NamesInv /\ [Next]_vars => LoaderInv' /\ NamesInv'
  <2> SUFFICES ASSUME LoaderInv, NamesInv, [Next]_vars PROVE LoaderInv' /\ NamesInv'
    OBVIOUS
  <2>1. CASE \E m \in TypeMaps, copy \in BOOLEAN : BeginStep(m, copy)
    BY <2>1, BeginKeeps, BeginNames
  <2>2. CASE BaseStep \/ FieldedStep
    BY <2>2, BaseKeeps, FieldedKeeps, TypesNamed
  <2>3. CASE ElementStep
    BY <2>3, ElementKeeps, SameNames
  <2>4. CASE AliasCountStep
    BY <2>4, AliasCountKeeps, SameNames
  <2>5. CASE AliasStep
    BY <2>5, AliasKeeps, AliasNames
  <2>6. CASE NextType
    BY <2>6, NextTypeKeeps, SameNames
  <2>7. CASE Return
    BY <2>7, ReturnKeeps, SameNames
  <2>8. CASE FreeBuffer
    BY <2>8, FreeBufferKeeps, SameNames
  <2>9. CASE UNCHANGED vars
    BY <2>9, StutterKeeps, SameNames
  <2> QED
    BY <2>1, <2>2, <2>3, <2>4, <2>5, <2>6, <2>7, <2>8, <2>9, LoaderSteps
<1> QED
  BY <1>1, <1>2, PTL DEF Spec

\* The invariant when a load is over.
LEMMA AtEnd ==
  ASSUME LoaderInv, pc = "done"
  PROVE  /\ arch \in {4, 8} /\ arch \in Arch /\ source \in TypeMaps /\ Len(source) \in Nat
         /\ Current = Len(source)
         /\ data = File(arch, source) \/ (reader.copy /\ data = NoData)
         /\ reader.offset = Place(arch, Cells(arch, source), TypePlace(arch, source, Len(source)))
         /\ type_table[0] = R!RawSlot
         /\ DOMAIN type_table = 0 .. Len(source)
         /\ \A t \in 1 .. Len(source) :
              IsFilled(arch, source, t, Len(Fields(source, t)), type_table[t])
<1>1. /\ arch \in {4, 8} /\ arch \in Arch /\ source \in TypeMaps /\ loop.types = 0
      /\ data = File(arch, source) \/ (reader.copy /\ data = NoData)
  BY LoaderAssumption, WordAssumption DEF LoaderInv, FrameInv, PlaceInv
<1>2. Len(source) \in Nat
  BY <1>1, MapFacts
<1>3. Current = Len(source)
  BY <1>1, <1>2 DEF Current
<1>4. reader.offset = Place(arch, Cells(arch, source), TypePlace(arch, source, Len(source)))
  BY <1>3 DEF LoaderInv, PlaceInv, ReaderPlace
<1>5. SlotsAre(arch, source, Len(source), Len(Fields(source, Len(source))), type_table)
  BY <1>3 DEF LoaderInv, SlotsInv, FieldsStored
<1>6. /\ type_table[0] = R!RawSlot
      /\ DOMAIN type_table = 0 .. Len(source)
      /\ \A t \in 1 .. Len(source) :
           IsFilled(arch, source, t, Len(Fields(source, t)), type_table[t])
  <2> DEFINE n == Len(source)
  <2>1. n \in Nat /\ 0 \in 0 .. n /\ ~ (0 \in 1 .. n) /\ \A t \in 1 .. n : t \in 0 .. n
    BY <1>2
  <2>2. SlotsAre(arch, source, n, Len(Fields(source, n)), type_table)
    BY <1>5
  <2>3. n = Len(source)
    OBVIOUS
  <2> HIDE DEF n
  <2> QED
    BY <2>1, <2>2, <2>3 DEF SlotsAre
<1> QED
  BY <1>1, <1>2, <1>3, <1>4, <1>6

\* A load with copy copies every string it reads, on each of its paths.
THEOREM EveryStringCopied == Spec => []CopiesInv
<1>1. Init => CopiesInv
  BY DEF Init, CopiesInv
<1>2. LoaderInv /\ CopiesInv /\ [Next]_vars => CopiesInv'
  <2> SUFFICES ASSUME LoaderInv, CopiesInv, [Next]_vars PROVE CopiesInv'
    OBVIOUS
  <2>1. CASE \E m \in TypeMaps, copy \in BOOLEAN : BeginStep(m, copy)
    BY <2>1, BeginCopies
  <2>2. CASE BaseStep \/ FieldedStep
    BY <2>2, TypesCopied
  <2>3. CASE ElementStep
    BY <2>3, ElementCopied
  <2>4. CASE AliasStep
    BY <2>4, AliasIsCopied
  <2>5. CASE AliasCountStep \/ NextType \/ Return \/ FreeBuffer \/ UNCHANGED vars
    BY <2>5, SameCopies
  <2> QED
    BY <2>1, <2>2, <2>3, <2>4, <2>5, LoaderSteps
<1> QED
  BY <1>1, <1>2, Reading, PTL DEF Spec

\* There is no buffer before a load, or after one with copy.
LEMMA WithoutBuffer ==
  ASSUME LoaderInv, data = NoData, pc # "idle"
  PROVE  pc = "done" /\ reader.copy
<1>1. /\ arch \in {4, 8} /\ source \in TypeMaps /\ Writable(arch, Volume(arch), source)
      /\ data = File(arch, source) \/ (pc = "done" /\ reader.copy)
  BY LoaderAssumption, WordAssumption DEF LoaderInv, FrameInv, PlaceInv
<1>2. DOMAIN File(arch, source) # {}
  <2>1. /\ DOMAIN File(arch, source) = CellPlaces(arch, Cells(arch, source))
        /\ Len(Cells(arch, source)) \in Nat
        /\ DOMAIN Cells(arch, source) = 1 .. Len(Cells(arch, source))
        /\ Len(Cells(arch, source)) >= 3 + Len(Strings)
        /\ Len(Strings) \in Nat
    BY <1>1, FileHolds, StringFacts
  <2>2. 1 \in DOMAIN Cells(arch, source)
    BY <2>1
  <2> QED
    BY <2>1, <2>2 DEF CellPlaces
<1>3. DOMAIN NoData = {}
  BY DEF NoData
<1> QED
  BY <1>1, <1>2, <1>3

\* The names that the fields of a slot have.
LEMMA FieldNamesHeld ==
  ASSUME NEW a, NEW m \in TypeMaps, NEW i \in 1 .. Len(m), NEW slot,
         IsFilled(a, m, i, Len(Fields(m, i)), slot), NEW k \in 0 .. slot.field_count - 1
  PROVE  /\ Numbered(m)[i].type # "base"
         /\ \E j \in 1 .. Len(Fields(m, i)) : slot.fields[k].name = Fields(m, i)[j].name
<1> DEFINE d == Numbered(m)[i]
           n == Len(Fields(m, i))
<1>1. CASE d.type = "base"
  <2>1. slot.field_count = 0
    BY <1>1 DEF IsFilled
  <2> QED
    BY <2>1
<1>2. CASE d.type # "base"
  <2>1. n \in Nat
    BY <1>2, FieldFacts, LoaderAssumption
  <2> DEFINE array == [j \in 0 .. n - 1 |-> IF j < n THEN Element(a, m, i, j + 1) ELSE Garbage]
  <2>2. slot.field_count = n /\ slot.fields = array
    BY <1>2 DEF IsFilled
  <2>3. k \in 0 .. n - 1 /\ k + 1 \in 1 .. n /\ k < n
    BY <2>1, <2>2
  <2> DEFINE h == k + 1
  <2>4. slot.fields[k] = Element(a, m, i, h)
    BY <2>2, <2>3
  <2>5. Element(a, m, i, h).name = Fields(m, i)[h].name
    BY DEF Element, Info
  <2>6. h \in 1 .. n
    BY <2>3
  <2> QED
    BY <1>2, <2>4, <2>5, <2>6
<1> QED
  BY <1>1, <1>2

\* No name the registry holds is lost with the buffer: after a load with copy
\* every one of them, on whatever path it was read, is a copy.
THEOREM BufferMayBeFreed == Spec => []NoDanglingNames
<1>1. LoaderInv /\ NamesInv /\ CopiesInv => NoDanglingNames
  <2> SUFFICES ASSUME LoaderInv, NamesInv, CopiesInv, data = NoData
               PROVE  HeldNames \subseteq copies
    BY DEF NoDanglingNames
  <2>1. CASE pc = "idle"
    <3>1. type_table = <<>> /\ type_hash_table.capacity = 0
      BY <2>1 DEF LoaderInv, IdleInv, R!Init, R!hashtable_create
    <3>2. \A name : R!reflect_type_info_from_name(name) = Undefined
      BY <3>1 DEF R!reflect_type_info_from_name
    <3>3. DOMAIN type_table = {}
      BY <3>1
    <3> QED
      BY <3>2, <3>3 DEF HeldNames
  <2>2. CASE pc # "idle"
    <3> DEFINE n == Len(source)
               d(t) == Numbered(source)[t]
    <3>1. pc = "done" /\ reader.copy
      BY <2>2, WithoutBuffer
    <3>2. /\ source \in TypeMaps /\ n \in Nat /\ Current = n
          /\ type_table[0] = R!RawSlot
          /\ DOMAIN type_table = 0 .. n
          /\ \A t \in 1 .. n : IsFilled(arch, source, t, Len(Fields(source, t)), type_table[t])
      BY <3>1, AtEnd
    <3>3. StringsIn(source, n, Len(Fields(source, n)), Len(d(n).aliases), copies)
      BY <3>1, <3>2 DEF CopiesInv, FieldsStored, AliasesAdded, Aliases
    <3> HIDE DEF n
    <3>4. \A t \in 1 .. n :
            /\ d(t).name \in copies
            /\ d(t).type # "base" =>
                 /\ \A j \in 1 .. Len(Fields(source, t)) : Fields(source, t)[j].name \in copies
                 /\ \A j \in 1 .. Len(d(t).aliases) : d(t).aliases[j] \in copies
      BY <3>3 DEF StringsIn
    <3>5. ASSUME NEW t \in DOMAIN type_table, R!Initialised(t)
          PROVE  t \in 1 .. n
      <4>1. t # 0
        BY <3>2, <3>5 DEF R!Initialised, R!RawSlot
      <4> QED
        BY <3>2, <4>1
    <3>6. ASSUME NEW t \in 1 .. n PROVE type_table[t].name = d(t).name
      BY <3>2 DEF IsFilled
    <3>7. ASSUME NEW t \in 1 .. n, NEW k \in 0 .. type_table[t].field_count - 1
          PROVE  type_table[t].fields[k].name \in copies
      <4>1. IsFilled(arch, source, t, Len(Fields(source, t)), type_table[t])
        BY <3>2
      <4>2. /\ d(t).type # "base"
            /\ \E j \in 1 .. Len(Fields(source, t)) :
                 type_table[t].fields[k].name = Fields(source, t)[j].name
        BY <3>2, <3>7, <4>1, FieldNamesHeld DEF n
      <4> QED
        BY <3>4, <4>2
    <3>8. ASSUME NEW name \in Name, R!reflect_type_info_from_name(name) \notin {NULL, Undefined}
          PROVE  name \in copies
      <4> DEFINE claimed == ClaimedBy(source, n, Len(d(n).aliases), name)
      <4>1. NamesAre(source, n, Len(d(n).aliases), type_hash_table)
        BY <3>1, <3>2 DEF NamesInv, AliasesAdded, Aliases
      <4>2. type_hash_table.capacity # 0 /\ hashtable_get(type_hash_table, name) # NotFound
        BY <3>8, SameTables DEF R!reflect_type_info_from_name
      <4>3. n # 0
        BY <3>2, <4>1, <4>2 DEF NamesAre, Tables, n
      <4>4. claimed # {}
        BY <4>1, <4>2, <4>3 DEF NamesAre, n
      <4>5. PICK t \in 1 .. n :
              \/ d(t).name = name
              \/ /\ d(t).type # "base"
                 /\ \E j \in 1 .. (IF t = n THEN Len(d(n).aliases) ELSE Len(d(t).aliases)) :
                      d(t).aliases[j] = name
        BY <4>4 DEF ClaimedBy
      <4> QED
        BY <3>4, <4>5
    <3> DEFINE filled == {t \in DOMAIN type_table : R!Initialised(t)}
    <3>9. filled \subseteq 1 .. n
      BY <3>5
    <3> HIDE DEF filled
    <3>10. {type_table[t].name : t \in filled} \subseteq copies
      BY <3>4, <3>6, <3>9
    <3>11. \A t \in filled :
             {type_table[t].fields[k].name : k \in 0 .. type_table[t].field_count - 1}
               \subseteq copies
      BY <3>7, <3>9
    <3>12. {name \in Name : R!reflect_type_info_from_name(name) \notin {NULL, Undefined}}
             \subseteq copies
      BY <3>8
    <3> QED
      BY <3>10, <3>11, <3>12 DEF HeldNames, filled
  <2> QED
    BY <2>1, <2>2
<1> QED
  BY <1>1, Reading, EveryStringCopied, PTL

\* The reader has consumed the file to its last byte when the load returns:
\* the last cell begins at the greatest offset of the file and ends where the
\* reader is.
THEOREM NothingUnread == Spec => []WholeFileRead
<1>1. LoaderInv => WholeFileRead
  <2> SUFFICES ASSUME LoaderInv, pc = "done", data # NoData
               PROVE  reader.offset = Max(DOMAIN data) + Width(arch, data[Max(DOMAIN data)])
    BY DEF WholeFileRead
  <2> DEFINE cells == Cells(arch, source)
             n == Len(cells)
             At(k) == Place(arch, cells, k)
  <2>1. arch \in {4, 8} /\ source \in TypeMaps /\ data = File(arch, source)
    BY AtEnd
  <2>2. /\ Holds(arch, data, cells) /\ DOMAIN data = CellPlaces(arch, cells)
        /\ IsCells(cells) /\ DOMAIN cells = 1 .. n
        /\ n = TypePlace(arch, source, Len(source))
        /\ n \in Nat /\ n # 0
    BY <2>1, FileHolds, StringFacts
  <2>3. reader.offset = At(n)
    BY <2>2, AtEnd
  <2> HIDE DEF cells, n
  <2>4. n = Len(cells)
    BY DEF n
  <2>5. /\ \A k \in 0 .. n : At(k) \in Nat
        /\ \A k \in 1 .. n : At(k) = At(k - 1) + Width(arch, cells[k])
        /\ \A k \in 0 .. n : \A j \in 0 .. k - 1 : At(j) < At(k)
    BY <2>1, <2>2, <2>4, PlaceGrows, PlacesAscend
  <2>6. DOMAIN data = {At(k - 1) : k \in 1 .. n} /\ \A k \in 1 .. n : data[At(k - 1)] = cells[k]
    BY <2>2 DEF CellPlaces, Holds
  <2> HIDE DEF At
  <2> DEFINE last == n - 1
  <2>7. n \in 1 .. n /\ last \in 0 .. n
    BY <2>2
  <2>8. At(last) \in DOMAIN data /\ At(last) \in Nat /\ data[At(last)] = cells[n]
    BY <2>5, <2>6, <2>7
  <2>9. ASSUME NEW o \in DOMAIN data PROVE o \in Nat /\ At(last) >= o
    <3>1. PICK k \in 1 .. n : o = At(k - 1)
      BY <2>6
    <3> DEFINE j == k - 1
    <3>2. j \in 0 .. n /\ (j = last \/ j \in 0 .. last - 1)
      BY <2>2
    <3>3. o = At(j) /\ At(j) \in Nat
      BY <2>5, <3>1, <3>2
    <3> HIDE DEF j, last
    <3>4. j # last => At(j) < At(last)
      BY <2>5, <2>7, <3>2
    <3> QED
      BY <2>8, <3>3, <3>4
  <2> HIDE DEF last
  <2>10. Max(DOMAIN data) = At(last)
    <3> DEFINE top == Max(DOMAIN data)
    <3>1. \E x \in DOMAIN data : \A y \in DOMAIN data : x >= y
      BY <2>8, <2>9
    <3>2. top \in DOMAIN data /\ \A y \in DOMAIN data : top >= y
      BY <3>1 DEF Max
    <3> HIDE DEF top
    <3>3. top \in Nat /\ top >= At(last) /\ At(last) >= top
      BY <2>8, <2>9, <3>2
    <3>4. top = At(last)
      BY <2>8, <3>3
    <3> QED
      BY <3>4 DEF top
  <2>11. At(n) = At(last) + Width(arch, cells[n])
    BY <2>5, <2>7 DEF last
  <2> QED
    BY <2>3, <2>8, <2>10, <2>11
<1> QED
  BY <1>1, Reading, PTL

\* What was written is what is loaded, column for column.
THEOREM WrittenIsLoaded == Spec => []RoundTrip
<1>1. LoaderInv => RoundTrip
  <2> SUFFICES ASSUME LoaderInv, pc = "done", NEW i \in DOMAIN Numbered(source)
               PROVE  LET d == Numbered(source)[i]
                          slot == type_table[d.id]
                      IN  /\ slot.name = d.name
                          /\ slot.size = d.size
                          /\ slot.variant = object_types[d.type]
                          /\ slot.fields = IF d.type = "base" THEN R!Malloc(0)
                                           ELSE LoadedFields(Numbered(source), d)
    BY DEF RoundTrip
  <2> DEFINE d == Numbered(source)[i]
             slot == type_table[i]
             n == Len(Fields(source, i))
  <2>1. arch \in Arch /\ source \in TypeMaps /\ i \in 1 .. Len(source)
    BY AtEnd, NumberedFacts
  <2>2. d.id = i
    BY <2>1, NumberedFacts
  <2>3. IsFilled(arch, source, i, n, slot)
    BY <2>1, AtEnd
  <2>4. CASE d.type = "base"
    <3>1. slot = [id |-> i, name |-> d.name, size |-> d.size, variant |-> 1,
                  field_count |-> 0, fields |-> R!Malloc(0), field_table |-> Garbage]
      BY <2>3, <2>4 DEF IsFilled
    <3>2. object_types["base"] = 1
      BY DEF object_types
    <3> QED
      BY <2>2, <2>4, <3>1, <3>2
  <2>5. CASE d.type # "base"
    <3>1. n \in Nat
      BY <2>1, <2>5, FieldFacts, LoaderAssumption
    <3>2. slot = [id |-> i, name |-> d.name, size |-> d.size,
                  variant |-> object_types[d.type], field_count |-> n,
                  fields |-> [j \in 0 .. n - 1 |->
                                IF j < n THEN Element(arch, source, i, j + 1) ELSE Garbage],
                  field_table |-> slot.field_table]
      BY <2>3, <2>5 DEF IsFilled
    <3>3. LoadedFields(Numbered(source), d) = [k \in 0 .. n - 1 |-> Element(arch, source, i, k + 1)]
      BY DEF LoadedFields, Fields, Element, Info
    <3>4. slot.fields = [k \in 0 .. n - 1 |-> Element(arch, source, i, k + 1)]
      <4>1. \A k \in 0 .. n - 1 : k < n
        BY <3>1
      <4>2. [j \in 0 .. n - 1 |-> IF j < n THEN Element(arch, source, i, j + 1) ELSE Garbage]
              = [k \in 0 .. n - 1 |-> Element(arch, source, i, k + 1)]
        BY <4>1
      <4> QED
        BY <3>2, <4>2
    <3>5. slot.name = d.name /\ slot.size = d.size /\ slot.variant = object_types[d.type]
      BY <3>2
    <3> QED
      BY <2>2, <2>5, <3>3, <3>4, <3>5
  <2> QED
    BY <2>4, <2>5
<1> QED
  BY <1>1, Reading, PTL

\* A name leads to the last type that claims it.
LEMMA LookupFinds ==
  ASSUME LoaderInv, NamesInv, pc = "done", Numbered(source) # <<>>, NEW name \in Name
  PROVE  R!reflect_type_info_from_name(name) =
           IF Claimants(Numbered(source), name) = {} THEN NULL
           ELSE Claimed(Numbered(source), name).id
<1> DEFINE types == Numbered(source)
           n == Len(source)
           claimed == Claimants(types, name)
           t == hashtable_get(type_hash_table, name)
<1>1. source \in TypeMaps /\ n \in Nat /\ Current = n
  BY AtEnd
<1>2. /\ IsList(types) /\ Len(types) = n /\ DOMAIN types = 1 .. n
      /\ \A i \in 1 .. n : types[i].id = i
  BY <1>1, NumberedFacts
<1>3. n # 0
  <2> SUFFICES ASSUME n = 0 PROVE FALSE
    OBVIOUS
  <2>1. DOMAIN types = {}
    BY <1>2
  <2>2. types = << >>
    BY <1>2, <2>1 DEF IsList
  <2> QED
    BY <2>2
<1>4. NamesAre(source, n, Len(Aliases(n)), type_hash_table)
  BY <1>1 DEF NamesInv, AliasesAdded
<1>5. ClaimedBy(source, n, Len(Aliases(n)), name) = claimed
  <2> DEFINE A(i) == Len(types[i].aliases)
             By(i, l) == \/ types[i].name = name
                         \/ /\ types[i].type # "base"
                            /\ \E j \in 1 .. l : types[i].aliases[j] = name
  <2>1. \A i : Contains(types[i].aliases, name)
                 <=> \E j \in 1 .. A(i) : types[i].aliases[j] = name
    BY DEF Contains
  <2>2. claimed = {i \in 1 .. n : By(i, A(i))}
    BY <1>2, <2>1 DEF Claimants
  <2>3. ClaimedBy(source, n, A(n), name) = {i \in 1 .. n : By(i, IF i = n THEN A(n) ELSE A(i))}
    BY DEF ClaimedBy
  <2>4. A(n) = Len(Aliases(n))
    BY DEF Aliases
  <2> HIDE DEF A, By, claimed
  <2> QED
    BY <2>2, <2>3, <2>4
<1>6. \/ claimed = {} /\ t = NotFound
      \/ t \in claimed /\ \A u \in claimed : u <= t
  BY <1>3, <1>4, <1>5 DEF NamesAre
<1>7. claimed \subseteq 1 .. n
  BY <1>5, ClaimedInRange
<1>8. R!reflect_type_info_from_name(name) = IF t = NotFound THEN NULL ELSE t
  <2>1. type_hash_table.capacity # 0
    BY <1>1, <1>3, <1>4 DEF NamesAre, Tables
  <2>2. R!hashtable_get(type_hash_table, name) = t /\ R!NotFound = NotFound
    BY SameTables
  <2> HIDE DEF t
  <2> QED
    BY <2>1, <2>2 DEF R!reflect_type_info_from_name
<1> HIDE DEF claimed, t
<1>9. CASE claimed = {}
  BY <1>6, <1>8, <1>9 DEF claimed
<1>10. CASE claimed # {}
  <2>1. t \in claimed /\ t \in 1 .. n /\ \A u \in claimed : u <= t /\ u \in 1 .. n
    BY <1>6, <1>7, <1>10
  <2>2. t # NotFound
    BY <1>1, <2>1 DEF NotFound
  <2> DEFINE top == Max(claimed)
  <2>3. top \in claimed /\ \A u \in claimed : top >= u
    <3>1. \E x \in claimed : \A y \in claimed : x >= y
      BY <2>1
    <3> QED
      BY <3>1 DEF Max
  <2> HIDE DEF top
  <2>4. top = t
    <3>1. top >= t /\ top <= t /\ top \in 1 .. n
      BY <2>1, <2>3
    <3> QED
      BY <1>1, <2>1, <3>1
  <2>5. Claimed(types, name).id = t
    BY <1>2, <2>1, <2>4 DEF Claimed, claimed, top
  <2> QED
    BY <1>8, <1>10, <2>2, <2>5 DEF claimed
<1> QED
  BY <1>9, <1>10

\* A field leads to the slot of its type, or to the one that is never filled.
LEMMA FieldLeads ==
  ASSUME LoaderInv, pc = "done", NEW i \in 1 .. Len(source),
         Numbered(source)[i].type \in {"struct", "union"},
         NEW k \in 1 .. Len(Fields(source, i))
  PROVE  LET type == Fields(source, i)[k].type
             target == type_table[i].fields[k - 1].type_ptr
         IN  IF type \in TypeNames(Numbered(source)) THEN type_table[target].name = type
             ELSE ~R!Initialised(target)
<1> DEFINE d == Numbered(source)[i]
           n == Len(Fields(source, i))
           f == Fields(source, i)[k]
           target == RefId(Numbered(source), f.type)
<1>1. /\ source \in TypeMaps /\ d.type # "base" /\ d.type # "enum"
      /\ type_table[0] = R!RawSlot
      /\ \A t \in 1 .. Len(source) :
           IsFilled(arch, source, t, Len(Fields(source, t)), type_table[t])
  BY AtEnd
<1>2. n \in Nat
  BY <1>1, FieldFacts, LoaderAssumption
<1>3. type_table[i].fields[k - 1] = Info(source, f)
  <2>1. type_table[i].fields = [j \in 0 .. n - 1 |->
                                  IF j < n THEN Element(arch, source, i, j + 1) ELSE Garbage]
    <3>1. IsFilled(arch, source, i, n, type_table[i])
      BY <1>1
    <3> QED
      BY <1>1, <3>1, SMTT(30) DEF IsFilled
  <2> DEFINE j == k - 1
  <2>2. j \in 0 .. n - 1 /\ j < n /\ j + 1 = k
    BY <1>2
  <2>3. type_table[i].fields[j] = Element(arch, source, i, k)
    BY <2>1, <2>2
  <2> QED
    BY <1>1, <2>3 DEF Element
<1>4. type_table[i].fields[k - 1].type_ptr = target
  BY <1>3 DEF Info
<1>5. CASE f.type \in TypeNames(Numbered(source))
  <2>1. target \in 1 .. Len(source) /\ Numbered(source)[target].name = f.type
    BY <1>1, <1>5, RefFacts
  <2>2. type_table[target].name = Numbered(source)[target].name
    <3> HIDE DEF target
    <3> DEFINE l == Len(Fields(source, target))
    <3>1. IsFilled(arch, source, target, l, type_table[target])
      BY <1>1, <2>1
    <3> HIDE DEF l
    <3> QED
      BY <3>1 DEF IsFilled
  <2> QED
    BY <1>4, <1>5, <2>1, <2>2
<1>6. CASE f.type \notin TypeNames(Numbered(source))
  <2>1. target = 0
    BY <1>1, <1>6, RefFacts
  <2>2. ~R!Initialised(target)
    BY <1>1, <2>1 DEF R!Initialised, R!RawSlot
  <2> QED
    BY <1>4, <1>6, <2>2
<1> QED
  BY <1>5, <1>6

\* Names and field types lead to the types that the file means by them.
THEOREM NamesLeadHome == Spec => []NamesResolve
<1>1. LoaderInv /\ NamesInv => NamesResolve
  <2> SUFFICES ASSUME LoaderInv, NamesInv, pc = "done" PROVE NamesResolve
    BY DEF NamesResolve
  <2> DEFINE types == Numbered(source)
  <2>1. types # <<>> =>
          \A name \in Name :
            R!reflect_type_info_from_name(name) =
              IF Claimants(types, name) = {} THEN NULL ELSE Claimed(types, name).id
    BY LookupFinds
  <2>2. ASSUME NEW i \in DOMAIN types, types[i].type \in {"struct", "union"},
               NEW k \in DOMAIN Written(types, types[i])
        PROVE  LET fields == Written(types, types[i])
                   target == type_table[types[i].id].fields[k - 1].type_ptr
               IN  IF fields[k].type \in TypeNames(types)
                   THEN type_table[target].name = fields[k].type
                   ELSE ~R!Initialised(target)
    <3>1. source \in TypeMaps /\ i \in 1 .. Len(source) /\ types[i].id = i
      BY AtEnd, NumberedFacts
    <3>2. Written(types, types[i]) = Fields(source, i)
      BY DEF Fields
    <3>3. types[i].type # "base"
      BY <2>2
    <3>4. k \in 1 .. Len(Fields(source, i))
      BY <2>2, <3>1, <3>2, <3>3, FieldFacts, ListFacts
    <3>5. LET type == Fields(source, i)[k].type
              target == type_table[i].fields[k - 1].type_ptr
          IN  IF type \in TypeNames(types) THEN type_table[target].name = type
              ELSE ~R!Initialised(target)
      BY <2>2, <3>1, <3>4, FieldLeads
    <3> QED
      BY <3>1, <3>2, <3>5
  <2> QED
    BY <2>1, <2>2 DEF NamesResolve
<1> QED
  BY <1>1, Reading, PTL
-----------------------------------------------------------------------------
\* The loader uses the registry as its specification allows.

\* The variants have their numbers.
LEMMA Variants ==
  /\ object_types["base"] = R!Base /\ object_types["struct"] = R!Struct
  /\ object_types["union"] = R!Union /\ object_types["enum"] = R!Enum
  /\ R!Base = 1 /\ R!Struct = 2 /\ R!Union = 3 /\ R!Enum = 4
  /\ Garbage \notin Nat
  BY LoaderAssumption DEF object_types, R!Base, R!Struct, R!Union, R!Enum

\* The next type has a slot that is not filled.
LEMMA NextIsFresh ==
  ASSUME LoaderInv, pc = "types", loop.types > 0
  PROVE  R!Fresh(Current + 1) /\ Current + 1 \in R!TypeIds
<1> DEFINE i == Current + 1
           n == Len(source)
<1>1. i \in 1 .. n /\ n \in Nat /\ type_table[i] = R!RawSlot
  BY AtType
<1>2. DOMAIN type_table = 0 .. n
  BY DEF LoaderInv, SlotsInv, SlotsAre
<1>3. i \in R!TypeIds
  BY <1>1, <1>2 DEF R!TypeIds
<1>4. ~R!Initialised(i)
  BY <1>1 DEF R!Initialised, R!RawSlot
<1> QED
  BY <1>3, <1>4 DEF R!Fresh

LEMMA BeginAllocates ==
  ASSUME NEW m \in TypeMaps, NEW copy, BeginStep(m, copy)
  PROVE  R!Allocate
<1> DEFINE n == Len(m)
<1>1. n \in 0 .. MaxTypes
  BY MapFacts, LoaderAssumption
<1>2. R!AllocateTables(n)
  <2>1. R!hashtable_create(n * 2) = hashtable_create(n * 2)
    BY SameTables
  <2> QED
    BY <2>1 DEF BeginStep, R!AllocateTables
<1> QED
  BY <1>1, <1>2 DEF R!Allocate

LEMMA BaseAdds == LoaderInv /\ BaseStep => R!AddBase
<1> SUFFICES ASSUME LoaderInv, BaseStep PROVE R!AddBase
  OBVIOUS
<1> DEFINE i == Current + 1
           d == Numbered(source)[i]
<1>1. /\ pc = "types" /\ loop.types > 0 /\ UNCHANGED is_init
      /\ type_table' = [type_table EXCEPT ![i] =
           [id |-> i, name |-> d.name, size |-> d.size, variant |-> 1, field_count |-> 0,
            fields |-> R!Malloc(0), field_table |-> Garbage]]
      /\ type_hash_table' = hashtable_insert(type_hash_table, [name |-> d.name, id |-> i])
  BY DEF BaseStep
<1>2. /\ source \in TypeMaps /\ i \in 1 .. Len(source)
      /\ type_table[i] = R!RawSlot
  BY <1>1, AtType
<1>3. R!Fresh(i) /\ i \in R!TypeIds
  BY <1>1, NextIsFresh
<1> HIDE DEF i
<1>4. d.name \in Name /\ d.size \in Size
  BY <1>2, TypeFacts
<1> DEFINE name == d.name
           size == d.size
<1>5. type_table[i].field_table = Garbage
  BY <1>2 DEF R!RawSlot
<1>6. R!RegisterName(name, i)
  <2>1. R!hashtable_insert(type_hash_table, [name |-> name, id |-> i])
          = hashtable_insert(type_hash_table, [name |-> name, id |-> i])
    BY SameTables
  <2> QED
    BY <1>1, <2>1 DEF R!RegisterName
<1>7. type_table' = [type_table EXCEPT ![i] =
        [id |-> i, name |-> name, size |-> size, variant |-> 1, field_count |-> 0,
         fields |-> R!Malloc(0), field_table |-> Garbage]]
  BY <1>1
<1> HIDE DEF d, name, size
<1>8. R!add_base_type_info(name, i, size)
  BY <1>5, <1>6, <1>7, Variants DEF R!add_base_type_info
<1>9. name \in Name /\ size \in Size
  BY <1>4 DEF name, size
<1> QED
  BY <1>1, <1>3, <1>8, <1>9 DEF R!AddBase

LEMMA FieldedAdds == LoaderInv /\ FieldedStep => R!AddStruct \/ R!AddEnum
<1> SUFFICES ASSUME LoaderInv, FieldedStep PROVE R!AddStruct \/ R!AddEnum
  OBVIOUS
<1> DEFINE i == Current + 1
           d == Numbered(source)[i]
           n == Len(Fields(source, i))
<1>1. /\ pc = "types" /\ loop.types > 0 /\ UNCHANGED is_init /\ d.type # "base"
      /\ type_table' = [type_table EXCEPT ![i] =
           [id |-> i, name |-> d.name, size |-> d.size, variant |-> object_types[d.type],
            field_count |-> 0, fields |-> R!Malloc(n), field_table |-> hashtable_create(n * 2)]]
      /\ type_hash_table' = hashtable_insert(type_hash_table, [name |-> d.name, id |-> i])
  BY DEF FieldedStep
<1>2. source \in TypeMaps /\ i \in 1 .. Len(source)
  BY <1>1, AtType
<1>3. R!Fresh(i) /\ i \in R!TypeIds
  BY <1>1, NextIsFresh
<1> HIDE DEF i
<1>4. /\ d.name \in Name /\ d.size \in Size /\ n \in 0 .. MaxFields
      /\ d.type \in {"struct", "union", "enum"}
  BY <1>1, <1>2, TypeFacts, FieldFacts
<1> DEFINE name == d.name
           size == d.size
           variant == object_types[d.type]
<1>5. R!RegisterName(name, i)
  <2>1. R!hashtable_insert(type_hash_table, [name |-> name, id |-> i])
          = hashtable_insert(type_hash_table, [name |-> name, id |-> i])
    BY SameTables
  <2> QED
    BY <1>1, <2>1 DEF R!RegisterName
<1>6. type_table' = [type_table EXCEPT ![i] =
        [id |-> i, name |-> name, size |-> size, variant |-> variant, field_count |-> 0,
         fields |-> R!Malloc(n), field_table |-> R!hashtable_create(n * 2)]]
  <2>1. R!hashtable_create(n * 2) = hashtable_create(n * 2)
    BY SameTables
  <2> QED
    BY <1>1, <2>1
<1>7. name \in Name /\ size \in Size
  BY <1>4
<1>8. variant = R!Enum \/ variant \in {R!Struct, R!Union}
  BY <1>4, Variants
<1> HIDE DEF d, name, size, variant, n
<1>9. R!AddTypeWithFields(name, i, size, variant, n)
  BY <1>5, <1>6 DEF R!AddTypeWithFields
<1>10. CASE variant = R!Enum
  <2>1. R!add_enum_type_info(name, i, size, n)
    BY <1>9, <1>10 DEF R!add_enum_type_info
  <2> QED
    BY <1>1, <1>3, <1>4, <1>7, <2>1 DEF R!AddEnum
<1>11. CASE variant \in {R!Struct, R!Union}
  <2>1. R!add_struct_type_info(name, i, size, variant, n)
    BY <1>9 DEF R!add_struct_type_info
  <2> QED
    BY <1>1, <1>3, <1>4, <1>7, <1>11, <2>1 DEF R!AddStruct
<1> QED
  BY <1>8, <1>10, <1>11

\* The type whose fields are read is filled and has room for one more.
LEMMA RoomForField ==
  ASSUME LoaderInv, pc = "fields", loop.items > 0
  PROVE  /\ R!HasRoom(Current) /\ Current \in R!TypeIds
         /\ type_table[Current].variant = object_types[Numbered(source)[Current].type]
<1> DEFINE i == Current
           n == Len(Fields(source, i))
           k == FieldsStored(i)
           d == Numbered(source)[i]
<1>1. /\ source \in TypeMaps /\ Len(source) \in Nat /\ i \in 1 .. Len(source)
      /\ d.type # "base"
      /\ n \in Nat /\ loop.items \in 0 .. n /\ k = n - loop.items
      /\ IsFilled(arch, source, i, k, type_table[i])
  BY AtFields
<1>2. k \in 0 .. n - 1
  BY <1>1
<1>3. DOMAIN type_table = 0 .. Len(source)
  BY DEF LoaderInv, SlotsInv, SlotsAre
<1>4. i \in R!TypeIds
  BY <1>1, <1>3 DEF R!TypeIds
<1> HIDE DEF i, k, n
<1>5. /\ type_table[i].variant = object_types[d.type]
      /\ type_table[i].field_count = k
      /\ DOMAIN type_table[i].fields = 0 .. n - 1
  <2> DEFINE slot == type_table[i]
             array == [j \in 0 .. n - 1 |->
                         IF j < k THEN Element(arch, source, i, j + 1) ELSE Garbage]
  <2>1. slot = [id |-> i, name |-> d.name, size |-> d.size, variant |-> object_types[d.type],
                field_count |-> k, fields |-> array, field_table |-> slot.field_table]
    BY <1>1 DEF IsFilled, n
  <2>2. DOMAIN array = 0 .. n - 1
    OBVIOUS
  <2> HIDE DEF array, d
  <2>3. slot.variant = object_types[d.type] /\ slot.field_count = k /\ slot.fields = array
    BY <2>1
  <2> QED
    BY <2>2, <2>3 DEF d
<1>6. object_types[d.type] # Garbage
  <2>1. d.type \in {"struct", "union", "enum"}
    BY <1>1, TypeFacts
  <2> QED
    BY <2>1, Variants
<1>7. R!HasRoom(i)
  BY <1>2, <1>4, <1>5, <1>6 DEF R!HasRoom, R!Initialised
<1> QED
  BY <1>4, <1>5, <1>7 DEF i

LEMMA ElementAdds == LoaderInv /\ ElementStep => R!AddStructField \/ R!AddEnumField
<1> SUFFICES ASSUME LoaderInv, ElementStep PROVE R!AddStructField \/ R!AddEnumField
  OBVIOUS
<1> DEFINE i == Current
           k == FieldsStored(i)
           j == k + 1
           e == Element(arch, source, i, j)
           d == Numbered(source)[i]
           n == Len(Fields(source, i))
           f == Fields(source, i)[j]
<1>1. /\ pc = "fields" /\ loop.items > 0 /\ UNCHANGED <<type_hash_table, is_init>>
      /\ type_table' = [type_table EXCEPT ![i] = WithField(type_table[i], k, e)]
  BY DEF ElementStep
<1>2. /\ arch \in Arch /\ source \in TypeMaps /\ i \in 1 .. Len(source)
      /\ d.type # "base" /\ Len(source) \in Nat
      /\ n \in Nat /\ loop.items \in 0 .. n /\ k = n - loop.items
      /\ IsFilled(arch, source, i, k, type_table[i])
  BY <1>1, AtFields
<1>3. j \in 1 .. n
  BY <1>1, <1>2
<1>4. R!HasRoom(i) /\ i \in R!TypeIds /\ type_table[i].variant = object_types[d.type]
  BY <1>1, RoomForField
<1>5. DOMAIN type_table = 0 .. Len(source)
  BY <1>1 DEF LoaderInv, SlotsInv, SlotsAre
<1> HIDE DEF i, k, j
<1>6. type_table' = [type_table EXCEPT ![i] = R!AppendField(type_table[i], e)]
  <2> HIDE DEF e
  <2>1. R!AppendField(type_table[i], e) = WithField(type_table[i], k, e)
    BY <1>2, FieldAppended
  <2> QED
    BY <1>1, <2>1
<1>7. CASE d.type = "enum"
  <2> DEFINE name == f.name
             value == f.value % Word[arch]
  <2>1. e = [name |-> name, value |-> value]
    BY <1>7 DEF Element
  <2>2. name \in Name /\ value \in Value
    BY <1>2, <1>3, <1>7, FieldFacts
  <2> HIDE DEF name, value, e, d
  <2>3. R!add_enum_field_type(i, name, value)
    BY <1>1, <1>6, <2>1 DEF R!add_enum_field_type
  <2>4. type_table[i].variant = R!Enum
    BY <1>4, <1>7, Variants
  <2> QED
    BY <1>1, <1>4, <2>2, <2>3, <2>4 DEF R!AddEnumField
<1>8. CASE d.type # "enum"
  <2>1. e = Info(source, f)
    BY <1>8 DEF Element
  <2>2. e \in FieldInfo
    BY <1>2, <1>3, <1>8, <2>1, FieldFacts
  <2>3. e.type_ptr \in DOMAIN type_table
    <3>1. e.type_ptr = RefId(Numbered(source), f.type)
      BY <2>1 DEF Info
    <3> QED
      BY <1>2, <1>5, <3>1, RefFacts
  <2>4. type_table[i].variant \in {R!Struct, R!Union}
    <3>1. d.type \in {"struct", "union"}
      BY <1>2, <1>8, TypeFacts
    <3> QED
      BY <1>4, <3>1, Variants
  <2> HIDE DEF e
  <2>5. R!add_struct_field_type(i, e)
    BY <1>1, <1>6 DEF R!add_struct_field_type
  <2> QED
    BY <1>1, <1>4, <2>2, <2>3, <2>4, <2>5 DEF R!AddStructField
<1> QED
  BY <1>7, <1>8

LEMMA AliasAdds == LoaderInv /\ AliasStep => R!AddAlias
<1> SUFFICES ASSUME LoaderInv, AliasStep PROVE R!AddAlias
  OBVIOUS
<1> DEFINE i == Current
           k == AliasesAdded(i)
           j == k + 1
           alias == Aliases(i)[j]
           d == Numbered(source)[i]
<1>1. /\ pc = "aliases" /\ loop.items > 0 /\ UNCHANGED <<type_table, is_init>>
      /\ type_hash_table' = hashtable_insert(type_hash_table, [name |-> alias, id |-> i])
  BY DEF AliasStep
<1>2. /\ source \in TypeMaps /\ Len(source) \in Nat /\ i \in 1 .. Len(source) /\ d.type # "base"
      /\ Len(Aliases(i)) \in Nat /\ loop.items \in 0 .. Len(Aliases(i))
      /\ k = Len(Aliases(i)) - loop.items
  BY <1>1, AtAliases
<1>3. j \in 1 .. Len(Aliases(i))
  BY <1>1, <1>2
<1> DEFINE n == Len(source)
           l == FieldsStored(i)
<1>4. SlotsAre(arch, source, i, l, type_table)
  BY <1>1 DEF LoaderInv, SlotsInv
<1> HIDE DEF i, j, l
<1>5. i \in 0 .. n /\ i \in 1 .. i /\ i # 0
  BY <1>2
<1>6. DOMAIN type_table = 0 .. n /\ IsFilled(arch, source, i, l, type_table[i])
  BY <1>4, <1>5 DEF SlotsAre
<1>7. i \in R!TypeIds
  BY <1>5, <1>6 DEF R!TypeIds
<1>8. type_table[i].variant = object_types[d.type]
  BY <1>2, <1>6 DEF IsFilled
<1>9. d.type \in {"struct", "union", "enum"}
  BY <1>2, TypeFacts
<1>10. R!Initialised(i) /\ type_table[i].variant # R!Base
  BY <1>8, <1>9, Variants DEF R!Initialised
<1>11. alias \in Name
  BY <1>2, <1>3, TypeFacts DEF Aliases
<1> HIDE DEF alias
<1>12. R!add_type_alias(i, alias)
  <2>1. R!hashtable_insert(type_hash_table, [name |-> alias, id |-> i])
          = hashtable_insert(type_hash_table, [name |-> alias, id |-> i])
    BY SameTables
  <2> QED
    BY <1>1, <2>1 DEF R!add_type_alias, R!RegisterName
<1> QED
  BY <1>1, <1>7, <1>10, <1>11, <1>12 DEF R!AddAlias

\* The loader implements the registry's specification: each of its steps is
\* one of the registry or leaves the registry alone.
THEOREM LoaderUsesRegistry == Spec => UsesRegistry
<1>1. Init => R!Init
  BY DEF Init
<1>2. LoaderInv /\ [Next]_vars => [R!Next]_(R!vars)
  <2> SUFFICES ASSUME LoaderInv, [Next]_vars PROVE R!Next \/ UNCHANGED R!vars
    OBVIOUS
  <2>1. CASE \E m \in TypeMaps, copy \in BOOLEAN : BeginStep(m, copy)
    BY <2>1, BeginAllocates DEF R!Next
  <2>2. CASE BaseStep
    BY <2>2, BaseAdds DEF R!Next
  <2>3. CASE FieldedStep
    BY <2>3, FieldedAdds DEF R!Next
  <2>4. CASE ElementStep
    BY <2>4, ElementAdds DEF R!Next
  <2>5. CASE AliasStep
    BY <2>5, AliasAdds DEF R!Next
  <2>6. CASE AliasCountStep \/ NextType \/ Return \/ FreeBuffer \/ UNCHANGED vars
    BY <2>6 DEF AliasCountStep, NextType, Return, FreeBuffer, vars, registry, R!vars
  <2> QED
    BY <2>1, <2>2, <2>3, <2>4, <2>5, <2>6, LoaderSteps
<1> QED
  BY <1>1, <1>2, Reading, PTL DEF Spec, UsesRegistry, R!Spec
-----------------------------------------------------------------------------
\* Types.

\* The reader never leaves the file.
LEMMA ReaderInFile ==
  ASSUME LoaderInv, pc # "idle"
  PROVE  ReaderPlace \in 0 .. Len(Cells(arch, source)) /\ reader.offset \in Nat
<1> DEFINE i == Current
           cells == Cells(arch, source)
<1>1. /\ arch \in {4, 8} /\ source \in TypeMaps
      /\ loop.types \in 0 .. Len(source)
      /\ reader.offset = Place(arch, cells, ReaderPlace)
      /\ pc \in {"types", "fields", "aliases", "done"}
  BY LoaderAssumption, WordAssumption DEF LoaderInv, FrameInv, PlaceInv
<1>2. Len(source) \in Nat
  BY <1>1, MapFacts
<1>3. /\ IsCells(cells) /\ Len(cells) \in Nat
      /\ Len(cells) >= 3 + Len(Strings) /\ Len(Strings) \in Nat
  BY <1>1, FileHolds, StringFacts
<1> SUFFICES ReaderPlace \in 0 .. Len(cells)
  <2> DEFINE k == ReaderPlace
  <2> HIDE DEF k, cells
  <2>1. k \in 0 .. Len(cells) => Place(arch, cells, k) \in Nat
    BY <1>1, <1>3, PlaceGrows
  <2> QED
    BY <1>1, <2>1 DEF k, cells
<1>4. CASE pc \in {"types", "done"}
  <2>1. ReaderPlace = TypePlace(arch, source, i)
    BY <1>4 DEF ReaderPlace
  <2>2. i = 0 \/ i \in 1 .. Len(source)
    BY <1>1, <1>2 DEF Current
  <2>3. CASE i = 0
    <3>1. TypePlace(arch, source, 0) = 3 + Len(Strings)
      BY <1>1, TypePlaces
    <3> QED
      BY <1>3, <2>1, <2>3, <3>1
  <2>4. CASE i \in 1 .. Len(source)
    <3>1. i \in 0 .. Len(source)
      BY <1>2, <2>4
    <3> HIDE DEF i
    <3>2. TypePlace(arch, source, i) \in Nat /\ TypePlace(arch, source, i) <= Len(cells)
      BY <1>1, <2>4, <3>1, TypePlaces, TypeFollows
    <3> QED
      BY <1>3, <2>1, <3>2
  <2> QED
    BY <2>2, <2>3, <2>4
<1>5. CASE pc = "fields"
  <2> DEFINE k == FieldsStored(i)
             n == Len(Fields(source, i))
             lists == FieldLists(arch, source, i)
             p == TypePlace(arch, source, i - 1) + 5
  <2>1. /\ i \in 1 .. Len(source) /\ Numbered(source)[i].type # "base"
        /\ n \in Nat /\ k \in 0 .. n
    BY <1>5, AtFields
  <2>2. ReaderPlace = FieldPlace(arch, source, i, k)
    BY <1>5 DEF ReaderPlace
  <2> HIDE DEF i, k
  <2>3. AreLists(lists) /\ Len(lists) = n
    BY <1>1, <2>1, FieldListsFacts
  <2>4. p \in Nat
    <3> DEFINE q == TypePlace(arch, source, i - 1)
    <3>1. q \in Nat
      BY <1>1, <2>1, TypeFollows, ZenonT(30)
    <3>2. p = q + 5
      OBVIOUS
    <3> HIDE DEF p, q
    <3> QED
      BY <3>1, <3>2
  <2>5. FieldPlace(arch, source, i, k) = p + Before(lists, k)
        /\ FieldPlace(arch, source, i, n) = p + Before(lists, n)
    BY DEF FieldPlace
  <2>6. FieldPlace(arch, source, i, n) + 1 <= Len(cells)
    <3> DEFINE q == FieldPlace(arch, source, i, n)
               l == Len(Numbered(source)[i].aliases)
    <3>1. q \in Nat /\ (q + 1) + l <= Len(cells)
      BY <1>1, <2>1, AliasInFile
    <3>2. l \in Nat
      BY <1>1, <2>1, TypeFacts, ListFacts
    <3> HIDE DEF q, l
    <3>3. q + 1 <= Len(cells)
      BY <1>3, <3>1, <3>2
    <3> QED
      BY <3>3 DEF q
  <2> HIDE DEF n, lists, p
  <2>7. n \in 0 .. n
    BY <2>1
  <2>8. Before(lists, k) \in Nat /\ Before(lists, n) \in Nat
    BY <2>1, <2>3, <2>7, BeforeGrows
  <2>9. Before(lists, k) <= Before(lists, n)
    BY <2>1, <2>3, <2>7, BeforeAscends
  <2> QED
    BY <1>3, <2>2, <2>4, <2>5, <2>6, <2>8, <2>9
<1>6. CASE pc = "aliases"
  <2> DEFINE k == AliasesAdded(i)
             n == Len(Aliases(i))
             q == FieldPlace(arch, source, i, Len(Fields(source, i)))
  <2>1. /\ i \in 1 .. Len(source) /\ Numbered(source)[i].type # "base"
        /\ n \in Nat /\ k \in 0 .. n
    BY <1>6, AtAliases
  <2>2. ReaderPlace = AliasPlace(arch, source, i, k)
    BY <1>6 DEF ReaderPlace
  <2> HIDE DEF i, k
  <2>3. q \in Nat /\ (q + 1) + n <= Len(cells)
    BY <1>1, <2>1, AliasInFile DEF Aliases
  <2>4. AliasPlace(arch, source, i, k) = (q + 1) + k
    BY DEF AliasPlace
  <2> HIDE DEF q, n
  <2> QED
    BY <1>3, <2>1, <2>2, <2>3, <2>4
<1> QED
  BY <1>1, <1>4, <1>5, <1>6

\* A slot of the invariant is one of the registry's.
LEMMA FilledIsSlot ==
  ASSUME NEW a \in Arch, NEW m \in TypeMaps, NEW i \in 1 .. Len(m), NEW k,
         k \in 0 .. Len(Fields(m, i)) \/ Numbered(m)[i].type = "base",
         NEW slot, IsFilled(a, m, i, k, slot)
  PROVE  R!IsSlot(slot)
<1> DEFINE d == Numbered(m)[i]
           n == Len(Fields(m, i))
           name == d.name
           size == d.size
<1>1. i \in Nat /\ name \in Name /\ size \in Size
      /\ d.type \in {"base", "struct", "union", "enum"}
  BY MapFacts, TypeFacts
<1>2. CASE d.type = "base"
  <2>1. slot = [id |-> i, name |-> name, size |-> size, variant |-> 1,
                field_count |-> 0, fields |-> R!Malloc(0), field_table |-> Garbage]
    BY <1>2 DEF IsFilled
  <2> HIDE DEF name, size
  <2>2. slot \in R!BaseSlot
    BY <1>1, <2>1, Variants DEF R!BaseSlot
  <2> QED
    BY <2>2 DEF R!IsSlot
<1>3. CASE d.type # "base"
  <2> DEFINE array == [j \in 0 .. n - 1 |-> IF j < k THEN Element(a, m, i, j + 1) ELSE Garbage]
             table == slot.field_table
             variant == object_types[d.type]
  <2>1. n \in 0 .. MaxFields /\ n \in Nat /\ k \in 0 .. n
    BY <1>3, FieldFacts, LoaderAssumption
  <2>2. /\ slot = [id |-> i, name |-> name, size |-> size, variant |-> variant,
                   field_count |-> k, fields |-> array, field_table |-> table]
        /\ table \in R!Tables(2 * n, 0 .. n - 1)
    <3>1. Tables(2 * n, 0 .. n - 1) = R!Tables(2 * n, 0 .. n - 1)
      BY SameTables
    <3> QED
      BY <1>3, <3>1 DEF IsFilled
  <2>3. ASSUME NEW E, \A j \in 1 .. n : Element(a, m, i, j) \in E
        PROVE  array \in [0 .. n - 1 -> E \cup {Garbage}]
    <3>1. \A j \in 0 .. n - 1 : j + 1 \in 1 .. n
      BY <2>1
    <3> QED
      BY <2>3, <3>1
  <2>4. ASSUME NEW E, \A j \in 1 .. n : Element(a, m, i, j) \in E, NEW V, variant \in V
        PROVE  slot \in R!FieldSlot(V, n, E)
    <3>1. array \in [0 .. n - 1 -> E \cup {Garbage}]
      BY <2>3, <2>4
    <3> HIDE DEF array, table, variant, name, size, n
    <3> QED
      BY <1>1, <2>1, <2>2, <2>4, <3>1 DEF R!FieldSlot
  <2>5. CASE d.type = "enum"
    <3> DEFINE E == [name : Name, value : Value]
               V == {R!Enum}
    <3>1. ASSUME NEW j \in 1 .. n PROVE Element(a, m, i, j) \in E
      <4>1. Fields(m, i)[j].name \in Name /\ Fields(m, i)[j].value % Word[a] \in Value
        BY <1>3, <2>5, FieldFacts
      <4> QED
        BY <2>5, <4>1 DEF Element
    <3>2. variant \in V
      BY <2>5, Variants
    <3>3. slot \in R!FieldSlot(V, n, E)
      <4> HIDE DEF E, V, n, variant
      <4> QED
        BY <2>4, <3>1, <3>2
    <3> HIDE DEF n
    <3> QED
      BY <2>1, <3>3 DEF R!IsSlot
  <2>6. CASE d.type # "enum"
    <3> DEFINE V == {R!Struct, R!Union}
    <3>1. ASSUME NEW j \in 1 .. n PROVE Element(a, m, i, j) \in FieldInfo
      <4>1. Info(m, Fields(m, i)[j]) \in FieldInfo
        BY <1>3, <2>6, FieldFacts
      <4> QED
        BY <2>6, <4>1 DEF Element
    <3>2. variant \in V
      BY <1>1, <1>3, <2>6, Variants
    <3>3. slot \in R!FieldSlot(V, n, FieldInfo)
      <4> HIDE DEF V, n, variant
      <4> QED
        BY <2>4, <3>1, <3>2
    <3> HIDE DEF n
    <3> QED
      BY <2>1, <3>3 DEF R!IsSlot
  <2> QED
    BY <2>5, <2>6
<1> QED
  BY <1>2, <1>3

\* How many fields are stored is a number of fields.
LEMMA StoredInRange ==
  ASSUME LoaderInv, pc # "idle", NEW i \in 1 .. Len(source), i <= Current
  PROVE  LET k == IF i = Current THEN FieldsStored(Current) ELSE Len(Fields(source, i))
         IN  k \in 0 .. Len(Fields(source, i)) \/ Numbered(source)[i].type = "base"
<1>1. source \in TypeMaps
  BY DEF LoaderInv, PlaceInv
<1>2. Numbered(source)[i].type # "base" => Len(Fields(source, i)) \in Nat
  BY <1>1, FieldFacts, LoaderAssumption
<1>3. CASE pc = "fields"
  BY <1>2, <1>3, AtFields
<1>4. CASE pc # "fields"
  BY <1>2, <1>4 DEF FieldsStored
<1> QED
  BY <1>3, <1>4

\* The registry has its type throughout a load.
LEMMA RegistryTyped == LoaderInv /\ NamesInv => R!TypeOK
<1> SUFFICES ASSUME LoaderInv, NamesInv PROVE R!TypeOK
  OBVIOUS
<1>1. CASE pc = "idle"
  BY <1>1 DEF LoaderInv, IdleInv, R!Init, R!TypeOK
<1>2. CASE pc # "idle"
  <2> DEFINE n == Len(source)
             c == Current
             stored(t) == IF t = c THEN FieldsStored(c) ELSE Len(Fields(source, t))
  <2>1. /\ is_init = TRUE /\ source \in TypeMaps /\ arch \in Arch
        /\ SlotsAre(arch, source, c, FieldsStored(c), type_table)
        /\ loop.types \in 0 .. n
    BY <1>2 DEF LoaderInv, FrameInv, PlaceInv, SlotsInv
  <2>2. n \in Nat /\ n \in 0 .. MaxTypes /\ c \in 0 .. n
    BY <2>1, MapFacts, LoaderAssumption DEF Current
  <2>3. type_hash_table \in R!Tables(2 * n, 1 .. n)
    <3>1. Tables(2 * n, 1 .. n) = R!Tables(2 * n, 1 .. n)
      BY SameTables
    <3> QED
      BY <1>2, <3>1 DEF NamesInv, NamesAre
  <2>4. DOMAIN type_table = 0 .. n
    BY <2>1 DEF SlotsAre
  <2>5. ASSUME NEW t \in 0 .. n PROVE R!IsSlot(type_table[t])
    <3>1. CASE t \in 1 .. c
      <4>1. t \in 1 .. n /\ t <= c
        BY <2>2, <3>1
      <4> HIDE DEF c, n
      <4>2. IsFilled(arch, source, t, stored(t), type_table[t])
        BY <2>1, <2>5, <3>1 DEF SlotsAre, n
      <4>3. stored(t) \in 0 .. Len(Fields(source, t)) \/ Numbered(source)[t].type = "base"
        BY <1>2, <4>1, StoredInRange DEF c, n
      <4> HIDE DEF stored
      <4> QED
        BY <2>1, <4>1, <4>2, <4>3, FilledIsSlot DEF n
    <3>2. CASE ~ (t \in 1 .. c)
      <4>1. type_table[t] = R!RawSlot
        BY <2>1, <3>2 DEF SlotsAre
      <4> QED
        BY <4>1 DEF R!IsSlot
    <3> QED
      BY <3>1, <3>2
  <2> HIDE DEF n
  <2> QED
    BY <2>1, <2>2, <2>3, <2>4, <2>5 DEF R!TypeOK
<1> QED
  BY <1>1, <1>2

\* The variables of the loader and of the registry it fills have their types.
THEOREM TypesOfTheLoader == Spec => []TypeOK
<1>1. LoaderInv /\ NamesInv => TypeOK
  <2> SUFFICES ASSUME LoaderInv, NamesInv PROVE TypeOK
    OBVIOUS
  <2>1. R!TypeOK
    BY RegistryTyped
  <2>2. /\ arch \in Arch
        /\ pc \in {"idle", "types", "fields", "aliases", "done"}
        /\ reader = [offset |-> reader.offset, copy |-> reader.copy]
        /\ reader.copy \in BOOLEAN
        /\ loop = [types |-> loop.types, id |-> loop.id, items |-> loop.items]
        /\ loop.id \in 0 .. MaxTypes
        /\ copies \subseteq Name
    BY DEF LoaderInv, FrameInv
  <2>3. CASE pc = "idle"
    <3>1. reader.offset = 0 /\ loop.types = 0 /\ loop.items = 0 /\ source = <<>>
      BY <2>3 DEF LoaderInv, IdleInv
    <3> QED
      BY <2>1, <2>2, <3>1, LoaderAssumption DEF TypeOK
  <2>4. CASE pc # "idle"
    <3>1. source \in TypeMaps /\ loop.types \in 0 .. Len(source) /\ loop.items \in Nat
      BY <2>4 DEF LoaderInv, PlaceInv
    <3>2. loop.types \in 0 .. MaxTypes
      BY <3>1, MapFacts, LoaderAssumption
    <3>3. reader.offset \in Nat
      BY <2>4, ReaderInFile
    <3> QED
      BY <2>1, <2>2, <3>1, <3>2, <3>3 DEF TypeOK
  <2> QED
    BY <2>3, <2>4
<1> QED
  BY <1>1, Reading, PTL
=============================================================================
