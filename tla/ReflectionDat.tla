--------------------------- MODULE ReflectionDat ---------------------------
(***************************************************************************)
(* The binary file reflection.dat, as merge.py writes it                   *)
(* (write_reflection_dat) and reader.c addresses it.  A file is a function *)
(* from byte offsets to the cells that start there; what matters of a cell *)
(* is its width in bytes and its value, so a read at an offset where no    *)
(* cell of the expected kind starts is visible as such.                    *)
(*                                                                         *)
(* The input is type_name_map after parsing: the sequence of its values in *)
(* dict order, each with a type, name, size, fields and aliases; and       *)
(* global_string_volume: the sequence of its strings in the order they     *)
(* were met, each with the offset noted for it then.                       *)
(***************************************************************************)
EXTENDS Integers, SequencesExt

CONSTANTS
  NameLen,    \* name -> number of bytes of its UTF-8 encoding
  EmptyName,  \* ""
  Word        \* arch -> how many values a size_t has: 2^32 and 2^64 in the
              \* code, scaled down by the instances

ASSUME WordAssumption ==
  /\ DOMAIN Word = {4, 8}
  /\ \A arch \in DOMAIN Word : Word[arch] \in Nat /\ Word[arch] > 1

ASSUME NameAssumption == \A name \in DOMAIN NameLen : NameLen[name] \in Nat

\* The bytes a cell occupies: arch for write_arch_size and read_size_t, four
\* for a uint32, one for a byte or bool, a string and its NUL.
Width(arch, cell) ==
  CASE cell.kind = "size" -> arch
    [] cell.kind = "u32"  -> 4
    [] cell.kind = "u8"   -> 1
    [] cell.kind = "str"  -> NameLen[cell.val] + 1

SizeCell(v) == [kind |-> "size", val |-> v]
U32Cell(v)  == [kind |-> "u32", val |-> v]
U8Cell(v)   == [kind |-> "u8", val |-> v]
BoolCell(v) == U8Cell(IF v THEN 1 ELSE 0)

\* The bytes of some cells.
Bytes(arch, cells) ==
  LET bytes[k \in 0 .. Len(cells)] ==
        IF k = 0 THEN 0 ELSE bytes[k - 1] + Width(arch, cells[k])
  IN  bytes[Len(cells)]

StringCells(strings) == [k \in DOMAIN strings |-> [kind |-> "str", val |-> strings[k]]]

\* A map in which a key has a value, whether it was there or not.
Set(map, key, v) == [k \in DOMAIN map \cup {key} |-> IF k = key THEN v ELSE map[k]]

\* A volume of some strings, each noted where it will be in the file.
Noted(arch, strings) ==
  [k \in DOMAIN strings |->
     [name |-> strings[k],
      offset |-> arch * 2 + Bytes(arch, StringCells(SubSeq(strings, 1, k - 1)))]]

\* The strings of a volume.
StringsOf(volume) == [k \in DOMAIN volume |-> volume[k].name]

-----------------------------------------------------------------------------
\* write_reflection_dat

object_types == [base |-> 1, struct |-> 2, union |-> 3, enum |-> 4]

\* The elements of a list at some places, in order.
Selected(list, places) ==
  LET selected[k \in 0 .. Len(list)] ==
        IF k = 0 THEN << >>
        ELSE IF k \in places THEN Append(selected[k - 1], list[k])
        ELSE selected[k - 1]
  IN  selected[Len(list)]

\* Ids count from 1 in dict order; the entry named "" is dropped after it
\* got its id.
Numbered(m) ==
  Selected([i \in DOMAIN m |-> Set(m[i], "id", i)],
           {i \in DOMAIN m : m[i].name # EmptyName})

TypeNames(types) == {types[i].name : i \in DOMAIN types}

\* Faulty: ids count from 0.
RefIdFromZero(types, name) ==
  IF name \notin TypeNames(types) THEN 0
  ELSE SelectInSeq(types, LAMBDA d : d.name = name) - 1

\* The id a field refers to: 0 when its type is not in the map.
RefId(types, name) ==
  IF name \notin TypeNames(types) THEN 0
  ELSE types[SelectInSeq(types, LAMBDA d : d.name = name)].id

\* A field of record type is dropped when the record is not in the map.
Kept(types, f) == ~(f.struct /\ f.type \notin TypeNames(types))

\* What is written of the fields of a type: all enumerators, the kept fields.
Written(types, d) ==
  IF d.type = "enum" THEN d.fields
  ELSE Selected(d.fields, {k \in DOMAIN d.fields : Kept(types, d.fields[k])})

\* The types that lay claim to a name: by name or by alias (the aliases of a
\* base type are not written).  The loader registers names and aliases in
\* file order, so the last claimant is the one a lookup finds.
Claimants(types, name) ==
  {i \in DOMAIN types :
     \/ types[i].name = name
     \/ types[i].type # "base" /\ Contains(types[i].aliases, name)}

Claimed(types, name) == types[Max(Claimants(types, name))]

\* global_string_volume[name]
StringOffset(volume, name) ==
  volume[SelectInSeq(volume, LAMBDA s : s.name = name)].offset

\* Faulty: offset and arrsize in the wrong order.
FieldCellsSwapped(volume, types, d, f) ==
  IF d.type = "enum"
  THEN << SizeCell(StringOffset(volume, f.name)), SizeCell(f.value) >>
  ELSE << SizeCell(StringOffset(volume, f.name)),
          BoolCell(f.const),
          U32Cell(f.pdepth),
          SizeCell(f.arrsize),
          SizeCell(f.offset),
          SizeCell(RefId(types, f.type)) >>

FieldCells(volume, types, d, f) ==
  IF d.type = "enum"
  THEN << SizeCell(StringOffset(volume, f.name)), SizeCell(f.value) >>
  ELSE << SizeCell(StringOffset(volume, f.name)),
          BoolCell(f.const),
          U32Cell(f.pdepth),
          SizeCell(f.offset),
          SizeCell(f.arrsize),
          SizeCell(RefId(types, f.type)) >>

HeadCells(volume, d) ==
  << SizeCell(d.id),
     U8Cell(object_types[d.type]),
     SizeCell(StringOffset(volume, d.name)),
     SizeCell(d.size) >>

AllFieldCells(volume, types, d) ==
  LET fields == Written(types, d)
  IN  FlattenSeq([k \in DOMAIN fields |->
                    FieldCells(volume, types, d, fields[k])])

\* The count is patched in after the fields: that of the fields written.
CountCells(types, d) == << SizeCell(Len(Written(types, d))) >>

AliasCells(volume, d) ==
  << SizeCell(Len(d.aliases)) >>
  \o [k \in DOMAIN d.aliases |-> SizeCell(StringOffset(volume, d.aliases[k]))]

\* Faulty: the dropped fields are counted.
TypeCellsAllCounted(volume, types, d) ==
  IF d.type = "base" THEN HeadCells(volume, d)
  ELSE HeadCells(volume, d) \o << SizeCell(Len(d.fields)) >>
       \o AllFieldCells(volume, types, d) \o AliasCells(volume, d)

\* Faulty: a base type has its aliases written, too.
TypeCellsBaseAliases(volume, types, d) ==
  HeadCells(volume, d)
  \o (IF d.type = "base" THEN << >>
      ELSE CountCells(types, d) \o AllFieldCells(volume, types, d))
  \o AliasCells(volume, d)

TypeCells(volume, types, d) ==
  IF d.type = "base" THEN HeadCells(volume, d)
  ELSE HeadCells(volume, d) \o CountCells(types, d)
       \o AllFieldCells(volume, types, d) \o AliasCells(volume, d)

TableCells(volume, types) ==
  << SizeCell(Len(types)) >>
  \o FlattenSeq([i \in DOMAIN types |-> TypeCells(volume, types, types[i])])

\* Header, string volume, table, one after the other.
FileCells(arch, volume, m) ==
  << SizeCell(arch * 2), SizeCell(arch * 2 + Bytes(arch, StringCells(StringsOf(volume)))) >>
  \o StringCells(StringsOf(volume)) \o TableCells(volume, Numbered(m))

\* struct.pack takes the values of "<q" for eight bytes, of "<I" for four.
Packs(arch, cell) ==
  cell.kind = "size" =>
    IF arch = 8 THEN cell.val \in -(Word[8] \div 2) .. Word[8] \div 2 - 1
                ELSE cell.val \in 0 .. Word[4] - 1

\* Nothing is written unless everything can be: no word size is known when
\* no file was read, and a value out of range raises an exception.
Writable(arch, volume, m) ==
  /\ arch # -1
  /\ \A cell \in ToSet(FileCells(arch, volume, m)) : Packs(arch, cell)

\* Where each of some cells starts: the bytes before it.
Starts(arch, cells) ==
  [k \in DOMAIN cells |-> Bytes(arch, SubSeq(cells, 1, k - 1))]

\* What is written: each cell where the one before it ends.
write_reflection_dat(arch, volume, m) ==
  LET cells == FileCells(arch, volume, m)
      starts == Starts(arch, cells)
  IN  [o \in Range(starts) |-> cells[CHOOSE k \in DOMAIN cells : starts[k] = o]]

-----------------------------------------------------------------------------
\* reader.c: the offset after reading cells of some kinds, and their values.

\* The offset of the reader after reads of some kinds, and that of one of
\* the cells on the way.
ReadOffset(arch, offset, kinds) ==
  offset + Bytes(arch, [k \in DOMAIN kinds |-> [kind |-> kinds[k], val |-> 0]])

CellAt(arch, offset, kinds, k) == ReadOffset(arch, offset, SubSeq(kinds, 1, k - 1))

\* The data has cells of these kinds from the offset.
Readable(arch, data, offset, kinds) ==
  \A k \in DOMAIN kinds :
    LET o == CellAt(arch, offset, kinds, k)
    IN  o \in DOMAIN data /\ data[o].kind = kinds[k]

\* A size_t has no sign.
Unsigned(arch, cell) == IF cell.kind = "size" THEN cell.val % Word[arch] ELSE cell.val

ReadCells(arch, data, offset, kinds) ==
  [k \in DOMAIN kinds |-> Unsigned(arch, data[CellAt(arch, offset, kinds, k)])]

\* read_c_string: the string that starts at an offset.
read_c_string(data, offset) == data[offset].val
=============================================================================
