------------------------------- MODULE Loader -------------------------------
(***************************************************************************)
(* reflect_load_bytes and reflect_load of src/reflect.c: the loop that     *)
(* reads reflection.dat with the reader of src/reader.c and fills the      *)
(* registry; reflect_load passes the linked file.  The module composes     *)
(* ReflectionDat, which says what the bytes are, with Registry, which says *)
(* what the add_* functions do, and is shown to use Registry only as its   *)
(* specification allows.  The application around it may load again and,    *)
(* after a load with copy, free the buffer.                                *)
(***************************************************************************)
EXTENDS ReflectionDat, HashTable

CONSTANTS
  Size, FieldInfo, Value, MaxTypes, MaxFields, Garbage, NULL, Undefined,
  Arch,       \* the values of sizeof(size_t), the same for file and program
  TypeMaps,   \* the contents of type_name_map that files are written from
  Strings     \* the order in which merge.py met the strings

\* A field of a type, in a map of n types: its name was met, its columns are
\* numbers.
IsField(d, f, n) ==
  /\ f.name \in ToSet(Strings)
  /\ d.type = "enum" =>
       /\ f.value \in Int
       /\ \A a \in Arch : f.value % Word[a] \in Value
  /\ d.type # "enum" =>
       /\ f.const \in BOOLEAN
       /\ {f.pdepth, f.offset, f.arrsize} \subseteq Nat
       /\ \A id \in 0 .. n :
            [name |-> f.name, is_const |-> f.const, ptr_depth |-> f.pdepth,
             offset |-> f.offset, arr_size |-> f.arrsize, type_ptr |-> id] \in FieldInfo

\* A type, in a map of n types: it has a name, and its names were met.
IsType(d, n) ==
  /\ {"type", "name", "size"} \subseteq DOMAIN d
  /\ d.type \in DOMAIN object_types
  /\ d.name \in ToSet(Strings) \ {EmptyName}
  /\ d.size \in Size
  /\ d.type # "base" =>
       /\ {"fields", "aliases"} \subseteq DOMAIN d
       /\ d.fields \in Seq(ToSet(d.fields)) /\ Len(d.fields) <= MaxFields
       /\ \A k \in DOMAIN d.fields : IsField(d, d.fields[k], n)
       /\ d.aliases \in Seq(ToSet(Strings))

ASSUME LoaderAssumption ==
  /\ Arch \subseteq DOMAIN Word
  /\ Name \subseteq DOMAIN NameLen
  /\ Strings \in Seq(Name)
  /\ Size \subseteq Nat
  /\ MaxTypes \in Nat /\ MaxFields \in Nat
  /\ Garbage \notin Nat
  /\ \A m \in TypeMaps :
       /\ m \in Seq(ToSet(m)) /\ Len(m) <= MaxTypes
       /\ \A i \in DOMAIN m : IsType(m[i], Len(m))

VARIABLES
  type_table, type_hash_table, is_init,
  arch,       \* sizeof(size_t) of the build
  data,       \* the buffer passed by the application
  reader,     \* offset of the next read, and whether strings are copied
  loop,       \* loop variables: types left, the current type, items left
  pc,         \* where the call is: "idle", "types", "fields", "aliases", "done"
  copies,     \* the strings there is a copy of on the heap
  source      \* the map that the loaded file was written from

registry == <<type_table, type_hash_table, is_init>>
vars == <<registry, arch, data, reader, loop, pc, copies, source>>

R == INSTANCE Registry

NoData == [o \in {} |-> 0]

Init ==
  /\ R!Init
  /\ arch \in Arch
  /\ data = NoData
  /\ reader = [offset |-> 0, copy |-> FALSE]
  /\ loop = [types |-> 0, id |-> 0, items |-> 0]
  /\ pc = "idle"
  /\ copies = {}
  /\ source = <<>>

-----------------------------------------------------------------------------
\* The reads of one action: cells of these kinds are there, and the reader
\* moves past them.
Reads(kinds) ==
  /\ Readable(arch, data, reader.offset, kinds)
  /\ reader' = [reader EXCEPT !.offset = ReadOffset(arch, @, kinds)]

Values(kinds) == ReadCells(arch, data, reader.offset, kinds)

\* read_string is given an offset and answers the string there, ...
String(offset) == read_c_string(data, offset)

\* ... a copy of it on the heap if the load is one with copy, else a pointer
\* into the buffer.
CopyString(name) == copies' = IF reader.copy THEN copies \cup {name} ELSE copies

\* The header of a file: where the table starts and how many types it has.
TableOffset(file) == file[arch].val
TypeCount(file) == file[TableOffset(file)].val

\* The first call reads the header and allocates; is_init is set before
\* anything is read, so that every later call returns at once.
reflect_load_bytes(file, copy) ==
  /\ data' = file
  /\ R!AllocateTables(TypeCount(file))
  /\ reader' = [offset |-> TableOffset(file) + arch, copy |-> copy]
  /\ loop' = [loop EXCEPT !.types = TypeCount(file)]
  /\ pc' = "types"
  /\ UNCHANGED <<arch, copies>>

\* The linked file stays where it is.
reflect_load(file) == reflect_load_bytes(file, FALSE)

\* The files the application may load: what merge.py could write.
BeginLoad ==
  /\ pc = "idle"
  /\ \E m \in TypeMaps :
       LET volume == Noted(arch, Strings)
           file == write_reflection_dat(arch, volume, m)
       IN  /\ Writable(arch, volume, m)
           /\ reflect_load_bytes(file, TRUE) \/ reflect_load(file)
           /\ source' = m

\* Faulty: a later call loads the file again.
ReloadsFile ==
  /\ pc = "done" /\ data # NoData
  /\ type_table' = [t \in DOMAIN type_table |-> R!RawSlot]
  /\ type_hash_table' = R!hashtable_create(type_hash_table.capacity)
  /\ reader' = [reader EXCEPT !.offset = TableOffset(data) + arch]
  /\ loop' = [loop EXCEPT !.types = TypeCount(data)]
  /\ pc' = "types"
  /\ UNCHANGED <<is_init, arch, data, copies, source>>

ReloadIgnored ==
  /\ pc = "done"
  /\ is_init
  /\ UNCHANGED vars

HeadKinds == << "size", "u8", "size", "size" >>

LoadBase ==
  LET v == Values(HeadKinds)
  IN  /\ pc = "types" /\ loop.types > 0
      /\ Reads(HeadKinds)
      /\ v[2] = R!Base
      /\ R!add_base_type_info(String(v[3]), v[1], v[4])
      /\ CopyString(String(v[3]))
      /\ loop' = [loop EXCEPT !.types = @ - 1]
      /\ UNCHANGED <<is_init, arch, data, pc, source>>

\* A type with fields: its arrays are made for field_count of them.
LoadFielded ==
  LET kinds == HeadKinds \o << "size" >>
      v == Values(kinds)
  IN  /\ pc = "types" /\ loop.types > 0
      /\ Reads(kinds)
      /\ \/ /\ v[2] \in {R!Struct, R!Union}
            /\ R!add_struct_type_info(String(v[3]), v[1], v[4], v[2], v[5])
         \/ /\ v[2] = R!Enum
            /\ R!add_enum_type_info(String(v[3]), v[1], v[4], v[5])
      /\ CopyString(String(v[3]))
      /\ loop' = [types |-> loop.types - 1, id |-> v[1], items |-> v[5]]
      /\ pc' = "fields"
      /\ UNCHANGED <<is_init, arch, data, source>>

LoadField ==
  LET kinds == << "size", "u8", "u32", "size", "size", "size" >>
      v == Values(kinds)
      info == [name |-> String(v[1]), is_const |-> v[2] = 1, ptr_depth |-> v[3],
               offset |-> v[4], arr_size |-> v[5], type_ptr |-> v[6]]
  IN  /\ pc = "fields" /\ loop.items > 0
      /\ type_table[loop.id].variant \in {R!Struct, R!Union}
      /\ Reads(kinds)
      /\ R!add_struct_field_type(loop.id, info)
      /\ CopyString(info.name)
      /\ loop' = [loop EXCEPT !.items = @ - 1]
      /\ UNCHANGED <<is_init, arch, data, pc, source>>

LoadEnumerator ==
  LET kinds == << "size", "size" >>
      v == Values(kinds)
  IN  /\ pc = "fields" /\ loop.items > 0
      /\ type_table[loop.id].variant = R!Enum
      /\ Reads(kinds)
      /\ R!add_enum_field_type(loop.id, String(v[1]), v[2])
      /\ CopyString(String(v[1]))
      /\ loop' = [loop EXCEPT !.items = @ - 1]
      /\ UNCHANGED <<is_init, arch, data, pc, source>>

ReadAliasCount ==
  /\ pc = "fields" /\ loop.items = 0
  /\ Reads(<< "size" >>)
  /\ loop' = [loop EXCEPT !.items = Values(<< "size" >>)[1]]
  /\ pc' = "aliases"
  /\ UNCHANGED <<registry, arch, data, copies, source>>

\* Faulty: an alias is a pointer into the buffer, with copy or without.
LoadAliasShared ==
  LET alias == String(Values(<< "size" >>)[1])
  IN  /\ pc = "aliases" /\ loop.items > 0
      /\ Reads(<< "size" >>)
      /\ R!add_type_alias(loop.id, alias)
      /\ loop' = [loop EXCEPT !.items = @ - 1]
      /\ UNCHANGED <<is_init, arch, data, pc, copies, source>>

LoadAlias ==
  LET alias == String(Values(<< "size" >>)[1])
  IN  /\ pc = "aliases" /\ loop.items > 0
      /\ Reads(<< "size" >>)
      /\ R!add_type_alias(loop.id, alias)
      /\ CopyString(alias)
      /\ loop' = [loop EXCEPT !.items = @ - 1]
      /\ UNCHANGED <<is_init, arch, data, pc, source>>

NextType ==
  /\ pc = "aliases" /\ loop.items = 0
  /\ pc' = "types"
  /\ UNCHANGED <<registry, arch, data, reader, loop, copies, source>>

Return ==
  /\ pc = "types" /\ loop.types = 0
  /\ pc' = "done"
  /\ UNCHANGED <<registry, arch, data, reader, loop, copies, source>>

\* The application frees the buffer of a load with copy.
FreeBuffer ==
  /\ pc = "done" /\ reader.copy
  /\ data' = NoData
  /\ UNCHANGED <<registry, arch, reader, loop, pc, copies, source>>

LoadStep ==
  \/ LoadBase \/ LoadFielded \/ LoadField \/ LoadEnumerator
  \/ ReadAliasCount \/ LoadAlias \/ NextType \/ Return

Next ==
  \/ BeginLoad
  \/ ReloadIgnored
  \/ LoadStep
  \/ FreeBuffer

\* A call of reflect_load_bytes runs to its end; the application need not
\* call it, nor free anything.
Spec == Init /\ [][Next]_vars /\ WF_vars(LoadStep)

-----------------------------------------------------------------------------

\* The variables of the loader have their types; Registry!TypeOK is about
\* the others.
TypeOK ==
  /\ R!TypeOK
  /\ arch \in Arch
  /\ reader \in [offset : Nat, copy : BOOLEAN]
  /\ loop \in [types : 0 .. MaxTypes, id : 0 .. MaxTypes, items : Nat]
  /\ pc \in {"idle", "types", "fields", "aliases", "done"}
  /\ copies \subseteq Name
  /\ source \in TypeMaps \cup {<<>>}

\* The slot of a type of the source, and its field infos in order.
LoadedFields(types, d) ==
  LET fields == Written(types, d)
  IN  [k \in 0 .. Len(fields) - 1 |->
         LET f == fields[k + 1]
         IN  IF d.type = "enum" THEN [name |-> f.name, value |-> f.value % Word[arch]]
             ELSE [name |-> f.name, is_const |-> f.const, ptr_depth |-> f.pdepth,
                   offset |-> f.offset, arr_size |-> f.arrsize,
                   type_ptr |-> RefId(types, f.type)]]

\* What was written is what is loaded: every type of the map, in its own
\* slot, with its size, variant and each column of each of its fields, for
\* both word sizes; a negative enumerator is the size_t that C converts it to
\* (merge.py:213-258 against reflect.c:149-189).
RoundTrip ==
  pc = "done" =>
    LET types == Numbered(source)
    IN  \A i \in DOMAIN types :
          LET d == types[i]
              slot == type_table[d.id]
          IN  /\ slot.name = d.name
              /\ slot.size = d.size
              /\ slot.variant = object_types[d.type]
              /\ slot.fields = IF d.type = "base" THEN R!Malloc(0)
                               ELSE LoadedFields(types, d)

\* A name resolves to the last type of the file that claims it, and to NULL
\* when none does.  Every pointer of a field to its type leads to the slot
\* that holds the type of that name; when the map has no such type it leads
\* to slot 0, which no type ever fills (merge.py:239, reflect.c:96).
NamesResolve ==
  pc = "done" =>
    LET types == Numbered(source)
    IN  /\ types # <<>> =>
             \A name \in Name :
               R!reflect_type_info_from_name(name) =
                 IF Claimants(types, name) = {} THEN NULL
                 ELSE Claimed(types, name).id
        /\ \A i \in DOMAIN types :
             types[i].type \in {"struct", "union"} =>
               LET fields == Written(types, types[i])
               IN  \A k \in DOMAIN fields :
                     LET target == type_table[types[i].id].fields[k - 1].type_ptr
                     IN  IF fields[k].type \in TypeNames(types)
                         THEN type_table[target].name = fields[k].type
                         ELSE ~R!Initialised(target)

\* The reader has consumed the file to its last byte when the load returns:
\* no count, width or skipped field is out of step with the writer.
WholeFileRead ==
  pc = "done" /\ data # NoData =>
    LET last == Max(DOMAIN data) IN reader.offset = last + Width(arch, data[last])

\* The strings the registry holds: of the filled slots, of the fields stored
\* in them (the field tables share those), and of the names that lead to a
\* type, which are compared with strings of the table's own.
HeldNames ==
  LET filled == {t \in DOMAIN type_table : R!Initialised(t)}
      FieldNames(t) == {type_table[t].fields[k].name : k \in 0 .. type_table[t].field_count - 1}
  IN  {type_table[t].name : t \in filled}
      \cup (UNION {FieldNames(t) : t \in filled})
      \cup {name \in Name : R!reflect_type_info_from_name(name) \notin {NULL, Undefined}}

\* When there is no buffer any more, every string in the registry is a copy:
\* the application may free the buffer after a load with copy ("recommended
\* if reading yourself from a file so you can free buffer", reflect.c:130),
\* whatever path of the loader a name was read on, of a type, a field, an
\* enumerator or an alias (reflect.c:148-187).
NoDanglingNames == data = NoData => HeldNames \subseteq copies

\* The loader calls the add_* functions only as the registry allows: ids in
\* range and used once, no field beyond field_count, one load per process.
UsesRegistry == R!Spec

\* A load that has begun returns: at every point the next cell of the file
\* is of the kind the reader asks for.
LoadReturns == pc = "types" ~> pc = "done"
=============================================================================
