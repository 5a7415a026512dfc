# ReflectC in TLA+

ReflectC gives C programs reflection. A Clang plugin writes the types of each
translation unit to a text file, `merge/merge.py` merges these files into one
binary table, and a small C library loads the table at run time and answers
queries about types, fields and enumerators. This directory holds TLA+ models
of that pipeline, the TLC configurations that check them on small instances,
and TLAPS proofs of the results that matter most for every instance.

Everything is sequential: there are no threads, no callbacks and no network,
and the processes run one after the other because the build orders them. What
is hard to test here is agreement. Two languages must agree on a binary layout
for two word sizes, three producers of names share one table, pointers into the
table are handed out before it is complete, data structures hold only after
long sequences of legal calls, and what a program sees depends on files that
compilations and merges of different times have left behind.

## Inventory

| Component | Source | State | Operations | What makes it correct | Model |
|---|---|---|---|---|---|
| Hash table | `src/hashtable.c` | buckets with chains | create, get, insert | it is a map: the last id stored under a key is found, whatever collides | `HashTable`, `NameTable` |
| Type registry | `src/reflect.c` 21-128, 206-348 | `type_table`, `type_hash_table`, `is_init` | `add_*`, lookups, iteration | names lead to filled types, lookups agree with iteration, what was handed out stays | `Registry` |
| Reader and loader | `src/reader.c`, `src/reflect.c` 131-204 | offset, copy flag, loop variables | `reflect_load_bytes`, `reflect_load` | memory holds what was written, the whole file is read, no name is lost with the buffer | `Loader` |
| Objects | `src/reflect.c` 14-19, 215-289 | a header before each object | `reflect_alloc`, `reflect_free`, `reflect_get_type_info`, `reflect_get_field`, `.._manual` | an object keeps its type and its data, allocators get back what they gave | `Objects` |
| Merge parser | `merge/merge.py` 57-187 | `type_name_map`, `global_string_volume`, `arch`, the object and field at hand | one step per line of text, end of file, unreadable file | the newest complete definition of each name, every string at its offset | `Merge` |
| Merge writer | `merge/merge.py` 15-54, 190-309 | the output buffers | `write_reflection_dat` | what it writes, the loader reads; nothing is overwritten unless all can be packed | `ReflectionDat`, `Pipeline` |
| Text serializer | `plugin/ReflectionDataSerializer.cpp` | none | `serialize` | what it writes, the parser reads | `Merge` |
| AST visitor | `plugin/ReflectVisitor.*`, `ReflectionTypes.*` | results, base types, pending aliases | visit record, enum, typedef; nested fields | every type a field names is registered, every alias reaches its type, nested fields are where they are in memory | `Visitor` |
| Consumer | `plugin/ReflectConsumer.cpp` | none | traverse, merge aliases, serialize, or fail to | nothing is written before it is complete | `Visitor`, `Pipeline` |
| Action | `plugin/ReflectPluginAction.cpp` | none | creates the consumer, names the output file | one file for each object file, replaced when it is compiled again | `Pipeline` |
| The processes together | all of the above | text files, `reflection.dat`, `reflection.dat.S`, the running program | compile, merge, load, exit | a program sees the types that the newest of the merged compilations declare | `Pipeline`, implements `Reflection` |
| Hot reload hook | `src/reflect.c` 351 | none | returns `&type_table` | | not modelled |
| Tests, samples, benchmarks, build files | `tests`, `examples`, `CMakeLists.txt` | | | | not modelled |

How they interact:

- visitor -> serializer -> text file -> parser -> writer -> `reflection.dat` ->
  loader -> registry. Each arrow is a file or a call; the word size (`arch`)
  chosen by the compiler travels along it.
- The registry keeps one hash table of names and aliases and one of fields for
  each type.
- Objects hold a pointer to a slot of the registry in their header; fields hold
  pointers to the slots of their types, perhaps to slots not filled yet.
- The application supplies the buffer and, for objects, the allocator.

## Modules

| Module | Models | Composes |
|---|---|---|
| `HashTable` | `hashtable.c` as operators on a table value | |
| `NameMap` | the abstract map a name table promises | |
| `NameTable` | one table and its callers; implements `NameMap` | `HashTable`, `NameMap` |
| `Registry` | the static functions and lookups of `reflect.c` | `HashTable` |
| `ReflectionDat` | the layout of `reflection.dat`, its writer, the reads of `reader.c` | |
| `Loader` | `reflect_load_bytes`; implements `Registry` | `ReflectionDat`, `Registry` |
| `Objects` | objects with a header in memory they share with plain data | `HashTable` |
| `Merge` | the text of a unit and its parser | `ReflectionDat` |
| `Visitor` | the visitor and the consumer on one translation unit | `ReflectionDat` |
| `Reflection` | the abstract promise of the whole, on C declarations | |
| `Pipeline` | compilations, merges and programs, one after the other; implements `Reflection` | `Visitor`, `Merge`, `Loader`, `Reflection` |
| `MC*` | small instances for TLC | the module they are named after |
| `DataProofs` | lemmas about loops, lists and the hash table | `ReflectionDat`, `HashTable` |
| `NameTableProofs`, `RegistryProofs` | theorems about `NameTable` and `Registry` | `DataProofs` |
| `ObjectsProofs` | theorems about `Objects` | |
| `MergeProofs`, `VisitorProofs` | theorems about `Merge` and `Visitor` | `DataProofs` |
| `LoaderProofs` | theorems about `Loader` and the file | `DataProofs` |
| `PipelineProofs` | theorems about the processes together | `DataProofs` |

How the state corresponds to the code:

- **Hash table.** A bucket is the sequence of its entries in chain order; a
  bucket whose `data.name` is `NULL` is the empty sequence. `hash_fnv1a` is the
  constant `Hash`: every property holds for any hash function, and the
  instances choose one that collides. `NotFound` is `(size_t)-1`.
- **Registry.** Both `type_info_t*` and `type_info_internal*` are the index of
  a slot. Memory from `malloc` that was never written holds `Garbage`; slot 0
  is allocated and stays so. Lookups that C leaves undefined (a table of
  capacity zero, the field table of a base type) answer `Undefined`. `Next`
  lets a loader call the `add_*` functions in any order the functions can
  bear: an id is used once and a type gets no more fields than were announced.
- **File.** A file is a function from offsets to the cells that start there,
  each with its kind and value. A read finds its cell only at an offset where
  one of the right kind starts, so a width or an order the two sides disagree
  on shows up. Strings have a length and no characters. A word holds as many
  values as the constant `Word` says, scaled down from 2^32 and 2^64: `Packs`
  is what `struct.pack` accepts (signed for eight bytes, unsigned for four),
  `Unsigned` what a `size_t` makes of it, and `Writable` whether the script can
  write a table at all.
- **Loader.** One action per iteration of each loop. `BeginLoad` runs from the
  guard to the allocations, later calls are `ReloadIgnored`. `copies` collects
  the strings that `read_c_string` has duplicated on the heap, in every action
  that reads one; together with `HeldNames`, the names found in the registry, it
  tells whether one of them still is in the buffer. `source` remembers the map
  the file was written from; no action reads `copies` or `source`. `reflect_load` is
  `reflect_load_bytes` on the linked file, without copy.
- **Objects.** Memory is an array of words; a header is one word, which holds
  the magic number and the type. Allocators are external: they may return any
  free run, and clear what is released to them or not (`scrubs`). A type may have
  size zero, as `void` and the base types unknown to the plugin do: its object
  is a header and nothing else. An application allocates, with the `NULL` that a
  lookup may have answered, too; stores through `reflect_get_field`; frees each
  object once through its own allocator; keeps plain data of its own; and hands
  `reflect_free` things that are no object (`FreeOther`).
- **Merge.** One action per kind of line. Python's dictionaries keep insertion
  order: `type_name_map` is the sequence of its values, and a key that is there
  keeps its place. `serialize` produces the lines, in the order of the plugin.
  A string is in `global_string_volume` with the offset the script noted for it.

- **Visitor.** One action per declaration that clang shows, and one for the end
  of the traversal. What the code asks clang about a tag is in `unit`: name,
  size, fields with their offsets, and for each field the pointers and arrays
  its type is made of, from the outside in. `AllFields` is the recursion over
  nested records, a function of the place where it has arrived: the record, the
  prefix of its fields' names and the offset they are counted from. A dotted
  name is the sequence of the names in it. Type ids are left out: nothing reads
  them.
- **Pipeline.** `stage` says which process runs; the variables of `Visitor`,
  `Merge` and `Loader` are theirs, and the actions of these modules are used as
  they are. `files` are the `*.reflection.dat` files by modification time, one
  for each source; `HandleTranslationUnit` replaces that of its source, or
  leaves it when it cannot be opened. `outputs` are `reflection.dat`, for
  `reflect_load_bytes`, and `reflection.dat.S`, which is linked for
  `reflect_load`; the script writes one after the other and may end before
  either. With each output the files it was made from are remembered, for the
  refinement only.
- **Reflection.** The abstract state is what the sources declare, which of that
  each table holds, and what the running program knows. `Newest` defines the
  last from C declarations alone, by paths through nested records, without
  pending aliases, files, offsets or ids. The refinement mapping reads it off
  the loaded registry as an application would: by looking up every name and
  iterating over the fields of what it finds. When several compilations
  describe a type, the newest decides, for its typedef names, too.

## Runs

| Run | Specification | Question |
|---|---|---|
| `NameTable` | `NameTable!Spec` | Is the chained table a map? |
| `Registry` | `Registry!Spec` | Do names and fields lead where they should while a table is filled? |
| `Loader` | `Loader!Spec` | Is what was loaded what was written? |
| `Objects` | `Objects!Spec` | Do objects keep type and data, and allocators their blocks, and when is plain data told from objects? |
| `StaleHeader` | `Objects!Spec` | Does plain data never have a type, when released memory is not cleared? (violated) |
| `SizelessObject` | `Objects!Spec` | ... and when it is? (violated) |
| `Merge` | `Merge!Spec` | Does the parser rebuild the newest definitions? |
| `MergeOrder` | `Merge!Spec` | Does the newest file decide every name? (violated) |
| `Visitor` | `Visitor!Spec` | Is a unit described the same in whatever order it declares things? |
| `NestedFields` | `Visitor!Spec` | Does every field in the file have a type there? (violated) |
| `Pipeline` | `Pipeline!Spec` | Does a program see what the sources declare? |
| `FourByteEnum` | `Pipeline!Spec` | Can every unit be written for four-byte words? (violated) |

**NameTable** (1,701 states). `ImplementsNameMap` is refinement: the table seen
through `hashtable_get` takes only steps of `NameMap`. Four keys, three in one
of two buckets: chains of three entries with overwrites at each place.

**Registry** (121,050 states). Up to two types of up to two fields, two names
that collide in every table, fields that point to slot 0 or to a slot filled
later. `NamesReachFilledTypes` and `TypeNamesResolve` are about the table that
names and aliases share, `FieldLookupCorrect` relates lookup to iteration in
the middle of a load, `FilledStaysFilled` says that handed-out pointers stay
good. Two of each suffices for every overlap of two names; the theorems remove
the bound.

**Loader** (15,674 states). All files of at most three types made of one base
type, one record and one enum, in every order, for `sizeof(size_t)` 4 and 8 and
for both values of `copy`. The records have a forward, backward or
self-reference, a field of a missing record (dropped by the writer), a field
without name, two fields of one name; the aliases clash with type names both
ways; the enum has a negative enumerator, with which only a file for eight-byte
words can be written and which is read back as a large `size_t`. `RoundTrip` compares every slot with its source, `NamesResolve` says
which type a contested name finds and where each field's pointer leads,
`WholeFileRead` and `LoadReturns` catch a count or a width out of step,
`NoDanglingNames` a name that dies with its buffer, because the path it was read
on did not copy it, and `UsesRegistry` is
refinement: the loader obeys the rules of `Registry!Spec`.

**Objects** (91,724 states up to exchanging the two values and the two
allocators, which nothing tells apart; 351,217 in all). A struct of two words
whose field names collide, a union of one, and `void`; five words of memory, so
that two objects sit side by side or one among plain data, from two allocators
that clear what is released or do not. `PlainDataIsTold` says when plain data is
told from objects if they do: always, but where it begins right behind a live
object without a size. `FreeOther` leaves that case out, and plain data
altogether if memory is not cleared; the two violated runs show why.

**Merge** (10,423 states). All directories of up to three out of six files: the
same names with other fields, aliases or no fields, an unnamed field, a unit
for another word size, a file that cannot be read. Three files are enough for
a definition to be replaced twice, with a gap in between.

**Visitor** (735 states, 49 units). A unit has a record, one that embeds it two
levels down, an anonymous member, a nested record without name, an enum defined
before the record that uses it or inside it, and a union known by its typedef
only. Definitions and typedefs stand in every order C allows, one typedef
twice. That covers a typedef before, after and on both sides of its definition,
and a tag whose name was taken for a base type before it was visited.

**Pipeline** (27,284 states). Two sources. The first has a record with an array
and a typedef'd field and another that embeds it, next to an anonymous member
and a pointer to itself; its second version changes the fields of the record
and drops its typedef. The second source has a union known by its typedef, an
enum defined inside a record, with a negative enumerator, and fields that point
to the first source's record, which it knows by a forward declaration only; or
else an older copy of that record from a header. Two compilations, saved or
not, two merges and any number of programs come in every order: no file at
all, one of the sources only, either as the newer one, the first source
compiled twice, and tables of which one is of an older merge. For eight-byte
words all versions take part; for four-byte words one of each source, where the
enum keeps a table from being written. Two merges are needed for an output left
over from an earlier one, two compilations for a definition to be overridden;
longer chains of overriding are the subject of the run `Merge`.
`ImplementsReflection` is refinement of the abstract specification, and
`ProcessesEnd` says that no unit, file or table leaves a process stuck.

Deadlock is checked for the hash table and the objects. It is not for `Merge`,
`Visitor` and `Pipeline`, which end, and for `Registry`, which has nothing left to do once every slot is
filled with a base type. In `Loader` a load that cannot go on is what
`LoadReturns` rules out, so it is left to that property.

### What the violated runs show

- **StaleHeader.** `reflect_free` does not erase the magic number. When an
  allocator reuses the memory after a stale header for plain data,
  `reflect_get_type_info` on that data answers the type of the freed object,
  though the comment at `src/reflect.c:12` says the header prevents this.
- **SizelessObject.** Clearing released memory is not enough. `void` and every
  base type the plugin does not know, such as `signed char`, are registered with
  size zero (`ReflectVisitor.cpp:280`, `50`), and `reflect_alloc` asks for a
  header alone. What an arena places next begins where the pointer to the object
  points, and is taken for the object; `reflect_free` on it would release the
  object's block. `PlainDataIsTold` shows that this is the only other case.
- **MergeOrder.** `merge.py:66` sorts files so that newer definitions override
  older ones. A redefinition keeps its old place in the dictionary, a new name
  goes to the end, and the loader gives a contested name to the last that
  claims it. The plugin registers a typedef used by a field as a base type of
  its own (`ReflectVisitor.cpp:55`); when an older unit already brought the
  enum behind the typedef, the base type comes after the enum in the merged
  table and takes the name, while in the newest unit alone the enum has it.
- **NestedFields.** Types of fields are registered by the visit of the record
  that has the field, and records with neither name nor typedef are passed
  over, while their fields are added to the record around them. A type used
  only there, such as a pointer to a function in an anonymous member, is in no
  entry, and its field ends up at the empty slot 0, though the loop at
  `README.md:99-103` prints `field->type_ptr->name` of nested fields, too.
  `FieldTypesKnown` shows that the fields of records with a name have their
  types.

- **FourByteEnum.** `struct.pack` refuses a negative number for `"<I"`, so a
  single enumerator below zero in a unit for a four-byte target (`merge.py:13`
  has `arch` as 8 or 4) ends the script before it writes anything. `Pipeline`
  shows that the tables of earlier merges survive that.

### Fairness

`WF_vars(LoadStep)` in `Loader` says that a call
of `reflect_load_bytes`, once entered, runs on: it is a sequential function
without waiting. Nothing is assumed of the application, which need not load or
free. `LoadReturns` can fail all the same, when the next cell is not of the
kind the loader asks for.

In `Pipeline`, `WF_vars(Running)` says the same of all three processes: once
started, a compilation, a script and a load run on. Whether the script writes
an output or ends with an exception is not subject to fairness, nobody has to
start a process, and the program need not exit.

### Assumptions

- Plain data and field values are never equal to the magic number followed by
  a type pointer. No header of 32 bits could tell such data from an object.
- What the application stores through a field fits into it.
- Allocators return runs that do not overlap what is in use. `malloc` does not
  fail during a load: the code checks none of these allocations.
- In `StringsInPlace`, the offsets are claimed for units of one word size; a
  directory that mixes word sizes is checked for the rest. There the offsets of
  the strings met under the first word size are off by 8 bytes: they are noted
  with the size read so far (`merge.py:135`) and the header has the last one.
  `Pipeline` compiles for one target.
- In `Visitor` and `Pipeline`, no two tags of a unit have the same name to go
  by, and no array has exactly one element. Such an array gets the array size 0
  (`ReflectVisitor.cpp:238`), which `ReflectionTypes.hpp:39` keeps for what is
  no array.
- In `Pipeline`, no field is declared with a typedef of a pointer or an array:
  the typedef becomes a base type with the size of what is left without
  pointers and arrays (`ReflectVisitor.cpp:55`), where `Reflection` has the
  size in C. Nor is one declared with a typedef of an enum (`MergeOrder`), or
  of a type that only records without a name have (`NestedFields`).
- Compilations, merges and programs do not overlap: the build runs the script
  after the compiler, and the program is started after that.

## Proofs

Every theorem below holds for every value of the constants that satisfies the
named assumptions of the modules; TLC evaluates these assumptions on the
instances. Each invariant was checked by TLC on the run of its module before it
was proved.

### Hash table and registry

`DataProofs` has the lemmas about one table: an insertion keeps the type
of a table and its well-formedness, changes what one key finds and nothing
else, and a lookup in a table of some capacity finds an id or `NotFound`. The
step that needs care is that `Min` of the matching positions is *the* matching
position, which holds because no key is stored twice.

`NameTableProofs` proves, for every set of names, hash function, capacity above
zero and set of ids:

- `TableStaysWellFormed`: `Spec => [](TypeOK /\ TableWellFormed)`, and with it
  `TypeCorrect`. The conjunction is inductive: without well-formedness an
  overwrite could leave a second entry of the key behind.
- `TableImplementsMap`: `Spec => ImplementsNameMap`, from the invariant and one
  step per action.

`RegistryProofs` proves, for every number of types and fields:

- `TypeCorrect`: `Spec => []TypeOK`;
- `NamesLeadToTypes`: `Spec => []NamesReachFilledTypes`;
- `NamesAreResolved`: `Spec => []TypeNamesResolve`;
- `FieldsAreFound`: `Spec => []FieldLookupCorrect`;
- `FilledSlotsStay`: `Spec => FilledStaysFilled`.

All five follow from one inductive invariant, `RegistryInv`. `TypeOK` says
nothing about what a lookup finds, and `FieldLookupCorrect` says nothing about
the table it goes through, so neither is inductive. `RegistryInv` adds, for the
slots (`SlotInv`), that the field table is well-formed and that a lookup finds
the last stored field of the name and that elements below `field_count` are
written; and for the names (`NamesInv`), that the table is well-formed, leads
only to filled slots and has the name of each of them. The lemma
`FieldAppended` carries most of the argument: appending a field keeps all of
this for one slot. `FieldIndexFindsLast` turns the invariant into what the
lookups answer.

The assumptions are `HashAssumption`, `TableAssumption` and
`RegistryAssumption` (the values for uninitialised memory, `NULL` and
`Undefined` differ from the values they could be taken for; every field has a
name and points to some index).

### Objects

`ObjectsProofs` proves, for memory of any size, any types and any number of
allocators:

- `TypeCorrect`: `Spec => []TypeOK`;
- `TypesAreKept`: `Spec => []ObjectKeepsType`;
- `StoresAreKept`: `Spec => []StoredValuesStay`;
- `FreesAreMatched`: `Spec => []AllocatorsKept`;
- `NoBlockLeaks`: `Spec => []NothingLeaks`;
- `PlainDataTold`: `Spec => []PlainDataIsTold`.

That a header is not overwritten depends on the whole layout of memory, which
`ObjectKeepsType` does not mention. The inductive invariant `ObjectsInv` says
it: blocks do not overlap; each object has a block of its own, of the length
for its type and of its allocator, that begins with its header; what was stored
through a field is at its place; and each block belongs to an object or to
plain data. The lemmas `OneBlock`, `FreeRunIsClear` and `WordsElsewhere` turn "the
runs do not overlap" into "a write to this block leaves every other header and
field alone".

For the last theorem `CleanInv` adds, if the allocators clear what is released,
`MagicMarksObjects`: the magic number is before a live object and nowhere else.
`PlainDataHasNoType` itself is no theorem, for the two reasons that the runs
`StaleHeader` and `SizelessObject` give. `FreesAreMatched` takes `reflect_free`
to be called on live objects, on `NULL`, and on the plain data that
`PlainDataIsTold` says is told from them.

`ObjectsAssumption` says that sizes are numbers, zero included, that fields lie
within their type, that the field table of a type with fields answers an index
of a field or `NotFound` (what `FieldsAreFound` proves of the registry), and
that what a word of memory holds can be told apart.

### Merge

`MergeProofs` proves for every set of directories that satisfies
`DirectoriesAssumption` (a readable file has the lines that `serialize` makes of
some types for a word size, what names something is a string, and a base type
has neither fields nor aliases; names, types and files may repeat at will):

- `TypeCorrect`: `Spec => []TypeOK`;
- `StringsAreStored`: `Spec => []StringsInPlace`;
- `DefinitionsAreRead`: `Spec => [](AtStart \/ InUnit)`;
- `NewestAreKept`: `Spec => []NewestDefinitions`.

`StringsInPlace` speaks of the end of the merge. `MergeInv` carries it there:
everything at hand (the object, its field, the map) refers to strings of the
volume from the line on that names it; the volume only grows, at its end; each
string in it is noted where the bytes before it end, as long as files are of
one arch; and before the first arch line, which starts the volume, nothing is
in use. The offset of a string is a sum over the strings before it, a recursive
function; `StringsAppended` and `NotedAppended` say what one more string adds.

`NewestDefinitions`, too, speaks of the end only, and relates the map to the
types the lines were written from, which the parser never sees. The invariant
behind it, `AtStart \/ InUnit`, gives the place of the parser in these types:
either nothing is at hand, before or after the arch line of a file, or the last
line read is a certain one of a certain definition, in its head (`InHead`) or in
one of its fields (`InField`); then what is at hand has exactly the columns,
aliases and fields that the lines up to this one say, and the map is that of all
definitions before (`MapIs`). The field being read is not in its object yet and
the object not in the map: both are flushed late, by the line that begins the
next one or by the end of the file, and it is here that something could end up
in the wrong place. `HeadStep`, `FieldStep` and `DefinitionEnds` take the three
kinds of places one by one, `PutKeepsMap` says what one more definition does to
the map. That a line is at such a place at all is a fact about `serialize`
(`LineAt`, `FieldLineAt`): where in a flattened list of lists the elements of
each are.

### Visitor

`VisitorProofs` proves for every unit that satisfies `UnitsAssumption` (what C
and clang grant: a tag is defined at most once, and by a declaration of its
kind; sizes are numbers, lists are lists) and `FieldsAssumption` (there are
finitely many records, a field has a name without dots and an offset, and no
record is nested in itself), and for every finite set of base types
(`BuiltinAssumption`):

- `TypeCorrect`: `Spec => []TypeOK`;
- `AliasesArrive`: `Spec => []AliasesReachTheirTypes`;
- `FieldTypesArrive`: `Spec => []FieldTypesKnown`;
- `NamesKept`: `Spec => [](DistinctNames => TagsKeepTheirNames)`;
- `EmbeddedAgree`: `Spec => []EmbeddedRecordsAgree`.

`AliasInv` is the invariant behind the second: for a tag that was visited, its
aliases and what is pending for it are together the typedef names of the
declarations shown so far; for one that was not, what is pending is. Both are
needed, because a typedef may come before the definition of its tag, after it,
or both. `KnownInv` adds, for the last two, that every own field of a visited
record has its type among the base types, that a name there which is not a base
type's is that of a visited tag, and that each type goes by the name of its
tag. `NamesKept` is conditional because C does not promise `DistinctNames`: a
typedef may have the name of a struct, and the table has one name space.

`EmbeddedAgree` is about a recursion without a counter: `AllFields` descends
into nested records, and ends because none is nested in itself. That is how
`FieldsAssumption` puts it: among any records there is one with no field that is
one of them. From it come the induction that the rest uses (`RecordInduction`:
what holds of a record when it does of those nested in it holds of all) and that
the recursive function has a value at every place (`FieldsAreDefined`, by taking
a largest set of records for whose places it has one). `ListedMoves` is the core:
what is listed at a place is listed under a name and at an offset at the place
that is moved by both, whatever the depth. The invariant adds only that every
visited record has what `AllFields` gives its tag.

### Loader

`LoaderProofs` proves for every set of type maps that satisfies
`LoaderAssumption`, both word sizes and every hash function:

- `TypesOfTheLoader`: `Spec => []TypeOK`;
- `WrittenIsLoaded`: `Spec => []RoundTrip`;
- `NamesLeadHome`: `Spec => []NamesResolve`;
- `NothingUnread`: `Spec => []WholeFileRead`;
- `BufferMayBeFreed`: `Spec => []NoDanglingNames`;
- `LoaderUsesRegistry`: `Spec => UsesRegistry`, which is the refinement of
  `Registry!Spec`.

They rest on one inductive invariant, the theorem `Reading`: `LoaderInv` and
`NamesInv`. None of the properties is inductive, because all but the first
speak of the end of a load only, and what a step reads depends on where the
reader is. So `PlaceInv` gives the place of the reader in terms of the source:
the start of the cells of the type, field or alias that `loop` is at. `SlotsInv`
says that every slot before the current type holds what the map says, the
current one as many fields as were read, and the others nothing. `NamesInv`
says that a lookup finds the last of the claimants of a name among the types
and aliases read so far. `FrameInv` and `IdleInv` are the rest. `BufferMayBeFreed`
adds `CopiesInv` (the theorem `EveryStringCopied`): in a load with copy, every
name, field name and alias of the source that the reader has passed is in
`copies`. What the registry holds is among these by `SlotsInv` and `NamesInv`.

The argument has three parts. The first is about the file alone: the cells of
a file are laid out one after the other, so no two cells start at the same
offset (which takes that every cell has a width above zero), and a reader at
the start of a group of cells finds each where it looks. This is where the
writer's order, widths and counts meet the reader's; the patched-in field count
is right because the count and the cells are made from the same list of kept
fields. The second part restates each step of the loader as one on the map, and
shows that it keeps the invariant. The third reads the properties off, and
shows that each step is a step of `Registry` or leaves its variables alone: that
ids are in range and used once comes from `Numbered`, that no field exceeds the
announced count from `PlaceInv`.

`LoaderAssumption` says what the parser leaves of what the plugin writes: every
type has a name, what names something was met before, columns are numbers, and
`MaxTypes` and `MaxFields` bound the maps (both are free). Names of types need
not differ. That every type has a name is needed: the script numbers the types
and then drops the one named `""` (`merge.py:193-197`), so with such a type the
last id would exceed the count in the file, by which the loader allocates its
table. The plugin skips records and enums that have no name
(`ReflectVisitor.cpp:28-34`, `94`), so it writes none.

### The processes together

`PipelineProofs` proves for every set of sources and units, every word size and
any number of compilations and merges:

- `TypeCorrect`: `Spec => []TypeOK`;
- `PromisedStepByStep`: `Spec => Promise!Init /\ [][PromisedStep]_<<...>>`.

The second is the refinement of `Reflection` taken step by step, but for one
thing. `PromisedStep` is the next-state relation of `Reflection` with
`LoadsTable` for `Load`: a program that knows nothing loads from a table that
was written, and what it knows then is left open. So it is proved that what is
declared is the last saved compilation of each source; that a table is of
everything declared when it was written, and never of nothing; and that what a
program knows appears with a load from such a table, stays as it is and is gone
with the program, whatever fails on the way. That a program knows exactly
`Newest` of the table is checked by TLC as part of `ImplementsReflection`; what
the parts contribute to it are `EmbeddedAgree` and the other theorems about
`Visitor`, `NewestAreKept`, `WrittenIsLoaded` and `NamesLeadHome`.

The invariant is `PipelineInv`. Each process relies on what another has left
behind: the script on a place in the files from the start, so that without files
it never comes to know a word size and `Packs` keeps it from writing; the load on
a table that was there when it started and still is; the compiler on its unit
being one of its source. `StageInv` says so for each stage. That there is one
file for each source (`SavedFacts`) is what makes saving a file the replacement
of a declaration (`SavedDeclares`).

`NamesAssumption` repeats what the parts assume of names and words, and
`CompilationsAssumption` says that a compilation is a source and a unit.

### Loops and lists

Most operators that these proofs are about are loops over a sequence, written
as recursive functions: the bytes of some cells, the aliases that are missing,
the base types that the fields of a record register. `DataProofs` has what is
needed to reason about them without an induction theorem over operators, which
the provers cannot instantiate: `SetInduction` and `LoopInvariant` are
induction over a *set* of numbers, proved from the well-foundedness of `<`;
`LoopIsDefined` gives every loop a run, so that the recursive function is equal
to its body; and the lemmas about lists say what appending, joining, selecting
and flattening do.

### What is only model-checked

- What a program finds in a table it has loaded, within `ImplementsReflection`.
  `Reflection` describes types by paths through nested records and folds over
  them, the visitor by a recursion; that both list the same is an induction over
  paths, and the descriptions would then have to be followed through the parser
  and the loader. The components are proved each on its own; that they fit
  together in this respect is what the run `Pipeline` checks.
- `LoadReturns` and `ProcessesEnd`: liveness is beyond the prover.

Every invariant of the passing runs, every action property and the refinements
of `NameMap` and `Registry` are theorems. `TagsKeepTheirNames` is one for units
whose tags have different names.

## Not modelled

- The text around the bytes in `reflection.dat.S`, the rendering as
  `reflection.dat.c` and the JSON dump: the same bytes in another form. An
  output that is cut short while it is written (a full disk).
- A program without a linked table: `reflect_load` then reads a header from the
  empty string of the weak symbol, which is undefined.
- Sources that are removed: the glob finds their files for ever, and nothing in
  a file tells which source it is from.
- Alignment of the reads in `reader.c`, allocation failures in a load, the ten
  million byte limit of the script's buffers.
- Freeing the buffer of a load without copy, which the comment at
  `reflect.c:130` warns of.
- `reflect_hotreload_get_state_ptr`: one address; its user is not in the
  repository.
- Field lookups on a type of the wrong variant: `reflect_get_field_type` on an
  enum applies an index to an array of other elements.
- Malformed text in a `*.reflection.dat` file: the only writer is the plugin.

## Plan

1. Done: the hash table as a map, the registry, the file and the loader,
   objects, the parser, the visitor, the composition of all but the objects
   with its abstract specification.
2. Done: the proofs above.
3. Left: what a program finds in its table, as a theorem: that the visitor's
   types are `Types` of the unit in `Reflection`, and `NewestAreKept`,
   `WrittenIsLoaded` and `NamesLeadHome` carried over to `Pipeline`.
