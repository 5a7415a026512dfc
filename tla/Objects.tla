------------------------------ MODULE Objects ------------------------------
(***************************************************************************)
(* Objects with a type header: reflect_alloc, reflect_free,                *)
(* reflect_get_type_info and the two reflect_get_field functions of        *)
(* src/reflect.c, used by an application that also keeps plain data in the *)
(* memory of the same allocators.                                          *)
(*                                                                         *)
(* Memory is an array of words.  A reflect_type_header_t takes one word:   *)
(* what tells words apart is whether they hold the magic number and which  *)
(* type pointer follows it.  malloc and the allocators an application      *)
(* passes are external: they hand out any run of words that is not in use. *)
(***************************************************************************)
EXTENDS HashTable, Functions

CONSTANTS
  Memory,      \* the words an allocator may hand out are 1 .. Memory
  Type,        \* the loaded types
  TypeSlot,    \* type -> size in words, fields (name, offset), field_table
  Allocator,   \* malloc (the NULL allocator) and those of the application
  Value,       \* what the application stores
  Scrubs,      \* the cases considered: allocators clear what they get back, or not
  NULL

REFLECT_DYNAMIC_ALLOC_MAGIC == "magic"

\* A word: its first bytes, and where a type pointer would be.
Header(t) == [magic |-> REFLECT_DYNAMIC_ALLOC_MAGIC, type_info_ptr |-> t]
Data(v)   == [magic |-> "data", type_info_ptr |-> v]
Blank     == Data(NULL)

HeaderSize == 1

\* The others have no field_table to look a name up in: see Registry.
HasFields(t) == DOMAIN TypeSlot[t].fields # {}

ASSUME ObjectsAssumption ==
  /\ Memory \in Nat
  /\ NULL \notin Int /\ NULL \notin Type
  /\ Type \cap Value = {}
  /\ Scrubs \subseteq BOOLEAN
  /\ \A t \in Type :
       \* void and the base types unknown to the plugin have size zero, and the
       \* last field of a record may have no size of its own.
       /\ TypeSlot[t].size \in Nat
       /\ \A k \in DOMAIN TypeSlot[t].fields :
            TypeSlot[t].fields[k].offset \in 0 .. TypeSlot[t].size
       \* What the loader builds: see FieldsAreFound in RegistryProofs.
       /\ HasFields(t) =>
            \A name \in Name :
              hashtable_get(TypeSlot[t].field_table, name)
                \in DOMAIN TypeSlot[t].fields \cup {NotFound}

VARIABLES
  memory,    \* address -> word; the word before the memory is someone else's
  blocks,    \* start of each block in use -> its length and its allocator
  objects,   \* pointer of each live object -> its type, its allocator and what
             \* the application stored in it, by offset
  plain,     \* starts of the blocks with plain data
  misfreed,  \* an allocator was given back what it had not handed out
  scrubs     \* whether the allocators clear what is released to them

vars == <<memory, blocks, objects, plain, misfreed, scrubs>>

Init ==
  /\ memory = [a \in 0 .. Memory |-> Blank]
  /\ blocks = <<>>
  /\ objects = <<>>
  /\ plain = {}
  /\ misfreed = FALSE
  /\ scrubs \in Scrubs

-----------------------------------------------------------------------------
\* The allocators.

InUse == UNION {b .. b + blocks[b].len - 1 : b \in DOMAIN blocks}

\* The starts of the runs of n free words.
FreeRuns(n) == {a \in 1 .. Memory - n + 1 : a .. a + n - 1 \cap InUse = {}}

With(f, x, v) == [y \in DOMAIN f \cup {x} |-> IF y = x THEN v ELSE f[y]]
Without(f, x) == Restrict(f, DOMAIN f \ {x})

\* free, or the free_func of the application.
Release(allocator, start) ==
  IF start \in DOMAIN blocks /\ blocks[start].allocator = allocator
  THEN /\ blocks' = Without(blocks, start)
       /\ memory' = IF scrubs
                    THEN [a \in DOMAIN memory |->
                            IF a \in start .. start + blocks[start].len - 1
                            THEN Blank ELSE memory[a]]
                    ELSE memory
       /\ UNCHANGED misfreed
  ELSE /\ misfreed' = TRUE
       /\ UNCHANGED <<blocks, memory>>

-----------------------------------------------------------------------------
\* reflect.c

HeaderOf(ptr) == ptr - HeaderSize

\* Faulty: the magic number is not looked at.
GetTypeUnchecked(ptr) ==
  IF ptr = NULL THEN NULL ELSE memory[HeaderOf(ptr)].type_info_ptr

reflect_get_type_info(ptr) ==
  IF ptr = NULL THEN NULL
  ELSE IF memory[HeaderOf(ptr)].magic # REFLECT_DYNAMIC_ALLOC_MAGIC THEN NULL
  ELSE memory[HeaderOf(ptr)].type_info_ptr

\* Faulty: the offset for the pointer.
GetsOffset(struct_ptr, field_name, type) ==
  IF struct_ptr = NULL \/ type = NULL THEN NULL
  ELSE LET id == hashtable_get(TypeSlot[type].field_table, field_name)
       IN  IF id = NotFound THEN NULL ELSE TypeSlot[type].fields[id].offset

\* Faulty: the offset is counted from the header.
GetsFromHeader(struct_ptr, field_name, type) ==
  IF struct_ptr = NULL \/ type = NULL THEN NULL
  ELSE LET id == hashtable_get(TypeSlot[type].field_table, field_name)
       IN  IF id = NotFound THEN NULL
           ELSE HeaderOf(struct_ptr) + TypeSlot[type].fields[id].offset

reflect_get_field_manual(struct_ptr, field_name, type) ==
  IF struct_ptr = NULL \/ type = NULL THEN NULL
  ELSE LET id == hashtable_get(TypeSlot[type].field_table, field_name)
       IN  IF id = NotFound THEN NULL ELSE struct_ptr + TypeSlot[type].fields[id].offset

reflect_get_field(struct_ptr, field_name) ==
  reflect_get_field_manual(struct_ptr, field_name, reflect_get_type_info(struct_ptr))

\* The words asked of the allocator for an object.
AllocSize(t) == HeaderSize + TypeSlot[t].size

\* Faulty: a header that is there already is kept.
WriteHeaderOnce(start, t) ==
  IF memory[start].magic = REFLECT_DYNAMIC_ALLOC_MAGIC THEN memory
  ELSE [memory EXCEPT ![start] = Header(t)]

WriteHeader(start, t) == [memory EXCEPT ![start] = Header(t)]

\* A pointer past the header; the rest of the object is as the allocator
\* left it.  Without a type, or without a run long enough: NULL, and nothing
\* changes.
reflect_alloc(t, allocator) ==
  \/ /\ t = NULL
     /\ UNCHANGED vars
  \/ t # NULL /\ \E start \in FreeRuns(AllocSize(t)) :
       LET ptr == start + HeaderSize
       IN  /\ memory' = WriteHeader(start, t)
           /\ blocks' = With(blocks, start, [len |-> AllocSize(t), allocator |-> allocator])
           /\ objects' = With(objects, ptr,
                              [type |-> t, allocator |-> allocator, stored |-> <<>>])
           /\ UNCHANGED <<plain, misfreed, scrubs>>
  \/ /\ t # NULL
     /\ FreeRuns(AllocSize(t)) = {}
     /\ UNCHANGED vars

\* Faulty: the pointer of the object is given back.
FreesPointer(ptr, allocator) ==
  IF ptr = NULL \/ memory[HeaderOf(ptr)].magic # REFLECT_DYNAMIC_ALLOC_MAGIC
  THEN UNCHANGED <<memory, blocks, misfreed>>
  ELSE Release(allocator, ptr)

\* Faulty: what has the magic number is left alone.
FreesUnmarked(ptr, allocator) ==
  IF ptr = NULL \/ memory[HeaderOf(ptr)].magic = REFLECT_DYNAMIC_ALLOC_MAGIC
  THEN UNCHANGED <<memory, blocks, misfreed>>
  ELSE Release(allocator, HeaderOf(ptr))

\* NULL and data without the magic number before it are left alone.
reflect_free(ptr, allocator) ==
  IF ptr = NULL \/ memory[HeaderOf(ptr)].magic # REFLECT_DYNAMIC_ALLOC_MAGIC
  THEN UNCHANGED <<memory, blocks, misfreed>>
  ELSE Release(allocator, HeaderOf(ptr))

-----------------------------------------------------------------------------
\* The application.

\* The type may be the NULL that a lookup by name answered.
Alloc ==
  \E t \in Type \cup {NULL}, allocator \in Allocator : reflect_alloc(t, allocator)

\* An object is freed once, through the allocator it came from.
Free ==
  \E p \in DOMAIN objects :
    /\ reflect_free(p, objects[p].allocator)
    /\ objects' = Without(objects, p)
    /\ UNCHANGED <<plain, scrubs>>

\* *(T*)reflect_get_field(p, name) = v, for a field with room for a value.
StoreField ==
  \E p \in DOMAIN objects, name \in Name, v \in Value :
    LET type == objects[p].type
        address == reflect_get_field(p, name)
    IN  /\ HasFields(type)
        /\ address # NULL
        /\ address - p < TypeSlot[type].size
        /\ memory' = [memory EXCEPT ![address] = Data(v)]
        /\ objects' = [objects EXCEPT ![p].stored = With(@, address - p, v)]
        /\ UNCHANGED <<blocks, plain, misfreed, scrubs>>

\* A block of the application's own, of one word, filled at once.
AllocPlain ==
  \E allocator \in Allocator, v \in Value, start \in FreeRuns(1) :
    /\ blocks' = With(blocks, start, [len |-> 1, allocator |-> allocator])
    /\ memory' = [memory EXCEPT ![start] = Data(v)]
    /\ plain' = plain \cup {start}
    /\ UNCHANGED <<objects, misfreed, scrubs>>

FreePlain ==
  \E start \in plain :
    /\ Release(blocks[start].allocator, start)
    /\ plain' = plain \ {start}
    /\ UNCHANGED <<objects, scrubs>>

\* The application may hand reflect_free anything, which is meant to see that
\* there is nothing to do (reflect.c:247-253): NULL, and plain data when memory
\* is cleared, unless the data begins where an object without a size ends.
\* PlainDataIsTold and the runs StaleHeader and SizelessObject show that the
\* data is taken for an object in the cases left out.
FreeOther ==
  \E p \in {NULL} \cup (plain \ DOMAIN objects), allocator \in Allocator :
    /\ p # NULL => scrubs
    /\ reflect_free(p, allocator)
    /\ UNCHANGED <<objects, plain, scrubs>>

Next == Alloc \/ Free \/ StoreField \/ AllocPlain \/ FreePlain \/ FreeOther

Spec == Init /\ [][Next]_vars

-----------------------------------------------------------------------------

\* The variables have their types.
TypeOK ==
  /\ DOMAIN memory = 0 .. Memory
  /\ \A a \in DOMAIN memory :
       memory[a] \in {Header(t) : t \in Type} \cup {Data(v) : v \in Value \cup {NULL}}
  /\ \A b \in DOMAIN blocks :
       b \in 1 .. Memory /\ blocks[b] \in [len : 1 .. Memory, allocator : Allocator]
  /\ \A p \in DOMAIN objects :
       /\ objects[p].type \in Type
       /\ objects[p].allocator \in Allocator
       /\ DOMAIN objects[p].stored \subseteq 0 .. TypeSlot[objects[p].type].size - 1
  /\ plain \subseteq 1 .. Memory
  /\ misfreed \in BOOLEAN
  /\ scrubs \in Scrubs

\* A live object is known by the type it was allocated with, whatever its
\* neighbours in memory are and whatever is stored through its fields or
\* theirs: the header is never overwritten (reflect.c:236-243).
ObjectKeepsType ==
  \A p \in DOMAIN objects : reflect_get_type_info(p) = objects[p].type

\* What was last stored at a field of a live object is still there, and the
\* function that takes the type from the caller finds the same place as the
\* one that reads it from the header (reflect.c:261-289).
StoredValuesStay ==
  \A p \in {q \in DOMAIN objects : HasFields(objects[q].type)}, name \in Name :
    LET address == reflect_get_field(p, name)
    IN  /\ address = reflect_get_field_manual(p, name, objects[p].type)
        /\ address # NULL /\ address - p \in DOMAIN objects[p].stored =>
             memory[address] = Data(objects[p].stored[address - p])

\* reflect_free gives an allocator back exactly what it handed out, although
\* the application holds a pointer into the middle of it, and nothing for data
\* that is not an object (reflect.c:247-258).
AllocatorsKept == ~misfreed

\* What is in use is what the application can still reach: every block holds
\* a live object or plain data, so freeing an object leaks nothing.
NothingLeaks == DOMAIN blocks = {HeaderOf(p) : p \in DOMAIN objects} \cup plain

\* When released memory is cleared, plain data has a type in one case only:
\* it begins where a live object without a size ends, so that the header of
\* the object is before both.  There is no other, whatever was stored or freed
\* in between (reflect.c:215-225, and 235 for the size asked for).
PlainDataIsTold ==
  scrubs =>
    \A p \in plain :
      reflect_get_type_info(p) = IF p \in DOMAIN objects THEN objects[p].type ELSE NULL

\* "A type header is added if reflect_alloc(), this is to prevent breakages if
\* reflect_get_type_info is called on data not initialized this way"
\* (reflect.c:12-13): data that reflect_alloc did not return has no type.
PlainDataHasNoType == \A p \in plain : reflect_get_type_info(p) = NULL
=============================================================================
