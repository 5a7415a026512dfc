------------------------------ MODULE Registry ------------------------------
(***************************************************************************)
(* The type registry of src/reflect.c: the static type_table and           *)
(* type_hash_table, the add_* functions that fill them and the lookup part *)
(* of the public API.  A type_info_t* or type_info_internal* is the index  *)
(* of its slot in type_table; the two are the same slot because type is    *)
(* the last member of type_info_internal.                                  *)
(*                                                                         *)
(* Memory obtained from malloc and not yet written holds Garbage.          *)
(***************************************************************************)
EXTENDS HashTable

CONSTANTS
  Size,        \* the values of type_info_t.size
  FieldInfo,   \* the field_info_t values: name, type_ptr and the plain columns
  Value,       \* the values of enumerators
  MaxTypes,    \* bound on type_count
  MaxFields,   \* bound on field_count
  Garbage,     \* what uninitialised memory holds
  NULL,        \* the null pointer an API function returns
  Undefined    \* the result of a call whose behaviour C leaves undefined

\* reflect_obj_type_t
Base == 1
Struct == 2
Union == 3
Enum == 4

ASSUME RegistryAssumption ==
  /\ MaxTypes \in Nat
  /\ MaxFields \in Nat
  /\ \A f \in FieldInfo : f.name \in Name /\ f.type_ptr \in Nat
  /\ Garbage \notin Nat
  /\ Garbage \notin FieldInfo
  /\ Garbage \notin [name : Name, value : Value]
  /\ \A n \in 0 .. MaxFields : Garbage \notin Tables(2 * n, 0 .. n - 1)
  /\ NULL \notin Nat /\ Undefined \notin Nat /\ NULL # Undefined

VARIABLES
  type_table,        \* index -> slot; slot 0 is allocated and never written
  type_hash_table,   \* type and alias names -> index in type_table
  is_init            \* set by the first load

vars == <<type_table, type_hash_table, is_init>>

RawSlot ==
  [id |-> Garbage, name |-> Garbage, size |-> Garbage, variant |-> Garbage,
   field_count |-> Garbage, fields |-> Garbage, field_table |-> Garbage]

\* malloc of an array of n elements.
Malloc(n) == [k \in 0 .. n - 1 |-> Garbage]

Initialised(t) == type_table[t].variant # Garbage

RegisterName(name, id) ==
  type_hash_table' = hashtable_insert(type_hash_table, [name |-> name, id |-> id])

-----------------------------------------------------------------------------
\* The static functions that fill the registry.  fields stands for the union
\* of struct_fields and enum_fields; a NULL array is one with no element.

add_base_type_info(name, id, size) ==
  /\ type_table' = [type_table EXCEPT ![id] =
       [id |-> id, name |-> name, size |-> size, variant |-> Base,
        field_count |-> 0, fields |-> Malloc(0), field_table |-> @.field_table]]
  /\ RegisterName(name, id)

AddTypeWithFields(name, id, size, variant, field_count) ==
  /\ type_table' = [type_table EXCEPT ![id] =
       [id |-> id, name |-> name, size |-> size, variant |-> variant,
        field_count |-> 0, fields |-> Malloc(field_count),
        field_table |-> hashtable_create(field_count * 2)]]
  /\ RegisterName(name, id)

add_struct_type_info(name, id, size, variant, field_count) ==
  AddTypeWithFields(name, id, size, variant, field_count)

add_enum_type_info(name, id, size, field_count) ==
  AddTypeWithFields(name, id, size, Enum, field_count)

\* Faulty: the first field of a name keeps it.
AppendFieldKeepsFirst(slot, info) ==
  [slot EXCEPT
     !.fields[slot.field_count] = info,
     !.field_table =
       IF hashtable_get(@, info.name) # NotFound THEN @
       ELSE hashtable_insert(@, [name |-> info.name, id |-> slot.field_count]),
     !.field_count = @ + 1]

\* Store the field in the next free element and index it under its name.
AppendField(slot, info) ==
  [slot EXCEPT
     !.fields[slot.field_count] = info,
     !.field_table = hashtable_insert(@, [name |-> info.name, id |-> slot.field_count]),
     !.field_count = @ + 1]

add_struct_field_type(t, info) ==
  /\ type_table' = [type_table EXCEPT ![t] = AppendField(@, info)]
  /\ UNCHANGED type_hash_table

add_enum_field_type(t, name, value) ==
  /\ type_table' = [type_table EXCEPT ![t] =
                      AppendField(@, [name |-> name, value |-> value])]
  /\ UNCHANGED type_hash_table

add_type_alias(id, alias) ==
  /\ RegisterName(alias, id)
  /\ UNCHANGED type_table

\* Faulty: a second load starts over.
AllocateAgain(type_count) ==
  /\ is_init' = TRUE
  /\ type_table' = [t \in 0 .. type_count |-> RawSlot]
  /\ type_hash_table' = hashtable_create(type_count * 2)

\* Faulty: as many buckets as types.
AllocateHalf(type_count) ==
  /\ ~is_init
  /\ is_init' = TRUE
  /\ type_table' = [t \in 0 .. type_count |-> RawSlot]
  /\ type_hash_table' = hashtable_create(type_count)

\* The allocations at the start of a load; only the first load gets there.
AllocateTables(type_count) ==
  /\ ~is_init
  /\ is_init' = TRUE
  /\ type_table' = [t \in 0 .. type_count |-> RawSlot]
  /\ type_hash_table' = hashtable_create(type_count * 2)

-----------------------------------------------------------------------------
\* The lookups.  Taking a hash modulo a capacity of zero and reading a
\* field_table that was never created are undefined.

reflect_type_info_from_name(name) ==
  IF type_hash_table.capacity = 0 THEN Undefined
  ELSE LET result == hashtable_get(type_hash_table, name)
       IN  IF result = NotFound THEN NULL ELSE result

FieldLookupDefined(t) ==
  /\ type_table[t].field_table # Garbage
  /\ type_table[t].field_table.capacity # 0

\* The common part of the field functions: the index of a field, or NULL.
FieldIndex(t, field_name) ==
  IF ~FieldLookupDefined(t) THEN Undefined
  ELSE LET id == hashtable_get(type_table[t].field_table, field_name)
       IN  IF id = NotFound THEN NULL ELSE id

\* The answer is the element of the array; NULL when no field has the name.
reflect_get_field_type(t, field_name) ==
  LET id == FieldIndex(t, field_name)
  IN  IF id \in {NULL, Undefined} THEN id ELSE type_table[t].fields[id]

reflect_get_enum_value(t, field_name) ==
  IF type_table[t].variant # Enum THEN NULL
  ELSE LET id == FieldIndex(t, field_name)
       IN  IF id \in {NULL, Undefined} THEN id ELSE type_table[t].fields[id].value

\* What a loop from reflect_field_info_iter_begin to .._iter_end visits.
IteratedFields(t) ==
  [k \in 1 .. type_table[t].field_count |-> type_table[t].fields[k - 1]]

-----------------------------------------------------------------------------
\* The calls a loader may make: each id of 1..type_count is filled once,
\* and a type receives no more fields than were announced.

TypeIds == DOMAIN type_table \ {0}

Fresh(id) == id \in TypeIds /\ ~Initialised(id)

HasRoom(t) ==
  /\ t \in TypeIds
  /\ Initialised(t)
  /\ type_table[t].field_count \in DOMAIN type_table[t].fields

Init ==
  /\ type_table = <<>>
  /\ type_hash_table = hashtable_create(0)
  /\ is_init = FALSE

Allocate == \E n \in 0 .. MaxTypes : AllocateTables(n)

AddBase ==
  \E id \in TypeIds, name \in Name, size \in Size :
    /\ Fresh(id)
    /\ add_base_type_info(name, id, size)
    /\ UNCHANGED is_init

AddStruct ==
  \E id \in TypeIds, name \in Name, size \in Size,
     variant \in {Struct, Union}, n \in 0 .. MaxFields :
    /\ Fresh(id)
    /\ add_struct_type_info(name, id, size, variant, n)
    /\ UNCHANGED is_init

AddEnum ==
  \E id \in TypeIds, name \in Name, size \in Size, n \in 0 .. MaxFields :
    /\ Fresh(id)
    /\ add_enum_type_info(name, id, size, n)
    /\ UNCHANGED is_init

AddStructField ==
  \E t \in TypeIds, info \in FieldInfo :
    /\ HasRoom(t)
    /\ type_table[t].variant \in {Struct, Union}
    /\ info.type_ptr \in DOMAIN type_table
    /\ add_struct_field_type(t, info)
    /\ UNCHANGED is_init

AddEnumField ==
  \E t \in TypeIds, name \in Name, value \in Value :
    /\ HasRoom(t)
    /\ type_table[t].variant = Enum
    /\ add_enum_field_type(t, name, value)
    /\ UNCHANGED is_init

\* Faulty: the aliases of a type come before it.
AddAliasEarly ==
  \E t \in TypeIds, alias \in Name :
    /\ add_type_alias(t, alias)
    /\ UNCHANGED is_init

AddAlias ==
  \E t \in TypeIds, alias \in Name :
    /\ Initialised(t)
    /\ type_table[t].variant # Base
    /\ add_type_alias(t, alias)
    /\ UNCHANGED is_init

Next ==
  \/ Allocate
  \/ AddBase
  \/ AddStruct
  \/ AddEnum
  \/ AddStructField
  \/ AddEnumField
  \/ AddAlias

Spec == Init /\ [][Next]_vars

-----------------------------------------------------------------------------

BaseSlot ==
  [id : Nat, name : Name, size : Size, variant : {Base}, field_count : {0},
   fields : {Malloc(0)}, field_table : {Garbage}]

\* A slot with an array of n elements of one kind.
FieldSlot(variants, n, Elements) ==
  [id : Nat, name : Name, size : Size, variant : variants, field_count : 0 .. n,
   fields : [0 .. n - 1 -> Elements \cup {Garbage}],
   field_table : Tables(2 * n, 0 .. n - 1)]

IsSlot(s) ==
  \/ s = RawSlot
  \/ s \in BaseSlot
  \/ \E n \in 0 .. MaxFields :
       \/ s \in FieldSlot({Struct, Union}, n, FieldInfo)
       \/ s \in FieldSlot({Enum}, n, [name : Name, value : Value])

\* The registry has its type: nothing is allocated before the first load,
\* and then type_count + 1 slots and a table of twice type_count buckets.
TypeOK ==
  /\ is_init \in BOOLEAN
  /\ \/ /\ ~is_init
        /\ type_table = <<>>
        /\ type_hash_table = hashtable_create(0)
     \/ /\ is_init
        /\ \E n \in 0 .. MaxTypes :
             /\ DOMAIN type_table = 0 .. n
             /\ type_hash_table \in Tables(2 * n, 1 .. n)
        /\ \A t \in DOMAIN type_table : IsSlot(type_table[t])

\* reflect_type_info_from_name never hands out a slot that was not filled:
\* in particular never slot 0, which stays uninitialised for ever, although
\* the aliases and names of all types share one table (reflect.c:206-213).
NamesReachFilledTypes ==
  type_hash_table.capacity # 0 =>
    \A name \in Name :
      LET t == reflect_type_info_from_name(name)
      IN  t # NULL => t \in TypeIds /\ Initialised(t)

\* Whatever else is registered under the same name, the name of a filled
\* type resolves to some type: overwriting an entry never loses the key
\* (hashtable.c:72-75).
TypeNamesResolve ==
  \A t \in TypeIds : Initialised(t) => reflect_type_info_from_name(type_table[t].name) # NULL

\* In a type with room for a field, the lookups by field name are defined and
\* agree with the iteration over the fields, at every moment of a load: they
\* answer the last field visited that has the name (the value of the last
\* enumerator, for an enum), and NULL exactly for names no visited field has,
\* so the table never points past field_count or at an element that is still
\* Garbage (reflect.c:91-121 against 291-332).  The two kinds of type left out
\* are those on which the calls are undefined: base types, whose field_table
\* is never created (reflect.c:41), and types of no field, whose table has
\* capacity zero (reflect.c:64, 81).
FieldLookupCorrect ==
  \A t \in TypeIds :
    Initialised(t) /\ DOMAIN type_table[t].fields # {} =>
      \A name \in Name :
        LET visited == IteratedFields(t)
            named   == {k \in DOMAIN visited : visited[k].name = name}
            Answers(info, value) ==
              /\ reflect_get_field_type(t, name) = info
              /\ reflect_get_enum_value(t, name) =
                   IF type_table[t].variant = Enum THEN value ELSE NULL
        IN  IF named = {} THEN Answers(NULL, NULL)
            ELSE \E last \in named :
                   /\ \A k \in named : k <= last
                   /\ FieldIndex(t, name) = last - 1
                   /\ Answers(visited[last], visited[last].value)

\* A filled slot keeps its identity and its fields.
SlotsKept ==
  \A t \in TypeIds :
    Initialised(t) =>
      /\ t \in DOMAIN type_table'
      /\ \A c \in {"id", "name", "size", "variant"} :
           type_table'[t][c] = type_table[t][c]
      /\ \A k \in 0 .. type_table[t].field_count - 1 :
           type_table'[t].fields[k] = type_table[t].fields[k]

\* Pointers that were handed out stay good: a filled slot keeps its identity
\* and a stored field its element, whatever is loaded afterwards, a second
\* load included (reflect.c:132-135, the table is never moved).
FilledStaysFilled == [][SlotsKept]_vars
=============================================================================
