--------------------------- MODULE RegistryProofs ---------------------------
(***************************************************************************)
(* The type registry keeps its invariants for every set of names, every    *)
(* hash function and any number of types and fields.                       *)
(*                                                                         *)
(* The inductive invariant adds to the type what the lookups rest on: the  *)
(* tables are well formed, in each slot the field table finds the last     *)
(* field of a name, and the type table leads to filled slots only.         *)
(***************************************************************************)
EXTENDS Registry, DataProofs

EnumInfo == [name : Name, value : Value]

\* The field table of a slot answers, for a name, the last of the fields so
\* far that have it, or NotFound.
FindsLast(s, name) ==
  LET named == {k \in 0 .. s.field_count - 1 : s.fields[k].name = name}
      id    == hashtable_get(s.field_table, name)
  IN  IF named = {} THEN id = NotFound
                    ELSE id \in named /\ \A k \in named : k <= id

\* A slot with an array of n elements, the first field_count of them written.
Fielded(s, variants, n, Elements) ==
  /\ s \in FieldSlot(variants, n, Elements)
  /\ WellFormed(s.field_table)
  /\ n # 0 => \A name \in Name : FindsLast(s, name)

SlotInv(s) ==
  \/ s = RawSlot
  \/ s \in BaseSlot
  \/ \E n \in 0 .. MaxFields :
       \/ Fielded(s, {Struct, Union}, n, FieldInfo)
       \/ Fielded(s, {Enum}, n, EnumInfo)

Filled(s) == s.variant # Garbage

\* The tables after a load began, with room for n types.
Allocated(n) ==
  /\ DOMAIN type_table = 0 .. n
  /\ type_hash_table \in Tables(2 * n, 1 .. n)
  /\ WellFormed(type_hash_table)
  /\ type_table[0] = RawSlot
  /\ \A t \in 1 .. n : SlotInv(type_table[t])

\* Names lead to filled slots, and the name of a filled slot leads to one.
NamesInv ==
  /\ \A name \in Name :
       LET t == hashtable_get(type_hash_table, name)
       IN  t # NotFound => t \in TypeIds /\ Filled(type_table[t])
  /\ \A t \in TypeIds :
       Filled(type_table[t]) =>
         hashtable_get(type_hash_table, type_table[t].name) # NotFound

RegistryInv ==
  /\ is_init \in BOOLEAN
  /\ ~is_init => type_table = <<>> /\ type_hash_table = hashtable_create(0)
  /\ is_init => \E n \in 0 .. MaxTypes : Allocated(n) /\ (n # 0 => NamesInv)

-----------------------------------------------------------------------------
\* What one field does to its slot.

\* A record with these columns is a slot.
LEMMA IsFieldSlot ==
  ASSUME NEW n, NEW variants, NEW Elements, NEW id \in Nat, NEW name \in Name,
         NEW size \in Size, NEW variant \in variants, NEW count \in 0 .. n,
         NEW fields \in [0 .. n - 1 -> Elements \cup {Garbage}],
         NEW table \in Tables(2 * n, 0 .. n - 1)
  PROVE  [id |-> id, name |-> name, size |-> size, variant |-> variant,
          field_count |-> count, fields |-> fields, field_table |-> table]
            \in FieldSlot(variants, n, Elements)
BY DEF FieldSlot

\* Appending a field to a slot with room keeps the array typed and the table
\* in step with it: the new name finds the new field, the others what they did.
LEMMA FieldAppended ==
  ASSUME NEW n \in Nat \ {0}, NEW variants, NEW Elements, NEW s,
         Fielded(s, variants, n, Elements),
         NEW info \in Elements, info.name \in Name,
         s.field_count \in 0 .. n - 1
  PROVE  /\ Fielded(AppendField(s, info), variants, n, Elements)
         /\ \A c \in {"id", "name", "size", "variant"} : AppendField(s, info)[c] = s[c]
         /\ \A k \in 0 .. s.field_count - 1 : AppendField(s, info).fields[k] = s.fields[k]
<1> DEFINE new == AppendField(s, info)
           e   == [name |-> info.name, id |-> s.field_count]
<1>1. /\ s \in FieldSlot(variants, n, Elements)
      /\ s.fields \in [0 .. n - 1 -> Elements \cup {Garbage}]
      /\ s.field_table \in Tables(2 * n, 0 .. n - 1)
      /\ WellFormed(s.field_table)
      /\ 2 * n \in Nat \ {0}
  BY DEF Fielded, FieldSlot
<1>2. /\ new = [id |-> s.id, name |-> s.name, size |-> s.size, variant |-> s.variant,
                field_count |-> new.field_count, fields |-> new.fields,
                field_table |-> new.field_table]
      /\ new.field_count = s.field_count + 1
      /\ new.fields = [s.fields EXCEPT ![s.field_count] = info]
      /\ new.field_table = hashtable_insert(s.field_table, e)
  <2>1. s = [id |-> s.id, name |-> s.name, size |-> s.size, variant |-> s.variant,
             field_count |-> s.field_count, fields |-> s.fields,
             field_table |-> s.field_table]
    BY <1>1 DEF FieldSlot
  <2> DEFINE fields == [s.fields EXCEPT ![s.field_count] = info]
             table  == hashtable_insert(s.field_table, e)
  <2> HIDE DEF e
  <2>2. new = [s EXCEPT !.fields = fields, !.field_table = table,
                        !.field_count = s.field_count + 1]
    BY DEF AppendField, e
  <2> HIDE DEF new, fields, table
  <2>3. new = [id |-> s.id, name |-> s.name, size |-> s.size, variant |-> s.variant,
               field_count |-> s.field_count + 1, fields |-> fields,
               field_table |-> table]
    BY <2>1, <2>2
  <2> QED
    BY <2>3 DEF fields, table
<1>3. e \in hash_t(0 .. n - 1)
  BY DEF hash_t
<1>4. /\ new.field_table \in Tables(2 * n, 0 .. n - 1)
      /\ WellFormed(new.field_table)
      /\ \A name \in Name : hashtable_get(new.field_table, name) =
           IF name = info.name THEN s.field_count ELSE hashtable_get(s.field_table, name)
  BY <1>1, <1>2, <1>3, TableInserted
<1> HIDE DEF new
<1>5. /\ new.fields \in [0 .. n - 1 -> Elements \cup {Garbage}]
      /\ new.fields[s.field_count] = info
      /\ \A k \in 0 .. s.field_count - 1 : new.fields[k] = s.fields[k]
  BY <1>1, <1>2
<1>6. new \in FieldSlot(variants, n, Elements)
  <2>1. s.id \in Nat /\ s.name \in Name /\ s.size \in Size /\ s.variant \in variants
    BY <1>1 DEF FieldSlot
  <2>2. new.field_count \in 0 .. n
    BY <1>2
  <2>3. [id |-> s.id, name |-> s.name, size |-> s.size, variant |-> s.variant,
         field_count |-> new.field_count, fields |-> new.fields,
         field_table |-> new.field_table] \in FieldSlot(variants, n, Elements)
    BY <2>1, <2>2, <1>4, <1>5, IsFieldSlot
  <2> QED
    BY <2>3, <1>2
<1>7. ASSUME NEW name \in Name
      PROVE  FindsLast(new, name)
  <2> DEFINE was == {k \in 0 .. s.field_count - 1 : s.fields[k].name = name}
             now == {k \in 0 .. new.field_count - 1 : new.fields[k].name = name}
             id  == hashtable_get(new.field_table, name)
  <2>1. FindsLast(s, name)
    BY DEF Fielded
  <2>2. CASE name = info.name
    <3>1. id = s.field_count /\ s.field_count \in now
      BY <2>2, <1>2, <1>4, <1>5
    <3>2. \A k \in now : k <= id
      BY <3>1, <1>2
    <3> QED
      BY <3>1, <3>2 DEF FindsLast
  <2>3. CASE name # info.name
    <3>1. now = was
      BY <2>3, <1>2, <1>5
    <3>2. id = hashtable_get(s.field_table, name)
      BY <2>3, <1>4
    <3> QED
      BY <2>1, <3>1, <3>2 DEF FindsLast
  <2> QED
    BY <2>2, <2>3
<1>8. \A c \in {"id", "name", "size", "variant"} : new[c] = s[c]
  BY <1>2
<1> QED
  BY <1>4, <1>5, <1>6, <1>7, <1>8 DEF Fielded, new

\* A type that was just given its arrays has no field yet and finds none.
LEMMA SlotCreated ==
  ASSUME NEW id \in Nat, NEW name \in Name, NEW size \in Size,
         NEW variants, NEW variant \in variants, NEW n \in Nat, NEW Elements
  PROVE  Fielded([id |-> id, name |-> name, size |-> size, variant |-> variant,
                  field_count |-> 0, fields |-> Malloc(n),
                  field_table |-> hashtable_create(n * 2)], variants, n, Elements)
<1> DEFINE s == [id |-> id, name |-> name, size |-> size, variant |-> variant,
                 field_count |-> 0, fields |-> Malloc(n),
                 field_table |-> hashtable_create(n * 2)]
           table == hashtable_create(n * 2)
<1>1. n * 2 = 2 * n /\ 2 * n \in Nat /\ (n # 0 => 2 * n # 0) /\ 0 \in 0 .. n
  OBVIOUS
<1>2. /\ table \in Tables(2 * n, 0 .. n - 1)
      /\ WellFormed(table)
      /\ n # 0 => \A m \in Name : hashtable_get(table, m) = NotFound
  BY <1>1, TableCreated
<1>3. Malloc(n) \in [0 .. n - 1 -> Elements \cup {Garbage}]
  BY DEF Malloc
<1> HIDE DEF table
<1>4. [id |-> id, name |-> name, size |-> size, variant |-> variant, field_count |-> 0,
       fields |-> Malloc(n), field_table |-> table] \in FieldSlot(variants, n, Elements)
  BY <1>1, <1>2, <1>3, IsFieldSlot
<1>5. n # 0 => \A m \in Name : FindsLast(s, m)
  BY <1>2 DEF FindsLast, table
<1> QED
  BY <1>2, <1>4, <1>5 DEF Fielded, table

\* The columns of a filled slot.
LEMMA FilledSlot ==
  ASSUME NEW s, SlotInv(s), Filled(s)
  PROVE  s.name \in Name
BY DEF SlotInv, Filled, RawSlot, BaseSlot, Fielded, FieldSlot

-----------------------------------------------------------------------------
\* What one step does to the registry.

LEMMA RegistryInvInit == Init => RegistryInv
BY DEF Init, RegistryInv

\* The slot t is filled already, under the name that s has.
KeepsName(t, s) == Filled(type_table[t]) /\ s.name = type_table[t].name

\* Storing a good slot and registering a name for it, or storing it under
\* the name it had, keeps the invariant.
LEMMA SlotStored ==
  ASSUME RegistryInv, is_init, NEW t \in TypeIds, NEW s, SlotInv(s), Filled(s),
         DOMAIN type_table' = DOMAIN type_table,
         type_table'[t] = s,
         \A u \in DOMAIN type_table \ {t} : type_table'[u] = type_table[u],
         UNCHANGED is_init,
         NEW name \in Name,
         RegisterName(name, t) \/ (UNCHANGED type_hash_table /\ KeepsName(t, s)),
         s.name = name \/ KeepsName(t, s)
  PROVE  RegistryInv'
<1>1. PICK n \in 0 .. MaxTypes : Allocated(n) /\ (n # 0 => NamesInv)
  BY DEF RegistryInv
<1>2. t \in 1 .. n /\ n \in Nat \ {0} /\ NamesInv /\ 2 * n \in Nat \ {0} /\ TypeIds = 1 .. n
  BY <1>1, RegistryAssumption DEF Allocated, TypeIds
<1>3. /\ type_hash_table' \in Tables(2 * n, 1 .. n)
      /\ WellFormed(type_hash_table')
      /\ \A m \in Name : hashtable_get(type_hash_table', m) \in
                            {t, hashtable_get(type_hash_table, m)}
      /\ KeepsName(t, s) \/ hashtable_get(type_hash_table', s.name) = t
  <2>1. CASE RegisterName(name, t)
    <3>1. [name |-> name, id |-> t] \in hash_t(1 .. n)
      BY <1>2 DEF hash_t
    <3>2. type_hash_table \in Tables(2 * n, 1 .. n) /\ WellFormed(type_hash_table)
      BY <1>1 DEF Allocated
    <3>3. type_hash_table' = hashtable_insert(type_hash_table, [name |-> name, id |-> t])
      BY <2>1 DEF RegisterName
    <3> QED
      BY <3>1, <3>2, <3>3, <1>2, TableInserted
  <2>2. CASE UNCHANGED type_hash_table /\ KeepsName(t, s)
    BY <2>2, <1>1 DEF Allocated
  <2> QED
    BY <2>1, <2>2
<1>4. Allocated(n)'
  BY <1>1, <1>2, <1>3 DEF Allocated
<1>5. ASSUME NEW u \in TypeIds, Filled(type_table[u])
      PROVE  Filled(type_table'[u])
  BY <1>5 DEF TypeIds
<1>6. NamesInv'
  <2>1. ASSUME NEW m \in Name, hashtable_get(type_hash_table', m) # NotFound
        PROVE  /\ hashtable_get(type_hash_table', m) \in TypeIds
               /\ Filled(type_table'[hashtable_get(type_hash_table', m)])
    <3>1. CASE hashtable_get(type_hash_table', m) = t
      BY <3>1
    <3>2. CASE hashtable_get(type_hash_table', m) = hashtable_get(type_hash_table, m)
      BY <2>1, <3>2, <1>2, <1>5 DEF NamesInv
    <3> QED
      BY <3>1, <3>2, <1>3
  <2>2. ASSUME NEW u \in TypeIds, Filled(type_table'[u])
        PROVE  hashtable_get(type_hash_table', type_table'[u].name) # NotFound
    <3>1. t # NotFound
      BY <1>2 DEF NotFound
    <3>2. CASE u = t /\ ~KeepsName(t, s)
      BY <3>1, <3>2, <1>3
    <3>3. CASE u # t \/ KeepsName(t, s)
      <4>1. type_table'[u].name = type_table[u].name /\ Filled(type_table[u])
        BY <2>2, <3>3 DEF TypeIds, KeepsName
      <4>2. type_table[u].name \in Name
        BY <4>1, <1>1, <1>2, FilledSlot DEF Allocated
      <4>3. hashtable_get(type_hash_table, type_table[u].name) # NotFound
        BY <4>1, <1>2 DEF NamesInv
      <4> QED
        BY <4>1, <4>2, <4>3, <3>1, <1>3
    <3> QED
      BY <3>2, <3>3
  <2>3. TypeIds' = TypeIds
    BY DEF TypeIds
  <2> QED
    BY <2>1, <2>2, <2>3 DEF NamesInv
<1> QED
  BY <1>1, <1>4, <1>6 DEF RegistryInv

\* An uninitialised slot is as malloc left it.
LEMMA FreshSlot ==
  ASSUME NEW s, SlotInv(s), ~Filled(s)
  PROVE  s = RawSlot
BY RegistryAssumption
   DEF SlotInv, Filled, BaseSlot, Fielded, FieldSlot, Base, Struct, Union, Enum

\* The variant of a filled slot says which kind of fields it has.
LEMMA SlotOfVariant ==
  ASSUME NEW s, SlotInv(s), Filled(s)
  PROVE  /\ s.variant \in {Struct, Union} =>
              \E n \in 0 .. MaxFields : Fielded(s, {Struct, Union}, n, FieldInfo)
         /\ s.variant = Enum =>
              \E n \in 0 .. MaxFields : Fielded(s, {Enum}, n, EnumInfo)
<1>1. \A n, El : Fielded(s, {Struct, Union}, n, El) => s.variant \in {Struct, Union}
  BY DEF Fielded, FieldSlot
<1>2. \A n, El : Fielded(s, {Enum}, n, El) => s.variant = Enum
  BY DEF Fielded, FieldSlot
<1>3. s # RawSlot
  BY DEF Filled, RawSlot
<1>4. s \in BaseSlot => s.variant = Base
  BY DEF BaseSlot
<1> QED
  BY <1>1, <1>2, <1>3, <1>4 DEF SlotInv, Base, Struct, Union, Enum

LEMMA RegistryInvNext == RegistryInv /\ [Next]_vars => RegistryInv'
<1> SUFFICES ASSUME RegistryInv, [Next]_vars
             PROVE  RegistryInv'
  OBVIOUS
<1>1. CASE Allocate
  <2>1. PICK n \in 0 .. MaxTypes : AllocateTables(n)
    BY <1>1 DEF Allocate
  <2>2. n \in Nat /\ n * 2 = 2 * n /\ 2 * n \in Nat /\ (n # 0 => 2 * n # 0)
    BY RegistryAssumption
  <2>3. /\ type_hash_table' \in Tables(2 * n, 1 .. n)
        /\ WellFormed(type_hash_table')
        /\ n # 0 => \A m \in Name : hashtable_get(type_hash_table', m) = NotFound
    BY <2>1, <2>2, TableCreated DEF AllocateTables
  <2>4. type_table' = [t \in 0 .. n |-> RawSlot] /\ is_init'
    BY <2>1 DEF AllocateTables
  <2>5. Allocated(n)'
    BY <2>2, <2>3, <2>4 DEF Allocated, SlotInv
  <2>6. n # 0 => NamesInv'
    BY <2>2, <2>3, <2>4 DEF NamesInv, TypeIds, Filled, RawSlot
  <2> QED
    BY <2>4, <2>5, <2>6 DEF RegistryInv
<1>2. ASSUME NEW t \in TypeIds
      PROVE  is_init /\ SlotInv(type_table[t]) /\ t \in Nat
  BY <1>2, RegistryAssumption DEF RegistryInv, Allocated, TypeIds
<1>3. CASE AddBase
  <2>1. PICK id \in TypeIds, name \in Name, size \in Size :
          Fresh(id) /\ add_base_type_info(name, id, size) /\ UNCHANGED is_init
    BY <1>3 DEF AddBase
  <2>2. type_table[id] = RawSlot
    BY <1>2, <2>1, FreshSlot DEF Fresh, Initialised, Filled
  <2> DEFINE s == [id |-> id, name |-> name, size |-> size, variant |-> Base,
                   field_count |-> 0, fields |-> Malloc(0), field_table |-> Garbage]
  <2>3. /\ type_table' = [type_table EXCEPT ![id] = s]
        /\ RegisterName(name, id)
    <3>1. type_table[id].field_table = Garbage
      BY <2>2 DEF RawSlot
    <3> QED
      BY <2>1, <3>1 DEF add_base_type_info
  <2>4. SlotInv(s) /\ Filled(s) /\ s.name = name
    BY <1>2, RegistryAssumption DEF SlotInv, BaseSlot, Filled, Base
  <2> HIDE DEF s
  <2> QED
    BY <1>2, <2>1, <2>3, <2>4, SlotStored DEF TypeIds
<1>4. ASSUME NEW id \in TypeIds, NEW name \in Name, NEW size \in Size,
             NEW variant \in {Struct, Union, Enum}, NEW n \in 0 .. MaxFields,
             AddTypeWithFields(name, id, size, variant, n), UNCHANGED is_init
      PROVE  RegistryInv'
  <2> DEFINE s == [id |-> id, name |-> name, size |-> size, variant |-> variant,
                   field_count |-> 0, fields |-> Malloc(n),
                   field_table |-> hashtable_create(n * 2)]
  <2>1. /\ type_table' = [type_table EXCEPT ![id] = s]
        /\ RegisterName(name, id)
    BY <1>4 DEF AddTypeWithFields
  <2>2. n \in Nat /\ id \in Nat
    BY <1>2, RegistryAssumption
  <2>3. Fielded(s, {Struct, Union}, n, FieldInfo) \/ Fielded(s, {Enum}, n, EnumInfo)
    <3>1. CASE variant \in {Enum}
      BY <2>2, <3>1, SlotCreated
    <3>2. CASE variant \in {Struct, Union}
      BY <2>2, <3>2, SlotCreated
    <3> QED
      BY <3>1, <3>2
  <2>5. Filled(s) /\ s.name = name
    BY RegistryAssumption DEF Filled, Struct, Union, Enum
  <2> HIDE DEF s
  <2>6. SlotInv(s)
    BY <2>3 DEF SlotInv
  <2> QED
    BY <1>2, <1>4, <2>1, <2>5, <2>6, SlotStored DEF TypeIds
<1>5. CASE AddStruct
  BY <1>4, <1>5 DEF AddStruct, add_struct_type_info
<1>6. CASE AddEnum
  BY <1>4, <1>6 DEF AddEnum, add_enum_type_info
<1>7. ASSUME NEW t \in TypeIds, NEW variants, NEW Elements, NEW info \in Elements,
             NEW n \in 0 .. MaxFields, Fielded(type_table[t], variants, n, Elements),
             HasRoom(t), info.name \in Name,
             type_table' = [type_table EXCEPT ![t] = AppendField(@, info)],
             UNCHANGED <<type_hash_table, is_init>>,
             \A s : Fielded(s, variants, n, Elements) => SlotInv(s)
      PROVE  RegistryInv'
  <2> DEFINE s == AppendField(type_table[t], info)
  <2>1. n \in Nat \ {0} /\ type_table[t].field_count \in 0 .. n - 1
    BY <1>7, RegistryAssumption DEF HasRoom, Fielded, FieldSlot
  <2>2. /\ Fielded(s, variants, n, Elements)
        /\ s.variant = type_table[t].variant
        /\ s.name = type_table[t].name
    BY <1>7, <2>1, FieldAppended
  <2> HIDE DEF s
  <2>3. Filled(s) /\ SlotInv(s) /\ KeepsName(t, s)
    BY <1>7, <2>2 DEF HasRoom, Initialised, Filled, KeepsName
  <2>4. type_table' = [type_table EXCEPT ![t] = s]
    BY <1>7 DEF s
  <2>5. s.name \in Name
    BY <2>3, FilledSlot
  <2> QED
    BY <1>2, <1>7, <2>3, <2>4, <2>5, SlotStored DEF TypeIds
<1>8. CASE AddStructField
  <2>1. PICK t \in TypeIds, info \in FieldInfo :
          /\ HasRoom(t)
          /\ type_table[t].variant \in {Struct, Union}
          /\ add_struct_field_type(t, info)
          /\ UNCHANGED is_init
    BY <1>8 DEF AddStructField
  <2>2. PICK n \in 0 .. MaxFields : Fielded(type_table[t], {Struct, Union}, n, FieldInfo)
    BY <1>2, <2>1, SlotOfVariant DEF HasRoom, Initialised, Filled
  <2>3. info.name \in Name
    BY RegistryAssumption
  <2>4. \A s : Fielded(s, {Struct, Union}, n, FieldInfo) => SlotInv(s)
    BY DEF SlotInv
  <2> QED
    BY <1>7, <2>1, <2>2, <2>3, <2>4 DEF add_struct_field_type
<1>9. CASE AddEnumField
  <2>1. PICK t \in TypeIds, name \in Name, value \in Value :
          /\ HasRoom(t)
          /\ type_table[t].variant = Enum
          /\ add_enum_field_type(t, name, value)
          /\ UNCHANGED is_init
    BY <1>9 DEF AddEnumField
  <2>2. PICK n \in 0 .. MaxFields : Fielded(type_table[t], {Enum}, n, EnumInfo)
    BY <1>2, <2>1, SlotOfVariant DEF HasRoom, Initialised, Filled
  <2> DEFINE info == [name |-> name, value |-> value]
  <2>3. info \in EnumInfo /\ info.name \in Name
    BY DEF EnumInfo
  <2>4. \A s : Fielded(s, {Enum}, n, EnumInfo) => SlotInv(s)
    BY DEF SlotInv
  <2> HIDE DEF info
  <2>5. type_table' = [type_table EXCEPT ![t] = AppendField(@, info)]
    BY <2>1 DEF add_enum_field_type, info
  <2>6. UNCHANGED <<type_hash_table, is_init>>
    BY <2>1 DEF add_enum_field_type
  <2> QED
    BY <1>7, <2>1, <2>2, <2>3, <2>4, <2>5, <2>6
<1>10. CASE AddAlias
  <2>1. PICK t \in TypeIds, alias \in Name :
          Initialised(t) /\ add_type_alias(t, alias) /\ UNCHANGED is_init
    BY <1>10 DEF AddAlias
  <2>2. /\ SlotInv(type_table[t]) /\ Filled(type_table[t])
        /\ KeepsName(t, type_table[t])
    BY <1>2, <2>1 DEF Initialised, Filled, KeepsName
  <2> QED
    BY <1>2, <2>1, <2>2, SlotStored DEF add_type_alias
<1>11. CASE UNCHANGED vars
  BY <1>11 DEF vars, RegistryInv, Allocated, NamesInv, TypeIds
<1> QED
  BY <1>1, <1>3, <1>5, <1>6, <1>8, <1>9, <1>10, <1>11 DEF Next

-----------------------------------------------------------------------------
\* What the invariant gives the callers.

LEMMA InvTypeOK == RegistryInv => TypeOK
<1> SUFFICES ASSUME RegistryInv
             PROVE  TypeOK
  OBVIOUS
<1>1. CASE ~is_init
  BY <1>1 DEF RegistryInv, TypeOK
<1>2. CASE is_init
  <2>1. PICK n \in 0 .. MaxTypes : Allocated(n)
    BY <1>2 DEF RegistryInv
  <2>2. \A s : SlotInv(s) => IsSlot(s)
    BY DEF SlotInv, IsSlot, Fielded, EnumInfo
  <2>3. \A t \in DOMAIN type_table : IsSlot(type_table[t])
    <3>1. \A t \in 1 .. n : IsSlot(type_table[t])
      BY <2>1, <2>2 DEF Allocated
    <3>2. IsSlot(type_table[0]) /\ DOMAIN type_table = 0 .. n
      BY <2>1 DEF Allocated, IsSlot
    <3> QED
      BY <3>1, <3>2, RegistryAssumption
  <2> QED
    BY <1>2, <2>1, <2>3 DEF TypeOK, Allocated
<1> QED
  BY <1>1, <1>2 DEF RegistryInv

\* With room for a type, a name is looked up in a table of some capacity.
LEMMA TypeLookup ==
  ASSUME RegistryInv, TypeIds # {} \/ type_hash_table.capacity # 0
  PROVE  /\ NamesInv
         /\ type_hash_table.capacity # 0
         /\ \A t \in TypeIds : SlotInv(type_table[t]) /\ t \in Nat
<1>1. is_init
  BY DEF RegistryInv, TypeIds, hashtable_create
<1>2. PICK n \in 0 .. MaxTypes : Allocated(n) /\ (n # 0 => NamesInv)
  BY <1>1 DEF RegistryInv
<1>3. n \in Nat /\ type_hash_table.capacity = 2 * n /\ TypeIds = 1 .. n
  BY <1>2, RegistryAssumption DEF Allocated, Tables, TypeIds
<1>4. n # 0
  BY <1>3
<1> QED
  BY <1>2, <1>3, <1>4 DEF Allocated

LEMMA InvNames == RegistryInv => NamesReachFilledTypes /\ TypeNamesResolve
<1> SUFFICES ASSUME RegistryInv
             PROVE  NamesReachFilledTypes /\ TypeNamesResolve
  OBVIOUS
<1>1. NamesReachFilledTypes
  BY TypeLookup
     DEF NamesReachFilledTypes, NamesInv, reflect_type_info_from_name, Initialised, Filled
<1>2. ASSUME NEW t \in TypeIds, Initialised(t)
      PROVE  reflect_type_info_from_name(type_table[t].name) # NULL
  <2>1. /\ NamesInv /\ type_hash_table.capacity # 0
        /\ SlotInv(type_table[t]) /\ Filled(type_table[t])
    BY <1>2, TypeLookup DEF Initialised, Filled
  <2>2. type_table[t].name \in Name
    BY <2>1, FilledSlot
  <2>3. /\ hashtable_get(type_hash_table, type_table[t].name) # NotFound
        /\ hashtable_get(type_hash_table, type_table[t].name) \in TypeIds
    BY <2>1, <2>2 DEF NamesInv
  <2>4. hashtable_get(type_hash_table, type_table[t].name) \in Nat
    BY <2>3, TypeLookup
  <2> QED
    BY <2>1, <2>3, <2>4, RegistryAssumption DEF reflect_type_info_from_name
<1> QED
  BY <1>1, <1>2 DEF TypeNamesResolve

\* The field table of a filled type answers as FindsLast says.
LEMMA FieldIndexFindsLast ==
  ASSUME RegistryInv, NEW t \in TypeIds, Initialised(t),
         DOMAIN type_table[t].fields # {}, NEW name \in Name
  PROVE  LET named == {k \in 0 .. type_table[t].field_count - 1 :
                         type_table[t].fields[k].name = name}
             id    == FieldIndex(t, name)
         IN  /\ type_table[t].field_count \in Nat
             /\ IF named = {} THEN id = NULL
                               ELSE id \in named /\ \A k \in named : k <= id
<1> DEFINE s == type_table[t]
<1>1. SlotInv(s) /\ Filled(s)
  BY TypeLookup DEF Initialised, Filled
<1>2. s # RawSlot /\ s \notin BaseSlot
  BY <1>1 DEF RawSlot, Filled, BaseSlot, Malloc
<1>3. PICK n \in 0 .. MaxFields : \E variants, Elements : Fielded(s, variants, n, Elements)
  BY <1>1, <1>2 DEF SlotInv
<1> HIDE DEF s
<1>4. /\ DOMAIN s.fields = 0 .. n - 1
      /\ s.field_table \in Tables(2 * n, 0 .. n - 1)
      /\ WellFormed(s.field_table)
      /\ s.field_count \in 0 .. n
  BY <1>3 DEF Fielded, FieldSlot
<1>5. n \in Nat \ {0} /\ 2 * n \in Nat \ {0} /\ s.field_count \in Nat
  BY <1>4, RegistryAssumption DEF s
<1>6. FindsLast(s, name)
  BY <1>3, <1>5 DEF Fielded
<1>7. FieldLookupDefined(t)
  BY <1>4, <1>5, RegistryAssumption DEF FieldLookupDefined, s, Tables
<1> DEFINE id == hashtable_get(s.field_table, name)
<1>8. FieldIndex(t, name) = IF id = NotFound THEN NULL ELSE id
  BY <1>7 DEF FieldIndex, s
<1>9. 0 .. s.field_count - 1 \subseteq Nat /\ NotFound \notin Nat
  BY DEF NotFound
<1> HIDE DEF id
<1> QED
  BY <1>5, <1>6, <1>8, <1>9 DEF FindsLast, s, id

LEMMA InvFields == RegistryInv => FieldLookupCorrect
<1> SUFFICES ASSUME RegistryInv, NEW t \in TypeIds, Initialised(t),
                    DOMAIN type_table[t].fields # {}, NEW name \in Name
             PROVE  LET visited == IteratedFields(t)
                        named   == {k \in DOMAIN visited : visited[k].name = name}
                        Answers(info, value) ==
                          /\ reflect_get_field_type(t, name) = info
                          /\ reflect_get_enum_value(t, name) =
                               IF type_table[t].variant = Enum THEN value ELSE NULL
                    IN  IF named = {} THEN Answers(NULL, NULL)
                        ELSE \E last \in named :
                               /\ \A k \in named : k <= last
                               /\ FieldIndex(t, name) = last - 1
                               /\ Answers(visited[last], visited[last].value)
  BY DEF FieldLookupCorrect
<1> DEFINE fields  == type_table[t].fields
           count   == type_table[t].field_count
           stored  == {k \in 0 .. count - 1 : fields[k].name = name}
           id      == FieldIndex(t, name)
           visited == IteratedFields(t)
           named   == {k \in DOMAIN visited : visited[k].name = name}
<1>1. /\ count \in Nat
      /\ IF stored = {} THEN id = NULL ELSE id \in stored /\ \A k \in stored : k <= id
  BY FieldIndexFindsLast
<1>2. /\ DOMAIN visited = 1 .. count
      /\ \A k \in 1 .. count : visited[k] = fields[k - 1]
  BY DEF IteratedFields
<1>3. \A k \in 1 .. count : k \in named <=> k - 1 \in stored
  BY <1>1, <1>2
<1>4. CASE stored = {}
  <2>1. named = {}
    BY <1>1, <1>2, <1>3, <1>4
  <2>2. id = NULL
    BY <1>1, <1>4
  <2> QED
    BY <2>1, <2>2 DEF reflect_get_field_type, reflect_get_enum_value
<1>5. CASE stored # {}
  <2>1. /\ id \in 0 .. count - 1
        /\ id + 1 \in named
        /\ \A k \in named : k <= id + 1
    <3>1. id \in stored /\ \A k \in stored : k <= id
      BY <1>1, <1>5
    <3>2. id \in 0 .. count - 1 /\ id + 1 \in 1 .. count /\ (id + 1) - 1 = id
      BY <1>1, <3>1
    <3>3. \A k \in named : k \in 1 .. count /\ k - 1 <= id
      BY <1>2, <1>3, <3>1
    <3> HIDE DEF named, stored, id
    <3> QED
      BY <1>1, <1>3, <3>1, <3>2, <3>3
  <2>2. id = (id + 1) - 1 /\ visited[id + 1] = fields[id]
    BY <1>1, <1>2, <2>1
  <2>3. id \notin {NULL, Undefined}
    BY <1>1, <2>1, RegistryAssumption
  <2>4. /\ reflect_get_field_type(t, name) = fields[id]
        /\ reflect_get_enum_value(t, name) =
             IF type_table[t].variant = Enum THEN fields[id].value ELSE NULL
    BY <2>3 DEF reflect_get_field_type, reflect_get_enum_value
  <2> HIDE DEF named, visited, id, fields
  <2> QED
    BY <2>1, <2>2, <2>4 DEF named, visited, id, fields
<1> QED
  BY <1>4, <1>5

LEMMA StepKeepsSlots == RegistryInv /\ [Next]_vars => [SlotsKept]_vars
<1> SUFFICES ASSUME RegistryInv, Next, NEW t \in TypeIds, Initialised(t)
             PROVE  /\ t \in DOMAIN type_table'
                    /\ \A c \in {"id", "name", "size", "variant"} :
                         type_table'[t][c] = type_table[t][c]
                    /\ \A k \in 0 .. type_table[t].field_count - 1 :
                         type_table'[t].fields[k] = type_table[t].fields[k]
  BY DEF SlotsKept
<1> DEFINE Stay == /\ t \in DOMAIN type_table'
                   /\ \A c \in {"id", "name", "size", "variant"} :
                        type_table'[t][c] = type_table[t][c]
                   /\ \A k \in 0 .. type_table[t].field_count - 1 :
                        type_table'[t].fields[k] = type_table[t].fields[k]
<1>1. /\ SlotInv(type_table[t]) /\ Filled(type_table[t])
      /\ is_init
      /\ t \in DOMAIN type_table
  BY TypeLookup DEF Initialised, Filled, RegistryInv, TypeIds
<1>2. ASSUME NEW u, NEW s, type_table' = [type_table EXCEPT ![u] = s], u # t
      PROVE  Stay
  BY <1>1, <1>2
<1>3. ASSUME NEW u \in TypeIds, NEW n \in 0 .. MaxFields, NEW variants, NEW Elements,
             NEW info \in Elements, Fielded(type_table[u], variants, n, Elements),
             HasRoom(u), info.name \in Name,
             type_table' = [type_table EXCEPT ![u] = AppendField(@, info)]
      PROVE  Stay
  <2>1. CASE u # t
    BY <1>2, <1>3, <2>1
  <2>2. CASE u = t
    <3> DEFINE s == AppendField(type_table[t], info)
    <3>1. n \in Nat \ {0} /\ type_table[t].field_count \in 0 .. n - 1
      BY <1>3, <2>2, RegistryAssumption DEF HasRoom, Fielded, FieldSlot
    <3>2. /\ \A c \in {"id", "name", "size", "variant"} : s[c] = type_table[t][c]
          /\ \A k \in 0 .. type_table[t].field_count - 1 :
               s.fields[k] = type_table[t].fields[k]
      BY <1>3, <2>2, <3>1, FieldAppended
    <3> HIDE DEF s
    <3>3. type_table' = [type_table EXCEPT ![t] = s]
      BY <1>3, <2>2 DEF s
    <3> QED
      BY <1>1, <3>2, <3>3
  <2> QED
    BY <2>1, <2>2
<1> HIDE DEF Stay
<1>4. ASSUME Allocate
      PROVE  Stay
  BY <1>1, <1>4 DEF Allocate, AllocateTables
<1>5. ASSUME AddBase \/ AddStruct \/ AddEnum
      PROVE  Stay
  <2>1. PICK u : Fresh(u) /\ \E s : type_table' = [type_table EXCEPT ![u] = s]
    BY <1>5
       DEF AddBase, AddStruct, AddEnum, add_base_type_info, add_struct_type_info,
           add_enum_type_info, AddTypeWithFields
  <2>2. u # t
    BY <2>1 DEF Fresh
  <2> QED
    BY <1>2, <2>1, <2>2
<1>6. ASSUME AddStructField
      PROVE  Stay
  <2>1. PICK u \in TypeIds, info \in FieldInfo :
          HasRoom(u) /\ type_table[u].variant \in {Struct, Union}
          /\ add_struct_field_type(u, info)
    BY <1>6 DEF AddStructField
  <2>2. PICK n \in 0 .. MaxFields : Fielded(type_table[u], {Struct, Union}, n, FieldInfo)
    BY <2>1, TypeLookup, SlotOfVariant DEF HasRoom, Initialised, Filled
  <2>3. info.name \in Name
    BY RegistryAssumption
  <2> QED
    BY <1>3, <2>1, <2>2, <2>3 DEF add_struct_field_type
<1>7. ASSUME AddEnumField
      PROVE  Stay
  <2>1. PICK u \in TypeIds, name \in Name, value \in Value :
          HasRoom(u) /\ type_table[u].variant = Enum
          /\ add_enum_field_type(u, name, value)
    BY <1>7 DEF AddEnumField
  <2>2. PICK n \in 0 .. MaxFields : Fielded(type_table[u], {Enum}, n, EnumInfo)
    BY <2>1, TypeLookup, SlotOfVariant DEF HasRoom, Initialised, Filled
  <2> DEFINE info == [name |-> name, value |-> value]
  <2>3. info \in EnumInfo /\ info.name \in Name
    BY DEF EnumInfo
  <2> HIDE DEF info
  <2>4. type_table' = [type_table EXCEPT ![u] = AppendField(@, info)]
    BY <2>1 DEF add_enum_field_type, info
  <2> QED
    BY <1>3, <2>1, <2>2, <2>3, <2>4
<1>8. ASSUME AddAlias
      PROVE  Stay
  <2>1. type_table' = type_table
    BY <1>8 DEF AddAlias, add_type_alias
  <2> QED
    BY <1>1, <2>1 DEF Stay
<1>9. Stay
  BY <1>4, <1>5, <1>6, <1>7, <1>8 DEF Next
<1> QED
  BY <1>9 DEF Stay

-----------------------------------------------------------------------------

LEMMA RegistryInvariant == Spec => []RegistryInv
BY RegistryInvInit, RegistryInvNext, PTL DEF Spec

\* The registry has its type at every moment of every load, however many
\* types and fields it has.
THEOREM TypeCorrect == Spec => []TypeOK
BY RegistryInvariant, InvTypeOK, PTL

\* A name never leads to a slot the load has not filled.
THEOREM NamesLeadToTypes == Spec => []NamesReachFilledTypes
BY RegistryInvariant, InvNames, PTL

\* The name of a filled slot always leads to some type, whatever names and
\* aliases were registered after it.
THEOREM NamesAreResolved == Spec => []TypeNamesResolve
BY RegistryInvariant, InvNames, PTL

\* A field name finds the last field of that name, for every hash function,
\* and nothing when there is none.
THEOREM FieldsAreFound == Spec => []FieldLookupCorrect
BY RegistryInvariant, InvFields, PTL

\* No call of the loader changes a type or a field already handed out.
THEOREM FilledSlotsStay == Spec => FilledStaysFilled
BY RegistryInvariant, StepKeepsSlots, PTL DEF Spec, FilledStaysFilled
=============================================================================
