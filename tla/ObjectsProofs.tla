--------------------------- MODULE ObjectsProofs ---------------------------
(***************************************************************************)
(* Proofs about the objects with a type header, for every size of the      *)
(* memory, every set of types and layouts, and every allocator.            *)
(*                                                                         *)
(* None of the properties of Objects is inductive: that a header survives  *)
(* depends on the blocks being apart, and that a block is given back once  *)
(* depends on every object having a block of its own.  ObjectsInv says how *)
(* the memory, the allocators and the application's pointers hang together.*)
(***************************************************************************)
EXTENDS Objects, TLAPS

\* A block lies in the memory, and blocks do not overlap.
BlocksApart ==
  /\ \A b \in DOMAIN blocks :
       /\ b \in 1 .. Memory
       /\ blocks[b] \in [len : 1 .. Memory, allocator : Allocator]
       /\ b + blocks[b].len - 1 <= Memory
  /\ \A b, c \in DOMAIN blocks : b < c => b + blocks[b].len <= c

\* An object is its type, its allocator and the values stored inside of it.
ObjectsTyped ==
  \A p \in DOMAIN objects :
    /\ p \in Int
    /\ DOMAIN objects[p] = {"type", "allocator", "stored"}
    /\ objects[p].type \in Type
    /\ objects[p].allocator \in Allocator
    /\ DOMAIN objects[p].stored \subseteq 0 .. TypeSlot[objects[p].type].size - 1

\* The block of an object starts at its header and has room for both.
ObjectsHaveBlocks ==
  \A p \in DOMAIN objects :
    /\ HeaderOf(p) \in DOMAIN blocks
    /\ blocks[HeaderOf(p)].len = AllocSize(objects[p].type)
    /\ blocks[HeaderOf(p)].allocator = objects[p].allocator

\* The words of a live object.
ObjectsInPlace ==
  \A p \in DOMAIN objects :
    /\ memory[HeaderOf(p)] = Header(objects[p].type)
    /\ \A o \in DOMAIN objects[p].stored : memory[p + o] = Data(objects[p].stored[o])

\* Plain data has a block of one word, and every block has one owner.
BlocksOwned ==
  /\ \A s \in plain : s \in DOMAIN blocks /\ blocks[s].len = 1
  /\ \A p \in DOMAIN objects : HeaderOf(p) \notin plain
  /\ NothingLeaks

\* Words hold a header or data.
Word == {Header(t) : t \in Type} \cup {Data(v) : v \in Value \cup {NULL}}

MemoryTyped == memory \in [0 .. Memory -> Word]

ObjectsInv ==
  /\ MemoryTyped
  /\ BlocksApart
  /\ ObjectsTyped
  /\ ObjectsHaveBlocks
  /\ ObjectsInPlace
  /\ BlocksOwned
  /\ misfreed = FALSE
  /\ scrubs \in Scrubs

\* The magic number stands before a live object and nowhere else.
MagicMarksObjects ==
  \A a \in 0 .. Memory :
    memory[a].magic = REFLECT_DYNAMIC_ALLOC_MAGIC => a + HeaderSize \in DOMAIN objects

\* With allocators that clear what they get back, only the header of a live
\* object can stand before a block.
CleanInv == ObjectsInv /\ (scrubs => MagicMarksObjects)

-----------------------------------------------------------------------------
\* What is left of a function when x is taken from its domain.
LEMMA WithoutFacts ==
  ASSUME NEW f, NEW x
  PROVE  /\ DOMAIN Without(f, x) = DOMAIN f \ {x}
         /\ \A y \in DOMAIN f : y # x => Without(f, x)[y] = f[y]
BY DEF Without, Restrict

\* The sizes of the types, and what tells a header from data.
LEMMA SizesAreNatural ==
  ASSUME NEW t \in Type
  PROVE  /\ TypeSlot[t].size \in Nat
         /\ AllocSize(t) = TypeSlot[t].size + 1
         /\ AllocSize(t) \in Nat \ {0}
         /\ t # NULL
BY ObjectsAssumption DEF AllocSize, HeaderSize

LEMMA WordFacts ==
  /\ \A t \in Type : Header(t) \in Word
  /\ \A v \in Value : Data(v) \in Word
  /\ Blank \in Word
  /\ \A v : Data(v).magic # REFLECT_DYNAMIC_ALLOC_MAGIC
  /\ Blank.magic # REFLECT_DYNAMIC_ALLOC_MAGIC
  /\ \A t : Header(t).magic = REFLECT_DYNAMIC_ALLOC_MAGIC
  /\ \A t : Header(t).type_info_ptr = t
BY DEF Word, Header, Data, Blank, REFLECT_DYNAMIC_ALLOC_MAGIC

\* An address belongs to one block at most.
LEMMA OneBlock ==
  ASSUME BlocksApart, NEW b \in DOMAIN blocks, NEW c \in DOMAIN blocks, b # c,
         NEW a \in b .. b + blocks[b].len - 1
  PROVE  a \notin c .. c + blocks[c].len - 1
<1>1. b \in Int /\ c \in Int /\ blocks[b].len \in Int /\ blocks[c].len \in Int
  BY DEF BlocksApart
<1>2. b < c \/ c < b
  BY <1>1
<1>3. b + blocks[b].len <= c \/ c + blocks[c].len <= b
  BY <1>2 DEF BlocksApart
<1> QED
  BY <1>1, <1>3

\* A run of free words is clear of every block.
LEMMA FreeRunIsClear ==
  ASSUME BlocksApart, NEW n \in Nat \ {0}, NEW start \in FreeRuns(n)
  PROVE  /\ start \in 1 .. Memory - n + 1
         /\ start \notin DOMAIN blocks
         /\ \A b \in DOMAIN blocks :
              b + blocks[b].len <= start \/ start + n <= b
<1>1. start \in 1 .. Memory - n + 1 /\ start .. start + n - 1 \cap InUse = {}
  BY DEF FreeRuns
<1>2. Memory \in Nat
  BY ObjectsAssumption
<1>3. ASSUME NEW b \in DOMAIN blocks
      PROVE  b + blocks[b].len <= start \/ start + n <= b
  <2>1. b \in Int /\ blocks[b].len \in Nat \ {0}
    BY DEF BlocksApart
  <2>2. b .. b + blocks[b].len - 1 \subseteq InUse
    BY DEF InUse
  <2>3. b \notin start .. start + n - 1
    <3>1. b \in b .. b + blocks[b].len - 1
      BY <2>1
    <3> QED
      BY <1>1, <2>2, <3>1
  <2>4. start \notin b .. b + blocks[b].len - 1
    <3>1. start \in start .. start + n - 1
      BY <1>1, <1>2
    <3> QED
      BY <1>1, <2>2, <3>1
  <2> QED
    BY <1>1, <1>2, <2>1, <2>3, <2>4
<1>4. start \notin DOMAIN blocks
  <2> SUFFICES ASSUME start \in DOMAIN blocks PROVE FALSE
    OBVIOUS
  <2>1. blocks[start].len \in Nat \ {0}
    BY DEF BlocksApart
  <2> QED
    BY <1>1, <1>2, <1>3, <2>1
<1> QED
  BY <1>1, <1>3, <1>4

-----------------------------------------------------------------------------
\* What the functions of reflect.c find, in a state that satisfies the
\* invariant.  A live object has its type, and a field of it has a place
\* inside of it, the same for both functions.
LEMMA LiveObject ==
  ASSUME ObjectsInv, NEW p \in DOMAIN objects
  PROVE  /\ p \in 2 .. Memory + 1
         /\ p + TypeSlot[objects[p].type].size - 1 <= Memory
         /\ p # NULL
         /\ reflect_get_type_info(p) = objects[p].type
         /\ HasFields(objects[p].type) =>
              \A name \in Name :
                /\ reflect_get_field(p, name)
                     = reflect_get_field_manual(p, name, objects[p].type)
                /\ reflect_get_field(p, name) # NULL =>
                     reflect_get_field(p, name)
                       \in p .. p + TypeSlot[objects[p].type].size
<1> DEFINE t == objects[p].type
<1>1. p \in Int /\ t \in Type /\ HeaderOf(p) = p - 1
  BY DEF ObjectsInv, ObjectsTyped, HeaderOf, HeaderSize
<1>2. /\ p - 1 \in DOMAIN blocks
      /\ blocks[p - 1].len = TypeSlot[t].size + 1
      /\ TypeSlot[t].size \in Nat
  BY <1>1, SizesAreNatural DEF ObjectsInv, ObjectsHaveBlocks
<1>3. p - 1 \in 1 .. Memory /\ (p - 1) + blocks[p - 1].len - 1 <= Memory
  BY <1>2 DEF ObjectsInv, BlocksApart
<1>4. p \in 2 .. Memory + 1 /\ p + TypeSlot[t].size - 1 <= Memory
  BY <1>1, <1>2, <1>3, ObjectsAssumption
<1>5. p # NULL /\ t # NULL
  BY <1>1, ObjectsAssumption
<1>6. memory[HeaderOf(p)] = Header(t)
  BY DEF ObjectsInv, ObjectsInPlace
<1>7. reflect_get_type_info(p) = t
  BY <1>5, <1>6, WordFacts DEF reflect_get_type_info
<1>8. ASSUME HasFields(t), NEW name \in Name, reflect_get_field_manual(p, name, t) # NULL
      PROVE  reflect_get_field_manual(p, name, t) \in p .. p + TypeSlot[t].size
  <2> DEFINE id == hashtable_get(TypeSlot[t].field_table, name)
  <2>1. id # NotFound /\ reflect_get_field_manual(p, name, t) = p + TypeSlot[t].fields[id].offset
    BY <1>5, <1>8 DEF reflect_get_field_manual
  <2>2. id \in DOMAIN TypeSlot[t].fields
    BY <1>1, <1>8, <2>1, ObjectsAssumption
  <2>3. TypeSlot[t].fields[id].offset \in 0 .. TypeSlot[t].size
    <3> HIDE DEF t, id
    <3> QED
      BY <1>1, <2>2, ObjectsAssumption DEF t
  <2> QED
    BY <1>1, <1>2, <2>1, <2>3
<1> QED
  BY <1>4, <1>5, <1>7, <1>8 DEF reflect_get_field

\* The words of a live object, its header among them, are those of its block.
LEMMA ObjectWords ==
  ASSUME ObjectsInv, NEW p \in DOMAIN objects,
         NEW o \in -1 .. TypeSlot[objects[p].type].size - 1
  PROVE  /\ p + o \in HeaderOf(p) .. HeaderOf(p) + blocks[HeaderOf(p)].len - 1
         /\ p + o \in 1 .. Memory
<1>1. /\ p \in 2 .. Memory + 1
      /\ p + TypeSlot[objects[p].type].size - 1 <= Memory
      /\ TypeSlot[objects[p].type].size \in Nat
  BY LiveObject, SizesAreNatural DEF ObjectsInv, ObjectsTyped
<1>2. blocks[HeaderOf(p)].len = TypeSlot[objects[p].type].size + 1
  BY SizesAreNatural DEF ObjectsInv, ObjectsTyped, ObjectsHaveBlocks
<1>3. Memory \in Nat
  BY ObjectsAssumption
<1> QED
  BY <1>1, <1>2, <1>3 DEF HeaderOf, HeaderSize

\* A word outside of the block of an object is not one of its words.
LEMMA WordsElsewhere ==
  ASSUME ObjectsInv, NEW p \in DOMAIN objects,
         NEW o \in -1 .. TypeSlot[objects[p].type].size - 1,
         NEW b \in DOMAIN blocks, b # HeaderOf(p)
  PROVE  p + o \notin b .. b + blocks[b].len - 1
<1>1. HeaderOf(p) \in DOMAIN blocks /\ BlocksApart
  BY DEF ObjectsInv, ObjectsHaveBlocks
<1>2. p + o \in HeaderOf(p) .. HeaderOf(p) + blocks[HeaderOf(p)].len - 1
  BY ObjectWords
<1> QED
  BY <1>1, <1>2, OneBlock

\* Nor is the start of a run of free words.
LEMMA WordsNotFree ==
  ASSUME ObjectsInv, NEW p \in DOMAIN objects,
         NEW o \in -1 .. TypeSlot[objects[p].type].size - 1,
         NEW n \in Nat \ {0}, NEW start \in FreeRuns(n)
  PROVE  p + o # start
<1>1. /\ start \in Int
      /\ \A b \in DOMAIN blocks : b + blocks[b].len <= start \/ start + n <= b
  BY FreeRunIsClear, ObjectsAssumption DEF ObjectsInv
<1>2. HeaderOf(p) \in DOMAIN blocks
  BY DEF ObjectsInv, ObjectsHaveBlocks
<1>3. HeaderOf(p) \in Int /\ blocks[HeaderOf(p)].len \in Int
  BY <1>2 DEF ObjectsInv, BlocksApart
<1>4. p + o \in HeaderOf(p) .. HeaderOf(p) + blocks[HeaderOf(p)].len - 1
  BY ObjectWords
<1> QED
  BY <1>1, <1>2, <1>3, <1>4

\* An object is in place as long as its words are.
LEMMA StaysInPlace ==
  ASSUME ObjectsInv, NEW p \in DOMAIN objects,
         \A o \in -1 .. TypeSlot[objects[p].type].size - 1 : memory'[p + o] = memory[p + o]
  PROVE  /\ memory'[HeaderOf(p)] = Header(objects[p].type)
         /\ \A o \in DOMAIN objects[p].stored : memory'[p + o] = Data(objects[p].stored[o])
<1>1. p \in Int /\ TypeSlot[objects[p].type].size \in Nat
  BY SizesAreNatural DEF ObjectsInv, ObjectsTyped
<1>2. memory'[HeaderOf(p)] = memory[HeaderOf(p)]
  <2>1. -1 \in -1 .. TypeSlot[objects[p].type].size - 1 /\ HeaderOf(p) = p + (-1)
    BY <1>1 DEF HeaderOf, HeaderSize
  <2> QED
    BY <2>1
<1>3. \A o \in DOMAIN objects[p].stored :
        o \in -1 .. TypeSlot[objects[p].type].size - 1
  BY <1>1 DEF ObjectsInv, ObjectsTyped
<1> QED
  BY <1>2, <1>3 DEF ObjectsInv, ObjectsInPlace

\* A block given back through its allocator leaves the others alone.
LEMMA Released ==
  ASSUME ObjectsInv, NEW start \in DOMAIN blocks,
         Release(blocks[start].allocator, start)
  PROVE  /\ blocks' = Without(blocks, start)
         /\ misfreed' = misfreed
         /\ memory' \in [0 .. Memory -> Word]
         /\ \A a \in 0 .. Memory :
              memory'[a] = IF scrubs /\ a \in start .. start + blocks[start].len - 1
                           THEN Blank ELSE memory[a]
<1>1. memory \in [0 .. Memory -> Word] /\ Blank \in Word
  BY WordFacts DEF ObjectsInv, MemoryTyped
<1>2. /\ blocks' = Without(blocks, start)
      /\ misfreed' = misfreed
      /\ memory' = IF scrubs
                   THEN [a \in DOMAIN memory |->
                           IF a \in start .. start + blocks[start].len - 1
                           THEN Blank ELSE memory[a]]
                   ELSE memory
  BY DEF Release
<1> QED
  BY <1>1, <1>2, ObjectsAssumption

-----------------------------------------------------------------------------
\* The invariant holds at the start, and every action of the application
\* keeps it.
LEMMA MemoryStarts == Init => ObjectsInv
<1> SUFFICES ASSUME Init PROVE ObjectsInv
  OBVIOUS
<1>1. MemoryTyped
  BY WordFacts DEF Init, MemoryTyped
<1>2. /\ DOMAIN blocks = {} /\ DOMAIN objects = {} /\ plain = {}
      /\ misfreed = FALSE /\ scrubs \in Scrubs
  BY DEF Init
<1> QED
  BY <1>1, <1>2
  DEF ObjectsInv, BlocksApart, ObjectsTyped, ObjectsHaveBlocks, ObjectsInPlace,
      BlocksOwned, NothingLeaks

\* A new block of a run of free words.
LEMMA BlockAdded ==
  ASSUME BlocksApart, NEW n \in Nat \ {0}, NEW start \in FreeRuns(n),
         NEW allocator \in Allocator,
         blocks' = With(blocks, start, [len |-> n, allocator |-> allocator])
  PROVE  BlocksApart'
<1> DEFINE new == [len |-> n, allocator |-> allocator]
<1>1. Memory \in Nat
  BY ObjectsAssumption
<1>2. /\ start \in 1 .. Memory - n + 1
      /\ start \notin DOMAIN blocks
      /\ \A b \in DOMAIN blocks : b + blocks[b].len <= start \/ start + n <= b
  BY FreeRunIsClear
<1>3. /\ DOMAIN blocks' = {start} \cup DOMAIN blocks
      /\ blocks'[start] = new
      /\ \A b \in DOMAIN blocks : blocks'[b] = blocks[b]
  <2>1. blocks' = With(blocks, start, new)
    OBVIOUS
  <2> HIDE DEF new
  <2> QED
    BY <1>2, <2>1 DEF With
<1>4. start \in 1 .. Memory /\ n \in 1 .. Memory /\ start + n - 1 <= Memory
  BY <1>1, <1>2
<1>5. \A b \in DOMAIN blocks : b \in Int /\ blocks[b].len \in Nat \ {0}
  BY DEF BlocksApart
<1>6. ASSUME NEW b \in DOMAIN blocks'
      PROVE  /\ b \in 1 .. Memory
             /\ blocks'[b] \in [len : 1 .. Memory, allocator : Allocator]
             /\ b + blocks'[b].len - 1 <= Memory
  BY <1>3, <1>4 DEF BlocksApart
<1>7. ASSUME NEW b \in DOMAIN blocks', NEW c \in DOMAIN blocks', b < c
      PROVE  b + blocks'[b].len <= c
  <2>1. CASE b = start /\ c = start
    BY <1>4, <1>7, <2>1
  <2>2. CASE b = start /\ c # start
    BY <1>2, <1>3, <1>4, <1>5, <1>7, <2>2
  <2>3. CASE b # start /\ c = start
    BY <1>2, <1>3, <1>4, <1>5, <1>7, <2>3
  <2>4. CASE b # start /\ c # start
    BY <1>3, <1>7, <2>4 DEF BlocksApart
  <2> QED
    BY <2>1, <2>2, <2>3, <2>4
<1> QED
  BY <1>6, <1>7 DEF BlocksApart

LEMMA BlockRemoved ==
  ASSUME BlocksApart, NEW start, blocks' = Without(blocks, start)
  PROVE  BlocksApart'
<1>1. /\ DOMAIN blocks' \subseteq DOMAIN blocks
      /\ \A b \in DOMAIN blocks' : blocks'[b] = blocks[b]
  BY WithoutFacts, ZenonT(30)
<1> QED
  BY <1>1 DEF BlocksApart

\* reflect_alloc, when the allocator has room.
LEMMA AllocKeepsInv ==
  ASSUME ObjectsInv, Alloc
  PROVE  ObjectsInv'
<1>1. PICK t \in Type \cup {NULL}, allocator \in Allocator : reflect_alloc(t, allocator)
  BY DEF Alloc
<1>2. CASE UNCHANGED vars
  BY <1>2
  DEF vars, ObjectsInv, MemoryTyped, BlocksApart, ObjectsTyped, ObjectsHaveBlocks,
      ObjectsInPlace, BlocksOwned, NothingLeaks
<1>3. CASE ~ UNCHANGED vars
  <2> DEFINE n == AllocSize(t)
  <2>1. PICK start \in FreeRuns(n) :
          /\ t # NULL
          /\ memory' = WriteHeader(start, t)
          /\ blocks' = With(blocks, start, [len |-> n, allocator |-> allocator])
          /\ objects' = With(objects, start + HeaderSize,
                             [type |-> t, allocator |-> allocator, stored |-> <<>>])
          /\ UNCHANGED <<plain, misfreed, scrubs>>
    BY <1>1, <1>3 DEF reflect_alloc
  <2>2. t \in Type /\ n \in Nat \ {0} /\ n = TypeSlot[t].size + 1
    BY <2>1, SizesAreNatural
  <2> DEFINE p == start + 1
             new == [type |-> t, allocator |-> allocator, stored |-> <<>>]
  <2>3. Memory \in Nat /\ start \in 1 .. Memory /\ p \in Int /\ HeaderOf(p) = start
    BY <2>2, FreeRunIsClear, ObjectsAssumption DEF ObjectsInv, HeaderOf, HeaderSize
  <2> HIDE DEF n
  <2>4. /\ start \notin DOMAIN blocks
        /\ \A b \in DOMAIN blocks : b + blocks[b].len <= start \/ start + n <= b
    BY <2>2, FreeRunIsClear DEF ObjectsInv
  <2>5. /\ DOMAIN blocks' = {start} \cup DOMAIN blocks
        /\ blocks'[start] = [len |-> n, allocator |-> allocator]
        /\ \A b \in DOMAIN blocks : blocks'[b] = blocks[b]
    <3> DEFINE block == [len |-> n, allocator |-> allocator]
    <3>1. blocks' = With(blocks, start, block)
      BY <2>1
    <3> HIDE DEF block
    <3>2. /\ DOMAIN blocks' = {start} \cup DOMAIN blocks
          /\ blocks'[start] = block
          /\ \A b \in DOMAIN blocks : blocks'[b] = blocks[b]
      BY <2>4, <3>1 DEF With
    <3> QED
      BY <3>2 DEF block
  <2>6. p \notin DOMAIN objects
    BY <2>3, <2>4 DEF ObjectsInv, ObjectsHaveBlocks
  <2>7. /\ DOMAIN objects' = {p} \cup DOMAIN objects
        /\ objects'[p] = new
        /\ \A q \in DOMAIN objects : objects'[q] = objects[q]
    <3>1. objects' = With(objects, p, new)
      BY <2>1 DEF HeaderSize
    <3> HIDE DEF p, new
    <3> QED
      BY <2>6, <3>1 DEF With
  <2>8. /\ memory' \in [0 .. Memory -> Word]
        /\ memory'[start] = Header(t)
        /\ \A a \in 0 .. Memory : a # start => memory'[a] = memory[a]
    BY <2>1, <2>2, <2>3, WordFacts DEF ObjectsInv, MemoryTyped, WriteHeader
  <2>9. BlocksApart'
    BY <2>1, <2>2, BlockAdded DEF ObjectsInv
  <2>10. ObjectsTyped'
    <3>1. DOMAIN new = {"type", "allocator", "stored"} /\ DOMAIN new.stored = {}
      OBVIOUS
    <3> HIDE DEF new
    <3>2. new.type = t /\ new.allocator = allocator
      BY DEF new
    <3> HIDE DEF p
    <3> QED
      BY <2>2, <2>3, <2>7, <3>1, <3>2 DEF ObjectsInv, ObjectsTyped
  <2>11. ObjectsHaveBlocks'
    <3> SUFFICES ASSUME NEW q \in DOMAIN objects'
                 PROVE  /\ HeaderOf(q) \in DOMAIN blocks'
                        /\ blocks'[HeaderOf(q)].len = AllocSize(objects'[q].type)
                        /\ blocks'[HeaderOf(q)].allocator = objects'[q].allocator
      BY DEF ObjectsHaveBlocks
    <3>1. CASE q = p
      BY <2>3, <2>5, <2>7, <3>1 DEF n
    <3>2. CASE q # p
      BY <2>5, <2>7, <3>2 DEF ObjectsInv, ObjectsHaveBlocks
    <3> QED
      BY <3>1, <3>2
  <2>12. ObjectsInPlace'
    <3> SUFFICES ASSUME NEW q \in DOMAIN objects'
                 PROVE  /\ memory'[HeaderOf(q)] = Header(objects'[q].type)
                        /\ \A o \in DOMAIN objects'[q].stored :
                             memory'[q + o] = Data(objects'[q].stored[o])
      BY DEF ObjectsInPlace
    <3>1. CASE q = p
      BY <2>3, <2>7, <2>8, <3>1
    <3>2. CASE q # p
      <4>1. q \in DOMAIN objects /\ objects'[q] = objects[q] /\ q \in Int
        BY <2>7, <3>2 DEF ObjectsInv, ObjectsTyped
      <4>2. \A o \in -1 .. TypeSlot[objects[q].type].size - 1 :
              memory'[q + o] = memory[q + o]
        BY <2>2, <2>8, <4>1, ObjectWords, WordsNotFree
      <4> QED
        BY <4>1, <4>2, StaysInPlace
    <3> QED
      BY <3>1, <3>2
  <2>13. BlocksOwned'
    <3>1. {HeaderOf(q) : q \in DOMAIN objects'}
            = {start} \cup {HeaderOf(q) : q \in DOMAIN objects}
      BY <2>3, <2>7
    <3>2. start \notin plain
      BY <2>4 DEF ObjectsInv, BlocksOwned
    <3>3. \A q \in DOMAIN objects' : HeaderOf(q) \notin plain'
      BY <2>1, <2>3, <2>7, <3>2 DEF ObjectsInv, BlocksOwned
    <3> QED
      BY <2>1, <2>5, <3>1, <3>3 DEF ObjectsInv, BlocksOwned, NothingLeaks
  <2> QED
    BY <2>1, <2>8, <2>9, <2>10, <2>11, <2>12, <2>13
    DEF ObjectsInv, MemoryTyped
<1> QED
  BY <1>2, <1>3

\* reflect_free finds the header of a live object, so it gives the block back.
LEMMA FreeReleases ==
  ASSUME ObjectsInv, NEW p \in DOMAIN objects,
         reflect_free(p, objects[p].allocator)
  PROVE  Release(blocks[HeaderOf(p)].allocator, HeaderOf(p))
<1>1. memory[HeaderOf(p)].magic = REFLECT_DYNAMIC_ALLOC_MAGIC
  BY WordFacts DEF ObjectsInv, ObjectsInPlace
<1>2. blocks[HeaderOf(p)].allocator = objects[p].allocator
  BY DEF ObjectsInv, ObjectsHaveBlocks
<1> QED
  BY <1>1, <1>2, LiveObject DEF reflect_free

\* An object whose block is not the one given back is as it was.
LEMMA OthersSurvive ==
  ASSUME ObjectsInv, NEW start \in DOMAIN blocks,
         Release(blocks[start].allocator, start),
         NEW p \in DOMAIN objects, HeaderOf(p) # start
  PROVE  /\ HeaderOf(p) \in DOMAIN blocks'
         /\ blocks'[HeaderOf(p)] = blocks[HeaderOf(p)]
         /\ memory'[HeaderOf(p)] = Header(objects[p].type)
         /\ \A o \in DOMAIN objects[p].stored : memory'[p + o] = Data(objects[p].stored[o])
<1>1. HeaderOf(p) \in DOMAIN blocks
  BY DEF ObjectsInv, ObjectsHaveBlocks
<1>2. /\ HeaderOf(p) \in DOMAIN blocks'
      /\ blocks'[HeaderOf(p)] = blocks[HeaderOf(p)]
  <2>1. blocks' = Without(blocks, start)
    BY Released
  <2> QED
    BY <1>1, <2>1, WithoutFacts
<1>3. \A o \in -1 .. TypeSlot[objects[p].type].size - 1 : memory'[p + o] = memory[p + o]
  BY Released, ObjectWords, WordsElsewhere
<1> QED
  BY <1>2, <1>3, StaysInPlace

LEMMA FreeKeepsInv ==
  ASSUME ObjectsInv, Free
  PROVE  ObjectsInv'
<1>1. PICK p \in DOMAIN objects :
        /\ reflect_free(p, objects[p].allocator)
        /\ objects' = Without(objects, p)
        /\ UNCHANGED <<plain, scrubs>>
  BY DEF Free
<1> DEFINE start == HeaderOf(p)
<1>2. start \in DOMAIN blocks /\ Release(blocks[start].allocator, start)
  BY <1>1, FreeReleases DEF ObjectsInv, ObjectsHaveBlocks
<1>3. /\ DOMAIN objects' = DOMAIN objects \ {p}
      /\ \A q \in DOMAIN objects' : objects'[q] = objects[q] /\ q \in DOMAIN objects
  BY <1>1, WithoutFacts, ZenonT(30)
<1>4. \A q \in DOMAIN objects' : HeaderOf(q) # start
  <2>1. \A q \in DOMAIN objects : q \in Int
    BY DEF ObjectsInv, ObjectsTyped
  <2> QED
    BY <2>1, <1>3 DEF HeaderOf, HeaderSize
<1>5. /\ blocks' = Without(blocks, start)
      /\ misfreed' = misfreed
      /\ memory' \in [0 .. Memory -> Word]
  BY <1>2, Released
<1>6. BlocksApart'
  BY <1>5, BlockRemoved DEF ObjectsInv
<1>7. ObjectsTyped'
  BY <1>3 DEF ObjectsInv, ObjectsTyped
<1>8. ObjectsHaveBlocks'
  BY <1>2, <1>3, <1>4, OthersSurvive DEF ObjectsInv, ObjectsHaveBlocks
<1>9. ObjectsInPlace'
  BY <1>2, <1>3, <1>4, OthersSurvive DEF ObjectsInPlace
<1>10. BlocksOwned'
  <2>1. DOMAIN blocks' = DOMAIN blocks \ {start}
    BY <1>5, WithoutFacts
  <2>2. \A b \in DOMAIN blocks' : blocks'[b] = blocks[b]
    BY <1>5, WithoutFacts
  <2>3. {HeaderOf(q) : q \in DOMAIN objects'}
          = {HeaderOf(q) : q \in DOMAIN objects} \ {start}
    BY <1>3, <1>4
  <2>4. start \notin plain
    BY DEF ObjectsInv, BlocksOwned
  <2> QED
    BY <1>1, <1>3, <2>1, <2>2, <2>3, <2>4 DEF ObjectsInv, BlocksOwned, NothingLeaks
<1> QED
  BY <1>1, <1>5, <1>6, <1>7, <1>8, <1>9, <1>10 DEF ObjectsInv, MemoryTyped

\* A store through a field writes inside of the object only.
LEMMA StoreFieldKeepsInv ==
  ASSUME ObjectsInv, StoreField
  PROVE  ObjectsInv'
<1>1. PICK p \in DOMAIN objects, name \in Name, v \in Value :
        /\ HasFields(objects[p].type)
        /\ reflect_get_field(p, name) # NULL
        /\ reflect_get_field(p, name) - p < TypeSlot[objects[p].type].size
        /\ memory' = [memory EXCEPT ![reflect_get_field(p, name)] = Data(v)]
        /\ objects' = [objects EXCEPT ![p].stored =
                         With(@, reflect_get_field(p, name) - p, v)]
        /\ UNCHANGED <<blocks, plain, misfreed, scrubs>>
  BY DEF StoreField
<1> DEFINE address == reflect_get_field(p, name)
           at == address - p
           new == With(objects[p].stored, at, v)
<1>2. TypeSlot[objects[p].type].size \in Nat /\ p \in 2 .. Memory + 1
  BY LiveObject, SizesAreNatural DEF ObjectsInv, ObjectsTyped
<1>3. address \in p .. p + TypeSlot[objects[p].type].size - 1
  <2>1. address \in p .. p + TypeSlot[objects[p].type].size
    BY <1>1, LiveObject
  <2> QED
    BY <1>1, <1>2, <2>1
<1>4. /\ at \in 0 .. TypeSlot[objects[p].type].size - 1
      /\ address \in 1 .. Memory /\ address = p + at /\ address >= p
  <2>1. at \in 0 .. TypeSlot[objects[p].type].size - 1 /\ address = p + at /\ address >= p
    BY <1>2, <1>3
  <2>2. address \in 1 .. Memory
    BY <1>2, <1>3, LiveObject, ObjectsAssumption
  <2> QED
    BY <2>1, <2>2
<1>5. /\ memory' \in [0 .. Memory -> Word]
      /\ memory'[address] = Data(v)
      /\ \A a \in 0 .. Memory : a # address => memory'[a] = memory[a]
  BY <1>1, <1>4, WordFacts DEF ObjectsInv, MemoryTyped
<1>6. /\ DOMAIN new = {at} \cup DOMAIN objects[p].stored
      /\ new[at] = v
      /\ \A o \in DOMAIN objects[p].stored : o # at => new[o] = objects[p].stored[o]
  BY DEF With
<1>7. /\ DOMAIN objects' = DOMAIN objects
      /\ \A q \in DOMAIN objects : q # p => objects'[q] = objects[q]
      /\ objects'[p] = [objects[p] EXCEPT !.stored = new]
  BY <1>1
<1> HIDE DEF new, address, at
<1>8. /\ DOMAIN objects'[p] = DOMAIN objects[p]
      /\ objects'[p].type = objects[p].type
      /\ objects'[p].allocator = objects[p].allocator
      /\ objects'[p].stored = new
  BY <1>7 DEF ObjectsInv, ObjectsTyped
<1>9. BlocksApart'
  BY <1>1 DEF ObjectsInv, BlocksApart
<1>10. ObjectsTyped'
  BY <1>4, <1>6, <1>7, <1>8 DEF ObjectsInv, ObjectsTyped
<1>11. ObjectsHaveBlocks'
  BY <1>1, <1>7, <1>8 DEF ObjectsInv, ObjectsHaveBlocks
<1>12. ObjectsInPlace'
  <2> SUFFICES ASSUME NEW q \in DOMAIN objects
               PROVE  /\ memory'[HeaderOf(q)] = Header(objects'[q].type)
                      /\ \A o \in DOMAIN objects'[q].stored :
                           memory'[q + o] = Data(objects'[q].stored[o])
    BY <1>7 DEF ObjectsInPlace
  <2>1. CASE q = p
    <3>1. HeaderOf(p) = p - 1 /\ p \in Int /\ address \in Int
      BY <1>2, <1>4 DEF HeaderOf, HeaderSize
    <3>2. HeaderOf(p) \in 0 .. Memory /\ HeaderOf(p) # address
      BY <1>2, <1>4, <3>1, ObjectsAssumption
    <3>3. memory'[HeaderOf(p)] = Header(objects'[p].type)
      BY <1>5, <1>8, <3>2 DEF ObjectsInv, ObjectsInPlace
    <3>4. ASSUME NEW o \in DOMAIN new
          PROVE  memory'[p + o] = Data(new[o])
      <4>1. CASE o = at
        BY <1>4, <1>5, <1>6, <4>1
      <4>2. CASE o # at
        <5>1. o \in DOMAIN objects[p].stored /\ new[o] = objects[p].stored[o]
          BY <1>6, <4>2
        <5>2. o \in 0 .. TypeSlot[objects[p].type].size - 1
          BY <5>1 DEF ObjectsInv, ObjectsTyped
        <5>3. p + o \in 1 .. Memory /\ p + o # address
          BY <1>2, <1>4, <4>2, <5>2, ObjectWords
        <5> QED
          BY <1>5, <5>1, <5>3 DEF ObjectsInv, ObjectsInPlace
      <4> QED
        BY <4>1, <4>2
    <3> QED
      BY <1>8, <2>1, <3>3, <3>4
  <2>2. CASE q # p
    <3>1. HeaderOf(p) \in DOMAIN blocks /\ HeaderOf(p) # HeaderOf(q)
      BY <2>2 DEF ObjectsInv, ObjectsTyped, ObjectsHaveBlocks, HeaderOf, HeaderSize
    <3>2. address \in HeaderOf(p) .. HeaderOf(p) + blocks[HeaderOf(p)].len - 1
      BY <1>2, <1>4, ObjectWords
    <3>3. \A o \in -1 .. TypeSlot[objects[q].type].size - 1 : memory'[q + o] = memory[q + o]
      BY <1>5, <3>1, <3>2, ObjectWords, WordsElsewhere
    <3>4. objects'[q] = objects[q]
      BY <1>7, <2>2
    <3> QED
      BY <3>3, <3>4, StaysInPlace
  <2> QED
    BY <2>1, <2>2
<1>13. BlocksOwned'
  BY <1>1, <1>7 DEF ObjectsInv, BlocksOwned, NothingLeaks
<1> QED
  BY <1>1, <1>5, <1>9, <1>10, <1>11, <1>12, <1>13
  DEF ObjectsInv, MemoryTyped

LEMMA AllocPlainKeepsInv ==
  ASSUME ObjectsInv, AllocPlain
  PROVE  ObjectsInv'
<1>1. PICK allocator \in Allocator, v \in Value, start \in FreeRuns(1) :
        /\ blocks' = With(blocks, start, [len |-> 1, allocator |-> allocator])
        /\ memory' = [memory EXCEPT ![start] = Data(v)]
        /\ plain' = plain \cup {start}
        /\ UNCHANGED <<objects, misfreed, scrubs>>
  BY DEF AllocPlain
<1>2. start \in 1 .. Memory /\ start \notin DOMAIN blocks
  BY FreeRunIsClear, ObjectsAssumption DEF ObjectsInv
<1>3. /\ DOMAIN blocks' = {start} \cup DOMAIN blocks
      /\ blocks'[start].len = 1
      /\ \A b \in DOMAIN blocks : blocks'[b] = blocks[b]
  BY <1>1, <1>2 DEF With
<1>4. /\ memory' \in [0 .. Memory -> Word]
      /\ \A a \in 0 .. Memory : a # start => memory'[a] = memory[a]
  BY <1>1, <1>2, WordFacts DEF ObjectsInv, MemoryTyped
<1>5. BlocksApart'
  BY <1>1, BlockAdded DEF ObjectsInv
<1>6. ObjectsTyped'
  BY <1>1 DEF ObjectsInv, ObjectsTyped
<1>7. ObjectsHaveBlocks'
  BY <1>1, <1>3 DEF ObjectsInv, ObjectsHaveBlocks
<1>8. ObjectsInPlace'
  <2>1. ASSUME NEW p \in DOMAIN objects
        PROVE  \A o \in -1 .. TypeSlot[objects[p].type].size - 1 :
                 memory'[p + o] = memory[p + o]
    BY <1>4, ObjectWords, WordsNotFree
  <2> QED
    BY <1>1, <2>1, StaysInPlace DEF ObjectsInPlace
<1>9. BlocksOwned'
  <2>1. \A p \in DOMAIN objects : HeaderOf(p) # start
    BY <1>2 DEF ObjectsInv, ObjectsHaveBlocks
  <2> QED
    BY <1>1, <1>3, <2>1 DEF ObjectsInv, BlocksOwned, NothingLeaks
<1> QED
  BY <1>1, <1>4, <1>5, <1>6, <1>7, <1>8, <1>9 DEF ObjectsInv, MemoryTyped

LEMMA FreePlainKeepsInv ==
  ASSUME ObjectsInv, FreePlain
  PROVE  ObjectsInv'
<1>1. PICK start \in plain :
        /\ Release(blocks[start].allocator, start)
        /\ plain' = plain \ {start}
        /\ UNCHANGED <<objects, scrubs>>
  BY DEF FreePlain
<1>2. start \in DOMAIN blocks /\ blocks[start].len = 1
  BY DEF ObjectsInv, BlocksOwned
<1>3. \A p \in DOMAIN objects : HeaderOf(p) # start
  BY DEF ObjectsInv, BlocksOwned
<1>4. /\ blocks' = Without(blocks, start)
      /\ misfreed' = misfreed
      /\ memory' \in [0 .. Memory -> Word]
  BY <1>1, <1>2, Released
<1>5. BlocksApart'
  BY <1>4, BlockRemoved DEF ObjectsInv
<1>6. ObjectsTyped'
  BY <1>1 DEF ObjectsInv, ObjectsTyped
<1>7. ObjectsHaveBlocks'
  BY <1>1, <1>2, <1>3, OthersSurvive DEF ObjectsInv, ObjectsHaveBlocks
<1>8. ObjectsInPlace'
  BY <1>1, <1>2, <1>3, OthersSurvive DEF ObjectsInPlace
<1>9. BlocksOwned'
  <2>1. DOMAIN blocks' = DOMAIN blocks \ {start}
    BY <1>4, WithoutFacts
  <2>2. \A b \in DOMAIN blocks' : blocks'[b] = blocks[b]
    BY <1>4, WithoutFacts
  <2>3. start \notin {HeaderOf(p) : p \in DOMAIN objects}
    BY <1>3
  <2> QED
    BY <1>1, <2>1, <2>2, <2>3 DEF ObjectsInv, BlocksOwned, NothingLeaks
<1> QED
  BY <1>1, <1>4, <1>5, <1>6, <1>7, <1>8, <1>9 DEF ObjectsInv, MemoryTyped

\* The word before plain data that does not begin at the pointer of an object
\* is no header, so reflect_free leaves the data alone.
LEMMA PlainIsUnmarked ==
  ASSUME CleanInv, scrubs, NEW s \in plain, s \notin DOMAIN objects
  PROVE  memory[HeaderOf(s)].magic # REFLECT_DYNAMIC_ALLOC_MAGIC
<1>1. s \in DOMAIN blocks /\ s \in 1 .. Memory
  BY DEF CleanInv, ObjectsInv, BlocksOwned, BlocksApart
<1>2. HeaderOf(s) \in 0 .. Memory /\ HeaderOf(s) + HeaderSize = s
  BY <1>1, ObjectsAssumption DEF HeaderOf, HeaderSize
<1> QED
  BY <1>2 DEF CleanInv, MagicMarksObjects

LEMMA FreeOtherIsIdle ==
  ASSUME CleanInv, FreeOther
  PROVE  UNCHANGED vars
BY PlainIsUnmarked DEF FreeOther, reflect_free, vars

LEMMA NextKeepsMarks ==
  ASSUME scrubs, CleanInv, Next
  PROVE  MagicMarksObjects'
<1> SUFFICES ASSUME NEW a \in 0 .. Memory,
                    memory'[a].magic = REFLECT_DYNAMIC_ALLOC_MAGIC
             PROVE  a + 1 \in DOMAIN objects'
  BY DEF MagicMarksObjects, HeaderSize
<1>1. /\ memory \in [0 .. Memory -> Word]
      /\ memory[a].magic = REFLECT_DYNAMIC_ALLOC_MAGIC => a + 1 \in DOMAIN objects
  BY DEF CleanInv, ObjectsInv, MemoryTyped, MagicMarksObjects, HeaderSize
<1>2. CASE Alloc
  <2>1. PICK t \in Type \cup {NULL}, allocator \in Allocator : reflect_alloc(t, allocator)
    BY <1>2 DEF Alloc
  <2>2. CASE UNCHANGED vars
    BY <1>1, <2>2 DEF vars
  <2>3. CASE ~ UNCHANGED vars
    <3>1. PICK start \in FreeRuns(AllocSize(t)) :
            /\ memory' = WriteHeader(start, t)
            /\ objects' = With(objects, start + HeaderSize,
                               [type |-> t, allocator |-> allocator, stored |-> <<>>])
      BY <2>1, <2>3 DEF reflect_alloc
    <3>2. DOMAIN objects' = {start + 1} \cup DOMAIN objects
      BY <3>1 DEF With, HeaderSize
    <3>3. a # start => memory'[a] = memory[a]
      BY <1>1, <3>1 DEF WriteHeader
    <3> QED
      BY <1>1, <3>2, <3>3
  <2> QED
    BY <2>2, <2>3
<1>3. CASE Free
  <2>1. PICK p \in DOMAIN objects :
          /\ reflect_free(p, objects[p].allocator)
          /\ objects' = Without(objects, p)
    BY <1>3 DEF Free
  <2> DEFINE start == HeaderOf(p)
  <2>2. start \in DOMAIN blocks /\ Release(blocks[start].allocator, start)
    BY <2>1, FreeReleases DEF CleanInv, ObjectsInv, ObjectsHaveBlocks
  <2>3. DOMAIN objects' = DOMAIN objects \ {p}
    BY <2>1, WithoutFacts
  <2>4. memory'[a] = IF a \in start .. start + blocks[start].len - 1
                     THEN Blank ELSE memory[a]
    BY <2>2, Released DEF CleanInv
  <2>5. a \notin start .. start + blocks[start].len - 1 /\ memory'[a] = memory[a]
    BY <2>4, WordFacts
  <2>6. start \in start .. start + blocks[start].len - 1
    BY <2>2 DEF CleanInv, ObjectsInv, BlocksApart
  <2>7. a # start /\ p \in Int /\ start = p - 1
    BY <2>5, <2>6 DEF CleanInv, ObjectsInv, ObjectsTyped, HeaderOf, HeaderSize
  <2>8. a + 1 # p
    BY <2>7
  <2> QED
    BY <1>1, <2>3, <2>5, <2>8
<1>4. CASE StoreField
  <2>1. PICK address, v :
          /\ memory' = [memory EXCEPT ![address] = Data(v)]
          /\ DOMAIN objects' = DOMAIN objects
    BY <1>4 DEF StoreField
  <2>2. memory'[a] = Data(v) \/ memory'[a] = memory[a]
    BY <1>1, <2>1
  <2> QED
    BY <1>1, <2>1, <2>2, WordFacts
<1>5. CASE AllocPlain
  <2>1. PICK start, v :
          /\ memory' = [memory EXCEPT ![start] = Data(v)]
          /\ objects' = objects
    BY <1>5 DEF AllocPlain
  <2>2. memory'[a] = Data(v) \/ memory'[a] = memory[a]
    BY <1>1, <2>1
  <2> QED
    BY <1>1, <2>1, <2>2, WordFacts
<1>6. CASE FreePlain
  <2>1. PICK start \in plain :
          /\ Release(blocks[start].allocator, start)
          /\ objects' = objects
    BY <1>6 DEF FreePlain
  <2>2. start \in DOMAIN blocks
    BY DEF CleanInv, ObjectsInv, BlocksOwned
  <2>3. memory'[a] = Blank \/ memory'[a] = memory[a]
    BY <2>1, <2>2, Released DEF CleanInv
  <2> QED
    BY <1>1, <2>1, <2>3, WordFacts
<1>7. CASE FreeOther
  BY <1>1, <1>7, FreeOtherIsIdle DEF vars
<1> QED
  BY <1>2, <1>3, <1>4, <1>5, <1>6, <1>7 DEF Next

LEMMA NextKeepsInv == CleanInv /\ [Next]_vars => CleanInv'
<1>1. ASSUME CleanInv, UNCHANGED vars
      PROVE  CleanInv'
  BY <1>1
  DEF vars, CleanInv, ObjectsInv, MemoryTyped, BlocksApart, ObjectsTyped,
      ObjectsHaveBlocks, ObjectsInPlace, BlocksOwned, NothingLeaks, MagicMarksObjects
<1>2. ASSUME CleanInv, Next, ~ FreeOther
      PROVE  CleanInv'
  <2>1. ObjectsInv'
    BY <1>2, AllocKeepsInv, FreeKeepsInv, StoreFieldKeepsInv, AllocPlainKeepsInv,
       FreePlainKeepsInv
    DEF Next, CleanInv
  <2>2. scrubs' = scrubs
    BY <1>2 DEF Next, Alloc, reflect_alloc, Free, StoreField, AllocPlain, FreePlain, vars
  <2> QED
    BY <1>2, <2>1, <2>2, NextKeepsMarks DEF CleanInv
<1> QED
  BY <1>1, <1>2, FreeOtherIsIdle

LEMMA ObjectsStart == Init => CleanInv
<1> SUFFICES ASSUME Init PROVE CleanInv
  OBVIOUS
<1>1. MagicMarksObjects
  BY WordFacts DEF Init, MagicMarksObjects
<1> QED
  BY <1>1, MemoryStarts DEF CleanInv

-----------------------------------------------------------------------------
\* What the application may rely on, whatever it allocates, stores and frees,
\* in whatever order and in memory of any size.

THEOREM ObjectsInvariant == Spec => []CleanInv
BY ObjectsStart, NextKeepsInv, PTL DEF Spec

\* The variables have their types.
THEOREM TypeCorrect == Spec => []TypeOK
<1>1. CleanInv => TypeOK
  <2> SUFFICES ASSUME ObjectsInv PROVE TypeOK
    BY DEF CleanInv
  <2>1. /\ DOMAIN memory = 0 .. Memory
        /\ \A a \in DOMAIN memory :
             memory[a] \in {Header(t) : t \in Type} \cup {Data(v) : v \in Value \cup {NULL}}
    BY DEF ObjectsInv, MemoryTyped, Word
  <2>2. plain \subseteq 1 .. Memory /\ misfreed \in BOOLEAN
    BY DEF ObjectsInv, BlocksOwned, BlocksApart
  <2> QED
    BY <2>1, <2>2 DEF TypeOK, ObjectsInv, BlocksApart, ObjectsTyped
<1> QED
  BY <1>1, ObjectsInvariant, PTL

\* No header is ever overwritten: reflect_get_type_info answers, for every
\* live object, the type it was allocated with (reflect.c:236-243).
THEOREM TypesAreKept == Spec => []ObjectKeepsType
<1>1. CleanInv => ObjectKeepsType
  BY LiveObject DEF CleanInv, ObjectKeepsType
<1> QED
  BY <1>1, ObjectsInvariant, PTL

\* What was stored through a field of a live object is found there by both
\* field functions (reflect.c:261-289), until the same place is stored to again.
THEOREM StoresAreKept == Spec => []StoredValuesStay
<1>1. CleanInv => StoredValuesStay
  <2> SUFFICES ASSUME ObjectsInv, NEW p \in DOMAIN objects, NEW name \in Name,
                      HasFields(objects[p].type)
               PROVE  LET address == reflect_get_field(p, name)
                      IN  /\ address = reflect_get_field_manual(p, name, objects[p].type)
                          /\ address # NULL /\ address - p \in DOMAIN objects[p].stored =>
                               memory[address] = Data(objects[p].stored[address - p])
    BY DEF CleanInv, StoredValuesStay
  <2> DEFINE address == reflect_get_field(p, name)
  <2>1. address = reflect_get_field_manual(p, name, objects[p].type)
    BY LiveObject
  <2>2. ASSUME address # NULL, address - p \in DOMAIN objects[p].stored
        PROVE  memory[address] = Data(objects[p].stored[address - p])
    <3>1. /\ address \in p .. p + TypeSlot[objects[p].type].size
          /\ p \in 2 .. Memory + 1
          /\ TypeSlot[objects[p].type].size \in Nat
      BY <2>2, LiveObject, SizesAreNatural DEF ObjectsInv, ObjectsTyped
    <3> HIDE DEF address
    <3>2. p + (address - p) = address
      BY <3>1
    <3> QED
      BY <2>2, <3>2 DEF ObjectsInv, ObjectsInPlace
  <2> QED
    BY <2>1, <2>2
<1> QED
  BY <1>1, ObjectsInvariant, PTL

\* An allocator is given back what it handed out, and nothing else, although
\* NULL and plain data are handed to reflect_free as well (reflect.c:247-258).
THEOREM FreesAreMatched == Spec => []AllocatorsKept
<1>1. CleanInv => AllocatorsKept
  BY DEF CleanInv, ObjectsInv, AllocatorsKept
<1> QED
  BY <1>1, ObjectsInvariant, PTL

\* Every block in use has a live object or plain data of the application.
THEOREM NoBlockLeaks == Spec => []NothingLeaks
<1>1. CleanInv => NothingLeaks
  BY DEF CleanInv, ObjectsInv, BlocksOwned
<1> QED
  BY <1>1, ObjectsInvariant, PTL

\* When released memory is cleared, plain data is taken for an object exactly
\* when a live object without a size ends where the data begins
\* (reflect.c:215-225).
THEOREM PlainDataTold == Spec => []PlainDataIsTold
<1>1. CleanInv => PlainDataIsTold
  <2> SUFFICES ASSUME CleanInv, scrubs, NEW p \in plain
               PROVE  reflect_get_type_info(p) =
                        IF p \in DOMAIN objects THEN objects[p].type ELSE NULL
    BY DEF PlainDataIsTold
  <2>1. CASE p \in DOMAIN objects
    BY <2>1, LiveObject DEF CleanInv
  <2>2. CASE p \notin DOMAIN objects
    BY <2>2, PlainIsUnmarked DEF reflect_get_type_info
  <2> QED
    BY <2>1, <2>2
<1> QED
  BY <1>1, ObjectsInvariant, PTL
=============================================================================
