--------------------------- MODULE VisitorProofs ---------------------------
(***************************************************************************)
(* Proofs about the visitor, for every unit that clang may show it.        *)
(*                                                                         *)
(* The definitions below take the unit, the place in it and the pending    *)
(* aliases as arguments, to be used of a state and of the next one.        *)
(*                                                                         *)
(* The last part is about the recursion over nested records.  That it has  *)
(* a value, and what holds of all it lists, is by induction on the way     *)
(* records are nested (RecordInduction).                                   *)
(***************************************************************************)
EXTENDS Visitor, DataProofs, FiniteSetTheorems

\* The typedef names given to a tag by the declarations before n.
TypedefsBefore(u, n, tag) ==
  {u.decls[i].name : i \in {i \in 1 .. n - 1 : u.decls[i].kind = "typedef"
                                                /\ u.decls[i].tag = tag}}

\* A definition of a tag is one of the declarations before n.
DefinedBefore(u, n, tag) ==
  \E i \in DOMAIN u.decls :
    /\ i < n
    /\ u.decls[i].kind \in {"record", "enum"}
    /\ u.decls[i].complete
    /\ u.decls[i].tag = tag

PendingOf(pending, tag) == IF tag \in DOMAIN pending THEN pending[tag] ELSE <<>>

PendingFits(pending, u) ==
  /\ DOMAIN pending \subseteq DOMAIN u.tags
  /\ \A tag \in DOMAIN pending : IsList(pending[tag])

\* A type is that of a definition before n; the typedef names given to its
\* tag before n are its aliases already, or pending.
TypeFits(d, u, n, pending) ==
  /\ {"tag", "type", "name", "aliases"} \subseteq DOMAIN d
  /\ d.tag \in DOMAIN u.tags
  /\ d.type = u.tags[d.tag].type
  /\ DefinedBefore(u, n, d.tag)
  /\ IsList(d.aliases)
  /\ NoRepeats(d.aliases)
  /\ ToSet(d.aliases) \cup ToSet(PendingOf(pending, d.tag)) = TypedefsBefore(u, n, d.tag)

\* A list of such types, each tag once.
TypesFit(types, u, n, pending) ==
  /\ IsList(types)
  /\ \A k \in DOMAIN types : TypeFits(types[k], u, n, pending)
  /\ \A j, k \in DOMAIN types : types[j].tag = types[k].tag => j = k

TagsOf(types) == {types[k].tag : k \in DOMAIN types}

\* Where the traversal is.
PlaceInv ==
  /\ unit \in Units
  /\ next \in 1 .. Len(unit.decls) + 1
  /\ output # <<>> => next = Len(unit.decls) + 1

\* What is visited, and what is known of the tags that are not yet.
AliasInv ==
  /\ PlaceInv
  /\ PendingFits(PendingAliases, unit)
  /\ TypesFit(Results, unit, next, PendingAliases)
  /\ TypesFit(EnumResults, unit, next, PendingAliases)
  /\ \A k \in DOMAIN Results : Results[k].type \in {"struct", "union"}
  /\ \A k \in DOMAIN EnumResults : EnumResults[k].type = "enum"
  /\ next <= Len(unit.decls) =>
       \A tag \in DOMAIN unit.tags \ (TagsOf(Results) \cup TagsOf(EnumResults)) :
         ToSet(PendingOf(PendingAliases, tag)) = TypedefsBefore(unit, next, tag)
  /\ output # <<>> => PendingAliases = <<>>

-----------------------------------------------------------------------------
\* Units.

LEMMA UnitFacts ==
  ASSUME NEW u \in Units
  PROVE  /\ Len(u.decls) \in Nat /\ DOMAIN u.decls = 1 .. Len(u.decls)
         /\ \A tag \in DOMAIN u.tags :
              /\ u.tags[tag].type \in {"struct", "union", "enum"}
              /\ u.tags[tag].size \in Nat
              /\ Len(u.tags[tag].fields) \in Nat
              /\ DOMAIN u.tags[tag].fields = 1 .. Len(u.tags[tag].fields)
BY UnitsAssumption

\* What the next declaration adds to the typedef names of a tag.
LEMMA TypedefsGrow ==
  ASSUME NEW u, NEW n \in Nat \ {0}, NEW tag
  PROVE  /\ u.decls[n].kind = "typedef" /\ u.decls[n].tag = tag =>
              TypedefsBefore(u, n + 1, tag) = TypedefsBefore(u, n, tag) \cup {u.decls[n].name}
         /\ ~ (u.decls[n].kind = "typedef" /\ u.decls[n].tag = tag) =>
              TypedefsBefore(u, n + 1, tag) = TypedefsBefore(u, n, tag)
<1>1. (n + 1) - 1 = n /\ 1 .. n = (1 .. n - 1) \cup {n}
  OBVIOUS
<1> DEFINE P(i) == u.decls[i].kind = "typedef" /\ u.decls[i].tag = tag
           name(i) == u.decls[i].name
<1>2. TypedefsBefore(u, n, tag) = {name(i) : i \in {i \in 1 .. n - 1 : P(i)}}
  BY DEF TypedefsBefore
<1>3. TypedefsBefore(u, n + 1, tag) = {name(i) : i \in {i \in 1 .. n : P(i)}}
  BY <1>1 DEF TypedefsBefore
<1> HIDE DEF P, name
<1>4. P(n) => TypedefsBefore(u, n + 1, tag) = TypedefsBefore(u, n, tag) \cup {name(n)}
  BY <1>1, <1>2, <1>3
<1>5. ~P(n) => TypedefsBefore(u, n + 1, tag) = TypedefsBefore(u, n, tag)
  BY <1>1, <1>2, <1>3
<1> QED
  BY <1>4, <1>5 DEF P, name

\* Before the first declaration there is none; after the last, all are there.
LEMMA TypedefsAll ==
  ASSUME NEW u \in Units, NEW tag
  PROVE  /\ TypedefsBefore(u, 1, tag) = {}
         /\ u = unit => TypedefsBefore(u, Len(u.decls) + 1, tag) = TypedefsOf(tag)
<1>1. Len(u.decls) \in Nat /\ DOMAIN u.decls = 1 .. Len(u.decls)
  BY UnitFacts
<1>2. TypedefsBefore(u, 1, tag) = {}
  BY DEF TypedefsBefore
<1>3. ASSUME u = unit
      PROVE  TypedefsBefore(u, Len(u.decls) + 1, tag) = TypedefsOf(tag)
  <2>1. 1 .. Len(u.decls) + 1 - 1 = DOMAIN u.decls
    BY <1>1
  <2>2. TypedefsBefore(u, Len(u.decls) + 1, tag) =
          {u.decls[i].name : i \in {i \in DOMAIN u.decls : u.decls[i].kind = "typedef"
                                                           /\ u.decls[i].tag = tag}}
    BY <2>1 DEF TypedefsBefore
  <2>3. TypedefsOf(tag) =
          {d.name : d \in {d \in {u.decls[i] : i \in DOMAIN u.decls} :
                             d.kind = "typedef" /\ d.tag = tag}}
    BY <1>3 DEF TypedefsOf, ToSet
  <2> QED
    BY <2>2, <2>3
<1> QED
  BY <1>2, <1>3

\* A declaration that defines a tag is the first to do so.
LEMMA DefinedOnce ==
  ASSUME NEW u \in Units, NEW n \in DOMAIN u.decls,
         u.decls[n].kind \in {"record", "enum"}, u.decls[n].complete
  PROVE  ~DefinedBefore(u, n, u.decls[n].tag)
<1>1. n \in Nat
  BY UnitFacts
<1> QED
  BY <1>1, UnitsAssumption DEF DefinedBefore

LEMMA DefinedStays ==
  ASSUME NEW u \in Units, NEW n \in Nat, NEW tag, DefinedBefore(u, n, tag)
  PROVE  DefinedBefore(u, n + 1, tag)
<1>1. \A i \in DOMAIN u.decls : i \in Nat
  BY UnitFacts
<1> QED
  BY <1>1 DEF DefinedBefore

-----------------------------------------------------------------------------
\* Aliases.

\* AddMissing adds what is missing and nothing twice.
LEMMA MissingAdded ==
  ASSUME NEW aliases, IsList(aliases), NoRepeats(aliases), NEW more, IsList(more)
  PROVE  /\ IsList(AddMissing(aliases, more))
         /\ NoRepeats(AddMissing(aliases, more))
         /\ ToSet(AddMissing(aliases, more)) = ToSet(aliases) \cup ToSet(more)
<1> DEFINE n == Len(more)
           T == ToSet(aliases) \cup ToSet(more)
           S == Seq(T)
           step == [k \in 1 .. n |-> [s \in S |-> AddAlias(s, more[k])]]
           all == CHOOSE f : f = [k \in 0 .. Len(more) |->
                    IF k = 0 THEN aliases ELSE AddAlias(f[k - 1], more[k])]
           added(k) == {more[j] : j \in 1 .. k}
<1>1. n \in Nat /\ DOMAIN more = 1 .. n
  BY ListFacts
<1>2. aliases \in S
  <2>1. Len(aliases) \in Nat /\ DOMAIN aliases = 1 .. Len(aliases)
        /\ aliases = [k \in 1 .. Len(aliases) |-> aliases[k]]
    BY ListFacts DEF IsList
  <2>2. \A k \in 1 .. Len(aliases) : aliases[k] \in T
    BY <2>1 DEF ToSet
  <2> HIDE DEF T
  <2> QED
    BY <2>1, <2>2
<1>3. \A k \in 1 .. n : more[k] \in T
  BY <1>1 DEF ToSet
<1> HIDE DEF T
<1>4. ASSUME NEW s \in S, NEW alias \in T
      PROVE  AddAlias(s, alias) \in S
  BY <1>4 DEF AddAlias
<1> HIDE DEF S, n
<1>5. step \in [1 .. n -> [S -> S]]
  BY <1>3, <1>4
<1>6. PICK f : IsLoop(f, n, S, aliases, step)
  <2> HIDE DEF step
  <2> QED
    BY <1>1, <1>2, <1>5, LoopIsDefined
<1>7. \A k \in 1 .. n : f[k] = AddAlias(f[k - 1], more[k])
  <2> SUFFICES ASSUME NEW k \in 1 .. n PROVE f[k] = AddAlias(f[k - 1], more[k])
    OBVIOUS
  <2>1. k - 1 \in 0 .. n
    BY <1>1
  <2>2. f[k - 1] \in S /\ f[k] = step[k][f[k - 1]]
    BY <1>6, <2>1 DEF IsLoop
  <2> QED
    BY <2>2
<1>8. f = [k \in 0 .. Len(more) |-> IF k = 0 THEN aliases ELSE AddAlias(f[k - 1], more[k])]
  BY <1>1, <1>6, <1>7 DEF IsLoop, n
<1>9. all = [k \in 0 .. Len(more) |->
               IF k = 0 THEN aliases ELSE AddAlias(all[k - 1], more[k])]
  BY <1>8
<1>10. AddMissing(aliases, more) = all[n]
  BY DEF AddMissing, n
<1> HIDE DEF all
<1>11. all[0] = aliases /\ \A k \in 1 .. n : all[k] = AddAlias(all[k - 1], more[k])
  BY <1>1, <1>9 DEF n
<1> DEFINE Good(k) == /\ all[k] \in S
                      /\ NoRepeats(all[k])
                      /\ ToSet(all[k]) = ToSet(aliases) \cup added(k)
           K == {k \in 0 .. n : Good(k)}
<1>12. 0 .. n \subseteq K
  <2>1. 0 \in K
    <3>1. added(0) = {}
      OBVIOUS
    <3> QED
      BY <1>1, <1>2, <1>11, <3>1
  <2>2. ASSUME NEW k \in 1 .. n, k - 1 \in K
        PROVE  k \in K
    <3> DEFINE s == all[k - 1]
               alias == more[k]
    <3>1. s \in S /\ NoRepeats(s) /\ ToSet(s) = ToSet(aliases) \cup added(k - 1)
      BY <2>2
    <3>2. added(k) = added(k - 1) \cup {alias}
      <4>1. 1 .. k = (1 .. k - 1) \cup {k}
        BY <1>1
      <4> QED
        BY <4>1
    <3>3. all[k] = AddAlias(s, alias) /\ alias \in T
      BY <1>3, <1>11
    <3> HIDE DEF s, alias, added
    <3>4. AddAlias(s, alias) \in S
      BY <1>4, <3>1, <3>3
    <3>5. /\ Len(s) \in Nat /\ DOMAIN s = 1 .. Len(s)
      BY <3>1 DEF S
    <3>6. CASE Contains(s, alias)
      <4>1. AddAlias(s, alias) = s
        BY <3>6 DEF AddAlias
      <4>2. alias \in ToSet(s)
        BY <3>5, <3>6 DEF Contains, ToSet
      <4>3. Good(k)
        BY <3>1, <3>2, <3>3, <4>1, <4>2
      <4> QED
        BY <1>1, <4>3
    <3>7. CASE ~Contains(s, alias)
      <4> DEFINE t == Append(s, alias)
      <4>1. AddAlias(s, alias) = t
        BY <3>7 DEF AddAlias
      <4>2. /\ DOMAIN t = 1 .. Len(s) + 1
            /\ t[Len(s) + 1] = alias
            /\ \A j \in 1 .. Len(s) : t[j] = s[j]
        BY <3>1, <3>3 DEF S
      <4>3. \A j \in 1 .. Len(s) : s[j] # alias
        BY <3>7 DEF Contains
      <4> HIDE DEF t
      <4>4. NoRepeats(t)
        BY <3>1, <3>5, <4>2, <4>3 DEF NoRepeats
      <4>5. ToSet(t) = ToSet(s) \cup {alias}
        BY <3>5, <4>2 DEF ToSet
      <4>6. Good(k)
        BY <3>1, <3>2, <3>3, <3>4, <4>1, <4>4, <4>5
      <4> QED
        BY <1>1, <4>6
    <3> QED
      BY <3>6, <3>7
  <2> HIDE DEF K
  <2> QED
    BY <1>1, <2>1, <2>2, LoopInvariant
<1>13. Good(n)
  BY <1>1, <1>12
<1>14. added(n) = ToSet(more)
  BY <1>1 DEF ToSet
<1> HIDE DEF added
<1>15. IsList(all[n])
  BY <1>13, SequencesAreLists DEF S
<1> QED
  BY <1>10, <1>13, <1>14, <1>15

\* What is pending for the tags when a name comes up for one of them.
LEMMA PendingAdded ==
  ASSUME NEW pending, NEW u, NEW tag \in DOMAIN u.tags, NEW name, NEW more,
         more = Set(pending, tag, Append(PendingOf(pending, tag), name)),
         PendingFits(pending, u)
  PROVE  /\ PendingFits(more, u)
         /\ ToSet(PendingOf(more, tag)) = ToSet(PendingOf(pending, tag)) \cup {name}
         /\ \A t : t # tag => PendingOf(more, t) = PendingOf(pending, t)
<1> DEFINE before == PendingOf(pending, tag)
           after == Append(before, name)
<1>1. IsList(before)
  BY NothingIsList DEF PendingOf, PendingFits
<1>2. more = [k \in DOMAIN pending \cup {tag} |-> IF k = tag THEN after ELSE pending[k]]
  BY DEF Set
<1> HIDE DEF before
<1>3. /\ IsList(after)
      /\ DOMAIN after = DOMAIN before \cup {Len(before) + 1}
      /\ after[Len(before) + 1] = name
      /\ \A k \in DOMAIN before : after[k] = before[k]
  BY <1>1, ListAppended
<1> HIDE DEF after
<1>4. DOMAIN more = DOMAIN pending \cup {tag} /\ more[tag] = after
      /\ \A k \in DOMAIN pending : k # tag => more[k] = pending[k]
  BY <1>2
<1>5. PendingFits(more, u)
  BY <1>3, <1>4 DEF PendingFits
<1>6. PendingOf(more, tag) = after /\ \A t : t # tag => PendingOf(more, t) = PendingOf(pending, t)
  BY <1>4 DEF PendingOf
<1>7. ToSet(after) = ToSet(before) \cup {name}
  BY <1>3 DEF ToSet
<1> QED
  BY <1>5, <1>6, <1>7 DEF before

\* A type still fits after a declaration if what is pending for its tag has
\* grown by what the declaration adds to the typedef names of the tag.
LEMMA TypeStillFits ==
  ASSUME NEW u \in Units, NEW n \in Nat \ {0}, NEW p, NEW q, NEW d, TypeFits(d, u, n, p),
         ToSet(d.aliases) \cup ToSet(PendingOf(q, d.tag)) = TypedefsBefore(u, n + 1, d.tag)
  PROVE  TypeFits(d, u, n + 1, q)
BY DefinedStays DEF TypeFits

\* A definition or a declaration that is skipped leaves the types of other
\* tags as they are.
LEMMA TypesStay ==
  ASSUME NEW u \in Units, NEW n \in Nat \ {0}, NEW p, NEW q, NEW types,
         TypesFit(types, u, n, p), u.decls[n].kind # "typedef",
         \A k \in DOMAIN types : PendingOf(q, types[k].tag) = PendingOf(p, types[k].tag)
  PROVE  TypesFit(types, u, n + 1, q)
<1>1. ASSUME NEW k \in DOMAIN types
      PROVE  TypeFits(types[k], u, n + 1, q)
  <2> DEFINE d == types[k]
  <2>1. TypeFits(d, u, n, p) /\ PendingOf(q, d.tag) = PendingOf(p, d.tag)
    BY DEF TypesFit
  <2> HIDE DEF d
  <2>2. TypedefsBefore(u, n + 1, d.tag) = TypedefsBefore(u, n, d.tag)
    BY TypedefsGrow
  <2>3. TypeFits(d, u, n + 1, q)
    BY <2>1, <2>2, TypeStillFits DEF TypeFits
  <2> QED
    BY <2>3 DEF d
<1> QED
  BY <1>1 DEF TypesFit

\* A typedef, pending for its tag or of no tag.
LEMMA TypesStayAtTypedef ==
  ASSUME NEW u \in Units, NEW n \in Nat \ {0}, NEW p, NEW q, NEW types,
         TypesFit(types, u, n, p), u.decls[n].kind = "typedef",
         \A t \in DOMAIN u.tags :
           IF t = u.decls[n].tag
           THEN ToSet(PendingOf(q, t)) = ToSet(PendingOf(p, t)) \cup {u.decls[n].name}
           ELSE PendingOf(q, t) = PendingOf(p, t)
  PROVE  TypesFit(types, u, n + 1, q)
<1>1. ASSUME NEW k \in DOMAIN types
      PROVE  TypeFits(types[k], u, n + 1, q)
  <2> DEFINE d == types[k]
  <2>1. TypeFits(d, u, n, p) /\ d.tag \in DOMAIN u.tags
    BY DEF TypesFit, TypeFits
  <2> SUFFICES TypeFits(d, u, n + 1, q)
    OBVIOUS
  <2> HIDE DEF d
  <2>2. CASE d.tag = u.decls[n].tag
    <3>1. TypedefsBefore(u, n + 1, d.tag) = TypedefsBefore(u, n, d.tag) \cup {u.decls[n].name}
      BY <2>2, TypedefsGrow
    <3>2. ToSet(PendingOf(q, d.tag)) = ToSet(PendingOf(p, d.tag)) \cup {u.decls[n].name}
      BY <2>1, <2>2
    <3>3. ToSet(d.aliases) \cup ToSet(PendingOf(q, d.tag)) = TypedefsBefore(u, n + 1, d.tag)
      BY <2>1, <3>1, <3>2 DEF TypeFits
    <3> QED
      BY <2>1, <3>3, TypeStillFits
  <2>3. CASE d.tag # u.decls[n].tag
    <3>1. TypedefsBefore(u, n + 1, d.tag) = TypedefsBefore(u, n, d.tag)
      BY <2>3, TypedefsGrow
    <3>2. PendingOf(q, d.tag) = PendingOf(p, d.tag)
      BY <2>1, <2>3
    <3>3. ToSet(d.aliases) \cup ToSet(PendingOf(q, d.tag)) = TypedefsBefore(u, n + 1, d.tag)
      BY <2>1, <3>1, <3>2 DEF TypeFits
    <3> QED
      BY <2>1, <3>3, TypeStillFits
  <2> QED
    BY <2>2, <2>3
<1> QED
  BY <1>1 DEF TypesFit

\* A type at the end of a list.
Joined(more, types, d) ==
  /\ IsList(more)
  /\ DOMAIN more = DOMAIN types \cup {Len(types) + 1}
  /\ more[Len(types) + 1] = d
  /\ \A k \in DOMAIN types : more[k] = types[k]

\* A type of a new tag joins a list.
LEMMA TypeJoins ==
  ASSUME NEW u, NEW n, NEW p, NEW types, NEW d, NEW more, Joined(more, types, d),
         TypesFit(types, u, n, p), TypeFits(d, u, n, p), d.tag \notin TagsOf(types)
  PROVE  /\ TypesFit(more, u, n, p)
         /\ TagsOf(more) = TagsOf(types) \cup {d.tag}
<1>1. \A k \in DOMAIN more : TypeFits(more[k], u, n, p)
  BY DEF TypesFit, Joined
<1>2. \A j, k \in DOMAIN more : more[j].tag = more[k].tag => j = k
  BY DEF TypesFit, TagsOf, Joined
<1>3. TypesFit(more, u, n, p)
  BY <1>1, <1>2 DEF TypesFit, Joined
<1>4. TagsOf(more) = TagsOf(types) \cup {d.tag}
  BY DEF TagsOf, Joined
<1> QED
  BY <1>3, <1>4

-----------------------------------------------------------------------------
\* The steps, as far as the aliases go.

LEMMA AliasInit == Init => AliasInv
<1> SUFFICES ASSUME Init PROVE AliasInv
  OBVIOUS
<1>1. /\ unit \in Units /\ next = 1 /\ output = <<>>
      /\ Results = <<>> /\ EnumResults = <<>> /\ PendingAliases = <<>>
  BY DEF Init
<1>2. PlaceInv
  <2>1. Len(unit.decls) \in Nat
    BY <1>1, UnitFacts
  <2> QED
    BY <1>1, <2>1 DEF PlaceInv
<1>3. \A p, n : TypesFit(<<>>, unit, n, p)
  BY NothingIsList DEF TypesFit
<1>4. PendingFits(<<>>, unit) /\ \A tag : ToSet(PendingOf(<<>>, tag)) = {}
  BY DEF PendingFits, PendingOf, ToSet
<1>5. \A tag : TypedefsBefore(unit, 1, tag) = {}
  BY <1>1, TypedefsAll
<1>6. /\ PendingFits(PendingAliases, unit)
      /\ TypesFit(Results, unit, next, PendingAliases)
      /\ TypesFit(EnumResults, unit, next, PendingAliases)
  BY <1>1, <1>3, <1>4
<1>7. \A tag : ToSet(PendingOf(PendingAliases, tag)) = TypedefsBefore(unit, next, tag)
  BY <1>1, <1>4, <1>5
<1>8. DOMAIN Results = {} /\ DOMAIN EnumResults = {}
  BY <1>1
<1> QED
  BY <1>1, <1>2, <1>6, <1>7, <1>8 DEF AliasInv

\* The declaration at hand.
LEMMA ShownFacts ==
  ASSUME PlaceInv, NEW kind, Shown(kind)
  PROVE  /\ next \in Nat \ {0} /\ next \in DOMAIN unit.decls
         /\ next' = next + 1 /\ unit' = unit
         /\ unit.decls[next].kind = kind
         /\ output = <<>> /\ output' = output
         /\ PlaceInv'
<1>1. Len(unit.decls) \in Nat /\ DOMAIN unit.decls = 1 .. Len(unit.decls)
  BY UnitFacts DEF PlaceInv
<1>2. /\ next \in 1 .. Len(unit.decls) + 1 /\ next <= Len(unit.decls)
      /\ next' = next + 1 /\ UNCHANGED <<unit, output>>
      /\ unit.decls[next].kind = kind
  BY DEF PlaceInv, Shown, decl
<1>3. output = <<>>
  BY <1>1, <1>2 DEF PlaceInv
<1> QED
  BY <1>1, <1>2, <1>3 DEF PlaceInv

\* A declaration that defines or declares a tag leaves the types visited
\* before and the tags not visited as they are.
LEMMA OthersStay ==
  ASSUME AliasInv, NEW kind \in {"record", "enum"}, Shown(kind), NEW q,
         NEW tags, \A t : t \notin tags => PendingOf(q, t) = PendingOf(PendingAliases, t),
         tags \cap (TagsOf(Results) \cup TagsOf(EnumResults)) = {}
  PROVE  /\ TypesFit(Results, unit, next + 1, q)
         /\ TypesFit(EnumResults, unit, next + 1, q)
         /\ \A t \in DOMAIN unit.tags \ (TagsOf(Results) \cup TagsOf(EnumResults) \cup tags) :
              ToSet(PendingOf(q, t)) = TypedefsBefore(unit, next + 1, t)
<1>1. /\ next \in Nat \ {0} /\ unit \in Units /\ unit.decls[next].kind # "typedef"
      /\ next <= Len(unit.decls)
  BY ShownFacts DEF AliasInv, PlaceInv, Shown
<1>2. \A k \in DOMAIN Results :
        PendingOf(q, Results[k].tag) = PendingOf(PendingAliases, Results[k].tag)
  BY DEF TagsOf
<1>3. \A k \in DOMAIN EnumResults :
        PendingOf(q, EnumResults[k].tag) = PendingOf(PendingAliases, EnumResults[k].tag)
  BY DEF TagsOf
<1>4. TypesFit(Results, unit, next + 1, q) /\ TypesFit(EnumResults, unit, next + 1, q)
  BY <1>1, <1>2, <1>3, TypesStay DEF AliasInv
<1>5. ASSUME NEW t \in DOMAIN unit.tags \ (TagsOf(Results) \cup TagsOf(EnumResults) \cup tags)
      PROVE  ToSet(PendingOf(q, t)) = TypedefsBefore(unit, next + 1, t)
  <2>1. PendingOf(q, t) = PendingOf(PendingAliases, t)
    OBVIOUS
  <2>2. TypedefsBefore(unit, next + 1, t) = TypedefsBefore(unit, next, t)
    BY <1>1, TypedefsGrow
  <2> QED
    BY <1>1, <2>1, <2>2 DEF AliasInv
<1> QED
  BY <1>4, <1>5

LEMMA SkipTagStep == AliasInv /\ SkipTag => AliasInv'
<1> SUFFICES ASSUME AliasInv, SkipTag PROVE AliasInv'
  OBVIOUS
<1>1. PICK kind \in {"record", "enum"} : Shown(kind)
  BY DEF SkipTag
<1>2. UNCHANGED <<Results, EnumResults, PendingAliases>>
  BY DEF SkipTag
<1>3. /\ next' = next + 1 /\ unit' = unit /\ output = <<>> /\ output' = output
      /\ PlaceInv'
  BY <1>1, ShownFacts DEF AliasInv
<1>4. /\ TypesFit(Results, unit, next + 1, PendingAliases)
      /\ TypesFit(EnumResults, unit, next + 1, PendingAliases)
      /\ \A t \in DOMAIN unit.tags \ (TagsOf(Results) \cup TagsOf(EnumResults) \cup {}) :
           ToSet(PendingOf(PendingAliases, t)) = TypedefsBefore(unit, next + 1, t)
  <2> DEFINE none == {}
  <2>1. none \cap (TagsOf(Results) \cup TagsOf(EnumResults)) = {}
    OBVIOUS
  <2> HIDE DEF none
  <2>2. /\ TypesFit(Results, unit, next + 1, PendingAliases)
        /\ TypesFit(EnumResults, unit, next + 1, PendingAliases)
        /\ \A t \in DOMAIN unit.tags \ (TagsOf(Results) \cup TagsOf(EnumResults) \cup none) :
             ToSet(PendingOf(PendingAliases, t)) = TypedefsBefore(unit, next + 1, t)
    BY <1>1, <2>1, OthersStay
  <2> QED
    BY <2>2 DEF none
<1> QED
  BY <1>2, <1>3, <1>4 DEF AliasInv

\* A definition that is visited: a type of its tag, which is new, takes the
\* aliases that are pending for it.
LEMMA DefinitionVisited ==
  ASSUME AliasInv, NEW kind \in {"record", "enum"}, Shown(kind), Wanted,
         TakePending(decl.tag),
         NEW d, {"tag", "type", "name", "aliases"} \subseteq DOMAIN d,
         d.tag = decl.tag, d.type = unit.tags[d.tag].type,
         d.aliases = AddMissing(<<>>, Pending(d.tag))
  PROVE  /\ d.tag \notin TagsOf(Results) \cup TagsOf(EnumResults)
         /\ d.type = "enum" <=> kind = "enum"
         /\ d.type \in {"struct", "union", "enum"}
         /\ TypeFits(d, unit, next + 1, PendingAliases')
         /\ PendingFits(PendingAliases', unit)
         /\ TypesFit(Results, unit, next + 1, PendingAliases')
         /\ TypesFit(EnumResults, unit, next + 1, PendingAliases')
         /\ \A t \in DOMAIN unit.tags \ (TagsOf(Results) \cup TagsOf(EnumResults) \cup {d.tag}) :
              ToSet(PendingOf(PendingAliases', t)) = TypedefsBefore(unit, next + 1, t)
<1> DEFINE left == PendingAliases'
           tag == d.tag
<1>1. /\ next \in Nat \ {0} /\ next \in DOMAIN unit.decls /\ unit \in Units
      /\ unit.decls[next].kind = kind /\ next <= Len(unit.decls)
  BY ShownFacts DEF AliasInv, PlaceInv, Shown
<1>2. unit.decls[next].complete /\ unit.decls[next].tag = tag
  BY DEF Wanted, decl
<1>3. tag \in DOMAIN unit.tags /\ (kind = "enum" <=> unit.tags[tag].type = "enum")
  BY <1>1, <1>2, UnitsAssumption
<1>4. ~DefinedBefore(unit, next, tag)
  BY <1>1, <1>2, DefinedOnce
<1>5. tag \notin TagsOf(Results) \cup TagsOf(EnumResults)
  BY <1>4 DEF AliasInv, TypesFit, TypeFits, TagsOf
<1>6. left = [t \in DOMAIN PendingAliases \ {tag} |-> PendingAliases[t]]
  BY DEF TakePending
<1>7. /\ PendingFits(left, unit)
      /\ PendingOf(left, tag) = <<>>
      /\ \A t : t # tag => PendingOf(left, t) = PendingOf(PendingAliases, t)
  <2>1. PendingFits(PendingAliases, unit)
    BY DEF AliasInv
  <2> HIDE DEF left, tag
  <2> QED
    BY <1>6, <2>1 DEF PendingFits, PendingOf
<1> HIDE DEF left, tag
<1>8. /\ TypesFit(Results, unit, next + 1, left)
      /\ TypesFit(EnumResults, unit, next + 1, left)
      /\ \A t \in DOMAIN unit.tags \ (TagsOf(Results) \cup TagsOf(EnumResults) \cup {tag}) :
           ToSet(PendingOf(left, t)) = TypedefsBefore(unit, next + 1, t)
  <2> DEFINE tags == {tag}
  <2>1. /\ \A t : t \notin tags => PendingOf(left, t) = PendingOf(PendingAliases, t)
        /\ tags \cap (TagsOf(Results) \cup TagsOf(EnumResults)) = {}
    BY <1>5, <1>7
  <2> HIDE DEF tags
  <2>2. /\ TypesFit(Results, unit, next + 1, left)
        /\ TypesFit(EnumResults, unit, next + 1, left)
        /\ \A t \in DOMAIN unit.tags \ (TagsOf(Results) \cup TagsOf(EnumResults) \cup tags) :
             ToSet(PendingOf(left, t)) = TypedefsBefore(unit, next + 1, t)
    BY <2>1, OthersStay
  <2> QED
    BY <2>2 DEF tags
<1>9. TypeFits(d, unit, next + 1, left)
  <2>1. DefinedBefore(unit, next + 1, tag)
    BY <1>1, <1>2 DEF DefinedBefore
  <2> DEFINE more == PendingOf(PendingAliases, tag)
  <2>2. d.aliases = AddMissing(<<>>, more)
    BY DEF Pending, PendingOf, tag
  <2>3. IsList(more) /\ IsList(<<>>) /\ NoRepeats(<<>>) /\ ToSet(<<>>) = {}
    BY NothingIsList DEF PendingOf, AliasInv, PendingFits, NoRepeats, ToSet
  <2> HIDE DEF more
  <2>4. IsList(d.aliases) /\ NoRepeats(d.aliases) /\ ToSet(d.aliases) = {} \cup ToSet(more)
    BY <2>2, <2>3, MissingAdded
  <2>5. ToSet(more) = TypedefsBefore(unit, next, tag)
    BY <1>1, <1>3, <1>5 DEF AliasInv, more
  <2>6. TypedefsBefore(unit, next + 1, tag) = TypedefsBefore(unit, next, tag)
    BY <1>1, TypedefsGrow
  <2>7. ToSet(d.aliases) \cup ToSet(PendingOf(left, tag)) = TypedefsBefore(unit, next + 1, tag)
    BY <1>7, <2>3, <2>4, <2>5, <2>6
  <2> QED
    BY <1>3, <2>1, <2>4, <2>7 DEF TypeFits, tag
<1>10. d.type \in {"struct", "union", "enum"} /\ (d.type = "enum" <=> kind = "enum")
  BY <1>1, <1>3, UnitFacts DEF tag
<1> QED
  BY <1>5, <1>7, <1>8, <1>9, <1>10 DEF left, tag

LEMMA VisitRecordStep == AliasInv /\ VisitRecordDecl => AliasInv'
<1> SUFFICES ASSUME AliasInv, VisitRecordDecl PROVE AliasInv'
  OBVIOUS
<1> DEFINE tag == decl.tag
           def == unit.tags[tag]
           d == [tag |-> tag, type |-> def.type, name |-> TagName(tag), size |-> def.size,
                 fields |-> AllFields(tag), aliases |-> AddMissing(<<>>, Pending(tag))]
           left == PendingAliases'
           more == Append(Results, d)
<1>1. /\ Shown("record") /\ Wanted /\ TakePending(decl.tag)
      /\ Results' = more
      /\ EnumResults' = EnumResults
  BY DEF VisitRecordDecl
<1>2. /\ {"tag", "type", "name", "aliases"} \subseteq DOMAIN d
      /\ d.tag = decl.tag /\ d.type = unit.tags[d.tag].type
      /\ d.aliases = AddMissing(<<>>, Pending(d.tag))
  OBVIOUS
<1>3. /\ next' = next + 1 /\ unit' = unit /\ output = <<>> /\ output' = output
      /\ PlaceInv'
  BY <1>1, ShownFacts DEF AliasInv
<1> HIDE DEF d
<1>4. /\ d.tag \notin TagsOf(Results) \cup TagsOf(EnumResults)
      /\ d.type \in {"struct", "union"}
      /\ TypeFits(d, unit, next + 1, left)
      /\ PendingFits(left, unit)
      /\ TypesFit(Results, unit, next + 1, left)
      /\ TypesFit(EnumResults, unit, next + 1, left)
      /\ \A t \in DOMAIN unit.tags \ (TagsOf(Results) \cup TagsOf(EnumResults) \cup {d.tag}) :
           ToSet(PendingOf(left, t)) = TypedefsBefore(unit, next + 1, t)
  <2> DEFINE kind == "record"
  <2>1. kind \in {"record", "enum"} /\ kind # "enum" /\ Shown(kind)
    BY <1>1
  <2> HIDE DEF kind
  <2> QED
    BY <1>1, <1>2, <2>1, DefinitionVisited
<1> HIDE DEF left
<1>j. Joined(more, Results, d)
  <2>1. IsList(Results)
    BY DEF AliasInv, TypesFit
  <2> QED
    BY <2>1, ListAppended DEF Joined
<1>m. Results' = more
  BY <1>1
<1> HIDE DEF more
<1>5. TypesFit(more, unit, next + 1, left) /\ TagsOf(more) = TagsOf(Results) \cup {d.tag}
  <2> DEFINE n == next + 1
  <2>1. /\ TypesFit(Results, unit, n, left) /\ TypeFits(d, unit, n, left)
        /\ d.tag \notin TagsOf(Results)
    BY <1>4
  <2> HIDE DEF n, tag, def
  <2>2. TypesFit(more, unit, n, left)
    BY <1>j, <2>1, TypeJoins
  <2>3. TagsOf(more) = TagsOf(Results) \cup {d.tag}
    BY <1>j DEF Joined, TagsOf
  <2> QED
    BY <2>2, <2>3 DEF n
<1>6. \A k \in DOMAIN more : more[k].type \in {"struct", "union"}
  BY <1>j, <1>4 DEF AliasInv, Joined
<1>7. left = PendingAliases'
  BY DEF left
<1> QED
  BY <1>1, <1>3, <1>4, <1>5, <1>6, <1>7 DEF AliasInv

LEMMA VisitEnumStep == AliasInv /\ VisitEnumDecl => AliasInv'
<1> SUFFICES ASSUME AliasInv, VisitEnumDecl PROVE AliasInv'
  OBVIOUS
<1> DEFINE tag == decl.tag
           def == unit.tags[tag]
           d == [tag |-> tag, type |-> "enum", name |-> TagName(tag), size |-> def.size,
                 fields |-> def.fields, aliases |-> AddMissing(<<>>, Pending(tag))]
           left == PendingAliases'
           more == Append(EnumResults, d)
<1>1. /\ Shown("enum") /\ Wanted /\ TakePending(decl.tag)
      /\ EnumResults' = more
      /\ Results' = Results
  BY DEF VisitEnumDecl
<1>2. /\ next' = next + 1 /\ unit' = unit /\ output = <<>> /\ output' = output
      /\ PlaceInv'
  BY <1>1, ShownFacts DEF AliasInv
<1>3. /\ {"tag", "type", "name", "aliases"} \subseteq DOMAIN d
      /\ d.tag = decl.tag /\ d.type = "enum"
      /\ d.aliases = AddMissing(<<>>, Pending(d.tag))
  OBVIOUS
<1>4. d.type = unit.tags[d.tag].type
  <2>1. /\ unit \in Units /\ next \in DOMAIN unit.decls
        /\ unit.decls[next].kind = "enum" /\ unit.decls[next].tag = tag
    BY <1>1, ShownFacts DEF AliasInv, PlaceInv, Shown, decl
  <2>2. unit.tags[tag].type = "enum"
    BY <2>1, UnitsAssumption
  <2> QED
    BY <1>3, <2>2
<1> HIDE DEF d
<1>5. /\ d.tag \notin TagsOf(Results) \cup TagsOf(EnumResults)
      /\ TypeFits(d, unit, next + 1, left)
      /\ PendingFits(left, unit)
      /\ TypesFit(Results, unit, next + 1, left)
      /\ TypesFit(EnumResults, unit, next + 1, left)
      /\ \A t \in DOMAIN unit.tags \ (TagsOf(Results) \cup TagsOf(EnumResults) \cup {d.tag}) :
           ToSet(PendingOf(left, t)) = TypedefsBefore(unit, next + 1, t)
  <2> DEFINE kind == "enum"
  <2>1. kind \in {"record", "enum"} /\ Shown(kind)
    BY <1>1
  <2> HIDE DEF kind
  <2> QED
    BY <1>1, <1>3, <1>4, <2>1, DefinitionVisited
<1> HIDE DEF left
<1>j. Joined(more, EnumResults, d)
  <2>1. IsList(EnumResults)
    BY DEF AliasInv, TypesFit
  <2> QED
    BY <2>1, ListAppended DEF Joined
<1>m. EnumResults' = more
  BY <1>1
<1> HIDE DEF more
<1>6. TypesFit(more, unit, next + 1, left) /\ TagsOf(more) = TagsOf(EnumResults) \cup {d.tag}
  <2> DEFINE n == next + 1
  <2>1. /\ TypesFit(EnumResults, unit, n, left) /\ TypeFits(d, unit, n, left)
        /\ d.tag \notin TagsOf(EnumResults)
    BY <1>5
  <2> HIDE DEF n, tag, def
  <2>2. TypesFit(more, unit, n, left)
    BY <1>j, <2>1, TypeJoins
  <2>3. TagsOf(more) = TagsOf(EnumResults) \cup {d.tag}
    BY <1>j DEF Joined, TagsOf
  <2> QED
    BY <2>2, <2>3 DEF n
<1>7. \A k \in DOMAIN more : more[k].type = "enum"
  BY <1>j, <1>3 DEF AliasInv, Joined
<1>8. left = PendingAliases'
  BY DEF left
<1> QED
  BY <1>1, <1>2, <1>5, <1>6, <1>7, <1>8 DEF AliasInv

LEMMA VisitTypedefStep == AliasInv /\ VisitTypedefDecl => AliasInv'
<1> SUFFICES ASSUME AliasInv, VisitTypedefDecl PROVE AliasInv'
  OBVIOUS
<1> DEFINE more == PendingAliases'
           tag == unit.decls[next].tag
           name == unit.decls[next].name
<1>1. Shown("typedef") /\ UNCHANGED <<Results, EnumResults>>
  BY DEF VisitTypedefDecl
<1>2. /\ next \in Nat \ {0} /\ unit \in Units /\ unit.decls[next].kind = "typedef"
      /\ next' = next + 1 /\ unit' = unit /\ output = <<>> /\ output' = output
      /\ next <= Len(unit.decls)
      /\ PlaceInv'
  BY <1>1, ShownFacts DEF AliasInv, PlaceInv, Shown
<1>3. /\ PendingFits(more, unit)
      /\ \A t \in DOMAIN unit.tags :
           IF t = tag THEN ToSet(PendingOf(more, t)) = ToSet(PendingOf(PendingAliases, t)) \cup {name}
           ELSE PendingOf(more, t) = PendingOf(PendingAliases, t)
  <2>1. CASE tag \notin DOMAIN unit.tags
    <3>1. more = PendingAliases
      BY <2>1 DEF VisitTypedefDecl, decl, IsTag
    <3> QED
      BY <2>1, <3>1 DEF AliasInv
  <2>2. CASE tag \in DOMAIN unit.tags
    <3>1. more = Set(PendingAliases, tag, Append(PendingOf(PendingAliases, tag), name))
      BY <2>2 DEF VisitTypedefDecl, decl, IsTag, Pending, PendingOf
    <3>2. PendingFits(PendingAliases, unit)
      BY DEF AliasInv
    <3> HIDE DEF more, tag, name
    <3>3. /\ PendingFits(more, unit)
          /\ ToSet(PendingOf(more, tag)) = ToSet(PendingOf(PendingAliases, tag)) \cup {name}
          /\ \A t : t # tag => PendingOf(more, t) = PendingOf(PendingAliases, t)
      BY <2>2, <3>1, <3>2, PendingAdded
    <3> QED
      BY <3>3
  <2> QED
    BY <2>1, <2>2
<1> HIDE DEF more
<1>4. TypesFit(Results, unit, next + 1, more) /\ TypesFit(EnumResults, unit, next + 1, more)
  BY <1>2, <1>3, TypesStayAtTypedef DEF AliasInv
<1>5. ASSUME NEW t \in DOMAIN unit.tags \ (TagsOf(Results) \cup TagsOf(EnumResults))
      PROVE  ToSet(PendingOf(more, t)) = TypedefsBefore(unit, next + 1, t)
  <2>1. ToSet(PendingOf(PendingAliases, t)) = TypedefsBefore(unit, next, t)
    BY <1>2 DEF AliasInv
  <2>2. CASE t = tag
    <3>1. TypedefsBefore(unit, next + 1, t) = TypedefsBefore(unit, next, t) \cup {name}
      BY <1>2, <2>2, TypedefsGrow
    <3>2. ToSet(PendingOf(more, t)) = ToSet(PendingOf(PendingAliases, t)) \cup {name}
      BY <1>3, <2>2
    <3> QED
      BY <2>1, <3>1, <3>2
  <2>3. CASE t # tag
    BY <1>2, <1>3, <2>1, <2>3, TypedefsGrow
  <2> QED
    BY <2>2, <2>3
<1>6. more = PendingAliases'
  BY DEF more
<1> QED
  BY <1>1, <1>2, <1>3, <1>4, <1>5, <1>6 DEF AliasInv

\* The aliases that are still pending are merged into the types.
LEMMA MergedFits ==
  ASSUME AliasInv, NEW types, TypesFit(types, unit, next, PendingAliases)
  PROVE  /\ TypesFit(Merged(types), unit, next, <<>>)
         /\ DOMAIN Merged(types) = DOMAIN types
         /\ \A k \in DOMAIN types :
              /\ Merged(types)[k].tag = types[k].tag
              /\ Merged(types)[k].type = types[k].type
              /\ Merged(types)[k].name = types[k].name
<1> DEFINE merged == Merged(types)
           more(tag) == PendingOf(PendingAliases, tag)
<1>1. Len(types) \in Nat /\ DOMAIN types = 1 .. Len(types)
  BY ListFacts DEF TypesFit
<1>2. merged = [k \in 1 .. Len(types) |->
        [types[k] EXCEPT !.aliases = AddMissing(types[k].aliases, more(types[k].tag))]]
  BY <1>1 DEF Merged, Pending, PendingOf
<1>3. IsList(merged) /\ DOMAIN merged = DOMAIN types
  <2> HIDE DEF merged, more
  <2>1. DOMAIN merged = 1 .. Len(types) /\ merged = [k \in 1 .. Len(types) |-> merged[k]]
    BY <1>2
  <2> DEFINE T == {merged[k] : k \in DOMAIN merged}
  <2>2. \A k \in 1 .. Len(types) : merged[k] \in T
    BY <2>1
  <2> HIDE DEF T
  <2>3. merged \in Seq(T)
    BY <1>1, <2>1, <2>2
  <2> QED
    BY <1>1, <2>1, <2>3, SequencesAreLists
<1> HIDE DEF merged
<1>4. ASSUME NEW k \in DOMAIN types
      PROVE  /\ merged[k].tag = types[k].tag
             /\ merged[k].type = types[k].type
             /\ merged[k].name = types[k].name
             /\ TypeFits(merged[k], unit, next, <<>>)
  <2> DEFINE d == types[k]
             m == merged[k]
             aliases == AddMissing(d.aliases, more(d.tag))
  <2>1. TypeFits(d, unit, next, PendingAliases)
    BY DEF TypesFit
  <2>2. m = [d EXCEPT !.aliases = aliases]
    BY <1>1, <1>2
  <2> HIDE DEF d, m, aliases
  <2>3. /\ DOMAIN m = DOMAIN d
        /\ m.tag = d.tag /\ m.type = d.type /\ m.name = d.name
        /\ m.aliases = aliases
    BY <2>1, <2>2 DEF TypeFits
  <2>4. IsList(more(d.tag))
    BY NothingIsList DEF PendingOf, AliasInv, PendingFits
  <2>5. IsList(d.aliases) /\ NoRepeats(d.aliases)
    BY <2>1 DEF TypeFits
  <2> HIDE DEF more
  <2>6. /\ IsList(aliases) /\ NoRepeats(aliases)
        /\ ToSet(aliases) = ToSet(d.aliases) \cup ToSet(more(d.tag))
    BY <2>4, <2>5, MissingAdded DEF aliases
  <2>7. ToSet(d.aliases) \cup ToSet(more(d.tag)) = TypedefsBefore(unit, next, d.tag)
    BY <2>1 DEF TypeFits, more
  <2>8. ToSet(PendingOf(<<>>, d.tag)) = {}
    BY DEF PendingOf, ToSet
  <2>9. TypeFits(m, unit, next, <<>>)
    BY <2>1, <2>3, <2>6, <2>7, <2>8 DEF TypeFits
  <2> QED
    BY <2>3, <2>9 DEF d, m
<1>5. \A j, k \in DOMAIN merged : merged[j].tag = merged[k].tag => j = k
  BY <1>3, <1>4 DEF TypesFit
<1>6. TypesFit(merged, unit, next, <<>>)
  BY <1>3, <1>4, <1>5 DEF TypesFit
<1> QED
  BY <1>3, <1>4, <1>6 DEF merged

LEMMA HandleStep == AliasInv /\ HandleTranslationUnit => AliasInv'
<1> SUFFICES ASSUME AliasInv, HandleTranslationUnit PROVE AliasInv'
  OBVIOUS
<1>1. /\ Results' = Merged(Results) /\ EnumResults' = Merged(EnumResults)
      /\ PendingAliases' = <<>> /\ unit' = unit /\ next' = next
      /\ next > Len(unit.decls)
  BY DEF HandleTranslationUnit
<1>2. Len(unit.decls) \in Nat /\ next = Len(unit.decls) + 1
  BY <1>1, UnitFacts DEF AliasInv, PlaceInv
<1>3. PlaceInv'
  BY <1>1, <1>2 DEF AliasInv, PlaceInv
<1>4. /\ TypesFit(Results', unit, next, <<>>)
      /\ \A k \in DOMAIN Results' : Results'[k].type \in {"struct", "union"}
  BY <1>1, MergedFits DEF AliasInv
<1>5. /\ TypesFit(EnumResults', unit, next, <<>>)
      /\ \A k \in DOMAIN EnumResults' : EnumResults'[k].type = "enum"
  BY <1>1, MergedFits DEF AliasInv
<1>6. PendingFits(<<>>, unit)
  BY DEF PendingFits
<1>7. ~ (next' <= Len(unit'.decls))
  BY <1>1, <1>2
<1> QED
  BY <1>1, <1>3, <1>4, <1>5, <1>6, <1>7 DEF AliasInv

\* AliasInv holds in every state, whatever the unit is.
THEOREM AliasInvariant == Spec => []AliasInv
<1>1. Init => AliasInv
  BY AliasInit
<1>2. AliasInv /\ [Next]_vars => AliasInv'
  <2> SUFFICES ASSUME AliasInv, [Next]_vars PROVE AliasInv'
    OBVIOUS
  <2>1. CASE SkipTag
    BY <2>1, SkipTagStep
  <2>2. CASE VisitRecordDecl
    BY <2>2, VisitRecordStep
  <2>3. CASE VisitEnumDecl
    BY <2>3, VisitEnumStep
  <2>4. CASE VisitTypedefDecl
    BY <2>4, VisitTypedefStep
  <2>5. CASE HandleTranslationUnit
    BY <2>5, HandleStep
  <2>6. CASE UNCHANGED vars
    BY <2>6 DEF vars, AliasInv, PlaceInv
  <2> QED
    BY <2>1, <2>2, <2>3, <2>4, <2>5, <2>6 DEF Next
<1> QED
  BY <1>1, <1>2, PTL DEF Spec

\* What holds of the types of both lists holds of all that are visited.
LEMMA VisitedFacts ==
  ASSUME IsList(Results), IsList(EnumResults)
  PROVE  /\ DOMAIN Visited = 1 .. Len(Results) + Len(EnumResults)
         /\ \A k \in 1 .. Len(Results) : Visited[k] = Results[k]
         /\ \A k \in 1 .. Len(EnumResults) : Visited[Len(Results) + k] = EnumResults[k]
         /\ \A k \in DOMAIN Visited :
              \/ k \in 1 .. Len(Results)
              \/ /\ k - Len(Results) \in 1 .. Len(EnumResults)
                 /\ Len(Results) + (k - Len(Results)) = k
<1>1. Len(Results) \in Nat /\ Len(EnumResults) \in Nat
  BY ListFacts
<1> DEFINE v == Results \o EnumResults
<1>2. /\ IsList(v)
      /\ Len(v) = Len(Results) + Len(EnumResults)
      /\ \A k \in 1 .. Len(Results) : v[k] = Results[k]
      /\ \A k \in 1 .. Len(EnumResults) : v[Len(Results) + k] = EnumResults[k]
  BY ListsJoined
<1> HIDE DEF v
<1>3. DOMAIN v = 1 .. Len(Results) + Len(EnumResults)
  BY <1>2, ListFacts
<1>4. v = Visited
  BY DEF v, Visited
<1> QED
  BY <1>1, <1>2, <1>3, <1>4

\* When a file is written, every typedef name of every type in it is one of
\* the aliases of the type, once, and no other name is, in whatever order the
\* typedefs, declarations and definitions of the unit stand.
THEOREM AliasesArrive == Spec => []AliasesReachTheirTypes
<1>1. AliasInv => AliasesReachTheirTypes
  <2> SUFFICES ASSUME AliasInv, Finished, NEW k \in DOMAIN Visited
               PROVE  /\ ToSet(Visited[k].aliases) = TypedefsOf(Visited[k].tag)
                      /\ NoRepeats(Visited[k].aliases)
    BY DEF AliasesReachTheirTypes, NoRepeats
  <2>1. PendingAliases = <<>> /\ next = Len(unit.decls) + 1 /\ unit \in Units
    BY DEF AliasInv, PlaceInv, Finished
  <2>2. TypeFits(Visited[k], unit, next, <<>>)
    <3>1. /\ IsList(Results) /\ IsList(EnumResults)
          /\ \A j \in 1 .. Len(Results) : TypeFits(Results[j], unit, next, <<>>)
          /\ \A j \in 1 .. Len(EnumResults) : TypeFits(EnumResults[j], unit, next, <<>>)
      BY <2>1, ListFacts DEF AliasInv, TypesFit
    <3>2. CASE k \in 1 .. Len(Results)
      BY <3>1, <3>2, VisitedFacts
    <3>3. CASE k \notin 1 .. Len(Results)
      BY <3>1, <3>3, VisitedFacts
    <3> QED
      BY <3>2, <3>3
  <2>3. ToSet(PendingOf(<<>>, Visited[k].tag)) = {}
    BY DEF PendingOf, ToSet
  <2>4. TypedefsBefore(unit, next, Visited[k].tag) = TypedefsOf(Visited[k].tag)
    BY <2>1, TypedefsAll
  <2> QED
    BY <2>2, <2>3, <2>4 DEF TypeFits
<1> QED
  BY <1>1, AliasInvariant, PTL

-----------------------------------------------------------------------------
\* The base types.

Variants == {"base", "struct", "union", "enum"}
BaseType == [variant : Variants, size : Nat]

\* Finite tables of base types with names of a set.
BaseTables(names) ==
  UNION {[keys -> BaseType] : keys \in {keys \in SUBSET names : IsFiniteSet(keys)}}

\* A table has grown by base types only.
GrownByBases(types, more) ==
  /\ DOMAIN types \subseteq DOMAIN more
  /\ \A name \in DOMAIN types : more[name] = types[name]
  /\ \A name \in DOMAIN more \ DOMAIN types : more[name].variant = "base"

LEMMA TableFacts ==
  ASSUME NEW names, NEW types \in BaseTables(names)
  PROVE  /\ DOMAIN types \subseteq names
         /\ IsFiniteSet(DOMAIN types)
         /\ \A name \in DOMAIN types : types[name] \in BaseType
BY DEF BaseTables

LEMMA GrowthIsTransitive ==
  ASSUME NEW a, NEW b, NEW c, GrownByBases(a, b), GrownByBases(b, c)
  PROVE  GrownByBases(a, c)
BY DEF GrownByBases

LEMMA EmplaceFacts ==
  ASSUME NEW names, NEW types \in BaseTables(names), NEW name \in names,
         NEW variant \in Variants, NEW size \in Nat
  PROVE  /\ Emplace(types, name, variant, size) \in BaseTables(names)
         /\ DOMAIN Emplace(types, name, variant, size) = DOMAIN types \cup {name}
         /\ \A n \in DOMAIN types : Emplace(types, name, variant, size)[n] = types[n]
         /\ name \notin DOMAIN types =>
              Emplace(types, name, variant, size)[name].variant = variant
<1>1. CASE name \in DOMAIN types
  BY <1>1 DEF Emplace
<1>2. CASE name \notin DOMAIN types
  <2> DEFINE info == [variant |-> variant, size |-> size]
             keys == DOMAIN types \cup {name}
             more == [k \in keys |-> IF k = name THEN info ELSE types[k]]
  <2>1. Emplace(types, name, variant, size) = more
    BY <1>2 DEF Emplace, Set
  <2>2. info \in BaseType /\ info.variant = variant
    BY DEF BaseType
  <2>3. keys \subseteq names /\ \A k \in DOMAIN types : types[k] \in BaseType
    BY TableFacts
  <2>f. IsFiniteSet(keys)
    BY TableFacts, FS_AddElement
  <2> HIDE DEF info
  <2>4. more \in [keys -> BaseType]
    BY <2>2, <2>3
  <2>5. more \in BaseTables(names)
    <3> HIDE DEF more
    <3> QED
      BY <2>3, <2>4, <2>f DEF BaseTables
  <2> QED
    BY <1>2, <2>1, <2>2, <2>5
<1> QED
  BY <1>1, <1>2

\* A base type emplaced.
LEMMA BaseEmplaced ==
  ASSUME NEW names, NEW types \in BaseTables(names), NEW name \in names, NEW size \in Nat
  PROVE  /\ Emplace(types, name, "base", size) \in BaseTables(names)
         /\ name \in DOMAIN Emplace(types, name, "base", size)
         /\ GrownByBases(types, Emplace(types, name, "base", size))
<1> DEFINE variant == "base"
           more == Emplace(types, name, variant, size)
<1>1. variant \in Variants
  BY DEF Variants
<1> HIDE DEF variant
<1>2. /\ more \in BaseTables(names)
      /\ DOMAIN more = DOMAIN types \cup {name}
      /\ \A n \in DOMAIN types : more[n] = types[n]
      /\ name \notin DOMAIN types => more[name].variant = variant
  BY <1>1, EmplaceFacts, ZenonT(30)
<1> HIDE DEF more
<1>3. GrownByBases(types, more)
  BY <1>2 DEF GrownByBases, variant
<1> QED
  BY <1>2, <1>3 DEF more, variant

\* A field that is not a record makes a base type of its type.
LEMMA FieldTypeRegistered ==
  ASSUME NEW names, NEW types \in BaseTables(names),
         NEW fi, fi.type \in names, fi.alias \in names
  PROVE  /\ RegisterFieldType(types, fi) \in BaseTables(names)
         /\ GrownByBases(types, RegisterFieldType(types, fi))
         /\ fi.struct \/ fi.type \in DOMAIN RegisterFieldType(types, fi)
<1>1. CASE fi.struct
  BY <1>1 DEF RegisterFieldType, GrownByBases
<1>2. CASE ~fi.struct
  <2> DEFINE known == Emplace(types, fi.type, "base", 0)
             size == known[fi.type].size
             more == Emplace(known, fi.alias, "base", size)
  <2>1. /\ known \in BaseTables(names)
        /\ fi.type \in DOMAIN known
        /\ GrownByBases(types, known)
    <3> DEFINE none == 0
    <3>1. none \in Nat
      OBVIOUS
    <3> HIDE DEF none
    <3>2. /\ Emplace(types, fi.type, "base", none) \in BaseTables(names)
          /\ fi.type \in DOMAIN Emplace(types, fi.type, "base", none)
          /\ GrownByBases(types, Emplace(types, fi.type, "base", none))
      BY <3>1, BaseEmplaced
    <3> QED
      BY <3>2 DEF none
  <2> HIDE DEF known
  <2>2. size \in Nat
    BY <2>1, TableFacts DEF BaseType
  <2> HIDE DEF size
  <2>3. /\ more \in BaseTables(names)
        /\ fi.type \in DOMAIN more
        /\ GrownByBases(known, more)
    BY <2>1, <2>2, BaseEmplaced DEF GrownByBases
  <2> HIDE DEF more
  <2>4. RegisterFieldType(types, fi) = known \/ RegisterFieldType(types, fi) = more
    BY <1>2 DEF RegisterFieldType, known, size, more
  <2> QED
    BY <2>1, <2>3, <2>4, GrowthIsTransitive
<1> QED
  BY <1>1, <1>2

\* The fields of a record leave no type of theirs unknown.
LEMMA FieldTypesRegistered ==
  ASSUME NEW names, NEW types \in BaseTables(names),
         NEW fields, IsList(fields),
         \A k \in DOMAIN fields : fields[k].type \in names /\ fields[k].alias \in names
  PROVE  /\ RegisterFieldTypes(types, fields) \in BaseTables(names)
         /\ GrownByBases(types, RegisterFieldTypes(types, fields))
         /\ \A k \in DOMAIN fields :
              fields[k].struct \/ fields[k].type \in DOMAIN RegisterFieldTypes(types, fields)
<1> DEFINE n == Len(fields)
           S == BaseTables(names)
           step == [k \in 1 .. n |-> [t \in S |-> RegisterFieldType(t, fields[k])]]
           known == CHOOSE f : f = [k \in 0 .. Len(fields) |->
                      IF k = 0 THEN types ELSE RegisterFieldType(f[k - 1], fields[k])]
<1>1. n \in Nat /\ DOMAIN fields = 1 .. n
  BY ListFacts
<1> HIDE DEF n, S
<1>2. ASSUME NEW t \in S, NEW k \in 1 .. n
      PROVE  /\ RegisterFieldType(t, fields[k]) \in S
             /\ GrownByBases(t, RegisterFieldType(t, fields[k]))
             /\ fields[k].struct \/ fields[k].type \in DOMAIN RegisterFieldType(t, fields[k])
  <2> DEFINE fi == fields[k]
  <2>1. fi.type \in names /\ fi.alias \in names
    BY <1>1
  <2> HIDE DEF fi
  <2>2. /\ RegisterFieldType(t, fi) \in S
        /\ GrownByBases(t, RegisterFieldType(t, fi))
        /\ fi.struct \/ fi.type \in DOMAIN RegisterFieldType(t, fi)
    BY <2>1, FieldTypeRegistered DEF S
  <2> QED
    BY <2>2 DEF fi
<1>3. step \in [1 .. n -> [S -> S]]
  BY <1>2
<1>4. PICK f : IsLoop(f, n, S, types, step)
  <2> HIDE DEF step
  <2>1. types \in S
    BY DEF S
  <2> QED
    BY <1>1, <1>3, <2>1, LoopIsDefined
<1>5. \A k \in 1 .. n : f[k] = RegisterFieldType(f[k - 1], fields[k])
  <2> SUFFICES ASSUME NEW k \in 1 .. n PROVE f[k] = RegisterFieldType(f[k - 1], fields[k])
    OBVIOUS
  <2>1. k - 1 \in 0 .. n
    BY <1>1
  <2>2. f[k - 1] \in S /\ f[k] = step[k][f[k - 1]]
    BY <1>4, <2>1 DEF IsLoop
  <2> QED
    BY <2>2
<1>6. f = [k \in 0 .. Len(fields) |->
             IF k = 0 THEN types ELSE RegisterFieldType(f[k - 1], fields[k])]
  BY <1>1, <1>4, <1>5 DEF IsLoop, n
<1>7. known = [k \in 0 .. Len(fields) |->
                 IF k = 0 THEN types ELSE RegisterFieldType(known[k - 1], fields[k])]
  BY <1>6
<1>8. RegisterFieldTypes(types, fields) = known[n]
  BY DEF RegisterFieldTypes, n
<1> HIDE DEF known
<1>9. known[0] = types /\ \A k \in 1 .. n : known[k] = RegisterFieldType(known[k - 1], fields[k])
  BY <1>1, <1>7 DEF n
<1> DEFINE Good(k) == /\ known[k] \in S
                      /\ GrownByBases(types, known[k])
                      /\ \A j \in 1 .. k :
                           fields[j].struct \/ fields[j].type \in DOMAIN known[k]
           K == {k \in 0 .. n : Good(k)}
<1>10. 0 .. n \subseteq K
  <2>1. 0 \in K
    BY <1>1, <1>9 DEF GrownByBases, S
  <2>2. ASSUME NEW k \in 1 .. n, k - 1 \in K
        PROVE  k \in K
    <3> DEFINE t == known[k - 1]
               more == known[k]
    <3>1. /\ t \in S /\ GrownByBases(types, t)
          /\ \A j \in 1 .. k - 1 : fields[j].struct \/ fields[j].type \in DOMAIN t
      BY <2>2
    <3>2. more = RegisterFieldType(t, fields[k])
      BY <1>9
    <3> HIDE DEF t, more
    <3>3. /\ more \in S /\ GrownByBases(t, more)
          /\ fields[k].struct \/ fields[k].type \in DOMAIN more
      BY <1>2, <3>1, <3>2
    <3>4. GrownByBases(types, more)
      BY <3>1, <3>3, GrowthIsTransitive
    <3>5. DOMAIN t \subseteq DOMAIN more
      BY <3>3 DEF GrownByBases
    <3>6. 1 .. k = (1 .. k - 1) \cup {k} /\ k \in 0 .. n
      BY <1>1
    <3>7. \A j \in 1 .. k : fields[j].struct \/ fields[j].type \in DOMAIN more
      BY <3>1, <3>3, <3>5, <3>6
    <3> QED
      BY <3>3, <3>4, <3>6, <3>7 DEF more
  <2> HIDE DEF K
  <2> QED
    BY <1>1, <2>1, <2>2, LoopInvariant
<1>11. Good(n)
  BY <1>1, <1>10
<1> QED
  BY <1>1, <1>8, <1>11 DEF S

\* SetToSeq lists each element of a finite set.
LEMMA SetListed ==
  ASSUME NEW S, IsFiniteSet(S)
  PROVE  /\ IsList(SetToSeq(S))
         /\ {SetToSeq(S)[k] : k \in DOMAIN SetToSeq(S)} = S
<1> DEFINE n == Cardinality(S)
           s == SetToSeq(S)
<1>1. n \in Nat /\ ExistsBijection(1 .. n, S)
  BY FS_CardinalityType
<1>2. \E f \in [1 .. n -> S] : IsInjective(f)
  BY <1>1 DEF ExistsBijection, Bijection, Injection
<1>3. s \in [1 .. n -> S] /\ IsInjective(s)
  BY <1>2 DEF SetToSeq
<1> HIDE DEF s, n
<1>4. s \in Injection(1 .. n, S)
  BY <1>3 DEF Injection
<1>5. IsFiniteSet(1 .. n) /\ Cardinality(1 .. n) = n
  <2>1. IsFiniteSet(1 .. n) /\ Cardinality(1 .. n) = IF 1 > n THEN 0 ELSE n - 1 + 1
    BY <1>1, FS_Interval
  <2> QED
    BY <1>1, <2>1
<1>6. s \in Surjection(1 .. n, S)
  <2> DEFINE T == 1 .. n
  <2>1. s \in Injection(T, S) /\ Cardinality(T) = Cardinality(S)
    BY <1>4, <1>5 DEF n
  <2> HIDE DEF T
  <2>2. s \in Surjection(T, S)
    BY <2>1, FS_Injection
  <2> QED
    BY <2>2 DEF T
<1>7. s \in Seq(S)
  BY <1>1, <1>3
<1>8. {s[k] : k \in DOMAIN s} = S
  BY <1>3, <1>6 DEF Surjection
<1> QED
  BY <1>7, <1>8, SequencesAreLists DEF s

-----------------------------------------------------------------------------
\* The names in a file.

\* A type that is visited goes by the name of its tag.
NamesFit(types) ==
  \A k \in DOMAIN types :
    types[k].name = TagName(types[k].tag) /\ types[k].name # EmptyName

\* The types of the fields that a record has itself are known, or records.
FieldsFit(tag, known) ==
  \A k \in DOMAIN OwnFields(tag) :
    OwnFields(tag)[k].struct \/ OwnFields(tag)[k].type \in known

\* What is known of the base types, and what is written.
KnownInv ==
  /\ AliasInv
  /\ BaseTypes \in BaseTables(DOMAIN BaseTypes)
  /\ \A n \in DOMAIN BaseTypes :
       BaseTypes[n].variant # "base" => n \in TypeNames(Results) \cup TypeNames(EnumResults)
  /\ NamesFit(Results) /\ NamesFit(EnumResults)
  /\ \A k \in DOMAIN Results : FieldsFit(Results[k].tag, DOMAIN BaseTypes)
  /\ output # <<>> => output = TextOrder(Results, EnumResults)

\* What is asked of the unit is the same in the next state.
LEMMA UnitStays ==
  ASSUME unit' = unit
  PROVE  /\ \A tag : TagName(tag)' = TagName(tag)
         /\ \A tag : OwnFields(tag)' = OwnFields(tag)
<1>1. \A tag : TagName(tag)' = TagName(tag)
  BY DEF TagName
<1>2. \A base : IsRecord(base)' = IsRecord(base) /\ IsTag(base)' = IsTag(base)
  BY DEF IsRecord, IsTag
<1>3. \A base, layers : CleanName(base, layers)' = CleanName(base, layers)
  BY <1>1, <1>2 DEF CleanName
<1>4. \A f, name, offset : CreateFieldInfo(f, name, offset)' = CreateFieldInfo(f, name, offset)
  BY <1>2, <1>3, ZenonT(30) DEF CreateFieldInfo
<1>5. \A tag : OwnFields(tag)' = OwnFields(tag)
  BY <1>4 DEF OwnFields
<1> QED
  BY <1>1, <1>5

LEMMA OwnFieldsListed ==
  ASSUME unit \in Units, NEW tag \in DOMAIN unit.tags
  PROVE  IsList(OwnFields(tag))
<1> DEFINE n == Len(unit.tags[tag].fields)
           fields == OwnFields(tag)
<1>1. n \in Nat /\ DOMAIN unit.tags[tag].fields = 1 .. n
  BY UnitFacts
<1>2. fields = [k \in 1 .. n |-> fields[k]]
  BY <1>1 DEF OwnFields
<1> HIDE DEF n, fields
<1>3. IsList(fields)
  BY <1>1, <1>2, FunctionsAreLists
<1> QED
  BY <1>3 DEF fields

\* A record that is visited makes base types of the types of its fields, and
\* enters its name.
LEMMA RecordTypesRegistered ==
  ASSUME KnownInv, NEW tag \in DOMAIN unit.tags, NEW more,
         more = Emplace(RegisterFieldTypes(BaseTypes, OwnFields(tag)), TagName(tag),
                        unit.tags[tag].type, unit.tags[tag].size)
  PROVE  /\ more \in BaseTables(DOMAIN more)
         /\ DOMAIN BaseTypes \subseteq DOMAIN more
         /\ \A n \in DOMAIN more :
              more[n].variant # "base" =>
                \/ n = TagName(tag)
                \/ n \in DOMAIN BaseTypes /\ BaseTypes[n].variant # "base"
         /\ FieldsFit(tag, DOMAIN more)
<1> DEFINE fields == OwnFields(tag)
           name == TagName(tag)
           names == DOMAIN BaseTypes \cup {fields[k].type : k \in DOMAIN fields}
                      \cup {fields[k].alias : k \in DOMAIN fields} \cup {name}
           types == RegisterFieldTypes(BaseTypes, fields)
           variant == unit.tags[tag].type
           size == unit.tags[tag].size
<1>1. variant \in Variants /\ size \in Nat /\ unit \in Units
  BY UnitFacts DEF Variants, KnownInv, AliasInv, PlaceInv
<1>2. IsList(fields)
  BY <1>1, OwnFieldsListed
<1>3. /\ \A k \in DOMAIN fields : fields[k].type \in names /\ fields[k].alias \in names
      /\ name \in names
      /\ DOMAIN BaseTypes \subseteq names
  OBVIOUS
<1> HIDE DEF names
<1>4. BaseTypes \in BaseTables(names)
  BY <1>3 DEF KnownInv, BaseTables
<1> HIDE DEF fields, types, name, variant, size
<1>5. /\ types \in BaseTables(names)
      /\ GrownByBases(BaseTypes, types)
      /\ \A k \in DOMAIN fields : fields[k].struct \/ fields[k].type \in DOMAIN types
  BY <1>2, <1>3, <1>4, FieldTypesRegistered DEF types
<1>6. more = Emplace(types, name, variant, size)
  BY DEF types, fields, name, variant, size
<1>7. /\ more \in BaseTables(names)
      /\ DOMAIN more = DOMAIN types \cup {name}
      /\ \A n \in DOMAIN types : more[n] = types[n]
  <2>1. types \in BaseTables(names) /\ name \in names
    BY <1>3, <1>5
  <2>2. variant \in Variants /\ size \in Nat
    BY <1>1
  <2>3. Emplace(types, name, variant, size) \in BaseTables(names)
    BY <2>1, <2>2, EmplaceFacts
  <2>4. DOMAIN Emplace(types, name, variant, size) = DOMAIN types \cup {name}
    BY DEF Emplace, Set
  <2>5. \A n \in DOMAIN types : Emplace(types, name, variant, size)[n] = types[n]
    BY DEF Emplace, Set
  <2> QED
    BY <1>6, <2>3, <2>4, <2>5
<1>8. more \in BaseTables(DOMAIN more)
  BY <1>7 DEF BaseTables
<1>9. DOMAIN BaseTypes \subseteq DOMAIN more
  BY <1>5, <1>7 DEF GrownByBases
<1>10. ASSUME NEW n \in DOMAIN more, more[n].variant # "base", n # name
       PROVE  n \in DOMAIN BaseTypes /\ BaseTypes[n].variant # "base"
  BY <1>5, <1>7, <1>10 DEF GrownByBases
<1>11. FieldsFit(tag, DOMAIN more)
  BY <1>5, <1>7 DEF FieldsFit, fields
<1> QED
  BY <1>8, <1>9, <1>10, <1>11 DEF name

LEMMA KnownInit == Init => KnownInv
<1> SUFFICES ASSUME Init PROVE KnownInv
  OBVIOUS
<1>1. AliasInv
  BY AliasInit
<1>2. /\ BaseTypes = [n \in DOMAIN Builtin |-> [variant |-> "base", size |-> Builtin[n]]]
      /\ Results = <<>> /\ EnumResults = <<>> /\ output = <<>>
  BY DEF Init
<1>3. \A n \in DOMAIN BaseTypes : BaseTypes[n] \in BaseType /\ BaseTypes[n].variant = "base"
  BY <1>2, BuiltinAssumption DEF BaseType, Variants
<1>4. BaseTypes \in [DOMAIN BaseTypes -> BaseType] /\ IsFiniteSet(DOMAIN BaseTypes)
  BY <1>2, <1>3, BuiltinAssumption
<1>5. BaseTypes \in BaseTables(DOMAIN BaseTypes)
  BY <1>4 DEF BaseTables
<1> QED
  BY <1>1, <1>2, <1>3, <1>5 DEF KnownInv, NamesFit

\* Steps that visit no definition.
LEMMA KnownStays ==
  ASSUME KnownInv, AliasInv', UNCHANGED <<unit, Results, EnumResults, BaseTypes>>,
         output = <<>>, output' = <<>>
  PROVE  KnownInv'
<1>1. \A tag : TagName(tag)' = TagName(tag)
  BY UnitStays
<1>2. \A tag : OwnFields(tag)' = OwnFields(tag)
  BY UnitStays
<1>3. NamesFit(Results)' /\ NamesFit(EnumResults)'
  BY <1>1 DEF KnownInv, NamesFit
<1>4. \A k \in DOMAIN Results' : FieldsFit(Results[k].tag, DOMAIN BaseTypes)'
  BY <1>2 DEF KnownInv, FieldsFit
<1> QED
  BY <1>3, <1>4 DEF KnownInv

LEMMA NameJoins ==
  ASSUME NEW types, NEW d, NEW more, Joined(more, types, d), NamesFit(types),
         d.name = TagName(d.tag), d.name # EmptyName
  PROVE  /\ NamesFit(more)
         /\ TypeNames(more) = TypeNames(types) \cup {d.name}
<1>1. NamesFit(more)
  BY DEF NamesFit, Joined
<1>2. TypeNames(more) = TypeNames(types) \cup {d.name}
  BY DEF TypeNames, Joined
<1> QED
  BY <1>1, <1>2

LEMMA KnownRecordStep == KnownInv /\ VisitRecordDecl => KnownInv'
<1> SUFFICES ASSUME KnownInv, VisitRecordDecl PROVE KnownInv'
  OBVIOUS
<1> DEFINE tag == decl.tag
           def == unit.tags[tag]
           d == [tag |-> tag, type |-> def.type, name |-> TagName(tag), size |-> def.size,
                 fields |-> AllFields(tag), aliases |-> AddMissing(<<>>, Pending(tag))]
           more == Append(Results, d)
           types == BaseTypes'
<1>1. /\ Shown("record") /\ Wanted
      /\ Results' = more
      /\ types = Emplace(RegisterFieldTypes(BaseTypes, OwnFields(tag)),
                         TagName(tag), def.type, def.size)
      /\ EnumResults' = EnumResults
  BY DEF VisitRecordDecl
<1>2. AliasInv'
  BY VisitRecordStep DEF KnownInv
<1>3. /\ unit' = unit /\ output' = <<>>
      /\ unit \in Units /\ next \in DOMAIN unit.decls
      /\ unit.decls[next].kind = "record" /\ unit.decls[next].tag = tag
  BY <1>1, ShownFacts DEF KnownInv, AliasInv, PlaceInv, decl
<1>4. tag \in DOMAIN unit.tags
  BY <1>3, UnitsAssumption
<1>5. d.tag = tag /\ d.name = TagName(tag) /\ d.name # EmptyName
  BY <1>1 DEF Wanted
<1> HIDE DEF d
<1>j. Joined(more, Results, d)
  <2>1. IsList(Results)
    BY DEF KnownInv, AliasInv, TypesFit
  <2> QED
    BY <2>1, ListAppended DEF Joined
<1>6. Results' = more
  BY <1>1
<1> HIDE DEF more, tag
<1>7. NamesFit(more) /\ TypeNames(more) = TypeNames(Results) \cup {d.name}
  BY <1>j, <1>5, NameJoins DEF KnownInv
<1> HIDE DEF types
<1>8. /\ types \in BaseTables(DOMAIN types)
      /\ DOMAIN BaseTypes \subseteq DOMAIN types
      /\ \A n \in DOMAIN types :
           types[n].variant # "base" =>
             \/ n = TagName(tag)
             \/ n \in DOMAIN BaseTypes /\ BaseTypes[n].variant # "base"
      /\ FieldsFit(tag, DOMAIN types)
  <2>1. types = Emplace(RegisterFieldTypes(BaseTypes, OwnFields(tag)),
                         TagName(tag), unit.tags[tag].type, unit.tags[tag].size)
    BY <1>1
  <2> HIDE DEF def
  <2> QED
    BY <1>4, <2>1, RecordTypesRegistered
<1>9. types = BaseTypes'
  BY DEF types
<1>10. \A n \in DOMAIN types :
         types[n].variant # "base" => n \in TypeNames(more) \cup TypeNames(EnumResults)
  BY <1>5, <1>7, <1>8 DEF KnownInv
<1>11. \A k \in DOMAIN more : FieldsFit(more[k].tag, DOMAIN types)
  BY <1>j, <1>5, <1>8 DEF KnownInv, Joined, FieldsFit
<1>12. \A t : TagName(t)' = TagName(t)
  BY <1>3, UnitStays
<1>13. \A t : OwnFields(t)' = OwnFields(t)
  BY <1>3, UnitStays
<1>14. NamesFit(Results)' /\ NamesFit(EnumResults)'
  BY <1>1, <1>6, <1>7, <1>12 DEF KnownInv, NamesFit
<1>15. \A k \in DOMAIN Results' : FieldsFit(Results[k].tag, DOMAIN BaseTypes)'
  BY <1>6, <1>9, <1>11, <1>13 DEF FieldsFit
<1> QED
  BY <1>1, <1>2, <1>3, <1>6, <1>8, <1>9, <1>10, <1>14, <1>15 DEF KnownInv

LEMMA KnownEnumStep == KnownInv /\ VisitEnumDecl => KnownInv'
<1> SUFFICES ASSUME KnownInv, VisitEnumDecl PROVE KnownInv'
  OBVIOUS
<1> DEFINE tag == decl.tag
           def == unit.tags[tag]
           d == [tag |-> tag, type |-> "enum", name |-> TagName(tag), size |-> def.size,
                 fields |-> def.fields, aliases |-> AddMissing(<<>>, Pending(tag))]
           more == Append(EnumResults, d)
           types == BaseTypes'
           name == TagName(tag)
           variant == "enum"
           size == def.size
<1>1. /\ Shown("enum") /\ Wanted
      /\ EnumResults' = more
      /\ types = Emplace(BaseTypes, name, variant, size)
      /\ Results' = Results
  BY DEF VisitEnumDecl
<1>2. AliasInv'
  BY VisitEnumStep DEF KnownInv
<1>3. /\ unit' = unit /\ output' = <<>>
      /\ unit \in Units /\ next \in DOMAIN unit.decls
      /\ unit.decls[next].kind = "enum" /\ unit.decls[next].tag = tag
  BY <1>1, ShownFacts DEF KnownInv, AliasInv, PlaceInv, decl
<1>4. size \in Nat /\ variant \in Variants
  BY <1>3, UnitsAssumption DEF Variants
<1>5. d.name = TagName(d.tag) /\ d.name = name /\ d.name # EmptyName
  BY <1>1 DEF Wanted
<1> HIDE DEF d, variant, size
<1>j. Joined(more, EnumResults, d)
  <2>1. IsList(EnumResults)
    BY DEF KnownInv, AliasInv, TypesFit
  <2> QED
    BY <2>1, ListAppended DEF Joined
<1>6. EnumResults' = more
  BY <1>1
<1> HIDE DEF more, name, tag
<1>7. NamesFit(more) /\ TypeNames(more) = TypeNames(EnumResults) \cup {d.name}
  BY <1>j, <1>5, NameJoins DEF KnownInv
<1> HIDE DEF types
<1>8. /\ types \in BaseTables(DOMAIN types)
      /\ DOMAIN types = DOMAIN BaseTypes \cup {name}
      /\ \A n \in DOMAIN BaseTypes : types[n] = BaseTypes[n]
  <2> DEFINE names == DOMAIN BaseTypes \cup {name}
  <2>1. BaseTypes \in BaseTables(names) /\ name \in names
    BY DEF KnownInv, BaseTables
  <2> HIDE DEF names
  <2>2. types = Emplace(BaseTypes, name, variant, size)
    BY <1>1
  <2>3. size \in Nat /\ variant \in Variants
    BY <1>4
  <2> HIDE DEF variant, size
  <2>4. /\ Emplace(BaseTypes, name, variant, size) \in BaseTables(names)
        /\ DOMAIN Emplace(BaseTypes, name, variant, size) = DOMAIN BaseTypes \cup {name}
        /\ \A n \in DOMAIN BaseTypes :
             Emplace(BaseTypes, name, variant, size)[n] = BaseTypes[n]
    BY <2>1, <2>3, EmplaceFacts
  <2> QED
    BY <2>2, <2>4 DEF names
<1>9. types = BaseTypes'
  BY DEF types
<1>10. \A n \in DOMAIN types :
         types[n].variant # "base" => n \in TypeNames(Results) \cup TypeNames(more)
  BY <1>5, <1>7, <1>8 DEF KnownInv
<1>11. \A k \in DOMAIN Results : FieldsFit(Results[k].tag, DOMAIN types)
  BY <1>8 DEF KnownInv, FieldsFit
<1>12. \A t : TagName(t)' = TagName(t)
  BY <1>3, UnitStays
<1>13. \A t : OwnFields(t)' = OwnFields(t)
  BY <1>3, UnitStays
<1>14. NamesFit(Results)' /\ NamesFit(EnumResults)'
  BY <1>1, <1>6, <1>7, <1>12 DEF KnownInv, NamesFit
<1>15. \A k \in DOMAIN Results' : FieldsFit(Results[k].tag, DOMAIN BaseTypes)'
  BY <1>1, <1>9, <1>11, <1>13 DEF FieldsFit
<1> QED
  BY <1>1, <1>2, <1>3, <1>6, <1>8, <1>9, <1>10, <1>14, <1>15 DEF KnownInv

LEMMA KnownHandleStep == KnownInv /\ HandleTranslationUnit => KnownInv'
<1> SUFFICES ASSUME KnownInv, HandleTranslationUnit PROVE KnownInv'
  OBVIOUS
<1>1. /\ Results' = Merged(Results) /\ EnumResults' = Merged(EnumResults)
      /\ unit' = unit /\ BaseTypes' = BaseTypes
      /\ output' = TextOrder(Results', EnumResults')
  BY DEF HandleTranslationUnit
<1>2. AliasInv'
  BY HandleStep DEF KnownInv
<1>3. ASSUME NEW types, TypesFit(types, unit, next, PendingAliases), NamesFit(types)
      PROVE  NamesFit(Merged(types)) /\ TypeNames(Merged(types)) = TypeNames(types)
  <2> DEFINE merged == Merged(types)
  <2>1. /\ DOMAIN merged = DOMAIN types
        /\ \A k \in DOMAIN types :
             merged[k].tag = types[k].tag /\ merged[k].name = types[k].name
    BY <1>3, MergedFits DEF KnownInv
  <2> HIDE DEF merged
  <2>2. NamesFit(merged) /\ TypeNames(merged) = TypeNames(types)
    BY <1>3, <2>1 DEF NamesFit, TypeNames
  <2> QED
    BY <2>2 DEF merged
<1>4. /\ NamesFit(Results') /\ TypeNames(Results') = TypeNames(Results)
      /\ NamesFit(EnumResults') /\ TypeNames(EnumResults') = TypeNames(EnumResults)
  BY <1>1, <1>3 DEF KnownInv, AliasInv
<1>5. /\ DOMAIN Results' = DOMAIN Results
      /\ \A k \in DOMAIN Results : Results'[k].tag = Results[k].tag
  BY <1>1, MergedFits DEF KnownInv, AliasInv
<1>6. \A t : TagName(t)' = TagName(t)
  BY <1>1, UnitStays
<1>7. \A t : OwnFields(t)' = OwnFields(t)
  BY <1>1, UnitStays
<1>8. NamesFit(Results)' /\ NamesFit(EnumResults)'
  BY <1>4, <1>6 DEF NamesFit
<1>9. \A k \in DOMAIN Results' : FieldsFit(Results[k].tag, DOMAIN BaseTypes)'
  BY <1>1, <1>5, <1>7 DEF KnownInv, FieldsFit
<1>10. BaseEntries' = BaseEntries
  BY <1>1 DEF BaseEntries
<1>11. output' = TextOrder(Results, EnumResults)'
  BY <1>1, <1>10 DEF TextOrder
<1> QED
  BY <1>1, <1>2, <1>4, <1>8, <1>9, <1>11 DEF KnownInv

\* KnownInv holds in every state, whatever the unit is.
THEOREM KnownInvariant == Spec => []KnownInv
<1>1. Init => KnownInv
  BY KnownInit
<1>2. KnownInv /\ [Next]_vars => KnownInv'
  <2> SUFFICES ASSUME KnownInv, [Next]_vars PROVE KnownInv'
    OBVIOUS
  <2>1. CASE SkipTag
    <3>1. PICK kind \in {"record", "enum"} : Shown(kind)
      BY <2>1 DEF SkipTag
    <3>2. output = <<>> /\ output' = <<>> /\ unit' = unit
      BY <3>1, ShownFacts DEF KnownInv, AliasInv
    <3>3. UNCHANGED <<Results, EnumResults, BaseTypes>>
      BY <2>1 DEF SkipTag
    <3> QED
      BY <2>1, <3>2, <3>3, SkipTagStep, KnownStays DEF KnownInv
  <2>2. CASE VisitRecordDecl
    BY <2>2, KnownRecordStep
  <2>3. CASE VisitEnumDecl
    BY <2>3, KnownEnumStep
  <2>4. CASE VisitTypedefDecl
    <3>1. Shown("typedef") /\ UNCHANGED <<Results, EnumResults, BaseTypes>>
      BY <2>4 DEF VisitTypedefDecl
    <3>2. output = <<>> /\ output' = <<>> /\ unit' = unit
      BY <3>1, ShownFacts DEF KnownInv, AliasInv
    <3> QED
      BY <2>4, <3>1, <3>2, VisitTypedefStep, KnownStays DEF KnownInv
  <2>5. CASE HandleTranslationUnit
    BY <2>5, KnownHandleStep
  <2>6. CASE UNCHANGED vars
    <3>1. /\ unit' = unit /\ Results' = Results /\ EnumResults' = EnumResults
          /\ BaseTypes' = BaseTypes /\ output' = output
      BY <2>6 DEF vars
    <3>2. AliasInv'
      BY <2>6 DEF vars, KnownInv, AliasInv, PlaceInv
    <3>3. \A t : TagName(t)' = TagName(t)
      BY <3>1, UnitStays
    <3>4. \A t : OwnFields(t)' = OwnFields(t)
      BY <3>1, UnitStays
    <3>5. NamesFit(Results)' /\ NamesFit(EnumResults)'
      BY <3>1, <3>3 DEF KnownInv, NamesFit
    <3>6. \A k \in DOMAIN Results' : FieldsFit(Results[k].tag, DOMAIN BaseTypes)'
      BY <3>1, <3>4 DEF KnownInv, FieldsFit
    <3>7. TextOrder(Results, EnumResults)' = TextOrder(Results, EnumResults)
      BY <3>1 DEF TextOrder, BaseEntries
    <3> QED
      BY <3>1, <3>2, <3>5, <3>6, <3>7 DEF KnownInv
  <2> QED
    BY <2>1, <2>2, <2>3, <2>4, <2>5, <2>6 DEF Next
<1> QED
  BY <1>1, <1>2, PTL DEF Spec

\* The variables have their types: the variant of every base type, the tags
\* of all that is pending, the lists of records and of enums.
THEOREM TypeCorrect == Spec => []TypeOK
<1>1. KnownInv => TypeOK
  <2> SUFFICES ASSUME KnownInv PROVE TypeOK
    OBVIOUS
  <2>1. \A n \in DOMAIN BaseTypes :
          BaseTypes[n] \in [variant : {"base", "struct", "union", "enum"}, size : Nat]
    <3>1. \A n \in DOMAIN BaseTypes : BaseTypes[n] \in BaseType
      BY TableFacts DEF KnownInv
    <3> QED
      BY <3>1 DEF BaseType, Variants
  <2> QED
    BY <2>1 DEF TypeOK, KnownInv, AliasInv, PlaceInv, PendingFits
<1> QED
  BY <1>1, KnownInvariant, PTL

-----------------------------------------------------------------------------
\* What is written.

\* The entries for base types, of which there are finitely many, and those of
\* the records and enums, one after the other.
LEMMA BasesListed ==
  ASSUME KnownInv
  PROVE  /\ IsList(BaseEntries)
         /\ TypeNames(BaseEntries) = {n \in DOMAIN BaseTypes : BaseTypes[n].variant = "base"}
<1> DEFINE bases == {n \in DOMAIN BaseTypes : BaseTypes[n].variant = "base"}
           names == SetToSeq(bases)
<1>1. IsFiniteSet(bases)
  <2>1. IsFiniteSet(DOMAIN BaseTypes)
    BY TableFacts DEF KnownInv
  <2> QED
    BY <2>1, FS_Subset
<1>2. BaseEntries = [k \in DOMAIN names |->
         [type |-> "base", name |-> names[k], size |-> BaseTypes[names[k]].size,
          fields |-> <<>>, aliases |-> <<>>]]
  BY DEF BaseEntries
<1> HIDE DEF bases
<1>3. IsList(names) /\ {names[k] : k \in DOMAIN names} = bases
  BY <1>1, SetListed
<1> HIDE DEF names
<1>4. Len(names) \in Nat /\ DOMAIN names = 1 .. Len(names)
  BY <1>3, ListFacts
<1> DEFINE n == Len(names)
           entries == BaseEntries
<1>5. entries = [k \in 1 .. n |-> entries[k]] /\ \A k \in 1 .. n : entries[k].name = names[k]
  BY <1>2, <1>4
<1>6. n \in Nat
  BY <1>4
<1> HIDE DEF n, entries
<1>7. IsList(entries) /\ DOMAIN entries = 1 .. n
  BY <1>5, <1>6, FunctionsAreLists
<1>8. TypeNames(entries) = bases
  BY <1>3, <1>4, <1>5, <1>7 DEF TypeNames, n
<1> QED
  BY <1>7, <1>8 DEF entries, bases

LEMMA EntriesListed ==
  ASSUME NEW types, IsList(types)
  PROVE  /\ IsList(Entries(types))
         /\ Len(Entries(types)) = Len(types)
         /\ \A k \in DOMAIN types : Entries(types)[k] = Entry(types[k])
         /\ TypeNames(Entries(types)) = TypeNames(types)
<1> DEFINE n == Len(types)
           entries == Entries(types)
<1>1. n \in Nat /\ DOMAIN types = 1 .. n
  BY ListFacts
<1>2. entries = [k \in 1 .. n |-> entries[k]] /\ \A k \in 1 .. n : entries[k] = Entry(types[k])
  BY <1>1 DEF Entries
<1> HIDE DEF n, entries
<1>3. IsList(entries) /\ Len(entries) = n /\ DOMAIN entries = 1 .. n
  BY <1>1, <1>2, FunctionsAreLists
<1>4. \A k \in 1 .. n : entries[k].name = types[k].name
  BY <1>2 DEF Entry
<1>5. TypeNames(entries) = TypeNames(types)
  BY <1>1, <1>3, <1>4 DEF TypeNames
<1> QED
  BY <1>1, <1>2, <1>3, <1>5 DEF n, entries

\* The names of joined lists are those of the first and of the second.
LEMMA NamesJoined ==
  ASSUME NEW s, NEW t, IsList(s), IsList(t)
  PROVE  TypeNames(s \o t) = TypeNames(s) \cup TypeNames(t)
<1> DEFINE st == s \o t
<1>1. /\ IsList(st)
      /\ Len(st) = Len(s) + Len(t)
      /\ \A k \in 1 .. Len(s) : st[k] = s[k]
      /\ \A k \in 1 .. Len(t) : st[Len(s) + k] = t[k]
  BY ListsJoined
<1> HIDE DEF st
<1>2. /\ Len(s) \in Nat /\ DOMAIN s = 1 .. Len(s)
      /\ Len(t) \in Nat /\ DOMAIN t = 1 .. Len(t)
      /\ DOMAIN st = 1 .. Len(s) + Len(t)
  BY <1>1, ListFacts
<1>3. TypeNames(st) \subseteq TypeNames(s) \cup TypeNames(t)
  <2> SUFFICES ASSUME NEW k \in DOMAIN st
               PROVE  st[k].name \in TypeNames(s) \cup TypeNames(t)
    BY DEF TypeNames
  <2>1. CASE k \in 1 .. Len(s)
    BY <1>1, <1>2, <2>1 DEF TypeNames
  <2>2. CASE k \notin 1 .. Len(s)
    <3>1. k - Len(s) \in 1 .. Len(t) /\ Len(s) + (k - Len(s)) = k
      BY <1>2, <2>2
    <3>2. st[k] = t[k - Len(s)]
      BY <1>1, <3>1
    <3> QED
      BY <1>2, <3>1, <3>2 DEF TypeNames
  <2> QED
    BY <2>1, <2>2
<1>4. TypeNames(s) \subseteq TypeNames(st)
  <2> SUFFICES ASSUME NEW k \in DOMAIN s PROVE s[k].name \in TypeNames(st)
    BY DEF TypeNames
  <2>1. k \in DOMAIN st /\ st[k] = s[k]
    BY <1>1, <1>2
  <2> QED
    BY <2>1 DEF TypeNames
<1>5. TypeNames(t) \subseteq TypeNames(st)
  <2> SUFFICES ASSUME NEW k \in DOMAIN t PROVE t[k].name \in TypeNames(st)
    BY DEF TypeNames
  <2>1. Len(s) + k \in DOMAIN st /\ st[Len(s) + k] = t[k]
    BY <1>1, <1>2
  <2> QED
    BY <2>1 DEF TypeNames
<1> QED
  BY <1>3, <1>4, <1>5 DEF st

\* When a file is written, the type of every field of a record in it is in
\* the file, too, unless merge.py drops the field, whatever the unit declares.
THEOREM FieldTypesArrive == Spec => []FieldTypesKnown
<1>1. KnownInv => FieldTypesKnown
  <2> SUFFICES ASSUME KnownInv, Finished,
                      NEW k \in DOMAIN Results, NEW j \in DOMAIN OwnFields(Results[k].tag),
                      Kept(output, OwnFields(Results[k].tag)[j])
               PROVE  Known(OwnFields(Results[k].tag)[j])
    BY DEF FieldTypesKnown, ToSet
  <2> DEFINE f == OwnFields(Results[k].tag)[j]
             bases == {n \in DOMAIN BaseTypes : BaseTypes[n].variant = "base"}
  <2>1. CASE f.struct
    BY <2>1 DEF Kept, Known
  <2>2. CASE ~f.struct
    <3>1. f.type \in DOMAIN BaseTypes
      BY <2>2 DEF KnownInv, FieldsFit
    <3>2. f.type \in bases \cup TypeNames(Results) \cup TypeNames(EnumResults)
      BY <3>1 DEF KnownInv
    <3>3. TypeNames(output) = bases \cup TypeNames(Results) \cup TypeNames(EnumResults)
      <4> DEFINE r == Entries(Results)
                 e == Entries(EnumResults)
                 b == BaseEntries
      <4>1. output = b \o r \o e
        BY DEF Finished, KnownInv, TextOrder
      <4>2. IsList(Results) /\ IsList(EnumResults)
        BY DEF KnownInv, AliasInv, TypesFit
      <4>3. IsList(r) /\ TypeNames(r) = TypeNames(Results)
        BY <4>2, EntriesListed
      <4>4. IsList(e) /\ TypeNames(e) = TypeNames(EnumResults)
        BY <4>2, EntriesListed
      <4>5. IsList(b) /\ TypeNames(b) = bases
        BY BasesListed
      <4> HIDE DEF b, r, e
      <4>6. IsList(b \o r) /\ TypeNames(b \o r) = TypeNames(b) \cup TypeNames(r)
        BY <4>3, <4>5, ListsJoined, NamesJoined
      <4> DEFINE br == b \o r
      <4>7. IsList(br)
        BY <4>6
      <4> HIDE DEF br
      <4>8. TypeNames(br \o e) = TypeNames(br) \cup TypeNames(e)
        BY <4>4, <4>7, NamesJoined
      <4> QED
        BY <4>1, <4>3, <4>4, <4>5, <4>6, <4>8 DEF br
    <3> QED
      BY <3>2, <3>3 DEF Known
  <2> QED
    BY <2>1, <2>2
<1> QED
  BY <1>1, KnownInvariant, PTL

\* Where the entries of what was visited stand in the file.
LEMMA EntriesPlaced ==
  ASSUME KnownInv, Finished
  PROVE  \E n \in Nat :
           /\ DOMAIN Visited = 1 .. Len(Visited) /\ Len(Visited) \in Nat
           /\ DOMAIN output = 1 .. n + Len(Visited)
           /\ \A k \in DOMAIN Visited : output[n + k] = Entry(Visited[k])
<1> DEFINE r == Entries(Results)
           e == Entries(EnumResults)
           b == BaseEntries
           br == b \o r
           bre == br \o e
           m == Len(Results)
           l == Len(EnumResults)
           n == Len(b)
<1>1. output = bre
  BY DEF Finished, KnownInv, TextOrder
<1>2. IsList(Results) /\ IsList(EnumResults)
  BY DEF KnownInv, AliasInv, TypesFit
<1>3. /\ m \in Nat /\ DOMAIN Results = 1 .. m
      /\ l \in Nat /\ DOMAIN EnumResults = 1 .. l
  BY <1>2, ListFacts
<1>4. IsList(r) /\ Len(r) = m /\ \A k \in 1 .. m : r[k] = Entry(Results[k])
  BY <1>2, <1>3, EntriesListed
<1>5. IsList(e) /\ Len(e) = l /\ \A k \in 1 .. l : e[k] = Entry(EnumResults[k])
  BY <1>2, <1>3, EntriesListed
<1>6. IsList(b) /\ n \in Nat
  BY BasesListed, ListFacts
<1> HIDE DEF b, r, e
<1>7. /\ IsList(br) /\ Len(br) = n + m
      /\ \A k \in 1 .. m : br[n + k] = r[k]
  BY <1>4, <1>6, ListsJoined
<1> HIDE DEF br
<1>8. /\ IsList(bre) /\ Len(bre) = (n + m) + l
      /\ \A k \in 1 .. n + m : bre[k] = br[k]
      /\ \A k \in 1 .. l : bre[(n + m) + k] = e[k]
  <2>1. /\ IsList(bre) /\ Len(bre) = Len(br) + Len(e)
        /\ \A k \in 1 .. Len(br) : bre[k] = br[k]
        /\ \A k \in 1 .. Len(e) : bre[Len(br) + k] = e[k]
    BY <1>5, <1>7, ListsJoined
  <2> QED
    BY <1>5, <1>7, <2>1
<1> HIDE DEF bre
<1>9. /\ DOMAIN Visited = 1 .. m + l
      /\ \A k \in 1 .. m : Visited[k] = Results[k]
      /\ \A k \in 1 .. l : Visited[m + k] = EnumResults[k]
  BY <1>2, VisitedFacts
<1>10. Len(Visited) = m + l
  BY <1>2, ListsJoined DEF Visited
<1>11. DOMAIN output = 1 .. n + Len(Visited)
  <2>1. DOMAIN bre = 1 .. Len(bre)
    BY <1>8, ListFacts
  <2> QED
    BY <1>1, <1>3, <1>6, <1>8, <1>10, <2>1
<1> HIDE DEF m, l, n
<1>12. ASSUME NEW k \in 1 .. m + l
       PROVE  output[n + k] = Entry(Visited[k])
  <2>1. CASE k \in 1 .. m
    <3>1. n + k \in 1 .. n + m
      BY <1>3, <1>6, <2>1
    <3> QED
      BY <1>1, <1>4, <1>7, <1>8, <1>9, <2>1, <3>1
  <2>2. CASE k \notin 1 .. m
    <3> DEFINE i == k - m
    <3>1. i \in 1 .. l /\ m + i = k /\ (n + m) + i = n + k
      BY <1>3, <1>6, <2>2
    <3> HIDE DEF i
    <3> QED
      BY <1>1, <1>5, <1>8, <1>9, <3>1
  <2> QED
    BY <2>1, <2>2
<1>13. Len(Visited) \in Nat /\ DOMAIN Visited = 1 .. Len(Visited)
  BY <1>3, <1>9, <1>10
<1> QED
  BY <1>6, <1>9, <1>11, <1>12, <1>13

\* No two tags of a unit have the same name to go by.  C does not promise it:
\* a tag may have the name of a typedef, or of a tag of another scope.
DistinctNames ==
  \A s, t \in DOMAIN unit.tags : TagName(s) = TagName(t) /\ TagName(s) # EmptyName => s = t

\* A tag is visited once, as a record or as an enum.
LEMMA VisitedOnce ==
  ASSUME KnownInv
  PROVE  /\ \A k \in DOMAIN Visited : /\ Visited[k].tag \in DOMAIN unit.tags
                                      /\ Visited[k].name = TagName(Visited[k].tag)
                                      /\ Visited[k].name # EmptyName
         /\ \A j, k \in DOMAIN Visited : Visited[j].tag = Visited[k].tag => j = k
<1> DEFINE m == Len(Results)
           l == Len(EnumResults)
<1>1. IsList(Results) /\ IsList(EnumResults)
  BY DEF KnownInv, AliasInv, TypesFit
<1>2. /\ m \in Nat /\ DOMAIN Results = 1 .. m
      /\ l \in Nat /\ DOMAIN EnumResults = 1 .. l
  BY <1>1, ListFacts
<1>3. /\ DOMAIN Visited = 1 .. m + l
      /\ \A k \in 1 .. m : Visited[k] = Results[k]
      /\ \A k \in 1 .. l : Visited[m + k] = EnumResults[k]
  BY <1>1, VisitedFacts
<1> HIDE DEF m, l
<1>4. \A k \in 1 .. m + l : k \notin 1 .. m =>
        k - m \in 1 .. l /\ m + (k - m) = k /\ Visited[k] = EnumResults[k - m]
  BY <1>2, <1>3
<1>5. \A k \in 1 .. m :
        /\ Results[k].tag \in DOMAIN unit.tags
        /\ unit.tags[Results[k].tag].type # "enum"
        /\ Results[k].name = TagName(Results[k].tag) /\ Results[k].name # EmptyName
        /\ \A j \in 1 .. m : Results[j].tag = Results[k].tag => j = k
  BY <1>2 DEF KnownInv, AliasInv, TypesFit, TypeFits, NamesFit
<1>6. \A k \in 1 .. l :
        /\ EnumResults[k].tag \in DOMAIN unit.tags
        /\ unit.tags[EnumResults[k].tag].type = "enum"
        /\ EnumResults[k].name = TagName(EnumResults[k].tag) /\ EnumResults[k].name # EmptyName
        /\ \A j \in 1 .. l : EnumResults[j].tag = EnumResults[k].tag => j = k
  BY <1>2 DEF KnownInv, AliasInv, TypesFit, TypeFits, NamesFit
<1>7. ASSUME NEW k \in 1 .. m + l
      PROVE  /\ Visited[k].tag \in DOMAIN unit.tags
             /\ Visited[k].name = TagName(Visited[k].tag)
             /\ Visited[k].name # EmptyName
             /\ unit.tags[Visited[k].tag].type = "enum" <=> k \notin 1 .. m
  <2>1. CASE k \in 1 .. m
    BY <1>3, <1>5, <2>1
  <2>2. CASE k \notin 1 .. m
    <3> DEFINE i == k - m
    <3>1. i \in 1 .. l /\ Visited[k] = EnumResults[i]
      BY <1>4, <2>2
    <3> HIDE DEF i
    <3> QED
      BY <1>6, <2>2, <3>1
  <2> QED
    BY <2>1, <2>2
<1>8. ASSUME NEW j \in 1 .. m + l, NEW k \in 1 .. m + l, Visited[j].tag = Visited[k].tag
      PROVE  j = k
  <2>1. j \in 1 .. m <=> k \in 1 .. m
    BY <1>7, <1>8
  <2>2. CASE k \in 1 .. m
    BY <1>3, <1>5, <1>8, <2>1, <2>2
  <2>3. CASE k \notin 1 .. m
    <3> DEFINE a == j - m
               b == k - m
    <3>1. /\ a \in 1 .. l /\ m + a = j /\ Visited[j] = EnumResults[a]
          /\ b \in 1 .. l /\ m + b = k /\ Visited[k] = EnumResults[b]
      BY <1>4, <2>1, <2>3
    <3> HIDE DEF a, b
    <3>2. a = b
      BY <1>6, <1>8, <3>1
    <3> QED
      BY <3>1, <3>2
  <2> QED
    BY <2>2, <2>3
<1> QED
  BY <1>3, <1>7, <1>8

\* The last entry of the name of a tag is that of the tag, in every file of a
\* unit whose tags have different names.
THEOREM NamesKept == Spec => [](DistinctNames => TagsKeepTheirNames)
<1>1. KnownInv => (DistinctNames => TagsKeepTheirNames)
  <2> SUFFICES ASSUME KnownInv, DistinctNames, Finished, NEW k \in DOMAIN Visited
               PROVE  output[Max({i \in DOMAIN output : output[i].name = Visited[k].name})]
                        = Entry(Visited[k])
    BY DEF TagsKeepTheirNames
  <2>1. PICK n \in Nat :
          /\ DOMAIN Visited = 1 .. Len(Visited) /\ Len(Visited) \in Nat
          /\ DOMAIN output = 1 .. n + Len(Visited)
          /\ \A j \in DOMAIN Visited : output[n + j] = Entry(Visited[j])
    BY EntriesPlaced
  <2> DEFINE named == {i \in DOMAIN output : output[i].name = Visited[k].name}
             m == Len(Visited)
  <2>2. n + k \in named
    <3>1. n + k \in DOMAIN output
      BY <2>1
    <3>2. output[n + k] = Entry(Visited[k])
      BY <2>1
    <3>3. Entry(Visited[k]).name = Visited[k].name
      BY DEF Entry
    <3> QED
      BY <3>1, <3>2, <3>3
  <2>3. ASSUME NEW i \in named
        PROVE  i <= n + k
    <3>1. CASE i <= n
      BY <2>1, <3>1
    <3>2. CASE ~ (i <= n)
      <4> DEFINE j == i - n
      <4>1. j \in DOMAIN Visited /\ n + j = i
        BY <2>1, <3>2
      <4>2. output[i] = Entry(Visited[j])
        BY <2>1, <4>1
      <4> HIDE DEF j
      <4>3. Visited[j].name = Visited[k].name
        BY <4>2 DEF Entry
      <4>4. Visited[j].tag = Visited[k].tag
        BY <4>1, <4>3, VisitedOnce DEF DistinctNames
      <4>5. j = k
        BY <4>1, <4>4, VisitedOnce
      <4> QED
        BY <2>1, <4>1, <4>5
    <3> QED
      BY <2>1, <3>1, <3>2
  <2>4. named \subseteq Nat /\ n + k \in Nat
    BY <2>1
  <2> DEFINE last == n + k
  <2> HIDE DEF named
  <2>5. Max(named) = last
    <3>1. last \in named /\ \A i \in named : i <= last
      BY <2>2, <2>3
    <3>2. last \in Nat
      BY <2>4
    <3> HIDE DEF last
    <3>3. \A x \in named : (\A y \in named : x >= y) <=> x = last
      BY <2>4, <3>1, <3>2
    <3> QED
      BY <3>1, <3>3 DEF Max
  <2> QED
    BY <2>1, <2>5 DEF named
<1> QED
  BY <1>1, KnownInvariant, PTL

-----------------------------------------------------------------------------
\* The fields of a record and of those nested in it.

FieldsOf(tag) == unit.tags[tag].fields

\* What a field of a record gives where the record is reached, and what it
\* gives when nested is what each place gives.
FieldHere(place, f) ==
  CreateFieldInfo(f, Dotted(place[2], f.name), place[3] + f.offset)
Within(place, f) == << f.base, NestedPrefix(place[2], f), NestedOffset(place[3], f) >>
FieldList(nested, place, f) ==
  << FieldHere(place, f) >> \o IF Embeds(f) THEN nested[Within(place, f)] ELSE <<>>
FieldLists(nested, place) ==
  [k \in DOMAIN FieldsOf(place[1]) |-> FieldList(nested, place, FieldsOf(place[1])[k])]

\* What AllFields calls fields.
FieldsAt == CHOOSE fields :
  fields = [place \in Places |-> FlattenSeq(FieldLists(fields, place))]

LEMMA NestingFacts ==
  ASSUME unit \in Units
  PROVE  /\ IsFiniteSet(Records)
         /\ \A tag \in Records :
              /\ Len(FieldsOf(tag)) \in Nat /\ DOMAIN FieldsOf(tag) = 1 .. Len(FieldsOf(tag))
              /\ \A k \in DOMAIN FieldsOf(tag) :
                   /\ FieldsOf(tag)[k].name \in DOMAIN NameLen \ Seq(DOMAIN NameLen)
                   /\ FieldsOf(tag)[k].offset \in Nat
                   /\ Embeds(FieldsOf(tag)[k]) => FieldsOf(tag)[k].base \in Records
         /\ \A some \in SUBSET Records \ {{}} :
              \E tag \in some : \A k \in DOMAIN FieldsOf(tag) :
                Embeds(FieldsOf(tag)[k]) => FieldsOf(tag)[k].base \notin some
<1>1. Records = {tag \in DOMAIN unit.tags : unit.tags[tag].type # "enum"}
  BY DEF Records, IsRecord, IsTag
<1>2. /\ IsFiniteSet(Records)
      /\ \A tag \in Records : \A k \in DOMAIN FieldsOf(tag) :
           /\ FieldsOf(tag)[k].name \in DOMAIN NameLen \ Seq(DOMAIN NameLen)
           /\ FieldsOf(tag)[k].offset \in Nat
      /\ \A some \in SUBSET Records \ {{}} :
           \E tag \in some : \A k \in DOMAIN FieldsOf(tag) :
             FieldsOf(tag)[k].layers = <<>> => FieldsOf(tag)[k].base \notin some
  BY <1>1, FieldsAssumption, Zenon DEF FieldsOf
<1>3. \A tag \in Records :
        Len(FieldsOf(tag)) \in Nat /\ DOMAIN FieldsOf(tag) = 1 .. Len(FieldsOf(tag))
  BY UnitFacts DEF Records, FieldsOf
<1>4. \A f : Embeds(f) => f.layers = <<>> /\ f.base \in Records
  BY DEF Embeds, Records, IsRecord, IsTag
<1> QED
  BY <1>2, <1>3, <1>4, Zenon

\* What holds of a record when it does of those nested in it holds of all.
LEMMA RecordInduction ==
  ASSUME unit \in Units, NEW good,
         \A tag \in Records :
           (\A k \in DOMAIN FieldsOf(tag) :
              Embeds(FieldsOf(tag)[k]) => FieldsOf(tag)[k].base \in good)
           => tag \in good
  PROVE  Records \subseteq good
<1> SUFFICES ASSUME Records \ good # {} PROVE FALSE
  OBVIOUS
<1>1. PICK tag \in Records \ good : \A k \in DOMAIN FieldsOf(tag) :
        Embeds(FieldsOf(tag)[k]) => FieldsOf(tag)[k].base \notin Records \ good
  BY NestingFacts
<1> QED
  BY <1>1, NestingFacts

LEMMA WithinFacts ==
  ASSUME unit \in Units, NEW place \in Places, NEW k \in DOMAIN FieldsOf(place[1]),
         Embeds(FieldsOf(place[1])[k])
  PROVE  Within(place, FieldsOf(place[1])[k]) \in Places
<1> DEFINE f == FieldsOf(place[1])[k]
           Names == DOMAIN NameLen
<1>1. place[1] \in Records /\ place[2] \in Seq(Names) /\ place[3] \in Nat
  BY DEF Places
<1>2. f.base \in Records /\ f.name \in Names /\ f.offset \in Nat
  BY <1>1, NestingFacts
<1> HIDE DEF f, Names
<1>3. \A prefix \in Seq(Names), name \in Names : Append(prefix, name) \in Seq(Names)
  OBVIOUS
<1>4. NestedPrefix(place[2], f) \in Seq(Names)
  BY <1>1, <1>2, <1>3 DEF NestedPrefix
<1>5. NestedOffset(place[3], f) \in Nat
  BY <1>1, <1>2 DEF NestedOffset
<1> QED
  BY <1>2, <1>4, <1>5 DEF Within, Places, f, Names

\* The fields are defined: of the sets of records for whose places they are,
\* take a largest one.
LEMMA FieldsAreDefined ==
  ASSUME unit \in Units
  PROVE  FieldsAt = [place \in Places |-> FlattenSeq(FieldLists(FieldsAt, place))]
<1> DEFINE Fits(fields, some) ==
             \A place \in Places :
               place[1] \in some => fields[place] = FlattenSeq(FieldLists(fields, place))
           Closed(some) ==
             \A tag \in some : \A k \in DOMAIN FieldsOf(tag) :
               Embeds(FieldsOf(tag)[k]) => FieldsOf(tag)[k].base \in some
           sets == {some \in SUBSET Records : Closed(some) /\ \E fields : Fits(fields, some)}
           sizes == {Cardinality(some) : some \in sets}
<1>1. IsFiniteSet(Records)
  BY NestingFacts
<1>2. sizes \subseteq 0 .. Cardinality(Records) /\ sizes # {}
  <2>1. \A some \in sets : Cardinality(some) \in 0 .. Cardinality(Records)
    <3> SUFFICES ASSUME NEW some \in SUBSET Records
                 PROVE  Cardinality(some) \in 0 .. Cardinality(Records)
      OBVIOUS
    <3>1. IsFiniteSet(some) /\ Cardinality(some) <= Cardinality(Records)
      BY <1>1, FS_Subset
    <3> QED
      BY <1>1, <3>1, FS_CardinalityType
  <2>2. {} \in sets
    OBVIOUS
  <2> HIDE DEF sets
  <2> QED
    BY <2>1, <2>2
<1>3. PICK some \in sets : \A more \in sets : Cardinality(more) <= Cardinality(some)
  <2>1. Cardinality(Records) \in Nat
    BY <1>1, FS_CardinalityType
  <2> HIDE DEF sizes
  <2>2. Max(sizes) \in sizes /\ \A size \in sizes : size <= Max(sizes)
    BY <1>2, <2>1, GreatestNumber
  <2> HIDE DEF sets
  <2> QED
    BY <2>2 DEF sizes
<1>4. some \subseteq Records /\ Closed(some)
  OBVIOUS
<1>5. PICK fields : Fits(fields, some)
  OBVIOUS
<1> DEFINE Flattened(place) == FlattenSeq(FieldLists(fields, place))
           wider == [place \in Places |-> Flattened(place)]
<1>6. ASSUME NEW tag \in Records,
             \A k \in DOMAIN FieldsOf(tag) :
               Embeds(FieldsOf(tag)[k]) => FieldsOf(tag)[k].base \in some,
             NEW place \in Places, place[1] = tag
      PROVE  FieldLists(wider, place) = FieldLists(fields, place)
  <2>1. ASSUME NEW k \in DOMAIN FieldsOf(tag), Embeds(FieldsOf(tag)[k])
        PROVE  wider[Within(place, FieldsOf(tag)[k])] = fields[Within(place, FieldsOf(tag)[k])]
    <3> DEFINE inner == Within(place, FieldsOf(tag)[k])
    <3>1. inner \in Places
      BY <1>6, <2>1, WithinFacts
    <3>2. inner[1] \in some
      BY <1>6, <2>1 DEF Within
    <3> HIDE DEF inner
    <3> QED
      BY <1>5, <3>1, <3>2 DEF inner
  <2> HIDE DEF wider
  <2>2. \A k \in DOMAIN FieldsOf(tag) :
          FieldList(wider, place, FieldsOf(tag)[k]) = FieldList(fields, place, FieldsOf(tag)[k])
    BY <2>1 DEF FieldList
  <2> QED
    BY <1>6, <2>2 DEF FieldLists
<1>7. ASSUME NEW more, Closed(more), some \subseteq more, more \subseteq Records,
             \A tag \in more : \A k \in DOMAIN FieldsOf(tag) :
               Embeds(FieldsOf(tag)[k]) => FieldsOf(tag)[k].base \in some
      PROVE  Fits(wider, more)
  <2> SUFFICES ASSUME NEW place \in Places, place[1] \in more
               PROVE  wider[place] = FlattenSeq(FieldLists(wider, place))
    OBVIOUS
  <2>1. FieldLists(wider, place) = FieldLists(fields, place)
    BY <1>6, <1>7
  <2> QED
    BY <2>1
<1>8. some = Records
  <2> SUFFICES ASSUME NEW tag \in Records \ some,
                      \A k \in DOMAIN FieldsOf(tag) :
                        Embeds(FieldsOf(tag)[k]) => FieldsOf(tag)[k].base \in some
               PROVE  FALSE
    BY <1>4, RecordInduction
  <2> DEFINE more == some \cup {tag}
  <2>1. Closed(more) /\ some \subseteq more /\ more \subseteq Records
    BY <1>4
  <2>2. Fits(wider, more)
    BY <1>4, <1>7, <2>1
  <2>3. more \in sets
    BY <2>1, <2>2
  <2>4. Cardinality(more) = Cardinality(some) + 1 /\ Cardinality(some) \in Nat
    BY <1>1, <1>4, FS_Subset, FS_AddElement, FS_CardinalityType
  <2> HIDE DEF more, sets
  <2> QED
    BY <1>3, <2>3, <2>4
<1>9. wider = [place \in Places |-> FlattenSeq(FieldLists(wider, place))]
  <2>1. Fits(wider, Records)
    BY <1>4, <1>7, <1>8
  <2>2. \A place \in Places : place[1] \in Records
    BY DEF Places
  <2> HIDE DEF Flattened
  <2>3. \A place \in Places : Flattened(place) = FlattenSeq(FieldLists(wider, place))
    BY <2>1, <2>2
  <2> QED
    BY <2>3
<1> HIDE DEF wider
<1> QED
  BY <1>9, Zenon DEF FieldsAt

LEMMA AllFieldsAt ==
  ASSUME unit \in Units
  PROVE  /\ \A record : AllFields(record) = FieldsAt[<< record, <<>>, 0 >>]
         /\ \A place \in Places : FieldsAt[place] = FlattenSeq(FieldLists(FieldsAt, place))
<1>1. \A record : AllFields(record) = FieldsAt[<< record, <<>>, 0 >>]
  BY Zenon DEF AllFields, FieldsAt, FieldLists, FieldList, FieldHere, Within, FieldsOf
<1> QED
  BY <1>1, FieldsAreDefined

\* The fields listed at a place: those of the record itself, and those nested
\* in it.
Listed(place) == ToSet(FieldsAt[place])

\* The fields at a place are a list.
LEMMA FieldsAreListed ==
  ASSUME unit \in Units
  PROVE  \A place \in Places :
           /\ IsList(FieldsAt[place])
           /\ AreLists(FieldLists(FieldsAt, place))
           /\ \A k \in DOMAIN FieldsOf(place[1]) :
                Embeds(FieldsOf(place[1])[k]) =>
                  IsList(FieldsAt[Within(place, FieldsOf(place[1])[k])])
<1> DEFINE good == {tag \in Records :
                      \A place \in Places : place[1] = tag => IsList(FieldsAt[place])}
<1>1. ASSUME NEW place \in Places,
             \A k \in DOMAIN FieldsOf(place[1]) :
               Embeds(FieldsOf(place[1])[k]) => FieldsOf(place[1])[k].base \in good
      PROVE  /\ AreLists(FieldLists(FieldsAt, place))
             /\ \A k \in DOMAIN FieldsOf(place[1]) :
                  Embeds(FieldsOf(place[1])[k]) =>
                    IsList(FieldsAt[Within(place, FieldsOf(place[1])[k])])
  <2> DEFINE n == Len(FieldsOf(place[1]))
             lists == FieldLists(FieldsAt, place)
  <2>1. place[1] \in Records
    BY DEF Places
  <2>2. n \in Nat /\ DOMAIN FieldsOf(place[1]) = 1 .. n
    BY <2>1, NestingFacts
  <2>3. ASSUME NEW k \in DOMAIN FieldsOf(place[1]), Embeds(FieldsOf(place[1])[k])
        PROVE  IsList(FieldsAt[Within(place, FieldsOf(place[1])[k])])
    <3> DEFINE inner == Within(place, FieldsOf(place[1])[k])
    <3>1. inner \in Places
      BY <2>3, WithinFacts
    <3>2. inner[1] \in good
      BY <1>1, <2>3 DEF Within
    <3> HIDE DEF inner
    <3>3. IsList(FieldsAt[inner])
      BY <3>1, <3>2
    <3> QED
      BY <3>3 DEF inner
  <2>4. ASSUME NEW k \in DOMAIN FieldsOf(place[1])
        PROVE  IsList(FieldList(FieldsAt, place, FieldsOf(place[1])[k]))
    <3> DEFINE f == FieldsOf(place[1])[k]
               own == << FieldHere(place, f) >>
               more == IF Embeds(f) THEN FieldsAt[Within(place, f)] ELSE <<>>
    <3>1. IsList(own)
      <4>1. \A field : << field >> \in Seq({field})
        OBVIOUS
      <4>2. own \in Seq({FieldHere(place, f)})
        BY <4>1
      <4> HIDE DEF own
      <4> QED
        BY <4>2, SequencesAreLists
    <3>2. IsList(more)
      BY <2>3, NothingIsList
    <3> HIDE DEF own, more
    <3>3. IsList(own \o more)
      BY <3>1, <3>2, ListsJoined
    <3> QED
      BY <3>3 DEF FieldList, own, more
  <2>5. /\ lists = [k \in 1 .. n |-> lists[k]]
        /\ \A k \in 1 .. n : lists[k] = FieldList(FieldsAt, place, FieldsOf(place[1])[k])
    BY <2>2 DEF FieldLists
  <2> HIDE DEF n, lists
  <2>6. IsList(lists) /\ DOMAIN lists = 1 .. n
    BY <2>2, <2>5, FunctionsAreLists
  <2>7. \A k \in 1 .. n : IsList(lists[k])
    BY <2>2, <2>4, <2>5
  <2>8. AreLists(lists)
    BY <2>6, <2>7 DEF AreLists
  <2> QED
    BY <2>3, <2>8 DEF lists
<1>2. ASSUME NEW tag \in Records,
             \A k \in DOMAIN FieldsOf(tag) :
               Embeds(FieldsOf(tag)[k]) => FieldsOf(tag)[k].base \in good
      PROVE  tag \in good
  <2> SUFFICES ASSUME NEW place \in Places, place[1] = tag PROVE IsList(FieldsAt[place])
    OBVIOUS
  <2>1. AreLists(FieldLists(FieldsAt, place))
    BY <1>1, <1>2
  <2>2. IsList(FlattenSeq(FieldLists(FieldsAt, place)))
    BY <2>1, FlatPlaces
  <2> QED
    BY <2>2, AllFieldsAt
<1>3. Records \subseteq good
  <2> HIDE DEF good
  <2> QED
    BY <1>2, RecordInduction
<1>4. ASSUME NEW place \in Places
      PROVE  /\ place[1] \in Records
             /\ \A k \in DOMAIN FieldsOf(place[1]) :
                  Embeds(FieldsOf(place[1])[k]) => FieldsOf(place[1])[k].base \in Records
  BY NestingFacts DEF Places
<1> QED
  BY <1>1, <1>3, <1>4

\* What is listed at a place: for each field of the record there itself, and
\* what is listed within it.
LEMMA ListedFacts ==
  ASSUME unit \in Units, NEW place \in Places
  PROVE  \A y : y \in Listed(place) <=>
           \E k \in DOMAIN FieldsOf(place[1]) :
             \/ y = FieldHere(place, FieldsOf(place[1])[k])
             \/ /\ Embeds(FieldsOf(place[1])[k])
                /\ y \in Listed(Within(place, FieldsOf(place[1])[k]))
<1> DEFINE lists == FieldLists(FieldsAt, place)
<1>1. /\ AreLists(lists)
      /\ \A k \in DOMAIN FieldsOf(place[1]) :
           Embeds(FieldsOf(place[1])[k]) =>
             IsList(FieldsAt[Within(place, FieldsOf(place[1])[k])])
  BY FieldsAreListed
<1>2. Listed(place) = ToSet(FlattenSeq(lists))
  BY AllFieldsAt DEF Listed
<1>3. /\ DOMAIN lists = DOMAIN FieldsOf(place[1])
      /\ \A k \in DOMAIN lists : lists[k] = FieldList(FieldsAt, place, FieldsOf(place[1])[k])
  BY DEF FieldLists
<1> HIDE DEF lists
<1>4. ASSUME NEW k \in DOMAIN FieldsOf(place[1]), NEW y
      PROVE  y \in ToSet(FieldList(FieldsAt, place, FieldsOf(place[1])[k])) <=>
               \/ y = FieldHere(place, FieldsOf(place[1])[k])
               \/ /\ Embeds(FieldsOf(place[1])[k])
                  /\ y \in Listed(Within(place, FieldsOf(place[1])[k]))
  <2> DEFINE f == FieldsOf(place[1])[k]
             own == << FieldHere(place, f) >>
             more == IF Embeds(f) THEN FieldsAt[Within(place, f)] ELSE <<>>
  <2>1. IsList(own) /\ ToSet(own) = {FieldHere(place, f)}
    <3>1. \A field : << field >> \in Seq({field}) /\ ToSet(<< field >>) = {field}
      BY DEF ToSet
    <3>2. own \in Seq({FieldHere(place, f)}) /\ ToSet(own) = {FieldHere(place, f)}
      BY <3>1
    <3> HIDE DEF own
    <3> QED
      BY <3>2, SequencesAreLists
  <2>2. IsList(more) /\ (Embeds(f) => more = FieldsAt[Within(place, f)])
    BY <1>1, NothingIsList
  <2>3. ~ Embeds(f) => DOMAIN more = {}
    OBVIOUS
  <2>4. FieldList(FieldsAt, place, f) = own \o more
    BY DEF FieldList
  <2> HIDE DEF own, more
  <2>5. ToSet(own \o more) = ToSet(own) \cup ToSet(more)
    BY <2>1, <2>2, JoinedElements
  <2>6. y \in ToSet(more) <=> Embeds(f) /\ y \in Listed(Within(place, f))
    BY <2>2, <2>3 DEF Listed, ToSet
  <2> QED
    BY <2>1, <2>4, <2>5, <2>6
<1> QED
  BY <1>1, <1>2, <1>3, <1>4, FlatElements

-----------------------------------------------------------------------------
\* A record within a record.

\* The place where the fields of a record are when they are in another under a
\* name and at an offset.
PlaceUnder(place, name, offset) == << place[1], << name >> \o place[2], offset + place[3] >>

LEMMA PrefixFacts ==
  ASSUME NEW S, NEW s \in Seq(S), NEW x \in S, NEW y \in S
  PROVE  /\ << x >> \o s \in Seq(S) /\ << x >> \o s # <<>>
         /\ << x >> \o Append(s, y) = Append(<< x >> \o s, y)
         /\ Append(s, y) \in Seq(S)
         /\ s = <<>> => << x >> \o << y >> = Append(<< x >> \o s, y)
<1>1. << x >> \in Seq(S) /\ << y >> \in Seq(S)
  OBVIOUS
<1>2. /\ << x >> \o s \in Seq(S)
      /\ Len(<< x >> \o s) = 1 + Len(s)
      /\ Append(s, y) \in Seq(S)
  OBVIOUS
<1>3. << x >> \o s # <<>>
  BY <1>2
<1>4. << x >> \o Append(s, y) = Append(<< x >> \o s, y)
  <2> DEFINE left == << x >> \o Append(s, y)
             right == Append(<< x >> \o s, y)
  <2>1. left \in Seq(S) /\ right \in Seq(S) /\ Len(left) = Len(s) + 2 /\ Len(right) = Len(s) + 2
    BY <1>1
  <2>2. \A k \in 1 .. Len(s) + 2 : left[k] = right[k]
    BY <1>1
  <2> HIDE DEF left, right
  <2>3. left = right
    BY <2>1, <2>2
  <2> QED
    BY <2>3 DEF left, right
<1>5. ASSUME s = <<>> PROVE << x >> \o << y >> = Append(<< x >> \o s, y)
  BY <1>1, <1>4, <1>5
<1> QED
  BY <1>2, <1>3, <1>4, <1>5

\* The field info of a field is the same but for its name and offset.
LEMMA InfoChanges ==
  ASSUME NEW f, NEW n, NEW o
  PROVE  /\ CreateFieldInfo(f, n, o).name = n
         /\ CreateFieldInfo(f, n, o).offset = o
         /\ \A m : [CreateFieldInfo(f, n, o) EXCEPT !.name = m] = CreateFieldInfo(f, m, o)
         /\ \A m : [CreateFieldInfo(f, n, o) EXCEPT !.offset = m] = CreateFieldInfo(f, n, m)
<1> DEFINE Info(name, type, offset, depth, size, const, struct, alias) ==
             [name |-> name, type |-> type, offset |-> offset, pdepth |-> depth,
              arrsize |-> size, const |-> const, struct |-> struct, alias |-> alias]
<1>1. PICK type, depth, size, const, struct, alias :
        \A m, at : CreateFieldInfo(f, m, at) =
                     Info(m, type, at, depth, size, const, struct, alias)
  BY Zenon DEF CreateFieldInfo
<1>2. \A g, name, t, offset, d, s, c, u, a :
        g = Info(name, t, offset, d, s, c, u, a) => g.name = name /\ g.offset = offset
  OBVIOUS
<1>3. \A g, name, t, offset, d, s, c, u, a, m :
        g = Info(name, t, offset, d, s, c, u, a) =>
          [g EXCEPT !.name = m] = Info(m, t, offset, d, s, c, u, a)
  OBVIOUS
<1>4. \A g, name, t, offset, d, s, c, u, a, m :
        g = Info(name, t, offset, d, s, c, u, a) =>
          [g EXCEPT !.offset = m] = Info(name, t, m, d, s, c, u, a)
  OBVIOUS
<1> HIDE DEF Info
<1>5. CreateFieldInfo(f, n, o).name = n /\ CreateFieldInfo(f, n, o).offset = o
  BY <1>1, <1>2
<1>6. ASSUME NEW m
      PROVE  /\ [CreateFieldInfo(f, n, o) EXCEPT !.name = m] = CreateFieldInfo(f, m, o)
             /\ [CreateFieldInfo(f, n, o) EXCEPT !.offset = m] = CreateFieldInfo(f, n, m)
  BY <1>1, <1>3, <1>4
<1> QED
  BY <1>5, <1>6

LEMMA InfoMoves ==
  ASSUME NEW f, NEW n, NEW o, NEW name, NEW offset
  PROVE  FieldUnder(CreateFieldInfo(f, n, o), name, offset)
           = CreateFieldInfo(f, << name >> \o AsNames(n), o + offset)
<1> DEFINE g == CreateFieldInfo(f, n, o)
           newName == << name >> \o AsNames(n)
           newOffset == o + offset
           named == CreateFieldInfo(f, newName, o)
           new == CreateFieldInfo(f, newName, newOffset)
<1>1. g.name = n /\ g.offset = o
  BY InfoChanges
<1>2. << name >> \o AsNames(g.name) = newName /\ g.offset + offset = newOffset
  BY <1>1
<1>3. FieldUnder(g, name, offset) =
        [g EXCEPT !.name = << name >> \o AsNames(g.name), !.offset = g.offset + offset]
  BY DEF FieldUnder
<1> HIDE DEF newName, newOffset
<1>4. [g EXCEPT !.name = newName] = named /\ [named EXCEPT !.offset = newOffset] = new
  BY InfoChanges
<1> HIDE DEF g, named, new
<1>5. [g EXCEPT !.name = newName, !.offset = newOffset] = new
  BY <1>4
<1>6. FieldUnder(g, name, offset) = new
  BY <1>2, <1>3, <1>5
<1> QED
  BY <1>6 DEF g, new, newName, newOffset

\* A field of a record at a place under another.
LEMMA FieldMoves ==
  ASSUME unit \in Units, NEW place \in Places, NEW k \in DOMAIN FieldsOf(place[1]),
         NEW name \in DOMAIN NameLen, NEW offset \in Nat
  PROVE  /\ PlaceUnder(place, name, offset) \in Places
         /\ FieldUnder(FieldHere(place, FieldsOf(place[1])[k]), name, offset)
              = FieldHere(PlaceUnder(place, name, offset), FieldsOf(place[1])[k])
         /\ Embeds(FieldsOf(place[1])[k]) =>
              Within(PlaceUnder(place, name, offset), FieldsOf(place[1])[k])
                = PlaceUnder(Within(place, FieldsOf(place[1])[k]), name, offset)
<1> DEFINE f == FieldsOf(place[1])[k]
           Names == DOMAIN NameLen
           prefix == place[2]
           base == place[3]
           under == PlaceUnder(place, name, offset)
<1>1. place[1] \in Records /\ prefix \in Seq(Names) /\ base \in Nat
  BY DEF Places
<1>2. f.name \in Names /\ f.name \notin Seq(Names) /\ f.offset \in Nat /\ name \in Names
  BY <1>1, NestingFacts
<1>3. under[1] = place[1] /\ under[2] = << name >> \o prefix /\ under[3] = offset + base
  BY DEF PlaceUnder
<1> HIDE DEF f, Names
<1>4. /\ << name >> \o prefix \in Seq(Names) /\ << name >> \o prefix # <<>>
      /\ << name >> \o Append(prefix, f.name) = Append(<< name >> \o prefix, f.name)
      /\ Append(prefix, f.name) \in Seq(Names)
      /\ prefix = <<>> => << name >> \o << f.name >> = Append(<< name >> \o prefix, f.name)
  BY <1>1, <1>2, PrefixFacts
<1>5. under \in Places
  <2> DEFINE newPrefix == << name >> \o prefix
             newBase == offset + base
  <2>1. newPrefix \in Seq(Names)
    BY <1>4
  <2>2. newBase \in Nat
    BY <1>1
  <2>3. under = << place[1], newPrefix, newBase >>
    BY DEF PlaceUnder
  <2> HIDE DEF newPrefix, newBase, under
  <2> QED
    BY <1>1, <2>1, <2>2, <2>3 DEF Places, Names
<1>6. << name >> \o AsNames(Dotted(prefix, f.name)) = Dotted(<< name >> \o prefix, f.name)
  BY <1>2, <1>4 DEF AsNames, Dotted, Names
<1>7. FieldUnder(FieldHere(place, f), name, offset) = FieldHere(under, f)
  <2> DEFINE old == Dotted(prefix, f.name)
             new == Dotted(<< name >> \o prefix, f.name)
             at == base + f.offset
             to == (offset + base) + f.offset
  <2>1. at + offset = to
    BY <1>1, <1>2
  <2>2. FieldHere(place, f) = CreateFieldInfo(f, old, at)
    BY DEF FieldHere
  <2>3. FieldHere(under, f) = CreateFieldInfo(f, new, to)
    BY <1>3 DEF FieldHere
  <2>4. << name >> \o AsNames(old) = new
    BY <1>6
  <2> HIDE DEF old, new, at, to
  <2>5. FieldUnder(CreateFieldInfo(f, old, at), name, offset)
          = CreateFieldInfo(f, << name >> \o AsNames(old), at + offset)
    BY InfoMoves
  <2> QED
    BY <2>1, <2>2, <2>3, <2>4, <2>5
<1>8. Within(under, f) = PlaceUnder(Within(place, f), name, offset)
  <2>1. NestedPrefix(<< name >> \o prefix, f) = << name >> \o NestedPrefix(prefix, f)
    BY <1>4 DEF NestedPrefix
  <2>2. NestedOffset(offset + base, f) = offset + NestedOffset(base, f)
    BY <1>1, <1>2 DEF NestedOffset
  <2> QED
    BY <1>3, <2>1, <2>2 DEF Within, PlaceUnder
<1> QED
  BY <1>5, <1>7, <1>8 DEF f

\* What is listed at a place is, under a name and at an offset, at the place
\* that is under them.
LEMMA ListedMoves ==
  ASSUME unit \in Units
  PROVE  \A place \in Places, name \in DOMAIN NameLen, offset \in Nat :
           \A g \in Listed(place) :
             FieldUnder(g, name, offset) \in Listed(PlaceUnder(place, name, offset))
<1> DEFINE Moves(place) ==
             \A name \in DOMAIN NameLen, offset \in Nat : \A g \in Listed(place) :
               FieldUnder(g, name, offset) \in Listed(PlaceUnder(place, name, offset))
           good == {tag \in Records : \A place \in Places : place[1] = tag => Moves(place)}
<1>1. ASSUME NEW tag \in Records,
             \A k \in DOMAIN FieldsOf(tag) :
               Embeds(FieldsOf(tag)[k]) => FieldsOf(tag)[k].base \in good,
             NEW place \in Places, place[1] = tag,
             NEW name \in DOMAIN NameLen, NEW offset \in Nat, NEW g \in Listed(place)
      PROVE  FieldUnder(g, name, offset) \in Listed(PlaceUnder(place, name, offset))
  <2> DEFINE under == PlaceUnder(place, name, offset)
             moved == FieldUnder(g, name, offset)
  <2>1. PICK k \in DOMAIN FieldsOf(place[1]) :
          \/ g = FieldHere(place, FieldsOf(place[1])[k])
          \/ /\ Embeds(FieldsOf(place[1])[k])
             /\ g \in Listed(Within(place, FieldsOf(place[1])[k]))
    BY ListedFacts
  <2> DEFINE f == FieldsOf(place[1])[k]
             inner == Within(place, f)
  <2>2. /\ under \in Places
        /\ FieldUnder(FieldHere(place, f), name, offset) = FieldHere(under, f)
        /\ Embeds(f) => Within(under, f) = PlaceUnder(inner, name, offset)
    BY FieldMoves
  <2>3. under[1] = place[1]
    BY DEF PlaceUnder
  <2>4. \/ moved = FieldHere(under, f)
        \/ Embeds(f) /\ moved \in Listed(Within(under, f))
    <3>1. CASE g = FieldHere(place, f)
      BY <2>2, <3>1
    <3>2. CASE Embeds(f) /\ g \in Listed(inner)
      <4>1. inner \in Places
        BY <3>2, WithinFacts
      <4>2. inner[1] \in good
        BY <1>1, <3>2 DEF Within
      <4> HIDE DEF inner
      <4>3. moved \in Listed(PlaceUnder(inner, name, offset))
        BY <3>2, <4>1, <4>2
      <4> QED
        BY <2>2, <3>2, <4>3
    <3> QED
      BY <2>1, <3>1, <3>2
  <2> HIDE DEF under, moved
  <2>5. f = FieldsOf(under[1])[k] /\ k \in DOMAIN FieldsOf(under[1])
    BY <2>3
  <2> HIDE DEF f
  <2>6. moved \in Listed(under)
    BY <2>2, <2>4, <2>5, ListedFacts
  <2> QED
    BY <2>6 DEF moved, under
<1>2. \A tag \in Records :
        (\A k \in DOMAIN FieldsOf(tag) :
           Embeds(FieldsOf(tag)[k]) => FieldsOf(tag)[k].base \in good)
        => tag \in good
  BY <1>1
<1>3. Records \subseteq good
  <2> HIDE DEF good
  <2> QED
    BY <1>2, RecordInduction
<1> QED
  BY <1>3 DEF Places

\* What AllFields is does not change with the place in the unit.
LEMMA AllFieldsStay ==
  ASSUME unit' = unit
  PROVE  \A tag : AllFields(tag)' = AllFields(tag)
BY SMT DEF AllFields, Places, Records, IsRecord, IsTag, Embeds, CreateFieldInfo, CleanName,
           TagName

\* A record that is visited has the fields that AllFields gives its tag.
FieldsInv ==
  \A k \in DOMAIN Results :
    /\ {"tag", "fields", "aliases"} \subseteq DOMAIN Results[k]
    /\ Results[k].tag \in Records
    /\ Results[k].fields = AllFields(Results[k].tag)

LEMMA FieldsStep ==
  ASSUME AliasInv, FieldsInv, [Next]_vars
  PROVE  FieldsInv'
<1>1. unit' = unit
  BY DEF Next, SkipTag, VisitRecordDecl, VisitEnumDecl, VisitTypedefDecl, Shown,
         HandleTranslationUnit, vars
<1>2. /\ \A tag : AllFields(tag)' = AllFields(tag)
      /\ Records' = Records
  BY <1>1, AllFieldsStay DEF Records, IsRecord, IsTag
<1>3. CASE Results' = Results
  BY <1>2, <1>3 DEF FieldsInv
<1>4. CASE VisitRecordDecl
  <2> DEFINE tag == decl.tag
             new == [tag |-> tag, type |-> unit.tags[tag].type, name |-> TagName(tag),
                     size |-> unit.tags[tag].size, fields |-> AllFields(tag),
                     aliases |-> AddMissing(<<>>, Pending(tag))]
  <2>1. Results' = Append(Results, new) /\ Shown("record")
    BY <1>4 DEF VisitRecordDecl
  <2>2. tag \in Records
    <3>1. unit \in Units /\ next \in DOMAIN unit.decls /\ decl.kind = "record"
      <4>1. unit \in Units /\ next \in 1 .. Len(unit.decls) + 1
        BY DEF AliasInv, PlaceInv
      <4>2. next <= Len(unit.decls) /\ decl.kind = "record"
        BY <2>1 DEF Shown
      <4> QED
        BY <4>1, <4>2, UnitFacts
    <3>2. tag \in DOMAIN unit.tags /\ unit.tags[tag].type # "enum"
      BY <3>1, UnitsAssumption DEF decl
    <3> QED
      BY <3>2 DEF Records, IsRecord, IsTag
  <2>3. /\ {"tag", "fields", "aliases"} \subseteq DOMAIN new
        /\ new.tag = tag /\ new.fields = AllFields(tag)
    OBVIOUS
  <2> HIDE DEF tag, new
  <2>4. IsList(Results)
    BY DEF AliasInv, TypesFit
  <2>5. /\ DOMAIN Results' = DOMAIN Results \cup {Len(Results) + 1}
        /\ Results'[Len(Results) + 1] = new
        /\ \A k \in DOMAIN Results : Results'[k] = Results[k]
    BY <2>1, <2>4, ListAppended
  <2> SUFFICES ASSUME NEW k \in DOMAIN Results'
               PROVE  /\ {"tag", "fields", "aliases"} \subseteq DOMAIN Results'[k]
                      /\ Results'[k].tag \in Records
                      /\ Results'[k].fields = AllFields(Results'[k].tag)
    BY <1>2 DEF FieldsInv
  <2>6. CASE k \in DOMAIN Results
    BY <2>5, <2>6 DEF FieldsInv
  <2>7. CASE k = Len(Results) + 1
    BY <2>2, <2>3, <2>5, <2>7
  <2> QED
    BY <2>5, <2>6, <2>7
<1>5. CASE HandleTranslationUnit
  <2>1. /\ DOMAIN Results' = DOMAIN Results
        /\ \A k \in DOMAIN Results :
             Results'[k] = [Results[k] EXCEPT !.aliases = AddMissing(@, Pending(Results[k].tag))]
    BY <1>5 DEF HandleTranslationUnit, Merged
  <2>2. \A r, aliases : /\ DOMAIN [r EXCEPT !.aliases = aliases] = DOMAIN r
                        /\ "tag" \in DOMAIN r => [r EXCEPT !.aliases = aliases].tag = r.tag
                        /\ "fields" \in DOMAIN r =>
                             [r EXCEPT !.aliases = aliases].fields = r.fields
    OBVIOUS
  <2>3. \A k \in DOMAIN Results :
          /\ DOMAIN Results'[k] = DOMAIN Results[k]
          /\ Results'[k].tag = Results[k].tag /\ Results'[k].fields = Results[k].fields
    BY <2>1, <2>2 DEF FieldsInv
  <2> QED
    BY <1>2, <2>1, <2>3 DEF FieldsInv
<1> QED
  BY <1>3, <1>4, <1>5
     DEF Next, SkipTag, VisitEnumDecl, VisitTypedefDecl, vars

\* A record within a record has its fields there, as they are in its own
\* entry, under dotted names and where they are in memory, whatever a unit
\* nests.
THEOREM EmbeddedAgree == Spec => []EmbeddedRecordsAgree
<1>1. Init => FieldsInv
  BY DEF Init, FieldsInv
<1>2. AliasInv /\ FieldsInv /\ [Next]_vars => FieldsInv'
  BY FieldsStep
<1>3. AliasInv /\ FieldsInv => EmbeddedRecordsAgree
  <2> SUFFICES ASSUME AliasInv, FieldsInv,
                      NEW r \in DOMAIN Results, NEW q \in DOMAIN Results,
                      NEW k \in DOMAIN FieldsOf(Results[r].tag),
                      Embeds(FieldsOf(Results[r].tag)[k]),
                      FieldsOf(Results[r].tag)[k].base = Results[q].tag,
                      FieldsOf(Results[r].tag)[k].name # EmptyName,
                      NEW g \in ToSet(Results[q].fields)
               PROVE  FieldUnder(g, FieldsOf(Results[r].tag)[k].name,
                                 FieldsOf(Results[r].tag)[k].offset) \in ToSet(Results[r].fields)
    BY DEF EmbeddedRecordsAgree, FieldsOf, ToSet
  <2> DEFINE f == FieldsOf(Results[r].tag)[k]
             outer == << Results[r].tag, <<>>, 0 >>
             own == << Results[q].tag, <<>>, 0 >>
  <2>1. unit \in Units
    BY DEF AliasInv, PlaceInv
  <2>2. Results[r].tag \in Records /\ Results[q].tag \in Records
    BY DEF FieldsInv
  <2>3. outer \in Places /\ own \in Places /\ outer[1] = Results[r].tag
    <3>1. <<>> \in Seq(DOMAIN NameLen) /\ 0 \in Nat
      OBVIOUS
    <3> QED
      BY <2>2, <3>1, Zenon DEF Places
  <2>4. ToSet(Results[r].fields) = Listed(outer) /\ ToSet(Results[q].fields) = Listed(own)
    BY <2>1, AllFieldsAt DEF FieldsInv, Listed
  <2>5. f.name \in DOMAIN NameLen /\ f.offset \in Nat
    BY <2>1, <2>2, NestingFacts
  <2>6. Within(outer, f) = PlaceUnder(own, f.name, f.offset)
    <3>1. \A S : \A name \in S : Append(<<>>, name) = << name >> \o <<>>
      OBVIOUS
    <3>2. \A offset \in Nat : 0 + offset = offset + 0
      OBVIOUS
    <3> QED
      BY <2>5, <3>1, <3>2 DEF Within, PlaceUnder, NestedPrefix, NestedOffset
  <2>7. FieldUnder(g, f.name, f.offset) \in Listed(PlaceUnder(own, f.name, f.offset))
    BY <2>1, <2>3, <2>4, <2>5, ListedMoves
  <2> HIDE DEF f, outer, own
  <2>8. FieldUnder(g, f.name, f.offset) \in Listed(outer)
    BY <2>1, <2>3, <2>6, <2>7, ListedFacts DEF f
  <2> QED
    BY <2>4, <2>8 DEF f
<1> QED
  BY <1>1, <1>2, <1>3, AliasInvariant, PTL DEF Spec
=============================================================================
