----------------------------- MODULE DataProofs -----------------------------
(***************************************************************************)
(* What loops, lists and hash tables come to: the lemmas that the proofs   *)
(* about the components share.                                             *)
(*                                                                         *)
(* The loops of the plugin and of merge.py that add to a collection one    *)
(* element after the other are modelled as recursive functions             *)
(*                                                                         *)
(*     f[k \in 0 .. n] == IF k = 0 THEN base ELSE ... f[k - 1] ...         *)
(*                                                                         *)
(* of the number k of turns.  LoopIsDefined says that such a function      *)
(* exists, LoopInvariant that what holds at the start and is kept by each  *)
(* turn holds at the end.  Both speak of sets and functions instead of     *)
(* operators: the properties proved by induction are sets of numbers, and  *)
(* the base is the well-foundedness of < on Nat.  On them rest the facts   *)
(* about lists, flattened lists of lists, selections from a list, and the  *)
(* least and the greatest of some numbers.                                 *)
(*                                                                         *)
(* The operators of HashTable do what they promise for every table, hash   *)
(* function and capacity above zero: TableCreated, TableInserted and       *)
(* TableAnswers.                                                           *)
(***************************************************************************)
EXTENDS ReflectionDat, HashTable, WellFoundedInduction, TLAPS

\* Induction: a set with 0 and the successor of each of its elements has
\* every natural number.
LEMMA SetInduction ==
  ASSUME NEW S, 0 \in S, \A n \in Nat : n \in S => n + 1 \in S
  PROVE  Nat \subseteq S
<1> DEFINE T == Nat \ S
           L == OpToRel(<, Nat)
<1> SUFFICES ASSUME T # {} PROVE FALSE
  OBVIOUS
<1>1. PICK m \in T : \A y \in T : <<y, m>> \notin L
  <2>1. IsWellFoundedOn(L, Nat)
    BY NatLessThanWellFounded
  <2>2. T \subseteq Nat
    OBVIOUS
  <2> HIDE DEF T, L
  <2> QED
    BY <2>1, <2>2, WFMin
<1>2. m \in Nat /\ m # 0
  OBVIOUS
<1>3. m - 1 \in Nat /\ (m - 1) + 1 = m /\ m - 1 < m
  BY <1>2
<1>4. <<m - 1, m>> \in L
  BY <1>2, <1>3 DEF OpToRel
<1>5. m - 1 \notin T
  <2> HIDE DEF T, L
  <2> QED
    BY <1>1, <1>4
<1> QED
  BY <1>2, <1>3, <1>5

\* Induction up to n.
LEMMA LoopInvariant ==
  ASSUME NEW n \in Nat, NEW S, 0 \in S,
         \A k \in 1 .. n : k - 1 \in S => k \in S
  PROVE  0 .. n \subseteq S
<1> DEFINE T == {k \in Nat : k <= n => k \in S}
<1>1. 0 \in T
  OBVIOUS
<1>2. ASSUME NEW k \in Nat, k \in T
      PROVE  k + 1 \in T
  <2>1. k + 1 \in Nat /\ (k + 1) - 1 = k
    OBVIOUS
  <2>2. CASE k + 1 <= n
    <3>1. k \in S /\ k + 1 \in 1 .. n
      BY <1>2, <2>2
    <3>2. k + 1 \in S
      BY <2>1, <3>1
    <3> QED
      BY <3>2
  <2>3. CASE ~ (k + 1 <= n)
    BY <2>3
  <2> QED
    BY <2>2, <2>3
<1>3. Nat \subseteq T
  <2> HIDE DEF T
  <2> QED
    BY <1>1, <1>2, SetInduction
<1> QED
  BY <1>3

\* The run f of a loop of n turns on S, turn k taking x to step[k][x].
IsLoop(f, n, S, base, step) ==
  /\ f \in [0 .. n -> S]
  /\ f[0] = base
  /\ \A k \in 1 .. n : f[k] = step[k][f[k - 1]]

\* Every loop has a run.
LEMMA LoopIsDefined ==
  ASSUME NEW n \in Nat, NEW S, NEW base \in S, NEW step \in [1 .. n -> [S -> S]]
  PROVE  \E f : IsLoop(f, n, S, base, step)
<1> DEFINE Turns(m) == \E f \in [0 .. m -> S] :
                         /\ f[0] = base
                         /\ \A k \in 1 .. m : f[k] = step[k][f[k - 1]]
           T == {m \in 0 .. n : Turns(m)}
<1>1. 0 \in T
  <2> DEFINE f == [k \in 0 .. 0 |-> base]
  <2>1. f \in [0 .. 0 -> S] /\ f[0] = base
    OBVIOUS
  <2>2. \A k \in 1 .. 0 : f[k] = step[k][f[k - 1]]
    OBVIOUS
  <2> HIDE DEF f
  <2>3. Turns(0)
    BY <2>1, <2>2
  <2> QED
    BY <2>3
<1>2. ASSUME NEW m \in 1 .. n, m - 1 \in T
      PROVE  m \in T
  <2>1. PICK f \in [0 .. m - 1 -> S] :
          /\ f[0] = base
          /\ \A k \in 1 .. m - 1 : f[k] = step[k][f[k - 1]]
    BY <1>2
  <2> DEFINE g == [k \in 0 .. m |-> IF k = m THEN step[m][f[m - 1]] ELSE f[k]]
  <2>2. f[m - 1] \in S /\ step[m] \in [S -> S]
    OBVIOUS
  <2>3. g \in [0 .. m -> S]
    BY <2>2
  <2>4. g[0] = base
    BY <2>1
  <2>5. ASSUME NEW k \in 1 .. m
        PROVE  g[k] = step[k][g[k - 1]]
    <3>1. CASE k = m
      BY <3>1
    <3>2. CASE k # m
      BY <2>1, <3>2
    <3> QED
      BY <3>1, <3>2
  <2> HIDE DEF g
  <2>6. Turns(m) /\ m \in 0 .. n
    BY <2>3, <2>4, <2>5, SMTT(30)
  <2> HIDE DEF Turns
  <2> QED
    BY <2>6
<1>3. 0 .. n \subseteq T
  <2> HIDE DEF T
  <2> QED
    BY <1>1, <1>2, LoopInvariant
<1>4. n \in T
  BY <1>3
<1> QED
  BY <1>4 DEF IsLoop

-----------------------------------------------------------------------------
\* The lists that loops build.

\* A list, whatever its elements are.
IsList(s) == s \in Seq({s[k] : k \in DOMAIN s})

LEMMA ListFacts ==
  ASSUME NEW s, IsList(s)
  PROVE  /\ Len(s) \in Nat
         /\ DOMAIN s = 1 .. Len(s)
BY DEF IsList

LEMMA SequencesAreLists ==
  ASSUME NEW S, NEW s \in Seq(S)
  PROVE  IsList(s)
<1> DEFINE T == {s[k] : k \in DOMAIN s}
<1>1. Len(s) \in Nat /\ DOMAIN s = 1 .. Len(s) /\ s = [k \in 1 .. Len(s) |-> s[k]]
  OBVIOUS
<1>2. \A k \in 1 .. Len(s) : s[k] \in T
  BY <1>1
<1> HIDE DEF T
<1>3. s \in [1 .. Len(s) -> T]
  BY <1>1, <1>2
<1>4. s \in Seq(T)
  BY <1>1, <1>3
<1> QED
  BY <1>4 DEF IsList, T

LEMMA SequenceElements ==
  ASSUME NEW S, NEW s \in Seq(S)
  PROVE  \A k \in DOMAIN s : s[k] \in S
OBVIOUS

\* A function on 1 .. n is one.
LEMMA FunctionsAreLists ==
  ASSUME NEW n \in Nat, NEW s, s = [k \in 1 .. n |-> s[k]]
  PROVE  IsList(s) /\ Len(s) = n /\ DOMAIN s = 1 .. n
<1> DEFINE T == {s[k] : k \in 1 .. n}
<1>1. \A k \in 1 .. n : s[k] \in T
  OBVIOUS
<1> HIDE DEF T
<1>2. s \in [1 .. n -> T]
  BY <1>1
<1>3. s \in Seq(T) /\ Len(s) = n
  BY <1>2
<1> QED
  BY <1>2, <1>3, SequencesAreLists

\* Lists of the same elements are the same.
LEMMA SameLists ==
  ASSUME NEW s, NEW t, IsList(s), IsList(t), Len(s) = Len(t),
         \A k \in 1 .. Len(s) : s[k] = t[k]
  PROVE  s = t
<1>1. s = [k \in 1 .. Len(s) |-> s[k]] /\ t = [k \in 1 .. Len(t) |-> t[k]]
  BY DEF IsList
<1> QED
  BY <1>1

LEMMA NothingIsList == IsList(<<>>)
<1>1. <<>> \in Seq({})
  OBVIOUS
<1> QED
  BY <1>1, SequencesAreLists

LEMMA ListAppended ==
  ASSUME NEW s, IsList(s), NEW e
  PROVE  /\ IsList(Append(s, e))
         /\ DOMAIN Append(s, e) = DOMAIN s \cup {Len(s) + 1}
         /\ Len(Append(s, e)) = Len(s) + 1
         /\ Append(s, e)[Len(s) + 1] = e
         /\ \A k \in DOMAIN s : Append(s, e)[k] = s[k]
<1> DEFINE S == {s[k] : k \in DOMAIN s} \cup {e}
           t == Append(s, e)
<1>1. s \in Seq({s[k] : k \in DOMAIN s})
  BY DEF IsList
<1>2. s \in Seq(S) /\ e \in S
  <2>1. Len(s) \in Nat /\ DOMAIN s = 1 .. Len(s) /\ s \in [1 .. Len(s) -> S]
    BY <1>1
  <2> HIDE DEF S
  <2>2. s \in Seq(S)
    BY <2>1
  <2> QED
    BY <2>2 DEF S
<1> HIDE DEF S
<1>3. /\ t \in Seq(S)
      /\ Len(t) = Len(s) + 1
      /\ DOMAIN t = 1 .. Len(s) + 1
      /\ DOMAIN s = 1 .. Len(s) /\ Len(s) \in Nat
      /\ t[Len(s) + 1] = e
      /\ \A k \in 1 .. Len(s) : t[k] = s[k]
  BY <1>2
<1>4. IsList(t)
  BY <1>3, SequencesAreLists
<1>5. DOMAIN t = DOMAIN s \cup {Len(s) + 1}
  BY <1>3
<1> QED
  BY <1>3, <1>4, <1>5

LEMMA ListsJoined ==
  ASSUME NEW s, NEW t, IsList(s), IsList(t)
  PROVE  /\ IsList(s \o t)
         /\ Len(s \o t) = Len(s) + Len(t)
         /\ \A k \in 1 .. Len(s) : (s \o t)[k] = s[k]
         /\ \A k \in 1 .. Len(t) : (s \o t)[Len(s) + k] = t[k]
<1> DEFINE A == {s[k] : k \in DOMAIN s}
           B == {t[k] : k \in DOMAIN t}
           C == A \cup B
<1>1. s \in Seq(A) /\ t \in Seq(B)
  BY DEF IsList
<1>2. /\ Len(s) \in Nat /\ DOMAIN s = 1 .. Len(s)
      /\ Len(t) \in Nat /\ DOMAIN t = 1 .. Len(t)
  BY ListFacts
<1> HIDE DEF A, B
<1>3. s \in [1 .. Len(s) -> C] /\ t \in [1 .. Len(t) -> C]
  BY <1>1, <1>2
<1> HIDE DEF C
<1>4. s \in Seq(C) /\ t \in Seq(C)
  BY <1>2, <1>3
<1>5. s \o t \in Seq(C)
  BY <1>4
<1>6. IsList(s \o t)
  BY <1>5, SequencesAreLists
<1> QED
  BY <1>2, <1>4, <1>6

\* A list without repetitions.
NoRepeats(s) == \A j, k \in DOMAIN s : s[j] = s[k] => j = k

-----------------------------------------------------------------------------
\* Lists of lists, one after the other.

\* How much of the whole the first i lists are.
Before(lists, i) ==
  LET before[j \in 0 .. Len(lists)] ==
        IF j = 0 THEN 0 ELSE before[j - 1] + Len(lists[j])
  IN  before[i]

AreLists(lists) == IsList(lists) /\ \A i \in DOMAIN lists : IsList(lists[i])

LEMMA BeforeGrows ==
  ASSUME NEW lists, AreLists(lists)
  PROVE  /\ Before(lists, 0) = 0
         /\ \A i \in 0 .. Len(lists) : Before(lists, i) \in Nat
         /\ \A i \in 1 .. Len(lists) :
              Before(lists, i) = Before(lists, i - 1) + Len(lists[i])
<1> DEFINE n == Len(lists)
           step == [k \in 1 .. n |-> [x \in Nat |-> x + Len(lists[k])]]
           before == CHOOSE f : f = [j \in 0 .. Len(lists) |->
                       IF j = 0 THEN 0 ELSE f[j - 1] + Len(lists[j])]
<1>1. n \in Nat /\ DOMAIN lists = 1 .. n
  BY ListFacts DEF AreLists
<1>2. \A k \in 1 .. n : Len(lists[k]) \in Nat
  BY <1>1, ListFacts DEF AreLists
<1>3. step \in [1 .. n -> [Nat -> Nat]]
  BY <1>2
<1>4. PICK f : IsLoop(f, n, Nat, 0, step)
  <2> HIDE DEF step
  <2> QED
    BY <1>1, <1>3, LoopIsDefined
<1>5. \A k \in 1 .. n : f[k - 1] \in Nat /\ f[k] = f[k - 1] + Len(lists[k])
  <2> SUFFICES ASSUME NEW k \in 1 .. n
               PROVE  f[k - 1] \in Nat /\ f[k] = f[k - 1] + Len(lists[k])
    OBVIOUS
  <2>1. k - 1 \in 0 .. n
    BY <1>1
  <2>2. f[k - 1] \in Nat /\ f[k] = step[k][f[k - 1]]
    BY <1>4, <2>1 DEF IsLoop
  <2> QED
    BY <2>2
<1>6. f = [j \in 0 .. Len(lists) |-> IF j = 0 THEN 0 ELSE f[j - 1] + Len(lists[j])]
  BY <1>1, <1>4, <1>5 DEF IsLoop
<1>7. before = [j \in 0 .. Len(lists) |-> IF j = 0 THEN 0 ELSE before[j - 1] + Len(lists[j])]
  BY <1>6
<1>8. \A i : Before(lists, i) = before[i]
  BY DEF Before
<1> HIDE DEF before
<1>9. before[0] = 0 /\ \A k \in 1 .. n : before[k] = before[k - 1] + Len(lists[k])
  BY <1>1, <1>7, SMTT(30)
<1> DEFINE S == {k \in 0 .. n : before[k] \in Nat}
<1>10. 0 \in S
  BY <1>1, <1>9
<1>11. ASSUME NEW k \in 1 .. n, k - 1 \in S
       PROVE  k \in S
  BY <1>1, <1>2, <1>9, <1>11
<1> HIDE DEF S
<1>12. 0 .. n \subseteq S
  BY <1>1, <1>10, <1>11, LoopInvariant
<1> QED
  BY <1>8, <1>9, <1>12 DEF S

LEMMA BeforeAscends ==
  ASSUME NEW lists, AreLists(lists)
  PROVE  \A i \in 0 .. Len(lists) : \A j \in 0 .. i : Before(lists, j) <= Before(lists, i)
<1> DEFINE n == Len(lists)
           S == {i \in 0 .. n : \A j \in 0 .. i : Before(lists, j) <= Before(lists, i)}
<1>1. n \in Nat /\ DOMAIN lists = 1 .. n
  BY ListFacts DEF AreLists
<1>2. 0 \in S
  BY <1>1, BeforeGrows
<1>3. ASSUME NEW i \in 1 .. n, i - 1 \in S
      PROVE  i \in S
  <2>1. /\ Before(lists, i) = Before(lists, i - 1) + Len(lists[i])
        /\ Len(lists[i]) \in Nat
    BY <1>1, BeforeGrows, ListFacts DEF AreLists
  <2>2. i \in 0 .. n /\ i - 1 \in 0 .. n
    BY <1>1
  <2>3. Before(lists, i - 1) \in Nat /\ Before(lists, i) \in Nat
    BY <2>2, BeforeGrows
  <2>4. ASSUME NEW j \in 0 .. i
        PROVE  Before(lists, j) <= Before(lists, i)
    <3>1. CASE j = i
      BY <2>3, <3>1
    <3>2. CASE j # i
      <4>1. j \in 0 .. i - 1 /\ j \in 0 .. n
        BY <1>1, <3>2
      <4>2. Before(lists, j) \in Nat /\ Before(lists, j) <= Before(lists, i - 1)
        BY <1>3, <4>1, BeforeGrows
      <4> QED
        BY <2>1, <2>3, <4>2
    <3> QED
      BY <3>1, <3>2
  <2> QED
    BY <2>2, <2>4
<1> HIDE DEF S
<1>4. 0 .. n \subseteq S
  BY <1>1, <1>2, <1>3, LoopInvariant
<1> QED
  BY <1>4 DEF S

\* Each list is in the whole after the ones before it.
LEMMA FlatPlaces ==
  ASSUME NEW lists, AreLists(lists)
  PROVE  /\ IsList(FlattenSeq(lists))
         /\ Len(FlattenSeq(lists)) = Before(lists, Len(lists))
         /\ \A i \in 1 .. Len(lists) : \A k \in 1 .. Len(lists[i]) :
              FlattenSeq(lists)[Before(lists, i - 1) + k] = lists[i][k]
         /\ \A k \in DOMAIN FlattenSeq(lists) :
              \E i \in DOMAIN lists : \E j \in DOMAIN lists[i] : FlattenSeq(lists)[k] = lists[i][j]
<1> DEFINE n == Len(lists)
           T == UNION {{lists[i][j] : j \in DOMAIN lists[i]} : i \in DOMAIN lists}
<1>1. n \in Nat /\ DOMAIN lists = 1 .. n
  BY ListFacts DEF AreLists
<1>2. \A i \in 1 .. n : lists[i] \in Seq(T)
  <2> SUFFICES ASSUME NEW i \in 1 .. n PROVE lists[i] \in Seq(T)
    OBVIOUS
  <2>1. IsList(lists[i]) /\ i \in DOMAIN lists
    BY <1>1 DEF AreLists
  <2> DEFINE U == {lists[i][j] : j \in DOMAIN lists[i]}
  <2>2. U \subseteq T
    BY <2>1
  <2>3. lists[i] \in Seq(U)
    BY <2>1 DEF IsList
  <2> HIDE DEF U, T
  <2> QED
    BY <2>2, <2>3
<1>3. \A x \in T : \E i \in DOMAIN lists : \E j \in DOMAIN lists[i] : x = lists[i][j]
  OBVIOUS
<1> HIDE DEF T
<1> DEFINE step == [k \in 1 .. n |-> [x \in Seq(T) |-> x \o lists[k]]]
<1>4. step \in [1 .. n -> [Seq(T) -> Seq(T)]]
  <2>1. \A k \in 1 .. n : \A x \in Seq(T) : x \o lists[k] \in Seq(T)
    BY <1>2
  <2> QED
    BY <2>1
<1>5. << >> \in Seq(T)
  OBVIOUS
<1>6. PICK g : IsLoop(g, n, Seq(T), << >>, step)
  <2> DEFINE base == << >>
  <2>1. base \in Seq(T)
    BY <1>5
  <2> HIDE DEF step, base
  <2>2. \E g : IsLoop(g, n, Seq(T), base, step)
    BY <1>1, <1>4, <2>1, LoopIsDefined
  <2> QED
    BY <2>2 DEF base
<1>7. g[0] = << >> /\ \A k \in 0 .. n : g[k] \in Seq(T)
  BY <1>1, <1>6 DEF IsLoop
<1>8. \A k \in 1 .. n : g[k] = g[k - 1] \o lists[k]
  <2> SUFFICES ASSUME NEW k \in 1 .. n PROVE g[k] = g[k - 1] \o lists[k]
    OBVIOUS
  <2>1. k - 1 \in 0 .. n
    BY <1>1
  <2>2. g[k - 1] \in Seq(T) /\ g[k] = step[k][g[k - 1]]
    BY <1>6, <1>7, <2>1 DEF IsLoop
  <2> QED
    BY <2>2
<1> HIDE DEF step
<1>9. FlattenSeq(lists) = g[n]
  <2>1. CASE n = 0
    <3>1. lists = << >>
      BY <1>1, <2>1 DEF AreLists, IsList
    <3> QED
      BY <1>7, <2>1, <3>1 DEF FlattenSeq
  <2>2. CASE n # 0
    <3> DEFINE flatten == CHOOSE f : f = [i \in 1 .. Len(lists) |->
                            IF i = 1 THEN lists[i] ELSE f[i - 1] \o lists[i]]
               h == [i \in 1 .. n |-> g[i]]
    <3>1. \A i \in 1 .. n : i = 1 => h[i] = lists[i]
      <4> SUFFICES ASSUME NEW i \in 1 .. n, i = 1 PROVE h[i] = lists[i]
        OBVIOUS
      <4>0. g[i] = g[i - 1] \o lists[i]
        BY <1>8
      <4>1. g[i] = g[i - 1] \o lists[i] /\ i - 1 = 0
        BY <4>0
      <4>2. g[i - 1] = << >>
        BY <1>7, <4>1
      <4>3. lists[i] \in Seq(T)
        BY <1>2
      <4> QED
        BY <4>1, <4>2, <4>3
    <3>2. \A i \in 1 .. n : i # 1 => h[i] = h[i - 1] \o lists[i]
      <4> SUFFICES ASSUME NEW i \in 1 .. n, i # 1 PROVE h[i] = h[i - 1] \o lists[i]
        OBVIOUS
      <4>1. i - 1 \in 1 .. n
        BY <1>1
      <4> QED
        BY <1>8, <4>1
    <3>3. h = [i \in 1 .. Len(lists) |-> IF i = 1 THEN lists[i] ELSE h[i - 1] \o lists[i]]
      <4>1. DOMAIN h = 1 .. n
        OBVIOUS
      <4>2. h = [i \in 1 .. n |-> h[i]]
        OBVIOUS
      <4> HIDE DEF h
      <4> QED
        BY <3>1, <3>2, <4>1, <4>2
    <3>4. flatten = [i \in 1 .. n |-> IF i = 1 THEN lists[i] ELSE flatten[i - 1] \o lists[i]]
      <4> HIDE DEF h
      <4> QED
        BY <3>3
    <3>5. FlattenSeq(lists) = flatten[n]
      BY <2>2 DEF FlattenSeq
    <3> HIDE DEF flatten, h
    <3> DEFINE S == {k \in 0 .. n : k # 0 => flatten[k] = g[k]}
    <3>6. 0 \in S
      BY <1>1
    <3>7. ASSUME NEW k \in 1 .. n, k - 1 \in S
          PROVE  k \in S
      <4>1. CASE k = 1
        <5>1. flatten[k] = lists[k]
          BY <3>4, <4>1
        <5>2. g[k] = lists[k]
          <6>1. h[k] = lists[k]
            BY <3>1, <4>1
          <6> QED
            BY <6>1 DEF h
        <5> QED
          BY <1>1, <5>1, <5>2
      <4>2. CASE k # 1
        <5>1. flatten[k] = flatten[k - 1] \o lists[k]
          BY <3>4, <4>2
        <5>2. flatten[k - 1] = g[k - 1]
          BY <3>7, <4>2
        <5>3. g[k] = g[k - 1] \o lists[k]
          BY <1>8
        <5>4. k \in 0 .. n
          BY <1>1
        <5> QED
          BY <5>1, <5>2, <5>3, <5>4
      <4> QED
        BY <4>1, <4>2
    <3> HIDE DEF S
    <3>8. 0 .. n \subseteq S
      BY <1>1, <3>6, <3>7, LoopInvariant
    <3>9. n \in 0 .. n
      BY <1>1
    <3> QED
      BY <2>2, <3>5, <3>8, <3>9 DEF S
  <2> QED
    BY <2>1, <2>2
<1> DEFINE In(i) == /\ Len(g[i]) = Before(lists, i)
                    /\ \A j \in 1 .. i : \A k \in 1 .. Len(lists[j]) :
                         /\ Before(lists, j - 1) + k \in 1 .. Len(g[i])
                         /\ g[i][Before(lists, j - 1) + k] = lists[j][k]
           S == {i \in 0 .. n : In(i)}
<1>10. 0 \in S
  <2>1. Len(g[0]) = 0 /\ Before(lists, 0) = 0
    BY <1>7, BeforeGrows
  <2> QED
    BY <1>1, <2>1
<1>11. ASSUME NEW i \in 1 .. n, i - 1 \in S
       PROVE  i \in S
  <2> DEFINE old == g[i - 1]
             new == g[i]
             list == lists[i]
  <2>1. /\ i - 1 \in 0 .. n /\ i \in 0 .. n
        /\ old \in Seq(T) /\ list \in Seq(T)
        /\ new = old \o list
    <3>1. i - 1 \in 0 .. n /\ i \in 0 .. n
      BY <1>1
    <3>2. old \in Seq(T)
      BY <1>7, <3>1
    <3>3. list \in Seq(T)
      BY <1>2
    <3>4. new = old \o list
      BY <1>8
    <3> QED
      BY <3>1, <3>2, <3>3, <3>4
  <2>2. In(i - 1)
    BY <1>11
  <2>3. /\ Before(lists, i) = Before(lists, i - 1) + Len(list)
        /\ Len(old) = Before(lists, i - 1)
    BY <2>2, BeforeGrows
  <2> HIDE DEF old, new, list
  <2>4. /\ Len(old) \in Nat /\ Len(list) \in Nat
        /\ Len(new) = Len(old) + Len(list)
        /\ \A k \in 1 .. Len(old) : new[k] = old[k]
        /\ \A k \in 1 .. Len(list) : new[Len(old) + k] = list[k]
    BY <2>1
  <2>5. ASSUME NEW j \in 1 .. i, NEW k \in 1 .. Len(lists[j])
        PROVE  /\ Before(lists, j - 1) + k \in 1 .. Len(new)
               /\ new[Before(lists, j - 1) + k] = lists[j][k]
    <3>1. CASE j = i
      <4> DEFINE p == Before(lists, j - 1) + k
      <4>1. p = Len(old) + k /\ lists[j] = list
        BY <2>3, <3>1 DEF list
      <4> HIDE DEF p
      <4>2. k \in 1 .. Len(list)
        BY <4>1
      <4>3. p \in 1 .. Len(new) /\ new[p] = list[k]
        BY <2>4, <4>1, <4>2
      <4> QED
        BY <4>1, <4>3 DEF p
    <3>2. CASE j # i
      <4>1. j \in 1 .. i - 1
        BY <1>1, <3>2
      <4> DEFINE p == Before(lists, j - 1) + k
      <4>2. p \in 1 .. Len(old) /\ old[p] = lists[j][k]
        BY <2>2, <4>1 DEF old
      <4> HIDE DEF p
      <4>3. p \in 1 .. Len(new) /\ new[p] = lists[j][k]
        BY <2>4, <4>2
      <4> QED
        BY <4>3 DEF p
    <3> QED
      BY <3>1, <3>2
  <2>6. Len(new) = Before(lists, i)
    BY <2>3, <2>4
  <2> QED
    BY <2>1, <2>5, <2>6 DEF new
<1> HIDE DEF S
<1>12. 0 .. n \subseteq S
  BY <1>1, <1>10, <1>11, LoopInvariant
<1>13. In(n)
  BY <1>1, <1>12 DEF S
<1>14. g[n] \in Seq(T)
  BY <1>1, <1>7
<1> HIDE DEF In
<1> DEFINE flat == FlattenSeq(lists)
<1>15. flat = g[n]
  BY <1>9
<1> HIDE DEF flat
<1>16. flat \in Seq(T) /\ IsList(flat)
  BY <1>14, <1>15, SequencesAreLists
<1>17. \A k \in DOMAIN flat : flat[k] \in T
  BY <1>16
<1>18. /\ Len(flat) = Before(lists, n)
       /\ \A i \in 1 .. n : \A k \in 1 .. Len(lists[i]) :
            flat[Before(lists, i - 1) + k] = lists[i][k]
  BY <1>13, <1>15 DEF In
<1> QED
  BY <1>3, <1>16, <1>17, <1>18 DEF flat

\* What is in joined lists is in one of them.
LEMMA JoinedElements ==
  ASSUME NEW s, NEW t, IsList(s), IsList(t)
  PROVE  ToSet(s \o t) = ToSet(s) \cup ToSet(t)
<1> DEFINE st == s \o t
<1>1. /\ IsList(st)
      /\ Len(st) = Len(s) + Len(t)
      /\ \A k \in 1 .. Len(s) : st[k] = s[k]
      /\ \A k \in 1 .. Len(t) : st[Len(s) + k] = t[k]
  BY ListsJoined
<1> HIDE DEF st
<1>2. /\ Len(s) \in Nat /\ DOMAIN s = 1 .. Len(s)
      /\ Len(t) \in Nat /\ DOMAIN t = 1 .. Len(t)
      /\ DOMAIN st = 1 .. Len(s) + Len(t)
  BY <1>1, ListFacts
<1>3. ASSUME NEW j \in DOMAIN st
      PROVE  (\E k \in DOMAIN s : s[k] = st[j]) \/ (\E k \in DOMAIN t : t[k] = st[j])
  <2>1. CASE j \in 1 .. Len(s)
    BY <1>1, <1>2, <2>1
  <2>2. CASE j \notin 1 .. Len(s)
    <3>1. j - Len(s) \in 1 .. Len(t) /\ Len(s) + (j - Len(s)) = j
      BY <1>2, <2>2
    <3> QED
      BY <1>1, <1>2, <3>1
  <2> QED
    BY <2>1, <2>2
<1>4. \A j \in DOMAIN s : j \in DOMAIN st /\ st[j] = s[j]
  BY <1>1, <1>2
<1>5. \A j \in DOMAIN t : Len(s) + j \in DOMAIN st /\ st[Len(s) + j] = t[j]
  BY <1>1, <1>2
<1>6. \A y : y \in ToSet(st) <=> y \in ToSet(s) \/ y \in ToSet(t)
  BY <1>3, <1>4, <1>5 DEF ToSet
<1> QED
  BY <1>6 DEF st

\* What is in lists one after the other is in one of them.
LEMMA FlatElements ==
  ASSUME NEW lists, AreLists(lists)
  PROVE  \A y : y \in ToSet(FlattenSeq(lists)) <=> \E i \in DOMAIN lists : y \in ToSet(lists[i])
<1> DEFINE flat == FlattenSeq(lists)
           n == Len(lists)
           place(i, k) == Before(lists, i - 1) + k
<1>1. /\ IsList(flat)
      /\ Len(flat) = Before(lists, n)
      /\ \A i \in 1 .. n : \A k \in 1 .. Len(lists[i]) : flat[place(i, k)] = lists[i][k]
      /\ \A k \in DOMAIN flat :
           \E i \in DOMAIN lists : \E j \in DOMAIN lists[i] : flat[k] = lists[i][j]
  BY FlatPlaces
<1>2. n \in Nat /\ DOMAIN lists = 1 .. n
  BY ListFacts DEF AreLists
<1>3. \A i \in 1 .. n : Len(lists[i]) \in Nat /\ DOMAIN lists[i] = 1 .. Len(lists[i])
  BY <1>2, ListFacts DEF AreLists
<1> HIDE DEF flat
<1>4. ASSUME NEW i \in 1 .. n, NEW k \in 1 .. Len(lists[i])
      PROVE  place(i, k) \in DOMAIN flat
  <2>1. /\ Before(lists, i - 1) \in Nat
        /\ Before(lists, i) = Before(lists, i - 1) + Len(lists[i])
    BY <1>2, BeforeGrows
  <2>2. Before(lists, i) <= Before(lists, n) /\ Before(lists, n) \in Nat
    BY <1>2, BeforeAscends, BeforeGrows
  <2>3. DOMAIN flat = 1 .. Before(lists, n)
    BY <1>1, ListFacts
  <2> QED
    BY <1>3, <2>1, <2>2, <2>3
<1>5. \A y : y \in ToSet(flat) => \E i \in DOMAIN lists : y \in ToSet(lists[i])
  BY <1>1 DEF ToSet
<1>6. ASSUME NEW i \in DOMAIN lists, NEW y \in ToSet(lists[i])
      PROVE  y \in ToSet(flat)
  <2>1. PICK k \in 1 .. Len(lists[i]) : y = lists[i][k]
    BY <1>2, <1>3 DEF ToSet
  <2>2. place(i, k) \in DOMAIN flat /\ flat[place(i, k)] = y
    BY <1>1, <1>2, <1>4, <2>1
  <2> QED
    BY <2>2 DEF ToSet
<1> QED
  BY <1>5, <1>6 DEF flat

-----------------------------------------------------------------------------
\* Some elements of a list.

LEMMA SelectedFacts ==
  ASSUME NEW list, IsList(list), NEW places
  PROVE  /\ IsList(Selected(list, places))
         /\ Len(Selected(list, places)) <= Len(list)
         /\ \A k \in DOMAIN Selected(list, places) :
              \E j \in DOMAIN list : j \in places /\ Selected(list, places)[k] = list[j]
         /\ DOMAIN list \subseteq places => Selected(list, places) = list
<1> DEFINE n == Len(list)
           T == {list[j] : j \in DOMAIN list \cap places}
           selected == CHOOSE f : f = [k \in 0 .. Len(list) |->
                         IF k = 0 THEN << >>
                         ELSE IF k \in places THEN Append(f[k - 1], list[k])
                         ELSE f[k - 1]]
           step == [k \in 1 .. n |->
                      [x \in Seq(T) |-> IF k \in places THEN Append(x, list[k]) ELSE x]]
<1>1. n \in Nat /\ DOMAIN list = 1 .. n
  BY ListFacts
<1>2. \A k \in 1 .. n : k \in places => list[k] \in T
  BY <1>1
<1>3. \A x \in T : \E j \in DOMAIN list : j \in places /\ x = list[j]
  OBVIOUS
<1> HIDE DEF T
<1>4. step \in [1 .. n -> [Seq(T) -> Seq(T)]]
  <2>1. \A k \in 1 .. n : \A x \in Seq(T) :
          (IF k \in places THEN Append(x, list[k]) ELSE x) \in Seq(T)
    BY <1>2
  <2> QED
    BY <2>1
<1>5. PICK g : IsLoop(g, n, Seq(T), << >>, step)
  <2> DEFINE base == << >>
  <2>1. base \in Seq(T)
    OBVIOUS
  <2> HIDE DEF step, base
  <2>2. \E g : IsLoop(g, n, Seq(T), base, step)
    BY <1>1, <1>4, <2>1, LoopIsDefined
  <2> QED
    BY <2>2 DEF base
<1>6. g[0] = << >> /\ DOMAIN g = 0 .. n /\ g = [k \in 0 .. n |-> g[k]]
  BY <1>1, <1>5 DEF IsLoop
<1>7. \A k \in 1 .. n :
        g[k] = IF k \in places THEN Append(g[k - 1], list[k]) ELSE g[k - 1]
  <2> SUFFICES ASSUME NEW k \in 1 .. n
               PROVE  g[k] = IF k \in places THEN Append(g[k - 1], list[k]) ELSE g[k - 1]
    OBVIOUS
  <2>1. k - 1 \in 0 .. n
    BY <1>1
  <2>2. g[k - 1] \in Seq(T) /\ g[k] = step[k][g[k - 1]]
    BY <1>5, <2>1 DEF IsLoop
  <2> QED
    BY <2>2
<1> HIDE DEF step
<1>8. g = [k \in 0 .. Len(list) |->
             IF k = 0 THEN << >>
             ELSE IF k \in places THEN Append(g[k - 1], list[k])
             ELSE g[k - 1]]
  BY <1>1, <1>6, <1>7
<1>9. selected = [k \in 0 .. Len(list) |->
                    IF k = 0 THEN << >>
                    ELSE IF k \in places THEN Append(selected[k - 1], list[k])
                    ELSE selected[k - 1]]
  BY <1>8
<1>10. Selected(list, places) = selected[n]
  BY DEF Selected
<1> HIDE DEF selected
<1>11. /\ selected[0] = << >>
       /\ \A k \in 1 .. n :
            selected[k] = IF k \in places THEN Append(selected[k - 1], list[k])
                          ELSE selected[k - 1]
  <2>1. 0 \in 0 .. n /\ \A k \in 1 .. n : k \in 0 .. n /\ k # 0
    BY <1>1
  <2>2. selected[0] = << >>
    BY <1>9, <2>1
  <2> HIDE DEF n
  <2>3. ASSUME NEW k \in 1 .. n
        PROVE  selected[k] = IF k \in places THEN Append(selected[k - 1], list[k])
                             ELSE selected[k - 1]
    BY <1>9, <2>1 DEF n
  <2> QED
    BY <2>2, <2>3
<1> DEFINE Good(k) == /\ selected[k] \in Seq(T)
                      /\ Len(selected[k]) <= k
                      /\ DOMAIN list \subseteq places =>
                           /\ Len(selected[k]) = k
                           /\ \A j \in 1 .. k : selected[k][j] = list[j]
           S == {k \in 0 .. n : Good(k)}
<1>12. 0 \in S
  <2> DEFINE none == selected[0]
  <2>1. none = << >>
    BY <1>11
  <2> HIDE DEF none
  <2>2. none \in Seq(T) /\ Len(none) = 0
    BY <2>1
  <2>3. Good(0)
    BY <2>2 DEF none
  <2> HIDE DEF Good
  <2> QED
    BY <1>1, <2>3
<1>13. ASSUME NEW k \in 1 .. n, k - 1 \in S
       PROVE  k \in S
  <2> DEFINE old == selected[k - 1]
             new == selected[k]
  <2>1. Good(k - 1)
    BY <1>13
  <2>2. new = IF k \in places THEN Append(old, list[k]) ELSE old
    BY <1>11
  <2> HIDE DEF old, new
  <2>3. old \in Seq(T) /\ Len(old) <= k - 1
    BY <2>1 DEF old
  <2>4. CASE k \in places
    <3>1. new = Append(old, list[k]) /\ list[k] \in T
      BY <1>2, <2>2, <2>4
    <3>2. new \in Seq(T) /\ Len(new) <= k
      BY <2>3, <3>1
    <3>3. ASSUME DOMAIN list \subseteq places
          PROVE  Len(new) = k /\ \A j \in 1 .. k : new[j] = list[j]
      <4>1. Len(old) = k - 1 /\ \A j \in 1 .. k - 1 : old[j] = list[j]
        BY <2>1, <3>3 DEF old
      <4> QED
        BY <1>1, <2>3, <3>1, <4>1
    <3> QED
      BY <1>1, <3>2, <3>3 DEF new
  <2>5. CASE k \notin places
    <3>1. new = old /\ ~ (DOMAIN list \subseteq places)
      BY <1>1, <2>2, <2>5
    <3>2. new \in Seq(T) /\ Len(new) <= k
      BY <1>1, <2>3, <3>1
    <3> QED
      BY <1>1, <3>1, <3>2 DEF new
  <2> QED
    BY <2>4, <2>5
<1> HIDE DEF S
<1>14. 0 .. n \subseteq S
  BY <1>1, <1>12, <1>13, LoopInvariant
<1>15. Good(n)
  BY <1>1, <1>14 DEF S
<1> DEFINE all == selected[n]
<1>16. Selected(list, places) = all
  BY <1>10
<1>17. all \in Seq(T) /\ Len(all) <= n
  BY <1>15
<1>18. DOMAIN list \subseteq places => Len(all) = n /\ \A j \in 1 .. n : all[j] = list[j]
  BY <1>15
<1> HIDE DEF all, Good
<1>19. IsList(all)
  BY <1>17, SequencesAreLists
<1>20. \A k \in DOMAIN all : all[k] \in T
  BY <1>17
<1>21. DOMAIN list \subseteq places => all = list
  <2> SUFFICES ASSUME DOMAIN list \subseteq places PROVE all = list
    OBVIOUS
  <2>1. all = [j \in 1 .. n |-> all[j]] /\ list = [j \in 1 .. n |-> list[j]]
    BY <1>1, <1>17, <1>18 DEF IsList
  <2> QED
    BY <1>18, <2>1
<1> QED
  BY <1>3, <1>16, <1>17, <1>19, <1>20, <1>21

-----------------------------------------------------------------------------
\* Sets of numbers.

\* The minimum of a set of numbers is the least of them.
LEMMA LeastNumber ==
  ASSUME NEW S, S \subseteq Nat, S # {}
  PROVE  Min(S) \in S /\ \A x \in S : Min(S) <= x
<1>1. PICK least \in S : \A x \in S : <<x, least>> \notin OpToRel(<, Nat)
  <2> DEFINE L == OpToRel(<, Nat)
  <2>1. IsWellFoundedOn(L, Nat)
    BY NatLessThanWellFounded
  <2> HIDE DEF L
  <2>2. \E least \in S : \A x \in S : <<x, least>> \notin L
    BY <2>1, WFMin
  <2> QED
    BY <2>2 DEF L
<1>2. \A x \in S : least <= x
  <2> SUFFICES ASSUME NEW x \in S, ~ (least <= x) PROVE FALSE
    OBVIOUS
  <2>1. x \in Nat /\ least \in Nat /\ x < least
    OBVIOUS
  <2>2. <<x, least>> \in OpToRel(<, Nat)
    BY <2>1 DEF OpToRel
  <2> QED
    BY <1>1, <2>2
<1> QED
  BY <1>2 DEF Min

\* The maximum of a bounded set of numbers is the greatest of them.
LEMMA GreatestNumber ==
  ASSUME NEW n \in Nat, NEW S, S \subseteq 0 .. n, S # {}
  PROVE  Max(S) \in S /\ \A x \in S : x <= Max(S)
<1> DEFINE T == {n - x : x \in S}
<1>1. T \subseteq Nat /\ T # {}
  OBVIOUS
<1> DEFINE least == Min(T)
<1>2. least \in T /\ \A y \in T : least <= y
  <2> HIDE DEF T
  <2> QED
    BY <1>1, LeastNumber
<1> HIDE DEF least
<1>3. PICK greatest \in S : least = n - greatest
  BY <1>2
<1>4. \A x \in S : greatest >= x
  <2> SUFFICES ASSUME NEW x \in S PROVE greatest >= x
    OBVIOUS
  <2>1. n - x \in T /\ x \in Nat /\ greatest \in Nat
    OBVIOUS
  <2>2. least <= n - x
    BY <1>2, <2>1
  <2> QED
    BY <1>3, <2>1, <2>2
<1> DEFINE most == Max(S)
<1>5. most \in S /\ \A x \in S : most >= x
  BY <1>4 DEF Max
<1> HIDE DEF most
<1>6. \A x \in S : x <= most
  <2> SUFFICES ASSUME NEW x \in S PROVE x <= most
    OBVIOUS
  <2> QED
    BY <1>5
<1> QED
  BY <1>5, <1>6 DEF most

-----------------------------------------------------------------------------
\* The hash table.

\* A key of a table with at least one bucket hashes to one of its buckets.
LEMMA HashKeyInRange ==
  ASSUME NEW c \in Nat \ {0}, NEW Ids, NEW ht \in Tables(c, Ids), NEW n \in Name
  PROVE  HashKey(ht, n) \in 0 .. c - 1
<1>1. Hash[n] \in Nat /\ ht.capacity = c
  BY HashAssumption DEF Tables
<1>2. Hash[n] % c \in 0 .. c - 1
  BY <1>1
<1> QED
  BY <1>1, <1>2 DEF HashKey

\* A chain is a sequence of entries in which no key occurs twice.
IsChain(chain, Ids) ==
  /\ chain \in Seq(hash_t(Ids))
  /\ \A k, l \in 1 .. Len(chain) : chain[k].name = chain[l].name => k = l

\* In a chain that stores no key twice, the match of a key is the first one.
LEMMA OnlyMatch ==
  ASSUME NEW Ids, NEW chain, IsChain(chain, Ids),
         NEW n, NEW k \in Matches(chain, n)
  PROVE  FirstMatch(chain, n) = k
<1>1. k \in Int /\ k \in 1 .. Len(chain) /\ chain[k].name = n
  BY DEF Matches, IsChain
<1>2. \A l \in Matches(chain, n) : l = k
  BY <1>1 DEF Matches, IsChain
<1>3. Matches(chain, n) = {k}
  BY <1>2
<1>4. k <= k
  BY <1>1
<1> QED
  BY <1>3, <1>4 DEF FirstMatch, Min

\* The answer of a chain: the id of the entry with the key, if there is one.
ChainGet(chain, key) ==
  IF Matches(chain, key) = {} THEN NotFound ELSE chain[FirstMatch(chain, key)].id

\* Inserting into a chain keeps it a chain, holds the new entry and no other
\* new key, and answers the new id for its key and the old id for the rest.
LEMMA ChainInserted ==
  ASSUME NEW Ids, NEW chain, IsChain(chain, Ids), NEW e \in hash_t(Ids)
  PROVE  /\ IsChain(ChainInsert(chain, e), Ids)
         /\ \A k \in 1 .. Len(ChainInsert(chain, e)) :
              \/ ChainInsert(chain, e)[k] = e
              \/ \E l \in 1 .. Len(chain) : ChainInsert(chain, e)[k] = chain[l]
         /\ \A n \in Name : ChainGet(ChainInsert(chain, e), n) =
                              IF n = e.name THEN e.id ELSE ChainGet(chain, n)
<1> DEFINE new == ChainInsert(chain, e)
<1>0. e.name \in Name /\ e.id \in Ids
  BY DEF hash_t
<1>1. CASE Matches(chain, e.name) = {}
  <2>1. new = Append(chain, e)
    BY <1>1 DEF ChainInsert
  <2>2. /\ new \in Seq(hash_t(Ids))
        /\ Len(new) = Len(chain) + 1
        /\ Len(chain) \in Nat
        /\ new[Len(new)] = e
        /\ \A k \in 1 .. Len(chain) : new[k] = chain[k]
    BY <2>1 DEF IsChain
  <2>3. \A k \in 1 .. Len(chain) : chain[k].name # e.name
    BY <1>1 DEF Matches
  <2>4. IsChain(new, Ids)
    <3> SUFFICES ASSUME NEW k \in 1 .. Len(new), NEW l \in 1 .. Len(new),
                        new[k].name = new[l].name
                 PROVE  k = l
      BY <2>2 DEF IsChain
    <3>1. CASE k = Len(new) \/ l = Len(new)
      BY <3>1, <2>2, <2>3
    <3>2. CASE k # Len(new) /\ l # Len(new)
      <4>1. k \in 1 .. Len(chain) /\ l \in 1 .. Len(chain)
        BY <3>2, <2>2
      <4> QED
        BY <4>1, <2>2 DEF IsChain
    <3> QED
      BY <3>1, <3>2
  <2>5. ASSUME NEW n \in Name
        PROVE  ChainGet(new, n) = IF n = e.name THEN e.id ELSE ChainGet(chain, n)
    <3>1. CASE n = e.name
      <4>1. Len(new) \in Matches(new, n)
        BY <2>2, <3>1 DEF Matches
      <4>2. FirstMatch(new, n) = Len(new)
        BY <4>1, <2>4, OnlyMatch
      <4> QED
        BY <4>1, <4>2, <2>2, <3>1 DEF ChainGet
    <3>2. CASE n # e.name
      <4>1. Matches(new, n) = Matches(chain, n)
        BY <2>2, <3>2 DEF Matches
      <4>2. CASE Matches(chain, n) = {}
        BY <4>1, <4>2, <3>2 DEF ChainGet
      <4>3. CASE Matches(chain, n) # {}
        <5>1. PICK k \in Matches(chain, n) : TRUE
          BY <4>3
        <5>2. FirstMatch(chain, n) = k
          BY <5>1, OnlyMatch
        <5>3. FirstMatch(new, n) = k
          BY <5>1, <4>1, <2>4, OnlyMatch
        <5>4. new[k] = chain[k]
          BY <5>1, <2>2 DEF Matches
        <5> QED
          BY <5>2, <5>3, <5>4, <4>1, <4>3, <3>2 DEF ChainGet
      <4> QED
        BY <4>2, <4>3
    <3> QED
      BY <3>1, <3>2
  <2> QED
    BY <2>2, <2>4, <2>5
<1>2. CASE Matches(chain, e.name) # {}
  <2>1. PICK p \in Matches(chain, e.name) : TRUE
    BY <1>2
  <2>2. FirstMatch(chain, e.name) = p
    BY <2>1, OnlyMatch
  <2>3. p \in 1 .. Len(chain) /\ chain[p].name = e.name
    BY <2>1 DEF Matches
  <2>4. new = [chain EXCEPT ![p] = e]
    BY <1>2, <2>2 DEF ChainInsert
  <2>5. /\ new \in Seq(hash_t(Ids))
        /\ Len(new) = Len(chain)
        /\ \A k \in 1 .. Len(chain) : new[k] = IF k = p THEN e ELSE chain[k]
        /\ \A k \in 1 .. Len(chain) : new[k].name = chain[k].name
    BY <2>3, <2>4 DEF IsChain
  <2>6. IsChain(new, Ids)
    BY <2>5 DEF IsChain
  <2>7. ASSUME NEW n \in Name
        PROVE  ChainGet(new, n) = IF n = e.name THEN e.id ELSE ChainGet(chain, n)
    <3>1. Matches(new, n) = Matches(chain, n)
      BY <2>5 DEF Matches
    <3>2. CASE Matches(chain, n) = {}
      <4>1. n # e.name
        BY <3>2, <1>2
      <4> QED
        BY <4>1, <3>1, <3>2 DEF ChainGet
    <3>3. CASE Matches(chain, n) # {}
      <4>1. PICK k \in Matches(chain, n) : TRUE
        BY <3>3
      <4>2. FirstMatch(chain, n) = k /\ FirstMatch(new, n) = k
        BY <4>1, <3>1, <2>6, OnlyMatch
      <4>3. k \in 1 .. Len(chain) /\ chain[k].name = n
        BY <4>1 DEF Matches
      <4>4. k = p <=> n = e.name
        BY <4>3, <2>3 DEF IsChain
      <4> QED
        BY <4>2, <4>3, <4>4, <3>1, <3>3, <2>5 DEF ChainGet
    <3> QED
      BY <3>2, <3>3
  <2> QED
    BY <2>5, <2>6, <2>7
<1> QED
  BY <1>1, <1>2

-----------------------------------------------------------------------------

\* The buckets of a well-formed table are chains of the keys that hash there.
LEMMA BucketIsChain ==
  ASSUME NEW c \in Nat \ {0}, NEW Ids, NEW ht \in Tables(c, Ids), WellFormed(ht),
         NEW b \in 0 .. c - 1
  PROVE  /\ IsChain(ht.data[b], Ids)
         /\ \A k \in 1 .. Len(ht.data[b]) : HashKey(ht, ht.data[b][k].name) = b
BY DEF Tables, WellFormed, IsChain

\* hashtable_create gives an empty well-formed table, of any capacity.
LEMMA TableCreated ==
  ASSUME NEW c \in Nat, NEW Ids
  PROVE  /\ hashtable_create(c) \in Tables(c, Ids)
         /\ WellFormed(hashtable_create(c))
         /\ c # 0 => \A n \in Name : hashtable_get(hashtable_create(c), n) = NotFound
<1> DEFINE ht == hashtable_create(c)
<1>1. ht \in Tables(c, Ids)
  BY DEF hashtable_create, Tables
<1>2. WellFormed(ht)
  BY DEF hashtable_create, WellFormed
<1>3. ASSUME c # 0, NEW n \in Name
      PROVE  hashtable_get(ht, n) = NotFound
  <2>1. HashKey(ht, n) \in 0 .. c - 1
    BY <1>1, <1>3, HashKeyInRange
  <2>2. ht.data[HashKey(ht, n)] = <<>>
    BY <2>1 DEF hashtable_create
  <2>3. Matches(<<>>, n) = {}
    BY DEF Matches
  <2> QED
    BY <2>2, <2>3 DEF hashtable_get
<1> QED
  BY <1>1, <1>2, <1>3

\* An insertion touches one bucket and keeps every entry under its own key.
LEMMA TableInserted ==
  ASSUME NEW c \in Nat \ {0}, NEW Ids, NEW ht \in Tables(c, Ids), WellFormed(ht),
         NEW e \in hash_t(Ids)
  PROVE  /\ hashtable_insert(ht, e) \in Tables(c, Ids)
         /\ WellFormed(hashtable_insert(ht, e))
         /\ \A n \in Name : hashtable_get(hashtable_insert(ht, e), n) =
                              IF n = e.name THEN e.id ELSE hashtable_get(ht, n)
<1> DEFINE new == hashtable_insert(ht, e)
           h   == HashKey(ht, e.name)
<1>1. e.name \in Name
  BY DEF hash_t
<1>2. h \in 0 .. c - 1
  BY <1>1, HashKeyInRange
<1>3. /\ ht.capacity = c
      /\ ht.data \in [0 .. c - 1 -> Seq(hash_t(Ids))]
  BY DEF Tables
<1>4. /\ new = [capacity |-> c, data |-> new.data]
      /\ new.data = [ht.data EXCEPT ![h] = ChainInsert(ht.data[h], e)]
  BY <1>2, <1>3 DEF hashtable_insert, Tables
<1> HIDE DEF new
<1>5. /\ IsChain(ht.data[h], Ids)
      /\ \A k \in 1 .. Len(ht.data[h]) : HashKey(ht, ht.data[h][k].name) = h
  BY <1>2, BucketIsChain
<1>6. /\ IsChain(new.data[h], Ids)
      /\ \A k \in 1 .. Len(new.data[h]) :
           \/ new.data[h][k] = e
           \/ \E l \in 1 .. Len(ht.data[h]) : new.data[h][k] = ht.data[h][l]
      /\ \A n \in Name : ChainGet(new.data[h], n) =
                           IF n = e.name THEN e.id ELSE ChainGet(ht.data[h], n)
  <2>1. new.data[h] = ChainInsert(ht.data[h], e)
    BY <1>2, <1>3, <1>4
  <2> QED
    BY <1>5, <2>1, ChainInserted
<1>7. \A b \in 0 .. c - 1 : b # h => new.data[b] = ht.data[b]
  BY <1>2, <1>3, <1>4
<1>8. \A n : HashKey(new, n) = HashKey(ht, n)
  BY <1>3, <1>4 DEF HashKey
<1>9. new \in Tables(c, Ids)
  <2>1. ChainInsert(ht.data[h], e) \in Seq(hash_t(Ids))
    BY <1>5, ChainInserted DEF IsChain
  <2>2. new.data \in [0 .. c - 1 -> Seq(hash_t(Ids))]
    BY <2>1, <1>2, <1>3, <1>4
  <2> QED
    BY <2>2, <1>4, SMTT(30) DEF Tables
<1>10. WellFormed(new)
  <2> SUFFICES ASSUME NEW b \in 0 .. c - 1
               PROVE  \A k \in 1 .. Len(new.data[b]) :
                        /\ HashKey(new, new.data[b][k].name) = b
                        /\ \A l \in 1 .. Len(new.data[b]) :
                             new.data[b][k].name = new.data[b][l].name => k = l
    BY <1>4 DEF WellFormed
  <2>1. CASE b = h
    <3>1. \A k \in 1 .. Len(new.data[h]) : HashKey(ht, new.data[h][k].name) = h
      BY <1>5, <1>6
    <3>2. \A k \in 1 .. Len(new.data[h]) : HashKey(new, new.data[h][k].name) = h
      BY <3>1, <1>8
    <3> HIDE DEF h
    <3> QED
      BY <2>1, <3>2, <1>6 DEF IsChain
  <2>2. CASE b # h
    BY <2>2, <1>7, <1>8, <1>3, SMTT(30) DEF WellFormed
  <2> QED
    BY <2>1, <2>2
<1>11. ASSUME NEW n \in Name
       PROVE  hashtable_get(new, n) = IF n = e.name THEN e.id ELSE hashtable_get(ht, n)
  <2>1. HashKey(ht, n) \in 0 .. c - 1
    BY HashKeyInRange
  <2>2. /\ hashtable_get(new, n) = ChainGet(new.data[HashKey(ht, n)], n)
        /\ hashtable_get(ht, n) = ChainGet(ht.data[HashKey(ht, n)], n)
    BY <1>8 DEF hashtable_get, ChainGet
  <2>3. CASE HashKey(ht, n) = h
    BY <2>2, <2>3, <1>6
  <2>4. CASE HashKey(ht, n) # h
    BY <2>1, <2>2, <2>4, <1>7
  <2> QED
    BY <2>3, <2>4
<1> QED
  BY <1>9, <1>10, <1>11 DEF new

\* A lookup answers NotFound or an id of the set the entries' ids come from.
LEMMA TableAnswers ==
  ASSUME NEW c \in Nat \ {0}, NEW Ids, NEW ht \in Tables(c, Ids), WellFormed(ht),
         NEW n \in Name
  PROVE  hashtable_get(ht, n) \in Ids \cup {NotFound}
<1> DEFINE chain == ht.data[HashKey(ht, n)]
<1>1. IsChain(chain, Ids)
  BY HashKeyInRange, BucketIsChain
<1>2. CASE Matches(chain, n) = {}
  BY <1>2 DEF hashtable_get
<1>3. CASE Matches(chain, n) # {}
  <2>1. PICK k \in Matches(chain, n) : TRUE
    BY <1>3
  <2>2. FirstMatch(chain, n) = k
    BY <1>1, <2>1, OnlyMatch
  <2>3. chain[k] \in hash_t(Ids)
    BY <1>1, <2>1 DEF IsChain, Matches
  <2> QED
    BY <1>3, <2>2, <2>3 DEF hashtable_get, hash_t
<1> QED
  BY <1>2, <1>3
=============================================================================
