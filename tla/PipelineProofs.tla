--------------------------- MODULE PipelineProofs ---------------------------
(***************************************************************************)
(* Proofs about the processes together, for every set of sources, units    *)
(* and names, and any number of compilations and merges.                   *)
(*                                                                         *)
(* The first theorem is that the processes keep out of each other's way:   *)
(* PipelineInv says what each stage may rely on.  The second takes the     *)
(* implementation of Reflection step by step: everything but what exactly  *)
(* a program finds in the table it has loaded.                             *)
(***************************************************************************)
EXTENDS Pipeline, TLAPS

\* Lists are as in DataProofs.
D == INSTANCE DataProofs

Stages == {"idle", "compiling", "merging", "loading", "running"}

\* No source has two files.
OneEach(fs) == \A j, k \in DOMAIN fs : fs[j].source = fs[k].source => j = k

\* Each file is of a compilation for a target.
Compiled(fs, w) ==
  \A k \in DOMAIN fs : [source |-> fs[k].source, unit |-> fs[k].unit] \in Compilations[w]

\* What a stage relies on: the compiler on the unit being one of its source;
\* the script on a place in the files, on an output left to write, and on there
\* being a file once it knows a word size; the program on a table.
StageInv ==
  /\ stage = "compiling" => [source |-> source, unit |-> unit] \in Compilations[target]
  /\ stage = "merging" =>
       /\ file \in Nat \ {0}
       /\ files = <<>> => arch = -1
       /\ pending \in {<< "dat", "S" >>, << "S" >>}
  /\ stage = "loading" => \E o \in ToSet(Outputs) : outputs[o].from # <<>>

PipelineInv ==
  /\ target \in DOMAIN Compilations
  /\ stage \in Stages
  /\ compiles \in 0 .. MaxCompiles /\ merges \in 0 .. MaxMerges
  /\ D!IsList(files) /\ OneEach(files) /\ Compiled(files, target)
  /\ DOMAIN outputs = ToSet(Outputs)
  /\ \A o \in ToSet(Outputs) : D!IsList(outputs[o].from)
  /\ pc = "done" <=> stage = "running"
  /\ StageInv

LEMMA OutputsAre == ToSet(Outputs) = {"dat", "S"}
BY DEF Outputs, ToSet

-----------------------------------------------------------------------------
\* The files

\* A list without one of its elements.
LEMMA RemovedFacts ==
  ASSUME NEW list, D!IsList(list), NEW k \in DOMAIN list
  PROVE  /\ D!IsList(RemoveAt(list, k))
         /\ Len(RemoveAt(list, k)) = Len(list) - 1
         /\ \A j \in 1 .. Len(list) - 1 :
              RemoveAt(list, k)[j] = IF j < k THEN list[j] ELSE list[j + 1]
<1> DEFINE n == Len(list)
           S == {list[j] : j \in DOMAIN list}
           front == SubSeq(list, 1, k - 1)
           back == SubSeq(list, k + 1, n)
<1>1. n \in Nat /\ DOMAIN list = 1 .. n /\ k \in 1 .. n
  BY NamesAssumption, D!ListFacts
<1>2. list \in Seq(S)
  BY DEF D!IsList
<1> HIDE DEF S
<1>3. /\ D!IsList(front) /\ Len(front) = k - 1
      /\ \A j \in 1 .. k - 1 : front[j] = list[j]
  <2>1. front \in Seq(S) /\ Len(front) = k - 1 /\ \A j \in 1 .. k - 1 : front[j] = list[j]
    BY <1>1, <1>2
  <2> HIDE DEF front
  <2> QED
    BY <2>1, NamesAssumption, D!SequencesAreLists
<1>4. /\ D!IsList(back) /\ Len(back) = n - k
      /\ \A j \in 1 .. n - k : back[j] = list[j + k]
  <2>1. back \in Seq(S) /\ Len(back) = n - k /\ \A j \in 1 .. n - k : back[j] = list[j + k]
    BY <1>1, <1>2
  <2> HIDE DEF back
  <2> QED
    BY <2>1, NamesAssumption, D!SequencesAreLists
<1> DEFINE rest == front \o back
<1>5. RemoveAt(list, k) = rest
  BY DEF RemoveAt
<1> HIDE DEF front, back
<1>6. /\ D!IsList(rest)
      /\ Len(rest) = Len(front) + Len(back)
      /\ \A j \in 1 .. Len(front) : rest[j] = front[j]
      /\ \A j \in 1 .. Len(back) : rest[Len(front) + j] = back[j]
  <2>1. D!IsList(front) /\ D!IsList(back)
    BY <1>3, <1>4
  <2> QED
    BY <2>1, NamesAssumption, D!ListsJoined
<1> HIDE DEF rest
<1>7. ASSUME NEW j \in 1 .. n - 1
      PROVE  rest[j] = IF j < k THEN list[j] ELSE list[j + 1]
  <2>1. CASE j < k
    BY <1>1, <1>3, <1>6, <2>1
  <2>2. CASE ~ (j < k)
    <3>1. /\ j - k + 1 \in 1 .. n - k
          /\ (j - k + 1) + k = j + 1
          /\ (k - 1) + (j - k + 1) = j
      BY <1>1, <2>2
    <3>2. rest[(k - 1) + (j - k + 1)] = back[j - k + 1] /\ back[j - k + 1] = list[(j - k + 1) + k]
      BY <1>3, <1>4, <1>6, <3>1
    <3> QED
      BY <2>2, <3>1, <3>2
  <2> QED
    BY <2>1, <2>2
<1>8. Len(rest) = n - 1
  BY <1>1, <1>3, <1>4, <1>6
<1> QED
  BY <1>5, <1>6, <1>7, <1>8
\* A file of another source joins the others.
LEMMA FileAdded ==
  ASSUME NEW fs, D!IsList(fs), OneEach(fs), NEW w, Compiled(fs, w),
         NEW f, [source |-> f.source, unit |-> f.unit] \in Compilations[w],
         \A k \in DOMAIN fs : fs[k].source # f.source
  PROVE  /\ D!IsList(Append(fs, f))
         /\ OneEach(Append(fs, f))
         /\ Compiled(Append(fs, f), w)
<1> DEFINE more == Append(fs, f)
<1>1. /\ D!IsList(more)
      /\ DOMAIN more = DOMAIN fs \cup {Len(fs) + 1}
      /\ more[Len(fs) + 1] = f
      /\ \A k \in DOMAIN fs : more[k] = fs[k]
  BY NamesAssumption, D!ListAppended
<1> HIDE DEF more
<1>2. OneEach(more)
  BY <1>1 DEF OneEach
<1>3. Compiled(more, w)
  BY <1>1 DEF Compiled
<1> QED
  BY <1>1, <1>2, <1>3 DEF more

\* Saving a file keeps one for each source.
LEMMA SavedFacts ==
  ASSUME NEW fs, D!IsList(fs), OneEach(fs), NEW w, Compiled(fs, w),
         NEW f, [source |-> f.source, unit |-> f.unit] \in Compilations[w]
  PROVE  /\ D!IsList(Saved(fs, f))
         /\ OneEach(Saved(fs, f))
         /\ Compiled(Saved(fs, f), w)
<1> DEFINE old == {k \in DOMAIN fs : fs[k].source = f.source}
           k == CHOOSE k \in old : TRUE
           rest == RemoveAt(fs, k)
<1>1. CASE old = {}
  BY <1>1, FileAdded DEF Saved
<1>2. CASE old # {}
  <2>1. k \in DOMAIN fs /\ fs[k].source = f.source
    BY <1>2
  <2>2. Saved(fs, f) = Append(rest, f)
    BY <1>2 DEF Saved
  <2> HIDE DEF k
  <2>3. Len(fs) \in Nat /\ DOMAIN fs = 1 .. Len(fs)
    BY NamesAssumption, D!ListFacts
  <2>4. /\ D!IsList(rest)
        /\ Len(rest) = Len(fs) - 1
        /\ \A j \in 1 .. Len(fs) - 1 : rest[j] = IF j < k THEN fs[j] ELSE fs[j + 1]
    BY <2>1, RemovedFacts
  <2> HIDE DEF rest, old
  <2>5. DOMAIN rest = 1 .. Len(fs) - 1
    BY <2>4, NamesAssumption, D!ListFacts
  <2> DEFINE At(j) == IF j < k THEN j ELSE j + 1
  <2>6. \A j \in DOMAIN rest : /\ rest[j] = fs[At(j)]
                               /\ At(j) \in DOMAIN fs
                               /\ At(j) # k
    BY <2>1, <2>3, <2>4, <2>5
  <2>7. \A i, j \in DOMAIN rest : At(i) = At(j) => i = j
    BY <2>1, <2>3, <2>5
  <2> HIDE DEF At
  <2>8. OneEach(rest)
    BY <2>6, <2>7 DEF OneEach
  <2>9. Compiled(rest, w)
    BY <2>6 DEF Compiled
  <2>10. \A j \in DOMAIN rest : rest[j].source # f.source
    BY <2>1, <2>6 DEF OneEach
  <2> QED
    BY <2>2, <2>4, <2>8, <2>9, <2>10, FileAdded
<1> QED
  BY <1>1, <1>2

\* What is declared when a source has been compiled again.
Redeclared(declared, c) ==
  LET old == {k \in DOMAIN declared : declared[k].source = c.source}
  IN  Append(IF old = {} THEN declared ELSE RemoveAt(declared, CHOOSE k \in old : TRUE), c)

\* It is what the files declare after one is saved.
LEMMA SavedDeclares ==
  ASSUME NEW fs, D!IsList(fs), NEW f, NEW c, c = [source |-> f.source, unit |-> f.unit]
  PROVE  DeclaredBy(Saved(fs, f)) = Redeclared(DeclaredBy(fs), c)
<1> DEFINE old == {k \in DOMAIN fs : fs[k].source = f.source}
           k == CHOOSE k \in old : TRUE
<1>1. Len(fs) \in Nat /\ DOMAIN fs = 1 .. Len(fs)
  BY NamesAssumption, D!ListFacts
<1>2. ASSUME NEW s, D!IsList(s)
      PROVE  /\ D!IsList(DeclaredBy(s))
             /\ Len(DeclaredBy(s)) = Len(s)
             /\ \A j \in 1 .. Len(s) :
                  DeclaredBy(s)[j] = [source |-> s[j].source, unit |-> s[j].unit]
  <2> DEFINE t == DeclaredBy(s)
  <2>1. Len(s) \in Nat /\ DOMAIN s = 1 .. Len(s)
    BY <1>2, NamesAssumption, D!ListFacts
  <2>2. t = [j \in 1 .. Len(s) |-> [source |-> s[j].source, unit |-> s[j].unit]]
    BY <2>1 DEF DeclaredBy
  <2>3. t = [j \in 1 .. Len(s) |-> t[j]]
    BY <2>2
  <2> HIDE DEF t
  <2>4. D!IsList(t) /\ Len(t) = Len(s)
    BY <2>1, <2>3, NamesAssumption, D!FunctionsAreLists
  <2> QED
    BY <2>2, <2>4 DEF t
<1>3. ASSUME NEW s, D!IsList(s)
      PROVE  DeclaredBy(Append(s, f)) = Append(DeclaredBy(s), c)
  <2> DEFINE left == DeclaredBy(Append(s, f))
             right == Append(DeclaredBy(s), c)
  <2>1. Len(s) \in Nat /\ DOMAIN s = 1 .. Len(s)
    BY <1>3, NamesAssumption, D!ListFacts
  <2> DEFINE more == Append(s, f)
  <2>2. /\ D!IsList(more)
        /\ Len(more) = Len(s) + 1
        /\ more[Len(s) + 1] = f
        /\ \A j \in 1 .. Len(s) : more[j] = s[j]
    BY <1>3, <2>1, NamesAssumption, D!ListAppended
  <2>3. /\ D!IsList(left)
        /\ Len(left) = Len(s) + 1
        /\ left[Len(s) + 1] = c
        /\ \A j \in 1 .. Len(s) : left[j] = [source |-> s[j].source, unit |-> s[j].unit]
    <3> HIDE DEF more
    <3>1. /\ D!IsList(DeclaredBy(more))
          /\ Len(DeclaredBy(more)) = Len(s) + 1
          /\ \A j \in 1 .. Len(s) + 1 :
               DeclaredBy(more)[j] = [source |-> more[j].source, unit |-> more[j].unit]
      BY <1>2, <2>2
    <3>2. Len(s) + 1 \in 1 .. Len(s) + 1 /\ \A j \in 1 .. Len(s) : j \in 1 .. Len(s) + 1
      BY <2>1
    <3>3. left = DeclaredBy(more)
      BY DEF more
    <3> HIDE DEF left
    <3> QED
      BY <2>2, <3>1, <3>2, <3>3
  <2>4. /\ D!IsList(right)
        /\ Len(right) = Len(s) + 1
        /\ right[Len(s) + 1] = c
        /\ \A j \in 1 .. Len(s) : right[j] = [source |-> s[j].source, unit |-> s[j].unit]
    <3>1. D!IsList(DeclaredBy(s)) /\ Len(DeclaredBy(s)) = Len(s)
      BY <1>2, <1>3
    <3>2. DOMAIN DeclaredBy(s) = 1 .. Len(s)
      BY <3>1, NamesAssumption, D!ListFacts
    <3>3. /\ D!IsList(right)
          /\ Len(right) = Len(DeclaredBy(s)) + 1
          /\ right[Len(DeclaredBy(s)) + 1] = c
          /\ \A j \in DOMAIN DeclaredBy(s) : right[j] = DeclaredBy(s)[j]
      BY <3>1, NamesAssumption, D!ListAppended
    <3> HIDE DEF right
    <3> QED
      BY <1>2, <1>3, <3>1, <3>2, <3>3
  <2> HIDE DEF left, right
  <2>5. ASSUME NEW j \in 1 .. Len(s) + 1 PROVE left[j] = right[j]
    <3>1. j \in 1 .. Len(s) \/ j = Len(s) + 1
      BY <2>1
    <3> QED
      BY <2>3, <2>4, <3>1
  <2>6. left = right
    BY <2>3, <2>4, <2>5, NamesAssumption, D!SameLists
  <2> QED
    BY <2>6 DEF left, right
<1>4. /\ DOMAIN DeclaredBy(fs) = DOMAIN fs
      /\ \A j \in DOMAIN fs : DeclaredBy(fs)[j].source = fs[j].source
  BY DEF DeclaredBy
<1>5. {j \in DOMAIN DeclaredBy(fs) : DeclaredBy(fs)[j].source = c.source} = old
  BY <1>4
<1>r. Redeclared(DeclaredBy(fs), c) =
        Append(IF old = {} THEN DeclaredBy(fs) ELSE RemoveAt(DeclaredBy(fs), k), c)
  <2> DEFINE declared == DeclaredBy(fs)
             olds == {j \in DOMAIN declared : declared[j].source = c.source}
  <2>1. Redeclared(declared, c) =
          Append(IF olds = {} THEN declared
                 ELSE RemoveAt(declared, CHOOSE j \in olds : TRUE), c)
    BY DEF Redeclared
  <2> HIDE DEF old, olds, declared
  <2>2. olds = old
    BY <1>5 DEF olds, declared
  <2>3. Redeclared(declared, c) =
          Append(IF old = {} THEN declared ELSE RemoveAt(declared, k), c)
    BY <2>1, <2>2
  <2> QED
    BY <2>3 DEF declared
<1>6. CASE old = {}
  <2>1. Saved(fs, f) = Append(fs, f)
    BY <1>6 DEF Saved
  <2> QED
    BY <1>3, <1>r, <1>6, <2>1
<1>7. CASE old # {}
  <2>1. k \in DOMAIN fs
    BY <1>7
  <2>2. Saved(fs, f) = Append(RemoveAt(fs, k), f)
    BY <1>7 DEF Saved
  <2>r. Redeclared(DeclaredBy(fs), c) = Append(RemoveAt(DeclaredBy(fs), k), c)
    BY <1>r, <1>7
  <2> HIDE DEF k
  <2> DEFINE rest == RemoveAt(fs, k)
             left == DeclaredBy(rest)
             right == RemoveAt(DeclaredBy(fs), k)
  <2>3. /\ D!IsList(rest)
        /\ Len(rest) = Len(fs) - 1
        /\ \A j \in 1 .. Len(fs) - 1 : rest[j] = IF j < k THEN fs[j] ELSE fs[j + 1]
    BY <2>1, RemovedFacts
  <2> HIDE DEF rest
  <2>4. /\ D!IsList(left)
        /\ Len(left) = Len(fs) - 1
        /\ \A j \in 1 .. Len(fs) - 1 :
             left[j] = [source |-> rest[j].source, unit |-> rest[j].unit]
    BY <1>2, <2>3
  <2>5. /\ D!IsList(right)
        /\ Len(right) = Len(fs) - 1
        /\ \A j \in 1 .. Len(fs) - 1 :
             right[j] = IF j < k THEN DeclaredBy(fs)[j] ELSE DeclaredBy(fs)[j + 1]
    BY <1>2, <1>4, <2>1, RemovedFacts
  <2> HIDE DEF left, right
  <2>6. ASSUME NEW j \in 1 .. Len(fs) - 1 PROVE left[j] = right[j]
    <3>1. CASE j < k
      <4>1. DeclaredBy(fs)[j] = [source |-> fs[j].source, unit |-> fs[j].unit]
        BY <1>1, <1>2
      <4> QED
        BY <2>3, <2>4, <2>5, <3>1, <4>1
    <3>2. CASE ~ (j < k)
      <4>1. DeclaredBy(fs)[j + 1] = [source |-> fs[j + 1].source, unit |-> fs[j + 1].unit]
        BY <1>1, <1>2
      <4> QED
        BY <2>3, <2>4, <2>5, <3>2, <4>1
    <3> QED
      BY <3>1, <3>2
  <2>7. left = right
    BY <2>4, <2>5, <2>6, NamesAssumption, D!SameLists
  <2>8. DeclaredBy(Append(rest, f)) = Append(left, c)
    BY <1>3, <2>3 DEF left
  <2> QED
    BY <2>r, <2>2, <2>7, <2>8 DEF rest, right
<1> QED
  BY <1>6, <1>7

-----------------------------------------------------------------------------
\* The invariant

LEMMA PipelineInit == Init => PipelineInv
<1> SUFFICES ASSUME Init PROVE PipelineInv
  OBVIOUS
<1>1. /\ target \in DOMAIN Compilations
      /\ stage = "idle" /\ compiles = 0 /\ merges = 0
      /\ files = <<>>
      /\ DOMAIN outputs = ToSet(Outputs)
      /\ pc = "idle"
  BY DEF Init
<1>2. D!IsList(files)
  BY <1>1, NamesAssumption, D!NothingIsList
<1>3. OneEach(files) /\ Compiled(files, target)
  BY <1>1 DEF OneEach, Compiled
<1>4. compiles \in 0 .. MaxCompiles /\ merges \in 0 .. MaxMerges
  BY <1>1, BoundsAssumption
<1>5. \A o \in ToSet(Outputs) : D!IsList(outputs[o].from)
  BY NamesAssumption, D!NothingIsList DEF Init
<1> QED
  BY <1>1, <1>2, <1>3, <1>4, <1>5 DEF PipelineInv, StageInv, Stages

\* A line is read of a file that is there.
LEMMA ParseFacts ==
  ASSUME M!Next, file \in Nat \ {0}
  PROVE  files' = files /\ file' \in Nat \ {0} /\ file <= Len(files)
<1>1. ASSUME NEW commands, M!Read(commands)
      PROVE  files' = files /\ file' = file /\ file <= Len(files)
  BY <1>1 DEF M!Read
<1>2. CASE M!ReadArch
  BY <1>1, <1>2 DEF M!ReadArch
<1>3. CASE M!ReadObject
  BY <1>1, <1>3 DEF M!ReadObject
<1>4. CASE M!ReadField
  BY <1>1, <1>4 DEF M!ReadField
<1>5. CASE M!ReadName
  BY <1>1, <1>5 DEF M!ReadName
<1>6. CASE M!ReadAlias
  BY <1>1, <1>6 DEF M!ReadAlias
<1>7. CASE M!ReadSize
  BY <1>1, <1>7 DEF M!ReadSize
<1>8. CASE M!ReadString
  BY <1>1, <1>8 DEF M!ReadString
<1>9. CASE M!ReadColumn
  BY <1>1, <1>9 DEF M!ReadColumn
<1>10. CASE M!EndFile
  BY <1>10 DEF M!EndFile
<1>11. CASE M!SkipFile
  BY <1>11 DEF M!SkipFile
<1> QED
  BY <1>2, <1>3, <1>4, <1>5, <1>6, <1>7, <1>8, <1>9, <1>10, <1>11 DEF M!Next

\* No declaration changes the unit, and no table is written for no files.
LEMMA VisitFacts ==
  ASSUME Visit PROVE unit' = unit
BY DEF Visit, V!SkipTag, V!VisitRecordDecl, V!VisitEnumDecl, V!VisitTypedefDecl, V!Shown

\* The processes that are not at work leave their variables alone.
LEMMA PipelineNext == PipelineInv /\ [Next]_vars => PipelineInv'
<1> SUFFICES ASSUME PipelineInv, [Next]_vars PROVE PipelineInv'
  OBVIOUS
<1> USE DEF PipelineInv, StageInv, Stages
<1>1. CASE CreateASTConsumer
  <2>1. PICK c \in Compilations[target] : source' = c.source /\ unit' = c.unit
    BY <1>1 DEF CreateASTConsumer
  <2>2. [source |-> source', unit |-> unit'] \in Compilations[target]
    BY <2>1, CompilationsAssumption
  <2>3. compiles' \in 0 .. MaxCompiles
    BY <1>1, BoundsAssumption DEF CreateASTConsumer
  <2> QED
    BY <1>1, <2>2, <2>3 DEF CreateASTConsumer, program, OneEach, Compiled
<1>2. CASE Visit
  BY <1>2, VisitFacts DEF Visit, bounds, program, OneEach, Compiled
<1>3. CASE HandleTranslationUnit
  <2>1. unit' = unit
    BY <1>3 DEF HandleTranslationUnit, V!HandleTranslationUnit
  <2>2. D!IsList(files)' /\ OneEach(files)' /\ Compiled(files, target)'
    <3>1. CASE UNCHANGED files
      BY <1>3, <3>1 DEF HandleTranslationUnit, bounds, OneEach, Compiled
    <3>2. ASSUME NEW f, f.source = source, f.unit = unit, files' = Saved(files, f)
          PROVE  D!IsList(files)' /\ OneEach(files)' /\ Compiled(files, target)'
      <4>1. [source |-> f.source, unit |-> f.unit] \in Compilations[target]
        BY <1>3, <3>2 DEF HandleTranslationUnit
      <4>2. /\ D!IsList(Saved(files, f)) /\ OneEach(Saved(files, f))
            /\ Compiled(Saved(files, f), target)
        BY <4>1, SavedFacts
      <4> QED
        BY <1>3, <3>2, <4>2 DEF HandleTranslationUnit, bounds
    <3> QED
      BY <1>3, <3>1, <3>2 DEF HandleTranslationUnit
  <2> QED
    BY <1>3, <2>1, <2>2 DEF HandleTranslationUnit, bounds, program
<1>4. CASE StartMerge
  <2>1. merges' \in 0 .. MaxMerges
    BY <1>4, BoundsAssumption DEF StartMerge
  <2> QED
    BY <1>4, <2>1 DEF StartMerge, program, Outputs, OneEach, Compiled
<1>5. CASE ParseLine
  <2>1. files' = files /\ file' \in Nat \ {0} /\ file <= Len(files)
    BY <1>5, ParseFacts DEF ParseLine
  <2>2. files # <<>>
    BY <1>5, <2>1 DEF ParseLine
  <2> QED
    BY <1>5, <2>1, <2>2 DEF ParseLine, bounds, program, OneEach, Compiled
<1>6. CASE WriteOutput
  <2>1. pending = << "dat", "S" >> \/ pending = << "S" >>
    BY <1>6 DEF WriteOutput
  <2>2. stage' = "merging" => pending' \in {<< "dat", "S" >>, << "S" >>}
    <3>1. Tail(<< "dat", "S" >>) = << "S" >> /\ Tail(<< "S" >>) = <<>>
      OBVIOUS
    <3> QED
      BY <1>6, <2>1, <3>1 DEF WriteOutput
  <2>3. stage' \in {"idle", "merging"} /\ DOMAIN outputs' = DOMAIN outputs
    BY <1>6 DEF WriteOutput
  <2>4. UNCHANGED <<target, compiles, merges, files, file, arch, pc>>
    BY <1>6 DEF WriteOutput, bounds, program, parsed
  <2>5. stage = "merging"
    BY <1>6 DEF WriteOutput
  <2>6. \A o \in ToSet(Outputs) : D!IsList(outputs[o].from)'
    BY <1>6 DEF WriteOutput
  <2> QED
    BY <2>2, <2>3, <2>4, <2>5, <2>6 DEF OneEach, Compiled
<1>7. CASE ScriptFails
  BY <1>7 DEF ScriptFails, bounds, program, OneEach, Compiled
<1>8. CASE StartProgram
  <2>1. pc' = "types" /\ \E o \in ToSet(Outputs) : outputs[o].from # <<>>
    BY <1>8, OutputsAre DEF StartProgram, L!reflect_load, L!reflect_load_bytes
  <2> QED
    BY <1>8, <2>1 DEF StartProgram, bounds, OneEach, Compiled
<1>9. CASE LoadStep
  BY <1>9 DEF LoadStep, bounds, OneEach, Compiled
<1>10. CASE Exit
  BY <1>10 DEF Exit, bounds, OneEach, Compiled
<1>11. CASE UNCHANGED vars
  BY <1>11 DEF vars, bounds, compiler, script, parsed, program, OneEach, Compiled
<1> QED
  BY <1>1, <1>2, <1>3, <1>4, <1>5, <1>6, <1>7, <1>8, <1>9, <1>10, <1>11 DEF Next, Running

LEMMA PipelineInvariant == Spec => []PipelineInv
BY PipelineInit, PipelineNext, PTL DEF Spec

\* The processes take turns: whatever is compiled again, fails or is left half
\* done, each source has at most one file, and a program runs exactly when its
\* load has returned (ReflectPluginAction.cpp:5-12, ReflectConsumer.cpp:22-24, merge.py:204-263).
THEOREM TypeCorrect == Spec => []TypeOK
<1>1. PipelineInv => TypeOK
  BY DEF PipelineInv, TypeOK, Stages, OneEach, Compiled
<1> QED
  BY <1>1, PipelineInvariant, PTL

-----------------------------------------------------------------------------
\* What is promised, step by step

Tables == [o \in ToSet(Outputs) |-> DeclaredBy(outputs[o].from)]

\* A program loads a table that has been written.  What it finds there is left
\* open here.
LoadsTable ==
  /\ Known = Nothing
  /\ \E o \in ToSet(Outputs) : Tables[o] # <<>>
  /\ UNCHANGED <<DeclaredBy(files), Tables>>

PromisedStep == Promise!Declare \/ Promise!Publish \/ LoadsTable \/ Promise!Exit

LEMMA KnownStays ==
  ASSUME UNCHANGED program PROVE Known' = Known
BY DEF Known, program, L!R!reflect_type_info_from_name, Seen, L!R!IteratedFields

LEMMA NothingKnown ==
  ASSUME pc # "done" PROVE Known = Nothing
BY DEF Known

\* Files that are not changed declare the same, tables that are not written
\* stay.
LEMMA FilesStay ==
  ASSUME UNCHANGED files PROVE UNCHANGED DeclaredBy(files)
BY DEF DeclaredBy

LEMMA TablesStay ==
  ASSUME UNCHANGED outputs PROVE UNCHANGED Tables
BY DEF Tables, DeclaredBy

\* There is a file if and only if something is declared.
LEMMA DeclaresSomething ==
  ASSUME NEW fs, D!IsList(fs) PROVE (DeclaredBy(fs) = <<>>) <=> (fs = <<>>)
<1>1. DOMAIN fs = 1 .. Len(fs) /\ Len(fs) \in Nat
  BY NamesAssumption, D!ListFacts
<1>2. DOMAIN DeclaredBy(fs) = DOMAIN fs
  BY DEF DeclaredBy
<1>3. ASSUME DeclaredBy(fs) = <<>> PROVE fs = <<>>
  <2>1. DOMAIN fs = {}
    BY <1>2, <1>3
  <2>2. Len(fs) = 0
    BY <1>1, <2>1
  <2>3. D!IsList(<<>>) /\ Len(<<>>) = 0
    BY NamesAssumption, D!NothingIsList
  <2>4. \A k \in 1 .. Len(fs) : fs[k] = (<<>>)[k]
    BY <2>2
  <2> QED
    BY <2>2, <2>3, <2>4, NamesAssumption, D!SameLists
<1>4. fs = <<>> => DeclaredBy(fs) = <<>>
  BY DEF DeclaredBy
<1> QED
  BY <1>3, <1>4

LEMMA PromisedInit == Init => Promise!Init
<1> SUFFICES ASSUME Init PROVE Promise!Init
  OBVIOUS
<1>1. files = <<>> /\ pc = "idle"
  BY DEF Init
<1>2. \A o \in ToSet(Outputs) : outputs[o].from = <<>>
  BY DEF Init
<1>3. DeclaredBy(<<>>) = <<>>
  BY DEF DeclaredBy
<1> QED
  BY <1>1, <1>2, <1>3 DEF Promise!Init, Known

LEMMA PromisedNext ==
  PipelineInv /\ [Next]_vars => [PromisedStep]_<<DeclaredBy(files), Tables, Known>>
<1> SUFFICES ASSUME PipelineInv, [Next]_vars
             PROVE  PromisedStep \/ UNCHANGED <<DeclaredBy(files), Tables, Known>>
  OBVIOUS
<1>1. CASE UNCHANGED <<files, outputs, program>>
  BY <1>1, FilesStay, TablesStay, KnownStays
<1>2. CASE CreateASTConsumer
  BY <1>1, <1>2 DEF CreateASTConsumer
<1>3. CASE Visit
  BY <1>1, <1>3 DEF Visit
<1>4. CASE HandleTranslationUnit
  <2>1. unit' = unit /\ UNCHANGED <<source, outputs, program>>
    BY <1>4 DEF HandleTranslationUnit, V!HandleTranslationUnit
  <2>2. UNCHANGED <<Tables, Known>>
    BY <2>1, TablesStay, KnownStays
  <2>3. CASE UNCHANGED files
    BY <1>1, <2>1, <2>3
  <2>4. ASSUME NEW f, f.source = source, f.unit = unit, files' = Saved(files, f)
        PROVE  Promise!Declare
    <3> DEFINE c == [source |-> source, unit |-> unit]
    <3>1. c \in UNION {Compilations[w] : w \in DOMAIN Compilations}
      BY <1>4 DEF HandleTranslationUnit, PipelineInv, StageInv
    <3>2. c = [source |-> f.source, unit |-> f.unit] /\ D!IsList(files)
      BY <2>4 DEF PipelineInv
    <3> HIDE DEF c
    <3>3. DeclaredBy(Saved(files, f)) = Redeclared(DeclaredBy(files), c)
      BY <3>2, SavedDeclares
    <3>4. DeclaredBy(files)' = DeclaredBy(Saved(files, f))
      BY <2>4 DEF DeclaredBy
    <3>5. DeclaredBy(files)' = Redeclared(DeclaredBy(files), c)
      BY <3>3, <3>4
    <3>6. UNCHANGED <<[o \in ToSet(Outputs) |-> DeclaredBy(outputs[o].from)], Known>>
      BY <2>2 DEF Tables
    <3> HIDE DEF c
    <3> QED
      BY <3>1, <3>5, <3>6, Zenon DEF Promise!Declare, Redeclared, RemoveAt, Promise!RemoveAt
  <2> QED
    BY <1>4, <2>3, <2>4 DEF HandleTranslationUnit, PromisedStep
<1>5. CASE StartMerge
  BY <1>1, <1>5 DEF StartMerge
<1>6. CASE ParseLine
  <2>1. UNCHANGED files
    BY <1>6, ParseFacts DEF ParseLine, PipelineInv, StageInv
  <2> QED
    BY <1>1, <1>6, <2>1 DEF ParseLine
<1>7. CASE WriteOutput
  <2>1. UNCHANGED <<files, program>>
    BY <1>7 DEF WriteOutput
  <2>2. UNCHANGED <<DeclaredBy(files), Known>>
    BY <2>1, FilesStay, KnownStays
  <2>3. arch # -1
    BY <1>7 DEF WriteOutput, Packs, M!Writable
  <2>4. DeclaredBy(files) # <<>>
    BY <1>7, <2>3, DeclaresSomething DEF WriteOutput, PipelineInv, StageInv
  <2>5. PICK o \in ToSet(Outputs) :
          \E d : outputs' = [outputs EXCEPT ![o] = [data |-> d, from |-> files]]
    <3>1. Head(pending) \in ToSet(Outputs)
      BY <1>7, OutputsAre DEF WriteOutput, PipelineInv, StageInv
    <3> QED
      BY <1>7, <3>1 DEF WriteOutput
  <2>6. Tables' = [Tables EXCEPT ![o] = DeclaredBy(files)]
    <3>1. DOMAIN outputs = ToSet(Outputs)
      BY DEF PipelineInv
    <3>2. ASSUME NEW p \in ToSet(Outputs)
          PROVE  outputs'[p].from = IF p = o THEN files ELSE outputs[p].from
      BY <2>5, <3>1
    <3>3. \A p \in ToSet(Outputs) :
            DeclaredBy(outputs'[p].from) =
              IF p = o THEN DeclaredBy(files) ELSE DeclaredBy(outputs[p].from)
      BY <3>2
    <3> QED
      BY <3>3, Zenon DEF Tables
  <2> QED
    BY <2>2, <2>4, <2>6 DEF PromisedStep, Promise!Publish, Tables
<1>8. CASE ScriptFails
  BY <1>1, <1>8 DEF ScriptFails
<1>9. CASE StartProgram
  <2>1. pc' = "types" /\ UNCHANGED <<files, outputs>> /\ stage = "idle"
    BY <1>9 DEF StartProgram, L!reflect_load, L!reflect_load_bytes
  <2>2. pc # "done" /\ pc' # "done"
    BY <2>1 DEF PipelineInv
  <2>3. Known = Nothing /\ Known' = Nothing
    BY <2>2 DEF Known
  <2> QED
    BY <2>1, <2>3, FilesStay, TablesStay
<1>10. CASE LoadStep
  <2>1. UNCHANGED <<files, outputs>> /\ stage = "loading"
    BY <1>10 DEF LoadStep
  <2>2. Known = Nothing
    BY <2>1, NothingKnown DEF PipelineInv
  <2>3. PICK o \in ToSet(Outputs) : outputs[o].from # <<>>
    BY <2>1 DEF PipelineInv, StageInv
  <2>4. Tables[o] # <<>>
    <3>1. D!IsList(outputs[o].from)
      BY DEF PipelineInv
    <3> QED
      BY <2>3, <3>1, DeclaresSomething DEF Tables
  <2> QED
    BY <2>1, <2>2, <2>4, FilesStay, TablesStay DEF PromisedStep, LoadsTable
<1>11. CASE Exit
  <2>1. pc' = "idle" /\ UNCHANGED <<files, outputs>>
    BY <1>11 DEF Exit
  <2>2. Known' = Nothing
    BY <2>1 DEF Known
  <2> QED
    BY <2>1, <2>2, FilesStay, TablesStay DEF PromisedStep, Promise!Exit, Tables
<1>12. CASE UNCHANGED vars
  BY <1>1, <1>12 DEF vars
<1> QED
  BY <1>2, <1>3, <1>4, <1>5, <1>6, <1>7, <1>8, <1>9, <1>10, <1>11, <1>12 DEF Next, Running

\* The whole implements Reflection but for what a program finds in a table:
\* what is declared is the last compilation of each source that was saved; a
\* table is what was declared when it was written, never a part of it and never
\* nothing, whatever failed before or after; and what a program knows comes
\* with a load from a table that is there, stays until it ends, and is gone
\* then (merge.py:61-71, 204-275, reflect.c:130-200).
THEOREM PromisedStepByStep ==
  Spec => Promise!Init /\ [][PromisedStep]_<<DeclaredBy(files), Tables, Known>>
<1>1. PipelineInv /\ [Next]_vars => [PromisedStep]_<<DeclaredBy(files), Tables, Known>>
  BY PromisedNext
<1> QED
  BY <1>1, PipelineInvariant, PromisedInit, PTL DEF Spec
=============================================================================
