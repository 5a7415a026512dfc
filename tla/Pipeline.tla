------------------------------- MODULE Pipeline -------------------------------
(***************************************************************************)
(* The way from C sources to a running program: the compiler with the      *)
(* plugin on one source after the other (Visitor), merge.py on the files   *)
(* it left (Merge, ReflectionDat), and a program that loads one of the     *)
(* tables (Loader).  They run one at a time, each in a process of its own, *)
(* and meet only in files: what was compiled stays when a source is        *)
(* compiled again in vain, and a table stays when a merge ends early.      *)
(***************************************************************************)
EXTENDS Integers, SequencesExt

CONSTANTS
  Name, NameLen, EmptyName, Word, Hash, Builtin, Garbage, NULL, Undefined,
  Compilations,  \* arch -> the sources with the units they may be compiled as
  Nothing,
  MaxCompiles,   \* bound on the compilations,
  MaxMerges      \* and on the runs of merge.py

\* What the parts assume of names and words holds here, too.
ASSUME NamesAssumption ==
  /\ Hash \in [Name -> Nat]
  /\ \A name \in DOMAIN NameLen : NameLen[name] \in Nat
  /\ DOMAIN Word = {4, 8}
  /\ \A w \in DOMAIN Word : Word[w] \in Nat /\ Word[w] > 1

ASSUME BoundsAssumption == MaxCompiles \in Nat /\ MaxMerges \in Nat

\* A compilation is of a source, as a unit.
ASSUME CompilationsAssumption ==
  \A w \in DOMAIN Compilations : \A c \in Compilations[w] :
    c = [source |-> c.source, unit |-> c.unit]

VARIABLES
  target,        \* sizeof(size_t), of all processes
  stage,         \* "idle", "compiling", "merging", "loading" or "running"
  compiles, merges,
  \* the compiler: the source at hand and the variables of Visitor
  source, unit, next, Results, EnumResults, BaseTypes, PendingAliases, output,
  \* what it has left, each file with its source and unit, oldest first
  files,
  \* the script: the variables of Merge, and the outputs still to be written
  file, line, current_data, current_field_data, is_in_field_mode, type_name_map,
  global_string_volume, arch, pending,
  \* what it has left: for each output the bytes, and the files they are from
  outputs,
  \* the program: the variables of Loader
  type_table, type_hash_table, is_init, data, reader, loop, pc, copies

compiler == <<source, unit, next, Results, EnumResults, BaseTypes, PendingAliases, output>>
parsed == <<file, line, current_data, current_field_data, is_in_field_mode,
            type_name_map, global_string_volume, arch>>
script == <<parsed, pending>>
program == <<type_table, type_hash_table, is_init, data, reader, loop, pc, copies>>
bounds == <<target, compiles, merges>>
vars == <<bounds, stage, compiler, files, script, outputs, program>>

V == INSTANCE Visitor WITH Units <- {}
M == INSTANCE Merge WITH Directories <- {}

\* The history variable of Loader has no use here.
L == INSTANCE Loader WITH
       arch <- target, source <- type_name_map, Arch <- {}, TypeMaps <- {}, Strings <- <<>>,
       Size <- {}, FieldInfo <- {}, Value <- {}, MaxTypes <- 0, MaxFields <- 0

\* reflection.dat is for reflect_load_bytes, reflection.dat.S is linked.
Outputs == << "dat", "S" >>

Init ==
  /\ target \in DOMAIN Compilations
  /\ stage = "idle" /\ compiles = 0 /\ merges = 0
  /\ source = Nothing /\ unit = Nothing /\ next = 1
  /\ Results = <<>> /\ EnumResults = <<>> /\ BaseTypes = <<>>
  /\ PendingAliases = <<>> /\ output = <<>>
  /\ files = <<>>
  /\ file = 1 /\ line = 1 /\ current_data = M!Empty /\ current_field_data = M!Empty
  /\ is_in_field_mode = FALSE /\ type_name_map = <<>> /\ global_string_volume = <<>>
  /\ arch = -1 /\ pending = Outputs
  /\ outputs = [o \in ToSet(Outputs) |-> [data |-> L!NoData, from |-> <<>>]]
  /\ L!R!Init
  /\ data = L!NoData /\ reader = [offset |-> 0, copy |-> FALSE]
  /\ loop = [types |-> 0, id |-> 0, items |-> 0] /\ pc = "idle" /\ copies = {}

-----------------------------------------------------------------------------
\* The compiler

\* The action makes a consumer, and with it a visitor, for the source.
CreateASTConsumer ==
  /\ stage = "idle" /\ compiles < MaxCompiles
  /\ stage' = "compiling" /\ compiles' = compiles + 1
  /\ \E c \in Compilations[target] : source' = c.source /\ unit' = c.unit
  /\ next' = 1 /\ Results' = <<>> /\ EnumResults' = <<>> /\ PendingAliases' = <<>>
  /\ BaseTypes' = [n \in DOMAIN Builtin |-> [variant |-> "base", size |-> Builtin[n]]]
  /\ output' = <<>>
  /\ UNCHANGED <<target, merges, files, script, outputs, program>>

Visit ==
  /\ stage = "compiling"
  /\ V!SkipTag \/ V!VisitRecordDecl \/ V!VisitEnumDecl \/ V!VisitTypedefDecl
  /\ UNCHANGED <<bounds, stage, source, files, script, outputs, program>>

\* Faulty: the file of a source is kept when it is compiled again.
SavedBeside(saved, f) == Append(saved, f)

\* The file of a source is named after its object file: there is one, and it
\* is now the newest.
Saved(saved, f) ==
  LET old == {k \in DOMAIN saved : saved[k].source = f.source}
  IN  Append(IF old = {} THEN saved ELSE RemoveAt(saved, CHOOSE k \in old : TRUE), f)

\* The traversal ends and the file is written, or cannot be opened: then that
\* of an earlier compilation stays.
HandleTranslationUnit ==
  /\ stage = "compiling"
  /\ V!HandleTranslationUnit
  /\ \/ files' = Saved(files, [source |-> source, unit |-> unit, readable |-> TRUE,
                               lines |-> M!serialize(unit.arch, output')])
     \/ UNCHANGED files
  /\ stage' = "idle"
  /\ UNCHANGED <<bounds, source, script, outputs, program>>

-----------------------------------------------------------------------------
\* The script

StartMerge ==
  /\ stage = "idle" /\ merges < MaxMerges
  /\ stage' = "merging" /\ merges' = merges + 1
  /\ file' = 1 /\ line' = 1 /\ current_data' = M!Empty /\ current_field_data' = M!Empty
  /\ is_in_field_mode' = FALSE /\ type_name_map' = <<>> /\ global_string_volume' = <<>>
  /\ arch' = -1 /\ pending' = Outputs
  /\ UNCHANGED <<target, compiles, compiler, files, outputs, program>>

ParseLine ==
  /\ stage = "merging"
  /\ M!Next
  /\ UNCHANGED <<bounds, stage, compiler, pending, outputs, program>>

Packs == M!Writable(arch, global_string_volume, type_name_map)

\* One output after the other gets the same bytes.
WriteOutput ==
  /\ stage = "merging" /\ M!Done
  /\ Packs
  /\ outputs' = [outputs EXCEPT ![Head(pending)] =
       [data |-> M!write_reflection_dat(arch, global_string_volume, type_name_map),
        from |-> files]]
  /\ pending' = Tail(pending)
  /\ stage' = IF Tail(pending) = <<>> THEN "idle" ELSE stage
  /\ UNCHANGED <<bounds, compiler, files, parsed, program>>

\* Something cannot be packed, or an output cannot be opened: an exception
\* ends the script, and what was not written yet stays as it was.
ScriptFails ==
  /\ stage = "merging" /\ M!Done
  /\ stage' = "idle"
  /\ UNCHANGED <<bounds, compiler, files, script, outputs, program>>

-----------------------------------------------------------------------------
\* The program

StartProgram ==
  /\ stage = "idle"
  /\ \/ /\ outputs["dat"].from # <<>>
        /\ L!reflect_load_bytes(outputs["dat"].data, TRUE)
     \/ /\ outputs["S"].from # <<>>
        /\ L!reflect_load(outputs["S"].data)
  /\ stage' = "loading"
  /\ UNCHANGED <<bounds, compiler, files, script, outputs>>

LoadStep ==
  /\ stage = "loading"
  /\ L!LoadStep
  /\ stage' = IF pc' = "done" THEN "running" ELSE stage
  /\ UNCHANGED <<bounds, compiler, files, script, outputs>>

Exit ==
  /\ stage = "running"
  /\ stage' = "idle"
  /\ type_table' = <<>> /\ type_hash_table' = L!R!hashtable_create(0) /\ is_init' = FALSE
  /\ data' = L!NoData /\ reader' = [offset |-> 0, copy |-> FALSE]
  /\ loop' = [types |-> 0, id |-> 0, items |-> 0] /\ pc' = "idle" /\ copies' = {}
  /\ UNCHANGED <<bounds, compiler, files, script, outputs>>

\* (ScriptFails comes first: TLC then knows that the script can go on without
\* packing a table.)
Running ==
  \/ Visit \/ HandleTranslationUnit
  \/ ParseLine \/ ScriptFails \/ WriteOutput
  \/ LoadStep

Next == CreateASTConsumer \/ StartMerge \/ StartProgram \/ Exit \/ Running

\* A compiler, a script and a load run to their end once started: nothing in
\* them waits.  Nobody has to start one, or to end the program.
Spec == Init /\ [][Next]_vars /\ WF_vars(Running)

-----------------------------------------------------------------------------

\* Each source has at most one file, of a unit for the target; the processes
\* are where their variables say.
TypeOK ==
  /\ stage \in {"idle", "compiling", "merging", "loading", "running"}
  /\ compiles \in 0 .. MaxCompiles /\ merges \in 0 .. MaxMerges
  /\ \A j, k \in DOMAIN files : files[j].source = files[k].source => j = k
  /\ \A k \in DOMAIN files :
       [source |-> files[k].source, unit |-> files[k].unit] \in Compilations[target]
  /\ DOMAIN outputs = ToSet(Outputs)
  /\ pc = "done" <=> stage = "running"

\* const int value = *reflect_get_enum_value(...), as README.md has it: an int
\* has as many values as a word of four bytes.
AsInt(value) ==
  LET v == value % Word[4] IN IF v < Word[4] \div 2 THEN v ELSE v - Word[4]

Variant == << "base", "struct", "union", "enum" >>

\* What the program sees of a type: its slot, and the fields it iterates over
\* with the names of their types.
Seen(t) ==
  LET slot == type_table[t]
      fields == ToSet(L!R!IteratedFields(t))
  IN  [name |-> slot.name, variant |-> Variant[slot.variant], size |-> slot.size,
       fields |-> IF slot.variant = L!R!Enum
                  THEN {[name |-> f.name, value |-> AsInt(f.value)] : f \in fields}
                  ELSE {[name |-> f.name, type |-> type_table[f.type_ptr].name,
                         offset |-> f.offset, ptr_depth |-> f.ptr_depth,
                         arr_size |-> f.arr_size, is_const |-> f.is_const] : f \in fields}]

Known ==
  IF pc # "done" THEN Nothing
  ELSE [n \in {n \in Name : L!R!reflect_type_info_from_name(n) # NULL} |->
          Seen(L!R!reflect_type_info_from_name(n))]

DeclaredBy(fs) == [k \in DOMAIN fs |-> [source |-> fs[k].source, unit |-> fs[k].unit]]

\* The whole does what Reflection promises: a program finds every type that
\* was declared in the files its table was made from, as the newest of them
\* has it, and nothing else; whatever was compiled again, could not be saved,
\* or left half of the outputs behind.
Promise == INSTANCE Reflection WITH
       Compilations <- UNION {Compilations[w] : w \in DOMAIN Compilations},
       Outputs <- ToSet(Outputs),
       declared <- DeclaredBy(files),
       tables <- [o \in ToSet(Outputs) |-> DeclaredBy(outputs[o].from)],
       known <- Known

ImplementsReflection == Promise!Spec

\* Each process ends: no unit, file or table leaves one with nothing to do
\* before its end.
ProcessesEnd == \A s \in {"compiling", "merging", "loading"} : stage = s ~> stage # s

\* "arch = -1  # 8 or 4" (merge.py:13): what was compiled for either word size
\* can be written as a table.
EveryWordIsWritten == stage = "merging" /\ M!Done /\ files # <<>> => Packs
=============================================================================
