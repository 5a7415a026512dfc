------------------------------- MODULE Merge -------------------------------
(***************************************************************************)
(* merge/merge.py, parse_reflection_files: the *.reflection.dat text of    *)
(* every translation unit is read line by line, oldest file first, into    *)
(* type_name_map and global_string_volume.  The text is what               *)
(* plugin/ReflectionDataSerializer.cpp writes of a translation unit.       *)
(*                                                                         *)
(* A dict is a sequence of its values in insertion order when its keys are *)
(* names, and a record with the keys that are there otherwise.             *)
(***************************************************************************)
EXTENDS ReflectionDat

CONSTANTS
  Directories   \* what glob may find: sequences of files, oldest first, each
                \* with the arch and the types of its unit, the lines of text
                \* these were written as, and whether it can be read

VARIABLES
  files,                 \* the directory being merged
  file, line,            \* the place of the two loops
  current_data,          \* the object being read
  current_field_data,    \* its field or enumerator being read
  is_in_field_mode,
  type_name_map,
  global_string_volume,  \* the strings in order, each with its offset
  arch

object == <<current_data, current_field_data, is_in_field_mode>>
vars == <<files, file, line, object, type_name_map, global_string_volume, arch>>

-----------------------------------------------------------------------------
\* ReflectionDataSerializer::serialize, one record per line of text.

Line(command, arg) == [command |-> command, arg |-> arg]

FieldLines(d, f) ==
  IF d.type = "enum"
  THEN << Line("enumerator", ""), Line("ek", f.name), Line("ev", f.value) >>
  ELSE << Line("field", ""), Line("name", f.name), Line("type", f.type),
          Line("offset", f.offset), Line("pdepth", f.pdepth),
          Line("arrsize", f.arrsize), Line("const", f.const),
          Line("isstruct", f.struct) >>

\* An alias that repeats the name of the type is not written.
Aliases(d) == Selected(d.aliases, {k \in DOMAIN d.aliases : d.aliases[k] # d.name})

TypeLines(d) ==
  << Line(d.type, ""), Line("name", d.name) >>
  \o [k \in DOMAIN Aliases(d) |-> Line("alias", Aliases(d)[k])]
  \o << Line("size", d.size) >>
  \o FlattenSeq([k \in DOMAIN d.fields |-> FieldLines(d, d.fields[k])])

serialize(width, types) ==
  << Line("arch", width) >>
  \o FlattenSeq([k \in DOMAIN types |-> TypeLines(types[k])])

\* What the plugin hands to serialize: a base type has nothing but its name
\* and size.
IsEntry(d) ==
  /\ d.type \in {"base", "struct", "union", "enum"}
  /\ d.name \in DOMAIN NameLen
  /\ d.aliases \in Seq(DOMAIN NameLen)
  /\ d.fields \in Seq(ToSet(d.fields))
  /\ \A f \in ToSet(d.fields) :
       f.name \in DOMAIN NameLen /\ (d.type # "enum" => f.type \in DOMAIN NameLen)
  /\ d.type = "base" => d.fields = <<>> /\ d.aliases = <<>>

\* The only writer of a file that can be read is the plugin.
ASSUME DirectoriesAssumption ==
  \A directory \in Directories :
    /\ directory \in Seq(ToSet(directory))
    /\ \A k \in DOMAIN directory :
         LET f == directory[k]
         IN  f.readable =>
               /\ f.arch \in DOMAIN Word
               /\ f.types \in Seq(ToSet(f.types))
               /\ \A d \in ToSet(f.types) : IsEntry(d)
               /\ f.lines = serialize(f.arch, f.types)

-----------------------------------------------------------------------------
\* parse_reflection_files

Empty == <<>>   \* {}

Keys(dict) == DOMAIN dict
Appended(dict, key, v) ==
  Set(dict, key, Append(IF key \in Keys(dict) THEN dict[key] ELSE <<>>, v))

\* Faulty: the definition that is there stays.
PutOldest(m, d) == IF d.name \in TypeNames(m) THEN m ELSE Append(m, d)

\* type_name_map[d["name"]] = d: a key that is there keeps its place.
Put(m, d) ==
  IF d.name \in TypeNames(m)
  THEN [m EXCEPT ![SelectInSeq(m, LAMBDA e : e.name = d.name)] = d]
  ELSE Append(m, d)

\* current_data after flush_current_field_data.
FlushedData ==
  IF is_in_field_mode /\ "name" \in Keys(current_field_data)
  THEN Appended(current_data, "fields", current_field_data)
  ELSE current_data

\* type_name_map after flush_current_data, which flushes the field first.
FlushedMap ==
  IF {"type", "name"} \subseteq Keys(FlushedData)
  THEN Put(type_name_map, FlushedData)
  ELSE type_name_map

\* A string met for the first time is written after the others; its offset
\* counts the header of the arch known by then.
AddString(s) ==
  global_string_volume' =
    IF \E k \in DOMAIN global_string_volume : global_string_volume[k].name = s
    THEN global_string_volume
    ELSE Append(global_string_volume,
                [name |-> s,
                 offset |-> Bytes(arch, StringCells(StringsOf(global_string_volume))) + arch * 2])

Init ==
  /\ files \in Directories
  /\ file = 1
  /\ line = 1
  /\ current_data = Empty
  /\ current_field_data = Empty
  /\ is_in_field_mode = FALSE
  /\ type_name_map = <<>>
  /\ global_string_volume = <<>>
  /\ arch = -1

\* The line at hand is one of these commands, and is done with.
Read(commands) ==
  /\ file <= Len(files)
  /\ files[file].readable
  /\ line <= Len(files[file].lines)
  /\ files[file].lines[line].command \in commands
  /\ line' = line + 1
  /\ UNCHANGED <<files, file>>

command == files[file].lines[line].command
arg == files[file].lines[line].arg

\* Faulty: the width in bits.
ReadArchBits ==
  /\ Read({"arch"})
  /\ arch' = arg * 8
  /\ global_string_volume' = IF arch = -1 THEN <<>> ELSE global_string_volume
  /\ UNCHANGED <<object, type_name_map>>

\* The first arch line starts a new string volume.
ReadArch ==
  /\ Read({"arch"})
  /\ arch' = arg
  /\ global_string_volume' = IF arch = -1 THEN <<>> ELSE global_string_volume
  /\ UNCHANGED <<object, type_name_map>>

ReadObject ==
  /\ Read({"base", "enum", "struct", "union"})
  /\ type_name_map' = FlushedMap
  /\ current_data' = IF command = "base" THEN [type |-> "base"]
                     ELSE [type |-> command, fields |-> <<>>, aliases |-> <<>>]
  /\ current_field_data' = IF is_in_field_mode THEN Empty ELSE current_field_data
  /\ is_in_field_mode' = FALSE
  /\ UNCHANGED <<global_string_volume, arch>>

ReadField ==
  /\ Read({"field", "enumerator"})
  /\ current_data' = FlushedData
  /\ current_field_data' = IF is_in_field_mode THEN Empty ELSE current_field_data
  /\ is_in_field_mode' = TRUE
  /\ UNCHANGED <<type_name_map, global_string_volume, arch>>

\* The name of the field at hand, or of the object when there is none.
ReadName ==
  /\ Read({"name"})
  /\ AddString(arg)
  /\ IF is_in_field_mode
     THEN /\ current_field_data' = Set(current_field_data, "name", arg)
          /\ UNCHANGED current_data
     ELSE /\ current_data' = Set(current_data, "name", arg)
          /\ UNCHANGED current_field_data
  /\ UNCHANGED <<is_in_field_mode, type_name_map, arch>>

\* Faulty: the string is not added to the volume.
ReadAliasUnstored ==
  /\ Read({"alias"})
  /\ current_data' = Appended(current_data, "aliases", arg)
  /\ UNCHANGED <<current_field_data, is_in_field_mode, type_name_map,
                 global_string_volume, arch>>

ReadAlias ==
  /\ Read({"alias"})
  /\ AddString(arg)
  /\ current_data' = Appended(current_data, "aliases", arg)
  /\ UNCHANGED <<current_field_data, is_in_field_mode, type_name_map, arch>>

ReadSize ==
  /\ Read({"size"})
  /\ current_data' = Set(current_data, "size", arg)
  /\ UNCHANGED <<current_field_data, is_in_field_mode, type_name_map,
                 global_string_volume, arch>>

\* Columns of a field that are strings, and the key each is kept under.
ReadString ==
  /\ Read({"ek", "type"})
  /\ AddString(arg)
  /\ current_field_data' =
       Set(current_field_data, IF command = "ek" THEN "name" ELSE "type", arg)
  /\ UNCHANGED <<current_data, is_in_field_mode, type_name_map, arch>>

\* Columns of a field that are numbers or flags.
ReadColumn ==
  /\ Read({"ev", "offset", "pdepth", "arrsize", "const", "isstruct"})
  /\ current_field_data' =
       Set(current_field_data,
           CASE command = "ev"       -> "value"
             [] command = "isstruct" -> "struct"
             [] OTHER                -> command, arg)
  /\ UNCHANGED <<current_data, is_in_field_mode, type_name_map,
                 global_string_volume, arch>>

\* Faulty: the last object of a file is not flushed.
EndFileUnflushed ==
  /\ file <= Len(files)
  /\ files[file].readable
  /\ line > Len(files[file].lines)
  /\ current_data' = Empty
  /\ current_field_data' = Empty
  /\ is_in_field_mode' = FALSE
  /\ file' = file + 1
  /\ line' = 1
  /\ UNCHANGED <<files, type_name_map, global_string_volume, arch>>

\* The last object and field of the file are flushed; the next file starts
\* with nothing at hand.
EndFile ==
  /\ file <= Len(files)
  /\ files[file].readable
  /\ line > Len(files[file].lines)
  /\ type_name_map' = FlushedMap
  /\ current_data' = Empty
  /\ current_field_data' = Empty
  /\ is_in_field_mode' = FALSE
  /\ file' = file + 1
  /\ line' = 1
  /\ UNCHANGED <<files, global_string_volume, arch>>

\* A file that cannot be opened is reported and left out.
SkipFile ==
  /\ file <= Len(files)
  /\ ~files[file].readable
  /\ file' = file + 1
  /\ UNCHANGED <<files, line, object, type_name_map, global_string_volume, arch>>

Next ==
  \/ ReadArch \/ ReadObject \/ ReadField \/ ReadName \/ ReadAlias
  \/ ReadSize \/ ReadString \/ ReadColumn \/ EndFile \/ SkipFile

Spec == Init /\ [][Next]_vars

-----------------------------------------------------------------------------

Done == file > Len(files)

\* The types of the files that could be read, one after the other.
Definitions ==
  FlattenSeq([k \in DOMAIN files |-> IF files[k].readable THEN files[k].types ELSE <<>>])

\* The variables have their types.
TypeOK ==
  /\ files \in Directories
  /\ file \in 1 .. Len(files) + 1
  /\ line \in Nat \ {0}
  /\ is_in_field_mode \in BOOLEAN
  /\ arch \in {-1, 4, 8}
  /\ \A k \in DOMAIN type_name_map :
       type_name_map[k].type \in {"base", "struct", "union", "enum"}
  /\ \A k \in DOMAIN global_string_volume :
       global_string_volume[k].offset \in Nat

\* What a field and a definition are in the map.
Columns(d, f) ==
  IF d.type = "enum" THEN [name |-> f.name, value |-> f.value]
  ELSE [name |-> f.name, type |-> f.type, offset |-> f.offset, pdepth |-> f.pdepth,
        arrsize |-> f.arrsize, const |-> f.const, struct |-> f.struct]

Parsed(d) ==
  IF d.type = "base" THEN [type |-> d.type, name |-> d.name, size |-> d.size]
  ELSE [type |-> d.type, name |-> d.name, size |-> d.size, aliases |-> Aliases(d),
        fields |-> [k \in DOMAIN d.fields |-> Columns(d, d.fields[k])]]

\* Reading back what the units wrote gives, for each name, the definition of
\* the newest file that has one, complete with its fields and aliases, and
\* nothing else; the order is that of the oldest definitions.  No field, name
\* or size ends up in another object, at a change of object or of file, or
\* when a file is missing (merge.py:78-187).
NewestDefinitions ==
  Done =>
    LET defined(name) == {i \in DOMAIN Definitions : Definitions[i].name = name}
    IN  /\ TypeNames(type_name_map) = TypeNames(Definitions)
        /\ \A k \in DOMAIN type_name_map :
             type_name_map[k] = Parsed(Definitions[Max(defined(type_name_map[k].name))])
        /\ \A j, k \in DOMAIN type_name_map :
             j < k => Min(defined(type_name_map[j].name))
                        < Min(defined(type_name_map[k].name))

\* The files that can be read are for one and the same word size.
OneArch ==
  \A j, k \in 1 .. Len(files) :
    files[j].readable /\ files[k].readable => files[j].arch = files[k].arch

\* Every string the table will refer to is in the volume, once, at the offset
\* where write_reflection_dat puts it, provided the files are of one arch:
\* writing neither fails for want of a key nor points into another string
\* (merge.py:134-160 against 210 and 260-263).
StringsInPlace ==
  Done =>
    LET strings == StringsOf(global_string_volume)
    IN  /\ \A k \in DOMAIN type_name_map :
             LET d == type_name_map[k]
             IN  /\ Contains(strings, d.name)
                 /\ d.type # "base" =>
                      /\ ToSet(d.aliases) \subseteq ToSet(strings)
                      /\ \A j \in DOMAIN d.fields : Contains(strings, d.fields[j].name)
        /\ \A j, k \in DOMAIN strings : strings[j] = strings[k] => j = k
        /\ OneArch => global_string_volume = Noted(arch, strings)

\* "Sort files by modification time (oldest first so that newer definitions
\* override)" (merge.py:66): the newest file that gives a meaning to a name
\* decides what type a program finds under it.
NewestFileDecides ==
  Done =>
    LET read == SelectSeq(files, LAMBDA f : f.readable)
    IN  \A k \in DOMAIN read :
          \A name \in UNION {{d.name} \cup ToSet(d.aliases) : d \in ToSet(read[k].types)} :
            (\A j \in DOMAIN read : j > k => Claimants(read[j].types, name) = {}) =>
              Claimed(type_name_map, name).name = Claimed(read[k].types, name).name
=============================================================================
