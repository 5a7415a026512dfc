CONSTANTS
  i = i
  s = s
  e = e
  x = x
  u = u
  empty = empty
  EmptyName = empty
  Name <- MCName
  NameLen <- MCNameLen
  Hash <- MCHash
  Strings <- MCStrings
  Word <- MCWord
  FieldInfo <- MCFieldInfo
  Size = {4, 8}
  Value = {9, 255, 511}
  MaxTypes = 3
  MaxFields = 2
  Arch = {4, 8}
  TypeMaps <- MCTypeMaps
  Garbage = Garbage
  NULL = NULL
  Undefined = Undefined
SPECIFICATION Spec
INVARIANTS TypeOK RoundTrip NamesResolve WholeFileRead NoDanglingNames
PROPERTIES UsesRegistry LoadReturns
CHECK_DEADLOCK FALSE
