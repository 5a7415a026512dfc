CONSTANTS
  a = a
  b = b
  Name = {a, b}
  Hash <- MCHash
  Size = {4}
  FieldInfo <- MCFieldInfo
  Value = {7}
  MaxTypes = 2
  MaxFields = 2
  Garbage = Garbage
  NULL = NULL
  Undefined = Undefined
SPECIFICATION Spec
INVARIANTS TypeOK NamesReachFilledTypes TypeNamesResolve FieldLookupCorrect
PROPERTY FilledStaysFilled
CHECK_DEADLOCK FALSE
