CONSTANTS
  int = int
  E = E
  S = S
  E_t = E_t
  x = x
  empty = empty
  EmptyName = empty
  NameLen <- MCNameLen
  Word <- MCWord
  Directories <- MCDirectories
SPECIFICATION Spec
INVARIANTS TypeOK NewestDefinitions StringsInPlace
CHECK_DEADLOCK FALSE
