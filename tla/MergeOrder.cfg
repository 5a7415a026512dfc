CONSTANTS
  int = int
  E = E
  S = S
  E_t = E_t
  x = x
  empty = empty
  EmptyName = empty
  NameLen <- MCNameLen
  Word <- MCWord
  Directories <- MCTwoUnits
SPECIFICATION Spec
INVARIANT NewestFileDecides
CHECK_DEADLOCK FALSE
