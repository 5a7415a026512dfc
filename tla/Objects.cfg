CONSTANTS
  a = a
  b = b
  S = S
  U = U
  void = void
  Name = {a, b}
  Hash <- MCHash
  Type = {S, U, void}
  TypeSlot <- MCTypeSlot
  Memory = 5
  Value = {v, w}
  NULL = NULL
CONSTANT Allocator = {malloc, arena}
CONSTANT Scrubs = {TRUE, FALSE}
SPECIFICATION Spec
INVARIANTS TypeOK ObjectKeepsType StoredValuesStay AllocatorsKept NothingLeaks
INVARIANT PlainDataIsTold
SYMMETRY MCSymmetry
