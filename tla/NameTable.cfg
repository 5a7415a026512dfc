CONSTANTS
  a = a
  b = b
  c = c
  d = d
  Name = {a, b, c, d}
  Hash <- MCHash
  Id = {0, 1}
  Capacity = 2
SPECIFICATION Spec
INVARIANTS TypeOK TableWellFormed
PROPERTY ImplementsNameMap
