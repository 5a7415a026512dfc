CONSTANTS
  a = a
  b = b
  S = S
  U = U
  void = void
  Name = {a, b}
  Hash <- MCHash
  Type = {S, U}
  TypeSlot <- MCTypeSlot
  Memory = 5
  Value = {v, w}
  NULL = NULL
CONSTANT Allocator = {arena}
CONSTANT Scrubs = {FALSE}
SPECIFICATION Spec
INVARIANT PlainDataHasNoType
