\* A unit is visited once: the run ends when the types are written.
CONSTANTS
  int = int
  sc = sc
  fn = fn
  Q = Q
  R = R
  N = N
  A = A
  B = B
  U = U
  E = E
  q = q
  n = n
  x = x
  y = y
  e = e
  p = p
  a = a
  b = b
  call = call
  Qt = Qt
  Et = Et
  Ut = Ut
  intt = intt
  one = one
  empty = empty
  EmptyName = empty
  NameLen <- MCNameLen
  Word <- MCWord
  Builtin <- MCBuiltin
  Units <- MCUnits
SPECIFICATION Spec
INVARIANT IteratedFieldsHaveTypes
CHECK_DEADLOCK FALSE
