CONSTANTS
  s1 = s1
  s2 = s2
  int = int
  sc = sc
  Q = Q
  G = G
  A = A
  P = P
  E = E
  U = U
  q = q
  x = x
  y = y
  e = e
  l = l
  one = one
  minus = minus
  Qt = Qt
  Pt = Pt
  Ut = Ut
  intt = intt
  empty = empty
  EmptyName = empty
  Name <- MCName
  NameLen <- MCNameLen
  Hash <- MCHash
  Word <- MCWord
  Builtin <- MCBuiltin
  Compilations <- MCCompilations
  Nothing = Nothing
  Garbage = Garbage
  NULL = NULL
  Undefined = Undefined
  MaxCompiles = 1
  MaxMerges = 1
SPECIFICATION Spec
INVARIANT EveryWordIsWritten
CHECK_DEADLOCK FALSE
