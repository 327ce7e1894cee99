SPECIFICATION Spec
CONSTANTS
  a = a
  b = b
  c = c
  Item = {a, b, c}
  Pri <- PriABC
  NULL = NULL
INVARIANTS ListIntact ServedInOrder
PROPERTIES IsQueue
