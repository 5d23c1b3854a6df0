SPECIFICATION Spec
CONSTANTS
  w1 = w1
  w2 = w2
  Null = Null
  Unset = Unset
  Workers = {w1, w2}
  TTL = 3
  MaxTime = 5
INVARIANTS EndedKeyStaysDead KeyHasItsDate
PROPERTIES BornRevokedByOverlap
SYMMETRY Symmetric
