SPECIFICATION Spec
CONSTANTS
  m1 = m1
  m2 = m2
  u1 = u1
  u2 = u2
  Comments = {m1, m2}
  Users = {u1, u2}
  Author <- OneEach
  Clients = {c1, c2}
  NoComment = NoComment
SYMMETRY ClientSymmetry
INVARIANTS
  CountIsExact
PROPERTIES
  BoardSpec
