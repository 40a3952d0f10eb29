SPECIFICATION Spec
CONSTANTS
  like = like
  undo = undo
  Users = {u1, u2}
  Callers = {c1, c2}
  Keys = {like, undo}
  NoKey = NoKey
  NoUser = NoUser
  Shard <- ShardEach
  Target <- TargetEach
  MaxCalls = 3
SYMMETRY Symmetry
VIEW Seen
INVARIANTS
  CountIsExact
  StatesConverge
  LiveCountExact
