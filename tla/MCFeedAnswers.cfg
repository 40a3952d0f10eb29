SPECIFICATION MCSpec
CONSTANTS
  Calls = {c1, c2, c3}
  MaxInflight = 2
  Threshold = 2
  MaxRetries = 1
  Videos = {v}
  Apis = {x, y}
  Requests = {r1, r2}
  Nothing = Nothing
  MaxModerations = 2
  Messages = {m1, m2}
  MaxRequeues = 1
  MaxLosses = 1
  Offered <- MCOffered
  WrittenBy <- MCWrittenBy
  MixLimit = 2
  MaxExposed = 1
INVARIANTS
  SourceGuarded
  HiddenNotShown
  WalkAddsUp
PROPERTIES
  HalfOpenEnds
  CardsComeBack
  EveryQueueHandles
