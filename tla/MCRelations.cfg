SPECIFICATION FairSpec
CONSTANTS
  Users = {u1, u2}
  Clients = {c1, c2}
  Keys = {k}
  NoKey = NoKey
  NoClient = NoClient
  MaxCalls = 3
  MaxMeasures = 1
INVARIANTS
  CountsOffByBlocks
  BlocksEndFollows
  EventsTellRows
PROPERTIES
  EveryRequestEnds
