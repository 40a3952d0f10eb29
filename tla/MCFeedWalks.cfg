SPECIFICATION MCWalksSpec
CONSTANTS
  Viewers = {1}
  Readers = {1}
  Authors = {"a", "b"}
  Count = 3
  AuthorOf <- MCAuthorOf
  InboxMax = 2
  OutboxMax = 2
  RecentMax = 1
  PageLimit = 1
  Batch = 1
  NoLoad = NoLoad
  NoCall = NoCall
  NotCached = NotCached
  MaxChanges = 1
  WalkCount = 4
  WalkLimit = 2
  Uncached = Uncached
  MaxTakedowns = 2
  Clients = {r1, r2}
  Ranked = {1, 2}
  Scores <- MCScores
  Minutes = 2
  Window = 2
  HotLimit = 1
  NoWindow = NoWindow
  MaxScores = 3
INVARIANTS
  PagesSkipNothing
  PagesShowFollowed
  WalkShowsEachOnce
  HotWalkRepeatsNothing
