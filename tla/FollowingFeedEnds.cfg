SPECIFICATION MCSpec
CONSTANTS
  Viewers = {1}
  Readers = {1}
  Authors = {"a", "b"}
  Count = 3
  AuthorOf <- MCAuthorOf
  InboxMax = 2
  OutboxMax = 2
  RecentMax = 1
  PageLimit = 1
  Batch = 1
  NoLoad = NoLoad
  NoCall = NoCall
  NotCached = NotCached
  MaxChanges = 1
INVARIANTS
  FeedEndsAtTheEnd

