SPECIFICATION FairSpec
CONSTANTS
  Videos = {v1}
  Contents = {x1, x2, x3}
  Owned = {x1, x2}
  Keyed = {}
  Clients = {c1}
  MaxVersion = 2
  NoContent = NoContent
  NoVideo = NoVideo
INVARIANTS
  PublishedWasReviewed
  OpenReviewMatchesVideo
  UnreviewedMediaPrivate
PROPERTIES
  GateSpec
  ReviewLeavesPending
