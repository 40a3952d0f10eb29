SPECIFICATION MCSpec
CONSTANTS
  VideoCount = 4
  AuthorBy <- MCAuthorBy
  Alike <- MCAlike
  MaxHeat = 1
  Overfetch = 2
  RecallPerSource = 2
  PreRankLimit = 4
  RankLimit = 4
  PageLimit = 3
  NoSnapshot = NoSnapshot
  MaxOwn = 1
  MaxEvents = 1
  Watchable = {w1, w2}
  RequestIds = {q}
  NoRequestId = NoRequestId
  NoProfile = NoProfile
  NoWork = NoWork
  MaxViews = 2
  MaxLikes = 2
  Emails = {e1, e2}
  Subjects = {s}
  Browsers = {b1, b2}
  NoAccount = NoAccount
  NoSubject = NoSubject
  Idle = Idle
  MaxTokens = 2
  People = {p, root}
  Root = root
  Desks = {d1, d2}
  NoDecision = NoDecision
  UploadNames = {n1, n2}
  NoFile = NoFile
  Clients = {c1, c2}
  Keys = {k1, k2}
  NoKey = NoKey
  MaxKeyed = 2
INVARIANTS
  RepeatedOnlyRescored
  NothingExcludedShown
  ProfileFollowsSignals
  ExposedIsSeen
  LinksSpentOnce
  SessionsFollowIdentity
  DecisionsStand
  AssetsMatchFiles
  RepeatsAnswered
CHECK_DEADLOCK FALSE
