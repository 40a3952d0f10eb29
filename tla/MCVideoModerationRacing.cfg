SPECIFICATION Spec
CONSTANTS
  Videos = {v1}
  Contents = {x1}
  Owned = {x1}
  Keyed = {v1}
  Clients = {c1, c2}
  MaxVersion = 2
  NoContent = NoContent
  NoVideo = NoVideo
SYMMETRY ClientSymmetry
INVARIANTS
  PublicHasApproval
  PublishedIsAnnounced
