SPECIFICATION MCSpec
CONSTANTS
  Videos = {v}
  Apis = {x, y}
  Requests = {r1, r2}
  Nothing = Nothing
  MaxModerations = 1
PROPERTIES
  PagesCatchUp
