SPECIFICATION FairSpec
CONSTANTS
  MaxEvents = 2
  Workers = {w1}
  Groups = {g1}
  NoWorker = NoWorker
  BatchLimit = 2
  MaxAttempts = 2
  MaxRetries = 0
  MaxFaults = 1
CHECK_DEADLOCK FALSE
PROPERTIES
  ProcessedNotRepeated
  EveryGroupSettles
