SPECIFICATION Spec
CONSTANTS
  MaxEvents = 1
  Workers = {w1, w2}
  Groups = {g1}
  NoWorker = NoWorker
  BatchLimit = 2
  MaxAttempts = 2
  MaxRetries = 0
  MaxFaults = 1
CHECK_DEADLOCK FALSE
SYMMETRY WorkerSymmetry
INVARIANTS
  EventsAccounted
PROPERTIES
  StreamSpec
