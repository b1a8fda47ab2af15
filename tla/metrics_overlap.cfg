SPECIFICATION Spec
CONSTANTS
  Conns = {c1, c2, c3}
INVARIANTS TypeOK StoredOnce StoredInOrder QueueIsWhatWaits StoredStays
PROPERTIES EnqueuedIsSettled
CHECK_DEADLOCK FALSE
