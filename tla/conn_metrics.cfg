SPECIFICATION Spec
CONSTANTS
  Conns = {c1, k1}
  Collected = {k1}
  Sizes = {1, 3}
  SizeWords = 4
  TimeWords = 8
  StartTime = 4
  MaxTime = 6
  MaxElapsed = 2
  MaxBytes = 5
INVARIANTS TypeOK BytesAreExact LatencyIsTrue EpochTellsUntimed
CHECK_DEADLOCK FALSE
