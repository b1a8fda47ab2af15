SPECIFICATION Spec
CONSTANTS
  Streams = {c1, c2, c3, c4}
  NoContext = NoContext
INVARIANTS TypeOK TimerServesHold HeldIsRemembered
PROPERTIES NewestHoldEnds KeepsPromise
CHECK_DEADLOCK FALSE
