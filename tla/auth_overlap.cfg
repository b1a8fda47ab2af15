SPECIFICATION Spec
CONSTANTS
  Streams = {c1, c2, c3, e1}
  Early = {e1}
  Hello = {c1, c2, e1}
INVARIANTS TypeOK OwnTokenDecides RefusalTakesEffect
PROPERTIES AskedIsDecided KeepsGate
CHECK_DEADLOCK FALSE
