SPECIFICATION Spec
CONSTANTS
  Streams = {c1, c2}
  Early = {}
  Hello = {c1}
INVARIANTS CallbackHasContext
CHECK_DEADLOCK FALSE
