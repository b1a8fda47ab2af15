SPECIFICATION Spec
CONSTANTS
  Streams = {c1, c2, c3}
  NoContext = NoContext
PROPERTIES HeldRequestsContinue
CHECK_DEADLOCK FALSE
