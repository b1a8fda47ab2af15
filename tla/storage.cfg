SPECIFICATION Spec
CONSTANTS
  Requests = {"r1", "r2", "r3"}
  Matches = {"m1", "m2"}
  Traces = {"t1", "t2"}
  NoTrace = "no trace"
  NoCall = "no call"
  Unknown = "unknown"
  TraceOf <- MCTraceOf
INVARIANTS TypeOK ValueIsOfItsTrace AnsweredIsThere NeverGoesBack
CHECK_DEADLOCK FALSE
