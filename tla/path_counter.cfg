SPECIFICATION Spec
CONSTANTS
  Workloads <- MCWorkloads
  Named <- MCNamed
  Spans <- MCSpans
  NoSpan = "none"
  Service <- MCService
  Parent <- MCParent
  Hops <- MCHops
  CountedPath <- MCCountedPath
  MaxAttempts = 2
INVARIANTS TypeOK HeaderIsTheWay
PROPERTIES CountsTheWay
CHECK_DEADLOCK FALSE
