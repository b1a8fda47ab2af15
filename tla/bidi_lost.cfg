SPECIFICATION Spec
CONSTANTS
  MCSpans = {"page", "detail", "review"}
  Retried = {}
  Workloads <- MCWorkloads
  Spans <- MCSpans
  Service <- MCService
  Caller <- MCCaller
  Parent <- MCParent
  Traced <- MCTraced
  RequiredPaths <- MCRequiredPaths
  Outside = "outside"
  NoSpan = "none"
  Productpage = "productpage"
  Workers = {w1, w2}
  NoWorker = NoWorker
  MaxAttempts <- MCMaxAttempts
INVARIANTS CollectedStays
CHECK_DEADLOCK FALSE
