SPECIFICATION Spec
CONSTANTS
  MCSpans = {"page", "detail", "review", "rating"}
  Retried = {"page", "detail", "review"}
  Workloads <- MCWorkloads
  Spans <- MCSpans
  Service <- MCService
  Caller <- MCCaller
  Parent <- MCParent
  Traced <- MCTraced
  RequiredPaths <- MCRequiredPaths
  Outside = "outside"
  NoSpan = "none"
  Productpage = "productpage"
  Workers = {w1, w2}
  NoWorker = NoWorker
  MaxAttempts <- MCMaxAttempts
SYMMETRY WorkerSymmetry
INVARIANTS TypeOK PathsAreReal NothingLost
PROPERTIES CountsRealRequests NeverBare CountsEveryMatch KeepsLedger
CHECK_DEADLOCK FALSE
