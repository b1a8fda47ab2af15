SPECIFICATION StoreSpec
CONSTANTS
  MCSpans = {"page", "detail", "extra", "background", "plain"}
  Workloads <- MCWorkloads
  Spans <- MCSpans
  Service <- MCService
  Caller <- MCCaller
  Parent <- MCParent
  Traced <- MCTraced
  TraceOf <- MCTraceOf
  RequiredPaths <- MCRequiredPaths
  Outside = "outside"
  NoSpan = "none"
  NoTrace = "no trace"
  Productpage = "productpage"
  Workers = {w1, w2}
  NoWorker = NoWorker
  MaxAttempts <- MCMaxAttempts
SYMMETRY WorkerSymmetry
INVARIANTS StoreTypeOK PathsAreReal StoredIsReal
CHECK_DEADLOCK FALSE
