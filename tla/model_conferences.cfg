CONSTANTS
  CallId = {c1, c2, c3}
  ConfId = {f1, f2}
  Running = {c1, c2, c3}
  Source = {"foreign"}
  Endings = {"HUNGUP"}
  AutoAnswers = {"MANUAL"}
  EarlySignals = FALSE
  MaxCalls = 2
  MaxQueue = 2
SPECIFICATION Spec
INVARIANT
  TypeOK
  LiveCallIsKept
  ConferencesAgree
\* The daemon may have nothing left to report.
CHECK_DEADLOCK FALSE
